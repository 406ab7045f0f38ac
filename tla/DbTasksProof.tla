---------------------------- MODULE DbTasksProof ----------------------------
(***************************************************************************)
(* The DB tasks keep their promises for any number of workers, names,      *)
(* passwords, tokens and pooled connections, whatever Redis and MySQL      *)
(* lose on the way.                                                        *)
(***************************************************************************)
EXTENDS DbTasks, TLAPS

USE DbTasksAssumption
    DEF redisVars, mysqlVars, storeVars, historyVars, RedisSteps

----------------------------------------------------------------------------
(* The inductive invariant.                                                *)

PoolStates == {"idle", "get", "wait", "use", "discard", "failed"}
Values == Names \cup Passwords \cup {None}
Replies == [status : {"Ok", "NotFound", "Refused"}, value : Values]
Tasks ==
    [op : {"register"}, name : Names, password : Passwords, token : {None}] \cup
    [op : {"login"}, name : Names, password : Passwords, token : Tokens] \cup
    [op : {"profile", "logout"}, name : {None}, password : {None}, token : Tokens \cup {None}]

Typed ==
    /\ users \in [Names -> Passwords \cup {None}]
    /\ cache \in [Names -> Passwords \cup {None}]
    /\ sessions \in [Tokens -> Names \cup {None}]
    /\ pc \in [Workers -> RedisSteps \cup {"idle", "mysql", "insert", "leave", "endQuery", "compare"}]
    /\ answer \in [Workers -> {0, 200, 401, 409, 500, 503}]
    /\ task \in [Workers -> Tasks \cup {None}]
    /\ reply \in [Workers -> Replies \cup {None}]
    /\ dbPassword \in [Workers -> Values]
    /\ rupc \in [Workers -> PoolStates] /\ mupc \in [Workers -> PoolStates]

\* The connections of MySQL, whichever are dead.
Connected ==
    /\ mpool \in Seq(MysqlHandles) /\ mheld \in [Workers -> MysqlHandles \cup {NoHandle}]
    /\ \A w \in Workers : mupc[w] = "use" => mheld[w] \in MysqlHandles
    /\ dead \subseteq MysqlHandles

\* The steps with a MySQL connection in the guard.
Guarded == {"insert", "leave", "endQuery", "cacheSet"}

\* Which step of which task has answered, awaits a reply, and takes part in a pool.
Control(w) ==
    /\ pc[w] # "idle" => task[w] \in Tasks
    /\ pc[w] = "insert" => task[w].op = "register"
    /\ pc[w] \in {"mysql", "leave"} => task[w].op \in {"register", "login"}
    /\ pc[w] \in {"cacheGet", "cacheSet", "endQuery", "compare", "sessionSet"} => task[w].op = "login"
    /\ pc[w] \in {"sessionGet", "sessionDel"} => task[w].op \in {"profile", "logout"}
    /\ pc[w] = "leave" => answer[w] # 0
    /\ pc[w] \notin {"idle", "leave"} => answer[w] = 0
    /\ pc[w] \notin RedisSteps => rupc[w] = "idle" /\ reply[w] = None
    /\ pc[w] \in Guarded => mupc[w] = "use"
    /\ pc[w] \notin Guarded \cup {"mysql"} => mupc[w] = "idle"

\* A login whose session has not been written yet.
Unwritten(w) == pc[w] # "idle" /\ task[w].op = "login" /\ ~(pc[w] = "sessionSet" /\ reply[w] # None)

\* What the locals of a task say of the stores.
Data(w) ==
    /\ pc[w] = "cacheSet" => dbPassword[w] # None /\ dbPassword[w] = users[task[w].name]
    /\ pc[w] # "idle" /\ task[w].op = "login" => task[w].token \in drawn \ handed
    /\ Unwritten(w) => task[w].token \notin ended /\ sessions[task[w].token] = None
    /\ pc[w] = "sessionSet" /\ reply[w] # None /\ reply[w].status # "Refused" =>
          sessions[task[w].token] # None \/ task[w].token \in ended
    /\ pc[w] \in {"sessionGet", "sessionDel"} =>
          /\ task[w].token \in handed \cup {None}
          /\ reply[w] # None /\ reply[w].status = "NotFound" => task[w].token \in ended \cup {None}

\* No two logins draw the same token.
Distinct ==
    \A v, w \in Workers :
        /\ pc[v] # "idle" /\ task[v].op = "login" /\ pc[w] # "idle" /\ task[w].op = "login"
        /\ task[v].token = task[w].token
        => v = w

Stored ==
    /\ drawn \subseteq Tokens /\ handed \subseteq drawn /\ ended \subseteq drawn
    /\ \A t \in Tokens : sessions[t] # None => t \in drawn
    /\ winners \subseteq Names \X Passwords
    /\ \A x \in winners : users[x[1]] = x[2]
    /\ CacheCoherent
    /\ TokenGood

DInv ==
    /\ Typed /\ Connected /\ Distinct /\ Stored
    /\ \A w \in Workers : Control(w) /\ Data(w)

----------------------------------------------------------------------------
(* What a call of a pool does to the threads in it.                        *)

\* The others stay, or one that slept is woken up.
Stirred(upc, next, w) ==
    \A v \in Workers \ {w} : next[v] = upc[v] \/ (upc[v] = "wait" /\ next[v] = "get")

LEMMA RedisPutBack ==
    ASSUME rupc \in [Workers -> PoolStates], NEW w \in Workers, rupc[w] # "wait",
           NEW h, Redis!PutBack(w, h)
    PROVE  rupc'[w] = "idle" /\ Stirred(rupc, rupc', w) /\ rupc' \in [Workers -> PoolStates]
<1>1. CASE rupc' = [rupc EXCEPT ![w] = "idle"]
  BY <1>1 DEF Stirred, PoolStates
<1>2. ASSUME NEW v \in Workers, rupc[v] = "wait", rupc' = [rupc EXCEPT ![w] = "idle", ![v] = "get"]
      PROVE  rupc'[w] = "idle" /\ Stirred(rupc, rupc', w) /\ rupc' \in [Workers -> PoolStates]
  BY <1>2 DEF Stirred, PoolStates
<1> QED BY <1>1, <1>2 DEF Redis!PutBack, Redis!Sleepers

LEMMA RedisGets ==
    ASSUME rupc \in [Workers -> PoolStates], NEW w \in Workers, Redis!GetConn(w) \/ Redis!Getting(w)
    PROVE  Stirred(rupc, rupc', w) /\ rupc' \in [Workers -> PoolStates]
BY DEF Redis!GetConn, Redis!Getting, Redis!Acquire, Redis!Block, Redis!SpuriousWakeup, Redis!Expire,
   Redis!Pop, Stirred, PoolStates

\* get, setex and del are over.
LEMMA RedisEnds ==
    ASSUME rupc \in [Workers -> PoolStates], NEW w \in Workers,
           Redis!Fail(w) \/ Redis!Reply(w) \/ Redis!DiscardBrokenConn(w)
    PROVE  rupc'[w] = "idle" /\ Stirred(rupc, rupc', w) /\ rupc' \in [Workers -> PoolStates]
<1>1. CASE rupc' = [rupc EXCEPT ![w] = "idle"]
  BY <1>1 DEF Stirred, PoolStates
<1>2. ASSUME rupc[w] # "wait", NEW h, Redis!PutBack(w, h)
      PROVE  rupc'[w] = "idle" /\ Stirred(rupc, rupc', w) /\ rupc' \in [Workers -> PoolStates]
  BY <1>2, RedisPutBack
<1> QED BY <1>1, <1>2 DEF Redis!Fail, Redis!Reply, Redis!ReleaseConn, Redis!DiscardBrokenConn

LEMMA MysqlGets ==
    ASSUME Connected, mupc \in [Workers -> PoolStates], NEW w \in Workers,
           Mysql!GetConn(w) \/ Mysql!Getting(w), dead' = dead
    PROVE  Stirred(mupc, mupc', w) /\ mupc' \in [Workers -> PoolStates] /\ Connected'
<1>1. CASE /\ UNCHANGED <<mpool, mheld>>
           /\ \E p \in {"get", "wait", "failed"} : mupc' = [mupc EXCEPT ![w] = p]
  BY <1>1 DEF Stirred, PoolStates, Connected
<1>2. CASE Mysql!Pop(w)
  <2>1. /\ mpool # <<>> /\ mheld' = [mheld EXCEPT ![w] = Head(mpool)] /\ mpool' = Tail(mpool)
        /\ mupc' = [mupc EXCEPT ![w] = "use"]
    BY <1>2 DEF Mysql!Pop
  <2>2. Head(mpool) \in MysqlHandles /\ Tail(mpool) \in Seq(MysqlHandles)
    BY <2>1 DEF Connected
  <2> DEFINE h == Head(mpool)
  <2> HIDE DEF h
  <2> QED BY <2>1, <2>2 DEF Stirred, PoolStates, Connected
<1> QED BY <1>1, <1>2 DEF Mysql!GetConn, Mysql!Getting, Mysql!Acquire, Mysql!Block, Mysql!SpuriousWakeup,
                         Mysql!Expire

\* ~MysqlGuard, and a guard that is empty.
LEMMA MysqlEnds ==
    ASSUME Connected, mupc \in [Workers -> PoolStates], NEW w \in Workers,
           Mysql!Fail(w) \/ Mysql!ReleaseConn(w), dead' = dead
    PROVE  mupc'[w] = "idle" /\ Stirred(mupc, mupc', w) /\ mupc' \in [Workers -> PoolStates] /\ Connected'
<1>1. CASE Mysql!Fail(w)
  BY <1>1 DEF Mysql!Fail, Stirred, PoolStates, Connected
<1>2. CASE Mysql!ReleaseConn(w)
  <2>1. /\ mupc[w] = "use" /\ mheld[w] \in MysqlHandles
        /\ mpool' = Append(mpool, mheld[w]) /\ mheld' = [mheld EXCEPT ![w] = NoHandle]
    BY <1>2 DEF Mysql!ReleaseConn, Mysql!PutBack, Connected
  <2>2. /\ mupc'[w] = "idle" /\ mupc' \in [Workers -> PoolStates]
        /\ Stirred(mupc, mupc', w)
    <3>1. CASE mupc' = [mupc EXCEPT ![w] = "idle"]
      BY <3>1 DEF Stirred, PoolStates
    <3>2. ASSUME NEW v \in Workers, mupc[v] = "wait", mupc' = [mupc EXCEPT ![w] = "idle", ![v] = "get"]
          PROVE  /\ mupc'[w] = "idle" /\ mupc' \in [Workers -> PoolStates] /\ Stirred(mupc, mupc', w)
      BY <2>1, <3>2 DEF Stirred, PoolStates
    <3> QED BY <1>2, <3>1, <3>2 DEF Mysql!ReleaseConn, Mysql!PutBack, Mysql!Sleepers
  <2>3. mpool' \in Seq(MysqlHandles) /\ mheld' \in [Workers -> MysqlHandles \cup {NoHandle}]
    BY <2>1 DEF Connected
  <2>4. \A v \in Workers : mupc'[v] = "use" => mheld'[v] \in MysqlHandles
    BY <2>1, <2>2 DEF Connected, Stirred
  <2> QED BY <2>2, <2>3, <2>4 DEF Connected
<1> QED BY <1>1, <1>2

----------------------------------------------------------------------------
(* The steps of a task.                                                    *)

\* A step of w leaves the tasks of the others alone.
Others(w) ==
    \A v \in Workers \ {w} : /\ pc'[v] = pc[v] /\ task'[v] = task[v] /\ answer'[v] = answer[v]
                             /\ reply'[v] = reply[v] /\ dbPassword'[v] = dbPassword[v]

LEMMA OthersControl ==
    ASSUME DInv, NEW w \in Workers, Others(w), Stirred(rupc, rupc', w), Stirred(mupc, mupc', w),
           Control(w)'
    PROVE  \A v \in Workers : Control(v)'
<1> SUFFICES ASSUME NEW v \in Workers \ {w} PROVE Control(v)'
  OBVIOUS
<1>1. /\ pc'[v] = pc[v] /\ task'[v] = task[v] /\ answer'[v] = answer[v] /\ reply'[v] = reply[v]
      /\ rupc'[v] = rupc[v] \/ (rupc[v] = "wait" /\ rupc'[v] = "get")
      /\ mupc'[v] = mupc[v] \/ (mupc[v] = "wait" /\ mupc'[v] = "get")
  BY Zenon DEF Others, Stirred
<1>2. Control(v)
  BY DEF DInv
<1> QED BY <1>1, <1>2 DEF Control, Guarded

\* A worker that goes on at next, or ends.
LEMMA Advanced ==
    ASSUME Typed, NEW w \in Workers,
           NEW next \in RedisSteps \cup {"idle", "mysql", "insert", "leave", "endQuery", "compare"},
           Advance(w, next)
    PROVE  /\ pc'[w] = next /\ (next # "idle" => task'[w] = task[w])
           /\ pc' \in [Workers -> RedisSteps \cup {"idle", "mysql", "insert", "leave", "endQuery", "compare"}]
           /\ task' \in [Workers -> Tasks \cup {None}]
           /\ \A v \in Workers \ {w} : pc'[v] = pc[v] /\ task'[v] = task[v]
<1>1. pc' = [pc EXCEPT ![w] = next]
  BY DEF Advance
<1>2. task' = task \/ (next = "idle" /\ task' = [task EXCEPT ![w] = None])
  BY DEF Advance
<1>3. task' \in [Workers -> Tasks \cup {None}] /\ \A v \in Workers \ {w} : task'[v] = task[v]
  <2> DEFINE T == Tasks
  <2>1. task \in [Workers -> T \cup {None}]
    BY DEF Typed
  <2> HIDE DEF T
  <2>2. task' \in [Workers -> T \cup {None}] /\ \A v \in Workers \ {w} : task'[v] = task[v]
    BY <1>2, <2>1
  <2> QED BY <2>2 DEF T
<1>4. /\ pc'[w] = next /\ \A v \in Workers \ {w} : pc'[v] = pc[v]
      /\ pc' \in [Workers -> RedisSteps \cup {"idle", "mysql", "insert", "leave", "endQuery", "compare"}]
  <2>1. pc \in [Workers -> RedisSteps \cup {"idle", "mysql", "insert", "leave", "endQuery", "compare"}]
    BY DEF Typed
  <2> QED BY ONLY <1>1, <2>1, w \in Workers,
                  next \in RedisSteps \cup {"idle", "mysql", "insert", "leave", "endQuery", "compare"}
<1> QED BY <1>2, <1>3, <1>4, Zenon

\* What every worker's step shows of itself.
Stepped(w) ==
    /\ Typed' /\ Connected' /\ Others(w)
    /\ Stirred(rupc, rupc', w) /\ Stirred(mupc, mupc', w) /\ Control(w)'

LEMMA StartStep ==
    ASSUME DInv, NEW w \in Workers, NEW r \in Requests, Start(w, r)
    PROVE  Stepped(w) /\ task'[w] = r /\ pc'[w] = First(r.op) /\ r \in Tasks
<1>1. r \in Tasks /\ r.op \in {"register", "login", "profile", "logout"}
  BY DEF Requests, Tasks, DInv, Stored
<1>2. /\ pc[w] = "idle" /\ task' = [task EXCEPT ![w] = r] /\ pc' = [pc EXCEPT ![w] = First(r.op)]
      /\ answer' = [answer EXCEPT ![w] = 0]
      /\ UNCHANGED <<redisVars, mysqlVars, storeVars, reply, dbPassword>>
  BY DEF Start
<1>3. First(r.op) \in {"mysql", "cacheGet", "sessionGet", "sessionDel"}
  BY <1>1 DEF First
<1>4. /\ task'[w] = r /\ pc'[w] = First(r.op) /\ answer'[w] = 0
      /\ \A v \in Workers \ {w} : pc'[v] = pc[v] /\ task'[v] = task[v] /\ answer'[v] = answer[v]
  BY <1>2 DEF DInv, Typed
<1>5. Typed'
  <2> DEFINE T == Tasks
  <2>1. task \in [Workers -> T \cup {None}] /\ r \in T
    BY <1>1 DEF DInv, Typed
  <2> HIDE DEF T
  <2>2. task' \in [Workers -> T \cup {None}]
    BY <1>2, <2>1
  <2>3. task' \in [Workers -> Tasks \cup {None}]
    BY <2>2 DEF T
  <2>4. /\ pc' \in [Workers -> RedisSteps \cup {"idle", "mysql", "insert", "leave", "endQuery", "compare"}]
        /\ answer' \in [Workers -> {0, 200, 401, 409, 500, 503}]
    BY <1>2, <1>3 DEF DInv, Typed
  <2>5. UNCHANGED <<users, cache, sessions, reply, dbPassword, rupc, mupc>>
    BY <1>2
  <2> QED BY <2>3, <2>4, <2>5, ZenonT(40) DEF DInv, Typed
<1>6. Connected' /\ Others(w) /\ Stirred(rupc, rupc', w) /\ Stirred(mupc, mupc', w)
  BY <1>2, <1>4 DEF DInv, Connected, Others, Stirred
<1>7. Control(w)'
  <2>1. rupc'[w] = "idle" /\ reply'[w] = None /\ mupc'[w] = "idle"
    BY <1>2 DEF DInv, Control, Guarded
  <2>2. /\ First(r.op) = "mysql" => r.op = "register"
        /\ First(r.op) = "cacheGet" => r.op = "login"
        /\ First(r.op) \in {"sessionGet", "sessionDel"} => r.op \in {"profile", "logout"}
    BY <1>1 DEF First
  <2> QED BY <1>1, <1>3, <1>4, <2>1, <2>2 DEF Control, Guarded
<1> QED BY <1>1, <1>4, <1>5, <1>6, <1>7 DEF Stepped

\* A task in its course: what its request holds.
LEMMA TaskFields ==
    ASSUME DInv, NEW w \in Workers, pc[w] # "idle"
    PROVE  /\ task[w] \in Tasks
           /\ task[w].op \in {"register", "login"} => task[w].name \in Names /\ task[w].password \in Passwords
           /\ task[w].op = "login" => task[w].token \in Tokens
           /\ task[w].token \in Tokens \cup {None}
<1>1. task[w] \in Tasks
  BY DEF DInv, Control
<1> QED BY <1>1 DEF Tasks

\* While a command of Redis is under way.
LEMMA InRedis ==
    ASSUME NEW w \in Workers, Control(w), pc[w] \in RedisSteps, UNCHANGED <<pc, task, answer, mupc>>
    PROVE  Control(w)'
<1>1. pc'[w] = pc[w] /\ task'[w] = task[w] /\ answer'[w] = answer[w] /\ mupc'[w] = mupc[w]
  OBVIOUS
<1> QED BY <1>1, SMT DEF Control

LEMMA RedisGetStep == ASSUME DInv, NEW w \in Workers, RedisGetConn(w) PROVE Stepped(w)
<1>1. /\ pc[w] \in RedisSteps /\ (Redis!GetConn(w) \/ Redis!Getting(w))
      /\ UNCHANGED <<mysqlVars, storeVars, task, pc, reply, dbPassword, answer>>
  BY DEF RedisGetConn
<1>2. Stirred(rupc, rupc', w) /\ rupc' \in [Workers -> PoolStates]
  BY <1>1, RedisGets DEF DInv, Typed
<1>3. Typed' /\ Connected' /\ Others(w) /\ Stirred(mupc, mupc', w)
  BY <1>1, <1>2, Zenon DEF DInv, Typed, Connected, Others, Stirred
<1>4. Control(w)'
  BY <1>1, InRedis DEF DInv
<1> QED BY <1>2, <1>3, <1>4 DEF Stepped

LEMMA RedisNoReplyStep == ASSUME DInv, NEW w \in Workers, RedisNoReply(w) PROVE Stepped(w)
<1>1. /\ pc[w] \in RedisSteps /\ rupc' = [rupc EXCEPT ![w] = "discard"]
      /\ UNCHANGED <<mysqlVars, storeVars, task, pc, reply, dbPassword, answer>>
  BY DEF RedisNoReply, Redis!NoReply
<1>2. Stirred(rupc, rupc', w) /\ rupc' \in [Workers -> PoolStates]
  BY <1>1 DEF DInv, Typed, Stirred, PoolStates
<1>3. Typed' /\ Connected' /\ Others(w) /\ Stirred(mupc, mupc', w)
  BY <1>1, <1>2, Zenon DEF DInv, Typed, Connected, Others, Stirred
<1>4. Control(w)'
  BY <1>1, InRedis DEF DInv
<1> QED BY <1>2, <1>3, <1>4 DEF Stepped

LEMMA CommandStep == ASSUME DInv, NEW w \in Workers, RedisCommand(w) PROVE Stepped(w) /\ reply'[w] # None
<1>1. /\ pc[w] \in RedisSteps /\ (Command(w) \/ ErrorReply(w))
      /\ UNCHANGED <<redisVars, mysqlVars, dead, users, task, pc, dbPassword, answer>>
  BY DEF RedisCommand
<1>2. Control(w) /\ Data(w) /\ Typed
  BY DEF DInv
<1>3. /\ pc[w] \in {"cacheGet", "cacheSet"} => task[w].name \in Names
      /\ pc[w] = "cacheSet" => dbPassword[w] \in Passwords
      /\ pc[w] = "sessionSet" => task[w].token \in Tokens /\ task[w].name \in Names
      /\ task[w].token \in Tokens \cup {None}
  <2>1. /\ task[w].op \in {"register", "login"} => task[w].name \in Names
        /\ task[w].op = "login" => task[w].token \in Tokens
        /\ task[w].token \in Tokens \cup {None}
    BY <1>1, TaskFields
  <2>2. /\ pc[w] \in {"cacheGet", "cacheSet", "sessionSet"} => task[w].op = "login"
        /\ pc[w] = "cacheSet" => dbPassword[w] # None /\ dbPassword[w] = users[task[w].name]
    BY <1>2 DEF Control, Data
  <2>3. users \in [Names -> Passwords \cup {None}]
    BY <1>2 DEF Typed
  <2> QED BY <2>1, <2>2, <2>3
<1>4. /\ cache' \in [Names -> Passwords \cup {None}]
      /\ sessions' \in [Tokens -> Names \cup {None}]
  BY <1>1, <1>2, <1>3 DEF Typed, Command, ErrorReply, CacheValue
<1>5. PICK rep \in Replies : reply' = [reply EXCEPT ![w] = rep]
  <2>1. \E status \in {"Ok", "NotFound", "Refused"}, value \in Values : Reply(w, status, value)
    <3>1. CASE ErrorReply(w)
      BY <3>1 DEF ErrorReply, Values
    <3>2. CASE pc[w] \in {"cacheSet", "sessionSet"} /\ Command(w)
      BY <3>2 DEF Command, Values
    <3>3. CASE pc[w] = "cacheGet" /\ Command(w)
      <4>1. cache[task[w].name] \in Values /\ Found(cache[task[w].name]) \in {"Ok", "NotFound", "Refused"}
        BY <1>2, <1>3, <3>3 DEF Typed, Values, Found
      <4> QED BY <3>3, <4>1, Zenon DEF Command
    <3>4. CASE pc[w] \in {"sessionGet", "sessionDel"} /\ Command(w)
      <4> DEFINE name == IF task[w].token = None THEN None ELSE sessions[task[w].token]
      <4>1. name \in Values /\ Found(name) \in {"Ok", "NotFound", "Refused"} /\ None \in Values
        BY <1>2, <1>3 DEF Typed, Values, Found
      <4>2. Reply(w, Found(name), name) \/ Reply(w, Found(name), None)
        BY <3>4 DEF Command
      <4> QED BY <4>1, <4>2
    <3> QED BY <1>1, <3>1, <3>2, <3>3, <3>4
  <2> QED BY <2>1, Zenon DEF Reply, Replies
<1>6. /\ reply' \in [Workers -> Replies \cup {None}] /\ reply'[w] = rep
      /\ \A v \in Workers \ {w} : reply'[v] = reply[v]
  <2> DEFINE R == Replies
  <2>1. reply \in [Workers -> R \cup {None}] /\ rep \in R
    BY <1>2 DEF Typed
  <2> HIDE DEF R
  <2>2. /\ reply' \in [Workers -> R \cup {None}] /\ reply'[w] = rep
        /\ \A v \in Workers \ {w} : reply'[v] = reply[v]
    BY <1>5, <2>1
  <2> QED BY <2>2 DEF R
<1>7. rep # None
  BY DEF Replies, Values
<1>8. Typed' /\ Connected' /\ Others(w) /\ Stirred(rupc, rupc', w) /\ Stirred(mupc, mupc', w)
  BY <1>1, <1>4, <1>6, Zenon DEF DInv, Typed, Connected, Others, Stirred
<1>9. Control(w)'
  BY <1>1, <1>2, InRedis
<1> QED BY <1>6, <1>7, <1>8, <1>9 DEF Stepped

\* A worker that has just answered or gone on, seen by its successor step.
LEMMA Answered ==
    ASSUME Typed, NEW w \in Workers,
           NEW next \in RedisSteps \cup {"idle", "mysql", "insert", "leave", "endQuery", "compare"},
           \/ Goto(w, next)
           \/ \E status \in {200, 401, 409, 500, 503} : Answer(w, status, next)
    PROVE  /\ pc'[w] = next /\ (next # "idle" => task'[w] = task[w])
           /\ pc' \in [Workers -> RedisSteps \cup {"idle", "mysql", "insert", "leave", "endQuery", "compare"}]
           /\ task' \in [Workers -> Tasks \cup {None}]
           /\ answer' \in [Workers -> {0, 200, 401, 409, 500, 503}]
           /\ Goto(w, next) => answer'[w] = answer[w]
           /\ (\E status \in {200, 401, 409, 500, 503} : Answer(w, status, next)) => answer'[w] # 0
           /\ \A v \in Workers \ {w} : pc'[v] = pc[v] /\ task'[v] = task[v] /\ answer'[v] = answer[v]
<1>1. Advance(w, next)
  BY DEF Goto, Answer
<1>2. /\ answer' \in [Workers -> {0, 200, 401, 409, 500, 503}]
      /\ \A v \in Workers \ {w} : answer'[v] = answer[v]
  BY DEF Goto, Answer, Typed
<1>3. Goto(w, next) => answer'[w] = answer[w]
  BY DEF Goto
<1>4. (\E status \in {200, 401, 409, 500, 503} : Answer(w, status, next)) => answer'[w] # 0
  BY DEF Answer, Typed
<1>5. /\ pc'[w] = next /\ (next # "idle" => task'[w] = task[w])
      /\ pc' \in [Workers -> RedisSteps \cup {"idle", "mysql", "insert", "leave", "endQuery", "compare"}]
      /\ task' \in [Workers -> Tasks \cup {None}]
      /\ \A v \in Workers \ {w} : pc'[v] = pc[v] /\ task'[v] = task[v]
  BY <1>1, Advanced, SMT
<1> QED BY <1>2, <1>3, <1>4, <1>5, SMTT(20)

\* What a command of Redis leads to.
LEMMA Proceeds ==
    ASSUME DInv, NEW w \in Workers, NEW status, Proceed(w, status), status = "Ok" => reply[w] # None
    PROVE  /\ \/ pc[w] = "cacheGet" /\ (Goto(w, "compare") \/ Goto(w, "mysql"))
              \/ pc[w] = "cacheSet" /\ Goto(w, "endQuery")
              \/ /\ pc[w] \in {"sessionSet", "sessionGet", "sessionDel"}
                 /\ \E st \in {200, 401, 409, 500, 503} : Answer(w, st, "idle")
           /\ dbPassword' \in [Workers -> Values]
           /\ \A v \in Workers \ {w} : dbPassword'[v] = dbPassword[v]
<1>1. dbPassword \in [Workers -> Values] /\ reply[w] \in Replies \cup {None}
  BY DEF DInv, Typed
<1>2. CASE pc[w] = "cacheGet"
  <2>1. CASE status = "Ok"
    <3>1. dbPassword' = [dbPassword EXCEPT ![w] = reply[w].value] /\ Goto(w, "compare")
      BY <1>2, <2>1 DEF Proceed
    <3>2. reply[w].value \in Values
      BY <1>1, <2>1 DEF Replies
    <3> DEFINE val == reply[w].value
    <3> HIDE DEF val
    <3>3. dbPassword' = [dbPassword EXCEPT ![w] = val] /\ val \in Values
      BY <3>1, <3>2 DEF val
    <3>4. dbPassword' \in [Workers -> Values] /\ \A v \in Workers \ {w} : dbPassword'[v] = dbPassword[v]
      BY ONLY <1>1, <3>3
    <3> QED BY <1>2, <3>1, <3>4, Zenon
  <2>2. CASE status # "Ok"
    BY <1>1, <1>2, <2>2 DEF Proceed
  <2> QED BY <2>1, <2>2
<1>3. CASE pc[w] = "cacheSet"
  BY <1>1, <1>3 DEF Proceed
<1>4. CASE pc[w] = "sessionSet"
  BY <1>1, <1>4 DEF Proceed, StoreSession
<1>5. CASE pc[w] \in {"sessionGet", "sessionDel"}
  <2>1. SessionStatus(status) \in {200, 401, 409, 500, 503}
    BY DEF SessionStatus
  <2>2. Answer(w, SessionStatus(status), "idle") /\ dbPassword' = dbPassword
    BY <1>5 DEF Proceed
  <2> QED BY <1>1, <1>5, <2>1, <2>2
<1> QED BY <1>2, <1>3, <1>4, <1>5 DEF Proceed

LEMMA ReturnStep == ASSUME DInv, NEW w \in Workers, RedisReturn(w) PROVE Stepped(w) /\ reply'[w] = None
<1>1. /\ pc[w] \in RedisSteps /\ reply' = [reply EXCEPT ![w] = None]
      /\ UNCHANGED <<mysqlVars, storeVars>>
      /\ (Redis!Fail(w) \/ Redis!Reply(w) \/ Redis!DiscardBrokenConn(w))
  BY DEF RedisReturn
<1>2. PICK status : Proceed(w, status) /\ (status = "Ok" => reply[w] # None)
  BY DEF RedisReturn
<1>3. /\ \/ pc[w] = "cacheGet" /\ (Goto(w, "compare") \/ Goto(w, "mysql"))
         \/ pc[w] = "cacheSet" /\ Goto(w, "endQuery")
         \/ /\ pc[w] \in {"sessionSet", "sessionGet", "sessionDel"}
            /\ \E st \in {200, 401, 409, 500, 503} : Answer(w, st, "idle")
      /\ dbPassword' \in [Workers -> Values]
      /\ \A v \in Workers \ {w} : dbPassword'[v] = dbPassword[v]
  BY <1>2, Proceeds
<1>4. rupc'[w] = "idle" /\ Stirred(rupc, rupc', w) /\ rupc' \in [Workers -> PoolStates]
  BY <1>1, RedisEnds DEF DInv, Typed
<1>5. /\ reply'[w] = None /\ reply' \in [Workers -> Replies \cup {None}]
      /\ \A v \in Workers \ {w} : reply'[v] = reply[v]
  <2> DEFINE R == Replies
  <2>1. reply \in [Workers -> R \cup {None}]
    BY DEF DInv, Typed
  <2> HIDE DEF R
  <2>2. /\ reply'[w] = None /\ reply' \in [Workers -> R \cup {None}]
        /\ \A v \in Workers \ {w} : reply'[v] = reply[v]
    BY <1>1, <2>1
  <2> QED BY <2>2 DEF R
<1>6. Control(w)
  BY DEF DInv
<1>7. PICK next \in {"compare", "mysql", "endQuery", "idle"} :
         /\ Goto(w, next) \/ \E st \in {200, 401, 409, 500, 503} : Answer(w, st, next)
         /\ next \in {"compare", "mysql"} => pc[w] = "cacheGet" /\ Goto(w, next)
         /\ next = "endQuery" => pc[w] = "cacheSet" /\ Goto(w, next)
         /\ next = "idle" => pc[w] \in {"sessionSet", "sessionGet", "sessionDel"}
  BY <1>3
<1>8. /\ pc'[w] = next /\ (next # "idle" => task'[w] = task[w])
      /\ pc' \in [Workers -> RedisSteps \cup {"idle", "mysql", "insert", "leave", "endQuery", "compare"}]
      /\ task' \in [Workers -> Tasks \cup {None}]
      /\ answer' \in [Workers -> {0, 200, 401, 409, 500, 503}]
      /\ Goto(w, next) => answer'[w] = answer[w]
      /\ \A v \in Workers \ {w} : pc'[v] = pc[v] /\ task'[v] = task[v] /\ answer'[v] = answer[v]
  BY <1>7, Answered, SMTT(30) DEF DInv
<1>9. Typed'
  <2>1. UNCHANGED <<users, cache, sessions, mupc>>
    BY <1>1
  <2> QED BY <1>3, <1>4, <1>5, <1>8, <2>1, ZenonT(40) DEF DInv, Typed
<1>10. Connected' /\ Others(w) /\ Stirred(mupc, mupc', w)
  <2>1. UNCHANGED <<mpool, mheld, mupc, dead>>
    BY <1>1
  <2>2. Connected' /\ Stirred(mupc, mupc', w)
    BY <2>1, Zenon DEF DInv, Connected, Stirred
  <2>3. Others(w)
    BY <1>3, <1>5, <1>8 DEF Others
  <2> QED BY <2>2, <2>3
<1>11. Control(w)'
  <2>1. mupc'[w] = mupc[w]
    BY <1>1
  <2> QED BY <1>4, <1>5, <1>6, <1>7, <1>8, <2>1 DEF Control, Guarded
<1> QED BY <1>4, <1>5, <1>9, <1>10, <1>11 DEF Stepped

\* The steps below touch neither Redis nor its reply, and go on or answer.
LEMMA Moved ==
    ASSUME DInv, NEW w \in Workers, UNCHANGED <<redisVars, cache, sessions, reply>>,
           NEW next \in {"idle", "insert", "leave", "endQuery", "compare", "cacheSet", "sessionSet"},
           \/ Goto(w, next)
           \/ \E st \in {200, 401, 409, 500, 503} : Answer(w, st, next),
           users' \in [Names -> Passwords \cup {None}],
           dbPassword' \in [Workers -> Values],
           \A v \in Workers \ {w} : dbPassword'[v] = dbPassword[v],
           Connected', Stirred(mupc, mupc', w), mupc' \in [Workers -> PoolStates],
           next = "leave" => answer[w] # 0 \/ ~Goto(w, next),
           next \notin {"idle", "leave"} => Goto(w, next),
           pc[w] \in {"mysql", "insert", "leave", "endQuery", "compare"}, pc[w] = "leave" => next = "idle",
           next = "insert" => task[w].op = "register",
           next \in {"endQuery", "compare", "cacheSet", "sessionSet"} => task[w].op = "login",
           next \in Guarded => mupc'[w] = "use", next \notin Guarded => mupc'[w] = "idle"
    PROVE  Stepped(w)
<1>1. /\ pc'[w] = next /\ (next # "idle" => task'[w] = task[w])
      /\ pc' \in [Workers -> RedisSteps \cup {"idle", "mysql", "insert", "leave", "endQuery", "compare"}]
      /\ task' \in [Workers -> Tasks \cup {None}]
      /\ answer' \in [Workers -> {0, 200, 401, 409, 500, 503}]
      /\ Goto(w, next) => answer'[w] = answer[w]
      /\ (\E status \in {200, 401, 409, 500, 503} : Answer(w, status, next)) => answer'[w] # 0
      /\ \A v \in Workers \ {w} : pc'[v] = pc[v] /\ task'[v] = task[v] /\ answer'[v] = answer[v]
  BY Answered, SMTT(30) DEF DInv
<1>2. UNCHANGED <<cache, sessions, reply, rupc>>
  OBVIOUS
<1>3. Typed'
  BY <1>1, <1>2 DEF DInv, Typed
<1>4. Others(w) /\ Stirred(rupc, rupc', w)
  BY <1>1, <1>2 DEF Others, Stirred
<1>5. Control(w) /\ rupc'[w] = rupc[w] /\ reply'[w] = reply[w]
  BY <1>2 DEF DInv
<1>6. Control(w)'
  <2>1. /\ next = "leave" => answer'[w] # 0
        /\ next \notin {"idle", "leave"} => answer'[w] = answer[w] /\ pc[w] # "leave"
    BY <1>1
  <2>2. rupc'[w] = "idle" /\ reply'[w] = None /\ task[w] \in Tasks
    BY <1>5 DEF Control
  <2>3. next # "idle" => task'[w] = task[w] /\ task[w].op \in {"register", "login"}
    BY <1>1, <1>5 DEF Control
  <2>4. next \notin {"idle", "leave"} => answer'[w] = 0
    BY <1>5, <2>1 DEF Control
  <2> QED BY <1>1, <2>1, <2>2, <2>3, <2>4 DEF Control, Guarded
<1> QED BY <1>3, <1>4, <1>6 DEF Stepped

LEMMA MysqlGetStep == ASSUME DInv, NEW w \in Workers, MysqlGetConn(w) PROVE Stepped(w)
<1>1. /\ pc[w] = "mysql" /\ (Mysql!GetConn(w) \/ Mysql!Getting(w))
      /\ UNCHANGED <<redisVars, storeVars, task, pc, reply, dbPassword, answer>>
  BY DEF MysqlGetConn
<1>2. Stirred(mupc, mupc', w) /\ mupc' \in [Workers -> PoolStates] /\ Connected'
  BY <1>1, MysqlGets DEF DInv, Typed
<1>3. Typed' /\ Others(w) /\ Stirred(rupc, rupc', w)
  BY <1>1, <1>2, Zenon DEF DInv, Typed, Others, Stirred
<1>4. Control(w)'
  <2>1. /\ pc'[w] = pc[w] /\ task'[w] = task[w] /\ answer'[w] = answer[w] /\ reply'[w] = reply[w]
        /\ rupc'[w] = rupc[w] /\ Control(w)
    BY <1>1 DEF DInv
  <2> QED BY <1>1, <2>1 DEF Control, Guarded
<1> QED BY <1>2, <1>3, <1>4 DEF Stepped

LEMMA UnavailableStep == ASSUME DInv, NEW w \in Workers, MysqlUnavailable(w) PROVE Stepped(w)
<1>1. /\ pc[w] = "mysql" /\ Mysql!Fail(w) /\ Answer(w, 503, "idle")
      /\ UNCHANGED <<redisVars, dead, users, cache, sessions, reply, dbPassword>>
  BY DEF MysqlUnavailable
<1>2. mupc'[w] = "idle" /\ Stirred(mupc, mupc', w) /\ mupc' \in [Workers -> PoolStates] /\ Connected'
  BY <1>1, MysqlEnds DEF DInv, Typed
<1>3. users' \in [Names -> Passwords \cup {None}] /\ dbPassword' \in [Workers -> Values]
  BY <1>1 DEF DInv, Typed
<1> QED BY <1>1, <1>2, <1>3, Moved, SMTT(30) DEF Guarded

LEMMA SelectStep == ASSUME DInv, NEW w \in Workers, Select(w) PROVE Stepped(w)
<1>1. /\ pc[w] = "mysql" /\ mupc[w] = "use"
      /\ UNCHANGED <<redisVars, mysqlVars, users, cache, sessions, reply>>
  BY DEF Select
<1>2. /\ mheld[w] \in MysqlHandles /\ task[w].name \in Names
      /\ task[w].op \in {"register", "login"}
  BY <1>1, TaskFields, Zenon DEF DInv, Connected, Control
<1>3. Stirred(mupc, mupc', w) /\ mupc' \in [Workers -> PoolStates] /\ mupc'[w] = "use"
  BY <1>1 DEF DInv, Typed, Stirred
<1>4. Connected'
  <2>1. dead' \subseteq MysqlHandles
    BY <1>2 DEF Select, DInv, Connected
  <2> QED BY <1>1, <2>1 DEF DInv, Connected
<1>5. users' \in [Names -> Passwords \cup {None}]
  BY <1>1 DEF DInv, Typed
<1>6. dbPassword' \in [Workers -> Values] /\ \A v \in Workers \ {w} : dbPassword'[v] = dbPassword[v]
  <2>1. dbPassword' = dbPassword \/ \E row \in {users[task[w].name], None} : dbPassword' = [dbPassword EXCEPT ![w] = row]
    BY DEF Select
  <2>2. {users[task[w].name], None} \subseteq Values /\ dbPassword \in [Workers -> Values]
    BY <1>2 DEF DInv, Typed, Values
  <2> QED BY <2>1, <2>2
<1>7. \/ Answer(w, 500, "leave") \/ Answer(w, 409, "leave")
      \/ task[w].op = "register" /\ Goto(w, "insert")
      \/ task[w].op = "login" /\ (Goto(w, "cacheSet") \/ Goto(w, "endQuery"))
  BY <1>2 DEF Select
<1>9. CASE Answer(w, 500, "leave") \/ Answer(w, 409, "leave")
  <2>1. \E st \in {200, 401, 409, 500, 503} : Answer(w, st, "leave")
    BY <1>9
  <2>2. ~Goto(w, "leave")
    <3>1. answer[w] = 0 /\ answer \in [Workers -> {0, 200, 401, 409, 500, 503}]
      BY <1>1 DEF DInv, Control, Typed
    <3> QED BY <1>9, <3>1 DEF Goto, Answer
  <2> QED BY <1>1, <1>3, <1>4, <1>5, <1>6, <2>1, <2>2, Moved, Zenon DEF Guarded
<1>10. CASE task[w].op = "register" /\ Goto(w, "insert")
  BY <1>1, <1>3, <1>4, <1>5, <1>6, <1>10, Moved, Zenon DEF Guarded
<1>11. CASE task[w].op = "login" /\ Goto(w, "cacheSet")
  BY <1>1, <1>3, <1>4, <1>5, <1>6, <1>11, Moved, SMTT(30) DEF Guarded
<1>12. CASE task[w].op = "login" /\ Goto(w, "endQuery")
  BY <1>1, <1>3, <1>4, <1>5, <1>6, <1>12, Moved, SMTT(30) DEF Guarded
<1> QED BY <1>7, <1>9, <1>10, <1>11, <1>12

LEMMA InsertStep == ASSUME DInv, NEW w \in Workers, Insert(w) PROVE Stepped(w)
<1>1. /\ pc[w] = "insert" /\ mupc[w] = "use" /\ answer[w] = 0
      /\ UNCHANGED <<redisVars, mysqlVars, cache, sessions, reply, dbPassword>>
  BY DEF Insert, DInv, Control, Guarded
<1>2. mheld[w] \in MysqlHandles /\ task[w].name \in Names /\ task[w].password \in Passwords
  BY <1>1, TaskFields, Zenon DEF DInv, Connected, Control
<1>3. Stirred(mupc, mupc', w) /\ mupc' \in [Workers -> PoolStates] /\ mupc'[w] = "use"
  BY <1>1, Zenon DEF DInv, Typed, Stirred
<1>4. Connected'
  <2>1. dead' \subseteq MysqlHandles
    BY <1>2 DEF Insert, DInv, Connected
  <2> QED BY <1>1, <2>1 DEF DInv, Connected
<1>5. users' \in [Names -> Passwords \cup {None}] /\ dbPassword' \in [Workers -> Values]
  BY <1>1, <1>2 DEF DInv, Typed, Insert
<1>6. \E st \in {200, 401, 409, 500, 503} : Answer(w, st, "leave")
  BY DEF Insert
<1>7. ~Goto(w, "leave")
  <2>1. answer \in [Workers -> {0, 200, 401, 409, 500, 503}]
    BY DEF DInv, Typed
  <2> QED BY <1>1, <1>6, <2>1 DEF Goto, Answer
<1> QED BY <1>1, <1>3, <1>4, <1>5, <1>6, <1>7, Moved, SMTT(30) DEF Guarded

LEMMA ReleaseStep == ASSUME DInv, NEW w \in Workers, MysqlRelease(w) PROVE Stepped(w)
<1>1. /\ pc[w] \in {"leave", "endQuery"} /\ Mysql!ReleaseConn(w)
      /\ Goto(w, IF pc[w] = "leave" THEN "idle" ELSE "compare")
      /\ UNCHANGED <<redisVars, dead, users, cache, sessions, reply, dbPassword>>
  BY DEF MysqlRelease
<1>2. mupc'[w] = "idle" /\ Stirred(mupc, mupc', w) /\ mupc' \in [Workers -> PoolStates] /\ Connected'
  BY <1>1, MysqlEnds DEF DInv, Typed
<1>3. users' \in [Names -> Passwords \cup {None}] /\ dbPassword' \in [Workers -> Values]
  BY <1>1 DEF DInv, Typed
<1>4. pc[w] = "endQuery" => task[w].op = "login"
  BY DEF DInv, Control
<1>5. CASE pc[w] = "leave"
  BY <1>1, <1>2, <1>3, <1>5, Moved, Zenon DEF Guarded
<1>6. CASE pc[w] = "endQuery"
  BY <1>1, <1>2, <1>3, <1>4, <1>6, Moved, SMTT(30) DEF Guarded
<1> QED BY <1>1, <1>5, <1>6

LEMMA CompareStep == ASSUME DInv, NEW w \in Workers, Compare(w) PROVE Stepped(w)
<1>1. /\ pc[w] = "compare" /\ task[w].op = "login" /\ mupc[w] = "idle"
      /\ Goto(w, "sessionSet") \/ Answer(w, 401, "idle")
      /\ dbPassword' = [dbPassword EXCEPT ![w] = None]
      /\ UNCHANGED <<redisVars, mysqlVars, storeVars, reply>>
  BY DEF Compare, DInv, Control, Guarded
<1>2. Stirred(mupc, mupc', w) /\ mupc' \in [Workers -> PoolStates] /\ mupc'[w] = "idle" /\ Connected'
  BY <1>1 DEF DInv, Typed, Stirred, Connected
<1>3. /\ users' \in [Names -> Passwords \cup {None}] /\ dbPassword' \in [Workers -> Values]
      /\ \A v \in Workers \ {w} : dbPassword'[v] = dbPassword[v]
  BY <1>1 DEF DInv, Typed, Values
<1>4. CASE Goto(w, "sessionSet")
  BY <1>1, <1>2, <1>3, <1>4, Moved, SMTT(30) DEF Guarded
<1>5. CASE Answer(w, 401, "idle")
  BY <1>1, <1>2, <1>3, <1>5, Moved, SMTT(30) DEF Guarded
<1> QED BY <1>1, <1>4, <1>5

----------------------------------------------------------------------------
(* What the steps do to the stores.                                        *)

Consistent == Distinct /\ Stored /\ \A w \in Workers : Data(w)

stores == <<users, cache, sessions, drawn, handed, ended, winners>>

\* The locals of v are what they were, and the stores still bear them out.
LEMMA KeepData ==
    ASSUME NEW v \in Workers, Data(v),
           pc'[v] = pc[v], task'[v] = task[v], reply'[v] = reply[v], dbPassword'[v] = dbPassword[v],
           pc[v] = "cacheSet" => users'[task[v].name] = users[task[v].name],
           drawn \subseteq drawn', handed \subseteq handed', ended \subseteq ended',
           pc[v] # "idle" /\ task[v].op = "login" => task[v].token \notin handed' \ handed,
           Unwritten(v) => task[v].token \notin ended' \ ended /\ sessions'[task[v].token] = sessions[task[v].token],
           pc[v] = "sessionSet" => sessions'[task[v].token] = sessions[task[v].token] \/ task[v].token \in ended'
    PROVE  Data(v)'
<1>1. Unwritten(v)' <=> Unwritten(v)
  BY Zenon DEF Unwritten
<1> QED BY <1>1, SMTT(30) DEF Data

\* The stores are what they were.
LEMMA QuietStores ==
    ASSUME DInv, UNCHANGED stores, NEW v \in Workers,
           pc'[v] = pc[v], task'[v] = task[v], reply'[v] = reply[v], dbPassword'[v] = dbPassword[v]
    PROVE  Data(v)'
<1>1. Data(v) /\ UNCHANGED <<users, cache, sessions, drawn, handed, ended, winners>>
  BY DEF DInv, stores
<1> QED BY <1>1, KeepData

\* A task that goes on keeps its token to itself.
LEMMA KeepDistinct ==
    ASSUME DInv, NEW w \in Workers, Others(w), pc[w] # "idle", pc'[w] # "idle" => task'[w] = task[w]
    PROVE  Distinct'
<1>1. \A v \in Workers : pc'[v] # "idle" => pc[v] # "idle" /\ task'[v] = task[v]
  BY Zenon DEF Others
<1> QED BY <1>1 DEF DInv, Distinct

\* Acquiring connections changes neither a store nor a local.
LEMMA WaitData ==
    ASSUME DInv, UNCHANGED <<stores, pc, task, reply, dbPassword>>
    PROVE  Consistent'
<1>1. Distinct'
  BY DEF DInv, Distinct
<1>2. Stored'
  BY Zenon DEF DInv, stores, Stored, CacheCoherent, TokenGood
<1> QED BY <1>1, <1>2, QuietStores DEF Consistent

\* A step of w on its own locals.
LEMMA LocalData ==
    ASSUME DInv, NEW w \in Workers, UNCHANGED stores, Others(w), pc[w] # "idle",
           pc'[w] # "idle" => task'[w] = task[w],
           Data(w)'
    PROVE  Consistent'
<1>1. Distinct'
  BY KeepDistinct
<1>2. ASSUME NEW v \in Workers \ {w} PROVE Data(v)'
  BY QuietStores DEF Others
<1>3. Stored'
  BY Zenon DEF DInv, stores, Stored, CacheCoherent, TokenGood
<1> QED BY <1>1, <1>2, <1>3 DEF Consistent

\* Where a task goes on, or that it ends.
LEMMA GoesOn ==
    ASSUME DInv, NEW w \in Workers, NEW next, Advance(w, next)
    PROVE  pc'[w] = next /\ (next # "idle" => task' = task)
<1>1. DOMAIN pc = Workers /\ pc' = [pc EXCEPT ![w] = next]
  BY DEF DInv, Typed, Advance
<1>2. pc'[w] = next
  BY ONLY <1>1, w \in Workers
<1> QED BY <1>2 DEF Advance

\* The status a task sends.
LEMMA Sends ==
    ASSUME DInv, NEW w \in Workers, NEW next, NEW status, Answer(w, status, next)
    PROVE  Advance(w, next) /\ answer'[w] = status
<1>1. DOMAIN answer = Workers /\ answer' = [answer EXCEPT ![w] = status]
  BY DEF DInv, Typed, Answer
<1>2. answer'[w] = status
  BY ONLY <1>1, w \in Workers
<1> QED BY <1>2 DEF Answer

\* What the stores hold.
LEMMA StoreTypes ==
    ASSUME DInv
    PROVE  /\ users \in [Names -> Passwords \cup {None}] /\ cache \in [Names -> Passwords \cup {None}]
           /\ sessions \in [Tokens -> Names \cup {None}]
BY DEF DInv, Typed

\* The end of a task leaves no local behind.
LEMMA IdleData == ASSUME NEW w \in Workers, pc'[w] = "idle" PROVE Data(w)'
BY DEF Data, Unwritten

\* A login moves on, before it writes its session.
LEMMA LoginData ==
    ASSUME NEW w \in Workers, Data(w), Unwritten(w) \/ task[w].op # "login", pc[w] # "idle",
           task'[w] = task[w], reply'[w] = None, UNCHANGED stores,
           pc'[w] \in {"mysql", "insert", "leave", "endQuery", "compare", "cacheSet", "sessionSet"},
           pc'[w] = "cacheSet" => dbPassword'[w] # None /\ dbPassword'[w] = users[task[w].name]
    PROVE  Data(w)'
<1>1. UNCHANGED <<users, sessions, drawn, handed, ended>>
  BY DEF stores
<1> QED BY <1>1, SMTT(30) DEF Data, Unwritten

\* The steps that leave the stores alone.
LEMMA WaitSteps ==
    ASSUME DInv, NEW w \in Workers, RedisGetConn(w) \/ RedisNoReply(w) \/ MysqlGetConn(w)
    PROVE  Consistent'
<1>1. UNCHANGED <<stores, pc, task, reply, dbPassword>>
  BY DEF RedisGetConn, RedisNoReply, MysqlGetConn, stores
<1> QED BY <1>1, WaitData

LEMMA UnavailableData ==
    ASSUME DInv, NEW w \in Workers, MysqlUnavailable(w), Stepped(w) PROVE Consistent'
<1>1. pc[w] # "idle" /\ pc'[w] = "idle" /\ UNCHANGED stores
  BY GoesOn DEF MysqlUnavailable, Answer, stores
<1> QED BY <1>1, IdleData, LocalData DEF Stepped

LEMMA ReleaseData ==
    ASSUME DInv, NEW w \in Workers, MysqlRelease(w), Stepped(w) PROVE Consistent'
<1>1. pc[w] \in {"leave", "endQuery"} /\ UNCHANGED <<stores, reply>>
  BY DEF MysqlRelease, stores
<1>2. CASE pc[w] = "leave"
  <2>1. pc'[w] = "idle"
    BY <1>2, GoesOn DEF MysqlRelease, Goto
  <2> QED BY <1>1, <1>2, <2>1, IdleData, LocalData DEF Stepped
<1>3. CASE pc[w] = "endQuery"
  <2>1. pc'[w] = "compare" /\ task' = task
    BY <1>3, GoesOn DEF MysqlRelease, Goto
  <2>2. Data(w) /\ reply[w] = None
    BY <1>3 DEF DInv, Control
  <2>3. Unwritten(w) \/ task[w].op # "login"
    BY <1>3 DEF Unwritten
  <2>4. Data(w)'
    BY <1>1, <1>3, <2>1, <2>2, <2>3, LoginData
  <2> QED BY <1>1, <1>3, <2>1, <2>4, LocalData DEF Stepped
<1> QED BY <1>1, <1>2, <1>3

LEMMA CompareData ==
    ASSUME DInv, NEW w \in Workers, Compare(w), Stepped(w) PROVE Consistent'
<1>1. pc[w] = "compare" /\ UNCHANGED <<stores, reply>>
  BY DEF Compare, stores
<1>2. (pc'[w] = "sessionSet" /\ task' = task) \/ pc'[w] = "idle"
  BY GoesOn DEF Compare, Goto, Answer
<1>3. CASE pc'[w] = "idle"
  BY <1>1, <1>3, IdleData, LocalData DEF Stepped
<1>4. CASE pc'[w] = "sessionSet" /\ task' = task
  <2>1. Data(w) /\ reply[w] = None
    BY <1>1 DEF DInv, Control
  <2>2. Unwritten(w) \/ task[w].op # "login"
    BY <1>1 DEF Unwritten
  <2>3. Data(w)'
    BY <1>1, <1>4, <2>1, <2>2, LoginData
  <2> QED BY <1>1, <1>4, <2>3, LocalData DEF Stepped
<1> QED BY <1>2, <1>3, <1>4

LEMMA SelectData ==
    ASSUME DInv, NEW w \in Workers, Select(w), Stepped(w) PROVE Consistent'
<1>1. pc[w] = "mysql" /\ UNCHANGED <<stores, reply>>
  BY DEF Select, stores
<1>2. /\ task' = task /\ pc'[w] \in {"leave", "insert", "cacheSet", "endQuery"}
      /\ pc'[w] = "cacheSet" => dbPassword'[w] # None /\ dbPassword'[w] = users[task[w].name]
  BY SMTT(30) DEF Select, Goto, Answer, Advance, DInv, Typed
<1>3. Data(w) /\ reply[w] = None
  BY <1>1 DEF DInv, Control
<1>4. Unwritten(w) \/ task[w].op # "login"
  BY <1>1 DEF Unwritten
<1>5. Data(w)'
  BY <1>1, <1>2, <1>3, <1>4, LoginData
<1> QED BY <1>1, <1>2, <1>5, LocalData DEF Stepped

\* The INSERT: only a name without a row gets one.
LEMMA InsertData ==
    ASSUME DInv, NEW w \in Workers, Insert(w), Stepped(w) PROVE Consistent'
<1>1. pc[w] = "insert" /\ UNCHANGED <<cache, sessions, reply, drawn, handed, ended>>
  BY DEF Insert
<1>2. /\ task[w].name \in Names /\ task[w].password \in Passwords /\ task[w].op = "register"
      /\ Data(w) /\ reply[w] = None
  BY <1>1, TaskFields, Zenon DEF DInv, Control
<1>3. task' = task /\ pc'[w] = "leave"
  BY GoesOn DEF Insert, Answer
<1>4. /\ \A n \in Names : users[n] # None => users'[n] = users[n]
      /\ winners' = winners \/ (winners' = winners \cup {<<task[w].name, task[w].password>>}
                                /\ users'[task[w].name] = task[w].password)
  BY <1>2, StoreTypes DEF Insert
<1>5. Distinct'
  BY <1>1, <1>3, KeepDistinct DEF Stepped
<1>6. Data(w)'
  BY <1>1, <1>2, <1>3 DEF Data, Unwritten
<1>7. ASSUME NEW v \in Workers \ {w} PROVE Data(v)'
  <2>1. Data(v) /\ (pc[v] # "idle" /\ task[v].op = "login" => task[v].name \in Names)
    BY <1>7, TaskFields, Zenon DEF DInv
  <2>2. /\ pc'[v] = pc[v] /\ task'[v] = task[v] /\ reply'[v] = reply[v] /\ dbPassword'[v] = dbPassword[v]
    BY <1>7 DEF Stepped, Others
  <2>3. pc[v] = "cacheSet" => users'[task[v].name] = users[task[v].name]
    <3>1. pc[v] = "cacheSet" => task[v].op = "login"
      BY DEF DInv, Control
    <3> QED BY <1>4, <2>1, <3>1 DEF Data
  <2> QED BY <1>1, <2>1, <2>2, <2>3, KeepData, SMTT(30)
<1>8. Stored'
  <2>1. Stored
    BY DEF DInv
  <2>2. CacheCoherent'
    <3>1. CacheCoherent /\ cache' = cache
      BY <1>1, <2>1 DEF Stored
    <3> QED BY <1>4, <3>1 DEF CacheCoherent
  <2>3. \A x \in winners : x[1] \in Names /\ users[x[1]] # None /\ users[x[1]] = x[2]
    BY <2>1 DEF Stored
  <2>4. winners' \subseteq Names \X Passwords /\ \A x \in winners' : users'[x[1]] = x[2]
    BY <1>2, <1>4, <2>1, <2>3 DEF Stored
  <2> QED BY <1>1, <2>1, <2>2, <2>4, Zenon DEF Stored, TokenGood
<1> QED BY <1>5, <1>6, <1>7, <1>8 DEF Consistent

\* The end of a command: only the end of a login hands out a token.
LEMMA ReturnData ==
    ASSUME DInv, NEW w \in Workers, RedisReturn(w), Stepped(w), reply'[w] = None PROVE Consistent'
<1>1. /\ pc[w] \in RedisSteps /\ UNCHANGED <<users, cache, sessions, drawn, ended, winners>>
  BY DEF RedisReturn
<1>2. PICK status : Proceed(w, status) /\ (status = "Ok" => reply[w] # None /\ status = StatusOf(w))
  BY DEF RedisReturn
<1>3. Data(w) /\ Control(w) /\ Stored /\ reply[w] \in Replies \cup {None}
  BY SMTT(30) DEF DInv, Typed
<1>4. CASE pc[w] \in {"cacheGet", "cacheSet"}
  <2>1. /\ pc'[w] \in {"compare", "mysql", "endQuery"} /\ task' = task /\ handed' = handed
    BY <1>2, <1>4, GoesOn DEF Proceed, Goto
  <2>2. UNCHANGED stores
    BY <1>1, <2>1 DEF stores
  <2>3. Unwritten(w) \/ task[w].op # "login"
    BY <1>4 DEF Unwritten
  <2>4. Data(w)'
    BY <1>3, <1>4, <2>1, <2>2, <2>3, LoginData
  <2> QED BY <1>1, <2>1, <2>2, <2>4, LocalData DEF Stepped
<1>5. CASE pc[w] \in {"sessionGet", "sessionDel"}
  <2>1. pc'[w] = "idle" /\ handed' = handed
    BY <1>2, <1>5, GoesOn DEF Proceed, Answer
  <2>2. UNCHANGED stores
    BY <1>1, <2>1 DEF stores
  <2> QED BY <1>1, <1>5, <2>1, <2>2, IdleData, LocalData DEF Stepped
<1>6. CASE pc[w] = "sessionSet"
  <2>1. pc'[w] = "idle"
    BY <1>2, <1>6, GoesOn DEF Proceed, StoreSession, Answer
  <2>2. CASE handed' = handed
    <3>1. UNCHANGED stores
      BY <1>1, <2>2 DEF stores
    <3> QED BY <1>6, <2>1, <3>1, IdleData, LocalData DEF Stepped
  <2>3. CASE status = "Ok" /\ handed' = handed \cup {task[w].token}
    <3>1. reply[w] # None /\ reply[w].status # "Refused"
      BY <1>2, <1>6, <2>3 DEF StatusOf
    <3>2. /\ task[w].op = "login" /\ task[w].token \in Tokens /\ task[w].token \in drawn
          /\ sessions[task[w].token] # None \/ task[w].token \in ended
      BY <1>3, <1>6, <3>1, TaskFields, SMTT(30) DEF Control, Data
    <3>3. Distinct'
      BY <1>6, <2>1, KeepDistinct DEF Stepped
    <3>4. Data(w)'
      BY <2>1, IdleData
    <3>5. ASSUME NEW v \in Workers \ {w} PROVE Data(v)'
      <4>1. Data(v) /\ pc'[v] = pc[v] /\ task'[v] = task[v] /\ reply'[v] = reply[v]
            /\ dbPassword'[v] = dbPassword[v]
        BY DEF DInv, Stepped, Others
      <4>2. pc[v] # "idle" /\ task[v].op = "login" => task[v].token # task[w].token
        BY <1>6, <3>2 DEF DInv, Distinct
      <4>3. pc[v] # "idle" /\ task[v].op = "login" => task[v].token \notin handed' \ handed
        BY <2>3, <4>2
      <4>4. handed \subseteq handed'
        BY <2>3
      <4> QED BY <1>1, <4>1, <4>3, <4>4, KeepData
    <3>6. Stored'
      <4>1. TokenGood' /\ handed' \subseteq drawn
        BY <1>1, <1>3, <2>3, <3>2 DEF Stored, TokenGood
      <4> QED BY <1>1, <1>3, <4>1, Zenon DEF Stored, CacheCoherent
    <3> QED BY <3>3, <3>4, <3>5, <3>6 DEF Consistent
  <2> QED BY <1>2, <1>6, <2>2, <2>3 DEF Proceed, StoreSession
<1> QED BY <1>1, <1>4, <1>5, <1>6

\* A new task: a login draws a token nobody has seen.
LEMMA StartData ==
    ASSUME DInv, NEW w \in Workers, NEW r \in Requests, Start(w, r), Stepped(w),
           task'[w] = r, pc'[w] = First(r.op), r \in Tasks
    PROVE  Consistent'
<1>1. /\ pc[w] = "idle" /\ UNCHANGED <<users, cache, sessions, reply, dbPassword, handed, ended, winners>>
      /\ drawn \subseteq drawn' /\ drawn' \subseteq drawn \cup {r.token}
      /\ r.op = "login" => r.token \in drawn'
      /\ r.op # "login" => drawn' = drawn
  BY DEF Start
<1>2. Stored /\ reply[w] = None
  BY <1>1 DEF DInv, Control
<1>3. /\ r.op = "login" => r.token \in Tokens \ drawn
      /\ r.op \in {"profile", "logout"} => r.token \in handed \cup {None}
      /\ r.op \in {"register", "login", "profile", "logout"}
  BY DEF Requests
<1>4. Data(w)'
  <2>1. r.op = "login" => r.token \notin handed /\ r.token \notin ended /\ sessions[r.token] = None
    BY <1>2, <1>3 DEF Stored
  <2>2. /\ First(r.op) \notin {"cacheSet", "sessionSet"}
        /\ First(r.op) \in {"sessionGet", "sessionDel"} => r.op \in {"profile", "logout"}
    BY <1>3 DEF First
  <2> QED BY <1>1, <1>2, <1>3, <2>1, <2>2 DEF Data, Unwritten
<1>5. ASSUME NEW v \in Workers \ {w} PROVE Data(v)'
  <2>1. Data(v) /\ pc'[v] = pc[v] /\ task'[v] = task[v] /\ reply'[v] = reply[v]
        /\ dbPassword'[v] = dbPassword[v]
    BY DEF DInv, Stepped, Others
  <2> QED BY <1>1, <2>1, KeepData
<1>6. Distinct'
  <2>1. \A v \in Workers \ {w} : /\ pc'[v] = pc[v] /\ task'[v] = task[v]
                                 /\ pc[v] # "idle" /\ task[v].op = "login" => task[v].token \in drawn
    BY DEF DInv, Data, Stepped, Others
  <2> QED BY <1>3, <2>1 DEF DInv, Distinct
<1>7. Stored'
  <2>1. drawn' \subseteq Tokens
    BY <1>1, <1>2, <1>3 DEF Stored
  <2> QED BY <1>1, <1>2, <2>1 DEF Stored, CacheCoherent, TokenGood
<1> QED BY <1>4, <1>5, <1>6, <1>7 DEF Consistent

\* Redis acts on the command of w.
LEMMA CommandData ==
    ASSUME DInv, NEW w \in Workers, RedisCommand(w), Stepped(w), reply'[w] # None
    PROVE  Consistent'
<1>1. /\ pc[w] \in RedisSteps /\ reply[w] = None
      /\ UNCHANGED <<users, task, pc, dbPassword, drawn, handed, winners>>
      /\ Command(w) \/ ErrorReply(w)
  BY DEF RedisCommand
<1>2. Data(w) /\ Control(w) /\ Stored
  BY DEF DInv
<1>3. \A v \in Workers \ {w} : Data(v) /\ reply'[v] = reply[v]
  BY DEF DInv, Stepped, Others
<1>4. Distinct'
  BY <1>1 DEF DInv, Distinct
<1>5. reply \in [Workers -> Replies \cup {None}]
  BY DEF DInv, Typed
<1>6. ASSUME NEW status \in {"Ok", "NotFound", "Refused"}, NEW value \in Values, Reply(w, status, value)
      PROVE  reply'[w].status = status
  <2> DEFINE R == Replies
             rep == [status |-> status, value |-> value]
  <2>1. reply \in [Workers -> R \cup {None}] /\ reply' = [reply EXCEPT ![w] = rep] /\ rep.status = status
    BY <1>5, <1>6 DEF Reply
  <2> HIDE DEF R, rep
  <2> QED BY <2>1
<1>7. None \in Values
  BY DEF Values
<1>8. CASE UNCHANGED <<cache, sessions, ended>> /\ (pc[w] = "cacheGet" \/ ErrorReply(w))
  <2>1. UNCHANGED stores
    BY <1>1, <1>8 DEF stores
  <2>2. ErrorReply(w) => reply'[w].status = "Refused"
    BY <1>6, <1>7 DEF ErrorReply
  <2>3. Data(w)'
    BY <1>1, <1>2, <1>8, <2>2, SMTT(30) DEF Data, Unwritten
  <2> QED BY <1>1, <2>1, <2>3, LocalData DEF Stepped
<1>9. CASE pc[w] = "cacheSet" /\ cache' = [cache EXCEPT ![task[w].name] = dbPassword[w]]
           /\ UNCHANGED <<sessions, ended>>
  <2>1. Data(w)'
    BY <1>1, <1>2, <1>9 DEF Data, Unwritten
  <2>2. ASSUME NEW v \in Workers \ {w} PROVE Data(v)'
    <3>1. /\ Data(v) /\ pc'[v] = pc[v] /\ task'[v] = task[v] /\ reply'[v] = reply[v]
          /\ dbPassword'[v] = dbPassword[v]
      BY <1>1, <1>3
    <3> QED BY <1>1, <1>9, <3>1, KeepData
  <2>3. CacheCoherent'
    <3>1. CacheCoherent /\ dbPassword[w] = users[task[w].name]
      BY <1>2, <1>9 DEF Stored, Data
    <3> QED BY <1>1, <1>9, <3>1, StoreTypes DEF CacheCoherent
  <2>4. Stored'
    BY <1>1, <1>2, <1>9, <2>3, ZenonT(40) DEF Stored, TokenGood
  <2> QED BY <1>4, <2>1, <2>2, <2>4 DEF Consistent
<1>10. CASE /\ pc[w] = "sessionSet" /\ sessions' = [sessions EXCEPT ![task[w].token] = task[w].name]
            /\ UNCHANGED <<cache, ended>>
  <2>1. /\ task[w].op = "login" /\ task[w].token \in Tokens /\ task[w].name \in Names
        /\ Unwritten(w) /\ task[w].token \in drawn \ handed /\ task[w].token \notin ended
    <3>1. task[w].op = "login"
      BY <1>2, <1>10 DEF Control
    <3>2. task[w].token \in Tokens /\ task[w].name \in Names
      BY <1>10, <3>1, TaskFields
    <3>3. Unwritten(w)
      BY <1>1, <1>10, <3>1 DEF Unwritten
    <3> QED BY <1>2, <1>10, <3>1, <3>2, <3>3 DEF Data
  <2>2. /\ sessions'[task[w].token] # None
        /\ \A t \in Tokens \ {task[w].token} : sessions'[t] = sessions[t]
    BY <1>10, <2>1, StoreTypes
  <2>3. Data(w)'
    BY <1>1, <1>2, <1>10, <2>1, <2>2, SMTT(30) DEF Data, Unwritten
  <2>4. ASSUME NEW v \in Workers \ {w} PROVE Data(v)'
    <3>1. pc[v] # "idle" /\ task[v].op = "login" =>
             task[v].token \in Tokens /\ task[v].token # task[w].token
      BY <1>10, <2>1, TaskFields, Zenon DEF DInv, Distinct
    <3>2. pc[v] = "sessionSet" => task[v].op = "login"
      BY DEF DInv, Control
    <3>3. Unwritten(v) => sessions'[task[v].token] = sessions[task[v].token]
      BY <2>2, <3>1 DEF Unwritten
    <3>4. pc[v] = "sessionSet" => sessions'[task[v].token] = sessions[task[v].token]
      BY <2>2, <3>1, <3>2
    <3>5. /\ Data(v) /\ pc'[v] = pc[v] /\ task'[v] = task[v] /\ reply'[v] = reply[v]
          /\ dbPassword'[v] = dbPassword[v]
      BY <1>1, <1>3
    <3> QED BY <1>1, <1>10, <3>3, <3>4, <3>5, KeepData
  <2>5. Stored'
    <3>1. TokenGood' /\ \A t \in Tokens : sessions'[t] # None => t \in drawn'
      BY <1>1, <1>2, <1>10, <2>1, <2>2, SMTT(30) DEF Stored, TokenGood
    <3> QED BY <1>1, <1>2, <1>10, <3>1, Zenon DEF Stored, CacheCoherent
  <2> QED BY <1>4, <2>3, <2>4, <2>5 DEF Consistent
<1>11. CASE /\ pc[w] \in {"sessionGet", "sessionDel"}
            /\ \E value : Reply(w, Found(IF task[w].token = None THEN None ELSE sessions[task[w].token]), value)
                          /\ value \in Values
            /\ cache' = cache
            /\ \/ UNCHANGED <<sessions, ended>>
               \/ /\ sessions' = [x \in Tokens |-> IF x = task[w].token THEN None ELSE sessions[x]]
                  /\ ended' = ended \cup ({task[w].token} \ {None})
  <2> DEFINE tok == task[w].token
  <2>1. tok \in handed \cup {None} /\ task[w].op \in {"profile", "logout"} /\ handed \subseteq Tokens
    BY <1>2, <1>11, SMTT(30) DEF Data, Control, Stored
  <2>2. reply'[w].status = "NotFound" => tok \in ended \cup {None}
    <3>1. PICK value \in Values : Reply(w, Found(IF tok = None THEN None ELSE sessions[tok]), value)
      BY <1>11
    <3>2. reply'[w].status = Found(IF tok = None THEN None ELSE sessions[tok])
      BY <1>6, <3>1 DEF Found
    <3> QED BY <1>2, <2>1, <3>2 DEF Found, Stored, TokenGood
  <2>3. ended \subseteq ended' /\ ended' \subseteq ended \cup (handed \cap {tok})
    BY <1>11, <2>1
  <2>4. \A t \in Tokens : /\ sessions'[t] = sessions[t] \/ (t = tok /\ t \in ended' /\ sessions'[t] = None)
                          /\ t \in ended' \ ended => sessions'[t] = None
    BY <1>11, <2>1
  <2>5. Data(w)'
    BY <1>1, <1>2, <1>11, <2>1, <2>2, <2>3, SMTT(30) DEF Data, Unwritten
  <2>6. ASSUME NEW v \in Workers \ {w} PROVE Data(v)'
    <3>1. pc[v] # "idle" /\ task[v].op = "login" => task[v].token \in Tokens /\ task[v].token \notin handed
      <4>1. Data(v)
        BY <1>3
      <4>2. pc[v] # "idle" /\ task[v].op = "login" => task[v].token \in Tokens
        BY TaskFields
      <4> QED BY <4>1, <4>2 DEF Data
    <3>2. pc[v] = "sessionSet" => task[v].op = "login"
      BY DEF DInv, Control
    <3>3. Unwritten(v) => task[v].token \notin ended' \ ended /\ sessions'[task[v].token] = sessions[task[v].token]
      <4>1. Unwritten(v) => task[v].token \notin ended'
        BY <1>3, <2>3, <3>1 DEF Data, Unwritten
      <4> QED BY <2>4, <3>1, <4>1 DEF Unwritten
    <3>4. pc[v] = "sessionSet" => sessions'[task[v].token] = sessions[task[v].token] \/ task[v].token \in ended'
      BY <2>4, <3>1, <3>2
    <3>5. /\ Data(v) /\ pc'[v] = pc[v] /\ task'[v] = task[v] /\ reply'[v] = reply[v]
          /\ dbPassword'[v] = dbPassword[v]
      BY <1>1, <1>3
    <3> QED BY <1>1, <2>3, <3>3, <3>4, <3>5, KeepData, SMTT(30)
  <2>7. Stored'
    <3>1. TokenGood' /\ ended' \subseteq drawn' /\ \A t \in Tokens : sessions'[t] # None => t \in drawn'
      BY <1>1, <1>2, <2>3, <2>4 DEF Stored, TokenGood
    <3> QED BY <1>1, <1>2, <1>11, <3>1, Zenon DEF Stored, CacheCoherent
  <2> QED BY <1>4, <2>5, <2>6, <2>7 DEF Consistent
<1>12. CASE Command(w)
  <2>1. CASE pc[w] = "cacheGet"
    BY <1>8, <1>12, <2>1 DEF Command
  <2>2. CASE pc[w] = "cacheSet"
    BY <1>9, <1>12, <2>2 DEF Command, CacheValue
  <2>3. CASE pc[w] = "sessionSet"
    BY <1>10, <1>12, <2>3 DEF Command
  <2>4. CASE pc[w] = "sessionGet"
    <3>1. (IF task[w].token = None THEN None ELSE sessions[task[w].token]) \in Values
      <4>1. task[w].token \in Tokens \cup {None}
        BY <2>4, TaskFields
      <4> QED BY <4>1, StoreTypes DEF Values
    <3> QED BY <1>11, <1>12, <2>4, <3>1 DEF Command
  <2>5. CASE pc[w] = "sessionDel"
    BY <1>7, <1>11, <1>12, <2>5 DEF Command
  <2> QED BY <1>1, <2>1, <2>2, <2>3, <2>4, <2>5
<1>13. CASE ErrorReply(w)
  BY <1>8, <1>13 DEF ErrorReply
<1> QED BY <1>1, <1>12, <1>13

----------------------------------------------------------------------------
(* Every step keeps the invariant.                                         *)

LEMMA WorkerStep ==
    ASSUME DInv, NEW w \in Workers, Run(w) \/ \E r \in Requests : Start(w, r)
    PROVE  DInv'
<1>1. Stepped(w) /\ Consistent'
  <2>1. CASE RedisGetConn(w)
    BY <2>1, RedisGetStep, WaitSteps
  <2>2. CASE RedisCommand(w)
    BY <2>2, CommandStep, CommandData
  <2>3. CASE RedisNoReply(w)
    BY <2>3, RedisNoReplyStep, WaitSteps
  <2>4. CASE RedisReturn(w)
    BY <2>4, ReturnStep, ReturnData
  <2>5. CASE MysqlGetConn(w)
    BY <2>5, MysqlGetStep, WaitSteps
  <2>6. CASE MysqlUnavailable(w)
    BY <2>6, UnavailableStep, UnavailableData
  <2>7. CASE Select(w)
    BY <2>7, SelectStep, SelectData
  <2>8. CASE Insert(w)
    BY <2>8, InsertStep, InsertData
  <2>9. CASE MysqlRelease(w)
    BY <2>9, ReleaseStep, ReleaseData
  <2>10. CASE Compare(w)
    BY <2>10, CompareStep, CompareData
  <2>11. ASSUME NEW r \in Requests, Start(w, r) PROVE Stepped(w) /\ Consistent'
    BY <2>11, StartStep, StartData
  <2> QED BY <2>1, <2>2, <2>3, <2>4, <2>5, <2>6, <2>7, <2>8, <2>9, <2>10, <2>11 DEF Run
<1>2. \A v \in Workers : Control(v)'
  BY <1>1, OthersControl DEF Stepped
<1> QED BY <1>1, <1>2 DEF DInv, Stepped, Consistent

\* What no worker sees: the tasks are where they were.
LEMMA Unseen ==
    ASSUME DInv, UNCHANGED <<rupc, mpool, mupc, mheld, task, pc, reply, dbPassword, answer>>
    PROVE  /\ \A w \in Workers : Control(w)'
           /\ Distinct'
           /\ dead' \subseteq MysqlHandles => Connected'
           /\ UNCHANGED stores /\ dead' \subseteq MysqlHandles => DInv'
<1>1. \A w \in Workers : Control(w)'
  BY Zenon DEF DInv, Control
<1>2. Distinct'
  BY Zenon DEF DInv, Distinct
<1>3. dead' \subseteq MysqlHandles => Connected'
  BY Zenon DEF DInv, Connected
<1>4. ASSUME UNCHANGED stores, dead' \subseteq MysqlHandles PROVE DInv'
  <2>1. Consistent'
    BY <1>4, WaitData
  <2>2. UNCHANGED <<users, cache, sessions>>
    BY <1>4 DEF stores
  <2>3. Typed'
    BY <2>2, Zenon DEF DInv, Typed
  <2> QED BY <1>1, <1>3, <1>4, <2>1, <2>3 DEF DInv, Consistent
<1> QED BY <1>1, <1>2, <1>3, <1>4

LEMMA RedisServerStep == ASSUME DInv, RedisServer PROVE DInv'
<1>1. /\ UNCHANGED <<rupc, mpool, mupc, mheld, task, pc, reply, dbPassword, answer>>
      /\ UNCHANGED stores /\ dead' = dead
  BY DEF RedisServer, Redis!RedisDown, Redis!RedisUp, Redis!connPoolVars, stores
<1>2. dead' \subseteq MysqlHandles
  BY <1>1 DEF DInv, Connected
<1> QED BY <1>1, <1>2, Unseen

LEMMA MysqlRestartStep == ASSUME DInv, MysqlRestart PROVE DInv'
<1>1. /\ UNCHANGED <<rupc, mpool, mupc, mheld, task, pc, reply, dbPassword, answer>>
      /\ UNCHANGED stores /\ dead' = Mysql!Pooled \cup Mysql!HeldNow
  BY DEF MysqlRestart, stores
<1>2. dead' \subseteq MysqlHandles
  BY <1>1 DEF DInv, Connected, Mysql!Pooled, Mysql!HeldNow
<1> QED BY <1>1, <1>2, Unseen

\* A session that expires was written: no login in its course is concerned.
LEMMA ExpireStep == ASSUME DInv, Expire PROVE DInv'
<1>1. UNCHANGED <<rupc, mpool, mupc, mheld, dead, users, task, pc, reply, dbPassword, answer, drawn, handed, winners>>
  BY DEF Expire
<1>2. Connected' /\ Distinct' /\ \A w \in Workers : Control(w)'
  <2>1. dead' \subseteq MysqlHandles
    BY <1>1 DEF DInv, Connected
  <2> QED BY <1>1, <2>1, Unseen
<1>3. /\ cache' \in [Names -> Passwords \cup {None}] /\ sessions' \in [Tokens -> Names \cup {None}]
  BY StoreTypes DEF Expire
<1>4. Typed'
  BY <1>1, <1>3, Zenon DEF DInv, Typed
<1>5. Stored
  BY DEF DInv
<1>6. /\ \A n \in Names : cache'[n] # None => cache'[n] = cache[n]
      /\ ended \subseteq ended'
      /\ \A t \in Tokens : /\ sessions'[t] = sessions[t] \/ (t \in ended' /\ sessions'[t] = None)
                           /\ t \in ended' \ ended => sessions[t] # None /\ sessions'[t] = None
      /\ ended' \subseteq ended \cup Tokens
  BY StoreTypes DEF Expire
<1>7. Stored'
  <2>1. CacheCoherent'
    BY <1>1, <1>5, <1>6 DEF Stored, CacheCoherent
  <2>2. TokenGood' /\ ended' \subseteq drawn' /\ \A t \in Tokens : sessions'[t] # None => t \in drawn'
    BY <1>1, <1>5, <1>6 DEF Stored, TokenGood
  <2> QED BY <1>1, <1>5, <2>1, <2>2, Zenon DEF Stored
<1>8. ASSUME NEW v \in Workers PROVE Data(v)'
  <2>1. Data(v) /\ (pc[v] # "idle" /\ task[v].op = "login" => task[v].token \in Tokens)
    BY TaskFields DEF DInv
  <2>2. pc[v] = "sessionSet" => task[v].op = "login"
    BY DEF DInv, Control
  <2>3. Unwritten(v) => task[v].token \notin ended' \ ended /\ sessions'[task[v].token] = sessions[task[v].token]
    <3>1. Unwritten(v) => task[v].token \in Tokens /\ task[v].token \notin ended /\ sessions[task[v].token] = None
      BY <2>1 DEF Data, Unwritten
    <3> QED BY <1>6, <3>1
  <2>4. pc[v] = "sessionSet" => sessions'[task[v].token] = sessions[task[v].token] \/ task[v].token \in ended'
    BY <1>6, <2>1, <2>2
  <2>5. pc'[v] = pc[v] /\ task'[v] = task[v] /\ reply'[v] = reply[v] /\ dbPassword'[v] = dbPassword[v]
    BY <1>1
  <2> QED BY <1>1, <1>6, <2>1, <2>3, <2>4, <2>5, KeepData, SMTT(30)
<1> QED BY <1>2, <1>4, <1>7, <1>8 DEF DInv

LEMMA DInit == Init => DInv
<1> SUFFICES ASSUME Init PROVE DInv
  OBVIOUS
<1>1. /\ rupc = [w \in Workers |-> "idle"] /\ mupc = [w \in Workers |-> "idle"]
      /\ mheld = [w \in Workers |-> NoHandle]
      /\ \E n \in 0 .. kDbMaxConn : mpool \in [1 .. n -> MysqlHandles]
  BY DEF Init, Redis!Init, Redis!PoolInit, Mysql!Init, Mysql!PoolInit
<1>2. Typed
  BY <1>1 DEF Init, Typed, PoolStates, Values
<1>3. Connected
  BY <1>1 DEF Init, Connected
<1>4. Distinct
  BY DEF Init, Distinct
<1>5. Stored
  BY DEF Init, Stored, CacheCoherent, TokenGood
<1>6. ASSUME NEW w \in Workers PROVE Control(w) /\ Data(w)
  <2>1. pc[w] = "idle" /\ rupc[w] = "idle" /\ mupc[w] = "idle" /\ reply[w] = None
    BY <1>1 DEF Init
  <2> QED BY <2>1 DEF Control, Data, Unwritten, Guarded
<1> QED BY <1>2, <1>3, <1>4, <1>5, <1>6 DEF DInv

LEMMA DStep == DInv /\ [Next]_vars => DInv'
<1> SUFFICES ASSUME DInv, [Next]_vars PROVE DInv'
  OBVIOUS
<1>1. CASE UNCHANGED vars
  <2>1. /\ UNCHANGED <<rupc, mpool, mupc, mheld, task, pc, reply, dbPassword, answer>>
        /\ UNCHANGED stores /\ dead' = dead
    BY <1>1 DEF vars, stores
  <2>2. dead' \subseteq MysqlHandles
    BY <2>1 DEF DInv, Connected
  <2> QED BY <2>1, <2>2, Unseen
<1>2. CASE Next
  BY <1>2, WorkerStep, RedisServerStep, ExpireStep, MysqlRestartStep DEF Next
<1> QED BY <1>1, <1>2

----------------------------------------------------------------------------
(* The promises.                                                           *)

\* The invariant holds of every behaviour of the four handlers.
THEOREM DbInvariant == Spec => []DInv
BY DInit, DStep, PTL DEF Spec

\* The stores and the steps of the tasks keep their types.
THEOREM DbTypes == Spec => []TypeOK
<1>1. DInv => TypeOK
  BY Zenon DEF DInv, Typed, Connected, Stored, TypeOK
<1> QED BY <1>1, DbInvariant, PTL

\* A task that waits for MySQL holds no connection of Redis, and one that is over
\* holds none (MysqlGuard, releaseConn and discardBrokenConn on every path).
THEOREM WaitsInOrder == Spec => []WaitOrder
<1>1. DInv => WaitOrder
  BY DEF DInv, WaitOrder, Control, Guarded
<1> QED BY <1>1, DbInvariant, PTL

\* The registrations of a name that race have one winner, whose password is the
\* one stored (handleRegister's SELECT, then INSERT under the UNIQUE key).
THEOREM RegistersOnce == Spec => []OneWinner
<1>1. ASSUME DInv PROVE OneWinner
  <2>1. winners \subseteq Names \X Passwords /\ \A x \in winners : users[x[1]] = x[2]
    BY <1>1 DEF DInv, Stored
  <2>2. ASSUME NEW x \in winners, NEW y \in winners, x[1] = y[1] PROVE x = y
    <3>1. x = <<x[1], x[2]>> /\ y = <<y[1], y[2]>>
      BY <2>1
    <3> QED BY <2>1, <2>2, <3>1
  <2> QED BY <2>1, <2>2 DEF OneWinner
<1> QED BY <1>1, DbInvariant, PTL

\* A cached password is the one in the table (handleLogin's cache write).
THEOREM CacheIsCoherent == Spec => []CacheCoherent
<1>1. DInv => CacheCoherent
  BY DEF DInv, Stored
<1> QED BY <1>1, DbInvariant, PTL

\* A token that was sent is good until it expires or is logged out (handleLogin
\* answers 200 only after the session was stored).
THEOREM TokensGood == Spec => []TokenGood
<1>1. DInv => TokenGood
  BY DEF DInv, Stored
<1> QED BY <1>1, DbInvariant, PTL

\* What a step of another worker, or of a server, cannot change.
LEMMA AnswerKept ==
    ASSUME DInv, [Next]_vars, NEW v \in Workers, ~Run(v), ~\E r \in Requests : Start(v, r)
    PROVE  pc'[v] = pc[v] /\ answer'[v] = answer[v]
<1>1. CASE UNCHANGED vars
  BY <1>1 DEF vars
<1>2. CASE RedisServer \/ Expire \/ MysqlRestart
  BY <1>2 DEF RedisServer, Expire, MysqlRestart
<1>3. ASSUME NEW w \in Workers, Run(w) \/ \E r \in Requests : Start(w, r)
      PROVE  pc'[v] = pc[v] /\ answer'[v] = answer[v]
  <2>1. w # v
    BY <1>3
  <2>2. Stepped(w)
    BY <1>3, RedisGetStep, CommandStep, RedisNoReplyStep, ReturnStep, MysqlGetStep, UnavailableStep,
       SelectStep, InsertStep, ReleaseStep, CompareStep, StartStep DEF Run
  <2> QED BY <2>1, <2>2, Zenon DEF Stepped, Others
<1> QED BY <1>1, <1>2, <1>3 DEF Next

\* No task answers twice, and none ends without an answer (every return of the
\* lambdas given to runDbTask is after a sendJson).
THEOREM AnswersOnce == Spec => AnsweredOnce
<1>1. ASSUME DInv, [Next]_vars, NEW w \in Workers, pc[w] # "idle"
      PROVE  /\ answer[w] # 0 => answer'[w] = answer[w]
             /\ pc'[w] = "idle" => answer'[w] # 0
  <2>1. CASE ~Run(w) /\ ~\E r \in Requests : Start(w, r)
    BY <1>1, <2>1, AnswerKept
  <2>2. ~\E r \in Requests : Start(w, r)
    BY <1>1 DEF Start
  <2>3. Control(w) /\ Typed
    BY <1>1 DEF DInv
  <2>4. CASE RedisGetConn(w) \/ RedisCommand(w) \/ RedisNoReply(w) \/ MysqlGetConn(w)
    <3>1. UNCHANGED <<pc, answer>>
      BY <2>4 DEF RedisGetConn, RedisCommand, RedisNoReply, MysqlGetConn
    <3> QED BY <1>1, <3>1
  <2>5. CASE RedisReturn(w)
    <3>1. pc[w] \in RedisSteps /\ answer[w] = 0
      BY <2>3, <2>5 DEF RedisReturn, Control
    <3>2. PICK status : Proceed(w, status) /\ (status = "Ok" => reply[w] # None)
      BY <2>5 DEF RedisReturn
    <3>3. pc'[w] = "idle" => \E st \in {200, 401, 409, 500, 503} : Answer(w, st, "idle")
      <4>1. \/ Goto(w, "compare") \/ Goto(w, "mysql") \/ Goto(w, "endQuery")
            \/ \E st \in {200, 401, 409, 500, 503} : Answer(w, st, "idle")
        BY <1>1, <3>2, Proceeds
      <4> QED BY <1>1, <4>1, GoesOn DEF Goto
    <3> QED BY <1>1, <3>1, <3>3, Sends
  <2>6. CASE MysqlUnavailable(w) \/ Select(w) \/ Insert(w) \/ Compare(w)
    <3>1. answer[w] = 0
      BY <2>3, <2>6, Zenon DEF MysqlUnavailable, Select, Insert, Compare, Control
    <3>2. \/ Goto(w, "insert") \/ Goto(w, "cacheSet") \/ Goto(w, "endQuery") \/ Goto(w, "sessionSet")
          \/ \E st \in {401, 409, 500, 503, 200}, next \in {"idle", "leave"} : Answer(w, st, next)
      BY <2>6, SMTT(30) DEF MysqlUnavailable, Select, Insert, Compare
    <3>3. pc'[w] = "idle" => answer'[w] # 0
      BY <1>1, <3>2, GoesOn, Sends DEF Goto
    <3> QED BY <3>1, <3>3
  <2>7. CASE MysqlRelease(w)
    <3>1. \/ pc[w] = "endQuery" /\ Goto(w, "compare") /\ answer[w] = 0
          \/ pc[w] = "leave" /\ UNCHANGED answer /\ answer[w] # 0
      BY <2>3, <2>7 DEF MysqlRelease, Goto, Control
    <3> QED BY <1>1, <3>1, GoesOn DEF Goto
  <2> QED BY <2>1, <2>2, <2>4, <2>5, <2>6, <2>7 DEF Run
<1>2. DInv /\ [Next]_vars =>
         [\A w \in Workers : pc[w] # "idle" =>
             /\ answer[w] # 0 => answer'[w] = answer[w]
             /\ pc'[w] = "idle" => answer'[w] # 0]_vars
  BY <1>1
<1> QED BY <1>2, DbInvariant, PTL DEF Spec, AnsweredOnce

\* Without a reply from Redis a client with a valid token is never told 401
\* (handleProfile and handleLogout answer 503 on RedisStatus::Error).
THEOREM OutageIsNo401 == Spec => UnauthorizedIsNoOutage
<1>1. ASSUME DInv, [Next]_vars, NEW w \in Workers, pc[w] \in {"sessionGet", "sessionDel"},
             answer[w] = 0, answer'[w] = 401
      PROVE  \/ task[w].token \in ended \cup {None}
             \/ reply[w] # None /\ reply[w].status = "Refused"
  <2>1. Run(w)
    <3>1. ~\E r \in Requests : Start(w, r)
      BY <1>1 DEF Start
    <3> QED BY <1>1, <3>1, AnswerKept
  <2>2. RedisReturn(w)
    <3>1. UNCHANGED answer => answer'[w] # 401
      BY <1>1
    <3>2. RedisGetConn(w) \/ RedisCommand(w) \/ RedisNoReply(w) => UNCHANGED answer
      BY DEF RedisGetConn, RedisCommand, RedisNoReply
    <3>3. MysqlGetConn(w) \/ MysqlUnavailable(w) \/ Select(w) => pc[w] = "mysql"
      BY DEF MysqlGetConn, MysqlUnavailable, Select
    <3>4. Insert(w) \/ MysqlRelease(w) \/ Compare(w) => pc[w] \in {"insert", "leave", "endQuery", "compare"}
      BY SMTT(30) DEF Insert, MysqlRelease, Compare
    <3> QED BY <1>1, <2>1, <3>1, <3>2, <3>3, <3>4 DEF Run
  <2>3. PICK status : /\ Proceed(w, status)
                      /\ status = "Error" \/ (reply[w] # None /\ status = StatusOf(w))
    BY <2>2 DEF RedisReturn
  <2>4. SessionStatus(status) = 401
    BY <1>1, <2>3, Sends DEF Proceed
  <2>5. status = "NotFound" /\ reply[w] # None /\ reply[w].status # "Ok"
    BY <1>1, <2>3, <2>4 DEF SessionStatus, StatusOf
  <2>6. reply[w].status \in {"NotFound", "Refused"}
    BY <1>1, <2>5, SMTT(30) DEF DInv, Typed, Replies
  <2> QED BY <1>1, <2>5, <2>6 DEF DInv, Data
<1>2. DInv /\ [Next]_vars =>
         [\A w \in Workers :
             pc[w] \in {"sessionGet", "sessionDel"} /\ answer[w] = 0 /\ answer'[w] = 401 =>
                 \/ task[w].token \in ended \cup {None}
                 \/ reply[w] # None /\ reply[w].status = "Refused"]_vars
  BY <1>1
<1> QED BY <1>2, DbInvariant, PTL DEF Spec, UnauthorizedIsNoOutage

\* The tasks use RedisPool as get, setex and del do: all that is proved of it
\* holds while they run.
THEOREM UsesRedisPool == Spec => RedisPoolUsed
<1>1. Init => Redis!Init
  BY DEF Init
<1>2. [Next]_vars => [Redis!Next]_(Redis!vars)
  <2> SUFFICES ASSUME [Next]_vars PROVE Redis!Next \/ UNCHANGED Redis!vars
    BY SMTT(30)
  <2>1. ASSUME NEW w \in Workers, Run(w) PROVE Redis!User(w) \/ UNCHANGED redisVars
    BY <2>1, ZenonT(40) DEF Run, RedisGetConn, RedisCommand, RedisNoReply, RedisReturn, MysqlGetConn,
       MysqlUnavailable, Select, Insert, MysqlRelease, Compare, Redis!User
  <2>2. ASSUME NEW w \in Workers, NEW r \in Requests, Start(w, r) PROVE UNCHANGED redisVars
    BY <2>2 DEF Start
  <2>3. CASE RedisServer
    BY <2>3 DEF RedisServer, Redis!Next
  <2>4. Expire \/ MysqlRestart \/ UNCHANGED vars => UNCHANGED redisVars
    BY SMTT(30) DEF Expire, MysqlRestart, vars
  <2>5. UNCHANGED redisVars => UNCHANGED Redis!vars
    BY DEF Redis!vars, Redis!connPoolVars
  <2> QED BY <2>1, <2>2, <2>3, <2>4, <2>5 DEF Next, Redis!Next
<1> QED BY <1>1, <1>2, PTL DEF Spec, RedisPoolUsed, Redis!Spec

\* The tasks use MysqlPool as MysqlGuard does.
THEOREM UsesMysqlPool == Spec => MysqlPoolUsed
<1>1. Init => Mysql!Init
  BY DEF Init
<1>2. [Next]_vars => [Mysql!Next]_(Mysql!vars)
  <2> SUFFICES ASSUME [Next]_vars PROVE Mysql!Next \/ UNCHANGED Mysql!vars
    OBVIOUS
  <2>1. ASSUME NEW w \in Workers, Run(w)
        PROVE  Mysql!GetConn(w) \/ Mysql!Getting(w) \/ Mysql!Fail(w) \/ Mysql!ReleaseConn(w) \/ UNCHANGED mysqlVars
    BY <2>1, Zenon DEF Run, RedisGetConn, RedisCommand, RedisNoReply, RedisReturn, MysqlGetConn,
       MysqlUnavailable, Select, Insert, MysqlRelease, Compare
  <2>2. ASSUME NEW w \in Workers, NEW r \in Requests, Start(w, r) PROVE UNCHANGED mysqlVars
    BY <2>2 DEF Start
  <2>3. RedisServer \/ Expire \/ MysqlRestart \/ UNCHANGED vars => UNCHANGED mysqlVars
    BY SMTT(30) DEF RedisServer, Expire, MysqlRestart, vars
  <2>4. UNCHANGED mysqlVars => UNCHANGED Mysql!vars
    BY DEF Mysql!vars, Mysql!connPoolVars
  <2> QED BY <2>1, <2>2, <2>3, <2>4, SMTT(30) DEF Next, Mysql!Next
<1> QED BY <1>1, <1>2, PTL DEF Spec, MysqlPoolUsed, Mysql!Spec
=============================================================================
