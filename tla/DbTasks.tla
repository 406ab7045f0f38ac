------------------------------ MODULE DbTasks ------------------------------
(***************************************************************************)
(* The DB tasks of handleRegister, handleLogin, handleProfile and          *)
(* handleLogout on the threads of dbPool_, with the two connection pools   *)
(* they draw on (RedisPool and MysqlPool), the users table and the cache   *)
(* and the sessions in Redis.  Either server may stop, lose a reply it     *)
(* owes, or answer with an error.                                          *)
(***************************************************************************)
EXTENDS Naturals, Sequences, FiniteSets

CONSTANTS
    Workers,                      \* threads of dbPool_
    RedisHandles, MysqlHandles, NoHandle,
    kRedisMaxConn, kDbMaxConn,
    Names, Passwords,             \* credentials that pass checkCredentials
    LoginPasswords,               \* bound: the passwords logins are tried with
    Tokens,                       \* what generateToken returns, never twice
    None                          \* no value

ASSUME DbTasksAssumption ==
    /\ LoginPasswords \subseteq Passwords
    /\ None \notin Names \cup Passwords \cup Tokens
    /\ None \notin [status : {"Ok", "NotFound", "Refused"}, value : Names \cup Passwords \cup {None}]

VARIABLES
    rpool, rupc, rheld, rlost, up, broken,  \* RedisPool
    mpool, mupc, mheld, mlost,              \* MysqlPool
    dead,       \* MYSQL handles whose server connection is gone
    users,      \* the table users (username UNIQUE): the password of a name
    cache,      \* Redis "user:" keys
    sessions,   \* Redis "session:" keys: the name a token stands for
    task,       \* per worker: the request its task serves
    pc,         \* per worker: the next step of the task, "idle" after the last
    reply,      \* per worker: Redis' reply to the command under way
    dbPassword, \* per worker: the local variable of handleLogin
    answer,     \* per worker: the status its task has sent, 0 before that
    drawn,      \* history: tokens generated
    handed,     \* history: tokens sent to a client
    ended,      \* history: tokens logged out or expired
    winners     \* history: registrations answered with 200

redisVars == <<rpool, rupc, rheld, rlost, up, broken>>
mysqlVars == <<mpool, mupc, mheld, mlost>>
storeVars == <<dead, users, cache, sessions>>
historyVars == <<drawn, handed, ended, winners>>
vars == <<redisVars, mysqlVars, storeVars, task, pc, reply, dbPassword, answer, historyVars>>

Redis == INSTANCE RedisPool
    WITH Users <- Workers, Handles <- RedisHandles, maxConn <- kRedisMaxConn,
         pool <- rpool, upc <- rupc, held <- rheld, lost <- rlost
Mysql == INSTANCE MysqlPool
    WITH Users <- Workers, Handles <- MysqlHandles, maxConn <- kDbMaxConn,
         pool <- mpool, upc <- mupc, held <- mheld, lost <- mlost

\* A client asks with credentials, or with a token: one it was given, or none of
\* ours.  The token of a login is the one its task will generate.
Requests ==
    [op : {"register"}, name : Names, password : Passwords, token : {None}] \cup
    [op : {"login"}, name : Names, password : LoginPasswords, token : Tokens \ drawn] \cup
    [op : {"profile", "logout"}, name : {None}, password : {None}, token : handed \cup {None}]

First(op) ==
    CASE op = "register" -> "mysql"
      [] op = "login"    -> "cacheGet"
      [] op = "profile"  -> "sessionGet"
      [] op = "logout"   -> "sessionDel"

\* A worker takes the task of a request off the queue.
Start(w, r) ==
    /\ pc[w] = "idle"
    /\ task' = [task EXCEPT ![w] = r]
    /\ pc' = [pc EXCEPT ![w] = First(r.op)]
    /\ answer' = [answer EXCEPT ![w] = 0]
    /\ drawn' = IF r.op = "login" THEN drawn \cup {r.token} ELSE drawn
    /\ UNCHANGED <<redisVars, mysqlVars, storeVars, reply, dbPassword, handed, ended, winners>>

\* The task goes on at next.
Advance(w, next) ==
    /\ pc' = [pc EXCEPT ![w] = next]
    /\ task' = IF next = "idle" THEN [task EXCEPT ![w] = None] ELSE task

Goto(w, next) == Advance(w, next) /\ UNCHANGED answer

\* sendJson with this status, after which the task goes on at next.
Answer(w, status, next) ==
    /\ Advance(w, next)
    /\ answer' = [answer EXCEPT ![w] = status]

----------------------------------------------------------------------------
(* RedisPool::get, setex and del.                                          *)

RedisSteps == {"cacheGet", "cacheSet", "sessionSet", "sessionGet", "sessionDel"}

\* getConn.
RedisGetConn(w) ==
    /\ pc[w] \in RedisSteps
    /\ Redis!GetConn(w) \/ Redis!Getting(w)
    /\ UNCHANGED <<up, broken, mysqlVars, storeVars, task, pc, reply, dbPassword, answer, historyVars>>

Reply(w, status, value) ==
    reply' = [reply EXCEPT ![w] = [status |-> status, value |-> value]]

Found(value) == IF value = None THEN "NotFound" ELSE "Ok"

\* A fault: the password of the request is cached.
CacheValueGiven(w) == task[w].password

\* What handleLogin writes to the cache.
CacheValue(w) == dbPassword[w]

\* Redis carries the command out: its effect, and the reply it will send.
Command(w) ==
    LET t == task[w]
        name == IF t.token = None THEN None ELSE sessions[t.token]
    IN  \/ /\ pc[w] = "cacheGet"
           /\ Reply(w, Found(cache[t.name]), cache[t.name])
           /\ UNCHANGED <<cache, sessions, ended>>
        \/ /\ pc[w] = "cacheSet"
           /\ cache' = [cache EXCEPT ![t.name] = CacheValue(w)]
           /\ Reply(w, "Ok", None)
           /\ UNCHANGED <<sessions, ended>>
        \/ /\ pc[w] = "sessionSet"
           /\ sessions' = [sessions EXCEPT ![t.token] = t.name]
           /\ Reply(w, "Ok", None)
           /\ UNCHANGED <<cache, ended>>
        \/ /\ pc[w] = "sessionGet"
           /\ Reply(w, Found(name), name)
           /\ UNCHANGED <<cache, sessions, ended>>
        \/ /\ pc[w] = "sessionDel"
           /\ Reply(w, Found(name), None)
           /\ sessions' = [x \in Tokens |-> IF x = t.token THEN None ELSE sessions[x]]
           /\ ended' = ended \cup ({t.token} \ {None})
           /\ UNCHANGED cache

\* Redis replies with an error instead: it is loading its data, or out of memory.
ErrorReply(w) ==
    /\ Reply(w, "Refused", None)
    /\ UNCHANGED <<cache, sessions, ended>>

\* What setex makes of a reply, and what get and del make of it.
StatusOf(w) ==
    IF pc[w] \in {"cacheSet", "sessionSet"}
    THEN IF reply[w].status = "Refused" THEN "Error" ELSE "Ok"
    ELSE IF reply[w].status = "Ok" THEN "Ok" ELSE "NotFound"

\* redisCommand sends the command and Redis acts on it.
RedisCommand(w) ==
    /\ pc[w] \in RedisSteps
    /\ rupc[w] = "use" /\ rheld[w] \notin broken /\ reply[w] = None
    /\ Command(w) \/ ErrorReply(w)
    /\ UNCHANGED <<redisVars, mysqlVars, dead, users, task, pc, dbPassword, answer, drawn, handed, winners>>

\* A fault: the connection is freed and nothing else.
RedisNoReplyLeak(w) ==
    /\ pc[w] \in RedisSteps
    /\ rupc[w] = "use" /\ rheld[w] \in broken
    /\ rupc' = [rupc EXCEPT ![w] = "discard"]
    /\ rheld' = [rheld EXCEPT ![w] = NoHandle]
    /\ UNCHANGED <<rpool, rlost, up, broken, mysqlVars, storeVars, task, pc, reply, dbPassword, answer, historyVars>>

\* redisCommand returns NULL: the connection broke, before or after Redis acted.
RedisNoReply(w) ==
    /\ pc[w] \in RedisSteps
    /\ Redis!NoReply(w)
    /\ UNCHANGED <<mysqlVars, storeVars, task, pc, reply, dbPassword, answer, historyVars>>

\* A fault: the result of setex is ignored.
StoreSessionBlindly(w, status) ==
    /\ Answer(w, 200, "idle")
    /\ handed' = handed \cup {task[w].token}

\* The end of handleLogin, after the setex of the session.
StoreSession(w, status) ==
    IF status = "Ok"
    THEN Answer(w, 200, "idle") /\ handed' = handed \cup {task[w].token}
    ELSE Answer(w, 503, "idle") /\ UNCHANGED handed

\* A fault: an error of Redis is not told apart from a missing key.
SessionStatusBlind(status) == IF status = "Ok" THEN 200 ELSE 401

\* The answer of handleProfile and handleLogout.
SessionStatus(status) ==
    CASE status = "Error" -> 503 [] status = "NotFound" -> 401 [] OTHER -> 200

\* The task goes on with what get, setex or del returned.
Proceed(w, status) ==
    \/ /\ pc[w] = "cacheGet"
       /\ IF status = "Ok"
          THEN dbPassword' = [dbPassword EXCEPT ![w] = reply[w].value] /\ Goto(w, "compare")
          ELSE Goto(w, "mysql") /\ UNCHANGED dbPassword
       /\ UNCHANGED handed
    \/ /\ pc[w] = "cacheSet"
       /\ Goto(w, "endQuery")
       /\ UNCHANGED <<dbPassword, handed>>
    \/ /\ pc[w] = "sessionSet"
       /\ StoreSession(w, status)
       /\ UNCHANGED dbPassword
    \/ /\ pc[w] \in {"sessionGet", "sessionDel"}
       /\ Answer(w, SessionStatus(status), "idle")
       /\ UNCHANGED <<dbPassword, handed>>

\* The end of get, setex or del: no connection, a reply, or a broken connection.
RedisReturn(w) ==
    /\ pc[w] \in RedisSteps
    /\ \/ Redis!Fail(w) /\ Proceed(w, "Error") /\ UNCHANGED <<up, broken>>
       \/ reply[w] # None /\ Redis!Reply(w) /\ Proceed(w, StatusOf(w))
       \/ Redis!DiscardBrokenConn(w) /\ Proceed(w, "Error")
    /\ reply' = [reply EXCEPT ![w] = None]
    /\ UNCHANGED <<mysqlVars, storeVars, drawn, ended, winners>>

----------------------------------------------------------------------------
(* MysqlGuard and the queries.                                             *)

MysqlGetConn(w) ==
    /\ pc[w] = "mysql"
    /\ Mysql!GetConn(w) \/ Mysql!Getting(w)
    /\ UNCHANGED <<redisVars, storeVars, task, pc, reply, dbPassword, answer, historyVars>>

\* A fault: no return after the 503.
MysqlUnavailableGoesOn(w) ==
    /\ pc[w] = "mysql"
    /\ Mysql!Fail(w)
    /\ Answer(w, 503, "compare")
    /\ UNCHANGED <<redisVars, storeVars, reply, dbPassword, historyVars>>

\* A fault: the task tries again until there is a connection.
MysqlUnavailableRetry(w) ==
    /\ pc[w] = "mysql"
    /\ Mysql!Fail(w)
    /\ Goto(w, "mysql")
    /\ UNCHANGED <<redisVars, storeVars, reply, dbPassword, historyVars>>

\* The guard is empty.
MysqlUnavailable(w) ==
    /\ pc[w] = "mysql"
    /\ Mysql!Fail(w)
    /\ Answer(w, 503, "idle")
    /\ UNCHANGED <<redisVars, storeVars, reply, dbPassword, historyVars>>

\* SELECT, and mysql_store_result.  row is the password found, or None: there is
\* no such row, or the result was lost on the way (res is NULL).
Select(w) ==
    LET t == task[w]
    IN  /\ pc[w] = "mysql" /\ mupc[w] = "use"
        /\ \/ /\ mheld[w] \in dead
              /\ Answer(w, 500, "leave")
              /\ UNCHANGED <<dbPassword, dead>>
           \/ /\ mheld[w] \notin dead
              /\ \E row \in {users[t.name], None} :
                    /\ dead' = IF row = users[t.name] THEN dead ELSE dead \cup {mheld[w]}
                    /\ IF t.op = "register"
                       THEN /\ IF row # None THEN Answer(w, 409, "leave") ELSE Goto(w, "insert")
                            /\ UNCHANGED dbPassword
                       ELSE /\ dbPassword' = [dbPassword EXCEPT ![w] = row]
                            /\ Goto(w, IF row # None THEN "cacheSet" ELSE "endQuery")
        /\ UNCHANGED <<redisVars, mysqlVars, users, cache, sessions, reply, historyVars>>

\* A fault: the table has no UNIQUE key.
InsertAnyway(w) ==
    LET t == task[w]
    IN  /\ pc[w] = "insert"
        /\ users' = [users EXCEPT ![t.name] = t.password]
        /\ Answer(w, 200, "leave")
        /\ winners' = winners \cup {<<t.name, t.password>>}
        /\ UNCHANGED <<redisVars, mysqlVars, dead, cache, sessions, reply, dbPassword, drawn, handed, ended>>

\* INSERT: refused as a duplicate, lost with the connection, carried out but the
\* reply lost, or carried out.
Insert(w) ==
    LET t == task[w]
    IN  /\ pc[w] = "insert"
        /\ \/ /\ mheld[w] \in dead \/ users[t.name] # None
              /\ Answer(w, 500, "leave")
              /\ UNCHANGED <<users, dead, winners>>
           \/ /\ mheld[w] \notin dead /\ users[t.name] = None
              /\ users' = [users EXCEPT ![t.name] = t.password]
              /\ \/ /\ Answer(w, 500, "leave")
                    /\ dead' = dead \cup {mheld[w]}
                    /\ UNCHANGED winners
                 \/ /\ Answer(w, 200, "leave")
                    /\ winners' = winners \cup {<<t.name, t.password>>}
                    /\ UNCHANGED dead
        /\ UNCHANGED <<redisVars, mysqlVars, cache, sessions, reply, dbPassword, drawn, handed, ended>>

\* A fault: the handler releases what the guard releases again.
MysqlReleaseTwice(w) ==
    /\ pc[w] \in {"leave", "endQuery"}
    /\ mpool' = mpool \o <<mheld[w], mheld[w]>>
    /\ mheld' = [mheld EXCEPT ![w] = NoHandle]
    /\ mupc' = [mupc EXCEPT ![w] = "idle"]
    /\ Goto(w, IF pc[w] = "leave" THEN "idle" ELSE "compare")
    /\ UNCHANGED <<mlost, redisVars, storeVars, reply, dbPassword, historyVars>>

\* A fault: an early return without a release.
MysqlReleaseLeak(w) ==
    /\ pc[w] \in {"leave", "endQuery"}
    /\ IF pc[w] = "leave" THEN UNCHANGED mysqlVars ELSE Mysql!ReleaseConn(w)
    /\ Goto(w, IF pc[w] = "leave" THEN "idle" ELSE "compare")
    /\ UNCHANGED <<redisVars, storeVars, reply, dbPassword, historyVars>>

\* The guard goes out of scope, at the end of the task or of the query.
MysqlRelease(w) ==
    /\ pc[w] \in {"leave", "endQuery"}
    /\ Mysql!ReleaseConn(w)
    /\ Goto(w, IF pc[w] = "leave" THEN "idle" ELSE "compare")
    /\ UNCHANGED <<redisVars, storeVars, reply, dbPassword, historyVars>>

\* The rest of handleLogin, up to the session.
Compare(w) ==
    /\ pc[w] = "compare"
    /\ IF dbPassword[w] = task[w].password THEN Goto(w, "sessionSet") ELSE Answer(w, 401, "idle")
    /\ dbPassword' = [dbPassword EXCEPT ![w] = None]
    /\ UNCHANGED <<redisVars, mysqlVars, storeVars, reply, historyVars>>

----------------------------------------------------------------------------
(* The servers (external).                                                 *)

\* Redis stops or is reachable again.
RedisServer ==
    /\ Redis!RedisDown \/ Redis!RedisUp
    /\ UNCHANGED <<mysqlVars, storeVars, task, pc, reply, dbPassword, answer, historyVars>>

\* A TTL runs out, or Redis comes back without its data.
Expire ==
    /\ \/ \E n \in Names : cache[n] # None /\ cache' = [cache EXCEPT ![n] = None]
                            /\ UNCHANGED <<sessions, ended>>
       \/ \E t \in Tokens : /\ sessions[t] # None
                             /\ sessions' = [sessions EXCEPT ![t] = None]
                             /\ ended' = ended \cup {t}
                             /\ UNCHANGED cache
    /\ UNCHANGED <<redisVars, mysqlVars, dead, users, task, pc, reply, dbPassword, answer, drawn, handed, winners>>

\* MySQL restarts, or closes connections that were idle for too long; nothing
\* opens them again.
MysqlRestart ==
    /\ dead # Mysql!Pooled \cup Mysql!HeldNow
    /\ dead' = Mysql!Pooled \cup Mysql!HeldNow
    /\ UNCHANGED <<redisVars, mysqlVars, users, cache, sessions, task, pc, reply, dbPassword, answer, historyVars>>

----------------------------------------------------------------------------

Init ==
    /\ Redis!Init
    /\ Mysql!Init
    /\ dead = {}
    /\ users = [n \in Names |-> None]
    /\ cache = [n \in Names |-> None]
    /\ sessions = [t \in Tokens |-> None]
    /\ task = [w \in Workers |-> None]
    /\ pc = [w \in Workers |-> "idle"]
    /\ reply = [w \in Workers |-> None]
    /\ dbPassword = [w \in Workers |-> None]
    /\ answer = [w \in Workers |-> 0]
    /\ drawn = {} /\ handed = {} /\ ended = {} /\ winners = {}

Run(w) ==
    \/ RedisGetConn(w)
    \/ RedisCommand(w)
    \/ RedisNoReply(w)
    \/ RedisReturn(w)
    \/ MysqlGetConn(w)
    \/ MysqlUnavailable(w)
    \/ Select(w)
    \/ Insert(w)
    \/ MysqlRelease(w)
    \/ Compare(w)

Next ==
    \/ \E w \in Workers : Run(w) \/ \E r \in Requests : Start(w, r)
    \/ RedisServer
    \/ Expire
    \/ MysqlRestart

Spec == Init /\ [][Next]_vars

\* Time passes in wait_for.
WaitExpires(w) ==
    /\ \/ pc[w] \in RedisSteps /\ Redis!Expire(w) /\ UNCHANGED <<up, broken, mysqlVars>>
       \/ pc[w] = "mysql" /\ Mysql!Expire(w) /\ UNCHANGED redisVars
    /\ UNCHANGED <<storeVars, task, pc, reply, dbPassword, answer, historyVars>>

\* The workers run, wait_for times out, and MySQL and Redis answer a query or a
\* command or its connection breaks: neither has a timeout of its own.
FairSpec == Spec /\ \A w \in Workers : WF_vars(Run(w)) /\ WF_vars(WaitExpires(w))

----------------------------------------------------------------------------
(* Properties.                                                             *)

\* The stores hold credentials and names, and each task is at one of its steps.
TypeOK ==
    /\ users \in [Names -> Passwords \cup {None}]
    /\ cache \in [Names -> Passwords \cup {None}]
    /\ sessions \in [Tokens -> Names \cup {None}]
    /\ dead \subseteq MysqlHandles
    /\ pc \in [Workers -> RedisSteps \cup {"idle", "mysql", "insert", "leave", "endQuery", "compare"}]
    /\ answer \in [Workers -> {0, 200, 401, 409, 500, 503}]
    /\ drawn \subseteq Tokens /\ handed \subseteq drawn /\ ended \subseteq drawn

\* The tasks use each pool as it is meant to be: what they do to it is a behaviour
\* of RedisPool and of MysqlPool, so what is proved of those holds here.
RedisPoolUsed == Redis!Spec
MysqlPoolUsed == Mysql!Spec

\* A login holds its MySQL connection while it waits for one of Redis
\* (handleLogin's cache write is inside the guard's scope); nobody waits the
\* other way round, and a task that is over holds neither.
WaitOrder ==
    \A w \in Workers :
        /\ mupc[w] \in {"get", "wait"} => rupc[w] = "idle"
        /\ pc[w] = "idle" => rupc[w] = "idle" /\ mupc[w] = "idle"

\* Of the registrations of a name that race, at most one is answered with 200,
\* and its password is the one stored: SELECT and INSERT are two steps, and the
\* UNIQUE key settles what the check does not.
OneWinner ==
    /\ \A x, y \in winners : x[1] = y[1] => x = y
    /\ \A x \in winners : users[x[1]] = x[2]

\* The password cached for a name is the one in the table, whatever fails between
\* the query and the cache write.
CacheCoherent == \A n \in Names : cache[n] # None => cache[n] = users[n]

\* A token sent to a client is in the session store until it expires or is logged
\* out, and never again after ("we must NOT hand out a token that would never
\* validate").
TokenGood ==
    \A t \in Tokens : /\ t \in handed \ ended => sessions[t] # None
                      /\ t \in ended => sessions[t] = None

\* A task sends exactly one response, whichever way it ends.
AnsweredOnce ==
    [][\A w \in Workers : pc[w] # "idle" =>
          /\ answer[w] # 0 => answer'[w] = answer[w]
          /\ pc'[w] = "idle" => answer'[w] # 0]_vars

\* Every task ends, although it may wait for two pools at once.
TaskEnds == \A w \in Workers : (pc[w] # "idle") ~> (pc[w] = "idle")

\* A client with a valid token is told 401 only if Redis replied to the command
\* with an error: a timeout, a lost reply or a broken connection is a 503.
UnauthorizedIsNoOutage ==
    [][\A w \in Workers :
          pc[w] \in {"sessionGet", "sessionDel"} /\ answer[w] = 0 /\ answer'[w] = 401 =>
              \/ task[w].token \in ended \cup {None}
              \/ reply[w] # None /\ reply[w].status = "Refused"]_vars
=============================================================================
