SPECIFICATION Spec
CONSTANTS
    Workers = {w1, w2}
    RedisHandles = {r1}
    MysqlHandles = {m1, m2}
    NoHandle = NoHandle
    kRedisMaxConn = 1
    kDbMaxConn = 2
    Names = {alice}
    Passwords = {p, q}
    LoginPasswords = {p}
    Tokens = {t1, t2}
    None = None
INVARIANTS
    WaitOrder
    OneWinner
    CacheCoherent
    TokenGood
PROPERTIES
    RedisPoolUsed
    MysqlPoolUsed
    AnsweredOnce
    UnauthorizedIsNoOutage
SYMMETRY Symmetry
