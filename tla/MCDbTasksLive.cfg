SPECIFICATION FairSpec
CONSTANTS
    Workers = {w1, w2}
    RedisHandles = {r1}
    MysqlHandles = {m1}
    NoHandle = NoHandle
    kRedisMaxConn = 1
    kDbMaxConn = 1
    Names = {alice}
    Passwords = {p, q}
    LoginPasswords = {p}
    Tokens = {t1}
    None = None
PROPERTIES
    TaskEnds
