SPECIFICATION DropSpec
CONSTANTS
    Threads = {t1, t2}
    Routers = {r1}
    Conns = {c1, c2, c3}
    MaxConns = 2
    NoRouter = NoRouter
    NoConn = NoConn
PROPERTY StaleDiscarded
