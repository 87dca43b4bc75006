SPECIFICATION Spec
CONSTANTS
    Threads = {t1, t2, t3}
    Routers = {r1, r2}
    Conns = {c1, c2, c3}
    MaxConns = 2
    NoRouter = NoRouter
    NoConn = NoConn
SYMMETRY Symm
INVARIANTS TypeOK PoolSound ExclusiveLease NoPhantomSlot NoLeakedSocket
PROPERTY ImplementsLease
