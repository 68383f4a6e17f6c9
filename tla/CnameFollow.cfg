SPECIFICATION FairSpec
CONSTANTS
    c1 = c1
    c2 = c2
    c3 = c3
    c4 = c4
    t1 = t1
    t2 = t2
    t3 = t3
    None = None
    Cname = {c1, c2, c3, c4}
    Target <- MCTarget
    Known = {t3}
    Exchanged <- MCExchanged
    Cached <- MCCached
INVARIANTS OrderIndependent ADMeansAllSecure
PROPERTIES Returns
CHECK_DEADLOCK FALSE
