SPECIFICATION Spec
CONSTANTS
    nil = nil
    s1 = s1
    s2 = s2
    s3 = s3
    v1 = v1
    v2 = v2
    Nil = nil
    Ints <- MCInts
    Strings <- MCStrings
    Values <- MCValues
    Orders <- MCOrders
    Lists <- MCLists
    Programs <- MCPrograms
    HashNum <- MCHashNum
    HashStr <- MCHashStr
    MAXBITS = 3
    MAX_INT = 6
CHECK_DEADLOCK FALSE
INVARIANTS Chains RehashDivides
PROPERTIES Promise
