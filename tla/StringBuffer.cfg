CONSTANTS
    MaxAdd = 4
    MaxBytes = 9
    LUA_COMPAT_GETN = TRUE
SPECIFICATION Spec
INVARIANTS
    Adjacent
    Decreasing
PROPERTIES
    ReturnsEverything
