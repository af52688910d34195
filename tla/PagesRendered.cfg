\* Pages of lists, text, tables and preformatted parts, ended anywhere.
CONSTANTS
    Indents = {2, 3, 4, 6, 9}
    Kinds = {"item", "text", "blank", "indented", "row", "pre", "preline"}
    MaxLines = 6
SPECIFICATION Spec
INVARIANTS
    WellNested
    ItemAtItsLevel
    NothingLeftOpen
