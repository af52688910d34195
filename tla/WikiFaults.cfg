\* Everything that can go wrong does.
SPECIFICATION Spec
CONSTANTS
    b1 = b1
    b2 = b2
    StartPage = StartPage
    NewPage = NewPage
    IndexPage = IndexPage
    dot = dot
    Absent = Absent
    Empty = Empty
    Builtin = Builtin
    None = None
    CutTitle <- MCCutTitle
    EmptyName = dot
    Clients = {b1, b2}
    Names = {StartPage, NewPage, dot}
    WikiWords = {StartPage, NewPage}
    Specials = {NewPage}
    Texts = {t1}
    TextCells = 1
    HeaderCells = 1
    Backlog = 1
    Ops = {"View", "Save", "CancelEditing", "BareForm", "Head"}
    Faults = {"ioctlFails", "shortRead", "openFails", "diskFull", "editor", "kill"}
    MaxFaults = 1
SYMMETRY TwoBrowsers
PROPERTIES
    OnlyNamedPageChanges
INVARIANTS
    TypeOK
    OneConnection
    DamageBounded
    OnlyKnownErrors
