\* A form of which only a part has arrived is saved.
SPECIFICATION Spec
CONSTANTS
    b1 = b1
    b2 = b2
    StartPage = StartPage
    NewPage = NewPage
    IndexPage = IndexPage
    dot = dot
    Absent = Absent
    Empty = Empty
    Builtin = Builtin
    None = None
    CutTitle <- MCCutTitle
    EmptyName = dot
    Clients = {b1}
    Names = {StartPage, NewPage, dot}
    WikiWords = {StartPage, NewPage}
    Specials = {}
    Texts = {t1}
    TextCells = 2
    HeaderCells = 1
    Backlog = 2
    Ops = {"View", "Save"}
    Faults = {"shortRead"}
    MaxFaults = 0
INVARIANTS
    WholePostData
