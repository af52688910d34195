\* Forms arrive whole and files can be written; a connection or the opening of a
\* file may fail.  IndexPage has a page of its own in the engine.
SPECIFICATION Spec
CONSTANTS
    b1 = b1
    b2 = b2
    StartPage = StartPage
    NewPage = NewPage
    IndexPage = IndexPage
    dot = dot
    Absent = Absent
    Empty = Empty
    Builtin = Builtin
    None = None
    CutTitle <- MCCutTitle
    EmptyName = dot
    Clients = {b1, b2}
    Names = {StartPage, IndexPage, dot}
    WikiWords = {StartPage, IndexPage}
    Specials = {IndexPage}
    Texts = {t1}
    TextCells = 1
    HeaderCells = 1
    Backlog = 2
    Ops = {"View", "Edit", "Save", "CancelEditing"}
    Faults = {"ioctlFails", "openFails"}
    MaxFaults = 0
INVARIANTS
    AcknowledgedSaved
    NoError
PROPERTIES
    PagesAreAtomic
    Answered
