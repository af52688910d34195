---------------------------- MODULE PageRenderer ----------------------------
(***************************************************************************)
(* formatWikiPage (WikiFormatter.lua): the state the formatter keeps from  *)
(* one line of a page to the next - the lists that are open, whether a     *)
(* table is open and whether the line is inside <pre> - and the HTML       *)
(* elements it opens and closes.  A line is known by what the formatter    *)
(* does with its beginning; links and emphasis inside a line nest by       *)
(* themselves and are left out.  Every listElements entry is "LI".         *)
(*                                                                         *)
(* Pages whose own <pre> tags do not match are left out: a <pre> inside    *)
(* <pre>, and a </pre> where none is open.                                 *)
(***************************************************************************)
EXTENDS Integers, Sequences

CONSTANTS
    Indents,    \* numbers of spaces before the bullet of a list item
    Kinds,      \* kinds of lines the pages have; "preline" is a line with both
                \* <pre> and </pre>
    MaxLines    \* bound on the lines of a page

ASSUME PageRendererAssumption ==
    /\ Indents \subseteq Nat \ {0}
    /\ Kinds \subseteq {"item", "text", "blank", "indented", "row", "pre", "preline"}
    /\ MaxLines \in Nat

Lists == {"UL", "OL"}

VARIABLES
    listTypes,   \* the stack of open lists
    isList,      \* whether the lists stay open after this line
    insideTable,
    insidePre,
    open,        \* the elements the HTML written so far leaves open
    nested,      \* whether every end tag so far closed the innermost element
    oddPre,      \* history: whether the page so far has a <pre> right below a table
                 \* or on a line with its </pre>
    lines,       \* lines of the page so far
    last         \* the last line: its kind and, for an item, its list and level

formatter == <<listTypes, isList, insideTable, insidePre>>
html == <<open, nested, oddPre>>
vars == <<formatter, html, lines, last>>

(* The HTML *)

\* Every line closes elements before it opens others.  An end tag has to close
\* the innermost element that is open.
Emit(ends, starts) ==
    /\ nested' = (nested /\ Len(ends) <= Len(open)
                         /\ \A j \in DOMAIN ends : ends[j] = open[Len(open) + 1 - j])
    /\ open' = SubSeq(open, 1, Len(open) - Len(ends)) \o starts

If(condition, tags) == IF condition THEN tags ELSE << >>

(* The lists *)

\* calculateListLevel: three spaces are a level, other numbers stay as they are.
LevelOf(indent) == IF indent % 3 = 0 THEN indent \div 3 ELSE indent

\* Lists of these types in one another, each in an item of the one before it.
Inside(types) ==
    [k \in 1..(2 * Len(types)) |-> IF k % 2 = 1 THEN types[(k + 1) \div 2] ELSE "LI"]

\* emitList(list, "LI", depth): the lists below depth are closed, and the item
\* before the one that follows ...
Below(depth) ==
    LET n == Len(listTypes) IN
    [j \in 1..(2 * (n - depth)) |-> IF j % 2 = 1 THEN "LI" ELSE listTypes[n + 1 - j \div 2]]

\* ... and the list it was in, if that is of another type.
Changes(list, depth) == depth > 0 /\ listTypes[depth] # list

ItemEndsLeaveParent(list, depth) == \* mutation: the item around a closed list stays open
    IF Len(listTypes) < depth THEN << >>
    ELSE Below(depth) \o If(depth = Len(listTypes) /\ depth > 0, <<"LI">>)
                      \o If(Changes(list, depth), <<listTypes[depth]>>)
ItemEnds(list, depth) ==
    IF Len(listTypes) < depth THEN << >>
    ELSE Below(depth) \o If(depth > 0, <<"LI">>) \o If(Changes(list, depth), <<listTypes[depth]>>)

\* The first new list is opened in the item that is open, the others in items
\* of their own.
ItemStarts(list, depth) ==
    IF Len(listTypes) < depth THEN Inside([k \in 1..(depth - Len(listTypes)) |-> list])
    ELSE If(Changes(list, depth), <<list>>) \o <<"LI">>

ListsAfterUnchanged(list, depth) == \* mutation: a bullet does not end a numbered list
    [k \in 1..depth |-> IF k <= Len(listTypes) THEN listTypes[k] ELSE list]
ListsAfter(list, depth) ==
    [k \in 1..depth |-> IF k < depth /\ k <= Len(listTypes) THEN listTypes[k] ELSE list]

\* emitList("", "", 0)
FinishEnds == Below(0)

(* Lines *)

Line(kind) ==
    /\ kind \in Kinds
    /\ lines < MaxLines
    /\ lines' = lines + 1

\* processTableLine on a line that is not a row.
TableEnds == If(insideTable, <<"TABLE">>)

Init ==
    /\ listTypes = << >>
    /\ isList = FALSE
    /\ insideTable = FALSE
    /\ insidePre = FALSE
    /\ open = << >>
    /\ nested = TRUE
    /\ oddPre = FALSE
    /\ lines = 0
    /\ last = [kind |-> "none"]

\* "   * text" or "   1. text"
Item ==
    /\ Line("item")
    /\ ~ insidePre
    /\ \E list \in Lists, indent \in Indents :
         LET depth == LevelOf(indent) IN
           /\ Emit(TableEnds \o ItemEnds(list, depth), ItemStarts(list, depth))
           /\ listTypes' = ListsAfter(list, depth)
           /\ last' = [kind |-> "item", list |-> list, level |-> depth]
    /\ isList' = TRUE
    /\ insideTable' = FALSE
    /\ UNCHANGED <<insidePre, oddPre>>

\* A blank line, or one that does not begin with a space: the lists end.
PlainKeepsLists(kind) ==     \* mutation: isList is not reset by a blank line
    /\ Line(kind)
    /\ ~ insidePre
    /\ isList' = IF kind = "blank" THEN isList ELSE FALSE
    /\ Emit(TableEnds \o If(~ isList', FinishEnds), << >>)
    /\ listTypes' = IF isList' THEN listTypes ELSE << >>
    /\ insideTable' = FALSE
    /\ last' = [kind |-> kind]
    /\ UNCHANGED <<insidePre, oddPre>>
Plain(kind) ==
    /\ Line(kind)
    /\ ~ insidePre
    /\ isList' = FALSE
    /\ Emit(TableEnds \o FinishEnds, << >>)
    /\ listTypes' = << >>
    /\ insideTable' = FALSE
    /\ last' = [kind |-> kind]
    /\ UNCHANGED <<insidePre, oddPre>>

\* A line that begins with spaces continues the item before it.
Indented ==
    /\ Line("indented")
    /\ ~ insidePre
    /\ Emit(TableEnds \o If(~ isList, FinishEnds), << >>)
    /\ listTypes' = IF isList THEN listTypes ELSE << >>
    /\ insideTable' = FALSE
    /\ last' = [kind |-> "indented"]
    /\ UNCHANGED <<isList, insidePre, oddPre>>

\* "| cell | cell |": the first row opens the table, and the lists end.
Row ==
    /\ Line("row")
    /\ ~ insidePre
    /\ isList' = FALSE
    /\ Emit(FinishEnds, If(~ insideTable, <<"TABLE">>))
    /\ listTypes' = << >>
    /\ insideTable' = TRUE
    /\ last' = [kind |-> "row"]
    /\ UNCHANGED <<insidePre, oddPre>>

PreOpen == open # << >> /\ open[Len(open)] = "PRE"

\* A line with <pre>: the lists end and the line is copied; a table stays open.
CopyPre(kind, starts) ==
    /\ Line(kind)
    /\ ~ PreOpen
    /\ insidePre' = TRUE
    /\ isList' = IF listTypes # << >> THEN FALSE ELSE isList
    /\ Emit(FinishEnds, starts)
    /\ listTypes' = << >>
    /\ oddPre' = (oddPre \/ insideTable \/ kind = "preline")
    /\ last' = [kind |-> "pre"]
    /\ UNCHANGED insideTable

PreStart == CopyPre("pre", <<"PRE">>)

\* "<pre>text</pre>": the </pre> is not looked for in a line that has <pre>, so the
\* formatter is inside <pre> after a line that closes it.
PreOneLine == CopyPre("preline", << >>)

\* A line inside <pre> is copied, whatever it is.
PreLine ==
    /\ Line("pre")
    /\ insidePre
    /\ last' = [kind |-> "pre"]
    /\ UNCHANGED <<formatter, html>>

\* "</pre>" is a line like any other that does not begin with a space.
PreEnd ==
    /\ Line("pre")
    /\ insidePre
    /\ PreOpen
    /\ insidePre' = FALSE
    /\ isList' = FALSE
    /\ Emit(TableEnds \o FinishEnds \o <<"PRE">>, << >>)
    /\ listTypes' = << >>
    /\ insideTable' = FALSE
    /\ last' = [kind |-> "text"]
    /\ UNCHANGED oddPre

\* The page ends with a line "<nop>", which closes a table and the lists unless
\* it is inside <pre>; then what is still open is closed.
EndPage ==
    /\ last.kind # "end"
    /\ lines' = MaxLines
    /\ Emit(TableEnds \o FinishEnds \o If(insidePre, <<"PRE">>), << >>)
    /\ listTypes' = << >>
    /\ isList' = FALSE
    /\ insideTable' = (insideTable /\ insidePre)
    /\ last' = [kind |-> "end"]
    /\ UNCHANGED <<insidePre, oddPre>>

\* Every request has a formatter of its own (processRequest, WikiFormatter.new).
NewPage ==
    /\ last.kind = "end"
    /\ listTypes' = << >>
    /\ isList' = FALSE
    /\ insideTable' = FALSE
    /\ insidePre' = FALSE
    /\ open' = << >>
    /\ nested' = TRUE
    /\ oddPre' = FALSE
    /\ lines' = 0
    /\ last' = [kind |-> "none"]

Next ==
    \/ Item
    \/ Plain("text")
    \/ Plain("blank")
    \/ Indented
    \/ Row
    \/ PreStart \/ PreOneLine \/ PreLine \/ PreEnd
    \/ EndPage
    \/ NewPage

Spec == Init /\ [][Next]_vars

-----------------------------------------------------------------------------

\* Every end tag of a page closes the innermost element: lists of any types and
\* levels, tables and <pre> never overlap (emitList, processTableLine).  Not so on
\* two kinds of pages, which are left out here: with a <pre> right below a table, the
\* table is closed inside the <pre> or after it; with <pre> and </pre> on one line,
\* formatWikiPage takes the rest for preformatted and adds a second </pre>.
WellNested == nested \/ oddPre

\* An item of level n is inside n lists and the innermost is of the type of its
\* bullet, whatever lists the lines before it left open, and the formatter's
\* stack is always that of the lists in the page (emitList).
ItemAtItsLevel ==
    /\ IF listTypes = << >> THEN \A i \in DOMAIN open : open[i] \notin Lists
       ELSE /\ Len(open) = 2 * Len(listTypes)
            /\ \A k \in DOMAIN listTypes : open[2 * k - 1] = listTypes[k] /\ open[2 * k] = "LI"
    /\ last.kind = "item" =>
           /\ Len(open) = 2 * last.level
           /\ open[Len(open) - 1] = last.list

\* Text that begins in the first column, a blank line and a row of a table are
\* outside every list, and only a row is inside a table (formatWikiLine); a page
\* leaves no element open (formatWikiPage, "close started tags").
NothingLeftOpen ==
    last.kind \in {"text", "blank", "row", "end"} =>
        open = IF last.kind = "row" THEN <<"TABLE">> ELSE << >>
=============================================================================
