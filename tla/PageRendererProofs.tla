------------------------- MODULE PageRendererProofs -------------------------
(***************************************************************************)
(* Proofs about the page renderer, for pages of any length with items at   *)
(* any indentation: see PageRenderer.                                      *)
(***************************************************************************)
EXTENDS PageRenderer, SequenceTheorems, TLAPS

Elements == Lists \cup {"LI", "TABLE", "PRE"}

TableAround == IF insideTable THEN <<"TABLE">> ELSE << >>

\* The elements around the next line, from the formatter's state.
Around ==
    IF last.kind = "end" THEN << >>
    ELSE IF insidePre THEN TableAround \o <<"PRE">>
    ELSE IF insideTable THEN <<"TABLE">>
    ELSE Inside(listTypes)

\* The end tags are right as long as there was no odd <pre>.
Nests == nested \/ oddPre

\* The HTML has the elements open that the formatter's state says, unless the
\* formatter takes itself to be inside a <pre> that was closed on its line.
IInv ==
    /\ listTypes \in Seq(Lists)
    /\ isList \in BOOLEAN
    /\ insideTable \in BOOLEAN
    /\ insidePre \in BOOLEAN
    /\ insideTable /\ insidePre => oddPre
    /\ insideTable \/ insidePre => listTypes = << >>
    /\ Nests
    /\ open = Around \/ (oddPre /\ insidePre /\ open = TableAround)
    /\ last.kind = "end" => lines = MaxLines
    /\ last.kind = "item" => /\ Len(listTypes) > 0
                             /\ Len(listTypes) = last.level
                             /\ listTypes[Len(listTypes)] = last.list
    /\ last.kind \in {"text", "blank", "row", "end"} => listTypes = << >>
    /\ last.kind = "end" => open = << >>
    /\ last.kind \in {"text", "blank"} => ~ insideTable
    /\ last.kind = "row" => insideTable
    /\ last.kind \in {"item", "text", "blank", "row"} => ~ insidePre
    /\ last.kind = "item" => ~ insideTable

-----------------------------------------------------------------------------
(* The HTML *)

\* Every list contributes itself and one item.
LEMMA InsideProperties ==
    ASSUME NEW types \in Seq(Lists)
    PROVE  /\ Inside(types) \in Seq(Elements)
           /\ Len(Inside(types)) = 2 * Len(types)
           /\ \A i \in 1..(2 * Len(types)) :
                 Inside(types)[i] = IF i % 2 = 1 THEN types[(i + 1) \div 2] ELSE "LI"
           /\ types = << >> => Inside(types) = << >>
  <1>1. Len(types) \in Nat
    OBVIOUS
  <1>2. ASSUME NEW i \in 1..(2 * Len(types)), i % 2 = 1
        PROVE  types[(i + 1) \div 2] \in Lists
    <2>1. (i + 1) \div 2 \in 1..Len(types)
      BY <1>1, <1>2
    <2> QED
      BY <2>1
  <1>3. \A i \in 1..(2 * Len(types)) :
            (IF i % 2 = 1 THEN types[(i + 1) \div 2] ELSE "LI") \in Elements
    BY <1>2 DEF Elements
  <1> QED
    BY <1>1, <1>3 DEF Inside

\* End tags that mirror the innermost elements close exactly those.
LEMMA EmitProperties ==
    ASSUME NEW ends \in Seq(Elements), NEW starts \in Seq(Elements), open \in Seq(Elements),
           Nests, oddPre' = oddPre, Emit(ends, starts), Len(ends) <= Len(open),
           \A j \in 1..Len(ends) : ends[j] = open[Len(open) + 1 - j]
    PROVE  /\ Nests'
           /\ open' \in Seq(Elements)
           /\ Len(open') = Len(open) - Len(ends) + Len(starts)
           /\ \A i \in 1..(Len(open) - Len(ends)) : open'[i] = open[i]
           /\ \A i \in 1..Len(starts) : open'[Len(open) - Len(ends) + i] = starts[i]
  <1> DEFINE kept == SubSeq(open, 1, Len(open) - Len(ends))
  <1>1. Len(open) \in Nat /\ Len(ends) \in Nat /\ Len(starts) \in Nat
    OBVIOUS
  <1>2. /\ kept \in Seq(Elements)
        /\ Len(kept) = Len(open) - Len(ends)
        /\ \A i \in 1..(Len(open) - Len(ends)) : kept[i] = open[i]
    BY <1>1, SubSeqProperties
  <1>3. open' = kept \o starts
    BY DEF Emit
  <1>4. /\ open' \in Seq(Elements)
        /\ Len(open') = Len(kept) + Len(starts)
        /\ \A i \in 1..(Len(kept) + Len(starts)) :
              open'[i] = IF i <= Len(kept) THEN kept[i] ELSE starts[i - Len(kept)]
    <2> HIDE DEF kept
    <2> QED
      BY <1>2, <1>3, ConcatProperties
  <1>5. Nests'
    <2>0. DOMAIN ends = 1..Len(ends)
      OBVIOUS
    <2>1. \A j \in DOMAIN ends : ends[j] = open[Len(open) + 1 - j]
      BY <2>0, Zenon
    <2> QED
      BY <2>1, Zenon DEF Emit, Nests
  <1> HIDE DEF kept
  <1>6. ASSUME NEW i \in 1..(Len(open) - Len(ends))
        PROVE  open'[i] = open[i]
    <2>1. i \in 1..(Len(kept) + Len(starts)) /\ i <= Len(kept)
      BY <1>1, <1>2
    <2> QED
      BY <1>2, <1>4, <2>1
  <1>7. ASSUME NEW i \in 1..Len(starts)
        PROVE  open'[Len(open) - Len(ends) + i] = starts[i]
    <2>1. Len(kept) + i \in 1..(Len(kept) + Len(starts)) /\ ~ (Len(kept) + i <= Len(kept))
      BY <1>1, <1>2
    <2>2. open'[Len(kept) + i] = starts[(Len(kept) + i) - Len(kept)]
      BY <1>4, <2>1
    <2> QED
      BY <1>1, <1>2, <2>2
  <1> QED
    BY <1>1, <1>2, <1>4, <1>5, <1>6, <1>7

\* A table and a <pre> in it.
LEMMA TableAndPre ==
    /\ << >> \in Seq(Elements) /\ <<"TABLE">> \in Seq(Elements) /\ <<"PRE">> \in Seq(Elements)
    /\ <<"TABLE", "PRE">> \in Seq(Elements) /\ "TABLE" \in Elements /\ "PRE" \in Elements
    /\ Len(<< >>) = 0 /\ Len(<<"TABLE">>) = 1 /\ Len(<<"PRE">>) = 1
    /\ Len(<<"TABLE", "PRE">>) = 2 /\ <<"TABLE", "PRE">>[2] = "PRE"
    /\ << >> \o << >> = << >> /\ << >> \o <<"PRE">> = <<"PRE">>
    /\ <<"TABLE">> \o << >> = <<"TABLE">>
    /\ <<"TABLE">> \o <<"PRE">> = <<"TABLE", "PRE">>
  <1> DEFINE table == <<"TABLE">>
             pre == <<"PRE">>
             both == <<"TABLE", "PRE">>
  <1>1. "TABLE" \in Elements /\ "PRE" \in Elements
    BY DEF Elements
  <1>2. /\ << >> \in Seq(Elements) /\ table \in Seq(Elements) /\ pre \in Seq(Elements)
    BY <1>1
  <1>3. both \in Seq(Elements) /\ Len(both) = 2 /\ both[1] = "TABLE" /\ both[2] = "PRE"
    BY <1>1
  <1>4. Len(<< >>) = 0 /\ Len(table) = 1 /\ Len(pre) = 1 /\ table[1] = "TABLE" /\ pre[1] = "PRE"
    OBVIOUS
  <1>5. << >> \o << >> = << >> /\ << >> \o pre = pre /\ table \o << >> = table
    BY <1>2, ConcatEmptySeq
  <1>6. table \o pre = both
    <2> HIDE DEF table, pre, both
    <2>1. /\ table \o pre \in Seq(Elements) /\ Len(table \o pre) = 2
          /\ (table \o pre)[1] = "TABLE" /\ (table \o pre)[2] = "PRE"
      BY <1>2, <1>4, ConcatProperties
    <2>2. \A i \in 1..2 : (table \o pre)[i] = both[i]
      BY <1>3, <2>1
    <2> QED
      BY <1>3, <2>1, <2>2, SeqEqual
  <1> QED
    BY <1>1, <1>2, <1>3, <1>4, <1>5, <1>6

\* When more end tags are written than elements are open, none stays open.
LEMMA EmitTooMuch ==
    ASSUME NEW ends \in Seq(Elements), NEW starts \in Seq(Elements), open \in Seq(Elements),
           oddPre, oddPre' = oddPre, Emit(ends, starts), Len(open) <= Len(ends)
    PROVE  Nests' /\ open' = starts
  <1>1. Len(open) \in Nat /\ Len(ends) \in Nat /\ ~ (1 <= Len(open) - Len(ends))
    OBVIOUS
  <1>2. SubSeq(open, 1, Len(open) - Len(ends)) = << >>
    BY <1>1
  <1>3. open' = << >> \o starts
    BY <1>2 DEF Emit
  <1> QED
    BY <1>3, ConcatEmptySeq DEF Nests

\* Tags that mirror all open elements leave none open.
LEMMA EmitAll ==
    ASSUME NEW ends \in Seq(Elements), NEW starts \in Seq(Elements), open \in Seq(Elements),
           Nests, oddPre' = oddPre, Emit(ends, starts), Len(ends) = Len(open),
           \A j \in 1..Len(ends) : ends[j] = open[Len(open) + 1 - j]
    PROVE  Nests' /\ open' = starts
  <1>1. /\ Nests'
        /\ open' \in Seq(Elements)
        /\ Len(open') = Len(open) - Len(ends) + Len(starts)
        /\ \A i \in 1..Len(starts) : open'[Len(open) - Len(ends) + i] = starts[i]
    BY EmitProperties
  <1>2. Len(open) \in Nat /\ Len(starts) \in Nat /\ Len(open) - Len(ends) = 0
    OBVIOUS
  <1>3. Len(open') = Len(starts) /\ \A i \in 1..Len(open') : open'[i] = starts[i]
    BY <1>1, <1>2
  <1> QED
    BY <1>1, <1>3, SeqEqual

LEMMA EmitNothing ==
    ASSUME open \in Seq(Elements), Nests, oddPre' = oddPre, Emit(<< >>, << >>)
    PROVE  Nests' /\ open' = open
  <1> DEFINE none == << >>
  <1>0. /\ none \in Seq(Elements) /\ Len(none) = 0 /\ Emit(none, none)
        /\ Len(open) \in Nat /\ Len(none) <= Len(open)
        /\ \A j \in 1..Len(none) : none[j] = open[Len(open) + 1 - j]
    OBVIOUS
  <1> HIDE DEF none
  <1>1. /\ Nests'
        /\ open' \in Seq(Elements)
        /\ Len(open') = Len(open) - Len(none) + Len(none)
        /\ \A i \in 1..(Len(open) - Len(none)) : open'[i] = open[i]
    BY <1>0, EmitProperties
  <1>2. Len(open') = Len(open) /\ \A i \in 1..Len(open') : open'[i] = open[i]
    BY <1>0, <1>1
  <1> QED
    BY <1>1, <1>2, SeqEqual

\* The tags that close the lists below a level mirror the innermost elements.
LEMMA BelowProperties ==
    ASSUME listTypes \in Seq(Lists), NEW depth \in 0..Len(listTypes)
    PROVE  /\ Below(depth) \in Seq(Elements)
           /\ Len(Below(depth)) = 2 * (Len(listTypes) - depth)
           /\ \A j \in 1..(2 * (Len(listTypes) - depth)) :
                 Below(depth)[j] = Inside(listTypes)[2 * Len(listTypes) + 1 - j]
  <1> DEFINE n == Len(listTypes)
             tag(j) == IF j % 2 = 1 THEN "LI" ELSE listTypes[n + 1 - j \div 2]
  <1>1. n \in Nat /\ depth \in Nat /\ depth <= n /\ n - depth \in Nat
    OBVIOUS
  <1>2. ASSUME NEW j \in 1..(2 * (n - depth))
        PROVE  /\ tag(j) \in Elements
               /\ tag(j) = Inside(listTypes)[2 * n + 1 - j]
    <2>1. 2 * n + 1 - j \in 1..(2 * n)
      BY <1>1
    <2>2. Inside(listTypes)[2 * n + 1 - j] =
            IF (2 * n + 1 - j) % 2 = 1 THEN listTypes[((2 * n + 1 - j) + 1) \div 2] ELSE "LI"
      BY <2>1, InsideProperties
    <2>3. CASE j % 2 = 1
      <3>1. (2 * n + 1 - j) % 2 # 1
        BY <1>1, <2>3
      <3> QED
        BY <2>2, <2>3, <3>1 DEF Elements
    <2>4. CASE j % 2 # 1
      <3>1. (2 * n + 1 - j) % 2 = 1 /\ ((2 * n + 1 - j) + 1) \div 2 = n + 1 - j \div 2
        BY <1>1, <2>4
      <3>2. n + 1 - j \div 2 \in 1..n
        BY <1>1, <2>4
      <3> QED
        BY <2>2, <2>4, <3>1, <3>2 DEF Elements
    <2> QED
      BY <2>3, <2>4
  <1>3. Below(depth) = [j \in 1..(2 * (n - depth)) |-> tag(j)]
    BY DEF Below
  <1>4. 2 * (n - depth) \in Nat
    BY <1>1
  <1> HIDE DEF n, tag
  <1>5. /\ Below(depth) \in Seq(Elements)
        /\ Len(Below(depth)) = 2 * (n - depth)
        /\ \A j \in 1..(2 * (n - depth)) : Below(depth)[j] = tag(j)
    BY <1>2, <1>3, <1>4
  <1> QED
    BY <1>2, <1>5 DEF n

\* What closes everything, from the formatter's state.
LEMMA ClosingTags ==
    ASSUME IInv, last.kind # "end"
    PROVE  /\ open \in Seq(Elements)
           /\ FinishEnds \in Seq(Elements)
           /\ ~ insideTable /\ ~ insidePre =>
                 /\ TableEnds \o FinishEnds = FinishEnds
                 /\ open = Inside(listTypes)
                 /\ Len(FinishEnds) = Len(open)
                 /\ \A j \in 1..Len(FinishEnds) : FinishEnds[j] = open[Len(open) + 1 - j]
           /\ insideTable => FinishEnds = << >> /\ TableEnds = <<"TABLE">>
           /\ insideTable /\ ~ insidePre => open = <<"TABLE">>
           /\ insidePre => FinishEnds = << >>
           /\ ~ insideTable => TableEnds = << >>
           /\ insidePre /\ ~ insideTable => open \in {<< >>, <<"PRE">>}
           /\ insidePre /\ insideTable => open \in {<<"TABLE">>, <<"TABLE", "PRE">>}
           /\ insidePre /\ ~ oddPre => open = <<"PRE">>
  <1>1. /\ listTypes \in Seq(Lists)
        /\ Inside(listTypes) \in Seq(Elements)
        /\ Len(Inside(listTypes)) = 2 * Len(listTypes)
    BY InsideProperties DEF IInv
  <1>2. 0 \in 0..Len(listTypes) /\ 2 * (Len(listTypes) - 0) = 2 * Len(listTypes)
    BY <1>1
  <1>3. /\ FinishEnds \in Seq(Elements)
        /\ Len(FinishEnds) = 2 * Len(listTypes)
        /\ \A j \in 1..(2 * Len(listTypes)) :
              FinishEnds[j] = Inside(listTypes)[2 * Len(listTypes) + 1 - j]
    BY <1>1, <1>2, BelowProperties DEF FinishEnds
  <1>4. listTypes = << >> => FinishEnds = << >>
    BY <1>3
  <1>5. /\ <<"TABLE">> \in Seq(Elements) /\ <<"PRE">> \in Seq(Elements)
        /\ << >> \in Seq(Elements) /\ <<"TABLE", "PRE">> \in Seq(Elements)
        /\ <<"TABLE">> \o <<"PRE">> = <<"TABLE", "PRE">>
    BY TableAndPre
  <1>6. << >> \o <<"PRE">> = <<"PRE">>
    BY <1>5, ConcatEmptySeq
  <1>7. /\ insidePre /\ ~ insideTable => open \in {<< >>, <<"PRE">>}
        /\ insidePre /\ insideTable => open \in {<<"TABLE">>, <<"TABLE", "PRE">>}
        /\ insidePre /\ ~ oddPre => open = <<"PRE">>
        /\ ~ insidePre /\ insideTable => open = <<"TABLE">>
        /\ ~ insidePre /\ ~ insideTable => open = Inside(listTypes)
    BY <1>5, <1>6 DEF IInv, Around, TableAround
  <1>8. open \in {<<"TABLE">>, <<"PRE">>, <<"TABLE", "PRE">>, << >>, Inside(listTypes)}
    BY <1>7
  <1>9. open \in Seq(Elements)
    BY <1>1, <1>5, <1>8
  <1>10. ~ insideTable => TableEnds = << >> /\ TableEnds \o FinishEnds = FinishEnds
    BY <1>3, ConcatEmptySeq DEF TableEnds, If
  <1>11. insideTable => TableEnds = <<"TABLE">>
    BY DEF TableEnds, If
  <1>12. insideTable \/ insidePre => FinishEnds = << >>
    BY <1>4 DEF IInv
  <1> QED
    BY <1>1, <1>3, <1>7, <1>9, <1>10, <1>11, <1>12

-----------------------------------------------------------------------------
(* The lines *)

LEMMA LevelProperties ==
    ASSUME NEW indent \in Indents
    PROVE  LevelOf(indent) \in Nat \ {0}
  <1>1. indent \in Nat \ {0}
    BY PageRendererAssumption
  <1> QED
    BY <1>1 DEF LevelOf

\* A single element is closed by its own end tag.
LEMMA EmitOne ==
    ASSUME NEW e \in Elements, NEW starts \in Seq(Elements), open = <<e>>, Nests,
           oddPre' = oddPre, Emit(<<e>>, starts)
    PROVE  Nests' /\ open' = starts
  <1> DEFINE ends == <<e>>
  <1>1. ends \in Seq(Elements) /\ Len(ends) = 1 /\ Emit(ends, starts) /\ open = ends
    OBVIOUS
  <1>2. ends[1] = e
    OBVIOUS
  <1> HIDE DEF ends
  <1>3. \A j \in 1..Len(ends) : ends[j] = open[Len(open) + 1 - j]
    BY <1>1, <1>2
  <1> QED
    BY <1>1, <1>3, EmitAll

\* Where no list is open, the HTML has at most a table and <pre> open.
LEMMA OutsideLists ==
    ASSUME IInv, listTypes' = << >>
    PROVE  /\ listTypes' \in Seq(Lists)
           /\ Around' = IF last'.kind = "end" THEN << >>
                        ELSE IF insidePre' THEN TableAround' \o <<"PRE">>
                        ELSE TableAround'
  <1> DEFINE none == << >>
  <1>1. none \in Seq(Lists)
    OBVIOUS
  <1>2. Inside(none) = none
    BY <1>1, InsideProperties
  <1>3. Inside(listTypes)' = none
    BY <1>2 DEF Inside
  <1> QED
    BY <1>1, <1>3 DEF Around, TableAround

\* After a line that closes everything it is known what is open.
LEMMA ClosedIInv ==
    ASSUME IInv, Nests', last'.kind \in {"none", "text", "blank", "indented", "row", "pre", "end"},
           listTypes' = << >>, isList' \in BOOLEAN, insideTable' \in BOOLEAN,
           insidePre' \in BOOLEAN,
           \/ open' = IF last'.kind = "end" THEN << >>
                      ELSE IF insidePre' THEN TableAround' \o <<"PRE">>
                      ELSE TableAround'
           \/ oddPre' /\ insidePre' /\ open' = TableAround',
           insideTable' /\ insidePre' => oddPre',
           last'.kind = "end" => lines' = MaxLines /\ open' = << >>,
           last'.kind \in {"text", "blank"} => ~ insideTable',
           last'.kind = "row" => insideTable',
           last'.kind \in {"text", "blank", "row"} => ~ insidePre'
    PROVE  IInv'
  <1>1. /\ listTypes' \in Seq(Lists)
        /\ open' = Around' \/ (oddPre' /\ insidePre' /\ open' = TableAround')
    BY OutsideLists
  <1> QED
    BY <1>1 DEF IInv

\* Text, a blank line, an indented line and a row of a table.
LEMMA LineIInv ==
    ASSUME IInv, Plain("text") \/ Plain("blank") \/ Indented \/ Row
    PROVE  IInv'
  <1> DEFINE none == << >>
  <1>0. none \in Seq(Elements) /\ <<"TABLE">> \in Seq(Elements) /\ "TABLE" \in Elements
    BY DEF Elements
  <1>1. /\ ~ insidePre /\ insidePre' = FALSE /\ oddPre' = oddPre
        /\ lines < MaxLines /\ last.kind # "end"
    BY PageRendererAssumption DEF Plain, Indented, Row, Line, IInv
  <1>2. /\ open \in Seq(Elements) /\ Nests /\ oddPre' = oddPre
        /\ FinishEnds \in Seq(Elements)
        /\ ~ insideTable =>
              /\ TableEnds \o FinishEnds = FinishEnds
              /\ TableEnds = none
              /\ Len(FinishEnds) = Len(open)
              /\ \A j \in 1..Len(FinishEnds) : FinishEnds[j] = open[Len(open) + 1 - j]
        /\ insideTable => FinishEnds = none /\ TableEnds = <<"TABLE">> /\ open = <<"TABLE">>
    BY <1>1, ClosingTags DEF IInv, TableEnds, If
  <1>3. <<"TABLE">> \o none = <<"TABLE">> /\ none \o none = none
    BY <1>0, ConcatEmptySeq
  <1>4. ASSUME Emit(TableEnds \o FinishEnds, none)
        PROVE  Nests' /\ open' = none
    <2>1. CASE insideTable
      <3>1. Emit(<<"TABLE">>, none)
        BY <1>2, <1>3, <1>4, <2>1
      <3> QED
        BY <1>0, <1>2, <2>1, <3>1, EmitOne
    <2>2. CASE ~ insideTable
      <3>1. Emit(FinishEnds, none)
        BY <1>2, <1>4, <2>2
      <3> QED
        BY <1>0, <1>2, <2>2, <3>1, EmitAll
    <2> QED
      BY <2>1, <2>2
  <1>5. ASSUME NEW kind \in {"text", "blank"}, Plain(kind)
        PROVE  IInv'
    <2>1. /\ Emit(TableEnds \o FinishEnds, none)
          /\ last'.kind = kind /\ listTypes' = << >>
          /\ isList' = FALSE /\ insideTable' = FALSE
      BY <1>5 DEF Plain
    <2>2. Nests' /\ open' = << >>
      BY <1>4, <2>1
    <2> QED
      BY <1>1, <2>1, <2>2, ClosedIInv DEF TableAround
  <1>6. CASE Indented
    <2>1. /\ Emit(TableEnds \o If(~ isList, FinishEnds), none)
          /\ last'.kind = "indented" /\ insideTable' = FALSE /\ isList' = isList
          /\ isList' \in BOOLEAN
          /\ listTypes' = IF isList THEN listTypes ELSE << >>
      BY <1>6 DEF Indented, IInv
    <2>2. CASE ~ isList
      <3>1. Emit(TableEnds \o FinishEnds, none)
        BY <2>1, <2>2 DEF If
      <3>2. Nests' /\ open' = << >>
        BY <1>4, <3>1
      <3> QED
        BY <1>1, <2>1, <2>2, <3>2, ClosedIInv DEF TableAround
    <2>3. CASE isList /\ insideTable
      <3>1. Emit(<<"TABLE">>, none)
        BY <1>2, <1>3, <2>1, <2>3 DEF If
      <3>2. Nests' /\ open' = << >>
        BY <1>0, <1>2, <2>3, <3>1, EmitOne
      <3>3. listTypes' = << >>
        BY <2>1, <2>3 DEF IInv
      <3> QED
        BY <1>1, <2>1, <3>2, <3>3, ClosedIInv DEF TableAround
    <2>4. CASE isList /\ ~ insideTable
      <3>1. Emit(none, none)
        BY <1>2, <1>3, <2>1, <2>4 DEF If
      <3>2. Nests' /\ open' = open
        BY <1>2, <3>1, EmitNothing
      <3>3. Inside(listTypes)' = Inside(listTypes)
        BY <2>1, <2>4 DEF Inside
      <3>4. open' = Around'
        BY <1>1, <2>1, <2>4, <3>2, <3>3 DEF IInv, Around
      <3> QED
        BY <1>1, <2>1, <2>4, <3>2, <3>4 DEF IInv
    <2> QED
      BY <2>2, <2>3, <2>4
  <1>7. CASE Row
    <2>1. /\ Emit(FinishEnds, If(~ insideTable, <<"TABLE">>))
          /\ last'.kind = "row" /\ insideTable' = TRUE /\ isList' = FALSE
          /\ listTypes' = << >>
      BY <1>7 DEF Row
    <2>2. Nests' /\ open' = <<"TABLE">>
      <3>1. CASE insideTable
        <4>1. Emit(none, none)
          BY <1>2, <2>1, <3>1 DEF If
        <4> QED
          BY <1>2, <3>1, <4>1, EmitNothing
      <3>2. CASE ~ insideTable
        <4>1. Emit(FinishEnds, <<"TABLE">>)
          BY <2>1, <3>2 DEF If
        <4> QED
          BY <1>0, <1>2, <3>2, <4>1, EmitAll
      <3> QED
        BY <3>1, <3>2
    <2> QED
      BY <1>1, <2>1, <2>2, ClosedIInv DEF TableAround
  <1> QED
    BY <1>5, <1>6, <1>7

\* <pre>, the lines inside it and what ends it.
LEMMA PreIInv ==
    ASSUME IInv, PreStart \/ PreOneLine \/ PreLine \/ PreEnd
    PROVE  IInv'
  <1> DEFINE none == << >>
             both == <<"TABLE", "PRE">>
  <1>0. /\ none \in Seq(Elements)
        /\ <<"TABLE">> \in Seq(Elements) /\ "TABLE" \in Elements
        /\ <<"PRE">> \in Seq(Elements) /\ "PRE" \in Elements
        /\ both \in Seq(Elements) /\ Len(both) = 2 /\ both[2] = "PRE"
        /\ <<"TABLE">> \o <<"PRE">> = both
        /\ Len(none) = 0 /\ Len(<<"TABLE">>) = 1
    BY TableAndPre
  <1>1. /\ none \o <<"PRE">> = <<"PRE">> /\ <<"TABLE">> \o none = <<"TABLE">>
        /\ none \o none = none
    BY TableAndPre
  <1>2. lines < MaxLines /\ last.kind # "end"
    <2>1. lines < MaxLines
      BY Zenon DEF PreStart, PreOneLine, CopyPre, PreLine, PreEnd, Line
    <2>2. MaxLines \in Nat /\ (last.kind = "end" => lines = MaxLines)
      BY PageRendererAssumption DEF IInv
    <2> QED
      BY <2>1, <2>2
  <1>3. /\ open \in Seq(Elements) /\ Nests
        /\ FinishEnds \in Seq(Elements)
        /\ ~ insideTable /\ ~ insidePre =>
              /\ Len(FinishEnds) = Len(open)
              /\ \A j \in 1..Len(FinishEnds) : FinishEnds[j] = open[Len(open) + 1 - j]
        /\ insideTable => FinishEnds = none /\ TableEnds = <<"TABLE">>
        /\ insideTable /\ ~ insidePre => open = <<"TABLE">>
        /\ insidePre => FinishEnds = none
        /\ ~ insideTable => TableEnds = none
        /\ insidePre /\ ~ insideTable => open \in {none, <<"PRE">>}
        /\ insidePre /\ insideTable => open \in {<<"TABLE">>, both}
        /\ insidePre /\ ~ oddPre => open = <<"PRE">>
    BY <1>2, ClosingTags DEF IInv
  <1>4. ASSUME NEW kind, NEW starts \in {none, <<"PRE">>}, CopyPre(kind, starts),
               starts = none => kind = "preline"
        PROVE  IInv'
    <2>1. /\ insideTable' = insideTable /\ insidePre' = TRUE
          /\ Emit(FinishEnds, starts) /\ ~ PreOpen
          /\ oddPre' = (oddPre \/ insideTable \/ kind = "preline")
          /\ listTypes' = << >> /\ last'.kind = "pre" /\ isList' \in BOOLEAN
          /\ insideTable \in BOOLEAN
      BY <1>4 DEF CopyPre, IInv
    <2>2. open' = TableAround \o starts /\ (nested => nested')
      <3>1. CASE ~ insidePre /\ ~ insideTable
        <4>1. FinishEnds \in Seq(Elements) /\ Len(FinishEnds) = Len(open)
          BY <1>3, <3>1
        <4>2. SubSeq(open, 1, Len(open) - Len(FinishEnds)) = none
          BY <1>3, <4>1
        <4>3. open' = none \o starts
          BY <2>1, <4>2 DEF Emit
        <4>4. DOMAIN FinishEnds = 1..Len(FinishEnds) /\ Len(FinishEnds) <= Len(open)
          BY <1>3, <4>1
        <4>5. \A j \in DOMAIN FinishEnds : FinishEnds[j] = open[Len(open) + 1 - j]
          BY <1>3, <3>1, <4>4, Zenon
        <4> QED
          BY <2>1, <3>1, <4>3, <4>4, <4>5, Zenon DEF Emit, TableAround
      <3>2. CASE insidePre \/ insideTable
        <4>1. FinishEnds = none /\ open = TableAround
          <5>1. CASE insidePre /\ ~ insideTable
            BY <1>3, <2>1, <5>1 DEF PreOpen, TableAround
          <5>2. CASE insidePre /\ insideTable
            BY <1>0, <1>3, <2>1, <5>2 DEF PreOpen, TableAround
          <5>3. CASE ~ insidePre
            BY <1>3, <3>2, <5>3 DEF TableAround
          <5> QED
            BY <5>1, <5>2, <5>3
        <4>2. open \in Seq(Elements) /\ Len(none) = 0 /\ Len(open) \in Nat
              /\ SubSeq(open, 1, Len(open) - 0) = open
          <5>1. open \in {none, <<"TABLE">>}
            BY <4>1 DEF TableAround
          <5> QED
            BY <1>3, <5>1
        <4>3. open' = open \o starts
          BY <2>1, <4>1, <4>2 DEF Emit
        <4>4. nested => nested'
          <5>1. DOMAIN none = {} /\ Len(none) <= Len(open)
            BY <4>2
          <5>2. Emit(none, starts)
            BY <2>1, <4>1
          <5> HIDE DEF none
          <5> QED
            BY <5>1, <5>2, Zenon DEF Emit
        <4> QED
          BY <4>1, <4>3, <4>4
      <3> QED
        BY <3>1, <3>2
    <2>3. Nests'
      BY <1>3, <2>1, <2>2 DEF Nests
    <2>4. TableAround' = TableAround
      BY <2>1 DEF TableAround
    <2>5. TableAround \in {none, <<"TABLE">>}
      BY DEF TableAround
    <2>6. CASE starts = none
      <3>1. open' = TableAround' /\ oddPre'
        BY <1>1, <1>4, <2>1, <2>2, <2>4, <2>5, <2>6
      <3> QED
        BY <2>1, <2>3, <3>1, ClosedIInv
    <2>7. CASE starts = <<"PRE">>
      <3>1. open' = TableAround' \o <<"PRE">>
        BY <2>2, <2>4, <2>7
      <3>2. insideTable' /\ insidePre' => oddPre'
        BY <2>1
      <3> QED
        BY <2>1, <2>3, <3>1, <3>2, ClosedIInv
    <2> QED
      BY <2>6, <2>7
  <1>5. CASE PreLine
    <2>1. /\ insidePre /\ last'.kind = "pre"
          /\ UNCHANGED <<listTypes, isList, insideTable, insidePre, open, nested, oddPre>>
      BY <1>5 DEF PreLine, formatter, html
    <2>2. listTypes' = << >> /\ Nests' /\ TableAround' = TableAround
      BY <2>1 DEF IInv, Nests, TableAround
    <2>3. open = TableAround \o <<"PRE">> \/ (oddPre /\ open = TableAround)
      BY <1>2, <2>1 DEF IInv, Around
    <2> QED
      BY <2>1, <2>2, <2>3, ClosedIInv DEF IInv
  <1>6. CASE PreEnd
    <2>1. /\ Emit(TableEnds \o FinishEnds \o <<"PRE">>, none)
          /\ listTypes' = << >> /\ last'.kind = "text" /\ isList' = FALSE
          /\ insideTable' = FALSE /\ insidePre' = FALSE /\ oddPre' = oddPre
          /\ insidePre /\ PreOpen
      BY <1>6 DEF PreEnd
    <2>2. Nests' /\ open' = << >>
      <3>1. CASE ~ insideTable
        <4>1. open = <<"PRE">>
          BY <1>3, <2>1, <3>1 DEF PreOpen
        <4>2. TableEnds \o FinishEnds \o <<"PRE">> = <<"PRE">>
          BY <1>1, <1>3, <2>1, <3>1
        <4> QED
          BY <1>0, <1>3, <2>1, <4>1, <4>2, EmitOne
      <3>2. CASE insideTable
        <4>1. open \in {<<"TABLE">>, both} /\ oddPre
          BY <1>3, <2>1, <3>2 DEF IInv
        <4>2. TableEnds \o FinishEnds \o <<"PRE">> = both
          BY <1>0, <1>1, <1>3, <2>1, <3>2
        <4>3. Emit(both, none)
          BY <2>1, <4>2
        <4>4. Len(open) <= Len(both)
          <5>1. CASE open = <<"TABLE">>
            BY <1>0, <5>1
          <5>2. CASE open = both
            BY <1>0, <5>2
          <5> QED
            BY <4>1, <5>1, <5>2
        <4> HIDE DEF both
        <4> QED
          BY <1>0, <1>3, <2>1, <4>1, <4>3, <4>4, EmitTooMuch
      <3> QED
        BY <3>1, <3>2
    <2> QED
      BY <2>1, <2>2, ClosedIInv DEF TableAround
  <1> QED
    BY <1>0, <1>4, <1>5, <1>6 DEF PreStart, PreOneLine

\* The end of a page and the next page.
LEMMA PageIInv ==
    ASSUME IInv, EndPage \/ NewPage
    PROVE  IInv'
  <1> DEFINE none == << >>
             both == <<"TABLE", "PRE">>
  <1>0. /\ none \in Seq(Elements)
        /\ <<"TABLE">> \in Seq(Elements) /\ "TABLE" \in Elements
        /\ <<"PRE">> \in Seq(Elements) /\ "PRE" \in Elements
        /\ both \in Seq(Elements) /\ Len(both) = 2
        /\ <<"TABLE">> \o <<"PRE">> = both
        /\ Len(none) = 0 /\ Len(<<"TABLE">>) = 1 /\ Len(<<"PRE">>) = 1
    BY TableAndPre
  <1>1. /\ none \o <<"PRE">> = <<"PRE">> /\ <<"TABLE">> \o none = <<"TABLE">>
        /\ none \o none = none
    BY TableAndPre
  <1>2. CASE EndPage
    <2>1. /\ last.kind # "end" /\ lines' = MaxLines /\ last'.kind = "end"
          /\ Emit(TableEnds \o FinishEnds \o If(insidePre, <<"PRE">>), none)
          /\ listTypes' = << >> /\ isList' = FALSE /\ insidePre' = insidePre
          /\ insideTable' = (insideTable /\ insidePre) /\ oddPre' = oddPre
      BY <1>2 DEF EndPage
    <2>2. /\ open \in Seq(Elements) /\ Nests
          /\ FinishEnds \in Seq(Elements)
          /\ ~ insideTable /\ ~ insidePre =>
                /\ TableEnds \o FinishEnds = FinishEnds
                /\ Len(FinishEnds) = Len(open)
                /\ \A j \in 1..Len(FinishEnds) : FinishEnds[j] = open[Len(open) + 1 - j]
          /\ insideTable => FinishEnds = none /\ TableEnds = <<"TABLE">>
          /\ insideTable /\ ~ insidePre => open = <<"TABLE">>
          /\ insidePre => FinishEnds = none
          /\ ~ insideTable => TableEnds = none
          /\ insidePre /\ ~ insideTable => open \in {none, <<"PRE">>}
          /\ insidePre /\ insideTable => open \in {<<"TABLE">>, both}
          /\ insidePre /\ ~ oddPre => open = <<"PRE">>
      BY <2>1, ClosingTags DEF IInv
    <2>3. Nests' /\ open' = << >>
      <3>1. CASE ~ insidePre /\ ~ insideTable
        <4>1. TableEnds \o FinishEnds \o If(insidePre, <<"PRE">>) = FinishEnds
          BY <2>2, <3>1, ConcatEmptySeq DEF If
        <4> QED
          BY <1>0, <2>1, <2>2, <3>1, <4>1, EmitAll
      <3>2. CASE ~ insidePre /\ insideTable
        <4>1. TableEnds \o FinishEnds \o If(insidePre, <<"PRE">>) = <<"TABLE">>
          BY <1>1, <2>2, <3>2 DEF If
        <4> QED
          BY <1>0, <2>1, <2>2, <3>2, <4>1, EmitOne
      <3>3. CASE insidePre /\ ~ insideTable
        <4>1. TableEnds \o FinishEnds \o If(insidePre, <<"PRE">>) = <<"PRE">>
          BY <1>1, <2>2, <3>3 DEF If
        <4>2. CASE open = <<"PRE">>
          BY <1>0, <2>1, <2>2, <4>1, <4>2, EmitOne
        <4>3. CASE open = none
          <5>1. oddPre
            BY <2>2, <3>3, <4>3
          <5>2. Len(open) = 0 /\ Len(open) <= Len(<<"PRE">>)
            BY <1>0, <4>3
          <5>3. Emit(<<"PRE">>, none)
            BY <2>1, <4>1
          <5> QED
            BY <1>0, <2>1, <2>2, <5>1, <5>2, <5>3, EmitTooMuch
        <4> QED
          BY <2>2, <3>3, <4>2, <4>3
      <3>4. CASE insidePre /\ insideTable
        <4>1. TableEnds \o FinishEnds \o If(insidePre, <<"PRE">>) = both
          BY <1>0, <1>1, <2>2, <3>4 DEF If
        <4>2. oddPre
          BY <3>4 DEF IInv
        <4>3. Emit(both, none)
          BY <2>1, <4>1
        <4>4. Len(open) <= Len(both)
          <5>1. CASE open = <<"TABLE">>
            BY <1>0, <5>1
          <5>2. CASE open = both
            BY <1>0, <5>2
          <5> QED
            BY <2>2, <3>4, <5>1, <5>2
        <4> HIDE DEF both
        <4> QED
          BY <1>0, <2>1, <2>2, <4>2, <4>3, <4>4, EmitTooMuch
      <3> QED
        BY <3>1, <3>2, <3>3, <3>4
    <2> QED
      BY <2>1, <2>3, ClosedIInv DEF IInv
  <1>3. CASE NewPage
    <2>1. /\ listTypes' = << >> /\ isList' = FALSE /\ insideTable' = FALSE /\ insidePre' = FALSE
          /\ open' = << >> /\ Nests' /\ last'.kind = "none" /\ TableAround' = << >>
      BY <1>3 DEF NewPage, Nests, TableAround
    <2> QED
      BY <2>1, ClosedIInv
  <1> QED
    BY <1>2, <1>3

-----------------------------------------------------------------------------
(* The items *)

LEMMA AfterProperties ==
    ASSUME listTypes \in Seq(Lists), NEW list \in Lists, NEW depth \in Nat \ {0}
    PROVE  /\ ListsAfter(list, depth) \in Seq(Lists)
           /\ Len(ListsAfter(list, depth)) = depth
           /\ \A k \in 1..depth :
                 ListsAfter(list, depth)[k] =
                     IF k < depth /\ k <= Len(listTypes) THEN listTypes[k] ELSE list
  BY DEF ListsAfter

\* One more end tag, of the innermost element the others leave open.
LEMMA OneMoreEnd ==
    ASSUME open \in Seq(Elements), NEW ends \in Seq(Elements), Len(ends) < Len(open),
           \A j \in 1..Len(ends) : ends[j] = open[Len(open) + 1 - j],
           NEW e, e = open[Len(open) - Len(ends)]
    PROVE  /\ ends \o <<e>> \in Seq(Elements)
           /\ Len(ends \o <<e>>) = Len(ends) + 1
           /\ \A j \in 1..(Len(ends) + 1) : (ends \o <<e>>)[j] = open[Len(open) + 1 - j]
  <1>1. Len(open) \in Nat /\ Len(ends) \in Nat /\ Len(open) - Len(ends) \in 1..Len(open)
    OBVIOUS
  <1>2. e \in Elements
    BY <1>1
  <1> DEFINE one == <<e>>
  <1>3. one \in Seq(Elements) /\ Len(one) = 1 /\ one[1] = e
    BY <1>2
  <1> HIDE DEF one
  <1>4. /\ ends \o one \in Seq(Elements)
        /\ Len(ends \o one) = Len(ends) + Len(one)
        /\ \A j \in 1..(Len(ends) + Len(one)) :
              (ends \o one)[j] = IF j <= Len(ends) THEN ends[j] ELSE one[j - Len(ends)]
    BY <1>3, ConcatProperties
  <1>5. ASSUME NEW j \in 1..(Len(ends) + 1)
        PROVE  (ends \o one)[j] = open[Len(open) + 1 - j]
    <2>1. CASE j <= Len(ends)
      BY <1>1, <1>3, <1>4, <2>1
    <2>2. CASE ~ (j <= Len(ends))
      <3>1. j = Len(ends) + 1 /\ j - Len(ends) = 1 /\ Len(open) + 1 - j = Len(open) - Len(ends)
        BY <1>1, <2>2
      <3> QED
        BY <1>3, <1>4, <2>2, <3>1
    <2> QED
      BY <2>1, <2>2
  <1> QED
    BY <1>3, <1>4, <1>5 DEF one

\* The first item of a deeper list.
LEMMA DeeperItem ==
    ASSUME IInv, ~ insideTable, ~ insidePre, last.kind # "end", oddPre' = oddPre,
           NEW list \in Lists, NEW depth \in Nat \ {0},
           Len(listTypes) < depth, Emit(<< >>, ItemStarts(list, depth))
    PROVE  Nests' /\ open' = Inside(ListsAfter(list, depth))
  <1> DEFINE n == Len(listTypes)
             new == [k \in 1..(depth - n) |-> list]
             types == ListsAfter(list, depth)
             none == << >>
  <1>1. /\ listTypes \in Seq(Lists) /\ n \in Nat /\ depth \in Nat /\ depth - n \in Nat /\ Nests
        /\ n < depth /\ oddPre' = oddPre
        /\ open = Inside(listTypes)
    BY DEF IInv, Around
  <1>2. new \in Seq(Lists) /\ Len(new) = depth - n /\ \A k \in 1..(depth - n) : new[k] = list
    BY <1>1
  <1>3. ItemStarts(list, depth) = Inside(new)
    BY DEF ItemStarts
  <1>4. /\ types \in Seq(Lists) /\ Len(types) = depth
        /\ \A k \in 1..depth : types[k] = IF k < depth /\ k <= n THEN listTypes[k] ELSE list
    BY <1>1, AfterProperties
  <1>5. none \in Seq(Elements) /\ Len(none) = 0 /\ Emit(none, Inside(new))
    BY <1>3
  <1> HIDE DEF n, new, types, none
  <1>6. /\ Inside(new) \in Seq(Elements) /\ Len(Inside(new)) = 2 * (depth - n)
        /\ \A i \in 1..(2 * (depth - n)) :
              Inside(new)[i] = IF i % 2 = 1 THEN new[(i + 1) \div 2] ELSE "LI"
    BY <1>2, InsideProperties
  <1>7. /\ Inside(types) \in Seq(Elements) /\ Len(Inside(types)) = 2 * depth
        /\ \A i \in 1..(2 * depth) :
              Inside(types)[i] = IF i % 2 = 1 THEN types[(i + 1) \div 2] ELSE "LI"
    BY <1>4, InsideProperties
  <1>8. /\ open \in Seq(Elements) /\ Len(open) = 2 * n
        /\ \A i \in 1..(2 * n) :
              open[i] = IF i % 2 = 1 THEN listTypes[(i + 1) \div 2] ELSE "LI"
    BY <1>1, InsideProperties DEF n
  <1>9. /\ Nests'
        /\ open' \in Seq(Elements)
        /\ Len(open') = 2 * n + 2 * (depth - n)
        /\ \A i \in 1..(2 * n) : open'[i] = open[i]
        /\ \A i \in 1..(2 * (depth - n)) : open'[2 * n + i] = Inside(new)[i]
    <2>1. /\ Len(none) <= Len(open)
          /\ \A j \in 1..Len(none) : none[j] = open[Len(open) + 1 - j]
          /\ Len(open) - Len(none) = 2 * n
      BY <1>1, <1>5, <1>8
    <2>2. /\ Nests'
          /\ open' \in Seq(Elements)
          /\ Len(open') = Len(open) - Len(none) + Len(Inside(new))
          /\ \A i \in 1..(Len(open) - Len(none)) : open'[i] = open[i]
          /\ \A i \in 1..Len(Inside(new)) : open'[Len(open) - Len(none) + i] = Inside(new)[i]
      BY <1>1, <1>5, <1>6, <1>8, <2>1, EmitProperties
    <2> QED
      BY <1>6, <2>1, <2>2
  <1>10. Len(open') = 2 * depth
    BY <1>1, <1>9
  <1>11. ASSUME NEW i \in 1..(2 * depth)
         PROVE  open'[i] = Inside(types)[i]
    <2>1. CASE i <= 2 * n
      <3>1. i \in 1..(2 * n)
        BY <1>1, <2>1
      <3>2. i % 2 = 1 => /\ (i + 1) \div 2 \in 1..depth
                         /\ (i + 1) \div 2 < depth /\ (i + 1) \div 2 <= n
        BY <1>1, <3>1
      <3> QED
        BY <1>4, <1>7, <1>8, <1>9, <3>1, <3>2
    <2>2. CASE ~ (i <= 2 * n)
      <3> DEFINE m == i - 2 * n
      <3>1. m \in 1..(2 * (depth - n)) /\ i = 2 * n + m /\ i % 2 = m % 2
        BY <1>1, <2>2
      <3>2. i % 2 = 1 => /\ (m + 1) \div 2 \in 1..(depth - n)
                         /\ (i + 1) \div 2 \in 1..depth
                         /\ ~ ((i + 1) \div 2 <= n)
        BY <1>1, <2>2
      <3> HIDE DEF m
      <3>3. open'[i] = Inside(new)[m]
        BY <1>9, <3>1
      <3>4. Inside(new)[m] = IF i % 2 = 1 THEN list ELSE "LI"
        BY <1>2, <1>6, <3>1, <3>2
      <3>5. Inside(types)[i] = IF i % 2 = 1 THEN list ELSE "LI"
        BY <1>4, <1>7, <3>2
      <3> QED
        BY <3>3, <3>4, <3>5
    <2> QED
      BY <2>1, <2>2
  <1> QED
    BY <1>7, <1>9, <1>10, <1>11, SeqEqual DEF types

\* An item of a list that is open, or of another list in its place.
LEMMA NextItem ==
    ASSUME IInv, ~ insideTable, ~ insidePre, last.kind # "end", oddPre' = oddPre,
           NEW list \in Lists, NEW depth \in Nat \ {0},
           depth <= Len(listTypes), Emit(ItemEnds(list, depth), ItemStarts(list, depth))
    PROVE  Nests' /\ open' = Inside(ListsAfter(list, depth))
  <1> DEFINE n == Len(listTypes)
             types == ListsAfter(list, depth)
             below == Below(depth)
             ends == below \o <<"LI">>
             none == << >>
  <1>1. /\ listTypes \in Seq(Lists) /\ n \in Nat /\ depth \in 1..n /\ Nests
        /\ depth \in 0..n /\ oddPre' = oddPre
        /\ open = Inside(listTypes)
    BY DEF IInv, Around
  <1>2. /\ open \in Seq(Elements) /\ Len(open) = 2 * n
        /\ \A i \in 1..(2 * n) :
              open[i] = IF i % 2 = 1 THEN listTypes[(i + 1) \div 2] ELSE "LI"
    BY <1>1, InsideProperties
  <1>3. /\ types \in Seq(Lists) /\ Len(types) = depth
        /\ \A k \in 1..depth : types[k] = IF k < depth THEN listTypes[k] ELSE list
    <2>1. /\ types \in Seq(Lists) /\ Len(types) = depth
          /\ \A k \in 1..depth : types[k] = IF k < depth /\ k <= n THEN listTypes[k] ELSE list
      BY <1>1, AfterProperties
    <2>2. \A k \in 1..depth : k <= n
      BY <1>1
    <2> HIDE DEF types, n
    <2> QED
      BY <2>1, <2>2
  <1>4. /\ below \in Seq(Elements) /\ Len(below) = 2 * (n - depth)
        /\ \A j \in 1..(2 * (n - depth)) : below[j] = open[2 * n + 1 - j]
    BY <1>1, BelowProperties
  <1>5. /\ ItemEnds(list, depth) = ends \o If(Changes(list, depth), <<listTypes[depth]>>)
        /\ ItemStarts(list, depth) = If(Changes(list, depth), <<list>>) \o <<"LI">>
    <2>1. depth > 0 /\ ~ (Len(listTypes) < depth)
      BY <1>1
    <2>2. If(depth > 0, <<"LI">>) = <<"LI">>
      BY <2>1 DEF If
    <2> QED
      BY <2>1, <2>2 DEF ItemEnds, ItemStarts
  <1>6. /\ <<"LI">> \in Seq(Elements) /\ <<list>> \in Seq(Elements) /\ none \in Seq(Elements)
        /\ "LI" \in Elements
    BY DEF Elements
  <1> HIDE DEF n, types, below
  <1>7. /\ Inside(types) \in Seq(Elements) /\ Len(Inside(types)) = 2 * depth
        /\ \A i \in 1..(2 * depth) :
              Inside(types)[i] = IF i % 2 = 1 THEN types[(i + 1) \div 2] ELSE "LI"
    BY <1>3, InsideProperties
  <1>8. /\ ends \in Seq(Elements) /\ Len(ends) = 2 * (n - depth) + 1
        /\ \A j \in 1..(2 * (n - depth) + 1) : ends[j] = open[2 * n + 1 - j]
    <2>1. Len(below) < Len(open) /\ Len(open) - Len(below) = 2 * depth
      BY <1>1, <1>2, <1>4
    <2>2. 2 * depth \in 1..(2 * n) /\ (2 * depth) % 2 # 1
      BY <1>1
    <2>3. open[Len(open) - Len(below)] = "LI"
      BY <1>2, <2>1, <2>2
    <2>4. \A j \in 1..Len(below) : below[j] = open[Len(open) + 1 - j]
      BY <1>2, <1>4
    <2>5. /\ below \o <<"LI">> \in Seq(Elements)
          /\ Len(below \o <<"LI">>) = Len(below) + 1
          /\ \A j \in 1..(Len(below) + 1) : (below \o <<"LI">>)[j] = open[Len(open) + 1 - j]
      BY <1>2, <1>4, <2>1, <2>3, <2>4, OneMoreEnd
    <2> QED
      BY <1>2, <1>4, <2>5
  <1> HIDE DEF ends
  <1>9. CASE ~ Changes(list, depth)
    <2>1. Emit(ends, <<"LI">>)
      <3>1. ItemEnds(list, depth) = ends /\ ItemStarts(list, depth) = <<"LI">>
        BY <1>5, <1>6, <1>8, <1>9, ConcatEmptySeq DEF If
      <3> QED
        BY <3>1
    <2>2. /\ Len(ends) <= Len(open) /\ Len(open) - Len(ends) = 2 * depth - 1
          /\ \A j \in 1..Len(ends) : ends[j] = open[Len(open) + 1 - j]
      BY <1>1, <1>2, <1>8
    <2> DEFINE item == <<"LI">>
    <2>3. item \in Seq(Elements) /\ Len(item) = 1 /\ item[1] = "LI" /\ Emit(ends, item)
      BY <1>6, <2>1
    <2> HIDE DEF item
    <2>4. /\ Nests'
          /\ open' \in Seq(Elements)
          /\ Len(open') = Len(open) - Len(ends) + Len(item)
          /\ \A i \in 1..(Len(open) - Len(ends)) : open'[i] = open[i]
          /\ \A i \in 1..Len(item) : open'[Len(open) - Len(ends) + i] = item[i]
      BY <1>1, <1>2, <1>8, <2>2, <2>3, EmitProperties
    <2>5. /\ Len(open') = 2 * depth
          /\ \A i \in 1..(2 * depth - 1) : open'[i] = open[i]
          /\ open'[2 * depth] = "LI"
      <3>1. 1 \in 1..Len(item) /\ (2 * depth - 1) + 1 = 2 * depth
        BY <1>1, <2>3
      <3> QED
        BY <1>1, <2>2, <2>3, <2>4, <3>1
    <2>6. listTypes[depth] = list
      BY <1>1, <1>9 DEF Changes
    <2>7. ASSUME NEW i \in 1..(2 * depth)
          PROVE  open'[i] = Inside(types)[i]
      <3>1. CASE i = 2 * depth
        <4>1. i % 2 # 1
          BY <1>1, <3>1
        <4> QED
          BY <1>7, <2>5, <3>1, <4>1
      <3>2. CASE i # 2 * depth
        <4>1. i \in 1..(2 * depth - 1) /\ i \in 1..(2 * n)
          BY <1>1, <3>2
        <4>2. i % 2 = 1 => (i + 1) \div 2 \in 1..depth
          BY <1>1, <4>1
        <4>3. i % 2 = 1 => types[(i + 1) \div 2] = listTypes[(i + 1) \div 2]
          BY <1>1, <1>3, <2>6, <4>2
        <4> QED
          BY <1>2, <1>7, <2>5, <4>1, <4>3
      <3> QED
        BY <3>1, <3>2
    <2> QED
      BY <1>7, <2>4, <2>5, <2>7, SeqEqual DEF types
  <1>10. CASE Changes(list, depth)
    <2> DEFINE all == ends \o <<listTypes[depth]>>
               both == <<list>> \o <<"LI">>
    <2>1. Emit(all, both)
      BY <1>5, <1>10 DEF If
    <2>2. /\ all \in Seq(Elements) /\ Len(all) = 2 * (n - depth) + 2
          /\ \A j \in 1..Len(all) : all[j] = open[Len(open) + 1 - j]
      <3>1. Len(ends) < Len(open) /\ Len(open) - Len(ends) = 2 * depth - 1
        BY <1>1, <1>2, <1>8
      <3>2. 2 * depth - 1 \in 1..(2 * n) /\ (2 * depth - 1) % 2 = 1
            /\ ((2 * depth - 1) + 1) \div 2 = depth
        BY <1>1
      <3>3. listTypes[depth] = open[Len(open) - Len(ends)]
        BY <1>2, <3>1, <3>2
      <3>4. \A j \in 1..Len(ends) : ends[j] = open[Len(open) + 1 - j]
        BY <1>2, <1>8
      <3>5. /\ all \in Seq(Elements)
            /\ Len(all) = Len(ends) + 1
            /\ \A j \in 1..(Len(ends) + 1) : all[j] = open[Len(open) + 1 - j]
        BY <1>2, <1>8, <3>1, <3>3, <3>4, OneMoreEnd
      <3> HIDE DEF all
      <3> QED
        BY <1>1, <1>8, <3>5
    <2>3. both \in Seq(Elements) /\ Len(both) = 2 /\ both[1] = list /\ both[2] = "LI"
      BY <1>6, ConcatProperties
    <2> HIDE DEF all, both
    <2>4. Len(all) <= Len(open) /\ Len(open) - Len(all) = 2 * depth - 2
      BY <1>1, <1>2, <2>2
    <2>5. /\ Nests'
          /\ open' \in Seq(Elements)
          /\ Len(open') = Len(open) - Len(all) + Len(both)
          /\ \A i \in 1..(Len(open) - Len(all)) : open'[i] = open[i]
          /\ \A i \in 1..Len(both) : open'[Len(open) - Len(all) + i] = both[i]
      BY <1>1, <1>2, <2>1, <2>2, <2>3, <2>4, EmitProperties
    <2>6. /\ Len(open') = 2 * depth
          /\ \A i \in 1..(2 * depth - 2) : open'[i] = open[i]
          /\ open'[2 * depth - 1] = list
          /\ open'[2 * depth] = "LI"
      <3>1. /\ 1 \in 1..Len(both) /\ (2 * depth - 2) + 1 = 2 * depth - 1
            /\ 2 \in 1..Len(both) /\ (2 * depth - 2) + 2 = 2 * depth
        BY <1>1, <2>3
      <3> QED
        BY <1>1, <2>3, <2>4, <2>5, <3>1
    <2>7. ASSUME NEW i \in 1..(2 * depth)
          PROVE  open'[i] = Inside(types)[i]
      <3>1. CASE i = 2 * depth
        <4>1. i % 2 # 1
          BY <1>1, <3>1
        <4> QED
          BY <1>7, <2>6, <3>1, <4>1
      <3>2. CASE i = 2 * depth - 1
        <4>1. i % 2 = 1 /\ (i + 1) \div 2 = depth /\ depth \in 1..depth /\ ~ (depth < depth)
          BY <1>1, <3>2
        <4> QED
          BY <1>3, <1>7, <2>6, <3>2, <4>1
      <3>3. CASE i # 2 * depth /\ i # 2 * depth - 1
        <4>1. i \in 1..(2 * depth - 2) /\ i \in 1..(2 * n)
          BY <1>1, <3>3
        <4>2. i % 2 = 1 => (i + 1) \div 2 \in 1..depth /\ (i + 1) \div 2 < depth
          BY <1>1, <4>1
        <4> QED
          BY <1>2, <1>3, <1>7, <2>6, <4>1, <4>2
      <3> QED
        BY <3>1, <3>2, <3>3
    <2> QED
      BY <1>7, <2>5, <2>6, <2>7, SeqEqual DEF types
  <1> QED
    BY <1>9, <1>10

LEMMA ItemIInv ==
    ASSUME IInv, Item
    PROVE  IInv'
  <1>1. PICK list \in Lists, indent \in Indents :
            /\ Emit(TableEnds \o ItemEnds(list, LevelOf(indent)),
                    ItemStarts(list, LevelOf(indent)))
            /\ listTypes' = ListsAfter(list, LevelOf(indent))
            /\ last' = [kind |-> "item", list |-> list, level |-> LevelOf(indent)]
    BY DEF Item
  <1> DEFINE depth == LevelOf(indent)
             none == << >>
  <1>2. depth \in Nat \ {0}
    BY LevelProperties
  <1>3. /\ ~ insidePre /\ insidePre' = FALSE /\ isList' = TRUE /\ insideTable' = FALSE
        /\ listTypes \in Seq(Lists) /\ Nests /\ oddPre' = oddPre
        /\ lines < MaxLines /\ last.kind # "end"
    BY PageRendererAssumption DEF Item, Line, IInv
  <1>4. /\ Emit(TableEnds \o ItemEnds(list, depth), ItemStarts(list, depth))
        /\ listTypes' = ListsAfter(list, depth)
        /\ last' = [kind |-> "item", list |-> list, level |-> depth]
    BY <1>1
  <1> HIDE DEF depth
  <1>5. /\ ListsAfter(list, depth) \in Seq(Lists)
        /\ Len(ListsAfter(list, depth)) = depth
        /\ ListsAfter(list, depth)[depth] = list
    <2>1. depth \in 1..depth /\ ~ (depth < depth)
      BY <1>2
    <2> QED
      BY <1>2, <1>3, <2>1, AfterProperties
  <1>6. /\ none \in Seq(Elements) /\ <<"TABLE">> \in Seq(Elements) /\ "TABLE" \in Elements
        /\ none \o none = none /\ <<"TABLE">> \o none = <<"TABLE">>
    <2>1. none \in Seq(Elements) /\ <<"TABLE">> \in Seq(Elements) /\ "TABLE" \in Elements
      BY DEF Elements
    <2> QED
      BY <2>1, ConcatEmptySeq
  <1>7. Len(listTypes) < depth => ItemEnds(list, depth) = none
    BY DEF ItemEnds
  <1>8. Nests' /\ open' = Inside(ListsAfter(list, depth))
    <2>1. CASE insideTable
      <3>1. /\ open = <<"TABLE">> /\ TableEnds = <<"TABLE">>
            /\ listTypes = << >>
        BY <1>3, <2>1 DEF IInv, Around, TableEnds, If
      <3>2. Len(listTypes) = 0 /\ Len(listTypes) < depth
        BY <1>2, <3>1
      <3>3. Emit(<<"TABLE">>, ItemStarts(list, depth))
        BY <1>4, <1>6, <1>7, <3>1, <3>2
      <3>4. ItemStarts(list, depth) = Inside(ListsAfter(list, depth))
        <4> DEFINE new == [k \in 1..(depth - Len(listTypes)) |-> list]
        <4>1. new = ListsAfter(list, depth)
          BY <1>2, <3>2 DEF ListsAfter
        <4> QED
          BY <3>2, <4>1 DEF ItemStarts
      <3>5. Inside(ListsAfter(list, depth)) \in Seq(Elements)
        BY <1>5, InsideProperties
      <3> QED
        BY <1>3, <1>6, <3>1, <3>3, <3>4, <3>5, EmitOne
    <2>2. CASE ~ insideTable /\ Len(listTypes) < depth
      <3>1. Emit(none, ItemStarts(list, depth))
        BY <1>4, <1>6, <1>7, <2>2 DEF TableEnds, If
      <3> QED
        BY <1>2, <1>3, <2>2, <3>1, DeeperItem
    <2>3. CASE ~ insideTable /\ depth <= Len(listTypes)
      <3>1. ItemEnds(list, depth) \in Seq(Elements)
        <4>1. Below(depth) \in Seq(Elements)
          BY <1>2, <1>3, <2>3, BelowProperties
        <4>2. listTypes[depth] \in Lists
          BY <1>2, <1>3, <2>3
        <4>3. /\ If(depth > 0, <<"LI">>) \in Seq(Elements)
              /\ If(Changes(list, depth), <<listTypes[depth]>>) \in Seq(Elements)
          <5>1. <<"LI">> \in Seq(Elements) /\ none \in Seq(Elements)
            BY DEF Elements
          <5>2. <<listTypes[depth]>> \in Seq(Elements)
            BY <4>2 DEF Elements
          <5> QED
            BY <5>1, <5>2 DEF If
        <4>4. ~ (Len(listTypes) < depth)
          BY <1>2, <1>3, <2>3
        <4>5. Below(depth) \o If(depth > 0, <<"LI">>) \in Seq(Elements)
          BY <4>1, <4>3, ConcatProperties
        <4> QED
          BY <4>3, <4>4, <4>5, ConcatProperties DEF ItemEnds
      <3>2. TableEnds = none
        BY <2>3 DEF TableEnds, If
      <3>3. Emit(ItemEnds(list, depth), ItemStarts(list, depth))
        BY <1>4, <3>1, <3>2, ConcatEmptySeq
      <3> QED
        BY <1>2, <1>3, <2>3, <3>3, NextItem
    <2>4. Len(listTypes) < depth \/ depth <= Len(listTypes)
      BY <1>2, <1>3
    <2> QED
      BY <2>1, <2>2, <2>3, <2>4
  <1>9. Inside(listTypes)' = Inside(ListsAfter(list, depth))
    BY <1>4 DEF Inside
  <1>10. /\ last'.kind = "item" /\ last'.list = list /\ last'.level = depth
    BY <1>4
  <1>11. open' = Around'
    BY <1>3, <1>8, <1>9, <1>10 DEF Around
  <1>12. /\ listTypes' \in Seq(Lists) /\ Len(listTypes') = depth /\ depth > 0
         /\ listTypes'[Len(listTypes')] = list
    BY <1>2, <1>4, <1>5
  <1>13. last'.kind = "item" => /\ Len(listTypes') > 0
                                /\ Len(listTypes') = last'.level
                                /\ listTypes'[Len(listTypes')] = last'.list
    BY <1>10, <1>12
  <1> QED
    BY <1>3, <1>8, <1>10, <1>11, <1>12, <1>13 DEF IInv

-----------------------------------------------------------------------------
(* The theorems *)

LEMMA InitIInv == Init => IInv
  <1> SUFFICES ASSUME Init
               PROVE  IInv
    OBVIOUS
  <1> DEFINE none == << >>
  <1>1. none \in Seq(Lists)
    OBVIOUS
  <1>2. listTypes = none /\ last.kind = "none"
    BY DEF Init
  <1>3. Inside(listTypes) = none
    BY <1>1, <1>2, InsideProperties
  <1>4. open = Around
    BY <1>3 DEF Init, Around
  <1> QED
    BY <1>1, <1>2, <1>4 DEF Init, IInv, Nests

LEMMA NextIInv == IInv /\ [Next]_vars => IInv'
  <1> SUFFICES ASSUME IInv, [Next]_vars
               PROVE  IInv'
    OBVIOUS
  <1>1. CASE UNCHANGED vars
    <2>1. UNCHANGED <<listTypes, isList, insideTable, insidePre, open, nested, oddPre, lines, last>>
      BY <1>1 DEF vars, formatter, html
    <2>2. Inside(listTypes)' = Inside(listTypes)
      BY <2>1 DEF Inside
    <2>3. Around' = Around
      BY <2>1, <2>2 DEF Around, TableAround
    <2> QED
      BY <2>1, <2>3 DEF IInv, Nests, TableAround
  <1>2. CASE Next
    BY <1>2, ItemIInv, LineIInv, PreIInv, PageIInv DEF Next
  <1> QED
    BY <1>1, <1>2

LEMMA SpecIInv == Spec => []IInv
  <1>1. Init => IInv
    BY InitIInv
  <1>2. IInv /\ [Next]_vars => IInv'
    BY NextIInv
  <1> QED
    BY <1>1, <1>2, PTL DEF Spec

\* Every end tag closes the innermost element, whatever lists, tables and
\* preformatted parts follow one another (emitList, processTableLine), until the
\* page has a <pre> right below a table or on a line with its </pre>.
THEOREM TagsNest == Spec => []WellNested
  <1>1. IInv => WellNested
    BY DEF IInv, Nests, WellNested
  <1>2. Spec => []IInv
    BY SpecIInv
  <1> QED
    BY <1>1, <1>2, PTL

\* An item is inside as many lists as its indentation says, the innermost of its
\* own type, and the formatter's stack is that of the lists in the page.
THEOREM ItemsKeepTheirLevel == Spec => []ItemAtItsLevel
  <1>1. IInv => ItemAtItsLevel
    <2> SUFFICES ASSUME IInv
                 PROVE  ItemAtItsLevel
      OBVIOUS
    <2>1. /\ listTypes \in Seq(Lists) /\ Len(listTypes) \in Nat
          /\ Inside(listTypes) \in Seq(Elements)
          /\ Len(Inside(listTypes)) = 2 * Len(listTypes)
          /\ \A i \in 1..(2 * Len(listTypes)) :
                Inside(listTypes)[i] = IF i % 2 = 1 THEN listTypes[(i + 1) \div 2] ELSE "LI"
          /\ listTypes = << >> => Inside(listTypes) = << >>
      BY InsideProperties DEF IInv
    <2>2. CASE listTypes = << >>
      <3>1. TableAround \in {<< >>, <<"TABLE">>}
        BY DEF TableAround
      <3>2. \A i \in DOMAIN open : open[i] \notin Lists
        <4>1. open \in {<< >>, <<"TABLE">>, << >> \o <<"PRE">>, <<"TABLE">> \o <<"PRE">>}
          BY <2>1, <2>2, <3>1 DEF IInv, Around
        <4>2. << >> \o <<"PRE">> = <<"PRE">> /\ <<"TABLE">> \o <<"PRE">> = <<"TABLE", "PRE">>
          BY TableAndPre
        <4>3. open \in {<< >>, <<"TABLE">>, <<"PRE">>, <<"TABLE", "PRE">>}
          BY <4>1, <4>2
        <4> QED
          BY <4>3 DEF Lists
      <3>3. last.kind # "item"
        BY <2>2 DEF IInv
      <3> QED
        BY <2>2, <3>2, <3>3 DEF ItemAtItsLevel
    <2>3. CASE listTypes # << >>
      <3>1. open = Inside(listTypes)
        BY <2>3 DEF IInv, Around
      <3>2. ASSUME NEW k \in 1..Len(listTypes)
            PROVE  open[2 * k - 1] = listTypes[k] /\ open[2 * k] = "LI"
        <4>1. /\ 2 * k - 1 \in 1..(2 * Len(listTypes)) /\ (2 * k - 1) % 2 = 1
              /\ ((2 * k - 1) + 1) \div 2 = k
              /\ 2 * k \in 1..(2 * Len(listTypes)) /\ (2 * k) % 2 # 1
          BY <2>1
        <4> QED
          BY <2>1, <3>1, <4>1
      <3>3. Len(open) = 2 * Len(listTypes)
        BY <2>1, <3>1
      <3>4. last.kind = "item" => Len(open) = 2 * last.level /\ open[Len(open) - 1] = last.list
        <4> SUFFICES ASSUME last.kind = "item"
                     PROVE  Len(open) = 2 * last.level /\ open[Len(open) - 1] = last.list
          OBVIOUS
        <4>1. /\ Len(listTypes) \in 1..Len(listTypes) /\ Len(listTypes) = last.level
              /\ listTypes[Len(listTypes)] = last.list
          BY <2>1 DEF IInv
        <4> QED
          BY <3>2, <3>3, <4>1
      <3>5. DOMAIN listTypes = 1..Len(listTypes)
        BY <2>1
      <3> QED
        BY <2>3, <3>2, <3>3, <3>4, <3>5 DEF ItemAtItsLevel
    <2> QED
      BY <2>2, <2>3
  <1>2. Spec => []IInv
    BY SpecIInv
  <1> QED
    BY <1>1, <1>2, PTL

\* Text, blank lines and rows end the lists, and a page leaves nothing open
\* (formatWikiLine and the end of formatWikiPage).
THEOREM PagesClose == Spec => []NothingLeftOpen
  <1>1. IInv => NothingLeftOpen
    <2> SUFFICES ASSUME IInv, last.kind \in {"text", "blank", "row", "end"}
                 PROVE  open = IF last.kind = "row" THEN <<"TABLE">> ELSE << >>
      BY DEF NothingLeftOpen
    <2>1. listTypes = << >> /\ Inside(listTypes) = << >>
      BY InsideProperties DEF IInv
    <2>2. CASE last.kind = "row"
      BY <2>2 DEF IInv, Around, TableAround
    <2>3. CASE last.kind # "row"
      <3>1. last.kind = "end" \/ (~ insideTable /\ ~ insidePre)
        BY <2>3 DEF IInv
      <3> QED
        BY <2>1, <2>3, <3>1 DEF IInv, Around
    <2> QED
      BY <2>2, <2>3
  <1>2. Spec => []IInv
    BY SpecIInv
  <1> QED
    BY <1>1, <1>2, PTL
=============================================================================
