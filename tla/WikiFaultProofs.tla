-------------------------- MODULE WikiFaultProofs --------------------------
(***************************************************************************)
(* What the wiki server promises when everything goes wrong: kills, full   *)
(* disks, cut forms and other programs that write the files.  No theorem   *)
(* of this module assumes anything about Faults.                           *)
(***************************************************************************)
EXTENDS WikiServerProofs

\* A save has been opened and its file is not closed yet.
Saving == pc \in {"write", "close"}

\* The files a step may touch besides the one it opens, writes or closes: none.
LEMMA OtherSteps ==
    ASSUME TypeOK, [Next]_vars
    PROVE  \/ OpenSave \/ WriteSave \/ CloseSave \/ Editor \/ Kill
           \/ /\ UNCHANGED <<disk, saving, faults>>
              /\ Saving' <=> Saving
  <1> USE DEF Saving
  <1>1. CASE \/ Accept \/ AcceptFails \/ RecvHeader \/ RecvBody \/ RecvFails
             \/ Respond \/ Start
    BY <1>1 DEF Accept, AcceptFails, RecvHeader, RecvBody, RecvFails, Reply, Respond, Start,
                serverVars
  <1>2. CASE \/ View \/ Load \/ Edit \/ HeadRequest
             \/ RefuseForm \/ CancelEditing \/ RefuseSave
    BY <1>2 DEF View, Load, Edit, HeadRequest, RefuseForm, CancelEditing, RefuseSave,
                HandlingForm, Handling, LuaError, Reply, Redirect, Exists, IsSpecial
  <1>3. CASE FatalError
    BY <1>3 DEF FatalError, Exit, TypeOK
  <1>4. CASE \E c \in Clients : (\E r \in Requests : Connect(c, r)) \/ Send(c) \/ Abort(c)
    BY <1>4 DEF Connect, Send, Abort, serverVars
  <1>5. CASE UNCHANGED vars
    BY <1>5 DEF vars, serverVars
  <1> QED
    BY <1>1, <1>2, <1>3, <1>4, <1>5 DEF Next, ServerStep

\* A browser changes its own request only, and that when it has no connection.
LEMMA BrowserSteps ==
    ASSUME TypeOK, NEW c \in Clients,
           (\E r \in Requests : Connect(c, r)) \/ Send(c) \/ Abort(c)
    PROVE  /\ UNCHANGED <<disk, serverVars, faults>>
           /\ conn # None => req'[conn] = req[conn]
  <1>1. conn # None => conn \in Clients /\ req[conn] # None
    BY DEF TypeOK
  <1>2. \A d \in Clients : req[d] # None => req'[d] = req[d]
    BY DEF TypeOK, Connect, Send, Abort
  <1> QED
    BY <1>1, <1>2 DEF Connect, Send, Abort

-----------------------------------------------------------------------------
(* How many pages the faults damage *)

\* The files that neither hold a whole text nor are about to.
Cut == {p \in Names : disk[p] \notin Undamaged /\ ~ BeingSaved(p)}

\* A set grows by at most as much as the number that bounds it.
LEMMA AtMostOneMore ==
    ASSUME NEW S, NEW T, NEW x, NEW n \in Nat, IsFiniteSet(S), Cardinality(S) <= n
    PROVE  /\ T \subseteq S => IsFiniteSet(T) /\ Cardinality(T) <= n
           /\ T \subseteq S \cup {x} => IsFiniteSet(T) /\ Cardinality(T) <= n + 1
  <1>1. Cardinality(S) \in Nat
    BY FS_CardinalityType
  <1>2. IsFiniteSet(S \cup {x}) /\ Cardinality(S \cup {x}) <= n + 1
    BY <1>1, FS_AddElement
  <1>3. ASSUME T \subseteq S
        PROVE  IsFiniteSet(T) /\ Cardinality(T) <= n
    BY <1>1, <1>3, FS_Subset, FS_CardinalityType
  <1>4. ASSUME T \subseteq S \cup {x}
        PROVE  IsFiniteSet(T) /\ Cardinality(T) <= n + 1
    BY <1>2, <1>4, FS_Subset, FS_CardinalityType
  <1> QED
    BY <1>3, <1>4

\* What is being saved is a whole text.
LEMMA NextSavingWhole ==
    ASSUME TypeOK, SavingWhole, [Next]_vars
    PROVE  SavingWhole'
  <1>1. CASE OpenSave
    BY <1>1, OpenSaveProperties DEF SavingWhole
  <1>2. CASE WriteSave \/ CloseSave \/ Editor \/ Kill
    BY <1>2 DEF WriteSave, CloseSave, Redirect, Reply, Editor, Kill, Exit, serverVars, SavingWhole
  <1>3. CASE UNCHANGED <<disk, saving, faults>> /\ (Saving' <=> Saving)
    BY <1>3 DEF Saving, SavingWhole
  <1> QED
    BY <1>1, <1>2, <1>3, OtherSteps

\* A step damages no file, or it is a kill or a failed write and damages one.
LEMMA NextCut ==
    ASSUME TypeOK, SavingWhole, [Next]_vars
    PROVE  \/ Cut' \subseteq Cut /\ faults' = faults
           \/ faults' = faults + 1 /\ \E p \in Names : Cut' \subseteq Cut \cup {p}
           \/ Cut' \subseteq Cut /\ faults' = faults + 1
  <1>0. Undamaged' = Undamaged
    BY DEF Undamaged
  <1>1. CASE OpenSave
    <2>1. /\ saving'.page \in Names /\ disk' = [disk EXCEPT ![saving'.page] = Empty]
          /\ pc = "handle" /\ pc' = "write" /\ faults' = faults
      BY <1>1, OpenSaveProperties DEF OpenSave, HandlingForm, Handling
    <2> QED
      BY <1>0, <2>1 DEF Cut, BeingSaved, TypeOK
  <1>2. CASE WriteSave
    <2>1. /\ pc = "write" /\ pc' = "close" /\ UNCHANGED <<saving, faults>>
          /\ \A p \in Names : p # saving.page => disk'[p] = disk[p]
      BY <1>2 DEF WriteSave, TypeOK
    <2> QED
      BY <1>0, <2>1 DEF Cut, BeingSaved
  <1>3. CASE CloseSave
    <2>1. /\ pc = "close" /\ pc' = "reply" /\ saving \in Saves /\ saving.cells = TextCells
      BY <1>3 DEF CloseSave, Redirect, Reply, TypeOK, SavingWhole
    <2>2. saving.page \in Names /\ Part(saving.text, saving.cells) \in Undamaged
      BY <2>1 DEF Saves, Undamaged, Whole
    <2>3. \/ /\ disk' = [disk EXCEPT ![saving.page] = Part(saving.text, saving.cells)]
             /\ faults' = faults
          \/ disk' = disk /\ faults' = faults + 1
      BY <1>3 DEF CloseSave, Redirect
    <2>4. CASE /\ disk' = [disk EXCEPT ![saving.page] = Part(saving.text, saving.cells)]
               /\ faults' = faults
      BY <1>0, <2>1, <2>2, <2>4 DEF Cut, BeingSaved, TypeOK
    <2>5. CASE disk' = disk /\ faults' = faults + 1
      BY <1>0, <2>1, <2>2, <2>5 DEF Cut, BeingSaved
    <2> QED
      BY <2>3, <2>4, <2>5
  <1>4. CASE Editor
    <2>1. PICK p \in WikiWords \ Specials, content \in Undamaged :
            disk' = [disk EXCEPT ![p] = content]
      BY <1>4 DEF Editor
    <2>2. UNCHANGED <<pc, saving, faults>>
      BY <1>4 DEF Editor, serverVars
    <2> QED
      BY <1>0, <2>1, <2>2 DEF Cut, BeingSaved, TypeOK
  <1>5. CASE Kill
    <2>1. disk' = disk /\ faults' = faults + 1 /\ pc' = "down"
      BY <1>5 DEF Kill, Exit
    <2>2. CASE Saving
      <3>1. saving.page \in Names
        BY <2>2 DEF Saving, TypeOK, Saves
      <3> QED
        BY <1>0, <2>1, <3>1 DEF Cut, BeingSaved
    <2>3. CASE ~ Saving
      BY <1>0, <2>1, <2>3 DEF Cut, BeingSaved, Saving
    <2> QED
      BY <2>2, <2>3
  <1>6. CASE UNCHANGED <<disk, saving, faults>> /\ (Saving' <=> Saving)
    BY <1>0, <1>6 DEF Cut, BeingSaved, Saving
  <1> QED
    BY <1>1, <1>2, <1>3, <1>4, <1>5, <1>6, OtherSteps

FewCut == IsFiniteSet(Cut) /\ Cardinality(Cut) <= faults

\* However the forms are cut and whatever happens to the process, k kills and
\* failed writes damage at most k pages, for any number of pages: savePage opens
\* one file at a time and what it writes is a whole text (doSaveAfterEditing,
\* savePage).
THEOREM DamageIsBounded == Spec => []DamageBounded
  <1>1. Init => SavingWhole /\ FewCut
    <2> SUFFICES ASSUME Init PROVE SavingWhole /\ FewCut
      OBVIOUS
    <2>1. Cut = {} /\ faults = 0 /\ pc = "accept"
      BY DEF Init, Cut
    <2> QED
      BY <2>1, FS_EmptySet DEF FewCut, SavingWhole
  <1>2. TypeOK /\ SavingWhole /\ FewCut /\ [Next]_vars => SavingWhole' /\ FewCut'
    <2> SUFFICES ASSUME TypeOK, SavingWhole, FewCut, [Next]_vars
                 PROVE  FewCut'
      BY NextSavingWhole
    <2>1. faults \in Nat
      BY WikiServerAssumption DEF TypeOK
    <2>2. CASE Cut' \subseteq Cut /\ faults' = faults
      BY <2>1, <2>2, AtMostOneMore DEF FewCut
    <2>3. CASE faults' = faults + 1 /\ \E p \in Names : Cut' \subseteq Cut \cup {p}
      <3> PICK p \in Names : Cut' \subseteq Cut \cup {p}
        BY <2>3
      <3> QED
        BY <2>1, <2>3, AtMostOneMore DEF FewCut
    <2>4. CASE Cut' \subseteq Cut /\ faults' = faults + 1
      BY <2>1, <2>4, AtMostOneMore DEF FewCut
    <2> QED
      BY <2>2, <2>3, <2>4, NextCut
  <1>3. FewCut => DamageBounded
    BY DEF FewCut, Cut, DamageBounded
  <1> QED
    BY <1>1, <1>2, <1>3, TypeCorrect, PTL DEF Spec

-----------------------------------------------------------------------------
(* What ends the process *)

\* A page is loaded for a view, and it was there when topicExists looked.
LoadsExisting ==
    pc = "load" => /\ req[conn].op = "View"
                   /\ Exists(req[conn].page) \/ "editor" \in Faults

\* Only the two tests of the file of a page can disagree.
LEMMA NextErrors ==
    ASSUME TypeOK, OnlyKnownErrors, LoadsExisting, [Next]_vars
    PROVE  OnlyKnownErrors' /\ LoadsExisting'
  <1>1. CASE \E c \in Clients : (\E r \in Requests : Connect(c, r)) \/ Send(c) \/ Abort(c)
    <2>1. /\ UNCHANGED <<disk, serverVars>>
          /\ conn # None => req'[conn] = req[conn]
      BY <1>1, BrowserSteps
    <2>2. pc \in {"load", "error"} => conn # None
      BY DEF TypeOK
    <2> QED
      BY <2>1, <2>2
      DEF serverVars, OnlyKnownErrors, LoadsExisting, Has, Body, NameCell, Exists
  <1>2. CASE View
    BY <1>2 DEF View, Reply, Handling, clientVars, Exists, OnlyKnownErrors, LoadsExisting
  <1>3. CASE Load
    BY <1>3 DEF Load, Reply, LuaError, clientVars, Exists, OnlyKnownErrors, LoadsExisting
  <1>4. CASE HeadRequest \/ RefuseForm \/ CancelEditing
    BY <1>4 DEF HeadRequest, RefuseForm, CancelEditing, HandlingForm, Handling, LuaError,
                Reply, Redirect, clientVars, OnlyKnownErrors, LoadsExisting, Has, Body, NameCell
  <1>5. CASE \/ Accept \/ AcceptFails \/ RecvHeader \/ RecvBody \/ RecvFails \/ Edit
             \/ RefuseSave \/ OpenSave \/ WriteSave \/ CloseSave \/ Respond \/ FatalError \/ Kill \/ Start
    <2>1. pc' \notin {"load", "error"}
      BY <1>5 DEF Accept, AcceptFails, RecvHeader, RecvBody, RecvFails, Edit, RefuseSave,
                  OpenSave, WriteSave, CloseSave, Respond, FatalError, Kill, Start, Exit,
                  Reply, Redirect, serverVars
    <2> QED
      BY <2>1 DEF OnlyKnownErrors, LoadsExisting
  <1>6. CASE Editor
    BY <1>6 DEF Editor, serverVars, clientVars, OnlyKnownErrors, LoadsExisting, Has, Body, NameCell
  <1>7. CASE UNCHANGED vars
    BY <1>7 DEF vars, serverVars, clientVars, OnlyKnownErrors, LoadsExisting, Has, Body,
                NameCell, Exists
  <1> QED
    BY <1>1, <1>2, <1>3, <1>4, <1>5, <1>6, <1>7 DEF Next, ServerStep

\* Whatever browsers send and wherever their forms are cut, a script error is one
\* of the four known ones: no save ends the process (handleRequest, doCall).
THEOREM ErrorsAreKnown == Spec => []OnlyKnownErrors
  <1>1. Init => OnlyKnownErrors /\ LoadsExisting
    BY DEF Init, OnlyKnownErrors, LoadsExisting
  <1>2. TypeOK /\ OnlyKnownErrors /\ LoadsExisting /\ [Next]_vars
            => OnlyKnownErrors' /\ LoadsExisting'
    BY NextErrors
  <1> QED
    BY <1>1, <1>2, TypeCorrect, PTL DEF Spec

-----------------------------------------------------------------------------
(* Which files the process writes *)

\* The file that is open is the one the form names, as far as its title arrived.
SavesTitle ==
    Saving => /\ req[conn].op \in SaveOps
              /\ Has("page")
              /\ saving.page = SavedTitle(req[conn])

\* A title that is not whole is in a form that is not whole.
LEMMA CutTitles ==
    ASSUME TypeOK, conn \in Clients, req[conn] \in Requests,
           req[conn].op \in SaveOps, Has("page")
    PROVE  \/ SavedTitle(req[conn]) = req[conn].page
           \/ /\ taken < Cells(req[conn])
              /\ SavedTitle(req[conn]) \in {EmptyName, CutTitle[req[conn].page]}
  <1>1. Cells(req[conn]) = HeaderCells + TextCells + 6
    BY WikiServerAssumption DEF Cells, BodyCells, FormOps, SaveOps
  <1>2. ValueCells("page") = taken - HeaderCells - (TextCells + 4)
    BY CellProperties, WikiServerAssumption DEF ValueCells, Body, TypeOK
  <1>3. ValueCells("page") \in {0, 1} => taken < Cells(req[conn])
    BY <1>1, <1>2, CellProperties, WikiServerAssumption DEF TypeOK
  <1> QED
    BY <1>3 DEF SavedTitle

\* Between its opening and its closing a save keeps its file and its form.
LEMMA NextSavesTitle ==
    ASSUME TypeOK, SavesTitle, [Next]_vars
    PROVE  SavesTitle'
  <1> USE DEF Saving
  <1>1. CASE \E c \in Clients : (\E r \in Requests : Connect(c, r)) \/ Send(c) \/ Abort(c)
    <2>1. /\ UNCHANGED serverVars
          /\ conn # None => req'[conn] = req[conn]
      BY <1>1, BrowserSteps
    <2>2. Saving => conn # None
      BY DEF TypeOK
    <2> QED
      BY <2>1, <2>2 DEF serverVars, SavesTitle, SavedTitle, Has, ValueCells, Body, NameCell
  <1>2. CASE OpenSave
    <2>1. UNCHANGED <<conn, taken, req>> /\ Has("page") /\ req[conn].op \in SaveOps
      BY <1>2 DEF OpenSave, HandlingForm, Handling, clientVars
    <2>2. saving'.page = SavedTitle(req[conn])
      BY <1>2 DEF OpenSave
    <2> QED
      BY <2>1, <2>2 DEF SavesTitle, SavedTitle, Has, ValueCells, Body, NameCell
  <1>3. CASE WriteSave \/ Editor \/ UNCHANGED vars
    <2>1. UNCHANGED <<conn, taken, req, saving>> /\ (Saving' <=> Saving)
      BY <1>3 DEF WriteSave, Editor, vars, serverVars, clientVars
    <2> QED
      BY <2>1 DEF SavesTitle, SavedTitle, Has, ValueCells, Body, NameCell
  <1>4. CASE CloseSave \/ Kill
    BY <1>4 DEF CloseSave, Kill, Exit, Reply, Redirect, SavesTitle
  <1>5. CASE \/ Accept \/ AcceptFails \/ RecvHeader \/ RecvBody \/ RecvFails
             \/ Respond \/ Start \/ FatalError
             \/ View \/ Load \/ Edit \/ HeadRequest \/ RefuseForm \/ CancelEditing \/ RefuseSave
    <2>1. ~ Saving'
      BY <1>5 DEF Accept, AcceptFails, RecvHeader, RecvBody, RecvFails, Respond, Start,
                  FatalError, Exit, serverVars, View, Load, Edit, HeadRequest, RefuseForm, CancelEditing, RefuseSave,
                  Reply, LuaError, Redirect
    <2> QED
      BY <2>1 DEF SavesTitle
  <1> QED
    BY <1>1, <1>2, <1>3, <1>4, <1>5 DEF Next, ServerStep

\* A form of a browser that waits lets the process write the file of p.
Named(p) ==
    \E c \in Clients :
      /\ req[c] # None
      /\ req[c].op \in SaveOps
      /\ \/ p = req[c].page
         \/ /\ c = conn
            /\ taken < Cells(req[c])
            /\ p \in {EmptyName, CutTitle[req[c].page]}

\* The three steps of a save write the file its form names.
LEMMA SaveWritesNamed ==
    ASSUME TypeOK, SavesTitle, OpenSave \/ WriteSave \/ CloseSave
    PROVE  \A p \in Names : disk'[p] # disk[p] => Named(p)
  <1>1. conn \in Clients /\ req[conn] \in Requests
    BY DEF OpenSave, WriteSave, CloseSave, HandlingForm, Handling, TypeOK
  <1>2. req[conn].op \in SaveOps /\ Has("page")
    BY DEF OpenSave, WriteSave, CloseSave, HandlingForm, Handling, SavesTitle, Saving
  <1>3. \A p \in Names : disk'[p] # disk[p] => p = SavedTitle(req[conn])
    <2>1. CASE OpenSave
      BY <2>1 DEF OpenSave, TypeOK
    <2>2. CASE WriteSave
      BY <2>2 DEF WriteSave, TypeOK, SavesTitle, Saving
    <2>3. CASE CloseSave
      BY <2>3 DEF CloseSave, TypeOK, SavesTitle, Saving
    <2> QED
      BY <2>1, <2>2, <2>3
  <1>4. Named(SavedTitle(req[conn]))
    <2>1. req[conn] # None
      BY <1>1, NoneAssumption
    <2> QED
      BY <1>1, <1>2, <2>1, CutTitles DEF Named
  <1> QED
    BY <1>3, <1>4

\* Whatever is cut and whatever is killed, the process writes no file but that of
\* the page a waiting form names, or of what has arrived of its title
\* (doSaveAfterEditing, savePage).
THEOREM OnlyNamedPages == Spec => OnlyNamedPageChanges
  <1>1. Init => SavesTitle
    BY DEF Init, SavesTitle, Saving
  <1>2. TypeOK /\ SavesTitle /\ [Next]_vars => SavesTitle'
    BY NextSavesTitle
  <1>3. TypeOK /\ SavesTitle /\ [Next]_vars
            => [\/ UNCHANGED serverVars
                \/ \A p \in Names : disk'[p] # disk[p] => Named(p)]_vars
    <2> SUFFICES ASSUME TypeOK, SavesTitle, [Next]_vars
                 PROVE  \/ UNCHANGED serverVars
                        \/ \A p \in Names : disk'[p] # disk[p] => Named(p)
      OBVIOUS
    <2>1. CASE OpenSave \/ WriteSave \/ CloseSave
      BY <2>1, SaveWritesNamed
    <2>2. CASE Editor
      BY <2>2 DEF Editor
    <2>3. CASE Kill
      BY <2>3 DEF Kill, Exit
    <2>4. CASE disk' = disk
      BY <2>4
    <2> QED
      BY <2>1, <2>2, <2>3, <2>4, OtherSteps
  <1> QED
    BY <1>1, <1>2, <1>3, TypeCorrect, PTL DEF Spec, OnlyNamedPageChanges, Named
=============================================================================
