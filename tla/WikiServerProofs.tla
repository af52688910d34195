------------------------- MODULE WikiServerProofs -------------------------
(***************************************************************************)
(* Proofs about the wiki server, for any number of browsers, pages and     *)
(* texts: see WikiServer.                                                  *)
(***************************************************************************)
EXTENDS WikiServer, FiniteSetTheorems, SequenceTheorems, TLAPS

\* The queue of the listening socket and the accepted connection share out the
\* clients that have a request.
Queued ==
    /\ \A i \in DOMAIN backlog : req[backlog[i]] # None /\ backlog[i] # conn
    /\ \A i, j \in DOMAIN backlog : backlog[i] = backlog[j] => i = j
    /\ \A c \in Clients : req[c] # None /\ c # conn =>
          \E i \in DOMAIN backlog : backlog[i] = c

IInv == TypeOK /\ Queued

-----------------------------------------------------------------------------

\* The cells of a form are numbered from 1, and the text before the title.
LEMMA CellProperties ==
    /\ NameCell("action") = 1
    /\ NameCell("text") = 3
    /\ NameCell("page") = TextCells + 4
    /\ BodyCells \in Nat
    /\ \A r \in Requests : Cells(r) \in 0..(HeaderCells + BodyCells)
  BY WikiServerAssumption DEF NameCell, BodyCells, Cells

\* A file is empty or holds a part of a text.
LEMMA PartIsContent ==
    ASSUME NEW t \in Texts, NEW n \in 0..TextCells
    PROVE  Part(t, n) \in Contents
  BY WikiServerAssumption DEF Part, Contents

\* What a save opens is a file of the wiki, a text and a count of its cells.
LEMMA OpenSaveProperties ==
    ASSUME TypeOK, OpenSave
    PROVE  /\ saving' \in Saves
           /\ saving'.cells = TextCells
           /\ saving'.page \in Names
           /\ disk' = [disk EXCEPT ![saving'.page] = Empty]
  <1>1. conn \in Clients /\ req[conn] \in Requests /\ req[conn].op \in SaveOps
    BY DEF OpenSave, HandlingForm, Handling, TypeOK
  <1>2. req[conn].text \in Texts /\ req[conn].page \in WikiWords
    BY <1>1 DEF Requests
  <1>3. SavedTitle(req[conn]) \in Names
    BY <1>2, WikiServerAssumption DEF SavedTitle
  <1>4. Body >= TextCells + 4 /\ Body \in Int
    BY CellProperties, WikiServerAssumption DEF OpenSave, Has, TypeOK, Body
  <1>5. SavedCells = TextCells
    BY <1>4, CellProperties, WikiServerAssumption DEF SavedCells, ValueCells
  <1>6. disk[SavedTitle(req[conn])] \in Contents
    BY <1>3 DEF TypeOK
  <1>7. TextCells \in 0..TextCells
    BY WikiServerAssumption
  <1> DEFINE s == [page |-> SavedTitle(req[conn]), text |-> req[conn].text,
                   cells |-> SavedCells, old |-> disk[SavedTitle(req[conn])]]
  <1>8. saving' = s /\ disk' = [disk EXCEPT ![SavedTitle(req[conn])] = Empty]
    BY DEF OpenSave
  <1>9. s \in Saves
    BY <1>2, <1>3, <1>5, <1>6, <1>7 DEF Saves
  <1> QED
    BY <1>3, <1>5, <1>8, <1>9

-----------------------------------------------------------------------------
(* Types and the queue *)

\* The initial states are typed and no browser is connected.
LEMMA InitIInv == Init => IInv
  <1> SUFFICES ASSUME Init PROVE IInv
    OBVIOUS
  <1>1. Undamaged \subseteq Contents
    BY PartIsContent, WikiServerAssumption DEF Undamaged, Whole, Contents
  <1>2. TypeOK
    BY <1>1, WikiServerAssumption, NoneAssumption, CellProperties DEF Init, TypeOK
  <1>3. Queued
    BY DEF Init, Queued
  <1> QED
    BY <1>2, <1>3 DEF IInv

\* A browser connects, sends or goes away.
LEMMA BrowserIInv ==
    ASSUME IInv, NEW c \in Clients,
           (\E r \in Requests : Connect(c, r)) \/ Send(c) \/ Abort(c)
    PROVE  IInv'
  <1>1. CASE \E r \in Requests : Connect(c, r)
    <2> PICK r \in Requests : Connect(c, r)
      BY <1>1
    <2>1. conn # c
      <3>1. req[c] = None /\ c # None
        BY NoneAssumption DEF Connect
      <3>2. conn # None => req[conn] # None
        BY DEF IInv, TypeOK
      <3> QED
        BY <3>1, <3>2
    <2>2. backlog' = Append(backlog, c) /\ backlog' \in Seq(Clients)
      BY DEF IInv, TypeOK, Connect
    <2>3. /\ DOMAIN backlog' = 1..(Len(backlog) + 1)
          /\ DOMAIN backlog = 1..Len(backlog)
          /\ Len(backlog) \in Nat
          /\ \A i \in 1..Len(backlog) : backlog'[i] = backlog[i]
          /\ backlog'[Len(backlog) + 1] = c
      BY <2>2 DEF IInv, TypeOK
    <2>4. /\ req' = [req EXCEPT ![c] = r]
          /\ r # None
          /\ req[c] = None
          /\ req \in [Clients -> Requests \cup {None}]
      BY NoneAssumption DEF Connect, IInv, TypeOK
    <2>5. TypeOK'
      BY <2>1, <2>2, <2>4, CellProperties, WikiServerAssumption
      DEF Connect, IInv, TypeOK, serverVars
    <2>6. Queued'
      <3> conn' = conn
        BY DEF Connect, serverVars
      <3> USE DEF IInv, Queued
      <3>1. \A i \in DOMAIN backlog : backlog[i] # c
        BY <2>4
      <3>2. (\A i \in DOMAIN backlog : req[backlog[i]] # None /\ backlog[i] # conn)'
        BY <2>1, <2>2, <2>3, <2>4, <3>1 DEF TypeOK
      <3>3. (\A i, j \in DOMAIN backlog : backlog[i] = backlog[j] => i = j)'
        BY <2>3, <3>1
      <3>4. ASSUME NEW d \in Clients, req'[d] # None /\ d # conn
            PROVE  \E i \in DOMAIN backlog' : backlog'[i] = d
        <4>1. CASE d = c
          BY <2>3, <4>1
        <4>2. CASE d # c
          BY <2>3, <2>4, <3>4, <4>2
        <4> QED
          BY <4>1, <4>2
      <3> QED
        BY <3>2, <3>3, <3>4
    <2> QED
      BY <2>5, <2>6 DEF IInv
  <1>2. CASE Send(c)
    <2>1. req[c] \in Requests
      BY <1>2 DEF Send, IInv, TypeOK
    <2>2. sent' \in [Clients -> 0..(HeaderCells + BodyCells)]
      BY <1>2, <2>1, CellProperties, WikiServerAssumption DEF Send, IInv, TypeOK
    <2> QED
      BY <1>2, <2>2 DEF Send, IInv, TypeOK, Queued, serverVars
  <1>3. CASE Abort(c)
    BY <1>3 DEF Abort, IInv, TypeOK, Queued, serverVars
  <1> QED
    BY <1>1, <1>2, <1>3

\* The process takes the first connection of the queue.
LEMMA AcceptIInv == IInv /\ Accept => IInv'
  <1> SUFFICES ASSUME IInv, Accept PROVE IInv'
    OBVIOUS
  <1>1. backlog \in Seq(Clients) /\ backlog # << >>
    BY DEF IInv, TypeOK, Accept
  <1>2. /\ Len(backlog) \in Nat \ {0}
        /\ DOMAIN backlog = 1..Len(backlog)
        /\ conn' = backlog[1]
        /\ backlog' \in Seq(Clients)
        /\ DOMAIN backlog' = 1..(Len(backlog) - 1)
        /\ \A i \in 1..(Len(backlog) - 1) : backlog'[i] = backlog[i + 1]
    BY <1>1 DEF Accept
  <1>3. conn' \in Clients /\ conn' # None /\ req[conn'] # None
    BY <1>1, <1>2, NoneAssumption DEF IInv, Queued
  <1>4. TypeOK'
    BY <1>2, <1>3, CellProperties, WikiServerAssumption
    DEF Accept, IInv, TypeOK, clientVars
  <1>5. Queued'
    <2> conn = None /\ req' = req
      BY DEF Accept, IInv, TypeOK, clientVars
    <2> USE DEF IInv, Queued
    <2>1. (\A i \in DOMAIN backlog : req[backlog[i]] # None /\ backlog[i] # conn)'
      BY <1>2
    <2>2. ASSUME NEW i \in DOMAIN backlog', NEW j \in DOMAIN backlog',
                 backlog'[i] = backlog'[j]
          PROVE  i = j
      <3>1. i + 1 \in DOMAIN backlog /\ j + 1 \in DOMAIN backlog
        BY <1>2
      <3>2. backlog[i + 1] = backlog[j + 1]
        BY <1>2, <2>2
      <3>3. i + 1 = j + 1
        BY <3>1, <3>2
      <3> QED
        BY <1>2, <3>3
    <2>3. ASSUME NEW d \in Clients, req[d] # None, d # conn'
          PROVE  \E i \in DOMAIN backlog' : backlog'[i] = d
      <3> PICK i \in DOMAIN backlog : backlog[i] = d
        BY <2>3, NoneAssumption
      <3>1. i # 1 /\ i - 1 \in DOMAIN backlog'
        BY <1>2, <2>3
      <3> QED
        BY <1>2, <3>1
    <2> QED
      BY <2>1, <2>2, <2>3
  <1> QED
    BY <1>4, <1>5 DEF IInv

\* The first connection of the queue is closed unanswered.
LEMMA AcceptFailsIInv == IInv /\ AcceptFails => IInv'
  <1> SUFFICES ASSUME IInv, AcceptFails PROVE IInv'
    OBVIOUS
  <1>1. backlog \in Seq(Clients) /\ backlog # << >>
    BY DEF IInv, TypeOK, AcceptFails
  <1>2. /\ Len(backlog) \in Nat \ {0}
        /\ DOMAIN backlog = 1..Len(backlog)
        /\ backlog[1] \in Clients
        /\ backlog' \in Seq(Clients)
        /\ DOMAIN backlog' = 1..(Len(backlog) - 1)
        /\ \A i \in 1..(Len(backlog) - 1) : backlog'[i] = backlog[i + 1]
    BY <1>1 DEF AcceptFails
  <1>3. /\ conn = None /\ conn' = None
        /\ req' = [req EXCEPT ![backlog[1]] = None]
        /\ req \in [Clients -> Requests \cup {None}]
    BY <1>1 DEF AcceptFails, IInv, TypeOK, serverVars
  <1>4. TypeOK'
    BY <1>2, <1>3 DEF AcceptFails, IInv, TypeOK, serverVars
  <1>5. Queued'
    <2> USE DEF IInv, Queued
    <2>1. \A i \in DOMAIN backlog' : i + 1 \in DOMAIN backlog /\ i + 1 # 1
      BY <1>2
    <2>2. \A i \in DOMAIN backlog' : backlog'[i] \in Clients /\ backlog'[i] # backlog[1]
      BY <1>2, <2>1
    <2>3. (\A i \in DOMAIN backlog : req[backlog[i]] # None /\ backlog[i] # conn)'
      BY <1>2, <1>3, <2>1, <2>2, NoneAssumption
    <2>4. ASSUME NEW i \in DOMAIN backlog', NEW j \in DOMAIN backlog',
                 backlog'[i] = backlog'[j]
          PROVE  i = j
      <3>1. i + 1 = j + 1
        BY <1>2, <2>1, <2>4
      <3> QED
        BY <1>2, <3>1
    <2>5. ASSUME NEW d \in Clients, req'[d] # None
          PROVE  \E i \in DOMAIN backlog' : backlog'[i] = d
      <3>1. d # backlog[1] /\ req[d] # None /\ d # conn
        BY <1>3, <2>5, NoneAssumption
      <3> PICK i \in DOMAIN backlog : backlog[i] = d
        BY <3>1
      <3>2. i # 1 /\ i - 1 \in DOMAIN backlog'
        BY <1>2, <3>1
      <3> QED
        BY <1>2, <3>2
    <2> QED
      BY <2>3, <2>4, <2>5
  <1> QED
    BY <1>4, <1>5 DEF IInv

\* The steps that leave the queue and the requests as they are.
SameConnections == UNCHANGED <<conn, backlog, req>>

LEMMA QueuedUnchanged ==
    ASSUME IInv, SameConnections
    PROVE  Queued'
  BY DEF IInv, Queued, SameConnections

\* The process reads the request.
LEMMA ReadIInv == IInv /\ (RecvHeader \/ RecvBody \/ RecvFails) => IInv'
  <1> SUFFICES ASSUME IInv, RecvHeader \/ RecvBody \/ RecvFails PROVE IInv'
    OBVIOUS
  <1> USE DEF IInv, TypeOK, clientVars
  <1>1. conn \in Clients
    BY DEF RecvHeader, RecvBody, RecvFails
  <1>2. sent[conn] \in 0..(HeaderCells + BodyCells)
    BY <1>1
  <1>3. /\ HeaderCells \in Nat /\ BodyCells \in Nat /\ taken \in Nat
        /\ sent[conn] \in Nat
        /\ Cells(req[conn]) \in Int
    BY <1>1, <1>2, CellProperties, WikiServerAssumption DEF RecvHeader, RecvBody, RecvFails
  <1>4. CASE RecvHeader
    <2>1. PICK n \in (taken + 1)..sent[conn] :
            /\ taken' = n
            /\ pc' = IF n < HeaderCells THEN "header"
                     ELSE IF n < Cells(req[conn]) THEN "body" ELSE "handle"
      BY <1>4 DEF RecvHeader
    <2>2. taken' \in 0..(HeaderCells + BodyCells)
      BY <1>2, <1>3, <2>1
    <2>3. pc' \in {"header", "body", "handle"} /\ (pc' # "header" => taken' >= HeaderCells)
      BY <1>3, <2>1
    <2> QED
      BY <1>4, <2>2, <2>3, QueuedUnchanged DEF RecvHeader, SameConnections
  <1>5. CASE RecvBody
    <2>1. taken' \in 0..(HeaderCells + BodyCells) /\ taken' >= HeaderCells
      BY <1>2, <1>3, <1>5 DEF RecvBody
    <2> QED
      BY <1>5, <2>1, QueuedUnchanged DEF RecvBody, SameConnections
  <1>6. CASE RecvFails
    BY <1>6, QueuedUnchanged, NoneAssumption DEF RecvFails, Reply, Responses, SameConnections
  <1> QED
    BY <1>4, <1>5, <1>6

\* The process handles the request without touching a file.
LEMMA HandleIInv ==
    ASSUME IInv,
           \/ View \/ Load \/ Edit \/ HeadRequest
           \/ RefuseForm \/ CancelEditing \/ RefuseSave
    PROVE  IInv'
  <1>1. /\ SameConnections
        /\ UNCHANGED <<disk, taken, saving, sent, closed, faults>>
        /\ pc \in {"handle", "load"}
    BY DEF View, Load, Edit, HeadRequest, RefuseForm, CancelEditing, RefuseSave,
           HandlingForm, Handling, clientVars, SameConnections, Exists, IsSpecial, Redirect
  <1>2. conn \in Clients /\ req[conn] \in Requests
    BY <1>1 DEF IInv, TypeOK
  <1>3. disk[req[conn].page] \in Contents
    BY <1>2, WikiServerAssumption DEF IInv, TypeOK, Requests
  <1>4. Absent \in Contents
    BY DEF Contents
  <1>5. \/ pc' = "load" /\ response' = response
        \/ pc' = "error" /\ response' = response
        \/ pc' = "reply" /\ response' \in Responses
    <2>1. CASE View
      BY <1>4, <2>1 DEF View, Reply, Responses, Exists, IsSpecial
    <2>2. CASE Load
      BY <1>3, <2>2 DEF Load, LuaError, Reply, Responses, Exists, IsSpecial
    <2>3. CASE Edit
      BY <1>3, <2>3 DEF Edit, Reply, Responses
    <2>4. CASE HeadRequest
      BY <2>4 DEF HeadRequest, LuaError
    <2>5. CASE RefuseForm
      BY <2>5 DEF RefuseForm, LuaError, Reply, Responses
    <2>6. CASE CancelEditing
      BY <2>6 DEF CancelEditing, LuaError, Reply, Responses, Redirect
    <2>7. CASE RefuseSave
      BY <2>7 DEF RefuseSave, Reply, Responses
    <2> QED
      BY <2>1, <2>2, <2>3, <2>4, <2>5, <2>6, <2>7
  <1>6. saving = None /\ response = None /\ taken >= HeaderCells
    BY <1>1 DEF IInv, TypeOK
  <1>7. TypeOK'
    BY <1>1, <1>5, <1>6 DEF IInv, TypeOK, SameConnections
  <1> QED
    BY <1>1, <1>7, QueuedUnchanged DEF IInv

\* The process saves a page.
LEMMA SaveIInv ==
    ASSUME IInv, OpenSave \/ WriteSave \/ CloseSave
    PROVE  IInv'
  <1>1. SameConnections /\ UNCHANGED <<taken, sent, closed>>
    BY DEF OpenSave, WriteSave, CloseSave, clientVars, SameConnections, Redirect
  <1>2. Queued'
    BY <1>1, QueuedUnchanged
  <1>3. CASE OpenSave
    <2>1. /\ saving' \in Saves
          /\ saving'.page \in Names
          /\ disk' = [disk EXCEPT ![saving'.page] = Empty]
      BY <1>3, OpenSaveProperties DEF IInv
    <2>2. disk' \in [Names -> Contents]
      BY <2>1 DEF IInv, TypeOK, Contents
    <2>3. /\ pc = "handle" /\ pc' = "write"
          /\ UNCHANGED <<response, faults>>
      BY <1>3 DEF OpenSave, HandlingForm, Handling
    <2> QED
      BY <1>1, <1>2, <2>1, <2>2, <2>3 DEF IInv, TypeOK, SameConnections
  <1>4. CASE WriteSave
    <2>1. /\ pc = "write" /\ pc' = "close"
          /\ UNCHANGED <<saving, response, faults>>
          /\ \E n \in 0..saving.cells :
               disk' = [disk EXCEPT ![saving.page] = Part(saving.text, n)]
      BY <1>4 DEF WriteSave
    <2>2. saving \in Saves
      BY <2>1 DEF IInv, TypeOK
    <2>3. saving.page \in Names /\ saving.text \in Texts /\ saving.cells \in 0..TextCells
      BY <2>2 DEF Saves
    <2>4. PICK n \in 0..saving.cells :
            disk' = [disk EXCEPT ![saving.page] = Part(saving.text, n)]
      BY <2>1
    <2>5. n \in 0..TextCells
      BY <2>3, <2>4, WikiServerAssumption
    <2>6. disk' \in [Names -> Contents]
      BY <2>3, <2>4, <2>5, PartIsContent DEF IInv, TypeOK
    <2> QED
      BY <1>1, <1>2, <2>1, <2>2, <2>6 DEF IInv, TypeOK, SameConnections
  <1>5. CASE CloseSave
    <2>1. /\ pc = "close" /\ pc' = "reply" /\ saving' = None
          /\ response' = [status |-> 303, shows |-> None]
      BY <1>5 DEF CloseSave, Reply, Redirect
    <2>2. saving \in Saves
      BY <2>1 DEF IInv, TypeOK
    <2>3. Part(saving.text, saving.cells) \in Contents
      BY <2>2, PartIsContent DEF Saves
    <2>4. disk' \in [Names -> Contents]
      BY <1>5, <2>3 DEF CloseSave, IInv, TypeOK, Redirect
    <2>6. faults' \in 0..MaxFaults
      <3> faults \in Nat /\ MaxFaults \in Nat /\ faults <= MaxFaults
        BY WikiServerAssumption DEF IInv, TypeOK
      <3> QED
        BY <1>5 DEF CloseSave, Redirect
    <2>5. response' \in Responses
      BY <2>1 DEF Responses
    <2> QED
      BY <1>1, <1>2, <2>1, <2>4, <2>5, <2>6 DEF IInv, TypeOK, SameConnections
  <1> QED
    BY <1>3, <1>4, <1>5

\* The connection is closed and the process takes the next one.
LEMMA RespondIInv == IInv /\ Respond => IInv'
  <1> SUFFICES ASSUME IInv, Respond PROVE IInv'
    OBVIOUS
  <1>1. conn \in Clients
    BY DEF Respond, IInv, TypeOK
  <1>2. /\ req' = [req EXCEPT ![conn] = None]
        /\ req \in [Clients -> Requests \cup {None}]
        /\ backlog' = backlog
        /\ backlog \in Seq(Clients)
        /\ conn' = None
    BY DEF Respond, IInv, TypeOK
  <1>3. TypeOK'
    BY <1>1, <1>2, CellProperties, WikiServerAssumption DEF Respond, IInv, TypeOK
  <1>4. Queued'
    BY <1>1, <1>2, NoneAssumption DEF IInv, Queued
  <1> QED
    BY <1>3, <1>4 DEF IInv

\* The process ends, is started, or another program writes a file.
LEMMA ProcessIInv == IInv /\ (FatalError \/ Kill \/ Start \/ Editor) => IInv'
  <1> SUFFICES ASSUME IInv, FatalError \/ Kill \/ Start \/ Editor PROVE IInv'
    OBVIOUS
  <1>1. CASE FatalError \/ Kill
    <2>1. Exit
      BY <1>1 DEF FatalError, Kill
    <2>2. faults' \in 0..MaxFaults
      <3> faults \in Nat /\ MaxFaults \in Nat /\ faults <= MaxFaults
        BY WikiServerAssumption DEF IInv, TypeOK
      <3> QED
        BY <1>1 DEF FatalError, Kill
    <2>3. TypeOK'
      BY <2>1, <2>2, CellProperties, WikiServerAssumption DEF Exit, IInv, TypeOK
    <2>4. Queued'
      BY <2>1 DEF Exit, Queued
    <2> QED
      BY <2>3, <2>4 DEF IInv
  <1>2. CASE Start
    BY <1>2, QueuedUnchanged DEF Start, clientVars, SameConnections, IInv, TypeOK
  <1>3. CASE Editor
    <2>1. Undamaged \subseteq Contents
      BY PartIsContent, WikiServerAssumption DEF Undamaged, Whole, Contents
    <2>2. disk' \in [Names -> Contents]
      BY <1>3, <2>1, WikiServerAssumption DEF Editor, IInv, TypeOK
    <2> QED
      BY <1>3, <2>2, QueuedUnchanged
      DEF Editor, serverVars, clientVars, SameConnections, IInv, TypeOK
  <1> QED
    BY <1>1, <1>2, <1>3

\* No step breaks the types or loses a connection.
LEMMA NextIInv == IInv /\ [Next]_vars => IInv'
  <1> SUFFICES ASSUME IInv, [Next]_vars PROVE IInv'
    OBVIOUS
  <1>1. CASE ServerStep
    BY <1>1, AcceptIInv, AcceptFailsIInv, ReadIInv, HandleIInv, SaveIInv, RespondIInv, ProcessIInv
    DEF ServerStep
  <1>2. CASE \E c \in Clients : (\E r \in Requests : Connect(c, r)) \/ Send(c) \/ Abort(c)
    BY <1>2, BrowserIInv
  <1>3. CASE Kill \/ Start \/ Editor
    BY <1>3, ProcessIInv
  <1>4. CASE UNCHANGED vars
    BY <1>4 DEF vars, serverVars, clientVars, IInv, TypeOK, Queued
  <1> QED
    BY <1>1, <1>2, <1>3, <1>4 DEF Next

LEMMA IInvariant == Spec => []IInv
  <1> QED
    BY InitIInv, NextIInv, PTL DEF Spec

\* The process, its files and its connections are always in a state of the model
\* (runServer and the handlers it calls).
THEOREM TypeCorrect == Spec => []TypeOK
  <1>1. IInv => TypeOK
    BY DEF IInv
  <1> QED
    BY <1>1, IInvariant, PTL

\* No request is handled twice or left behind, for any number of browsers and any
\* length of the queue (runServer, fatalError).
THEOREM OneConnectionEach == Spec => []OneConnection
  <1>1. ASSUME IInv, NEW c \in Clients
        PROVE  Cardinality({i \in DOMAIN backlog : backlog[i] = c})
                  = IF req[c] = None \/ conn = c THEN 0 ELSE 1
    <2> DEFINE places == {i \in DOMAIN backlog : backlog[i] = c}
    <2>1. CASE req[c] = None \/ conn = c
      <3>1. places = {}
        BY <1>1, <2>1 DEF IInv, Queued
      <3> QED
        BY <2>1, <3>1, FS_EmptySet
    <2>2. CASE ~ (req[c] = None \/ conn = c)
      <3>1. PICK i \in DOMAIN backlog : backlog[i] = c
        BY <1>1, <2>2 DEF IInv, Queued
      <3>2. places = {i}
        BY <1>1, <3>1 DEF IInv, Queued
      <3> QED
        BY <2>2, <3>2, FS_Singleton
    <2> QED
      BY <2>1, <2>2
  <1>2. IInv => OneConnection
    BY <1>1 DEF OneConnection
  <1> QED
    BY <1>2, IInvariant, PTL

-----------------------------------------------------------------------------
(* Stored pages *)

\* A save that has been opened has the whole text.
SavingWhole == pc \in {"write", "close"} => saving.cells = TextCells

StoredInv == TypeOK /\ StoredWhole /\ SavingWhole

\* A step that leaves the files and the save alone keeps the pages whole.
LEMMA StoredUnchanged ==
    ASSUME StoredInv, UNCHANGED <<disk, saving>>,
           pc' \in {"write", "close"} <=> pc \in {"write", "close"}
    PROVE  StoredWhole' /\ SavingWhole'
  BY DEF StoredInv, StoredWhole, SavingWhole, BeingSaved, Undamaged

\* Without kills and failed writes no step damages a page.
LEMMA NextStored ==
    ASSUME Faults \cap {"kill", "diskFull"} = {}, StoredInv, [Next]_vars
    PROVE  StoredWhole' /\ SavingWhole'
  <1>1. CASE OpenSave
    <2>1. /\ saving'.cells = TextCells
          /\ saving'.page \in Names
          /\ disk' = [disk EXCEPT ![saving'.page] = Empty]
      BY <1>1, OpenSaveProperties DEF StoredInv
    <2>2. pc = "handle" /\ pc' = "write"
      BY <1>1 DEF OpenSave, HandlingForm, Handling
    <2> QED
      BY <2>1, <2>2 DEF StoredInv, TypeOK, StoredWhole, SavingWhole, BeingSaved, Undamaged
  <1>2. CASE WriteSave
    <2>1. /\ pc = "write" /\ pc' = "close" /\ saving' = saving
          /\ \E n \in 0..saving.cells :
               disk' = [disk EXCEPT ![saving.page] = Part(saving.text, n)]
      BY <1>2 DEF WriteSave
    <2>2. \A p \in Names : p # saving.page => disk'[p] = disk[p]
      BY <2>1 DEF StoredInv, TypeOK
    <2> QED
      BY <2>1, <2>2 DEF StoredInv, StoredWhole, SavingWhole, BeingSaved, Undamaged
  <1>3. CASE CloseSave
    <2>1. /\ pc = "close" /\ pc' = "reply"
          /\ disk' = [disk EXCEPT ![saving.page] = Part(saving.text, saving.cells)]
      BY <1>3 DEF CloseSave, Reply, Redirect
    <2>2. saving \in Saves /\ saving.cells = TextCells
      BY <2>1 DEF StoredInv, TypeOK, SavingWhole
    <2>3. Part(saving.text, saving.cells) \in Undamaged
      BY <2>2 DEF Saves, Undamaged, Whole
    <2>4. \A p \in Names : disk'[p] \in Undamaged
      <3> TAKE p \in Names
      <3>1. CASE p = saving.page
        BY <2>1, <2>3, <3>1 DEF StoredInv, TypeOK
      <3>2. CASE p # saving.page
        BY <2>1, <3>2 DEF StoredInv, TypeOK, StoredWhole, BeingSaved
      <3> QED
        BY <3>1, <3>2
    <2>5. Undamaged' = Undamaged
      BY DEF Undamaged
    <2> QED
      BY <2>1, <2>4, <2>5 DEF StoredWhole, SavingWhole
  <1>4. CASE Editor
    <2>1. PICK p \in WikiWords \ Specials, content \in Undamaged :
            disk' = [disk EXCEPT ![p] = content]
      BY <1>4 DEF Editor
    <2>2. UNCHANGED <<pc, saving>> /\ Undamaged' = Undamaged
      BY <1>4 DEF Editor, serverVars, Undamaged
    <2> QED
      BY <2>1, <2>2 DEF StoredInv, TypeOK, StoredWhole, SavingWhole, BeingSaved
  <1>5. CASE FatalError
    <2>1. pc = "error" /\ pc' = "down" /\ disk' = disk /\ Undamaged' = Undamaged
      BY <1>5 DEF FatalError, Exit, Undamaged
    <2> QED
      BY <2>1 DEF StoredInv, StoredWhole, SavingWhole, BeingSaved
  <1>6. CASE Kill
    BY <1>6 DEF Kill
  <1>7. CASE \/ Accept \/ AcceptFails \/ RecvHeader \/ RecvBody \/ RecvFails
             \/ Respond \/ Start
    <2>1. /\ UNCHANGED <<disk, saving>>
          /\ pc \notin {"write", "close"}
          /\ pc' \notin {"write", "close"}
      BY <1>7 DEF Accept, AcceptFails, RecvHeader, RecvBody, RecvFails, Reply, Respond, Start,
                  serverVars
    <2> QED
      BY <2>1, StoredUnchanged
  <1>8. CASE \/ View \/ Load \/ Edit \/ HeadRequest
             \/ RefuseForm \/ CancelEditing \/ RefuseSave
    <2>1. /\ UNCHANGED <<disk, saving>>
          /\ pc \notin {"write", "close"}
          /\ pc' \notin {"write", "close"}
      BY <1>8 DEF View, Load, Edit, HeadRequest, RefuseForm, CancelEditing, RefuseSave,
                  HandlingForm, Handling, LuaError, Reply, Exists, IsSpecial, Redirect
    <2> QED
      BY <2>1, StoredUnchanged
  <1>9. CASE \E c \in Clients : (\E r \in Requests : Connect(c, r)) \/ Send(c) \/ Abort(c)
    BY <1>9, StoredUnchanged DEF Connect, Send, Abort, serverVars
  <1>10. CASE UNCHANGED vars
    BY <1>10, StoredUnchanged DEF vars, serverVars
  <1> QED
    BY <1>1, <1>2, <1>3, <1>4, <1>5, <1>6, <1>7, <1>8, <1>9, <1>10 DEF Next, ServerStep

\* However short the reads of a form are, the file of every page but the one being
\* saved is whole or absent: no page is cut by a form that did not arrive, because
\* the hidden title closes the form (createSpecialEditPage, doSaveAfterEditing).
THEOREM PagesStayWhole ==
    ASSUME Faults \cap {"kill", "diskFull"} = {}
    PROVE  Spec => []StoredWhole
  <1>1. Init => StoredWhole /\ SavingWhole
    BY DEF Init, StoredWhole, SavingWhole
  <1>2. TypeOK /\ StoredWhole /\ SavingWhole /\ [Next]_vars => StoredWhole' /\ SavingWhole'
    BY NextStored DEF StoredInv
  <1> QED
    BY <1>1, <1>2, TypeCorrect, PTL DEF Spec
=============================================================================
