-------------------------- MODULE WikiAtomicProofs --------------------------
(***************************************************************************)
(* When forms arrive whole, files can be written and the process is not    *)
(* killed, an acknowledged save is complete and the wiki implements the    *)
(* atomic pages of PageStore.                                              *)
(***************************************************************************)
EXTENDS WikiServerProofs

\* The faults that are excluded here.
Harmful == {"shortRead", "diskFull", "editor", "kill"}

\* What is handled is a whole form, and a save is a save of that form.
FormInv ==
    /\ \A c \in Clients : req[c] # None => sent[c] <= Cells(req[c])
    /\ pc \in {"handle", "write", "close"} => taken = Cells(req[conn])
    /\ pc \in {"write", "close"} => /\ req[conn].op \in SaveOps
                                    /\ saving.page = req[conn].page
                                    /\ saving.text = req[conn].text
                                    /\ saving.cells = TextCells
    /\ pc = "load" => /\ req[conn].op = "View"
                    /\ req[conn].page \notin Specials
                    /\ disk[req[conn].page] # Absent
    /\ AcknowledgedSaved

WholeInv == IInv /\ FormInv

-----------------------------------------------------------------------------

\* Of a whole form every field has arrived.
LEMMA WholeForm ==
    ASSUME TypeOK, FormInv, pc = "handle",
           req[conn].op \in SaveOps \cup {"CancelEditing"}
    PROVE  /\ SavedTitle(req[conn]) = req[conn].page
           /\ Has("action") /\ Has("text") /\ Has("page")
           /\ ValueCells("action") > 0
  <1>1. conn \in Clients /\ req[conn] \in Requests
    BY DEF TypeOK
  <1>2. taken = HeaderCells + BodyCells
    BY <1>1 DEF FormInv, Cells, FormOps, SaveOps
  <1>3. Body = TextCells + 6
    BY <1>2, WikiServerAssumption DEF Body, BodyCells
  <1>4. /\ ValueCells("page") = 2 /\ Has("action") /\ Has("text") /\ Has("page")
        /\ ValueCells("action") > 0
    BY <1>3, CellProperties, WikiServerAssumption DEF ValueCells, Has
  <1> QED
    BY <1>4 DEF SavedTitle

\* Forms are sent to their end and read to their end.
LEMMA NextFormInv ==
    ASSUME Faults \cap Harmful = {}, WholeInv, [Next]_vars
    PROVE  FormInv'
  <1> USE DEF WholeInv
  <1>1. ASSUME NEW c \in Clients, (\E r \in Requests : Connect(c, r)) \/ Send(c) \/ Abort(c)
        PROVE  FormInv'
    <2>1. UNCHANGED <<disk, pc, conn, taken, saving, response>>
      BY <1>1 DEF Connect, Send, Abort, serverVars
    <2>2. conn # None => conn \in Clients /\ req'[conn] = req[conn]
      <3>1. conn # None => conn \in Clients /\ req[conn] # None
        BY DEF IInv, TypeOK
      <3>2. \A d \in Clients : req[d] # None => req'[d] = req[d]
        BY <1>1 DEF IInv, TypeOK, Connect, Send, Abort
      <3> QED
        BY <3>1, <3>2
    <2>3. conn = None <=> pc \in {"down", "accept"}
      BY DEF IInv, TypeOK
    <2>4. \A d \in Clients : req'[d] # None => sent'[d] <= Cells(req'[d])
      <3>1. CASE \E r \in Requests : Connect(c, r)
        <4> PICK r \in Requests : Connect(c, r)
          BY <3>1
        <4>1. Cells(r) \in Nat
          BY CellProperties, WikiServerAssumption
        <4>2. req' = [req EXCEPT ![c] = r] /\ sent' = [sent EXCEPT ![c] = 0]
          BY DEF Connect
        <4> QED
          BY <4>1, <4>2 DEF IInv, TypeOK, FormInv
      <3>2. CASE Send(c)
        <4>1. req' = req /\ Cells(req[c]) \in Nat /\ sent[c] \in Nat
          BY <3>2, CellProperties, WikiServerAssumption DEF Send, IInv, TypeOK
        <4>2. PICK n \in (sent[c] + 1)..Cells(req[c]) : sent' = [sent EXCEPT ![c] = n]
          BY <3>2 DEF Send
        <4> QED
          BY <4>1, <4>2 DEF IInv, TypeOK, FormInv
      <3>3. CASE Abort(c)
        BY <3>3 DEF Abort, FormInv
      <3> QED
        BY <1>1, <3>1, <3>2, <3>3
    <2>5. AcknowledgedSaved'
      BY <2>1, <2>2, <2>3 DEF FormInv, AcknowledgedSaved, Whole, Part
    <2>6. /\ pc \in {"handle", "write", "close"} => taken = Cells(req'[conn])
          /\ pc \in {"write", "close"} => /\ req'[conn].op \in SaveOps
                                          /\ saving.page = req'[conn].page
                                          /\ saving.text = req'[conn].text
                                          /\ saving.cells = TextCells
          /\ pc = "load" => /\ req'[conn].op = "View"
                            /\ req'[conn].page \notin Specials
                            /\ disk[req'[conn].page] # Absent
      BY <2>2, <2>3 DEF FormInv
    <2> QED
      BY <2>1, <2>4, <2>5, <2>6 DEF FormInv, Cells, BodyCells
  <1>2. ASSUME clientVars' = clientVars,
               pc' \notin {"handle", "load", "write", "close"},
               pc' = "reply" => response'.status # 303 \/ req[conn].op \notin SaveOps,
               conn' = conn
        PROVE  FormInv'
    BY <1>2 DEF FormInv, AcknowledgedSaved, clientVars, Cells, BodyCells
  <1>3. CASE Accept
    BY <1>3 DEF Accept, FormInv, AcknowledgedSaved, clientVars, Cells, BodyCells
  <1>17. CASE AcceptFails
    <2>1. /\ pc = "accept" /\ pc' = "accept" /\ sent' = sent
          /\ \A c \in Clients : req'[c] # None => req'[c] = req[c]
      BY <1>17 DEF AcceptFails, serverVars, IInv, TypeOK
    <2> QED
      BY <2>1 DEF FormInv, AcknowledgedSaved, Cells, BodyCells
  <1>4. CASE RecvHeader \/ RecvBody
    <2>1. conn \in Clients /\ req[conn] # None /\ sent[conn] \in Nat /\ taken \in Nat
      BY <1>4, WikiServerAssumption, CellProperties DEF RecvHeader, RecvBody, IInv, TypeOK
    <2>2. req[conn] \in Requests /\ Cells(req[conn]) \in Nat
      BY <2>1, CellProperties, WikiServerAssumption DEF IInv, TypeOK
    <2>3. sent[conn] <= Cells(req[conn])
      BY <2>1 DEF FormInv
    <2>4. pc' \in {"header", "body", "handle"} /\ (pc' = "handle" => taken' = Cells(req[conn]))
      <3>1. CASE RecvHeader
        BY <2>1, <2>2, <2>3, <3>1, WikiServerAssumption DEF RecvHeader
      <3>2. CASE RecvBody
        BY <3>2 DEF RecvBody, Harmful
      <3> QED
        BY <1>4, <3>1, <3>2
    <2>5. UNCHANGED <<conn, req, sent>>
      BY <1>4 DEF RecvHeader, RecvBody, clientVars
    <2> QED
      BY <2>4, <2>5 DEF FormInv, AcknowledgedSaved, Cells, BodyCells
  <1>5. CASE RecvFails
    BY <1>2, <1>5 DEF RecvFails, Reply
  <1>6. CASE View
    <2>1. req[conn].op = "View" /\ "View" \notin SaveOps
      BY <1>6 DEF View, Handling, SaveOps, Exists, IsSpecial
    <2>2. /\ UNCHANGED <<disk, conn, taken, req, sent>>
          /\ pc' \in {"load", "reply"}
          /\ pc' = "load" => disk[req[conn].page] # Absent /\ req[conn].page \notin Specials
      BY <1>6 DEF View, Reply, clientVars, Exists, IsSpecial
    <2> QED
      BY <2>1, <2>2 DEF FormInv, AcknowledgedSaved, Cells, BodyCells
  <1>7. CASE Load \/ Edit
    <2>1. req[conn].op \notin SaveOps
      BY <1>7 DEF Load, Edit, Handling, SaveOps, FormInv, Exists, IsSpecial
    <2> QED
      BY <1>2, <1>7, <2>1 DEF Load, Edit, Reply, LuaError, Exists, IsSpecial
  <1>8. CASE HeadRequest \/ RefuseForm \/ CancelEditing \/ RefuseSave
    <2>1. CASE CancelEditing
      <3>1. req[conn].op \notin SaveOps
        BY <2>1 DEF CancelEditing, HandlingForm, Handling, SaveOps, Redirect
      <3> QED
        BY <1>2, <2>1, <3>1 DEF CancelEditing, Reply, LuaError, Redirect
    <2>2. CASE HeadRequest \/ RefuseForm \/ RefuseSave
      BY <1>2, <2>2 DEF HeadRequest, RefuseForm, RefuseSave, Reply, LuaError
    <2> QED
      BY <1>8, <2>1, <2>2
  <1>9. CASE OpenSave
    <2>1. pc = "handle" /\ pc' = "write" /\ req[conn].op \in SaveOps
      BY <1>9 DEF OpenSave, HandlingForm, Handling
    <2>2. SavedTitle(req[conn]) = req[conn].page
      BY <2>1, WholeForm DEF IInv
    <2>3. saving'.cells = TextCells
      BY <1>9, OpenSaveProperties DEF IInv
    <2>4. /\ saving'.page = req[conn].page
          /\ saving'.text = req[conn].text
          /\ UNCHANGED <<conn, taken, req, sent>>
      BY <1>9, <2>2 DEF OpenSave, clientVars
    <2> QED
      BY <2>1, <2>3, <2>4 DEF FormInv, AcknowledgedSaved, Cells, BodyCells
  <1>10. CASE WriteSave
    <2>1. pc = "write" /\ pc' = "close" /\ UNCHANGED <<conn, taken, saving, req, sent>>
      BY <1>10 DEF WriteSave, clientVars
    <2> QED
      BY <2>1 DEF FormInv, AcknowledgedSaved, Cells, BodyCells
  <1>11. CASE CloseSave
    <2>1. /\ pc = "close" /\ pc' = "reply"
          /\ UNCHANGED <<conn, req, sent>>
          /\ disk' = [disk EXCEPT ![saving.page] = Part(saving.text, saving.cells)]
      BY <1>11 DEF CloseSave, Reply, clientVars, Harmful, Redirect
    <2>2. saving.page \in Names
      BY <2>1 DEF IInv, TypeOK, Saves
    <2>3. disk'[req[conn].page] = Whole(req[conn].text)
      BY <2>1, <2>2 DEF FormInv, IInv, TypeOK, Whole
    <2>4. Whole(req[conn].text)' = Whole(req[conn].text)
      BY <2>1 DEF Whole, Part
    <2> QED
      BY <2>1, <2>3, <2>4 DEF FormInv, AcknowledgedSaved, Cells, BodyCells
  <1>12. CASE Respond
    <2>1. /\ pc' = "accept" /\ sent' = sent
          /\ \A c \in Clients : req'[c] # None => req'[c] = req[c]
      BY <1>12 DEF Respond, IInv, TypeOK
    <2> QED
      BY <2>1 DEF FormInv, AcknowledgedSaved, Cells, BodyCells
  <1>13. CASE FatalError
    BY <1>13 DEF FatalError, Exit, FormInv, AcknowledgedSaved
  <1>14. CASE Start
    BY <1>2, <1>14 DEF Start
  <1>15. CASE Kill \/ Editor
    BY <1>15 DEF Kill, Editor, Harmful
  <1>16. CASE UNCHANGED vars
    BY <1>16 DEF vars, serverVars, clientVars, FormInv, AcknowledgedSaved,
                 Cells, BodyCells, Whole, Part
  <1> QED
    BY <1>1, <1>3, <1>4, <1>5, <1>6, <1>7, <1>8, <1>9, <1>10, <1>11, <1>12, <1>13,
       <1>14, <1>15, <1>16, <1>17 DEF Next, ServerStep

LEMMA FormInvariant ==
    ASSUME Faults \cap Harmful = {}
    PROVE  Spec => []FormInv
  <1>1. Init => FormInv
    BY DEF Init, FormInv, AcknowledgedSaved
  <1>2. IInv /\ FormInv /\ [Next]_vars => FormInv'
    BY NextFormInv DEF WholeInv
  <1> QED
    BY <1>1, <1>2, IInvariant, PTL DEF Spec

\* A redirection after a save says that the page of the form holds its whole text
\* (postHandlerSave, postHandlerCheckpoint).
THEOREM AcknowledgedSavesStored ==
    ASSUME Faults \cap Harmful = {}
    PROVE  Spec => []AcknowledgedSaved
  <1>1. FormInv => AcknowledgedSaved
    BY DEF FormInv
  <1> QED
    BY <1>1, FormInvariant, PTL

\* Requests that the pages of the engine make never end the process: whatever the
\* interleaving of browsers, no handler meets a field or a file that is missing
\* (handlePostRequest, postHandlerCancelEditing, processRequest).
THEOREM EngineRequestsAreSafe ==
    ASSUME Faults \cap Harmful = {}, Ops \cap {"Head", "BareForm"} = {}
    PROVE  Spec => []NoError
  <1>1. Init => NoError
    BY DEF Init, NoError
  <1>2. ASSUME IInv, FormInv, NoError, [Next]_vars
        PROVE  NoError'
    <2>1. pc # "error"
      BY <1>2 DEF NoError
    <2>2. CASE Load
      BY <1>2, <2>2 DEF Load, Reply, FormInv, NoError, Exists, IsSpecial
    <2>3. CASE HeadRequest \/ RefuseForm \/ CancelEditing
      <3>1. pc = "handle" /\ req[conn] \in Requests
        BY <1>2, <2>3 DEF HeadRequest, RefuseForm, CancelEditing, HandlingForm,
                          Handling, IInv, TypeOK, Redirect
      <3>2. req[conn].op \in Ops
        BY <3>1 DEF Requests
      <3>3. req[conn].op \in SaveOps \cup {"CancelEditing"}
        BY <2>3, <3>2 DEF HeadRequest, RefuseForm, CancelEditing, HandlingForm,
                          Handling, FormOps, SaveOps, Redirect
      <3>4. Has("action") /\ Has("page") /\ ValueCells("action") > 0
        BY <1>2, <3>1, <3>3, WholeForm DEF IInv
      <3> QED
        BY <2>3, <3>3, <3>4
        DEF HeadRequest, RefuseForm, CancelEditing, HandlingForm, Handling,
            SaveOps, LuaError, Reply, NoError, Redirect
    <2>4. CASE \/ Accept \/ AcceptFails \/ RecvHeader \/ RecvBody \/ RecvFails
               \/ Respond \/ FatalError
      BY <2>4 DEF Accept, AcceptFails, RecvHeader, RecvBody, RecvFails, Respond, FatalError,
                  Exit, Reply, NoError, serverVars
    <2>5. CASE View \/ Edit \/ RefuseSave \/ OpenSave \/ WriteSave \/ CloseSave
      BY <2>5 DEF View, Edit, RefuseSave, OpenSave, WriteSave, CloseSave, Reply,
                  NoError, Exists, IsSpecial, Redirect
    <2>6. CASE Kill \/ Start \/ Editor \/ UNCHANGED vars
      BY <2>1, <2>6 DEF Kill, Start, Editor, Exit, vars, serverVars, NoError
    <2>7. CASE \E c \in Clients : (\E r \in Requests : Connect(c, r)) \/ Send(c) \/ Abort(c)
      BY <2>1, <2>7 DEF Connect, Send, Abort, serverVars, NoError
    <2> QED
      BY <1>2, <2>2, <2>3, <2>4, <2>5, <2>6, <2>7 DEF Next, ServerStep
  <1> QED
    BY <1>1, <1>2, IInvariant, FormInvariant, PTL DEF Spec

-----------------------------------------------------------------------------
(* The refinement *)

store == IF pc \in {"write", "close"}
         THEN [disk EXCEPT ![saving.page] = saving.old] ELSE disk

answer == [c \in Clients |-> IF c = conn THEN response ELSE None]

\* While no reply is ready no client has an answer.
LEMMA NoAnswer ==
    ASSUME TypeOK, pc # "reply"
    PROVE  answer = [c \in Clients |-> None]
  BY DEF TypeOK, answer

\* A reply is the answer of the accepted client.
LEMMA ReplyIsAnswer ==
    ASSUME TypeOK, conn \in Clients, pc # "reply", conn' = conn,
           NEW status, NEW shows, Reply(status, shows)
    PROVE  /\ answer[conn] = None
           /\ answer' = [answer EXCEPT ![conn] = [status |-> status, shows |-> shows]]
  <1>1. answer = [c \in Clients |-> None]
    BY NoAnswer
  <1>2. answer' = [c \in Clients |->
                    IF c = conn THEN [status |-> status, shows |-> shows] ELSE None]
    BY DEF answer, Reply
  <1> QED
    BY <1>1, <1>2

\* The initial states are initial states of the registers.
LEMMA InitRefines == Init => P!Init
  <1> SUFFICES ASSUME Init PROVE P!Init
    OBVIOUS
  <1>1. Undamaged \subseteq Contents
    BY PartIsContent, WikiServerAssumption DEF Undamaged, Whole, Contents
  <1>2. disk \in [Names -> Contents]
    BY <1>1 DEF Init
  <1> QED
    BY <1>2 DEF Init, P!Init

\* A step of the register specification for one client is one of its steps.
LEMMA RegisterStep ==
    ASSUME NEW c \in Clients, P!Read(c) \/ P!Write(c) \/ P!Refuse(c) \/ P!Done(c)
    PROVE  P!Next
  <1>1. \E d \in Clients : P!Read(d) \/ P!Write(d) \/ P!Refuse(d) \/ P!Done(d)
    OBVIOUS
  <1> QED
    BY <1>1, Zenon DEF P!Next

\* Every step is a step of the registers or leaves them alone.
LEMMA NextRefines ==
    ASSUME Faults \cap Harmful = {}, WholeInv, [Next]_vars
    PROVE  [P!Next]_(P!vars)
  <1> SUFFICES ASSUME TRUE PROVE P!Next \/ UNCHANGED <<store, req, answer>>
    BY DEF P!vars, store, answer
  <1>a. TypeOK /\ FormInv
    BY DEF WholeInv, IInv
  <1>b. pc \notin {"down", "accept"} => conn \in Clients /\ req[conn] \in Requests
    BY <1>a DEF TypeOK
  <1>1. ASSUME NEW c \in Clients, NEW r \in Requests, Connect(c, r)
        PROVE  P!Next
    <2>1. UNCHANGED <<disk, pc, conn, saving, response>>
      BY <1>1 DEF Connect, serverVars
    <2>2. UNCHANGED <<store, answer>>
      BY <2>1 DEF store, answer
    <2>3. P!Ask(c, r)
      BY <1>1, <2>2 DEF Connect, P!Ask, store, answer
    <2> QED
      BY <2>3 DEF P!Next
  <1>2. CASE \E c \in Clients : Send(c) \/ Abort(c)
    BY <1>2 DEF Send, Abort, serverVars, store, answer
  <1>3. CASE Accept \/ RecvHeader \/ RecvBody \/ Start
    <2>1. /\ pc \notin {"write", "close", "reply"} /\ pc' \notin {"write", "close", "reply"}
          /\ UNCHANGED <<disk, req, response>>
      BY <1>3 DEF Accept, RecvHeader, RecvBody, Start, clientVars
    <2>2. response = None
      BY <1>a, <2>1 DEF TypeOK
    <2> QED
      BY <2>1, <2>2 DEF store, answer
  <1>4. CASE RecvFails
    <2>1. UNCHANGED <<disk, conn, req>> /\ Reply(500, None) /\ pc \in {"header", "body"}
      BY <1>4 DEF RecvFails, clientVars
    <2>2. store' = store
      BY <2>1 DEF store, Reply
    <2>3. P!Refuse(conn)
      BY <1>a, <1>b, <2>1, <2>2, ReplyIsAnswer, NoneAssumption
      DEF P!Refuse, P!Pending, P!Answer, store, answer
    <2> QED
      BY <1>b, <2>1, <2>3, RegisterStep
  <1>5. CASE View \/ Load \/ Edit
    <2>1. /\ UNCHANGED <<disk, conn, saving, req>>
          /\ pc \in {"handle", "load"}
          /\ req[conn].op \in {"View", "Edit"}
      BY <1>a, <1>5 DEF View, Load, Edit, Handling, FormInv, clientVars, Exists, IsSpecial
    <2>2. conn \in Clients /\ req[conn] # None /\ answer[conn] = None /\ store = disk
      BY <1>a, <1>b, <2>1, NoAnswer, NoneAssumption DEF store
    <2>3. CASE pc' = "load"
      BY <1>5, <2>1, <2>3 DEF View, Load, Edit, LuaError, Reply, store, answer, Exists, IsSpecial
    <2>4. CASE pc' # "load"
      <3>1. Reply(200, IF req[conn].op = "View" /\ req[conn].page \in Specials
                       THEN Builtin ELSE disk[req[conn].page])
        <4>1. CASE View
          BY <2>4, <4>1 DEF View, Handling, Exists, IsSpecial
        <4>2. CASE Load
          <5>1. req[conn].op = "View" /\ disk[req[conn].page] # Absent
            BY <1>a, <4>2 DEF Load, FormInv, Exists, IsSpecial
          <5>2. req[conn].page \notin Specials
            BY <1>a, <4>2 DEF Load, FormInv, Exists, IsSpecial
          <5> QED
            BY <4>2, <5>1, <5>2 DEF Load, Exists, IsSpecial
        <4>3. CASE Edit
          BY <4>3 DEF Edit, Handling
        <4> QED
          BY <1>5, <4>1, <4>2, <4>3
      <3>2. store' = store
        BY <2>1, <2>2, <3>1 DEF store, Reply
      <3>3. answer' = [answer EXCEPT ![conn] =
                         [status |-> 200,
                          shows |-> IF req[conn].op = "View" /\ req[conn].page \in Specials
                                    THEN Builtin ELSE store[req[conn].page]]]
        BY <1>a, <2>1, <2>2, <3>1, ReplyIsAnswer
      <3> PICK c \in Clients : c = conn
        BY <2>2
      <3>4. P!Read(c)
        BY <2>1, <2>2, <3>2, <3>3 DEF P!Read, P!Pending, P!Answer, store, answer
      <3> QED
        BY <3>4, RegisterStep
    <2> QED
      BY <2>3, <2>4
  <1>6. CASE HeadRequest \/ RefuseForm \/ CancelEditing \/ RefuseSave
    <2>1. UNCHANGED <<disk, conn, saving, req>> /\ pc = "handle"
      BY <1>6 DEF HeadRequest, RefuseForm, CancelEditing, RefuseSave, HandlingForm,
                  Handling, clientVars, Redirect
    <2>2. conn \in Clients /\ req[conn] # None /\ answer[conn] = None
      BY <1>a, <1>b, <2>1, NoAnswer, NoneAssumption
    <2>3. \/ LuaError
          \/ \E status \in {303, 400, 500} :
               (status = 303 => req[conn].op = "CancelEditing") /\ Reply(status, None)
      BY <1>6 DEF HeadRequest, RefuseForm, CancelEditing, RefuseSave,
                  HandlingForm, Handling, Redirect
    <2>4. CASE LuaError
      BY <2>1, <2>4 DEF LuaError, store, answer
    <2>5. ASSUME NEW status \in {303, 400, 500},
                 status = 303 => req[conn].op = "CancelEditing",
                 Reply(status, None)
          PROVE  P!Next
      <3>1. store' = store
        BY <2>1, <2>5 DEF store, Reply
      <3>2. answer' = [answer EXCEPT ![conn] = [status |-> status, shows |-> None]]
        BY <1>a, <2>1, <2>2, <2>5, ReplyIsAnswer
      <3>3. P!Pending(conn) /\ P!Answer(conn, status, None)
        BY <2>2, <3>2 DEF P!Pending, P!Answer, answer
      <3>4. UNCHANGED <<store, req>>
        BY <2>1, <3>1
      <3>5. P!Refuse(conn)
        BY <2>5, <3>3, <3>4 DEF P!Refuse, store
      <3> QED
        BY <2>2, <3>5, RegisterStep
    <2> QED
      BY <2>3, <2>4, <2>5
  <1>7. CASE OpenSave
    <2>1. /\ pc = "handle" /\ pc' = "write"
          /\ UNCHANGED <<conn, req, response>>
          /\ saving'.old = disk[saving'.page]
      BY <1>7 DEF OpenSave, HandlingForm, Handling, clientVars
    <2>2. saving'.page \in Names /\ disk' = [disk EXCEPT ![saving'.page] = Empty]
      BY <1>7, <1>a, OpenSaveProperties
    <2>3. store' = [disk' EXCEPT ![saving'.page] = saving'.old] /\ store = disk
      BY <2>1 DEF store
    <2>4. store' = disk
      BY <1>a, <2>1, <2>2, <2>3 DEF TypeOK
    <2> QED
      BY <2>1, <2>3, <2>4 DEF answer
  <1>8. CASE WriteSave
    <2>1. /\ pc = "write" /\ pc' = "close"
          /\ UNCHANGED <<conn, req, saving, response>>
          /\ \E n \in 0..saving.cells :
               disk' = [disk EXCEPT ![saving.page] = Part(saving.text, n)]
      BY <1>8 DEF WriteSave, clientVars
    <2>2. store' = [disk' EXCEPT ![saving.page] = saving.old]
          /\ store = [disk EXCEPT ![saving.page] = saving.old]
      BY <2>1 DEF store
    <2>3. store' = store
      BY <1>a, <2>1, <2>2 DEF TypeOK
    <2> QED
      BY <2>1, <2>3 DEF answer
  <1>9. CASE CloseSave
    <2>1. /\ pc = "close" /\ Reply(303, None)
          /\ UNCHANGED <<conn, req>>
          /\ disk' = [disk EXCEPT ![saving.page] = Part(saving.text, saving.cells)]
      BY <1>9 DEF CloseSave, clientVars, Harmful, Redirect
    <2>2. /\ conn \in Clients /\ req[conn] # None /\ answer[conn] = None
          /\ req[conn].op \in SaveOps
      BY <1>a, <1>b, <2>1, NoAnswer, NoneAssumption DEF FormInv
    <2>3. answer' = [answer EXCEPT ![conn] = [status |-> 303, shows |-> None]]
      BY <1>a, <2>1, <2>2, ReplyIsAnswer
    <2>4. store = [disk EXCEPT ![saving.page] = saving.old] /\ store' = disk'
      BY <2>1 DEF store, Reply
    <2>5. disk' = [disk EXCEPT ![req[conn].page] = Whole(req[conn].text)]
      BY <1>a, <2>1 DEF FormInv, Whole
    <2>6. store' = [store EXCEPT ![req[conn].page] = Whole(req[conn].text)]
      BY <1>a, <2>1, <2>4, <2>5 DEF FormInv, TypeOK
    <2> PICK c \in Clients : c = conn
      BY <2>2
    <2>7. P!Write(c)
      BY <2>1, <2>2, <2>3, <2>6 DEF P!Write, P!Pending, P!Answer, store, answer, SaveOps
    <2> QED
      BY <2>7, RegisterStep
  <1>10. CASE Respond
    <2>1. /\ pc = "reply" /\ pc' = "accept" /\ response' = None
          /\ UNCHANGED <<disk, saving>>
          /\ req' = [req EXCEPT ![conn] = None]
      BY <1>10 DEF Respond
    <2>2. conn \in Clients /\ req[conn] # None
      BY <1>b, <2>1, NoneAssumption
    <2>3. store' = store /\ answer' = [answer EXCEPT ![conn] = None]
      BY <2>1 DEF store, answer
    <2> PICK c \in Clients : c = conn
      BY <2>2
    <2>4. P!Done(c)
      BY <2>1, <2>2, <2>3 DEF P!Done, store, answer
    <2> QED
      BY <2>4, RegisterStep
  <1>14. CASE AcceptFails
    <2>1. /\ pc = "accept"
          /\ UNCHANGED <<disk, pc, conn, saving, response>>
          /\ req' = [req EXCEPT ![Head(backlog)] = None]
          /\ backlog \in Seq(Clients) /\ backlog # << >>
      BY <1>a, <1>14 DEF AcceptFails, serverVars, TypeOK
    <2>2. backlog[1] = Head(backlog) /\ 1 \in DOMAIN backlog
      BY <2>1
    <2> PICK c \in Clients : c = Head(backlog)
      BY <2>1
    <2>3. req[c] # None
      BY <2>2 DEF WholeInv, IInv, Queued
    <2>4. answer = [d \in Clients |-> None] /\ answer' = answer /\ store' = store
      BY <1>a, <2>1, NoAnswer DEF answer, store
    <2>5. answer' = [answer EXCEPT ![c] = None]
      BY <2>4
    <2>6. P!Done(c)
      BY <2>1, <2>3, <2>4, <2>5 DEF P!Done, store, answer
    <2> QED
      BY <2>6, RegisterStep
  <1>11. CASE FatalError
    <2>1. /\ pc = "error" /\ pc' = "down" /\ response' = None /\ disk' = disk
          /\ req' = [c \in Clients |-> None]
      BY <1>11 DEF FatalError, Exit
    <2>2. store' = store /\ answer' = [c \in Clients |-> None]
      BY <2>1 DEF store, answer
    <2>3. P!Drop(Clients)
      BY <2>1, <2>2 DEF P!Drop, store, answer
    <2>4. \E C \in SUBSET Clients : P!Drop(C)
      BY <2>3
    <2> QED
      BY <2>4, Zenon DEF P!Next
  <1>12. CASE Kill \/ Editor
    BY <1>12 DEF Kill, Editor, Harmful
  <1>13. CASE UNCHANGED vars
    BY <1>13 DEF vars, serverVars, clientVars, store, answer
  <1> QED
    BY <1>1, <1>2, <1>3, <1>4, <1>5, <1>6, <1>7, <1>8, <1>9, <1>10, <1>11, <1>12, <1>13,
       <1>14 DEF Next, ServerStep

\* Every request takes effect at one instant between its connection and its reply,
\* although a save takes three steps and requests queue: the wiki implements atomic
\* pages, for any number of browsers, pages and texts (runServer, savePage).
THEOREM WikiImplementsPages ==
    ASSUME Faults \cap Harmful = {}
    PROVE  Spec => PagesAreAtomic
  <1>1. IInv /\ FormInv /\ [Next]_vars => [P!Next]_(P!vars)
    BY NextRefines DEF WholeInv
  <1> QED
    BY <1>1, InitRefines, IInvariant, FormInvariant, PTL DEF Spec, PagesAreAtomic, P!Spec
=============================================================================
