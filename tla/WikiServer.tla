----------------------------- MODULE WikiServer -----------------------------
(***************************************************************************)
(* One MoonWiki process, the browsers that use it and the files under      *)
(* rootDir.  The process serves one connection at a time: runServer        *)
(* (MoonWiki.c) accepts it, HttpServer reads the request, WikiEngine       *)
(* handles it and WikiStore reads or writes the file of the page.  A Lua   *)
(* error ends the process, the user may kill it at any time and start it   *)
(* again, and a save is three steps that the kill can separate.            *)
(*                                                                         *)
(* A request is a sequence of cells: HeaderCells for the header and, for a *)
(* POST, the cells of the form in the order of the fields of EditPage:     *)
(*    action= value | text= TextCells values | page= first half, rest      *)
(* A field has arrived once its name cell has, its value may still be cut. *)
(***************************************************************************)
EXTENDS Naturals, Sequences, FiniteSets

CONSTANTS
    Clients,      \* browsers, one connection each
    Names,        \* names a save can use as the name of a file
    WikiWords,    \* the names isValidTitle accepts
    Specials,     \* the names with a createSpecial method
    CutTitle,     \* what is left of a title whose last half did not arrive
    EmptyName,    \* the empty title: a save to it writes the file ".txt"
    Texts,        \* the texts a user writes
    TextCells,    \* in how many cells a text travels
    HeaderCells,  \* in how many cells a header travels
    Backlog,      \* connections the listening socket queues (5 in the code)
    Ops,          \* the requests browsers make
    Faults,       \* which faults of the environment happen
    MaxFaults,    \* bound on kills and failed writes
    Absent,       \* the page has no file
    Empty,        \* the file of the page is empty
    Builtin,      \* the page the engine makes for a special title
    None

\* A bare form is a POST without a form field, which no page of the engine makes.
FormOps == {"Save", "Checkpoint", "CancelEditing", "BareForm"}
SaveOps == {"Save", "Checkpoint"}

ASSUME WikiServerAssumption ==
    /\ WikiWords \subseteq Names
    /\ Specials \subseteq WikiWords
    /\ CutTitle \in [WikiWords -> Names]
    /\ EmptyName \in Names
    /\ TextCells \in Nat \ {0}
    /\ HeaderCells \in Nat \ {0}
    /\ Backlog \in Nat \ {0}
    /\ Ops \subseteq {"View", "Edit", "Head"} \cup FormOps
    /\ Faults \subseteq {"ioctlFails", "shortRead", "openFails", "diskFull", "editor", "kill"}
    /\ MaxFaults \in Nat

VARIABLES
    disk,      \* the files under rootDir
    pc,        \* where the process is
    conn,      \* the client of connectionSocket
    taken,     \* cells recv() has taken from the connection
    saving,    \* the save in progress; old is only there for the refinement
    response,  \* status of the reply and the page it shows
    backlog,   \* connections that wait for accept()
    req,       \* the request of each client
    sent,      \* cells of it the client has sent
    closed,    \* whether the client has gone
    faults     \* kills and failed writes so far

serverVars == <<pc, conn, taken, saving, response>>
clientVars == <<req, sent, closed>>
vars == <<disk, serverVars, backlog, clientVars, faults>>

-----------------------------------------------------------------------------
(* Requests and forms *)

Requests ==
    [op : Ops \ SaveOps, page : WikiWords, text : {None}]
        \cup [op : Ops \cap SaveOps, page : WikiWords, text : Texts]

ASSUME NoneAssumption == None \notin Clients \cup Requests

\* createSpecialEditPage: the buttons are above the text, the hidden field
\* "page" closes the form.
NameCellPageFirst(field) ==   \* mutation: the hidden field comes before the text
    CASE field = "action" -> 1
      [] field = "page"   -> 3
      [] field = "text"   -> 6
NameCell(field) ==
    CASE field = "action" -> 1
      [] field = "text"   -> 3
      [] field = "page"   -> TextCells + 4

BodyCells == TextCells + 6

Cells(r) == HeaderCells + IF r.op \in FormOps \ {"BareForm"} THEN BodyCells ELSE 0

\* The cells of the form the process has.
Body == taken - HeaderCells

Has(field) == Body >= NameCell(field)

\* How many cells of the value of a field have arrived.
ValueCells(field) == Body - NameCell(field)

\* The file a save writes: the title as far as it has arrived.
SavedTitleOfCut(r) ==         \* mutation: a title is cut one cell early
    IF ValueCells("page") = 0 THEN EmptyName ELSE CutTitle[r.page]
SavedTitle(r) ==
    CASE ValueCells("page") = 0 -> EmptyName
      [] ValueCells("page") = 1 -> CutTitle[r.page]
      [] OTHER                  -> r.page

SavedCells ==
    IF ValueCells("text") < TextCells THEN ValueCells("text") ELSE TextCells

-----------------------------------------------------------------------------
(* Files *)

Part(t, n) == IF n = 0 THEN Empty ELSE [text |-> t, cells |-> n]
Whole(t) == Part(t, TextCells)
Contents == {Absent, Empty} \cup {Part(t, n) : t \in Texts, n \in 1..TextCells}

Undamaged == {Absent} \cup {Whole(t) : t \in Texts}

Exists(p) == disk[p] # Absent

IsSpecial(p) == p \in Specials

BeingSaved(p) == pc \in {"write", "close"} /\ saving.page = p

-----------------------------------------------------------------------------

Init ==
    /\ disk \in [Names -> Undamaged]
    /\ \A p \in Names \ (WikiWords \ Specials) : disk[p] = Absent
    /\ pc = "accept"
    /\ conn = None
    /\ taken = 0
    /\ saving = None
    /\ response = None
    /\ backlog = << >>
    /\ req = [c \in Clients |-> None]
    /\ sent = [c \in Clients |-> 0]
    /\ closed = [c \in Clients |-> FALSE]
    /\ faults = 0

(* Browsers *)

\* The listening socket queues the connection; it refuses when it is full.
Connect(c, r) ==
    /\ pc # "down"
    /\ req[c] = None
    /\ Len(backlog) < Backlog
    /\ req' = [req EXCEPT ![c] = r]
    /\ sent' = [sent EXCEPT ![c] = 0]
    /\ closed' = [closed EXCEPT ![c] = FALSE]
    /\ backlog' = Append(backlog, c)
    /\ UNCHANGED <<disk, serverVars, faults>>

Send(c) ==
    /\ req[c] # None
    /\ ~ closed[c]
    /\ \E n \in (sent[c] + 1)..Cells(req[c]) : sent' = [sent EXCEPT ![c] = n]
    /\ UNCHANGED <<disk, serverVars, backlog, req, closed, faults>>

Abort(c) ==
    /\ req[c] # None
    /\ ~ closed[c]
    /\ closed' = [closed EXCEPT ![c] = TRUE]
    /\ UNCHANGED <<disk, serverVars, backlog, req, sent, faults>>

(* Reading the request *)

Accept ==
    /\ pc = "accept"
    /\ backlog # << >>
    /\ conn' = Head(backlog)
    /\ backlog' = Tail(backlog)
    /\ taken' = 0
    /\ pc' = "header"
    /\ UNCHANGED <<disk, saving, response, clientVars, faults>>

\* ioctlsocket cannot make the connection non-blocking: it is closed unanswered.
AcceptFailsLeaks ==           \* mutation: the connection is not closed
    /\ pc = "accept"
    /\ "ioctlFails" \in Faults
    /\ backlog # << >>
    /\ backlog' = Tail(backlog)
    /\ UNCHANGED <<disk, serverVars, clientVars, faults>>
AcceptFails ==
    /\ pc = "accept"
    /\ "ioctlFails" \in Faults
    /\ backlog # << >>
    /\ backlog' = Tail(backlog)
    /\ req' = [req EXCEPT ![Head(backlog)] = None]
    /\ UNCHANGED <<disk, serverVars, sent, closed, faults>>

Reply(status, shows) ==
    /\ response' = [status |-> status, shows |-> shows]
    /\ pc' = "reply"

\* One recv() of the header loop.  It may bring cells of the form too.
RecvHeader ==
    /\ pc = "header"
    /\ \E n \in (taken + 1)..sent[conn] :
         /\ taken' = n
         /\ pc' = IF n < HeaderCells THEN "header"
                  ELSE IF n < Cells(req[conn]) THEN "body" ELSE "handle"
    /\ UNCHANGED <<disk, conn, saving, response, backlog, clientVars, faults>>

\* The rest of the form is read by one recv(), which may return less.
RecvBodySkipped ==            \* mutation: the form is what came with the header
    /\ pc = "body"
    /\ pc' = "handle"
    /\ UNCHANGED <<disk, conn, taken, saving, response, backlog, clientVars, faults>>
RecvBody ==
    /\ pc = "body"
    /\ \E n \in (taken + 1)..sent[conn] :
         /\ "shortRead" \notin Faults => n = Cells(req[conn])
         /\ taken' = n
    /\ pc' = "handle"
    /\ UNCHANGED <<disk, conn, saving, response, backlog, clientVars, faults>>

\* recv() returns 0 or an error: readFromSocket returns -1 to the script.
RecvFailsInHeaderOnly ==      \* mutation: the read of the form waits for ever
    /\ pc = "header"
    /\ closed[conn]
    /\ Reply(500, None)
    /\ UNCHANGED <<disk, conn, taken, saving, backlog, clientVars, faults>>
RecvFails ==
    /\ pc \in {"header", "body"}
    /\ closed[conn]
    /\ Reply(500, None)
    /\ UNCHANGED <<disk, conn, taken, saving, backlog, clientVars, faults>>

(* Handling the request *)

\* redirectToPage, the end of a save and of a cancelled one.
Redirect == Reply(303, None)

\* doCall reports a Lua error with fatalError.
LuaError ==
    /\ pc' = "error"
    /\ UNCHANGED response

Handling(ops) == pc = "handle" /\ req[conn].op \in ops

\* processRequest: a special page, a page that exists, or "not found".
View ==
    /\ Handling({"View"})
    /\ \/ IsSpecial(req[conn].page) /\ Reply(200, Builtin)
       \/ /\ ~ IsSpecial(req[conn].page)
          /\ ~ Exists(req[conn].page)
          /\ Reply(200, Absent)
       \/ /\ ~ IsSpecial(req[conn].page)
          /\ Exists(req[conn].page)
          /\ pc' = "load"
          /\ UNCHANGED response
    /\ UNCHANGED <<disk, conn, taken, saving, backlog, clientVars, faults>>

\* loadPage opens the file again; wikiPageTemplate fails on a page that is nil.
Load ==
    /\ pc = "load"
    /\ IF Exists(req[conn].page)
       THEN Reply(200, disk[req[conn].page])
       ELSE LuaError
    /\ UNCHANGED <<disk, conn, taken, saving, backlog, clientVars, faults>>

\* createSpecialEditPage: one loadPage, a page that is nil is shown as "".
Edit ==
    /\ Handling({"Edit"})
    /\ Reply(200, disk[req[conn].page])
    /\ UNCHANGED <<disk, conn, taken, saving, backlog, clientVars, faults>>

\* handleHeadRequest calls a method that does not exist.
HeadRequest ==
    /\ Handling({"Head"})
    /\ LuaError
    /\ UNCHANGED <<disk, conn, taken, saving, backlog, clientVars, faults>>

\* handlePostRequest up to the call of the handler: without the field "action"
\* string.gsub fails, with a cut value no handler has its name.
RefuseForm ==
    /\ Handling(FormOps)
    /\ \/ ~ Has("action") /\ LuaError
       \/ Has("action") /\ ValueCells("action") = 0 /\ Reply(400, None)
    /\ UNCHANGED <<disk, conn, taken, saving, backlog, clientVars, faults>>

HandlingForm(ops) == Handling(ops) /\ Has("action") /\ ValueCells("action") > 0

\* postHandlerCancelEditing: redirects to the page; without it .. fails on nil.
CancelEditing ==
    /\ HandlingForm({"CancelEditing"})
    /\ IF Has("page") THEN Redirect ELSE LuaError
    /\ UNCHANGED <<disk, conn, taken, saving, backlog, clientVars, faults>>

\* doSaveAfterEditing refuses a form with a field missing, or a name that
\* io.open() cannot open for writing.
RefuseSaveUnchecked ==        \* mutation: the fields are not tested for nil
    /\ HandlingForm(SaveOps)
    /\ ~ (Has("text") /\ Has("page"))
    /\ LuaError
    /\ UNCHANGED <<disk, conn, taken, saving, backlog, clientVars, faults>>
RefuseSave ==
    /\ HandlingForm(SaveOps)
    /\ \/ ~ (Has("text") /\ Has("page")) /\ Reply(400, None)
       \/ Has("text") /\ Has("page") /\ "openFails" \in Faults /\ Reply(500, None)
    /\ UNCHANGED <<disk, conn, taken, saving, backlog, clientVars, faults>>

\* savePage: io.open(filePath, "w") empties the file ...
OpenSave ==
    /\ HandlingForm(SaveOps)
    /\ Has("text")
    /\ Has("page")
    /\ LET p == SavedTitle(req[conn]) IN
         /\ saving' = [page |-> p, text |-> req[conn].text,
                       cells |-> SavedCells, old |-> disk[p]]
         /\ disk' = [disk EXCEPT ![p] = Empty]
    /\ pc' = "write"
    /\ UNCHANGED <<conn, taken, response, backlog, clientVars, faults>>

\* ... file:write() puts as much of it as it likes in the file ...
WriteSave ==
    /\ pc = "write"
    /\ \E n \in 0..saving.cells :
         disk' = [disk EXCEPT ![saving.page] = Part(saving.text, n)]
    /\ pc' = "close"
    /\ UNCHANGED <<conn, taken, saving, response, backlog, clientVars, faults>>

\* ... and file:close() the rest.  The results of both are ignored.
CloseSaveUnflushed ==         \* mutation: the file is not closed before the reply
    /\ pc = "close"
    /\ UNCHANGED <<disk, faults>>
    /\ saving' = None
    /\ Redirect
    /\ UNCHANGED <<conn, taken, backlog, clientVars>>
CloseSave ==
    /\ pc = "close"
    /\ \/ /\ disk' = [disk EXCEPT ![saving.page] = Part(saving.text, saving.cells)]
          /\ UNCHANGED faults
       \/ /\ "diskFull" \in Faults
          /\ faults < MaxFaults
          /\ faults' = faults + 1
          /\ UNCHANGED disk
    /\ saving' = None
    /\ Redirect
    /\ UNCHANGED <<conn, taken, backlog, clientVars>>

\* writeToSocket and closesocket; a client that has gone loses the reply.  The
\* step is the end of the loop of writeToSocket, which SocketWriter takes apart.
RespondKeepsStatus ==         \* mutation: the next request starts with this response
    /\ pc = "reply"
    /\ req' = [req EXCEPT ![conn] = None]
    /\ conn' = None
    /\ taken' = 0
    /\ pc' = "accept"
    /\ UNCHANGED <<disk, saving, response, backlog, sent, closed, faults>>
Respond ==
    /\ pc = "reply"
    /\ req' = [req EXCEPT ![conn] = None]
    /\ conn' = None
    /\ taken' = 0
    /\ response' = None
    /\ pc' = "accept"
    /\ UNCHANGED <<disk, saving, backlog, sent, closed, faults>>

\* writeToSocket retries a send() that would block as long as the client is there
\* and does not read: only the client ends the loop.
WaitsForClient == pc = "reply" /\ ~ closed[conn]

(* The end of the process *)

\* exit(): the operating system closes every connection, queued or accepted.
Exit ==
    /\ pc' = "down"
    /\ conn' = None
    /\ taken' = 0
    /\ saving' = None
    /\ response' = None
    /\ backlog' = << >>
    /\ req' = [c \in Clients |-> None]
    /\ UNCHANGED <<disk, sent, closed>>

FatalError ==
    /\ pc = "error"
    /\ Exit
    /\ UNCHANGED faults

\* README: "To stop web server just terminate MoonWiki.exe process."
Kill ==
    /\ "kill" \in Faults
    /\ faults < MaxFaults
    /\ pc # "down"
    /\ Exit
    /\ faults' = faults + 1

Start ==
    /\ pc = "down"
    /\ pc' = "accept"
    /\ UNCHANGED <<disk, conn, taken, saving, response, backlog, clientVars, faults>>

\* Another program writes or deletes the file of a page that is not being saved.
Editor ==
    /\ "editor" \in Faults
    /\ \E p \in WikiWords \ Specials, content \in Undamaged :
         /\ ~ BeingSaved(p)
         /\ disk' = [disk EXCEPT ![p] = content]
    /\ UNCHANGED <<serverVars, backlog, clientVars, faults>>

ServerStep ==
    \/ Accept \/ AcceptFails \/ RecvHeader \/ RecvBody \/ RecvFails
    \/ View \/ Load \/ Edit \/ HeadRequest
    \/ RefuseForm \/ CancelEditing \/ RefuseSave
    \/ OpenSave \/ WriteSave \/ CloseSave
    \/ Respond \/ FatalError

Next ==
    \/ ServerStep
    \/ \E c \in Clients :
         \/ \E r \in Requests : Connect(c, r)
         \/ Send(c)
         \/ Abort(c)
    \/ Kill
    \/ Start
    \/ Editor

\* The process runs.  A browser that does not go away sends its whole request and
\* reads its whole reply: the process has no timeout and holds every other client
\* until it does.
Fairness ==
    /\ WF_vars(ServerStep /\ ~ WaitsForClient)
    /\ \A c \in Clients : WF_vars(Send(c)) /\ WF_vars(Respond /\ conn = c)

Spec == Init /\ [][Next]_vars /\ Fairness

-----------------------------------------------------------------------------

Saves == [page : Names, text : Texts, cells : 0..TextCells, old : Contents]

Responses == [status : {200, 303, 400, 500}, shows : Contents \cup {Builtin, None}]

TypeOK ==
    /\ disk \in [Names -> Contents]
    /\ pc \in {"down", "accept", "header", "body", "handle", "load", "write",
              "close", "reply", "error"}
    /\ conn \in Clients \cup {None}
    /\ conn = None <=> pc \in {"down", "accept"}
    /\ conn # None => req[conn] # None
    /\ taken \in 0..(HeaderCells + BodyCells)
    /\ pc \in {"body", "handle", "load", "write", "close"} => taken >= HeaderCells
    /\ saving \in IF pc \in {"write", "close"} THEN Saves ELSE {None}
    /\ response \in IF pc = "reply" THEN Responses ELSE {None}
    /\ backlog \in Seq(Clients)
    /\ req \in [Clients -> Requests \cup {None}]
    /\ sent \in [Clients -> 0..(HeaderCells + BodyCells)]
    /\ closed \in [Clients -> BOOLEAN]
    /\ faults \in 0..MaxFaults

\* Every client with a request has exactly one connection, the accepted one or
\* one in the queue of the listening socket: no request is handled twice or left
\* behind, whatever ends the process (runServer, fatalError).
OneConnection ==
    \A c \in Clients :
        Cardinality({i \in DOMAIN backlog : backlog[i] = c})
            = IF req[c] = None \/ conn = c THEN 0 ELSE 1

\* The file of every page but the one being saved is whole or absent.  So it is
\* without kills and failed writes, wherever recv() cuts the forms, because the text
\* of a form arrives before the title that names the file (createSpecialEditPage,
\* doSaveAfterEditing, savePage): see PagesStayWhole.
StoredWhole == \A p \in Names : BeingSaved(p) \/ disk[p] \in Undamaged

\* A redirection after a save says that the file of the page of the form holds
\* the whole text (postHandlerSave, postHandlerCheckpoint).
AcknowledgedSaved ==
    pc = "reply" /\ req[conn].op \in SaveOps /\ response.status = 303
        => disk[req[conn].page] = Whole(req[conn].text)

\* A step of the process changes a file only for a browser that has not been
\* answered and asks to save that very page; only a form whose title was cut
\* writes another file, the one that the rest of the title names.  Kills and
\* restarts touch no other file.
OnlyNamedPageChanges ==
    [][\/ UNCHANGED serverVars
       \/ \A p \in Names : disk'[p] # disk[p] =>
            \E c \in Clients :
              /\ req[c] # None
              /\ req[c].op \in SaveOps
              /\ \/ p = req[c].page
                 \/ /\ c = conn
                    /\ taken < Cells(req[c])
                    /\ p \in {EmptyName, CutTitle[req[c].page]}]_vars

\* Each kill and each failed write damages at most one page; cut titles, refused
\* forms, crashes of the script and restarts damage none.
DamageBounded ==
    Cardinality({p \in Names : disk[p] \notin Undamaged /\ ~ BeingSaved(p)}) <= faults

\* What can end the process: a HEAD request, a form without a field that the
\* handler uses, and a page deleted between topicExists and loadPage.
OnlyKnownErrors ==
    pc = "error" =>
        \/ req[conn].op = "Head"
        \/ req[conn].op \in FormOps /\ ~ Has("action")
        \/ req[conn].op = "CancelEditing" /\ ~ Has("page")
        \/ req[conn].op = "View" /\ "editor" \in Faults

\* Requests that the pages of the engine make never end the process when they
\* arrive unabridged.
NoError == pc # "error"

\* Every request is answered, or its connection is lost, although all of them
\* wait for one process that handles them one by one (runServer) and every browser
\* can hold it: before the form is sent, and before the reply is read.
Answered == \A c \in Clients : req[c] # None ~> req[c] = None

\* HttpServer.lua:65: postData is the whole POST data, so no form is saved that
\* has not arrived to its end.
WholePostData == pc = "write" => taken = Cells(req[conn])

-----------------------------------------------------------------------------
(* The pages as registers *)

P == INSTANCE PageStore WITH
    Contents <- Contents,
    AsWhole  <- Whole,
    store    <- IF pc \in {"write", "close"}
                THEN [disk EXCEPT ![saving.page] = saving.old] ELSE disk,
    asked    <- req,
    answer   <- [c \in Clients |-> IF c = conn THEN response ELSE None]

\* Every request takes effect at one instant: the wiki implements atomic pages.
PagesAreAtomic == P!Spec
=============================================================================
