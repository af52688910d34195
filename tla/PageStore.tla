----------------------------- MODULE PageStore -----------------------------
(***************************************************************************)
(* What the wiki promises a browser: every page is an atomic register.  A  *)
(* request takes effect at one instant between the moment it is asked and  *)
(* the moment its connection ends: viewing or editing shows the page as it *)
(* is at that instant, saving replaces it by the text of the form, and a   *)
(* request that is refused or lost changes nothing.                        *)
(***************************************************************************)
CONSTANTS
    Clients,    \* browsers, one connection each
    Names,      \* titles that name a file of the wiki
    Specials,   \* titles of the pages built into the engine
    Contents,   \* what a file can hold, Absent included
    Texts,      \* texts a form can carry
    Requests,   \* records with fields op, page and text
    Absent,     \* there is no such page
    Builtin,    \* the page the engine makes for a special title
    None,       \* no request, no answer
    AsWhole(_)  \* the content of a file that holds a text

VARIABLES
    store,      \* the page registers
    asked,      \* the request of each client
    answer      \* what the request returned, once it has taken effect

vars == <<store, asked, answer>>

Init ==
    /\ store \in [Names -> Contents]
    /\ asked = [c \in Clients |-> None]
    /\ answer = [c \in Clients |-> None]

Ask(c, r) ==
    /\ asked[c] = None
    /\ asked' = [asked EXCEPT ![c] = r]
    /\ UNCHANGED <<store, answer>>

Pending(c) == asked[c] # None /\ answer[c] = None

Answer(c, status, shows) ==
    answer' = [answer EXCEPT ![c] = [status |-> status, shows |-> shows]]

\* A page is read.  A special title shows the built-in page, whatever is stored.
Read(c) ==
    /\ Pending(c)
    /\ asked[c].op \in {"View", "Edit"}
    /\ LET p == asked[c].page IN
         Answer(c, 200, IF asked[c].op = "View" /\ p \in Specials
                        THEN Builtin ELSE store[p])
    /\ UNCHANGED <<store, asked>>

\* A page is replaced by the whole text of the form.
Write(c) ==
    /\ Pending(c)
    /\ asked[c].op \in {"Save", "Checkpoint"}
    /\ store' = [store EXCEPT ![asked[c].page] = AsWhole(asked[c].text)]
    /\ Answer(c, 303, None)
    /\ UNCHANGED asked

\* Editing is cancelled, or the request is refused: nothing changes.
Refuse(c) ==
    /\ Pending(c)
    /\ \E status \in {303, 400, 404, 500} :
         /\ status = 303 => asked[c].op = "CancelEditing"
         /\ Answer(c, status, None)
    /\ UNCHANGED <<store, asked>>

\* The connection ends: the answer is delivered, or the request is lost.
Done(c) ==
    /\ asked[c] # None
    /\ asked' = [asked EXCEPT ![c] = None]
    /\ answer' = [answer EXCEPT ![c] = None]
    /\ UNCHANGED store

Drop(C) ==
    /\ asked' = [c \in Clients |-> IF c \in C THEN None ELSE asked[c]]
    /\ answer' = [c \in Clients |-> IF c \in C THEN None ELSE answer[c]]
    /\ UNCHANGED store

Next ==
    \/ \E c \in Clients :
         \/ \E r \in Requests : Ask(c, r)
         \/ Read(c) \/ Write(c) \/ Refuse(c) \/ Done(c)
    \/ \E C \in SUBSET Clients : Drop(C)

Spec == Init /\ [][Next]_vars
=============================================================================
