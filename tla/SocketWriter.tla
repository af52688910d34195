---------------------------- MODULE SocketWriter ----------------------------
(***************************************************************************)
(* writeToSocket (MoonWiki.c): the loop that pushes a reply of olen bytes  *)
(* into the non-blocking connection socket.  A byte is known by its offset *)
(* in the reply; wire is the sequence of offsets the socket has taken, in  *)
(* the order in which the client will read them.  dbuf is the offset of    *)
(* the next byte the loop will offer and dlen the number of bytes left.    *)
(***************************************************************************)
EXTENDS Naturals, Sequences

CONSTANTS
    Chunk,      \* 65536 in the code: the largest length given to one send()
    SendBuffer, \* free bytes the socket layer has for an idle connection
    MaxLen      \* bound on the length of a reply

ASSUME SocketWriterAssumption ==
    /\ Chunk \in Nat \ {0}
    /\ SendBuffer \in Nat \ {0}
    /\ MaxLen \in Nat \ {0}

VARIABLES
    pc,         \* where writeToSocket is
    olen,       \* length of the reply, the value a complete write returns
    dbuf,       \* offset of the first byte not yet offered
    dlen,       \* number of bytes left
    wire,       \* the bytes the socket has taken
    unread,     \* how many bytes of wire the client has not read yet
    peerOpen    \* whether the client still has the connection open

vars == <<pc, olen, dbuf, dlen, wire, unread, peerOpen>>

Least(a, b) == IF a < b THEN a ELSE b

\* runServer calls writeToSocket only when len > 0.
Init ==
    /\ pc = "sending"
    /\ olen \in 1..MaxLen
    /\ dbuf = 0
    /\ dlen = olen
    /\ wire = << >>
    /\ unread = 0
    /\ peerOpen = TRUE

\* The outcomes of send(connectionSocket, dbuf, n, 0) that are not errors: a
\* non-blocking socket takes what fits, at least one byte when n > 0.
SendReturns(n) ==
    IF n = 0 THEN {0} ELSE 1..Least(n, SendBuffer - unread)

Offsets(first, count) == [i \in 1..count |-> first + i - 1]

Put(slen) ==
    /\ wire' = wire \o Offsets(dbuf, slen)
    /\ unread' = unread + slen

\* dbuf += n; dlen -= n
AdvanceLengthOnly(n) ==     \* mutation: dbuf += n is missing
    /\ dbuf' = dbuf
    /\ dlen' = dlen - n
AdvanceBufferOnly(n) ==     \* mutation: dlen -= n is missing
    /\ dbuf' = dbuf + n
    /\ dlen' = dlen
Advance(n) ==
    /\ dbuf' = dbuf + n
    /\ dlen' = dlen - n

\* dlen < 65536: the whole rest is offered and the loop advances by what was taken.
SendRest ==
    /\ pc = "sending"
    /\ dlen < Chunk
    /\ \E slen \in SendReturns(dlen) :
         /\ Put(slen)
         /\ \/ /\ slen = dlen
               /\ pc' = "returned"
               /\ UNCHANGED <<dbuf, dlen>>
            \/ /\ slen # dlen
               /\ Advance(slen)
               /\ pc' = pc
    /\ UNCHANGED <<olen, peerOpen>>

\* dlen >= 65536: 65536 bytes are offered and the loop advances by 65536
\* whatever send() returned.
SendChunk ==
    /\ pc = "sending"
    /\ dlen >= Chunk
    /\ \E slen \in SendReturns(Chunk) : Put(slen)
    /\ Advance(Chunk)
    /\ UNCHANGED <<pc, olen, peerOpen>>

\* send() fails with an error other than WSAEWOULDBLOCK: the loop breaks.
\* WSAEWOULDBLOCK itself is the stuttering step: Sleep(0) and try again.
SendFailsRetried ==         \* mutation: every error is taken for WSAEWOULDBLOCK
    /\ FALSE
    /\ UNCHANGED vars
SendFails ==
    /\ pc = "sending"
    /\ ~ peerOpen
    /\ pc' = "failed"
    /\ UNCHANGED <<olen, dbuf, dlen, wire, unread, peerOpen>>

PeerReads ==
    /\ peerOpen
    /\ \E n \in 1..unread : unread' = unread - n
    /\ UNCHANGED <<pc, olen, dbuf, dlen, wire, peerOpen>>

PeerCloses ==
    /\ peerOpen
    /\ peerOpen' = FALSE
    /\ UNCHANGED <<pc, olen, dbuf, dlen, wire, unread>>

Next == SendRest \/ SendChunk \/ SendFails \/ PeerReads \/ PeerCloses

Fairness == WF_vars(SendRest) /\ WF_vars(SendChunk) /\ WF_vars(SendFails) /\ WF_vars(PeerReads)

Spec == Init /\ [][Next]_vars /\ Fairness

-----------------------------------------------------------------------------

TypeOK ==
    /\ pc \in {"sending", "returned", "failed"}
    /\ olen \in 1..MaxLen
    /\ dbuf \in 0..olen
    /\ dlen \in 0..olen
    /\ wire \in Seq(0..(olen - 1))
    /\ unread \in 0..Len(wire)
    /\ peerOpen \in BOOLEAN

\* No byte of the reply is sent twice or out of order, however the socket
\* splits the sends of writeToSocket.
InOrder == \A i, j \in 1..Len(wire) : i < j => wire[i] < wire[j]

\* When writeToSocket returns olen for a reply shorter than 65536 bytes, the
\* socket has taken the whole reply (the dlen < 65536 branch).
ShortReplySent == (pc = "returned" /\ olen < Chunk) => wire = Offsets(0, olen)

\* What MoonWiki.c:114 says of every reply: the buffer of dlen bytes is sent.
WholeReplySent == pc = "returned" => wire = Offsets(0, olen)

\* The loop of writeToSocket ends for a client that keeps reading or goes away.
WriteEnds == <>(pc # "sending")

=============================================================================
