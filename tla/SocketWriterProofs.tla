------------------------- MODULE SocketWriterProofs -------------------------
(***************************************************************************)
(* Proofs about writeToSocket: see SocketWriter.                           *)
(***************************************************************************)
EXTENDS SocketWriter, SequenceTheorems, TLAPS

Unsent == pc # "returned" => \A i \in 1..Len(wire) : wire[i] < dbuf

\* While every send fits one send() call, wire is the prefix the loop counted.
ShortPrefix ==
    olen < Chunk => wire = Offsets(0, IF pc = "returned" THEN olen ELSE dbuf)

IInv ==
    /\ TypeOK
    /\ dbuf + dlen = olen
    /\ Unsent
    /\ InOrder
    /\ ShortPrefix

-----------------------------------------------------------------------------

\* The offsets of a send form a sequence.
LEMMA OffsetsProperties ==
    ASSUME NEW first \in Nat, NEW count \in Nat
    PROVE  /\ Offsets(first, count) \in Seq(first..(first + count - 1))
           /\ Len(Offsets(first, count)) = count
           /\ \A i \in 1..count : Offsets(first, count)[i] = first + i - 1
  BY DEF Offsets

\* The first count bytes of a reply.
LEMMA PrefixProperties ==
    ASSUME NEW count \in Nat
    PROVE  /\ Offsets(0, count) \in Seq(Nat)
           /\ Len(Offsets(0, count)) = count
           /\ \A i \in 1..count : Offsets(0, count)[i] = i - 1
  <1>1. Offsets(0, count) = [i \in 1..count |-> i - 1]
    BY DEF Offsets
  <1> QED
    BY <1>1

\* A send of the bytes at dbuf keeps wire a sequence of offsets.
LEMMA PutProperties ==
    ASSUME IInv, NEW slen \in Nat, dbuf + slen <= olen, Put(slen)
    PROVE  /\ wire' \in Seq(0..(olen - 1))
           /\ Len(wire') = Len(wire) + slen
           /\ \A i \in 1..Len(wire') :
                 wire'[i] = IF i <= Len(wire) THEN wire[i]
                                              ELSE dbuf + (i - Len(wire)) - 1
  <1> DEFINE new == Offsets(dbuf, slen)
  <1> /\ dbuf \in Nat /\ olen \in Nat /\ wire \in Seq(0..(olen - 1))
    BY SocketWriterAssumption DEF IInv, TypeOK
  <1>1. /\ new \in Seq(dbuf..(dbuf + slen - 1))
        /\ Len(new) = slen
        /\ \A i \in 1..slen : new[i] = dbuf + i - 1
    BY OffsetsProperties
  <1>2. dbuf..(dbuf + slen - 1) \subseteq 0..(olen - 1)
    OBVIOUS
  <1>3. new \in Seq(0..(olen - 1))
    BY <1>1, <1>2, SeqMonotonic
  <1> HIDE DEF new
  <1>4. wire' = wire \o new
    BY DEF Put, new
  <1>5. Len(wire) \in Nat
    BY LenProperties
  <1>6. /\ wire \o new \in Seq(0..(olen - 1))
        /\ Len(wire \o new) = Len(wire) + Len(new)
        /\ \A i \in 1..(Len(wire) + Len(new)) :
              (wire \o new)[i] = IF i <= Len(wire) THEN wire[i] ELSE new[i - Len(wire)]
    BY <1>3, ConcatProperties
  <1> QED
    BY <1>1, <1>4, <1>5, <1>6

\* A send of the bytes at dbuf keeps wire in order when dbuf is past all of it.
LEMMA PutKeepsOrder ==
    ASSUME IInv, NEW slen \in Nat,
           \A i \in 1..Len(wire) : wire[i] < dbuf,
           wire' \in Seq(0..(olen - 1)),
           Len(wire') = Len(wire) + slen,
           \A i \in 1..Len(wire') :
                 wire'[i] = IF i <= Len(wire) THEN wire[i]
                                              ELSE dbuf + (i - Len(wire)) - 1
    PROVE  /\ InOrder'
           /\ \A i \in 1..Len(wire') : wire'[i] < dbuf + slen
  <1> dbuf \in Nat /\ Len(wire) \in Nat
    BY SocketWriterAssumption, LenProperties DEF IInv, TypeOK
  <1>1. \A i \in 1..Len(wire) : wire[i] \in Nat
    BY ElementOfSeq DEF IInv, TypeOK
  <1>2. \A i, j \in 1..Len(wire') : i < j => wire'[i] < wire'[j]
    BY <1>1 DEF IInv, InOrder
  <1> QED
    BY <1>1, <1>2 DEF InOrder

-----------------------------------------------------------------------------

LEMMA SendReturnsProperties ==
    ASSUME TypeOK, NEW n \in Nat, NEW slen \in SendReturns(n)
    PROVE  slen \in 0..n
  BY SocketWriterAssumption DEF TypeOK, SendReturns, Least

\* Each step of the loop and of the client keeps the invariant.
LEMMA IInvInductive == IInv /\ [Next]_vars => IInv'
  <1> SUFFICES ASSUME IInv, [Next]_vars
               PROVE  IInv'
    OBVIOUS
  <1> USE SocketWriterAssumption
  <1> /\ olen \in Nat /\ dbuf \in Nat /\ dlen \in Nat /\ Len(wire) \in Nat
    BY LenProperties DEF IInv, TypeOK
  <1>1. CASE SendRest
    <2> PICK slen \in SendReturns(dlen) :
          /\ Put(slen)
          /\ \/ /\ slen = dlen
                /\ pc' = "returned"
                /\ UNCHANGED <<dbuf, dlen>>
             \/ /\ slen # dlen
                /\ Advance(slen)
                /\ pc' = pc
      BY <1>1 DEF Advance, SendRest
    <2>1. slen \in 0..dlen
      BY SendReturnsProperties DEF IInv
    <2>2. /\ wire' \in Seq(0..(olen - 1))
          /\ Len(wire') = Len(wire) + slen
          /\ \A i \in 1..Len(wire') :
                wire'[i] = IF i <= Len(wire) THEN wire[i]
                                             ELSE dbuf + (i - Len(wire)) - 1
      BY <2>1, PutProperties DEF IInv
    <2>3. TypeOK'
      BY <1>1, <2>1, <2>2 DEF Advance, SendRest, Put, Advance, IInv, TypeOK
    <2>4. Unsent' /\ InOrder'
      <3>1. InOrder' /\ \A i \in 1..Len(wire') : wire'[i] < dbuf + slen
        <4>1. \A i \in 1..Len(wire) : wire[i] < dbuf
          BY <1>1 DEF Advance, SendRest, IInv, Unsent
        <4>2. slen \in Nat
          BY <2>1
        <4> QED
          BY <2>2, <4>1, <4>2, PutKeepsOrder
      <3> QED
        BY <1>1, <2>1, <3>1 DEF Advance, SendRest, Unsent
    <2>5. ASSUME olen < Chunk
          PROVE  wire' = Offsets(0, IF pc' = "returned" THEN olen ELSE dbuf')
      <3>1. wire = Offsets(0, dbuf)
        BY <1>1, <2>5 DEF Advance, SendRest, IInv, ShortPrefix
      <3>2. Len(wire) = dbuf /\ \A i \in 1..dbuf : wire[i] = i - 1
        BY <3>1, PrefixProperties
      <3>3. dbuf + slen = (IF pc' = "returned" THEN olen ELSE dbuf')
        BY <1>1, <2>1 DEF Advance, SendRest, IInv
      <3>4. \A i \in 1..(dbuf + slen) : wire'[i] = Offsets(0, dbuf + slen)[i]
        <4>1. \A i \in 1..(dbuf + slen) : Offsets(0, dbuf + slen)[i] = i - 1
          BY <2>1, PrefixProperties
        <4> QED
          BY <2>1, <2>2, <3>2, <4>1
      <3>5. Offsets(0, dbuf + slen) \in Seq(Nat) /\ Len(Offsets(0, dbuf + slen)) = dbuf + slen
        BY <2>1, PrefixProperties
      <3>6. wire' \in Seq(Nat) /\ Len(wire') = dbuf + slen
        BY <2>1, <2>2, <3>2, SeqMonotonic
      <3>7. wire' = Offsets(0, dbuf + slen)
        BY <3>4, <3>5, <3>6, SeqEqual
      <3> QED
        BY <3>3, <3>7
    <2>6. ShortPrefix' /\ (dbuf + dlen = olen)'
      BY <1>1, <2>1, <2>5 DEF Advance, SendRest, IInv, ShortPrefix
    <2> QED
      BY <2>3, <2>4, <2>6 DEF IInv
  <1>2. CASE SendChunk
    <2> PICK slen \in SendReturns(Chunk) : Put(slen)
      BY <1>2 DEF Advance, SendChunk
    <2>1. slen \in 0..Chunk
      BY SendReturnsProperties DEF IInv
    <2>2. Chunk <= dlen /\ dbuf + Chunk <= olen
      BY <1>2 DEF Advance, SendChunk, IInv
    <2>3. /\ wire' \in Seq(0..(olen - 1))
          /\ Len(wire') = Len(wire) + slen
          /\ \A i \in 1..Len(wire') :
                wire'[i] = IF i <= Len(wire) THEN wire[i]
                                             ELSE dbuf + (i - Len(wire)) - 1
      BY <2>1, <2>2, PutProperties
    <2>4. TypeOK'
      BY <1>2, <2>1, <2>2, <2>3 DEF Advance, SendChunk, Put, IInv, TypeOK
    <2>5. Unsent' /\ InOrder'
      <3>1. InOrder' /\ \A i \in 1..Len(wire') : wire'[i] < dbuf + slen
        BY <1>2, <2>1, <2>2, <2>3, PutKeepsOrder DEF Advance, SendChunk, IInv, Unsent
      <3>2. \A i \in 1..Len(wire') : wire'[i] \in Nat
        BY <2>3, ElementOfSeq
      <3> QED
        BY <1>2, <2>1, <3>1, <3>2 DEF Advance, SendChunk, Unsent
    <2>6. ShortPrefix' /\ (dbuf + dlen = olen)'
      BY <1>2, <2>2 DEF Advance, SendChunk, IInv, ShortPrefix
    <2> QED
      BY <2>4, <2>5, <2>6 DEF IInv
  <1>3. CASE SendFails
    BY <1>3 DEF SendFails, IInv, TypeOK, Unsent, InOrder, ShortPrefix
  <1>4. CASE PeerReads
    BY <1>4 DEF PeerReads, IInv, TypeOK, Unsent, InOrder, ShortPrefix
  <1>5. CASE PeerCloses
    BY <1>5 DEF PeerCloses, IInv, TypeOK, Unsent, InOrder, ShortPrefix
  <1>6. CASE UNCHANGED vars
    BY <1>6 DEF vars, IInv, TypeOK, Unsent, InOrder, ShortPrefix
  <1> QED
    BY <1>1, <1>2, <1>3, <1>4, <1>5, <1>6 DEF Next

LEMMA InitIInv == Init => IInv
  <1> SUFFICES ASSUME Init PROVE IInv
    OBVIOUS
  <1>1. Offsets(0, 0) = << >>
    BY DEF Offsets
  <1> QED
    BY <1>1, SocketWriterAssumption, EmptySeq
    DEF Init, IInv, TypeOK, Unsent, InOrder, ShortPrefix

LEMMA Invariance == Spec => []IInv
  BY InitIInv, IInvInductive, PTL DEF Spec

-----------------------------------------------------------------------------

\* The state of the loop is what its C types and its bounds say, for every
\* length of a reply: writeToSocket never offers bytes outside the reply.
THEOREM TypeCorrect == Spec => []TypeOK
  <1>1. IInv => TypeOK
    BY DEF IInv
  <1> QED
    BY <1>1, Invariance, PTL

\* Whatever part of each send the socket takes, writeToSocket never sends a
\* byte of the reply twice or out of order.
THEOREM BytesInOrder == Spec => []InOrder
  <1>1. IInv => InOrder
    BY DEF IInv
  <1> QED
    BY <1>1, Invariance, PTL

\* A reply shorter than 65536 bytes for which writeToSocket returns its length
\* has been taken whole by the socket.
THEOREM ShortReplyComplete == Spec => []ShortReplySent
  <1>1. IInv => ShortReplySent
    BY DEF IInv, ShortPrefix, ShortReplySent
  <1> QED
    BY <1>1, Invariance, PTL
=============================================================================
