------------------------------ MODULE RingBuffer ------------------------------
(***************************************************************************)
(* One RingBuffer shared by a writer and several readers, each call being  *)
(* made under MainBuffer's mutex (or, for the echo canceller's rings, by   *)
(* one thread), so that a call is one step.                                *)
(*                                                                         *)
(* The cells hold serial numbers modulo Serials instead of sample bytes.   *)
(* backlog is a history variable: for each present reader, how many items  *)
(* were written and not yet read or skipped by it.                         *)
(***************************************************************************)
EXTENDS RingBufferOps, Sequences

CONSTANTS Ids,          \* the possible readers
          Serials,      \* serial numbers are 0 .. Serials - 1
          MaxChunk,     \* bound: items asked for in one call
          MaxBacklog    \* bound: backlog a reader may reach

ASSUME RingBufferAssumption ==
    /\ Serials \in Nat \ {0}
    /\ MaxChunk \in Nat
    /\ MaxBacklog \in Nat

VARIABLES ring,      \* the pointers
          mBuffer,   \* the cells
          serial,    \* the number of the next item
          out,       \* the items the last Get returned
          backlog    \* history: unread items of each present reader

vars == <<ring, mBuffer, serial, out, backlog>>

TypeOK ==
    /\ ring \in Rings(Ids)
    /\ mBuffer \in [Positions -> 0 .. Serials - 1]
    /\ serial \in 0 .. Serials - 1
    /\ out \in Seq(0 .. Serials - 1)
    /\ backlog \in [Readers(ring) -> Nat]

\* The n cells from position p on, the wrap around the end included.
Cells(p, n) == [i \in 1 .. n |-> mBuffer[(p + i - 1) % Size]]

Init ==
    /\ ring = NewRing
    /\ mBuffer = [p \in Positions |-> 0]
    /\ serial = 0
    /\ out = <<>>
    /\ backlog = [r \in {} |-> 0]

AddReader(r) ==
    /\ ring' = createReadPointer(ring, r)
    /\ backlog' = [x \in Readers(ring) \cup {r} |->
                      IF x \in Readers(ring) THEN backlog[x] ELSE 0]
    /\ out' = <<>>
    /\ UNCHANGED <<mBuffer, serial>>

RemoveReader(r) ==
    /\ ring' = removeReadPointer(ring, r)
    /\ backlog' = [x \in Readers(ring) \ {r} |-> backlog[x]]
    /\ out' = <<>>
    /\ UNCHANGED <<mBuffer, serial>>

\* The writer puts the first PutSize of its n items; the rest is dropped.
PutData(n) ==
    LET m == PutSize(ring, n) IN
    /\ \A r \in Readers(ring) : backlog[r] + n <= MaxBacklog
    /\ ring' = Put(ring, n)
    /\ mBuffer' = [p \in Positions |->
                      LET i == Distance(ring.mEnd, p)
                      IN  IF i < m THEN (serial + i) % Serials ELSE mBuffer[p]]
    /\ serial' = (serial + m) % Serials
    /\ backlog' = [r \in Readers(ring) |-> backlog[r] + m]
    /\ out' = <<>>

GetData(r, n) ==
    /\ ring' = Get(ring, n, r)
    /\ out' = Cells(getReadPointer(ring, r), GetSize(ring, n, r))
    /\ backlog' = [x \in Readers(ring) |->
                      IF x = r THEN backlog[x] - GetSize(ring, n, r) ELSE backlog[x]]
    /\ UNCHANGED <<mBuffer, serial>>

DiscardData(r, n) ==
    /\ ring' = Discard(ring, n, r)
    /\ backlog' = [x \in Readers(ring) |->
                      IF x = r THEN backlog[x] - DiscardSize(ring, n, r) ELSE backlog[x]]
    /\ out' = <<>>
    /\ UNCHANGED <<mBuffer, serial>>

Flush(r) ==
    /\ ring' = flush(ring, r)
    /\ backlog' = [x \in Readers(ring) |-> IF x = r THEN 0 ELSE backlog[x]]
    /\ out' = <<>>
    /\ UNCHANGED <<mBuffer, serial>>

FlushAll ==
    /\ ring' = flushAll(ring)
    /\ backlog' = [x \in Readers(ring) |-> 0]
    /\ out' = <<>>
    /\ UNCHANGED <<mBuffer, serial>>

Next ==
    \/ \E r \in Ids : AddReader(r) \/ RemoveReader(r) \/ Flush(r)
    \/ FlushAll
    \/ \E n \in 0 .. MaxChunk :
          \/ PutData(n)
          \/ \E r \in Ids : GetData(r, n) \/ DiscardData(r, n)

Spec == Init /\ [][Next]_vars

------------------------------------------------------------------------------
(***************************************************************************)
(* Properties.                                                             *)
(***************************************************************************)

\* What a reader is told is available (getLen) is its true backlog modulo the
\* size, however the pointers wrapped: the arithmetic of Put, Get, Discard and
\* the flushes never drifts, even when data was overwritten.
AvailableIsBacklog ==
    \A r \in Readers(ring) : getLen(ring, r) = backlog[r] % Size

\* A reader is so far behind that unread items of it were overwritten, or
\* that it is told of none.
Overrun == \E r \in Readers(ring) : backlog[r] >= Size

\* As long as the readers keep up, and again when they have caught up or were
\* flushed, the pointers of all of them together with the cells implement one
\* queue per reader: nothing is lost, repeated or overwritten, and no reader
\* disturbs another.
Fifo == INSTANCE BroadcastFifo
            WITH queue <- [r \in Readers(ring) |->
                               Cells(ring.rp[r], getLen(ring, r))]

ReadersGetEverything ==
    /\ Fifo!Init
    /\ [][Overrun \/ Overrun' \/ Fifo!Next]_(Fifo!vars)

\* A writer for which every reader has room has all its items stored: putLen
\* is never more than the largest length of a reader, so Put does not clip.
NoClipWhileRoom ==
    [][\A n \in 0 .. MaxChunk :
          (PutData(n) /\ \A r \in Readers(ring) : getLen(ring, r) + n < Size)
              => \A r \in Readers(ring) : backlog'[r] = backlog[r] + n]_vars

(***************************************************************************)
(* What the sources say and the code does not do.                          *)
(***************************************************************************)

\* ringbuffer.h calls the smallest read pointer "Usefull to evaluate if
\* ringbuffer is full": the length seen by the writer would be that of the
\* reader that is furthest behind.
SmallestPointerIsFurthestBehind ==
    \A r \in Readers(ring) : getLen(ring, r) <= putLen(ring)

\* Put clips what it is given to the free space so that unread data stays
\* ("Get will move 'toCopy' bytes from the internal FIFO"): a Put never
\* makes a reader's unread data disappear.
PutKeepsUnread ==
    [][\A n \in 0 .. MaxChunk :
          PutData(n) => \A r \in Readers(ring) :
                            getLen(ring', r) >= getLen(ring, r)]_vars
==============================================================================
