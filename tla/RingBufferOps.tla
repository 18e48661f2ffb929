---------------------------- MODULE RingBufferOps ----------------------------
(***************************************************************************)
(* The pointer arithmetic of class RingBuffer                              *)
(* (src/daemon/src/audio/ringbuffer.cpp) as operators on a record.         *)
(*                                                                         *)
(* A ring is a circular store of Size cells with one write position (mEnd) *)
(* and one read pointer per reader (_readpointer, a std::map from reader   *)
(* id to position).  The operators keep the names of the methods.          *)
(***************************************************************************)
EXTENDS Integers, FiniteSetsExt

CONSTANT Size        \* mBufferSize

ASSUME SizeAssumption == Size \in Nat \ {0}

Positions == 0 .. Size - 1

\* The rings whose readers are taken from Ids.
Rings(Ids) == [mEnd : Positions, rp : UNION {[D -> Positions] : D \in SUBSET Ids}]

\* A ring just constructed: nothing written, no reader.
NewRing == [mEnd |-> 0, rp |-> [r \in {} |-> 0]]

Readers(ring) == DOMAIN ring.rp

(***************************************************************************)
(* Positions and lengths.                                                  *)
(***************************************************************************)

\* A reader without a pointer is served as if its pointer were 0.
getReadPointer(ring, r) == IF r \in Readers(ring) THEN ring.rp[r] ELSE 0

\* The numerically smallest read pointer, which after the write position has
\* wrapped is not the pointer of the reader that is furthest behind.
getSmallestReadPointer(ring) ==
    IF Readers(ring) = {} THEN 0 ELSE Min({ring.rp[r] : r \in Readers(ring)})

Distance(from, to) == (to + Size - from) % Size

\* Mutant: the writer measures from the start of the buffer.
putLenFromStart(ring) == ring.mEnd

putLen(ring) == Distance(getSmallestReadPointer(ring), ring.mEnd)

getLen(ring, r) == Distance(getReadPointer(ring, r), ring.mEnd)

(***************************************************************************)
(* Read pointers.                                                          *)
(***************************************************************************)

withPointers(ring, rp) == [ring EXCEPT !.rp = rp]

storeReadPointer(ring, value, r) ==
    withPointers(ring, [x \in Readers(ring) |-> IF x = r THEN value ELSE ring.rp[x]])

\* Mutant: a new reader starts at the beginning of the buffer.
createReadPointerAtStart(ring, r) ==
    withPointers(ring, [x \in Readers(ring) \cup {r} |->
                            IF x \in Readers(ring) THEN ring.rp[x] ELSE 0])

createReadPointer(ring, r) ==
    withPointers(ring, [x \in Readers(ring) \cup {r} |->
                            IF x \in Readers(ring) THEN ring.rp[x] ELSE ring.mEnd])

removeReadPointer(ring, r) ==
    withPointers(ring, [x \in Readers(ring) \ {r} |-> ring.rp[x]])

flush(ring, r) == storeReadPointer(ring, ring.mEnd, r)

\* Mutant: flushing resets the pointers instead of moving them to the end.
flushAllToStart(ring) == withPointers(ring, [x \in Readers(ring) |-> 0])

flushAll(ring) == withPointers(ring, [x \in Readers(ring) |-> ring.mEnd])

(***************************************************************************)
(* Data.  PutSize, GetSize and DiscardSize are the numbers of cells the    *)
(* method moves when n are asked for; Get and Discard return theirs.       *)
(***************************************************************************)

PutSize(ring, n) == IF n > Size - putLen(ring) THEN Size - putLen(ring) ELSE n

Put(ring, n) == [ring EXCEPT !.mEnd = (ring.mEnd + PutSize(ring, n)) % Size]

DiscardSize(ring, n, r) == IF n > getLen(ring, r) THEN getLen(ring, r) ELSE n

GetSize(ring, n, r) == IF r \in Readers(ring) THEN DiscardSize(ring, n, r) ELSE 0

\* Get and Discard move the pointer in the same way; a reader without a
\* pointer has none to move.
Discard(ring, n, r) ==
    storeReadPointer(ring, (getReadPointer(ring, r) + DiscardSize(ring, n, r)) % Size, r)

Get(ring, n, r) == Discard(ring, n, r)
==============================================================================
