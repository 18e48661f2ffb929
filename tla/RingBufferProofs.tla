--------------------------- MODULE RingBufferProofs ---------------------------
(***************************************************************************)
(* The pointer arithmetic of RingBuffer is right for every size, every set *)
(* of readers and every chunk: what a reader is told is available never    *)
(* drifts from its true backlog, a writer that has room is not clipped,    *)
(* and as long as no reader is overrun the rings implement BroadcastFifo.  *)
(***************************************************************************)
EXTENDS RingBuffer, TLAPS, WellFoundedInduction, SequenceTheorems

------------------------------------------------------------------------------
(***************************************************************************)
(* Arithmetic modulo Size.                                                 *)
(***************************************************************************)

\* The remainder is a position.
LEMMA ModRange == ASSUME NEW x \in Int PROVE x % Size \in Positions
  BY SizeAssumption DEF Positions

\* A remainder is found by subtracting a multiple.
LEMMA ModUnique ==
    ASSUME NEW q \in Int, NEW r \in Positions
    PROVE  (q * Size + r) % Size = r
  BY SizeAssumption DEF Positions

\* Quotient and remainder give the number back.
LEMMA DivMod == ASSUME NEW x \in Int
                PROVE  x \div Size \in Int /\ x = (x \div Size) * Size + (x % Size)
  BY SizeAssumption

\* Below twice the size, the remainder takes at most one subtraction.
LEMMA ModStep ==
    ASSUME NEW x \in 0 .. (2 * Size - 1)
    PROVE  x % Size = IF x < Size THEN x ELSE x - Size
  <1>1. CASE x < Size
    BY <1>1, SizeAssumption
  <1>2. CASE x >= Size
    BY <1>2, SizeAssumption
  <1> QED BY <1>1, <1>2, SizeAssumption

\* The distance between two positions.
LEMMA DistanceValue ==
    ASSUME NEW p \in Positions, NEW e \in Positions
    PROVE  /\ Distance(p, e) = IF e >= p THEN e - p ELSE e + Size - p
           /\ Distance(p, e) \in Positions
  <1>1. e + Size - p \in 0 .. (2 * Size - 1)
    BY SizeAssumption DEF Positions
  <1> QED BY <1>1, ModStep, SizeAssumption DEF Distance, Positions

\* The write position moves by m: a reader's length grows by m modulo Size.
LEMMA DistanceAfterPut ==
    ASSUME NEW p \in Positions, NEW e \in Positions, NEW m \in 0 .. Size
    PROVE  /\ (e + m) % Size \in Positions
           /\ Distance(p, (e + m) % Size) = (Distance(p, e) + m) % Size
  <1> DEFINE l == Distance(p, e)
             x == e + m
             y == l + m
             f == x % Size
  <1>1. l = IF e >= p THEN e - p ELSE e + Size - p
    BY DistanceValue
  <1>2. x \in 0 .. (2 * Size - 1)
    BY SizeAssumption DEF Positions
  <1>3. y \in 0 .. (2 * Size - 1)
    <2> HIDE DEF l
    <2> QED BY <1>1, SizeAssumption DEF Positions
  <1> HIDE DEF l, x, y
  <1>4. f \in Positions
    BY <1>2, ModRange
  <1>5. f = IF x < Size THEN x ELSE x - Size
    BY <1>2, ModStep
  <1>6. y % Size = IF y < Size THEN y ELSE y - Size
    BY <1>3, ModStep
  <1>7. Distance(p, f) = IF f >= p THEN f - p ELSE f + Size - p
    BY <1>4, DistanceValue
  <1> HIDE DEF f
  <1>8. Distance(p, f) = y % Size
    BY <1>1, <1>5, <1>6, <1>7, SizeAssumption DEF Positions, x, y
  <1> QED BY <1>4, <1>8 DEF f, x, y, l

\* The pointer moves by d, at most its length: the length shrinks by d.
LEMMA DistanceAfterRead ==
    ASSUME NEW p \in Positions, NEW e \in Positions, NEW d \in 0 .. Distance(p, e)
    PROVE  /\ (p + d) % Size \in Positions
           /\ Distance((p + d) % Size, e) = Distance(p, e) - d
  <1> DEFINE l == Distance(p, e)
             x == p + d
             f == x % Size
  <1>1. l = IF e >= p THEN e - p ELSE e + Size - p
    BY DistanceValue
  <1> HIDE DEF l
  <1>2. l \in 0 .. Size - 1 /\ d \in 0 .. l
    BY <1>1, SizeAssumption DEF Positions, l
  <1>3. x \in 0 .. (2 * Size - 1)
    BY <1>2, SizeAssumption DEF Positions
  <1> HIDE DEF x
  <1>4. f \in Positions
    BY <1>3, ModRange
  <1>5. f = IF x < Size THEN x ELSE x - Size
    BY <1>3, ModStep
  <1>6. Distance(f, e) = IF e >= f THEN e - f ELSE e + Size - f
    BY <1>4, DistanceValue
  <1> HIDE DEF f
  <1>7. Distance(f, e) = l - d
    BY <1>1, <1>2, <1>5, <1>6, SizeAssumption DEF Positions, x
  <1> QED BY <1>4, <1>7 DEF f, x, l

\* Adding to a number and to its remainder gives the same remainder.
LEMMA ModAdd ==
    ASSUME NEW b \in Int, NEW m \in Int
    PROVE  (b + m) % Size = ((b % Size) + m) % Size
  <1> DEFINE q == b \div Size
             l == (b % Size) + m
             k == l \div Size
             r == l % Size
  <1>1. q \in Int /\ b = q * Size + (b % Size) /\ b % Size \in Int
    BY DivMod, ModRange DEF Positions
  <1>2. l \in Int
    BY <1>1
  <1>3. k \in Int /\ l = k * Size + r /\ r \in Positions
    BY <1>2, DivMod, ModRange
  <1>4. b + m = (q + k) * Size + r
    <2>1. b + m = q * Size + l
      <3> DEFINE s == b % Size
      <3>1. q \in Int /\ b = q * Size + s /\ s \in Int /\ l = s + m
        BY <1>1
      <3> HIDE DEF q, s, l
      <3> QED BY <3>1, SizeAssumption
    <2>2. r \in Int /\ Size \in Int
      BY <1>3, SizeAssumption DEF Positions
    <2> HIDE DEF q, l, k, r
    <2> QED BY <1>1, <1>2, <1>3, <2>1, <2>2
  <1>5. q + k \in Int
    BY <1>1, <1>3
  <1> HIDE DEF q, k, r
  <1>6. ((q + k) * Size + r) % Size = r
    BY <1>3, <1>5, ModUnique
  <1> QED BY <1>4, <1>6 DEF r

\* Taking away no more than the remainder leaves the rest of it.
LEMMA ModSub ==
    ASSUME NEW b \in Nat, NEW d \in 0 .. (b % Size)
    PROVE  b - d \in Nat /\ (b - d) % Size = (b % Size) - d
  <1> DEFINE q == b \div Size
             r == (b % Size) - d
  <1>1. q \in Int /\ b = q * Size + (b % Size) /\ b % Size \in Positions
    BY DivMod, ModRange
  <1>2. r \in Positions
    BY <1>1, SizeAssumption DEF Positions
  <1>3. b - d = q * Size + r
    BY <1>1, SizeAssumption DEF Positions
  <1>4. q >= 0
    BY SizeAssumption
  <1>5. q * Size \in Nat
    BY <1>1, <1>4, SizeAssumption
  <1>6. b - d \in Nat
    BY <1>2, <1>3, <1>5 DEF Positions
  <1> HIDE DEF q, r
  <1>7. (q * Size + r) % Size = r
    BY <1>1, <1>2, ModUnique
  <1> QED BY <1>3, <1>6, <1>7 DEF r

------------------------------------------------------------------------------
(***************************************************************************)
(* The operators of RingBufferOps.                                         *)
(***************************************************************************)

\* The parts of a ring.
LEMMA RingType ==
    ASSUME NEW q \in Rings(Ids)
    PROVE  /\ q = [mEnd |-> q.mEnd, rp |-> q.rp]
           /\ q.mEnd \in Positions
           /\ Readers(q) \in SUBSET Ids
           /\ q.rp \in [Readers(q) -> Positions]
  BY DEF Rings, Readers

\* The smallest read pointer is the pointer of one of the readers.
LEMMA SmallestIsAReader ==
    ASSUME NEW q \in Rings(Ids), Readers(q) # {}
    PROVE  \E r \in Readers(q) : getSmallestReadPointer(q) = q.rp[r]
  <1> DEFINE S == {q.rp[r] : r \in Readers(q)}
  <1>1. S # {} /\ S \subseteq Nat
    BY RingType, SizeAssumption DEF Positions
  <1>2. \E x \in S : \A y \in S : ~ (<<y, x>> \in OpToRel(<, Nat))
    BY <1>1, WFMin, NatLessThanWellFounded
  <1>3. \E x \in S : \A y \in S : x <= y
    <2>1. PICK x \in S : \A y \in S : ~ (<<y, x>> \in OpToRel(<, Nat))
      BY <1>2
    <2>2. ASSUME NEW y \in S PROVE x <= y
      <3>1. x \in Nat /\ y \in Nat
        BY <1>1
      <3>2. ~(y < x)
        BY <2>1, <3>1 DEF OpToRel
      <3> HIDE DEF S
      <3> QED BY <3>1, <3>2
    <2> QED BY <2>2
  <1>4. Min(S) \in S
    BY <1>3 DEF Min
  <1> QED BY <1>4 DEF getSmallestReadPointer

\* The length the writer sees is a position, and that of some reader.
LEMMA PutLenIsSomeLength ==
    ASSUME NEW q \in Rings(Ids)
    PROVE  /\ putLen(q) \in Positions
           /\ Readers(q) # {} => \E r \in Readers(q) : putLen(q) = getLen(q, r)
  <1>1. CASE Readers(q) = {}
    <2>1. 0 \in Positions
      BY SizeAssumption DEF Positions
    <2> QED BY <1>1, <2>1, RingType, DistanceValue DEF putLen, getSmallestReadPointer
  <1>2. CASE Readers(q) # {}
    <2>1. PICK r \in Readers(q) : getSmallestReadPointer(q) = q.rp[r]
      BY <1>2, SmallestIsAReader
    <2>2. q.rp[r] \in Positions
      BY RingType
    <2> QED BY <2>1, <2>2, RingType, DistanceValue DEF putLen, getLen, getReadPointer
  <1> QED BY <1>1, <1>2

\* A Put moves at most Size cells.
LEMMA PutSizeRange ==
    ASSUME NEW q \in Rings(Ids), NEW n \in Nat
    PROVE  PutSize(q, n) \in 0 .. Size
  BY PutLenIsSomeLength, SizeAssumption DEF PutSize, Positions

\* A reader's length is a position; a Get or Discard moves at most that much.
LEMMA LengthRange ==
    ASSUME NEW q \in Rings(Ids), NEW r, NEW n \in Nat
    PROVE  /\ getReadPointer(q, r) \in Positions
           /\ getLen(q, r) \in Positions
           /\ DiscardSize(q, n, r) \in 0 .. getLen(q, r)
           /\ GetSize(q, n, r) \in 0 .. getLen(q, r)
  <1>1. getReadPointer(q, r) \in Positions
    BY RingType, SizeAssumption DEF getReadPointer, Positions
  <1>2. getLen(q, r) \in Positions
    BY <1>1, RingType, DistanceValue DEF getLen
  <1>3. DiscardSize(q, n, r) \in 0 .. getLen(q, r)
    <2> DEFINE l == getLen(q, r)
    <2>1. l \in Nat
      BY <1>2, SizeAssumption DEF Positions
    <2>2. DiscardSize(q, n, r) = IF n > l THEN l ELSE n
      BY DEF DiscardSize
    <2> HIDE DEF l
    <2>3. DiscardSize(q, n, r) \in 0 .. l
      BY <2>1, <2>2
    <2> QED BY <2>3 DEF l
  <1>4. GetSize(q, n, r) \in 0 .. getLen(q, r)
    <2>1. 0 \in 0 .. getLen(q, r)
      BY <1>2, SizeAssumption DEF Positions
    <2> QED BY <1>3, <2>1 DEF GetSize
  <1> QED BY <1>1, <1>2, <1>3, <1>4

------------------------------------------------------------------------------
(***************************************************************************)
(* The invariant: types, and the agreement of pointers and backlogs.       *)
(***************************************************************************)

\* A function from a set of readers to positions, of whatever readers.
LEMMA NewPointers ==
    ASSUME NEW q \in Rings(Ids), NEW D \in SUBSET Ids, NEW f \in [D -> Positions]
    PROVE  /\ withPointers(q, f) \in Rings(Ids)
           /\ Readers(withPointers(q, f)) = D
           /\ withPointers(q, f).mEnd = q.mEnd
           /\ withPointers(q, f).rp = f
  BY RingType DEF Rings, Readers, withPointers

\* What an operation on the ring has to establish, reader by reader.
Agrees(r) == getLen(ring, r) = backlog[r] % Size

RingInv == TypeOK /\ AvailableIsBacklog

\* createReadPointer: a new reader starts at the write position, with nothing
\* to read, and the others stay where they are.
LEMMA AddReaderKeeps ==
    ASSUME RingInv, NEW r \in Ids, AddReader(r)
    PROVE  RingInv'
  <1> DEFINE f == [x \in Readers(ring) \cup {r} |->
                      IF x \in Readers(ring) THEN ring.rp[x] ELSE ring.mEnd]
  <1> USE DEF RingInv, TypeOK
  <1>1. f \in [Readers(ring) \cup {r} -> Positions]
    BY RingType
  <1>2. ring' = withPointers(ring, f)
    BY DEF AddReader, createReadPointer
  <1>3. Readers(ring) \cup {r} \in SUBSET Ids
    BY RingType
  <1>4. /\ ring' \in Rings(Ids)
        /\ Readers(ring') = Readers(ring) \cup {r}
        /\ ring'.mEnd = ring.mEnd
        /\ ring'.rp = f
    <2> DEFINE D == Readers(ring) \cup {r}
    <2>1. ring \in Rings(Ids) /\ D \subseteq Ids /\ f \in [D -> Positions]
      BY <1>1, <1>3
    <2> HIDE DEF f, D
    <2>2. ring' \in Rings(Ids) /\ Readers(ring') = D /\ ring'.mEnd = ring.mEnd /\ ring'.rp = f
      BY <1>2, <2>1, NewPointers
    <2> QED BY <2>2 DEF D
  <1>5. backlog' = [x \in Readers(ring) \cup {r} |->
                       IF x \in Readers(ring) THEN backlog[x] ELSE 0]
    BY DEF AddReader
  <1>6. TypeOK'
    BY <1>4, <1>5 DEF AddReader
  <1>7. AvailableIsBacklog'
    <2> SUFFICES ASSUME NEW x \in Readers(ring')
                 PROVE  getLen(ring', x) = backlog'[x] % Size
      BY DEF AvailableIsBacklog
    <2>1. getLen(ring', x) = Distance(f[x], ring.mEnd)
      BY <1>4 DEF getLen, getReadPointer
    <2>2. CASE x \in Readers(ring)
      BY <1>4, <1>5, <2>1, <2>2 DEF AvailableIsBacklog, getLen, getReadPointer
    <2>3. CASE x \notin Readers(ring)
      <3>1. getLen(ring', x) = Distance(ring.mEnd, ring.mEnd) /\ backlog'[x] = 0
        BY <1>4, <1>5, <2>1, <2>3
      <3>2. Distance(ring.mEnd, ring.mEnd) = 0
        BY RingType, DistanceValue, SizeAssumption DEF Positions
      <3>3. 0 % Size = 0
        BY SizeAssumption
      <3> QED BY <3>1, <3>2, <3>3
    <2> QED BY <2>2, <2>3
  <1> QED BY <1>6, <1>7

\* removeReadPointer takes one reader out and leaves the others alone.
LEMMA RemoveReaderKeeps ==
    ASSUME RingInv, NEW r \in Ids, RemoveReader(r)
    PROVE  RingInv'
  <1> DEFINE f == [x \in Readers(ring) \ {r} |-> ring.rp[x]]
  <1> USE DEF RingInv, TypeOK
  <1>1. f \in [Readers(ring) \ {r} -> Positions] /\ Readers(ring) \ {r} \in SUBSET Ids
    BY RingType
  <1>2. ring' = withPointers(ring, f)
    BY DEF RemoveReader, removeReadPointer
  <1>3. /\ ring' \in Rings(Ids)
        /\ Readers(ring') = Readers(ring) \ {r}
        /\ ring'.mEnd = ring.mEnd
        /\ ring'.rp = f
    <2> DEFINE D == Readers(ring) \ {r}
    <2>1. ring \in Rings(Ids) /\ D \subseteq Ids /\ f \in [D -> Positions]
      BY <1>1
    <2> HIDE DEF f, D
    <2>2. ring' \in Rings(Ids) /\ Readers(ring') = D /\ ring'.mEnd = ring.mEnd /\ ring'.rp = f
      BY <1>2, <2>1, NewPointers
    <2> QED BY <2>2 DEF D
  <1>4. backlog' = [x \in Readers(ring) \ {r} |-> backlog[x]]
    BY DEF RemoveReader
  <1>5. TypeOK'
    BY <1>3, <1>4 DEF RemoveReader
  <1>6. AvailableIsBacklog'
    BY <1>3, <1>4 DEF AvailableIsBacklog, getLen, getReadPointer
  <1> QED BY <1>5, <1>6

\* Put: every reader's length and backlog grow by the same number of items.
LEMMA PutKeeps ==
    ASSUME RingInv, NEW n \in 0 .. MaxChunk, PutData(n)
    PROVE  RingInv'
  <1> DEFINE m == PutSize(ring, n)
  <1> USE DEF RingInv, TypeOK
  <1>1. n \in Nat
    BY RingBufferAssumption
  <1>2. m \in 0 .. Size
    BY <1>1, PutSizeRange
  <1>3. ring.mEnd \in Positions /\ ring.rp \in [Readers(ring) -> Positions]
    BY RingType
  <1>4. (ring.mEnd + m) % Size \in Positions
    <2> HIDE DEF m
    <2> QED BY <1>2, <1>3, DistanceAfterPut
  <1>5. /\ ring' = [ring EXCEPT !.mEnd = (ring.mEnd + m) % Size]
        /\ backlog' = [r \in Readers(ring) |-> backlog[r] + m]
        /\ serial' = (serial + m) % Serials
        /\ mBuffer' = [p \in Positions |->
                          LET i == Distance(ring.mEnd, p)
                          IN  IF i < m THEN (serial + i) % Serials ELSE mBuffer[p]]
        /\ out' = <<>>
    BY DEF PutData, Put
  <1> HIDE DEF m
  <1>6. /\ ring' \in Rings(Ids)
        /\ Readers(ring') = Readers(ring)
        /\ ring'.mEnd = (ring.mEnd + m) % Size
        /\ ring'.rp = ring.rp
    BY <1>4, <1>5, RingType DEF Rings, Readers
  <1>7. mBuffer' \in [Positions -> 0 .. Serials - 1]
    <2>1. ASSUME NEW p \in Positions
          PROVE  (serial + Distance(ring.mEnd, p)) % Serials \in 0 .. Serials - 1
      <3> DEFINE d == Distance(ring.mEnd, p)
      <3>1. d \in Positions
        BY <1>3, DistanceValue
      <3> HIDE DEF d
      <3>2. serial + d \in Int
        BY <3>1, SizeAssumption DEF Positions
      <3>3. (serial + d) % Serials \in 0 .. Serials - 1
        BY <3>2, RingBufferAssumption
      <3> QED BY <3>3 DEF d
    <2> QED BY <1>5, <2>1
  <1>8. serial' \in 0 .. Serials - 1 /\ out' \in Seq(0 .. Serials - 1)
    BY <1>2, <1>5, RingBufferAssumption, SizeAssumption
  <1>9. backlog' \in [Readers(ring') -> Nat]
    <2>1. ASSUME NEW r \in Readers(ring) PROVE backlog[r] + m \in Nat
      BY <1>2, SizeAssumption
    <2> QED BY <1>5, <1>6, <2>1
  <1>10. AvailableIsBacklog'
    <2> SUFFICES ASSUME NEW r \in Readers(ring)
                 PROVE  getLen(ring', r) = backlog'[r] % Size
      BY <1>6 DEF AvailableIsBacklog
    <2>1. getLen(ring', r) = Distance(ring.rp[r], (ring.mEnd + m) % Size)
      BY <1>6 DEF getLen, getReadPointer
    <2>2. ring.rp[r] \in Positions
      BY <1>3
    <2>3. getLen(ring', r) = (Distance(ring.rp[r], ring.mEnd) + m) % Size
      BY <1>2, <1>3, <2>1, <2>2, DistanceAfterPut
    <2>4. Distance(ring.rp[r], ring.mEnd) = backlog[r] % Size
      BY DEF AvailableIsBacklog, getLen, getReadPointer
    <2>5. ((backlog[r] % Size) + m) % Size = (backlog[r] + m) % Size
      <3>1. backlog[r] \in Int /\ m \in Int
        BY <1>2, SizeAssumption
      <3> QED BY <3>1, ModAdd
    <2> QED BY <1>5, <2>3, <2>4, <2>5
  <1> QED BY <1>6, <1>7, <1>8, <1>9, <1>10

\* A read pointer set back by nothing more than its length, the backlog with
\* it: what Get and Discard do.
LEMMA ReadKeeps ==
    ASSUME RingInv, NEW r \in Ids, NEW d \in 0 .. getLen(ring, r),
           ring' = storeReadPointer(ring, (getReadPointer(ring, r) + d) % Size, r),
           backlog' = [x \in Readers(ring) |-> IF x = r THEN backlog[x] - d ELSE backlog[x]]
    PROVE  /\ ring' \in Rings(Ids)
           /\ backlog' \in [Readers(ring') -> Nat]
           /\ AvailableIsBacklog'
  <1> DEFINE v == (getReadPointer(ring, r) + d) % Size
             f == [x \in Readers(ring) |-> IF x = r THEN v ELSE ring.rp[x]]
  <1> USE DEF RingInv, TypeOK
  <1>1. /\ getReadPointer(ring, r) \in Positions
        /\ ring.mEnd \in Positions
        /\ d \in 0 .. Distance(getReadPointer(ring, r), ring.mEnd)
    BY RingType, SizeAssumption DEF getLen, getReadPointer, Positions
  <1>2. v \in Positions /\ Distance(v, ring.mEnd) = getLen(ring, r) - d
    <2> DEFINE p == getReadPointer(ring, r)
    <2>1. p \in Positions /\ ring.mEnd \in Positions /\ d \in 0 .. Distance(p, ring.mEnd)
      BY <1>1
    <2> HIDE DEF p
    <2>2. (p + d) % Size \in Positions
          /\ Distance((p + d) % Size, ring.mEnd) = Distance(p, ring.mEnd) - d
      BY <2>1, DistanceAfterRead
    <2> QED BY <2>2 DEF p, getLen
  <1> HIDE DEF v
  <1>3. f \in [Readers(ring) -> Positions] /\ Readers(ring) \in SUBSET Ids
    BY <1>2, RingType
  <1>4. ring' = withPointers(ring, f)
    BY DEF storeReadPointer, v
  <1>5. /\ ring' \in Rings(Ids)
        /\ Readers(ring') = Readers(ring)
        /\ ring'.mEnd = ring.mEnd
        /\ ring'.rp = f
    <2> DEFINE D == Readers(ring)
    <2>1. ring \in Rings(Ids) /\ D \subseteq Ids /\ f \in [D -> Positions]
      BY <1>3
    <2> HIDE DEF f, D
    <2>2. LET w == withPointers(ring, f)
          IN  w \in Rings(Ids) /\ Readers(w) = D /\ w.mEnd = ring.mEnd /\ w.rp = f
      BY <2>1, NewPointers
    <2> QED BY <1>4, <2>2 DEF D
  <1>6. ASSUME NEW x \in Readers(ring)
        PROVE  backlog'[x] \in Nat /\ getLen(ring', x) = backlog'[x] % Size
    <2>1. getLen(ring', x) = Distance(f[x], ring.mEnd)
      BY <1>5 DEF getLen, getReadPointer
    <2>2. CASE x # r
      BY <1>5, <2>1, <2>2 DEF AvailableIsBacklog, getLen, getReadPointer
    <2>3. CASE x = r
      <3>1. d \in 0 .. (backlog[r] % Size)
        BY <2>3 DEF AvailableIsBacklog
      <3>2. backlog[r] - d \in Nat /\ (backlog[r] - d) % Size = (backlog[r] % Size) - d
        BY <2>3, <3>1, ModSub
      <3>3. getLen(ring', x) = getLen(ring, r) - d
        BY <1>2, <2>1, <2>3
      <3>4. getLen(ring, r) = backlog[r] % Size
        BY <2>3 DEF AvailableIsBacklog
      <3> QED BY <2>3, <3>2, <3>3, <3>4
    <2> QED BY <2>2, <2>3
  <1>7. backlog' \in [Readers(ring') -> Nat]
    BY <1>5, <1>6
  <1>8. AvailableIsBacklog'
    BY <1>5, <1>6 DEF AvailableIsBacklog
  <1> QED BY <1>5, <1>7, <1>8

\* Pointers moved up to the write position leave nothing to read: flush of
\* one reader and flushAll of all of them.
LEMMA FlushKeeps ==
    ASSUME RingInv, NEW F \in SUBSET Readers(ring),
           ring' = withPointers(ring, [x \in Readers(ring) |->
                                          IF x \in F THEN ring.mEnd ELSE ring.rp[x]]),
           backlog' = [x \in Readers(ring) |-> IF x \in F THEN 0 ELSE backlog[x]]
    PROVE  /\ ring' \in Rings(Ids)
           /\ backlog' \in [Readers(ring') -> Nat]
           /\ AvailableIsBacklog'
  <1> DEFINE f == [x \in Readers(ring) |-> IF x \in F THEN ring.mEnd ELSE ring.rp[x]]
  <1> USE DEF RingInv, TypeOK
  <1>1. f \in [Readers(ring) -> Positions] /\ Readers(ring) \in SUBSET Ids
    BY RingType
  <1>2. /\ ring' \in Rings(Ids)
        /\ Readers(ring') = Readers(ring)
        /\ ring'.mEnd = ring.mEnd
        /\ ring'.rp = f
    <2>1. ring' = withPointers(ring, f)
      OBVIOUS
    <2> DEFINE D == Readers(ring)
    <2>2. ring \in Rings(Ids) /\ D \subseteq Ids /\ f \in [D -> Positions]
      BY <1>1
    <2> HIDE DEF f, D
    <2>3. LET w == withPointers(ring, f)
          IN  w \in Rings(Ids) /\ Readers(w) = D /\ w.mEnd = ring.mEnd /\ w.rp = f
      BY <2>2, NewPointers
    <2> QED BY <2>1, <2>3 DEF D
  <1>3. Distance(ring.mEnd, ring.mEnd) = 0 /\ 0 % Size = 0
    BY RingType, DistanceValue, SizeAssumption DEF Positions
  <1>4. ASSUME NEW x \in Readers(ring)
        PROVE  getLen(ring', x) = backlog'[x] % Size
    <2>1. getLen(ring', x) = Distance(f[x], ring.mEnd)
      BY <1>2 DEF getLen, getReadPointer
    <2>2. CASE x \in F
      BY <1>3, <2>1, <2>2
    <2>3. CASE x \notin F
      BY <1>2, <2>1, <2>3 DEF AvailableIsBacklog, getLen, getReadPointer
    <2> QED BY <2>2, <2>3
  <1>5. backlog' \in [Readers(ring') -> Nat]
    BY <1>2
  <1>6. AvailableIsBacklog'
    BY <1>2, <1>4 DEF AvailableIsBacklog
  <1> QED BY <1>2, <1>5, <1>6

\* What a Get returns is a sequence of items.
LEMMA CellsType ==
    ASSUME TypeOK, NEW p \in Positions, NEW n \in Nat
    PROVE  Cells(p, n) \in Seq(0 .. Serials - 1)
  <1>1. ASSUME NEW i \in 1 .. n PROVE mBuffer[(p + i - 1) % Size] \in 0 .. Serials - 1
    <2>1. p + i - 1 \in Int
      BY SizeAssumption DEF Positions
    <2> QED BY <2>1, ModRange DEF TypeOK
  <1> QED BY <1>1 DEF Cells

\* Types and the agreement of lengths and backlogs hold in every state, also
\* after data was overwritten.
THEOREM RingInvariant == Spec => []RingInv
  <1>1. Init => RingInv
    <2> SUFFICES ASSUME Init PROVE RingInv
      OBVIOUS
    <2>1. NewRing \in Rings(Ids) /\ Readers(NewRing) = {}
      BY SizeAssumption DEF NewRing, Rings, Readers, Positions
    <2>2. AvailableIsBacklog
      BY <2>1 DEF Init, AvailableIsBacklog
    <2> QED BY <2>1, <2>2, RingBufferAssumption DEF Init, RingInv, TypeOK
  <1>2. RingInv /\ [Next]_vars => RingInv'
    <2> SUFFICES ASSUME RingInv, [Next]_vars PROVE RingInv'
      OBVIOUS
    <2>1. ASSUME NEW r \in Ids, AddReader(r) PROVE RingInv'
      BY <2>1, AddReaderKeeps
    <2>2. ASSUME NEW r \in Ids, RemoveReader(r) PROVE RingInv'
      BY <2>2, RemoveReaderKeeps
    <2>3. ASSUME NEW r \in Ids, Flush(r) PROVE RingInv'
      <3> DEFINE F == {r} \cap Readers(ring)
      <3>1. /\ ring' = withPointers(ring, [x \in Readers(ring) |->
                                              IF x \in F THEN ring.mEnd ELSE ring.rp[x]])
            /\ backlog' = [x \in Readers(ring) |-> IF x \in F THEN 0 ELSE backlog[x]]
        BY <2>3 DEF Flush, flush, storeReadPointer
      <3>2. F \in SUBSET Readers(ring)
        OBVIOUS
      <3> HIDE DEF F
      <3>3. /\ ring' \in Rings(Ids)
            /\ backlog' \in [Readers(ring') -> Nat]
            /\ AvailableIsBacklog'
        BY <3>1, <3>2, FlushKeeps
      <3> QED BY <2>3, <3>3 DEF RingInv, TypeOK, Flush
    <2>4. ASSUME FlushAll PROVE RingInv'
      <3> DEFINE F == Readers(ring)
      <3>1. /\ ring' = withPointers(ring, [x \in Readers(ring) |->
                                              IF x \in F THEN ring.mEnd ELSE ring.rp[x]])
            /\ backlog' = [x \in Readers(ring) |-> IF x \in F THEN 0 ELSE backlog[x]]
        BY <2>4 DEF FlushAll, flushAll
      <3>2. F \in SUBSET Readers(ring)
        OBVIOUS
      <3> HIDE DEF F
      <3>3. /\ ring' \in Rings(Ids)
            /\ backlog' \in [Readers(ring') -> Nat]
            /\ AvailableIsBacklog'
        BY <3>1, <3>2, FlushKeeps
      <3> QED BY <2>4, <3>3 DEF RingInv, TypeOK, FlushAll
    <2>5. ASSUME NEW n \in 0 .. MaxChunk, PutData(n) PROVE RingInv'
      BY <2>5, PutKeeps
    <2>6. ASSUME NEW n \in 0 .. MaxChunk, NEW r \in Ids, GetData(r, n) PROVE RingInv'
      <3>1. n \in Nat /\ ring \in Rings(Ids)
        BY RingBufferAssumption DEF RingInv, TypeOK
      <3>2. DiscardSize(ring, n, r) \in 0 .. getLen(ring, r)
        BY <3>1, LengthRange
      <3>3. ring' = storeReadPointer(ring, (getReadPointer(ring, r) + DiscardSize(ring, n, r)) % Size, r)
        BY <2>6 DEF GetData, Get, Discard
      <3>4. backlog' = [x \in Readers(ring) |->
                           IF x = r THEN backlog[x] - DiscardSize(ring, n, r) ELSE backlog[x]]
        BY <2>6 DEF GetData, GetSize
      <3>5. /\ ring' \in Rings(Ids)
            /\ backlog' \in [Readers(ring') -> Nat]
            /\ AvailableIsBacklog'
        BY <3>2, <3>3, <3>4, ReadKeeps
      <3>6. out' \in Seq(0 .. Serials - 1)
        <4>1. getReadPointer(ring, r) \in Positions
          BY <3>1, LengthRange
        <4>2. GetSize(ring, n, r) \in Nat
          BY <3>1, LengthRange, SizeAssumption DEF Positions
        <4> QED BY <2>6, <4>1, <4>2, CellsType DEF GetData, RingInv
      <3> QED BY <2>6, <3>5, <3>6 DEF GetData, RingInv, TypeOK
    <2>7. ASSUME NEW n \in 0 .. MaxChunk, NEW r \in Ids, DiscardData(r, n) PROVE RingInv'
      <3>1. n \in Nat /\ ring \in Rings(Ids)
        BY RingBufferAssumption DEF RingInv, TypeOK
      <3>2. DiscardSize(ring, n, r) \in 0 .. getLen(ring, r)
        BY <3>1, LengthRange
      <3>3. ring' = storeReadPointer(ring, (getReadPointer(ring, r) + DiscardSize(ring, n, r)) % Size, r)
        BY <2>7 DEF DiscardData, Discard
      <3>4. backlog' = [x \in Readers(ring) |->
                           IF x = r THEN backlog[x] - DiscardSize(ring, n, r) ELSE backlog[x]]
        BY <2>7 DEF DiscardData
      <3>5. /\ ring' \in Rings(Ids)
            /\ backlog' \in [Readers(ring') -> Nat]
            /\ AvailableIsBacklog'
        BY <3>2, <3>3, <3>4, ReadKeeps
      <3> QED BY <2>7, <3>5 DEF DiscardData, RingInv, TypeOK
    <2>8. CASE UNCHANGED vars
      BY <2>8 DEF vars, RingInv, TypeOK, AvailableIsBacklog
    <2> QED BY <2>1, <2>2, <2>3, <2>4, <2>5, <2>6, <2>7, <2>8 DEF Next
  <1> QED BY <1>1, <1>2, PTL DEF Spec

\* Whatever the size, the readers and the sequence of calls, a reader's
\* length is its true backlog modulo the size.
COROLLARY LengthsAgree == Spec => []AvailableIsBacklog
  <1>1. RingInv => AvailableIsBacklog
    BY DEF RingInv
  <1> QED BY <1>1, RingInvariant, PTL

\* A writer for which every reader has room is never clipped, although it
\* looks only at the numerically smallest pointer.
THEOREM NoClip == Spec => NoClipWhileRoom
  <1>1. RingInv =>
          \A n \in 0 .. MaxChunk :
             (PutData(n) /\ \A r \in Readers(ring) : getLen(ring, r) + n < Size)
                 => \A r \in Readers(ring) : backlog'[r] = backlog[r] + n
    <2> SUFFICES ASSUME RingInv, NEW n \in 0 .. MaxChunk, PutData(n),
                        \A r \in Readers(ring) : getLen(ring, r) + n < Size,
                        NEW r \in Readers(ring)
                 PROVE  backlog'[r] = backlog[r] + n
      OBVIOUS
    <2>1. ring \in Rings(Ids) /\ n \in Nat
      BY RingBufferAssumption DEF RingInv, TypeOK
    <2>2. PICK x \in Readers(ring) : putLen(ring) = getLen(ring, x)
      BY <2>1, PutLenIsSomeLength
    <2>3. putLen(ring) \in Positions /\ putLen(ring) + n < Size
      BY <2>1, <2>2, PutLenIsSomeLength
    <2>4. PutSize(ring, n) = n
      BY <2>1, <2>3, SizeAssumption DEF PutSize, Positions
    <2> QED BY <2>4 DEF PutData
  <1>2. RingInv => [\A n \in 0 .. MaxChunk :
             (PutData(n) /\ \A r \in Readers(ring) : getLen(ring, r) + n < Size)
                 => \A r \in Readers(ring) : backlog'[r] = backlog[r] + n]_vars
    BY <1>1
  <1> QED BY <1>2, RingInvariant, PTL DEF NoClipWhileRoom

------------------------------------------------------------------------------
(***************************************************************************)
(* The rings implement one queue per reader, step by step.                 *)
(***************************************************************************)

\* The n cells of any buffer b from position p on.
CellsOf(b, p, n) == [i \in 1 .. n |-> b[(p + i - 1) % Size]]

\* The serial numbers.
Items == 0 .. Serials - 1

\* What the refinement mapping takes for the readers' queues.
Queue == [r \in Readers(ring) |-> Cells(ring.rp[r], getLen(ring, r))]

\* Cells are a sequence of as many items as are asked for.
LEMMA CellsSeq ==
    ASSUME NEW b \in [Positions -> Items], NEW p \in Positions, NEW n \in Nat
    PROVE  /\ CellsOf(b, p, n) \in Seq(Items)
           /\ Len(CellsOf(b, p, n)) = n
           /\ \A i \in 1 .. n : /\ CellsOf(b, p, n)[i] = b[(p + i - 1) % Size]
                                /\ (p + i - 1) % Size \in Positions
                                /\ b[(p + i - 1) % Size] \in Items
  <1>1. ASSUME NEW i \in 1 .. n
        PROVE  (p + i - 1) % Size \in Positions /\ b[(p + i - 1) % Size] \in Items
    <2>1. p + i - 1 \in Int
      BY SizeAssumption DEF Positions
    <2>2. (p + i - 1) % Size \in Positions
      BY <2>1, ModRange
    <2> QED BY <2>2
  <1> QED BY <1>1 DEF CellsOf

\* The items a read of d takes and leaves of the l available from p on.
LEMMA CellsRead ==
    ASSUME NEW b \in [Positions -> Items], NEW p \in Positions, NEW l \in Nat,
           NEW d \in 0 .. l
    PROVE  /\ (p + d) % Size \in Positions
           /\ SubSeq(CellsOf(b, p, l), d + 1, l) = CellsOf(b, (p + d) % Size, l - d)
           /\ SubSeq(CellsOf(b, p, l), 1, d) = CellsOf(b, p, d)
  <1> DEFINE q == CellsOf(b, p, l)
             f == (p + d) % Size
             rest == CellsOf(b, f, l - d)
             taken == CellsOf(b, p, d)
  <1>0. p \in Int /\ p + d \in Int /\ d \in Nat /\ l - d \in Nat
    BY SizeAssumption DEF Positions
  <1>1. f \in Positions
    BY <1>0, ModRange
  <1>2. /\ q \in Seq(Items) /\ Len(q) = l
        /\ \A i \in 1 .. l : q[i] = b[(p + i - 1) % Size] /\ q[i] \in Items
    BY CellsSeq
  <1>3. /\ rest \in Seq(Items) /\ Len(rest) = l - d
        /\ \A i \in 1 .. l - d : rest[i] = b[(f + i - 1) % Size]
    <2> HIDE DEF f
    <2> QED BY <1>0, <1>1, CellsSeq
  <1>4. /\ taken \in Seq(Items) /\ Len(taken) = d
        /\ \A i \in 1 .. d : taken[i] = b[(p + i - 1) % Size]
    BY <1>0, CellsSeq
  <1>5. ASSUME NEW i \in 1 .. l - d
        PROVE  (f + i - 1) % Size = (p + (d + i) - 1) % Size
    <2>1. i - 1 \in Int
      BY <1>0
    <2>2. ((p + d) + (i - 1)) % Size = (f + (i - 1)) % Size
      BY <1>0, <2>1, ModAdd
    <2>3. f + (i - 1) = f + i - 1 /\ (p + d) + (i - 1) = p + (d + i) - 1
      <3>1. f \in Int
        BY <1>1, SizeAssumption DEF Positions
      <3> HIDE DEF f
      <3> QED BY <1>0, <2>1, <3>1
    <2> QED BY <2>2, <2>3
  <1> HIDE DEF q, rest, taken, f
  <1>6. /\ SubSeq(q, d + 1, l) \in Seq(Items)
        /\ Len(SubSeq(q, d + 1, l)) = l - d
        /\ \A i \in 1 .. l - d : SubSeq(q, d + 1, l)[i] = q[d + i]
    <2>1. /\ SubSeq(q, d + 1, l) \in Seq(Items)
          /\ Len(SubSeq(q, d + 1, l)) = IF d + 1 <= l THEN l - (d + 1) + 1 ELSE 0
          /\ \A i \in 1 .. l - (d + 1) + 1 : SubSeq(q, d + 1, l)[i] = q[(d + 1) + i - 1]
      <3>1. d + 1 \in Int /\ l \in Int /\ \A i \in d + 1 .. l : q[i] \in Items
        BY <1>0, <1>2
      <3> QED BY <3>1, SubSeqProperties
    <2>2. \A i \in 1 .. l - d : (d + 1) + i - 1 = d + i
      BY <1>0
    <2> QED BY <1>0, <2>1, <2>2
  <1>7. /\ SubSeq(q, 1, d) \in Seq(Items)
        /\ Len(SubSeq(q, 1, d)) = d
        /\ \A i \in 1 .. d : SubSeq(q, 1, d)[i] = q[i]
    <2>1. /\ SubSeq(q, 1, d) \in Seq(Items)
          /\ Len(SubSeq(q, 1, d)) = IF 1 <= d THEN d - 1 + 1 ELSE 0
          /\ \A i \in 1 .. d - 1 + 1 : SubSeq(q, 1, d)[i] = q[1 + i - 1]
      <3>1. 1 \in Int /\ d \in Int /\ \A i \in 1 .. d : q[i] \in Items
        BY <1>0, <1>2
      <3> QED BY <3>1, SubSeqProperties
    <2>2. \A i \in 1 .. d : 1 + i - 1 = i
      BY <1>0
    <2> QED BY <1>0, <2>1, <2>2
  <1>8. SubSeq(q, d + 1, l) = rest
    <2>1. ASSUME NEW i \in 1 .. l - d PROVE SubSeq(q, d + 1, l)[i] = rest[i]
      <3>1. d + i \in 1 .. l
        BY <1>0
      <3> QED BY <1>2, <1>3, <1>5, <1>6, <3>1
    <2> QED BY <1>3, <1>6, <2>1, SeqEqual
  <1>9. SubSeq(q, 1, d) = taken
    <2>1. ASSUME NEW i \in 1 .. d PROVE SubSeq(q, 1, d)[i] = taken[i]
      <3>1. i \in 1 .. l
        BY <1>0
      <3> QED BY <1>2, <1>4, <1>7, <3>1
    <2> QED BY <1>4, <1>7, <2>1, SeqEqual
  <1> QED BY <1>1, <1>8, <1>9 DEF q, rest, taken, f

\* Where the l unread cells of a reader at p are, and the m after them, as seen
\* from the write position e.
LEMMA CellDistance ==
    ASSUME NEW p \in Positions, NEW e \in Positions, NEW m \in Nat,
           Distance(p, e) + m < Size, NEW i \in 1 .. Distance(p, e) + m
    PROVE  LET l == Distance(p, e)
               c == Distance(e, (p + i - 1) % Size)
           IN  /\ i <= l => c >= m
               /\ i > l => c = i - l - 1
  <1> DEFINE l == Distance(p, e)
             x == p + i - 1
             f == x % Size
  <1>1. l = IF e >= p THEN e - p ELSE e + Size - p
    BY DistanceValue
  <1>2. l \in Positions /\ l + m < Size /\ i \in 1 .. l + m
    BY DistanceValue
  <1> HIDE DEF l
  <1>3. x \in 0 .. (2 * Size - 1)
    BY <1>2, SizeAssumption DEF Positions
  <1>4. f \in Positions
    <2>1. x \in Int
      BY <1>3
    <2> HIDE DEF x
    <2> QED BY <2>1, ModRange
  <1>5. f = IF x < Size THEN x ELSE x - Size
    <2> HIDE DEF x
    <2> QED BY <1>3, ModStep
  <1> HIDE DEF f
  <1>6. Distance(e, f) = IF f >= e THEN f - e ELSE f + Size - e
    BY <1>4, DistanceValue
  <1>7. (i <= l => Distance(e, f) >= m) /\ (i > l => Distance(e, f) = i - l - 1)
    BY <1>1, <1>2, <1>3, <1>4, <1>5, <1>6, SizeAssumption DEF Positions
  <1> QED BY <1>7 DEF f, l

\* A Put that overtakes no reader puts m items after the unread ones.
LEMMA CellsPut ==
    ASSUME NEW b \in [Positions -> Items], NEW p \in Positions, NEW e \in Positions,
           NEW s \in Items, NEW m \in Nat, Distance(p, e) + m < Size,
           NEW c \in [Positions -> Items],
           \A x \in Positions : c[x] = IF Distance(e, x) < m THEN (s + Distance(e, x)) % Serials
                                                             ELSE b[x]
    PROVE  CellsOf(c, p, Distance(p, e) + m)
             = CellsOf(b, p, Distance(p, e)) \o Fifo!Numbered(s, m)
  <1> DEFINE l == Distance(p, e)
             q == CellsOf(b, p, l)
             t == Fifo!Numbered(s, m)
             u == CellsOf(c, p, l + m)
  <1>0. l \in Positions /\ l \in Nat /\ l + m \in Nat
    <2>1. l \in Positions
      BY DistanceValue
    <2> HIDE DEF l
    <2> QED BY <2>1, SizeAssumption DEF Positions
  <1>1. /\ q \in Seq(Items) /\ Len(q) = l
        /\ \A i \in 1 .. l : q[i] = b[(p + i - 1) % Size]
    <2> HIDE DEF l
    <2> QED BY <1>0, CellsSeq
  <1>2. /\ u \in Seq(Items) /\ Len(u) = l + m
        /\ \A i \in 1 .. l + m : /\ u[i] = c[(p + i - 1) % Size]
                                 /\ (p + i - 1) % Size \in Positions
    <2> HIDE DEF l
    <2> QED BY <1>0, CellsSeq
  <1>3. /\ t \in Seq(Items) /\ Len(t) = m
        /\ \A i \in 1 .. m : t[i] = (s + i - 1) % Serials
    <2>1. ASSUME NEW i \in 1 .. m PROVE (s + i - 1) % Serials \in Items
      <3>1. s + i - 1 \in Int
        BY RingBufferAssumption DEF Items
      <3> QED BY <3>1, RingBufferAssumption DEF Items
    <2> QED BY <2>1 DEF Fifo!Numbered
  <1>4. ASSUME NEW i \in 1 .. l + m
        PROVE  u[i] = IF i <= l THEN q[i] ELSE t[i - l]
    <2> DEFINE x == (p + i - 1) % Size
               d == Distance(e, x)
    <2>1. (i <= l => d >= m) /\ (i > l => d = i - l - 1)
      BY CellDistance
    <2>2. x \in Positions /\ u[i] = c[x]
      BY <1>2
    <2>3. u[i] = IF d < m THEN (s + d) % Serials ELSE b[x]
      BY <2>2
    <2>4. CASE i <= l
      <3>1. i \in 1 .. l
        BY <1>0, <2>4
      <3>2. d \in Nat
        BY <2>2, DistanceValue, SizeAssumption DEF Positions
      <3>3. q[i] = b[x]
        BY <1>1, <3>1
      <3>4. ~(d < m)
        <4> HIDE DEF d, l, q, t, u
        <4> QED BY <2>1, <2>4, <3>2
      <3> QED BY <2>3, <2>4, <3>3, <3>4
    <2>5. CASE ~(i <= l)
      <3>1. d = i - l - 1 /\ i - l \in 1 .. m /\ d < m
        <4>1. i > l
          <5> HIDE DEF l
          <5> QED BY <1>0, <2>5
        <4> HIDE DEF d, l
        <4> QED BY <1>0, <2>1, <4>1
      <3>2. t[i - l] = (s + (i - l) - 1) % Serials
        <4> HIDE DEF l, t
        <4> QED BY <1>3, <3>1
      <3>3. s + d = s + (i - l) - 1
        <4>1. s \in Int
          BY RingBufferAssumption DEF Items
        <4> HIDE DEF d, l
        <4> QED BY <1>0, <3>1, <4>1
      <3> HIDE DEF d, x, l, t, u
      <3> QED BY <2>3, <2>5, <3>1, <3>2, <3>3
    <2> QED BY <2>4, <2>5
  <1>5. /\ q \o t \in Seq(Items) /\ Len(q \o t) = l + m
        /\ \A i \in 1 .. l + m : (q \o t)[i] = IF i <= l THEN q[i] ELSE t[i - l]
    <2> HIDE DEF l, q, t
    <2> QED BY <1>1, <1>3, ConcatProperties
  <1>6. u = q \o t
    <2> HIDE DEF l, q, t, u
    <2> QED BY <1>2, <1>4, <1>5, SeqEqual
  <1> QED BY <1>6

\* The queues of the readers.
LEMMA QueueFacts ==
    ASSUME RingInv
    PROVE  /\ mBuffer \in [Positions -> Items] /\ serial \in Items
           /\ DOMAIN Queue = Readers(ring)
           /\ \A r \in Readers(ring) :
                /\ ring.rp[r] \in Positions /\ ring.mEnd \in Positions
                /\ getLen(ring, r) = Distance(ring.rp[r], ring.mEnd)
                /\ getLen(ring, r) \in Nat /\ backlog[r] \in Nat
                /\ Queue[r] = CellsOf(mBuffer, ring.rp[r], getLen(ring, r))
                /\ Queue[r] \in Seq(Items) /\ Len(Queue[r]) = getLen(ring, r)
  <1> USE DEF RingInv, TypeOK
  <1>1. mBuffer \in [Positions -> Items] /\ serial \in Items
    BY DEF Items
  <1>2. ASSUME NEW r \in Readers(ring)
        PROVE  /\ ring.rp[r] \in Positions /\ ring.mEnd \in Positions
               /\ getLen(ring, r) = Distance(ring.rp[r], ring.mEnd)
               /\ getLen(ring, r) \in Nat /\ backlog[r] \in Nat
    <2>1. getLen(ring, r) \in Positions
      <3>1. 0 \in Nat
        OBVIOUS
      <3> QED BY <3>1, LengthRange
    <2> QED BY <2>1, RingType, SizeAssumption DEF getLen, getReadPointer, Positions
  <1>3. \A r \in Readers(ring) :
          Queue[r] = CellsOf(mBuffer, ring.rp[r], getLen(ring, r))
    BY DEF Queue, Cells, CellsOf
  <1>4. DOMAIN Queue = Readers(ring)
    BY DEF Queue
  <1>5. ASSUME NEW r \in Readers(ring)
        PROVE  Queue[r] \in Seq(Items) /\ Len(Queue[r]) = getLen(ring, r)
    <2> DEFINE p == ring.rp[r]
               n == getLen(ring, r)
    <2>1. p \in Positions /\ n \in Nat /\ Queue[r] = CellsOf(mBuffer, p, n)
      BY <1>2, <1>3
    <2> HIDE DEF p, n
    <2>2. CellsOf(mBuffer, p, n) \in Seq(Items) /\ Len(CellsOf(mBuffer, p, n)) = n
      BY <1>1, <2>1, CellsSeq
    <2> QED BY <2>1, <2>2 DEF n
  <1> QED BY <1>1, <1>2, <1>3, <1>4, <1>5

\* And after a step.
LEMMA QueueNext ==
    /\ DOMAIN Queue' = Readers(ring')
    /\ \A r \in Readers(ring') :
         Queue'[r] = CellsOf(mBuffer', ring'.rp[r], Distance(ring'.rp[r], ring'.mEnd))
  BY DEF Queue, Cells, CellsOf, getLen, getReadPointer

\* A queue of which nothing is left.
LEMMA NoCells ==
    ASSUME NEW b \in [Positions -> Items], NEW e \in Positions
    PROVE  Distance(e, e) = 0 /\ CellsOf(b, e, 0) = <<>>
  <1>1. Distance(e, e) = 0
    BY DistanceValue, SizeAssumption DEF Positions
  <1>2. CellsOf(b, e, 0) \in Seq(Items) /\ Len(CellsOf(b, e, 0)) = 0
    BY CellsSeq
  <1> QED BY <1>1, <1>2, EmptySeq

\* A new reader subscribes to what is written from now on.
LEMMA AddReaderSubscribes ==
    ASSUME RingInv, NEW r \in Ids, AddReader(r)
    PROVE  Fifo!Subscribe(r)
  <1> DEFINE f == [x \in Readers(ring) \cup {r} |->
                      IF x \in Readers(ring) THEN ring.rp[x] ELSE ring.mEnd]
  <1>1. ring' = withPointers(ring, f)
    BY DEF AddReader, createReadPointer
  <1>2. ring'.rp = f /\ ring'.mEnd = ring.mEnd /\ Readers(ring') = Readers(ring) \cup {r}
    <2> HIDE DEF f
    <2>1. ring'.rp = f /\ ring'.mEnd = ring.mEnd
      BY <1>1, RingType DEF withPointers, RingInv, TypeOK
    <2> QED BY <2>1 DEF f, Readers
  <1>3. mBuffer' = mBuffer /\ serial' = serial /\ out' = <<>>
    BY DEF AddReader
  <1>4. ring.mEnd \in Positions
    BY RingType DEF RingInv, TypeOK
  <1>5. ASSUME NEW x \in Readers(ring')
        PROVE  Queue'[x] = IF x \in Readers(ring) THEN Queue[x] ELSE <<>>
    <2>1. CASE x \in Readers(ring)
      <3>1. ring'.rp[x] = ring.rp[x]
        BY <1>2, <2>1
      <3>2. Queue'[x] = CellsOf(mBuffer, ring.rp[x], Distance(ring.rp[x], ring.mEnd))
        BY <1>2, <1>3, <3>1, QueueNext
      <3> QED BY <2>1, <3>2, QueueFacts
    <2>2. CASE x \notin Readers(ring)
      <3>1. Queue'[x] = CellsOf(mBuffer, ring.mEnd, Distance(ring.mEnd, ring.mEnd))
        BY <1>2, <1>3, <2>2, QueueNext
      <3> QED BY <1>4, <2>2, <3>1, NoCells, QueueFacts
    <2> QED BY <2>1, <2>2
  <1>6. Queue' = [x \in DOMAIN Queue \cup {r} |->
                     IF x \in DOMAIN Queue THEN Queue[x] ELSE <<>>]
    <2>1. DOMAIN Queue' = Readers(ring') /\ DOMAIN Queue = Readers(ring)
      BY QueueFacts, QueueNext
    <2> QED BY <1>2, <1>5, <2>1 DEF Queue
  <1> QED BY <1>3, <1>6 DEF Fifo!Subscribe, Queue

\* A reader that is removed takes its queue with it.
LEMMA RemoveReaderUnsubscribes ==
    ASSUME RingInv, NEW r \in Ids, RemoveReader(r)
    PROVE  Fifo!Unsubscribe(r)
  <1> DEFINE f == [x \in Readers(ring) \ {r} |-> ring.rp[x]]
  <1>1. ring' = withPointers(ring, f)
    BY DEF RemoveReader, removeReadPointer
  <1>2. ring'.rp = f /\ ring'.mEnd = ring.mEnd /\ Readers(ring') = Readers(ring) \ {r}
    <2> HIDE DEF f
    <2>1. ring'.rp = f /\ ring'.mEnd = ring.mEnd
      BY <1>1, RingType DEF withPointers, RingInv, TypeOK
    <2> QED BY <2>1 DEF f, Readers
  <1>3. mBuffer' = mBuffer /\ serial' = serial /\ out' = <<>>
    BY DEF RemoveReader
  <1>4. \A x \in Readers(ring') : Queue'[x] = Queue[x]
    BY <1>2, <1>3, QueueFacts, QueueNext
  <1>5. Queue' = [x \in DOMAIN Queue \ {r} |-> Queue[x]]
    <2>1. DOMAIN Queue' = Readers(ring') /\ DOMAIN Queue = Readers(ring)
      BY QueueFacts, QueueNext
    <2> QED BY <1>2, <1>4, <2>1 DEF Queue
  <1> QED BY <1>3, <1>5 DEF Fifo!Unsubscribe, Queue

\* A Put after which nobody is overrun writes what it moved to every queue.
LEMMA PutWrites ==
    ASSUME RingInv, NEW n \in 0 .. MaxChunk, PutData(n), ~Overrun'
    PROVE  \E m \in 0 .. MaxChunk : Fifo!Write(m)
  <1> DEFINE m == PutSize(ring, n)
  <1>0. ring \in Rings(Ids) /\ ring.mEnd \in Positions /\ n \in Nat
    BY RingType, RingBufferAssumption DEF RingInv, TypeOK
  <1>1. m \in 0 .. n /\ m \in Nat
    <2>1. putLen(ring) \in Positions
      BY <1>0, PutLenIsSomeLength
    <2> DEFINE k == Size - putLen(ring)
    <2>2. k \in Nat
      <3> DEFINE g == putLen(ring)
      <3> HIDE DEF g
      <3> QED BY <2>1, SizeAssumption DEF Positions, g
    <2>3. m = IF n > k THEN k ELSE n
      BY DEF PutSize
    <2> HIDE DEF k, m
    <2> QED BY <1>0, <2>2, <2>3
  <1> HIDE DEF m
  <1>2. /\ ring' = [ring EXCEPT !.mEnd = (ring.mEnd + m) % Size]
        /\ backlog' = [r \in Readers(ring) |-> backlog[r] + m]
        /\ serial' = (serial + m) % Serials
        /\ mBuffer' = [p \in Positions |->
                          LET i == Distance(ring.mEnd, p)
                          IN  IF i < m THEN (serial + i) % Serials ELSE mBuffer[p]]
        /\ out' = <<>>
    BY DEF PutData, Put, m
  <1>3. ring'.mEnd = (ring.mEnd + m) % Size /\ ring'.rp = ring.rp /\ Readers(ring') = Readers(ring)
    BY <1>0, <1>2, RingType DEF Readers
  <1>4. mBuffer' \in [Positions -> Items]
    BY PutKeeps DEF RingInv, TypeOK, Items
  <1>5. ASSUME NEW r \in Readers(ring)
        PROVE  Queue'[r] = Queue[r] \o Fifo!Numbered(serial, m)
    <2> DEFINE p == ring.rp[r]
               l == Distance(p, ring.mEnd)
    <2>1. /\ p \in Positions /\ getLen(ring, r) = l
          /\ backlog[r] \in Nat /\ l = backlog[r] % Size
      BY QueueFacts DEF RingInv, AvailableIsBacklog
    <2>2. backlog[r] + m < Size
      <3>1. ~(backlog'[r] >= Size) /\ backlog'[r] = backlog[r] + m
        BY <1>2, <1>3 DEF Overrun
      <3> QED BY <1>1, <2>1, <3>1, SizeAssumption
    <2>3. l = backlog[r]
      <3>1. backlog[r] \in 0 .. (2 * Size - 1) /\ backlog[r] < Size
        BY <1>1, <2>1, <2>2, SizeAssumption
      <3>2. backlog[r] % Size = backlog[r]
        BY <3>1, ModStep
      <3> QED BY <2>1, <3>2
    <2>4. Distance(p, ring'.mEnd) = l + m
      <3>1. m \in 0 .. Size
        BY <1>1, <2>1, <2>2, SizeAssumption
      <3>2. Distance(p, ring'.mEnd) = (l + m) % Size
        BY <1>0, <1>3, <2>1, <3>1, DistanceAfterPut
      <3>3. l + m \in 0 .. (2 * Size - 1) /\ l + m < Size
        <4> HIDE DEF l
        <4> QED BY <1>1, <2>1, <2>2, <2>3, SizeAssumption
      <3> HIDE DEF l
      <3> QED BY <3>2, <3>3, ModStep
    <2>5. Queue'[r] = CellsOf(mBuffer', p, l + m)
      BY <1>3, <2>4, QueueNext
    <2>6. Queue[r] = CellsOf(mBuffer, p, l)
      BY <2>1, QueueFacts
    <2>7. \A x \in Positions :
             mBuffer'[x] = IF Distance(ring.mEnd, x) < m
                           THEN (serial + Distance(ring.mEnd, x)) % Serials ELSE mBuffer[x]
      BY <1>2
    <2>8. l + m < Size
      BY <2>2, <2>3
    <2>9. mBuffer \in [Positions -> Items] /\ serial \in Items
      BY QueueFacts
    <2>10. CellsOf(mBuffer', p, l + m) = CellsOf(mBuffer, p, l) \o Fifo!Numbered(serial, m)
      <3> DEFINE c == mBuffer'
                 e == ring.mEnd
      <3>1. /\ c \in [Positions -> Items] /\ p \in Positions /\ e \in Positions
            /\ m \in Nat /\ Distance(p, e) + m < Size
            /\ \A x \in Positions : c[x] = IF Distance(e, x) < m
                                        THEN (serial + Distance(e, x)) % Serials ELSE mBuffer[x]
        BY <1>0, <1>1, <1>4, <2>1, <2>7, <2>8
      <3> HIDE DEF p, c, e
      <3>2. CellsOf(c, p, Distance(p, e) + m)
              = CellsOf(mBuffer, p, Distance(p, e)) \o Fifo!Numbered(serial, m)
        BY <2>9, <3>1, CellsPut
      <3> QED BY <3>2 DEF c, e
    <2> QED BY <2>5, <2>6, <2>10
  <1>6. Queue' = [x \in DOMAIN Queue |-> Queue[x] \o Fifo!Numbered(serial, m)]
    <2>1. DOMAIN Queue' = Readers(ring) /\ DOMAIN Queue = Readers(ring)
      BY <1>3, QueueFacts, QueueNext
    <2> QED BY <1>5, <2>1 DEF Queue
  <1>7. m \in 0 .. MaxChunk
    BY <1>1, RingBufferAssumption
  <1>8. Fifo!Write(m)
    BY <1>2, <1>6 DEF Fifo!Write, Queue
  <1> QED BY <1>7, <1>8

\* A pointer that moves up by d takes the d oldest items from one queue.
LEMMA MoveReads ==
    ASSUME RingInv, NEW r \in Readers(ring), NEW d \in 0 .. getLen(ring, r),
           ring' = storeReadPointer(ring, (ring.rp[r] + d) % Size, r),
           mBuffer' = mBuffer, serial' = serial,
           out' \in {<<>>, Cells(ring.rp[r], d)}
    PROVE  \E x \in DOMAIN Queue : \E k \in 0 .. Len(Queue[x]) : Fifo!Read(x, k)
  <1> DEFINE v == (ring.rp[r] + d) % Size
             f == [x \in Readers(ring) |-> IF x = r THEN v ELSE ring.rp[x]]
             l == getLen(ring, r)
  <1>0. /\ mBuffer \in [Positions -> Items]
        /\ ring.rp[r] \in Positions /\ ring.mEnd \in Positions
        /\ l = Distance(ring.rp[r], ring.mEnd) /\ l \in Nat
        /\ Queue[r] = CellsOf(mBuffer, ring.rp[r], l) /\ Len(Queue[r]) = l
        /\ DOMAIN Queue = Readers(ring)
    BY QueueFacts
  <1>1. ring' = withPointers(ring, f)
    BY DEF storeReadPointer
  <1>2. ring'.rp = f /\ ring'.mEnd = ring.mEnd /\ Readers(ring') = Readers(ring)
    <2> HIDE DEF f
    <2>1. ring'.rp = f /\ ring'.mEnd = ring.mEnd
      BY <1>1, RingType DEF withPointers, RingInv, TypeOK
    <2> QED BY <2>1 DEF f, Readers
  <1>3. Distance(v, ring.mEnd) = l - d
    <2> DEFINE p == ring.rp[r]
    <2>1. p \in Positions /\ d \in 0 .. Distance(p, ring.mEnd)
      BY <1>0
    <2> HIDE DEF p
    <2>2. Distance((p + d) % Size, ring.mEnd) = Distance(p, ring.mEnd) - d
      BY <1>0, <2>1, DistanceAfterRead
    <2> QED BY <1>0, <2>2 DEF p
  <1>4. /\ SubSeq(Queue[r], d + 1, l) = CellsOf(mBuffer, v, l - d)
        /\ SubSeq(Queue[r], 1, d) = CellsOf(mBuffer, ring.rp[r], d)
    <2> DEFINE p == ring.rp[r]
    <2>1. p \in Positions /\ l \in Nat /\ d \in 0 .. l
      BY <1>0
    <2> HIDE DEF p, l
    <2>2. /\ SubSeq(CellsOf(mBuffer, p, l), d + 1, l) = CellsOf(mBuffer, (p + d) % Size, l - d)
          /\ SubSeq(CellsOf(mBuffer, p, l), 1, d) = CellsOf(mBuffer, p, d)
      BY <1>0, <2>1, CellsRead
    <2> QED BY <1>0, <2>2 DEF p
  <1>5. Queue'[r] = SubSeq(Queue[r], d + 1, Len(Queue[r]))
    <2>1. ring'.rp[r] = v
      BY <1>2
    <2>2. Queue'[r] = CellsOf(mBuffer, v, Distance(v, ring.mEnd))
      BY <1>2, <2>1, QueueNext
    <2> HIDE DEF v, l
    <2>3. Queue'[r] = CellsOf(mBuffer, v, l - d)
      BY <1>3, <2>2
    <2>4. Queue'[r] = SubSeq(Queue[r], d + 1, l) /\ Len(Queue[r]) = l
      BY <1>0, <1>4, <2>3
    <2> QED BY <2>4
  <1>6. ASSUME NEW x \in Readers(ring) \ {r}
        PROVE  Queue'[x] = Queue[x]
    <2>1. ring'.rp[x] = ring.rp[x]
      BY <1>2
    <2>2. Queue'[x] = CellsOf(mBuffer, ring.rp[x], Distance(ring.rp[x], ring.mEnd))
      BY <1>2, <2>1, QueueNext
    <2> QED BY <2>2, QueueFacts
  <1>7. Queue' = [Queue EXCEPT ![r] = SubSeq(Queue[r], d + 1, Len(Queue[r]))]
    <2>1. DOMAIN Queue' = Readers(ring)
      BY <1>2, QueueNext
    <2> DEFINE g == SubSeq(Queue[r], d + 1, Len(Queue[r]))
    <2>2. \A x \in Readers(ring) : Queue'[x] = IF x = r THEN g ELSE Queue[x]
      BY <1>5, <1>6
    <2>3. Queue' = [x \in DOMAIN Queue' |-> Queue'[x]]
      BY DEF Queue
    <2> HIDE DEF g
    <2>4. Queue' = [Queue EXCEPT ![r] = g]
      BY <1>0, <2>1, <2>2, <2>3
    <2> QED BY <2>4 DEF g
  <1>8. out' \in {<<>>, SubSeq(Queue[r], 1, d)}
    BY <1>4 DEF Cells, CellsOf
  <1>9. d <= Len(Queue[r]) /\ d \in 0 .. Len(Queue[r])
    <2> HIDE DEF l
    <2> QED BY <1>0 DEF l
  <1>10. Fifo!Read(r, d)
    BY <1>0, <1>7, <1>8, <1>9 DEF Fifo!Read, Queue
  <1> QED BY <1>0, <1>9, <1>10

\* A reader that has no pointer gets nothing and changes nothing.
LEMMA StrangerIsQuiet ==
    ASSUME RingInv, NEW r, r \notin Readers(ring), NEW v,
           ring' = storeReadPointer(ring, v, r),
           mBuffer' = mBuffer, serial' = serial, out' = <<>>
    PROVE  Fifo!Quiet
  <1> DEFINE f == [x \in Readers(ring) |-> IF x = r THEN v ELSE ring.rp[x]]
  <1>1. f = ring.rp
    BY RingType DEF RingInv, TypeOK
  <1>2. ring' = withPointers(ring, f)
    BY DEF storeReadPointer
  <1> HIDE DEF f
  <1>3. ring' = ring
    BY <1>1, <1>2, RingType DEF withPointers, RingInv, TypeOK
  <1> QED BY <1>3 DEF Fifo!Quiet, Cells

\* As long as nobody is overrun the rings are one queue per reader: every step
\* adds the items written to all of them, or takes the oldest items of one of them
\* (ReadersGetEverything), whatever the size of the buffer, the readers that come and
\* go and the chunks that putData, getData and discard are asked for.
THEOREM ReadersMissNothing == Spec => ReadersGetEverything
  <1>1. Init => Fifo!Init
    <2> SUFFICES ASSUME Init PROVE Fifo!Init
      OBVIOUS
    <2>1. Readers(ring) = {}
      BY DEF Init, NewRing, Readers
    <2> QED BY <2>1 DEF Init, Fifo!Init
  <1>2. RingInv /\ [Next]_vars => [Overrun \/ Overrun' \/ Fifo!Next]_(Fifo!vars)
    <2> SUFFICES ASSUME RingInv, [Next]_vars, ~Overrun, ~Overrun'
                 PROVE  Fifo!Next \/ UNCHANGED Fifo!vars
      OBVIOUS
    <2>1. CASE UNCHANGED vars
      BY <2>1 DEF vars, Fifo!vars, Cells
    <2>2. ASSUME NEW r \in Ids, AddReader(r) PROVE Fifo!Next
      BY <2>2, AddReaderSubscribes DEF Fifo!Next
    <2>3. ASSUME NEW r \in Ids, RemoveReader(r) PROVE Fifo!Next
      BY <2>3, RemoveReaderUnsubscribes DEF Fifo!Next
    <2>4. ASSUME NEW n \in 0 .. MaxChunk, PutData(n) PROVE Fifo!Next
      BY <2>4, PutWrites DEF Fifo!Next
    <2>5. (\E x \in DOMAIN Queue : \E k \in 0 .. Len(Queue[x]) : Fifo!Read(x, k)) => Fifo!Next
      BY DEF Fifo!Next, Queue
    <2>6. Fifo!Quiet => Fifo!Next
      BY DEF Fifo!Next
    <2>7. ASSUME NEW n \in 0 .. MaxChunk, NEW r \in Ids, GetData(r, n) \/ DiscardData(r, n)
          PROVE  Fifo!Next
      <3> DEFINE d == DiscardSize(ring, n, r)
      <3>1. n \in Nat /\ ring \in Rings(Ids)
        BY RingBufferAssumption DEF RingInv, TypeOK
      <3>2. d \in 0 .. getLen(ring, r)
        BY <3>1, LengthRange
      <3>3. /\ ring' = storeReadPointer(ring, (getReadPointer(ring, r) + d) % Size, r)
            /\ mBuffer' = mBuffer /\ serial' = serial
            /\ out' \in {<<>>, Cells(getReadPointer(ring, r), GetSize(ring, n, r))}
        BY <2>7 DEF GetData, DiscardData, Get, Discard
      <3>4. CASE r \in Readers(ring)
        <4>1. GetSize(ring, n, r) = d /\ getReadPointer(ring, r) = ring.rp[r]
          BY <3>4 DEF GetSize, getReadPointer
        <4> HIDE DEF d
        <4> QED BY <2>5, <3>2, <3>3, <3>4, <4>1, MoveReads
      <3>5. CASE r \notin Readers(ring)
        <4>1. Cells(getReadPointer(ring, r), GetSize(ring, n, r)) = <<>>
          <5>1. getReadPointer(ring, r) \in Positions
            BY <3>1, LengthRange
          <5>2. CellsOf(mBuffer, getReadPointer(ring, r), 0) = <<>>
            BY <5>1, NoCells, QueueFacts
          <5>3. GetSize(ring, n, r) = 0
            BY <3>5 DEF GetSize
          <5> QED BY <5>2, <5>3 DEF Cells, CellsOf
        <4>2. out' = <<>>
          BY <3>3, <4>1
        <4> HIDE DEF d
        <4> QED BY <2>6, <3>3, <3>5, <4>2, StrangerIsQuiet
      <3> QED BY <3>4, <3>5
    <2>8. ASSUME NEW r \in Ids, Flush(r) PROVE Fifo!Next
      <3>1. /\ ring' = storeReadPointer(ring, ring.mEnd, r)
            /\ mBuffer' = mBuffer /\ serial' = serial /\ out' = <<>>
        BY <2>8 DEF Flush, flush
      <3>2. CASE r \in Readers(ring)
        <4>1. /\ ring.rp[r] \in Positions /\ ring.mEnd \in Positions
              /\ getLen(ring, r) = Distance(ring.rp[r], ring.mEnd)
              /\ getLen(ring, r) \in Nat
          BY <3>2, QueueFacts
        <4>2. (ring.rp[r] + getLen(ring, r)) % Size = ring.mEnd
          <5> DEFINE p == ring.rp[r]
                     e == ring.mEnd
                     l == getLen(ring, r)
                     x == p + l
          <5>1. l = IF e >= p THEN e - p ELSE e + Size - p
            BY <4>1, DistanceValue
          <5>2. p \in Positions /\ e \in Positions
            BY <4>1
          <5> HIDE DEF p, e, l
          <5>3. x \in 0 .. (2 * Size - 1) /\ e = IF x < Size THEN x ELSE x - Size
            BY <5>1, <5>2, SizeAssumption DEF Positions
          <5>4. x % Size = e
            <6> HIDE DEF x
            <6> QED BY <5>3, ModStep
          <5> QED BY <5>4 DEF p, e, l
        <4>3. getLen(ring, r) \in 0 .. getLen(ring, r)
          BY <4>1
        <4> QED BY <2>5, <3>1, <3>2, <4>2, <4>3, MoveReads
      <3>3. CASE r \notin Readers(ring)
        BY <2>6, <3>1, <3>3, StrangerIsQuiet
      <3> QED BY <3>2, <3>3
    <2>9. ASSUME FlushAll PROVE Fifo!Next
      <3> DEFINE f == [x \in Readers(ring) |-> ring.mEnd]
      <3>1. /\ ring' = withPointers(ring, f)
            /\ mBuffer' = mBuffer /\ serial' = serial /\ out' = <<>>
        BY <2>9 DEF FlushAll, flushAll
      <3>2. ring'.rp = f /\ ring'.mEnd = ring.mEnd /\ Readers(ring') = Readers(ring)
        <4> HIDE DEF f
        <4>1. ring'.rp = f /\ ring'.mEnd = ring.mEnd
          BY <3>1, RingType DEF withPointers, RingInv, TypeOK
        <4> QED BY <4>1 DEF f, Readers
      <3>3. \A x \in Readers(ring') : Queue'[x] = <<>>
        <4>1. ring.mEnd \in Positions /\ mBuffer \in [Positions -> Items]
          BY RingType, QueueFacts DEF RingInv, TypeOK
        <4>2. ASSUME NEW x \in Readers(ring')
              PROVE  Queue'[x] = CellsOf(mBuffer, ring.mEnd, Distance(ring.mEnd, ring.mEnd))
          BY <3>1, <3>2, QueueNext
        <4> QED BY <4>1, <4>2, NoCells
      <3>4. Queue' = [x \in DOMAIN Queue |-> <<>>]
        <4>1. DOMAIN Queue' = Readers(ring) /\ DOMAIN Queue = Readers(ring)
          BY <3>2, QueueFacts, QueueNext
        <4> QED BY <3>2, <3>3, <4>1 DEF Queue
      <3>5. Fifo!SkipAll
        BY <3>1, <3>4 DEF Fifo!SkipAll, Queue
      <3> QED BY <3>5 DEF Fifo!Next
    <2> QED BY <2>1, <2>2, <2>3, <2>4, <2>7, <2>8, <2>9 DEF Next
  <1> QED BY <1>1, <1>2, RingInvariant, PTL DEF Spec, ReadersGetEverything
===============================================================================
