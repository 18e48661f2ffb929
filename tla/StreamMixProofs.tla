--------------------------- MODULE StreamMixProofs ---------------------------
(***************************************************************************)
(* Proofs about StreamMix: the types of its variables, that what a client  *)
(* asks for is there in every stream that had data (AskedIsThere), and     *)
(* that its own steps never drive its streams apart (SpreadNeverGrows).    *)
(* For the second it does not matter how far the streams are apart:        *)
(* whichever of them syncBuffers takes to be ahead, it only ever shortens  *)
(* queues, before their lengths are taken.                                 *)
(***************************************************************************)
EXTENDS StreamMix, FiniteSetTheorems, WellFoundedInduction, TLAPS

\* The least of a set of lengths: what std::min over the client's set finds.
LEMMA MinOfLengths ==
    ASSUME NEW S \in SUBSET Nat, S # {}
    PROVE  Min(S) \in S /\ \A n \in S : Min(S) <= n
  <1>1. PICK x \in S : \A y \in S : ~ (<<y, x>> \in OpToRel(<, Nat))
    BY WFMin, NatLessThanWellFounded
  <1>2. ASSUME NEW y \in S
        PROVE  x <= y
    <2>1. x \in Nat /\ y \in Nat
      OBVIOUS
    <2>2. ~(y < x)
      BY <1>1, <2>1 DEF OpToRel
    <2> QED BY <2>1, <2>2
  <1> QED BY <1>2 DEF Min

\* Taking from queues leaves lengths, none of them longer, and the empty empty.
LEMMA TakenIsLess ==
    ASSUME NEW len \in [Streams -> Nat], NEW n \in Nat
    PROVE  /\ Taken(len, n) \in [Streams -> Nat]
           /\ \A b \in Streams : len[b] = 0 => Taken(len, n)[b] = 0
  BY DEF Taken

\* The same holds of a resynchronisation, whichever streams are ahead.
LEMMA SyncIsLess ==
    ASSUME TypeOK
    PROVE  /\ syncBuffers \in [Streams -> Nat]
           /\ \A b \in Streams : backlog[b] = 0 => syncBuffers[b] = 0
  <1>1. Resync \in Nat
    BY StreamMixAssumption
  <1>2. \A b \in Streams : Taken(backlog, Resync)[b] \in Nat
    BY <1>1, TakenIsLess DEF TypeOK
  <1>3. \A b \in Streams : backlog[b] = 0 => Taken(backlog, Resync)[b] = 0
    BY <1>1, TakenIsLess DEF TypeOK
  <1> QED BY <1>2, <1>3 DEF syncBuffers, TypeOK

\* availForGet returns a length; when it is not zero, no stream of the client
\* that has data has less, for any lengths whatever.
LEMMA AvailableIsThere ==
    ASSUME TypeOK, NEW len \in [Streams -> Nat]
    PROVE  /\ Available(len) \in Nat
           /\ Available(len) # 0 =>
                 \A b \in members : len[b] > 0 => Available(len) <= len[b]
  <1> DEFINE lens == {len[b] : b \in members}
             found == {n \in lens : 0 < n /\ n < Limit}
  <1>0. members \subseteq Streams /\ Limit \in Nat
    BY StreamMixAssumption DEF TypeOK
  <1>1. lens \in SUBSET Nat /\ found \in SUBSET Nat
    BY <1>0
  <1>2. Cardinality(members) \in Nat
    BY <1>0, StreamMixAssumption, FS_Subset, FS_CardinalityType
  <1>3. CASE Cardinality(members) = 1
    <2>1. members # {}
      BY <1>3, FS_EmptySet
    <2>2. lens # {}
      BY <2>1
    <2>3. Min(lens) \in lens /\ \A n \in lens : Min(lens) <= n
      BY <1>1, <2>2, MinOfLengths
    <2>4. Available(len) = Min(lens)
      BY <1>3 DEF Available
    <2> QED BY <1>1, <2>3, <2>4
  <1>4. CASE Cardinality(members) > 1 /\ found # {}
    <2>1. Min(found) \in found /\ \A n \in found : Min(found) <= n
      BY <1>1, <1>4, MinOfLengths
    <2>2. Available(len) = Min(found)
      BY <1>4, <1>2 DEF Available
    <2>3. \A b \in members : len[b] > 0 => Min(found) <= len[b]
      <3> SUFFICES ASSUME NEW b \in members, len[b] > 0
                   PROVE  Min(found) <= len[b]
        OBVIOUS
      <3>1. len[b] \in lens /\ len[b] \in Nat
        BY <1>0
      <3>2. CASE len[b] < Limit
        BY <2>1, <3>1, <3>2
      <3>3. CASE ~ (len[b] < Limit)
        BY <1>0, <2>1, <3>1, <3>3
      <3> QED BY <3>2, <3>3
    <2> QED BY <1>1, <2>1, <2>2, <2>3
  <1>5. CASE Cardinality(members) # 1 /\ ~ (Cardinality(members) > 1 /\ found # {})
    <2>1. Available(len) = 0
      BY <1>5 DEF Available
    <2> QED BY <2>1
  <1> QED BY <1>3, <1>4, <1>5

\* No client asks for more than it was told there is.
LEMMA AsksForLess ==
    ASSUME TypeOK, NEW told \in Nat, NEW n \in ToGet(told)
    PROVE  n \in Nat /\ n <= told
  <1>1. kind \in {"call", "speaker", "recorder"} /\ frame \in Nat /\ Buffer \in Nat
    BY StreamMixAssumption DEF TypeOK
  <1>2. CASE kind = "call"
    BY <1>1, <1>2 DEF ToGet, processDataEncode
  <1>3. CASE kind = "speaker"
    BY <1>1, <1>3 DEF ToGet, audioCallback
  <1>4. CASE kind = "recorder"
    BY <1>1, <1>4 DEF ToGet, AudioRecorderRun
  <1> QED BY <1>1, <1>2, <1>3, <1>4

-----------------------------------------------------------------------------
\* Each step keeps the types and AskedIsThere.

MixInv == TypeOK /\ AskedIsThere

\* At first nothing is bound.
LEMMA MixInitially == Init => MixInv
  BY DEF Init, MixInv, TypeOK, AskedIsThere, Polling

\* A writer lengthens a queue.
LEMMA PutKeepsInv ==
    ASSUME MixInv, NEW b \in Streams, NEW n \in Chunks \cup {frame}, putData(b, n)
    PROVE  MixInv'
  <1>1. n \in Nat
    BY StreamMixAssumption DEF MixInv, TypeOK
  <1>2. TypeOK'
    BY <1>1 DEF MixInv, TypeOK, putData
  <1>3. AskedIsThere'
    BY <1>1 DEF MixInv, TypeOK, AskedIsThere, putData
  <1> QED BY <1>2, <1>3 DEF MixInv

\* Bindings and flushes take a stream's claim to data away with its data.
LEMMA BindingsKeepInv ==
    ASSUME MixInv, flush \/ \E b \in Streams : Bind(b) \/ Unbind(b)
    PROVE  MixInv'
  <1>1. CASE flush
    BY <1>1 DEF MixInv, TypeOK, AskedIsThere, flush
  <1>2. ASSUME NEW b \in Streams, Bind(b)
        PROVE  MixInv'
    BY <1>2 DEF MixInv, TypeOK, AskedIsThere, Bind
  <1>3. ASSUME NEW b \in Streams, Unbind(b)
        PROVE  MixInv'
    <2>1. TypeOK'
      BY <1>3 DEF MixInv, TypeOK, Unbind
    <2>2. AskedIsThere'
      BY <1>3 DEF MixInv, TypeOK, AskedIsThere, Unbind
    <2> QED BY <2>1, <2>2 DEF MixInv
  <1> QED BY <1>1, <1>2, <1>3

\* The resynchronisation comes before the lengths are taken.
LEMMA AvailKeepsInv ==
    ASSUME MixInv, availForGet
    PROVE  MixInv'
  <1> USE DEF MixInv
  <1>1. /\ backlog' = syncBuffers
        /\ UNCHANGED <<kind, frame, regular, members>>
        /\ nonempty' = {b \in members : rd' # Polling /\ backlog'[b] > 0}
    BY DEF availForGet
  <1>2. /\ backlog' \in [Streams -> Nat]
        /\ \A b \in Streams : backlog[b] = 0 => backlog'[b] = 0
    BY <1>1, SyncIsLess
  <1> DEFINE told == Available(backlog')
  <1>3. PICK n \in ToGet(told) :
            rd' = IF n = 0 THEN Polling ELSE [at |-> "take", told |-> told, asked |-> n]
    BY DEF availForGet
  <1>4. /\ told \in Nat
        /\ told # 0 => \A b \in members : backlog'[b] > 0 => told <= backlog'[b]
    BY <1>2, AvailableIsThere
  <1> HIDE DEF told
  <1>5. n \in Nat /\ n <= told
    BY <1>3, <1>4, AsksForLess
  <1>6. TypeOK'
    BY <1>1, <1>2, <1>3, <1>4, <1>5 DEF TypeOK
  <1>7. AskedIsThere'
    <2> SUFFICES ASSUME rd' # Polling
                 PROVE  /\ \A b \in nonempty' : backlog'[b] >= rd'.asked
                        /\ rd'.asked <= rd'.told
      BY DEF AskedIsThere, Polling
    <2>1. n # 0 /\ rd'.asked = n /\ rd'.told = told
      BY <1>3
    <2>2. \A b \in nonempty' : b \in members /\ b \in Streams /\ backlog'[b] > 0
      BY <1>1 DEF TypeOK
    <2>3. \A b \in nonempty' : backlog'[b] >= n
      BY <1>2, <1>4, <1>5, <2>1, <2>2
    <2> QED BY <1>5, <2>1, <2>3
  <1> QED BY <1>6, <1>7

\* Reading and discarding end or precede what AskedIsThere is about.
LEMMA TakingKeepsInv ==
    ASSUME MixInv, getData \/ \E n \in Chunks : discard(n)
    PROVE  MixInv'
  <1> USE DEF MixInv
  <1>1. CASE getData
    <2>1. rd.asked \in Nat
      BY <1>1 DEF getData, TypeOK
    <2>2. /\ Taken(backlog, rd.asked) \in [Streams -> Nat]
          /\ \A b \in Streams : backlog[b] = 0 => Taken(backlog, rd.asked)[b] = 0
      BY <2>1, TakenIsLess DEF TypeOK
    <2>3. TypeOK'
      BY <1>1, <2>2 DEF getData, TypeOK
    <2>4. AskedIsThere'
      BY <1>1 DEF getData, AskedIsThere, Polling
    <2> QED BY <2>3, <2>4
  <1>2. ASSUME NEW n \in Chunks, discard(n)
        PROVE  MixInv'
    <2>1. n \in Nat
      BY StreamMixAssumption
    <2>2. /\ Taken(backlog, n) \in [Streams -> Nat]
          /\ \A b \in Streams : backlog[b] = 0 => Taken(backlog, n)[b] = 0
      BY <2>1, TakenIsLess DEF TypeOK
    <2>3. TypeOK'
      BY <1>2, <2>2 DEF discard, TypeOK
    <2>4. AskedIsThere'
      BY <1>2 DEF discard, AskedIsThere, Polling
    <2> QED BY <2>3, <2>4
  <1> QED BY <1>1, <1>2

\* The inductive invariant of a client's data path, for every set of streams,
\* every frame and buffer size and every resynchronisation.
THEOREM MixInvariant == Spec => []MixInv
  <1>1. Init => MixInv
    BY MixInitially
  <1>2. MixInv /\ [Next]_vars => MixInv'
    <2> SUFFICES ASSUME MixInv, [Next]_vars
                 PROVE  MixInv'
      OBVIOUS
    <2>1. CASE UNCHANGED vars
      BY <2>1 DEF vars, MixInv, TypeOK, AskedIsThere, Polling
    <2>2. ASSUME NEW b \in Streams, NEW n \in Chunks \cup {frame}, putData(b, n)
          PROVE  MixInv'
      BY <2>2, PutKeepsInv
    <2>3. CASE flush \/ \E b \in Streams : Bind(b) \/ Unbind(b)
      BY <2>3, BindingsKeepInv
    <2>4. CASE availForGet
      BY <2>4, AvailKeepsInv
    <2>5. CASE getData \/ \E n \in Chunks : discard(n)
      BY <2>5, TakingKeepsInv
    <2> QED BY <2>1, <2>2, <2>3, <2>4, <2>5 DEF Next, Client
  <1> QED BY <1>1, <1>2, PTL DEF Spec

\* Type correctness of the client's data path (the queues of MainBuffer).
THEOREM MixTypeCorrect == Spec => []TypeOK
  BY MixInvariant, PTL DEF MixInv

\* AskedIsThere, for every set of streams and every client: nothing that comes
\* between availForGet and getData takes what was promised from a stream that
\* the client still reads.
THEOREM AskedStaysThere == Spec => []AskedIsThere
  BY MixInvariant, PTL DEF MixInv

-----------------------------------------------------------------------------
\* How far apart the streams are.  A stream loses data to a resynchronisation
\* only when it has more than the mean by more than what it loses, and the mean
\* is at least the least length: it stays above the stream that is most behind.

\* The sum of the lengths, which MapThenSumSet defines by recursion on the sets,
\* is defined on every set of streams: the equation has a solution.
LEMMA TotalIsSum ==
    ASSUME TypeOK
    PROVE  \E sum :
              /\ Total(backlog) = sum[members]
              /\ \A s \in SUBSET members :
                    \/ s = {} /\ sum[s] = 0
                    \/ \E b \in s : sum[s] = backlog[b] + sum[s \ {b}]
  <1> DEFINE pick(s) == CHOOSE b \in s : TRUE
             Step(g) == [s \in SUBSET members |->
                            IF s = {} THEN 0 ELSE backlog[pick(s)] + g[s \ {pick(s)}]]
             Upto(g, n) == \A s \in SUBSET members : Cardinality(s) <= n => g[s] = Step(g)[s]
             unsolved == {n \in Nat : ~ \E g : g = [s \in SUBSET members |-> g[s]] /\ Upto(g, n)}
  <1>1. IsFiniteSet(members)
    BY StreamMixAssumption, FS_Subset DEF TypeOK
  <1>2. \A s \in SUBSET members : IsFiniteSet(s) /\ Cardinality(s) \in Nat
                                  /\ Cardinality(s) <= Cardinality(members)
    BY <1>1, FS_Subset, FS_CardinalityType
  <1>3. \A s \in SUBSET members : s # {} =>
            pick(s) \in s /\ s \ {pick(s)} \in SUBSET members
            /\ Cardinality(s \ {pick(s)}) = Cardinality(s) - 1
    <2> SUFFICES ASSUME NEW s \in SUBSET members, s # {}
                 PROVE  /\ pick(s) \in s /\ s \ {pick(s)} \in SUBSET members
                        /\ Cardinality(s \ {pick(s)}) = Cardinality(s) - 1
      OBVIOUS
    <2>1. pick(s) \in s
      OBVIOUS
    <2> HIDE DEF pick
    <2> QED BY <1>2, <2>1, FS_RemoveElement
  <1> HIDE DEF pick
  <1>4. unsolved = {}
    <2> SUFFICES ASSUME unsolved # {}
                 PROVE  FALSE
      OBVIOUS
    <2> DEFINE n == Min(unsolved)
    <2>1. n \in unsolved /\ \A m \in unsolved : n <= m
      BY MinOfLengths
    <2> HIDE DEF n
    <2>2. n \in Nat /\ ~ \E g : g = [s \in SUBSET members |-> g[s]] /\ Upto(g, n)
      BY <2>1
    <2> HIDE DEF unsolved
    <2>3. CASE n = 0
      <3> DEFINE g == [s \in SUBSET members |-> 0]
      <3>1. \A s \in SUBSET members : Cardinality(s) <= n => s = {}
        BY <1>2, <2>3, FS_EmptySet
      <3>2. Upto(g, n)
        BY <3>1
      <3> QED BY <2>2, <3>2
    <2>4. CASE n # 0
      <3>1. n - 1 \in Nat /\ n - 1 \notin unsolved
        BY <2>1, <2>2, <2>4, SMT
      <3>2. PICK g : g = [s \in SUBSET members |-> g[s]] /\ Upto(g, n - 1)
        BY <3>1 DEF unsolved
      <3> DEFINE h == Step(g)
      <3>3. \A s \in SUBSET members : Cardinality(s) <= n => h[s] = Step(h)[s]
        <4> SUFFICES ASSUME NEW s \in SUBSET members, Cardinality(s) <= n, s # {}
                     PROVE  h[s] = Step(h)[s]
          OBVIOUS
        <4> DEFINE r == s \ {pick(s)}
        <4>1. r \in SUBSET members /\ Cardinality(r) <= n - 1
          BY <1>2, <1>3, <2>2
        <4>2. g[r] = h[r]
          BY <3>2, <4>1
        <4> HIDE DEF r
        <4>3. h[s] = backlog[pick(s)] + g[r] /\ Step(h)[s] = backlog[pick(s)] + h[r]
          BY DEF r
        <4> QED BY <4>2, <4>3
      <3>4. h = [s \in SUBSET members |-> h[s]]
        OBVIOUS
      <3> QED BY <2>2, <3>3, <3>4
    <2> QED BY <2>3, <2>4
  <1>5. PICK g : g = [s \in SUBSET members |-> g[s]] /\ Upto(g, Cardinality(members))
    BY <1>1, <1>4, FS_CardinalityType
  <1>6. g = Step(g)
    BY <1>2, <1>5
  <1> DEFINE sum == CHOOSE f : f = Step(f)
  <1>7. sum = Step(sum)
    BY <1>6
  <1>8. Total(backlog) = sum[members]
    BY DEF Total, MapThenSumSet, MapThenFoldSet, pick
  <1> HIDE DEF sum
  <1>9. ASSUME NEW s \in SUBSET members
        PROVE  \/ s = {} /\ sum[s] = 0
               \/ \E b \in s : sum[s] = backlog[b] + sum[s \ {b}]
    <2>1. sum[s] = IF s = {} THEN 0 ELSE backlog[pick(s)] + sum[s \ {pick(s)}]
      BY <1>7
    <2> QED BY <1>3, <2>1
  <1> QED BY <1>8, <1>9

\* No mean is less than the least length.
LEMMA TotalAtLeast ==
    ASSUME TypeOK, NEW low \in Nat, \A b \in members : low <= backlog[b]
    PROVE  Total(backlog) \in Nat /\ low * Cardinality(members) <= Total(backlog)
  <1>1. PICK sum :
           /\ Total(backlog) = sum[members]
           /\ \A s \in SUBSET members : \/ s = {} /\ sum[s] = 0
                                        \/ \E b \in s : sum[s] = backlog[b] + sum[s \ {b}]
    BY TotalIsSum
  <1>2. IsFiniteSet(members)
    BY StreamMixAssumption, FS_Subset DEF TypeOK
  <1>3. \A s \in SUBSET members : IsFiniteSet(s) /\ Cardinality(s) \in Nat
    BY <1>2, FS_Subset, FS_CardinalityType
  <1> DEFINE Enough(s) == sum[s] \in Nat /\ low * Cardinality(s) <= sum[s]
             short == {s \in SUBSET members : ~ Enough(s)}
             sizes == {Cardinality(s) : s \in short}
  <1>4. short = {}
    <2> SUFFICES ASSUME short # {}
                 PROVE  FALSE
      OBVIOUS
    <2>1. sizes \in SUBSET Nat /\ sizes # {}
      BY <1>3
    <2>2. Min(sizes) \in sizes /\ \A n \in sizes : Min(sizes) <= n
      BY <2>1, MinOfLengths
    <2>3. PICK s \in short : \A t \in short : Cardinality(s) <= Cardinality(t)
      BY <2>2
    <2>4. s \in SUBSET members /\ ~ Enough(s)
      BY <2>3
    <2>5. CASE s = {} /\ sum[s] = 0
      BY <2>4, <2>5, FS_EmptySet
    <2>6. ASSUME NEW b \in s, sum[s] = backlog[b] + sum[s \ {b}]
          PROVE  FALSE
      <3> DEFINE r == s \ {b}
                 n == Cardinality(r)
      <3>1. r \in SUBSET members /\ n \in Nat /\ Cardinality(s) = n + 1
        BY <1>3, <2>4, FS_RemoveElement
      <3>2. Enough(r)
        <4> SUFFICES ASSUME ~ Enough(r)
                     PROVE  FALSE
          OBVIOUS
        <4>1. r \in short
          BY <3>1
        <4>2. Cardinality(s) <= n
          BY <2>3, <4>1
        <4> HIDE DEF n
        <4> QED BY <3>1, <4>2
      <3>3. backlog[b] \in Nat /\ low <= backlog[b]
        BY <2>4 DEF TypeOK
      <3> HIDE DEF r, n
      <3>4. low * (n + 1) = low * n + low /\ low * n \in Nat
        BY <3>1
      <3>5. sum[r] \in Nat /\ low * n <= sum[r] /\ sum[s] = backlog[b] + sum[r]
        BY <2>6, <3>2 DEF r, n
      <3>6. sum[s] \in Nat /\ low * (n + 1) <= sum[s]
        BY <3>3, <3>4, <3>5
      <3> QED BY <2>4, <3>1, <3>6
    <2> QED BY <1>1, <2>4, <2>5, <2>6
  <1>5. Enough(members)
    BY <1>4
  <1> QED BY <1>1, <1>5

\* The greatest of a set of lengths: one that the fewest are greater than.
LEMMA MaxOfLengths ==
    ASSUME NEW S \in SUBSET Nat, S # {}, IsFiniteSet(S)
    PROVE  Max(S) \in S /\ \A n \in S : n <= Max(S)
  <1> DEFINE above(x) == {n \in S : n > x}
             sizes == {Cardinality(above(x)) : x \in S}
  <1>1. \A x \in S : IsFiniteSet(above(x)) /\ Cardinality(above(x)) \in Nat
    BY FS_Subset, FS_CardinalityType
  <1>2. sizes \in SUBSET Nat /\ sizes # {}
    BY <1>1
  <1>3. Min(sizes) \in sizes /\ \A n \in sizes : Min(sizes) <= n
    BY <1>2, MinOfLengths
  <1>4. PICK x \in S : \A y \in S : Cardinality(above(x)) <= Cardinality(above(y))
    BY <1>3
  <1>5. ASSUME NEW y \in S, ~ (y <= x)
        PROVE  FALSE
    <2>1. above(y) \in SUBSET above(x) /\ y \in above(x) /\ y \notin above(y)
      <3>1. x \in Nat /\ y \in Nat /\ y > x /\ ~ (y > y) /\ \A n \in S : n \in Nat
        BY <1>5
      <3>2. \A n \in S : n > y => n > x
        BY <3>1
      <3> QED BY <3>1, <3>2
    <2>2. /\ Cardinality(above(y)) <= Cardinality(above(x))
          /\ Cardinality(above(y)) # Cardinality(above(x))
      BY <1>1, <2>1, FS_Subset
    <2> HIDE DEF above
    <2>3. Cardinality(above(y)) \in Nat /\ Cardinality(above(x)) \in Nat
      BY <1>1
    <2> QED BY <1>4, <2>2, <2>3
  <1>6. \E m \in S : \A n \in S : m >= n
    BY <1>5
  <1> QED BY <1>6 DEF Max

\* The least and the greatest length are those of some streams.
LEMMA SpreadOfTwo ==
    ASSUME NEW M \in SUBSET Streams, M # {}, NEW len \in [Streams -> Nat]
    PROVE  \E d, e \in M :
              /\ Max({len[b] : b \in M}) = len[d] /\ Min({len[b] : b \in M}) = len[e]
              /\ \A b \in M : len[e] <= len[b] /\ len[b] <= len[d]
  <1> DEFINE lens == {len[b] : b \in M}
  <1>1. lens \in SUBSET Nat /\ lens # {}
    OBVIOUS
  <1>2. IsFiniteSet(M)
    BY StreamMixAssumption, FS_Subset
  <1>3. IsFiniteSet(lens)
    <2> DEFINE f == [b \in M |-> len[b]]
    <2>1. f \in Surjection(M, lens)
      BY DEF Surjection
    <2> QED BY <1>2, <2>1, FS_Surjection
  <1>4. Min(lens) \in lens /\ \A n \in lens : Min(lens) <= n
    BY <1>1, MinOfLengths
  <1>5. Max(lens) \in lens /\ \A n \in lens : n <= Max(lens)
    BY <1>1, <1>3, MaxOfLengths
  <1>6. PICK d \in M : Max(lens) = len[d]
    BY <1>5
  <1>7. PICK e \in M : Min(lens) = len[e]
    BY <1>4
  <1>8. \A b \in M : len[b] \in lens
    OBVIOUS
  <1> HIDE DEF lens
  <1>9. \A b \in M : len[e] <= len[b] /\ len[b] <= len[d]
    BY <1>4, <1>5, <1>6, <1>7, <1>8
  <1> QED BY <1>6, <1>7, <1>9 DEF lens

\* A step spreads the streams no further when every two lengths after it are at
\* most as far apart as some two before it.
LEMMA NotFurtherApart ==
    ASSUME TypeOK, TypeOK', members' = members,
           \A b, c \in members : \E d, e \in members :
               backlog'[b] - backlog'[c] <= backlog[d] - backlog[e]
    PROVE  Spread' <= Spread
  <1>1. CASE members = {}
    BY <1>1 DEF Spread
  <1>2. CASE members # {}
    <2> DEFINE old == {backlog[b] : b \in members}
               new == {backlog'[b] : b \in members}
    <2>1. Spread = Max(old) - Min(old) /\ Spread' = Max(new) - Min(new)
      BY <1>2 DEF Spread
    <2>0. /\ members \in SUBSET Streams
          /\ backlog \in [Streams -> Nat] /\ backlog' \in [Streams -> Nat]
      BY DEF TypeOK
    <2>2. PICK d, e \in members :
             /\ Max(old) = backlog[d] /\ Min(old) = backlog[e]
             /\ \A b \in members : backlog[e] <= backlog[b] /\ backlog[b] <= backlog[d]
      BY <1>2, <2>0, SpreadOfTwo
    <2>3. PICK b, c \in members : Max(new) = backlog'[b] /\ Min(new) = backlog'[c]
      <3>1. \E b, c \in members :
               /\ Max({backlog'[z] : z \in members}) = backlog'[b]
               /\ Min({backlog'[z] : z \in members}) = backlog'[c]
               /\ \A z \in members : backlog'[c] <= backlog'[z] /\ backlog'[z] <= backlog'[b]
        BY <1>2, <2>0, SpreadOfTwo, Zenon
      <3> QED BY <3>1
    <2>4. PICK x, y \in members : backlog'[b] - backlog'[c] <= backlog[x] - backlog[y]
      OBVIOUS
    <2>5. /\ \A z \in {b, c, d, e, x, y} : backlog[z] \in Nat /\ backlog'[z] \in Nat
          /\ backlog[e] <= backlog[y] /\ backlog[x] <= backlog[d]
      BY <2>0, <2>2
    <2> HIDE DEF old, new
    <2>6. backlog'[b] - backlog'[c] <= backlog[d] - backlog[e]
      <3>1. \A p, q, u, v, w, z \in Nat :
               p - q <= w - z /\ v <= z /\ w <= u => p - q <= u - v
        OBVIOUS
      <3> QED BY <2>4, <2>5, <3>1, Zenon
    <2> QED BY <2>1, <2>2, <2>3, <2>6
  <1> QED BY <1>1, <1>2

\* Taking the same of every stream.
LEMMA TakingKeepsTogether ==
    ASSUME TypeOK, TypeOK', members' = members, NEW n \in Nat, backlog' = Taken(backlog, n)
    PROVE  Spread' <= Spread
  <1> SUFFICES ASSUME NEW b \in members, NEW c \in members
               PROVE  \E d, e \in members :
                         backlog'[b] - backlog'[c] <= backlog[d] - backlog[e]
    BY NotFurtherApart
  <1>1. b \in Streams /\ c \in Streams /\ backlog[b] \in Nat /\ backlog[c] \in Nat
    BY DEF TypeOK
  <1>2. /\ backlog'[b] = IF backlog[b] < n THEN 0 ELSE backlog[b] - n
        /\ backlog'[c] = IF backlog[c] < n THEN 0 ELSE backlog[c] - n
    BY <1>1 DEF Taken
  <1>3. CASE backlog[b] >= backlog[c]
    BY <1>1, <1>2, <1>3
  <1>4. CASE backlog[b] < backlog[c]
    <2>1. backlog'[b] - backlog'[c] <= backlog[b] - backlog[b]
      BY <1>1, <1>2, <1>4
    <2> QED BY <2>1
  <1> QED BY <1>1, <1>3, <1>4

\* Resynchronising: no stream gets longer, none falls behind the last.
LEMMA SyncKeepsTogether ==
    ASSUME TypeOK, TypeOK', members' = members, backlog' = syncBuffers
    PROVE  Spread' <= Spread
  <1> SUFFICES ASSUME NEW b \in members, NEW c \in members
               PROVE  \E d, e \in members :
                         backlog'[b] - backlog'[c] <= backlog[d] - backlog[e]
    BY NotFurtherApart
  <1>1. b \in Streams /\ c \in Streams /\ members \in SUBSET Streams /\ Resync \in Nat
    BY StreamMixAssumption DEF TypeOK
  <1>2. backlog[b] \in Nat /\ backlog[c] \in Nat /\ backlog'[b] \in Nat /\ backlog'[c] \in Nat
    BY <1>1 DEF TypeOK
  <1>3. backlog'[b] <= backlog[b]
    BY <1>1, <1>2 DEF syncBuffers, Taken
  <1>4. PICK e \in members : \A z \in members : backlog[e] <= backlog[z]
    BY <1>1, SpreadOfTwo DEF TypeOK
  <1>5. backlog[e] \in Nat
    BY <1>1 DEF TypeOK
  <1>6. backlog[e] <= backlog'[c]
    <2>1. CASE ~ Ahead(c)
      BY <1>1, <1>4, <2>1 DEF syncBuffers
    <2>2. CASE Ahead(c)
      <3> DEFINE n == Cardinality(members)
      <3>1. n \in Nat
        BY <1>1, StreamMixAssumption, FS_Subset, FS_CardinalityType
      <3>2. n > 1 /\ backlog[c] * n > Total(backlog) + Resync * n
        BY <2>2 DEF Ahead
      <3>3. Total(backlog) \in Nat /\ backlog[e] * n <= Total(backlog)
        BY <1>4, <1>5, TotalAtLeast
      <3> HIDE DEF n
      <3>4. backlog[c] * n > backlog[e] * n + Resync * n
        BY <1>1, <1>2, <1>5, <3>1, <3>2, <3>3
      <3>5. backlog[c] * n > (backlog[e] + Resync) * n
        BY <1>1, <1>2, <1>5, <3>1, <3>4
      <3>6. backlog[c] > backlog[e] + Resync
        BY <1>1, <1>2, <1>5, <3>1, <3>2, <3>5
      <3>7. backlog'[c] = IF backlog[c] < Resync THEN 0 ELSE backlog[c] - Resync
        BY <1>1, <2>2 DEF syncBuffers, Taken
      <3> QED BY <1>1, <1>2, <1>5, <3>6, <3>7
    <2> QED BY <2>1, <2>2
  <1>7. backlog'[b] - backlog'[c] <= backlog[b] - backlog[e]
    BY <1>2, <1>3, <1>5, <1>6
  <1> QED BY <1>7

\* SpreadNeverGrows, for every set of streams and every resynchronisation.
THEOREM ClientKeepsTogether == Spec => SpreadNeverGrows
  <1>1. MixInv /\ MixInv' /\ [Next]_vars => [Client => Spread' <= Spread]_vars
    <2> SUFFICES ASSUME MixInv, MixInv', Client
                 PROVE  Spread' <= Spread
      OBVIOUS
    <2>1. TypeOK /\ TypeOK'
      BY DEF MixInv
    <2>2. CASE availForGet
      BY <2>1, <2>2, SyncKeepsTogether DEF availForGet
    <2>3. CASE getData
      <3>1. rd.asked \in Nat
        BY <2>1, <2>3 DEF getData, TypeOK
      <3> QED BY <2>1, <2>3, <3>1, TakingKeepsTogether DEF getData
    <2>4. ASSUME NEW n \in Chunks, discard(n)
          PROVE  Spread' <= Spread
      <3>1. n \in Nat
        BY StreamMixAssumption
      <3> QED BY <2>1, <2>4, <3>1, TakingKeepsTogether DEF discard
    <2> QED BY <2>2, <2>3, <2>4 DEF Client
  <1> QED BY <1>1, MixInvariant, PTL DEF Spec, SpreadNeverGrows
==============================================================================
