--------------------------- MODULE MainBufferProofs ---------------------------
(***************************************************************************)
(* The bindings of MainBuffer hold together for every set of calls,        *)
(* recorders and threads.                                                  *)
(*                                                                         *)
(* Only the four graph variables matter to the invariant, and only three   *)
(* things ever happen to them: bindCallID, bindHalfDuplexOut, and the      *)
(* removal of read pointers.  One lemma for each says what it keeps.       *)
(***************************************************************************)
EXTENDS MainBuffer, TLAPS

\* The part of the invariant that is about the graph.
GraphInv == NoDanglingBinding /\ DuplexBinding /\ RingWhileRead

------------------------------------------------------------------------------
(***************************************************************************)
(* Types.                                                                  *)
(***************************************************************************)

\* MarkDirty keeps its history variable within the threads.
LEMMA MarkDirtyType ==
    ASSUME NEW t \in Threads, MarkDirty(t)
    PROVE  dirty' \subseteq Threads
  BY DEF MarkDirty

\* Continue keeps the locals of unBindAll well typed.
LEMMA ContinueType ==
    ASSUME TypeOK, NEW t \in Threads, NEW members \in SUBSET Ids, Continue(t, members)
    PROVE  /\ pc' \in [Threads -> {"idle", "copy", "loop"}]
           /\ arg' \in [Threads -> Ids]
           /\ left' \in [Threads -> SUBSET Ids]
  BY DEF TypeOK, Continue, Ids, Streams

\* Disconnect keeps the graph well typed.
LEMMA DisconnectType ==
    ASSUME TypeOK, NEW a \in Ids, NEW b \in Ids, Disconnect(a, b)
    PROVE  /\ rings' \subseteq Streams
           /\ reader' \in [Ids -> SUBSET Ids]
           /\ sets' \subseteq Ids
           /\ bound' \in [Ids -> SUBSET Ids]
           /\ \A x \in Ids \ sets' : bound'[x] = {}
  <1> DEFINE gone == {x \in {a, b} \cap rings : reader'[x] = {}}
  <1>1. /\ reader' = [reader EXCEPT ![a] = @ \ {b}, ![b] = @ \ {a}]
        /\ rings' = rings \ gone
        /\ sets' = sets \ gone
        /\ bound' = [x \in Ids |-> IF x \in gone THEN {}
                                   ELSE IF x = a THEN bound[x] \ {b}
                                   ELSE IF x = b THEN bound[x] \ {a}
                                   ELSE bound[x]]
    BY DEF Disconnect
  <1> HIDE DEF gone
  <1> QED BY <1>1 DEF TypeOK

\* Type correctness: the state of MainBuffer and the locals of every thread
\* stay within their types; a stream without a set has no member in it.
THEOREM TypeCorrect == Spec => []TypeOK
  <1>1. Init => TypeOK
    BY DEF Init, TypeOK, Ids, Streams
  <1>2. TypeOK /\ [Next]_vars => TypeOK'
    <2> SUFFICES ASSUME TypeOK, [Next]_vars PROVE TypeOK'
      OBVIOUS
    <2> USE IdsAssumption
    <2>1. ASSUME NEW t \in Threads, NEW a \in Calls, NEW b \in Streams, a # b,
                 bindCallID(t, a, b)
          PROVE  TypeOK'
      BY <2>1, MarkDirtyType DEF TypeOK, bindCallID, local, Ids, Streams
    <2>2. ASSUME NEW t \in Threads, NEW a \in Streams, NEW b \in Streams,
                 unBindCallID(t, a, b)
          PROVE  TypeOK'
      <3>1. a \in Ids /\ b \in Ids /\ Disconnect(a, b) /\ MarkDirty(t) /\ UNCHANGED local
        BY <2>2 DEF unBindCallID, Ids
      <3> QED BY <3>1, DisconnectType, MarkDirtyType DEF TypeOK, local
    <2>3. ASSUME NEW t \in Threads, NEW p \in Processes, NEW b \in Streams,
                 bindHalfDuplexOut(t, p, b)
          PROVE  TypeOK'
      BY <2>3, MarkDirtyType DEF TypeOK, bindHalfDuplexOut, local, Ids, Streams
    <2>4. ASSUME NEW t \in Threads, NEW p \in Processes, NEW b \in Streams,
                 unBindHalfDuplexOut(t, p, b)
          PROVE  TypeOK'
      <3> DEFINE goneRing == {x \in {b} \cap rings : reader'[x] = {}}
                 goneSet == IF b \notin rings \/ bound[p] \ {b} = {} THEN {p} ELSE {}
      <3>1. /\ reader' = [reader EXCEPT ![b] = @ \ {p}]
            /\ rings' = rings \ goneRing
            /\ sets' = sets \ (goneRing \cup goneSet)
            /\ bound' = [x \in Ids |-> IF x \in goneRing \cup goneSet THEN {}
                                       ELSE IF x = p THEN bound[x] \ {b}
                                       ELSE bound[x]]
            /\ MarkDirty(t)
            /\ UNCHANGED local
        BY <2>4 DEF unBindHalfDuplexOut
      <3> HIDE DEF goneRing, goneSet
      <3> QED BY <3>1, MarkDirtyType DEF TypeOK, local
    <2>5. ASSUME NEW t \in Threads, NEW id \in Ids, unBindAll(t, id)
          PROVE  TypeOK'
      BY <2>5 DEF TypeOK, unBindAll, graph
    <2>6. ASSUME NEW t \in Threads, unBindAllCopy(t)
          PROVE  TypeOK'
      <3>1. PICK temp \in SUBSET Ids : Continue(t, temp)
        BY <2>6 DEF unBindAllCopy
      <3>2. UNCHANGED graph /\ MarkDirty(t)
        BY <2>6 DEF unBindAllCopy
      <3> QED BY <3>1, <3>2, ContinueType, MarkDirtyType DEF TypeOK, graph
    <2>7. ASSUME NEW t \in Threads, unBindAllStep(t)
          PROVE  TypeOK'
      <3>1. PICK x \in left[t] : /\ Disconnect(arg[t], x)
                                 /\ Continue(t, left[t] \ {x})
                                 /\ MarkDirty(t)
        BY <2>7 DEF unBindAllStep
      <3>2. arg[t] \in Ids /\ x \in Ids /\ left[t] \ {x} \in SUBSET Ids
        BY DEF TypeOK
      <3> QED BY <3>1, <3>2, DisconnectType, ContinueType, MarkDirtyType DEF TypeOK
    <2>8. CASE UNCHANGED vars
      BY <2>8 DEF TypeOK, vars
    <2> QED BY <2>1, <2>2, <2>3, <2>4, <2>5, <2>6, <2>7, <2>8 DEF Next
  <1> QED BY <1>1, <1>2, PTL DEF Spec

------------------------------------------------------------------------------
(***************************************************************************)
(* What each operation on the graph keeps.                                 *)
(***************************************************************************)

\* Making the two read each other keeps the bindings whole.
LEMMA BindKeeps ==
    ASSUME TypeOK, GraphInv,
           NEW t \in Threads, NEW a \in Calls, NEW b \in Streams, a # b,
           bindCallID(t, a, b)
    PROVE  GraphInv'
  <1> USE IdsAssumption DEF TypeOK, Ids, Streams
  <1>1. /\ rings' = rings \cup {a, b}
        /\ reader' = [reader EXCEPT ![a] = @ \cup {b}, ![b] = @ \cup {a}]
        /\ bound' = [bound EXCEPT ![a] = @ \cup {b}, ![b] = @ \cup {a}]
    BY DEF bindCallID
  <1>2. NoDanglingBinding'
    BY <1>1 DEF GraphInv, NoDanglingBinding
  <1>3. DuplexBinding'
    BY <1>1 DEF GraphInv, DuplexBinding
  <1>4. RingWhileRead'
    BY <1>1 DEF GraphInv, RingWhileRead
  <1> QED BY <1>2, <1>3, <1>4 DEF GraphInv

\* A recorder following a stream that has a ring buffer keeps them whole.
LEMMA BindHalfKeeps ==
    ASSUME TypeOK, GraphInv,
           NEW t \in Threads, NEW p \in Processes, NEW b \in Streams,
           bindHalfDuplexOut(t, p, b)
    PROVE  GraphInv'
  <1> USE IdsAssumption DEF TypeOK, Ids, Streams
  <1>1. /\ b \in rings
        /\ rings' = rings
        /\ reader' = [reader EXCEPT ![b] = @ \cup {p}]
        /\ bound' = [bound EXCEPT ![p] = @ \cup {b}]
    BY DEF bindHalfDuplexOut
  <1>2. NoDanglingBinding'
    BY <1>1 DEF GraphInv, NoDanglingBinding
  <1>3. DuplexBinding'
    BY <1>1 DEF GraphInv, DuplexBinding
  <1>4. RingWhileRead'
    BY <1>1 DEF GraphInv, RingWhileRead
  <1> QED BY <1>2, <1>3, <1>4 DEF GraphInv

\* A recorder letting go of a stream, by the good or by the error branch,
\* leaves no set that names a ring buffer without the read pointer.
LEMMA UnBindHalfKeeps ==
    ASSUME TypeOK, GraphInv,
           NEW t \in Threads, NEW p \in Processes, NEW b \in Streams,
           unBindHalfDuplexOut(t, p, b)
    PROVE  GraphInv'
  <1> USE IdsAssumption DEF TypeOK, Ids, Streams
  <1> DEFINE goneRing == {x \in {b} \cap rings : reader'[x] = {}}
             goneSet == IF b \notin rings \/ bound[p] \ {b} = {} THEN {p} ELSE {}
  <1>1. /\ reader' = [reader EXCEPT ![b] = @ \ {p}]
        /\ rings' = rings \ goneRing
        /\ bound' = [x \in Ids |-> IF x \in goneRing \cup goneSet THEN {}
                                   ELSE IF x = p THEN bound[x] \ {b}
                                   ELSE bound[x]]
    BY DEF unBindHalfDuplexOut
  <1>2. \A x \in Streams : bound'[x] = IF x \in goneRing THEN {} ELSE bound[x]
    BY <1>1
  <1>3. \A x \in goneRing : bound[x] = {}
    <2> SUFFICES ASSUME b \in rings, reader'[b] = {}, NEW y \in bound[b] PROVE FALSE
      OBVIOUS
    <2>1. y \in Streams /\ b \in reader[y]
      BY DEF GraphInv, NoDanglingBinding
    <2>2. y \in reader[b]
      BY <2>1 DEF GraphInv, DuplexBinding
    <2> QED BY <1>1, <2>1, <2>2
  <1>4. \A x \in Streams : bound'[x] = bound[x]
    BY <1>2, <1>3
  <1>5. bound'[p] \subseteq bound[p] \ {b} /\ \A x \in Processes : bound'[x] \subseteq bound[x]
    BY <1>1
  <1>6. NoDanglingBinding'
    <2> SUFFICES ASSUME NEW x \in Ids, NEW y \in bound'[x]
                 PROVE  y \in rings' /\ x \in reader'[y]
      BY DEF NoDanglingBinding
    <2>1. y \in bound[x] /\ ~(x = p /\ y = b)
      BY <1>4, <1>5
    <2>2. y \in rings /\ x \in reader[y]
      BY <2>1 DEF GraphInv, NoDanglingBinding
    <2>3. x \in reader'[y]
      BY <1>1, <2>1, <2>2
    <2> QED BY <1>1, <2>2, <2>3
  <1>7. DuplexBinding'
    BY <1>1, <1>4 DEF GraphInv, DuplexBinding
  <1>8. RingWhileRead'
    BY <1>1 DEF GraphInv, RingWhileRead
  <1> QED BY <1>6, <1>7, <1>8 DEF GraphInv

\* Disconnecting any two ids removes that binding whole and no other one; a
\* ring buffer that goes was the last thing its stream was bound by.
LEMMA DisconnectKeeps ==
    ASSUME TypeOK, GraphInv, NEW a \in Ids, NEW b \in Ids, Disconnect(a, b)
    PROVE  GraphInv'
  <1> USE IdsAssumption DEF TypeOK, Ids, Streams
  <1> DEFINE gone == {x \in {a, b} \cap rings : reader'[x] = {}}
             less(x) == IF x = a THEN bound[x] \ {b}
                        ELSE IF x = b THEN bound[x] \ {a}
                        ELSE bound[x]
  <1>1. /\ reader' = [reader EXCEPT ![a] = @ \ {b}, ![b] = @ \ {a}]
        /\ rings' = rings \ gone
        /\ bound' = [x \in Ids |-> IF x \in gone THEN {} ELSE less(x)]
    BY DEF Disconnect
  <1>2. \A x, y \in Ids : x \in reader'[y]
                             <=> x \in reader[y] /\ <<x, y>> \notin {<<a, b>>, <<b, a>>}
    BY <1>1
  <1>3. \A x \in Ids : \A y : y \in less(x)
                             <=> y \in bound[x] /\ <<x, y>> \notin {<<a, b>>, <<b, a>>}
    OBVIOUS
  <1>4. \A x \in gone : less(x) = {}
    <2> SUFFICES ASSUME NEW x \in gone, NEW y \in less(x) PROVE FALSE
      OBVIOUS
    <2>1. y \in bound[x] /\ <<x, y>> \notin {<<a, b>>, <<b, a>>}
      BY <1>3
    <2>2. x \in Streams /\ y \in Streams
      BY <2>1 DEF GraphInv, NoDanglingBinding
    <2>3. y \in reader[x]
      BY <2>1, <2>2 DEF GraphInv, DuplexBinding
    <2>4. y \in reader'[x]
      BY <1>2, <2>1, <2>2, <2>3
    <2> QED BY <2>4
  <1>5. \A x, y \in Ids : y \in bound'[x]
                             <=> y \in bound[x] /\ <<x, y>> \notin {<<a, b>>, <<b, a>>}
    <2> HIDE DEF gone, less
    <2>1. \A x \in Ids : bound'[x] = less(x)
      BY <1>1, <1>4
    <2> QED BY <2>1, <1>3
  <1>6. RingWhileRead'
    BY <1>1 DEF GraphInv, RingWhileRead
  <1>7. DuplexBinding'
    BY <1>2, <1>5 DEF GraphInv, DuplexBinding
  <1>8. bound' \in [Ids -> SUBSET Ids]
    BY DisconnectType
  <1>9. NoDanglingBinding'
    <2> SUFFICES ASSUME NEW x \in Ids, NEW y \in bound'[x]
                 PROVE  y \in rings' /\ x \in reader'[y]
      BY DEF NoDanglingBinding
    <2>1. y \in Ids
      BY <1>8
    <2>2. x \in reader'[y]
      BY <1>2, <1>5, <2>1 DEF GraphInv, NoDanglingBinding
    <2> QED BY <2>1, <2>2, <1>6 DEF RingWhileRead
  <1> QED BY <1>6, <1>7, <1>9 DEF GraphInv

------------------------------------------------------------------------------
(***************************************************************************)
(* The invariant.                                                          *)
(***************************************************************************)

\* Every step of every thread keeps the bindings whole.
LEMMA GraphStep == TypeOK /\ GraphInv /\ [Next]_vars => GraphInv'
  <1> SUFFICES ASSUME TypeOK, GraphInv, [Next]_vars PROVE GraphInv'
    OBVIOUS
  <1> USE DEF Ids
  <1>1. ASSUME NEW t \in Threads, NEW a \in Calls, NEW b \in Streams, a # b,
               bindCallID(t, a, b)
        PROVE  GraphInv'
    BY <1>1, BindKeeps
  <1>2. ASSUME NEW t \in Threads, NEW a \in Streams, NEW b \in Streams,
               unBindCallID(t, a, b)
        PROVE  GraphInv'
    BY <1>2, DisconnectKeeps DEF unBindCallID
  <1>3. ASSUME NEW t \in Threads, NEW p \in Processes, NEW b \in Streams,
               bindHalfDuplexOut(t, p, b)
        PROVE  GraphInv'
    BY <1>3, BindHalfKeeps
  <1>4. ASSUME NEW t \in Threads, NEW p \in Processes, NEW b \in Streams,
               unBindHalfDuplexOut(t, p, b)
        PROVE  GraphInv'
    BY <1>4, UnBindHalfKeeps
  <1>5. ASSUME UNCHANGED graph PROVE GraphInv'
    BY <1>5 DEF graph, GraphInv, NoDanglingBinding, DuplexBinding, RingWhileRead
  <1>6. ASSUME NEW t \in Threads, NEW id \in Ids, unBindAll(t, id) PROVE GraphInv'
    BY <1>5, <1>6 DEF unBindAll
  <1>7. ASSUME NEW t \in Threads, unBindAllCopy(t) PROVE GraphInv'
    BY <1>5, <1>7 DEF unBindAllCopy
  <1>8. ASSUME NEW t \in Threads, unBindAllStep(t) PROVE GraphInv'
    <2>1. PICK x \in left[t] : Disconnect(arg[t], x)
      BY <1>8 DEF unBindAllStep
    <2>2. arg[t] \in Ids /\ x \in Ids
      BY DEF TypeOK
    <2> QED BY <2>1, <2>2, DisconnectKeeps
  <1>9. CASE UNCHANGED vars
    BY <1>5, <1>9 DEF vars, graph
  <1> QED BY <1>1, <1>2, <1>3, <1>4, <1>6, <1>7, <1>8, <1>9 DEF Next

\* The bindings are whole in every reachable state: no set names a ring
\* buffer that is gone or not read, a binding between streams is in all four
\* places or in none, and ring buffers live exactly while they are read.
THEOREM BindingsHold == Spec => []BindingInv
  <1>1. Init => GraphInv
    BY DEF Init, GraphInv, NoDanglingBinding, DuplexBinding, RingWhileRead, Ids, Streams
  <1>2. TypeOK /\ GraphInv => BindingInv
    BY DEF GraphInv, BindingInv
  <1> QED BY <1>1, <1>2, TypeCorrect, GraphStep, PTL DEF Spec

\* A client that walks its set always finds the ring buffer and its pointer.
COROLLARY NoDangling == Spec => []NoDanglingBinding
  <1>1. BindingInv => NoDanglingBinding
    BY DEF BindingInv
  <1> QED BY <1>1, BindingsHold, PTL

\* A binding between two streams is in both sets and has both pointers, or none
\* of the four, also when two threads bind and unbind the same pair.
COROLLARY DuplexHolds == Spec => []DuplexBinding
  BY BindingsHold, PTL DEF BindingInv

\* No ring buffer outlives its readers or is deleted under one.
COROLLARY RingsLiveWhileRead == Spec => []RingWhileRead
  BY BindingsHold, PTL DEF BindingInv

------------------------------------------------------------------------------
(***************************************************************************)
(* unBindAll.  While no other thread touched the set, what is still bound  *)
(* is among the members the loop has still to visit.                       *)
(***************************************************************************)

LoopInv ==
    \A t \in Threads :
       pc[t] = "loop" /\ t \notin dirty => bound[arg[t]] \subseteq left[t]

\* A step of thread t keeps what the loops of the other threads rely on: it
\* either leaves their sets alone or marks them.
LEMMA OthersKeepLoop ==
    ASSUME TypeOK, LoopInv, NEW t \in Threads, NEW u \in Threads, u # t,
           MarkDirty(t),
           pc'[u] = pc[u], arg'[u] = arg[u], left'[u] = left[u],
           pc'[u] = "loop", u \notin dirty'
    PROVE  bound'[arg'[u]] \subseteq left'[u]
  <1>1. u \notin dirty /\ ~SetChanged(arg[u])
    BY DEF MarkDirty
  <1>2. bound'[arg[u]] = bound[arg[u]]
    BY <1>1 DEF SetChanged
  <1> QED BY <1>1, <1>2 DEF LoopInv

\* A locked method called by an idle thread keeps the loops of the others.
LEMMA IdleKeepsLoop ==
    ASSUME TypeOK, LoopInv, NEW t \in Threads, pc[t] = "idle",
           MarkDirty(t), UNCHANGED local
    PROVE  LoopInv'
  <1> SUFFICES ASSUME NEW u \in Threads, pc'[u] = "loop", u \notin dirty'
               PROVE  bound'[arg'[u]] \subseteq left'[u]
    BY DEF LoopInv
  <1>1. u # t /\ pc'[u] = pc[u] /\ arg'[u] = arg[u] /\ left'[u] = left[u]
    BY DEF local, TypeOK
  <1> QED BY <1>1, OthersKeepLoop

\* The loop invariant holds along every step.
LEMMA LoopStep == TypeOK /\ LoopInv /\ [Next]_vars => LoopInv'
  <1> SUFFICES ASSUME TypeOK, LoopInv, [Next]_vars PROVE LoopInv'
    OBVIOUS
  <1>1. ASSUME NEW t \in Threads, NEW a \in Calls, NEW b \in Streams,
               bindCallID(t, a, b)
        PROVE  LoopInv'
    BY <1>1, IdleKeepsLoop DEF bindCallID
  <1>2. ASSUME NEW t \in Threads, NEW a \in Streams, NEW b \in Streams,
               unBindCallID(t, a, b)
        PROVE  LoopInv'
    BY <1>2, IdleKeepsLoop DEF unBindCallID
  <1>3. ASSUME NEW t \in Threads, NEW p \in Processes, NEW b \in Streams,
               bindHalfDuplexOut(t, p, b)
        PROVE  LoopInv'
    BY <1>3, IdleKeepsLoop DEF bindHalfDuplexOut, local
  <1>4. ASSUME NEW t \in Threads, NEW p \in Processes, NEW b \in Streams,
               unBindHalfDuplexOut(t, p, b)
        PROVE  LoopInv'
    BY <1>4, IdleKeepsLoop DEF unBindHalfDuplexOut
  <1>5. ASSUME NEW t \in Threads, NEW id \in Ids, unBindAll(t, id)
        PROVE  LoopInv'
    <2> SUFFICES ASSUME NEW u \in Threads, pc'[u] = "loop", u \notin dirty'
                 PROVE  bound'[arg'[u]] \subseteq left'[u]
      BY DEF LoopInv
    <2>1. u # t /\ pc[u] = "loop" /\ arg'[u] = arg[u]
      BY <1>5 DEF unBindAll, TypeOK
    <2> QED BY <1>5, <2>1 DEF unBindAll, graph, LoopInv
  <1>6. ASSUME NEW t \in Threads, unBindAllCopy(t)
        PROVE  LoopInv'
    <2>1. PICK temp \in SUBSET Ids : /\ t \notin dirty => temp = bound[arg[t]]
                                     /\ Continue(t, temp)
      BY <1>6 DEF unBindAllCopy
    <2>2. UNCHANGED graph /\ MarkDirty(t)
      BY <1>6 DEF unBindAllCopy
    <2> SUFFICES ASSUME NEW u \in Threads, pc'[u] = "loop", u \notin dirty'
                 PROVE  bound'[arg'[u]] \subseteq left'[u]
      BY DEF LoopInv
    <2>3. CASE u = t
      <3>1. temp # {} /\ left'[t] = temp /\ arg'[t] = arg[t]
        BY <2>1, <2>3 DEF Continue, TypeOK
      <3>2. t \notin dirty
        BY <2>2, <2>3 DEF MarkDirty
      <3> QED BY <2>1, <2>2, <2>3, <3>1, <3>2 DEF graph
    <2>4. CASE u # t
      <3>1. pc'[u] = pc[u] /\ arg'[u] = arg[u] /\ left'[u] = left[u]
        BY <2>1, <2>4 DEF Continue, TypeOK
      <3> QED BY <2>2, <2>4, <3>1, OthersKeepLoop
    <2> QED BY <2>3, <2>4
  <1>7. ASSUME NEW t \in Threads, unBindAllStep(t)
        PROVE  LoopInv'
    <2>1. PICK x \in left[t] : /\ Disconnect(arg[t], x)
                               /\ Continue(t, left[t] \ {x})
                               /\ MarkDirty(t)
      BY <1>7 DEF unBindAllStep
    <2> SUFFICES ASSUME NEW u \in Threads, pc'[u] = "loop", u \notin dirty'
                 PROVE  bound'[arg'[u]] \subseteq left'[u]
      BY DEF LoopInv
    <2>2. CASE u = t
      <3>1. left'[t] = left[t] \ {x} /\ arg'[t] = arg[t] /\ pc[t] = "loop"
        BY <1>7, <2>1, <2>2 DEF Continue, TypeOK, unBindAllStep
      <3>2. bound[arg[t]] \subseteq left[t]
        BY <2>1, <2>2, <3>1 DEF MarkDirty, LoopInv
      <3>3. bound'[arg[t]] \subseteq bound[arg[t]] \ {x}
        BY <2>1 DEF Disconnect, TypeOK
      <3> QED BY <2>2, <3>1, <3>2, <3>3
    <2>3. CASE u # t
      <3>1. pc'[u] = pc[u] /\ arg'[u] = arg[u] /\ left'[u] = left[u]
        BY <2>1, <2>3 DEF Continue, TypeOK
      <3> QED BY <2>1, <2>3, <3>1, OthersKeepLoop
    <2> QED BY <2>2, <2>3
  <1>8. CASE UNCHANGED vars
    BY <1>8 DEF vars, LoopInv
  <1> QED BY <1>1, <1>2, <1>3, <1>4, <1>5, <1>6, <1>7, <1>8 DEF Next

\* What the step that ends an undisturbed loop leaves behind.
LEMMA DetachStep ==
    ASSUME TypeOK, GraphInv, GraphInv', LoopInv, [Next]_vars, NEW t \in Threads,
           pc[t] = "loop", pc'[t] = "idle", t \notin dirty
    PROVE  bound'[arg[t]] = {} /\ reader'[arg[t]] \subseteq Processes
  <1> USE IdsAssumption DEF Ids
  <1>1. unBindAllStep(t)
    <2>1. \A u \in Threads : pc'[u] # pc[u] =>
             unBindAllStep(u) \/ \E id \in Ids : unBindAll(u, id) \/ unBindAllCopy(u)
      BY DEF Next, vars, local, bindCallID, bindHalfDuplexOut, unBindCallID,
             unBindHalfDuplexOut, unBindAll, unBindAllCopy, unBindAllStep, Continue, TypeOK
    <2> QED BY <2>1 DEF unBindAll, unBindAllCopy
  <1>2. PICK x \in left[t] : Disconnect(arg[t], x) /\ Continue(t, left[t] \ {x})
    BY <1>1 DEF unBindAllStep
  <1>3. left[t] \ {x} = {} /\ arg[t] \in Ids /\ x \in Ids
    BY <1>2 DEF Continue, TypeOK
  <1>4. bound[arg[t]] \subseteq {x}
    BY <1>3 DEF LoopInv
  <1>5. bound'[arg[t]] = {}
    BY <1>2, <1>3, <1>4 DEF Disconnect, TypeOK
  <1>6. reader'[arg[t]] \subseteq Processes
    <2>1. CASE arg[t] \in Streams
      <3>1. reader'[arg[t]] \subseteq Ids
        BY <1>2, <1>3, DisconnectType
      <3> QED BY <2>1, <3>1, <1>5 DEF GraphInv, DuplexBinding
    <2>2. CASE arg[t] \notin Streams
      <3>1. rings' \subseteq Streams
        BY <1>2, <1>3, DisconnectType
      <3> QED BY <2>2, <3>1, <1>3 DEF GraphInv, RingWhileRead
    <2> QED BY <2>1, <2>2
  <1> QED BY <1>5, <1>6

\* unBindAll does its job for every number of members and threads, provided
\* no other thread bound or unbound the same stream while it ran.
THEOREM Detaches == Spec => UnBindAllDetaches
  <1>1. Init => LoopInv
    BY DEF Init, LoopInv
  <1>2. TypeOK /\ GraphInv /\ GraphInv' /\ LoopInv /\ [Next]_vars
            => [\A t \in Threads :
                   (pc[t] = "loop" /\ pc'[t] = "idle" /\ t \notin dirty)
                       => /\ bound'[arg[t]] = {}
                          /\ reader'[arg[t]] \subseteq Processes]_vars
    BY DetachStep
  <1>3. BindingInv => GraphInv
    BY DEF BindingInv, GraphInv
  <1>4. Spec => []LoopInv
    BY <1>1, LoopStep, TypeCorrect, PTL DEF Spec
  <1> QED BY <1>2, <1>3, <1>4, TypeCorrect, BindingsHold, PTL DEF Spec, UnBindAllDetaches

------------------------------------------------------------------------------
(***************************************************************************)
(* MainBuffer implements BindingGraph.                                     *)
(***************************************************************************)

\* Who reads whom, the relation BindingGraph is about.
Links == {l \in Ids \X Ids : l[1] \in reader[l[2]]}

\* Two relations on ids with the same pairs are equal.
LEMMA SameLinks ==
    ASSUME NEW S \in SUBSET (Ids \X Ids), NEW T \in SUBSET (Ids \X Ids),
           \A x, y \in Ids : <<x, y>> \in S <=> <<x, y>> \in T
    PROVE  S = T
  OBVIOUS

\* A pair is a link when its first member has a read pointer in the second.
LEMMA LinkDef == \A x, y \in Ids : <<x, y>> \in Links <=> x \in reader[y]
  BY DEF Links

\* Disconnecting two ids removes their links and no other.
LEMMA DisconnectLinks ==
    ASSUME TypeOK, NEW a \in Ids, NEW b \in Ids, Disconnect(a, b)
    PROVE  Links' = Links \ {<<a, b>>, <<b, a>>}
  <1>1. reader' = [reader EXCEPT ![a] = @ \ {b}, ![b] = @ \ {a}]
    BY DEF Disconnect
  <1>2. \A x, y \in Ids : x \in reader'[y]
                             <=> x \in reader[y] /\ <<x, y>> \notin {<<a, b>>, <<b, a>>}
    BY <1>1 DEF TypeOK
  <1>3. \A x, y \in Ids : <<x, y>> \in Links'
                             <=> <<x, y>> \in Links \ {<<a, b>>, <<b, a>>}
    BY <1>2 DEF Links
  <1> QED BY <1>3, SameLinks DEF Links

\* Every step of MainBuffer is a step of BindingGraph or changes no link.
LEMMA GraphSimulation ==
    TypeOK /\ GraphInv /\ [Next]_vars => [Graph!Next]_Links
  <1> SUFFICES ASSUME TypeOK, GraphInv, [Next]_vars PROVE [Graph!Next]_Links
    OBVIOUS
  <1> USE IdsAssumption
  <1>0. Graph!Ids = Ids /\ Graph!Streams = Streams
    BY DEF Graph!Ids, Graph!Streams, Ids, Streams
  <1>1. ASSUME NEW t \in Threads, NEW a \in Calls, NEW b \in Streams, a # b,
               bindCallID(t, a, b)
        PROVE  Graph!Next
    <2>1. reader' = [reader EXCEPT ![a] = @ \cup {b}, ![b] = @ \cup {a}]
      BY <1>1 DEF bindCallID
    <2>2. \A x, y \in Ids : <<x, y>> \in Links' <=> <<x, y>> \in Links \cup {<<a, b>>, <<b, a>>}
      BY <1>1, <2>1 DEF TypeOK, Ids, Streams, Links
    <2>3. Links' = Links \cup {<<a, b>>, <<b, a>>}
      BY <2>2, SameLinks DEF Links, Ids, Streams
    <2> QED BY <1>0, <1>1, <2>3 DEF Graph!Next, Graph!Bind, Links
  <1>2. ASSUME NEW a \in Ids, NEW b \in Ids, Disconnect(a, b)
        PROVE  Graph!Next
    BY <1>0, <1>2, DisconnectLinks DEF Graph!Next, Graph!UnBind, Links
  <1>3. ASSUME NEW t \in Threads, NEW p \in Processes, NEW b \in Streams,
               bindHalfDuplexOut(t, p, b)
        PROVE  Graph!Next
    <2>1. b \in rings /\ reader' = [reader EXCEPT ![b] = @ \cup {p}]
      BY <1>3 DEF bindHalfDuplexOut
    <2>2. \A x, y \in Ids : <<x, y>> \in Links' <=> <<x, y>> \in Links \cup {<<p, b>>}
      BY <2>1 DEF TypeOK, Ids, Links
    <2>3. Links' = Links \cup {<<p, b>>}
      BY <2>2, SameLinks DEF Links, Ids
    <2>4. PICK x \in Ids : <<x, b>> \in Links
      BY <2>1 DEF GraphInv, RingWhileRead, TypeOK, Links, Ids
    <2> QED BY <1>0, <2>3, <2>4 DEF Graph!Next, Graph!BindHalfDuplexOut, Graph!Alive, Links
  <1>4. ASSUME NEW t \in Threads, NEW p \in Processes, NEW b \in Streams,
               unBindHalfDuplexOut(t, p, b)
        PROVE  Graph!Next
    <2>1. reader' = [reader EXCEPT ![b] = @ \ {p}]
      BY <1>4 DEF unBindHalfDuplexOut
    <2>2. \A x, y \in Ids : <<x, y>> \in Links' <=> <<x, y>> \in Links \ {<<p, b>>}
      BY <2>1 DEF TypeOK, Ids, Links
    <2>3. Links' = Links \ {<<p, b>>}
      BY <2>2, SameLinks DEF Links
    <2> QED BY <1>0, <2>3 DEF Graph!Next, Graph!UnBindHalfDuplexOut, Links
  <1>5. ASSUME UNCHANGED graph PROVE UNCHANGED Links
    BY <1>5 DEF graph, Links
  <1>6. ASSUME NEW t \in Threads, unBindAllStep(t) PROVE Graph!Next
    <2>1. PICK x \in left[t] : Disconnect(arg[t], x)
      BY <1>6 DEF unBindAllStep
    <2>2. arg[t] \in Ids /\ x \in Ids
      BY DEF TypeOK
    <2> QED BY <2>1, <2>2, <1>2
  <1>7. ASSUME NEW t \in Threads, NEW a \in Streams, NEW b \in Streams,
               unBindCallID(t, a, b)
        PROVE  Graph!Next
    BY <1>2, <1>7 DEF unBindCallID, Ids
  <1>8. ASSUME NEW t \in Threads, unBindAllCopy(t) \/ \E id \in Ids : unBindAll(t, id)
        PROVE  UNCHANGED Links
    BY <1>5, <1>8 DEF unBindAllCopy, unBindAll
  <1>9. CASE UNCHANGED vars
    BY <1>5, <1>9 DEF vars, graph
  <1> QED BY <1>1, <1>3, <1>4, <1>6, <1>7, <1>8, <1>9 DEF Next

\* The interleaved, partly unlocked methods of MainBuffer implement the
\* relation of BindingGraph, its atomic operations and nothing else.
THEOREM Implementation == Spec => ImplementsGraph
  <1>1. Init => Graph!Init
    BY DEF Init, Graph!Init
  <1>2. BindingInv => GraphInv
    BY DEF BindingInv, GraphInv
  <1>3. TypeOK /\ BindingInv /\ [Next]_vars
            => [Graph!Next]_({l \in Ids \X Ids : l[1] \in reader[l[2]]})
    BY <1>2, GraphSimulation DEF Links
  <1> QED BY <1>1, <1>3, TypeCorrect, BindingsHold, PTL
          DEF Spec, ImplementsGraph, Graph!Spec
===============================================================================
