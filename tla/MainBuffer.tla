------------------------------ MODULE MainBuffer ------------------------------
(***************************************************************************)
(* The bindings of class MainBuffer (src/daemon/src/audio/mainbuffer.cpp): *)
(* which stream has a ring buffer, who has a read pointer in it, and the   *)
(* set of streams each client reads from.  The positions of the pointers   *)
(* in a ring buffer are the subject of RingBuffer.                         *)
(*                                                                         *)
(* The daemon's threads (the D-Bus thread, the event threads of the voip   *)
(* links, the RTP threads) share the one MainBuffer.  bindCallID and the   *)
(* three methods like it hold _mutex throughout and are one step each.     *)
(* unBindAll and unBindAllHalfDuplexOut take no lock to look the set up    *)
(* and to copy it, and then unbind the members one locked call at a time.  *)
(***************************************************************************)
CONSTANTS Calls,       \* ids of calls
          Default,     \* default_id, the id of the audio layer
          Processes,   \* ids of recorders (AudioRecorder::recorderId)
          Threads      \* threads of the daemon that bind and unbind

ASSUME IdsAssumption ==
    /\ Default \notin Calls \cup Processes
    /\ Calls \cap Processes = {}

Streams == Calls \cup {Default}
Ids == Streams \cup Processes

VARIABLES rings,    \* the keys of _ringBufferMap
          reader,   \* reader[b]: who has a read pointer in b's ring buffer
          sets,     \* the keys of _callIDMap
          bound,    \* bound[a]: the set _callIDMap holds for a
          pc,       \* per thread: where it is in unBindAll
          arg,      \* per thread: the id unBindAll was called with
          left,     \* per thread: the members of temp_set still to unbind
          dirty     \* history: threads whose set another one changed meanwhile

graph == <<rings, reader, sets, bound>>
local == <<pc, arg, left>>
vars == <<rings, reader, sets, bound, pc, arg, left, dirty>>

TypeOK ==
    /\ rings \subseteq Streams
    /\ reader \in [Ids -> SUBSET Ids]
    /\ sets \subseteq Ids
    /\ bound \in [Ids -> SUBSET Ids]
    /\ pc \in [Threads -> {"idle", "copy", "loop"}]
    /\ arg \in [Threads -> Ids]
    /\ left \in [Threads -> SUBSET Ids]
    /\ dirty \subseteq Threads
    /\ \A a \in Ids \ sets : bound[a] = {}

Init ==
    /\ rings = {}
    /\ reader = [b \in Ids |-> {}]
    /\ sets = {}
    /\ bound = [a \in Ids |-> {}]
    /\ pc = [t \in Threads |-> "idle"]
    /\ arg = [t \in Threads |-> Default]
    /\ left = [t \in Threads |-> {}]
    /\ dirty = {}

\* Thread t's step spoils the set another thread is looking at.
SetChanged(id) == bound'[id] # bound[id] \/ (id \in sets /\ id \notin sets')

MarkDirty(t) ==
    dirty' = {u \in Threads : /\ pc'[u] # "idle"
                              /\ u \in dirty \/ (u # t /\ SetChanged(arg[u]))}

------------------------------------------------------------------------------
(***************************************************************************)
(* The locked methods.                                                     *)
(***************************************************************************)

\* Mutant: only the first id learns of the second.
bindCallIDOneWay(t, a, b) ==
    /\ pc[t] = "idle"
    /\ rings' = rings \cup {a, b}
    /\ sets' = sets \cup {a, b}
    /\ reader' = [reader EXCEPT ![a] = @ \cup {b}, ![b] = @ \cup {a}]
    /\ bound' = [bound EXCEPT ![a] = @ \cup {b}]
    /\ UNCHANGED local
    /\ MarkDirty(t)

\* Makes the ring buffers and the sets that are missing, then lets each of
\* the two read the other.
bindCallID(t, a, b) ==
    /\ pc[t] = "idle"
    /\ rings' = rings \cup {a, b}
    /\ sets' = sets \cup {a, b}
    /\ reader' = [reader EXCEPT ![a] = @ \cup {b}, ![b] = @ \cup {a}]
    /\ bound' = [bound EXCEPT ![a] = @ \cup {b}, ![b] = @ \cup {a}]
    /\ UNCHANGED local
    /\ MarkDirty(t)

\* Mutant: the recorder follows a stream that has no ring buffer.
bindHalfDuplexOutAlways(t, p, b) ==
    /\ pc[t] = "idle"
    /\ sets' = sets \cup {p}
    /\ reader' = [reader EXCEPT ![b] = @ \cup {p}]
    /\ bound' = [bound EXCEPT ![p] = @ \cup {b}]
    /\ UNCHANGED <<rings, local>>
    /\ MarkDirty(t)

\* Used "only for active calls": without a ring buffer nothing happens.
bindHalfDuplexOut(t, p, b) ==
    /\ pc[t] = "idle"
    /\ b \in rings
    /\ sets' = sets \cup {p}
    /\ reader' = [reader EXCEPT ![b] = @ \cup {p}]
    /\ bound' = [bound EXCEPT ![p] = @ \cup {b}]
    /\ UNCHANGED <<rings, local>>
    /\ MarkDirty(t)

\* Mutant: the second stream goes although others still read it.
DisconnectDropsPeer(a, b) ==
    /\ reader' = [reader EXCEPT ![a] = @ \ {b}, ![b] = @ \ {a}]
    /\ LET gone == {b} \cap rings
       IN  /\ rings' = rings \ gone
           /\ sets' = sets \ gone
           /\ bound' = [x \in Ids |-> IF x \in gone THEN {}
                                      ELSE IF x = a THEN bound[x] \ {b}
                                      ELSE bound[x]]

\* The body of unBindCallID.  A ring buffer that lost its last reader goes,
\* and its stream's own set with it.
Disconnect(a, b) ==
    /\ reader' = [reader EXCEPT ![a] = @ \ {b}, ![b] = @ \ {a}]
    /\ LET gone == {x \in {a, b} \cap rings : reader'[x] = {}}
       IN  /\ rings' = rings \ gone
           /\ sets' = sets \ gone
           /\ bound' = [x \in Ids |-> IF x \in gone THEN {}
                                      ELSE IF x = a THEN bound[x] \ {b}
                                      ELSE IF x = b THEN bound[x] \ {a}
                                      ELSE bound[x]]

unBindCallID(t, a, b) ==
    /\ pc[t] = "idle"
    /\ Disconnect(a, b)
    /\ UNCHANGED local
    /\ MarkDirty(t)

\* Mutant: the recorder was the last reader and the ring buffer stays.
unBindHalfDuplexOutKeepRing(t, p, b) ==
    /\ pc[t] = "idle"
    /\ reader' = [reader EXCEPT ![b] = @ \ {p}]
    /\ bound' = [bound EXCEPT ![p] = @ \ {b}]
    /\ UNCHANGED <<rings, sets, local>>
    /\ MarkDirty(t)

\* When the stream has no ring buffer the recorder's whole set is dropped,
\* its read pointers in other ring buffers staying behind.
unBindHalfDuplexOut(t, p, b) ==
    /\ pc[t] = "idle"
    /\ reader' = [reader EXCEPT ![b] = @ \ {p}]
    /\ LET goneRing == {x \in {b} \cap rings : reader'[x] = {}}
           goneSet == IF b \notin rings \/ bound[p] \ {b} = {} THEN {p} ELSE {}
       IN  /\ rings' = rings \ goneRing
           /\ sets' = sets \ (goneRing \cup goneSet)
           /\ bound' = [x \in Ids |-> IF x \in goneRing \cup goneSet THEN {}
                                      ELSE IF x = p THEN bound[x] \ {b}
                                      ELSE bound[x]]
    /\ UNCHANGED local
    /\ MarkDirty(t)

------------------------------------------------------------------------------
(***************************************************************************)
(* unBindAll and, with a recorder's id, unBindAllHalfDuplexOut.            *)
(***************************************************************************)

\* getCallIDSet and the two early returns, unlocked.
unBindAll(t, id) ==
    /\ pc[t] = "idle"
    /\ id \in sets
    /\ bound[id] # {}
    /\ pc' = [pc EXCEPT ![t] = "copy"]
    /\ arg' = [arg EXCEPT ![t] = id]
    /\ UNCHANGED <<graph, left, dirty>>

\* Mutant: the loop stops one member early.
ContinueSkipsLast(t, members) ==
    LET done == \E x \in Ids : members \subseteq {x} IN
    /\ left' = [left EXCEPT ![t] = members]
    /\ pc' = [pc EXCEPT ![t] = IF done THEN "idle" ELSE "loop"]
    /\ arg' = [arg EXCEPT ![t] = IF done THEN Default ELSE @]

\* The loop goes on over the members still to unbind, or the method returns.
Continue(t, members) ==
    /\ left' = [left EXCEPT ![t] = members]
    /\ pc' = [pc EXCEPT ![t] = IF members = {} THEN "idle" ELSE "loop"]
    /\ arg' = [arg EXCEPT ![t] = IF members = {} THEN Default ELSE @]

\* CallIDSet temp_set = *callid_set, unlocked: when another thread changed or
\* deleted the set since the lookup, the copy may hold anything.
unBindAllCopy(t) ==
    /\ pc[t] = "copy"
    /\ \E temp \in SUBSET Ids :
          /\ t \notin dirty => temp = bound[arg[t]]
          /\ Continue(t, temp)
    /\ UNCHANGED graph
    /\ MarkDirty(t)

\* One iteration of the loop.
unBindAllStep(t) ==
    /\ pc[t] = "loop"
    /\ \E x \in left[t] :
          /\ Disconnect(arg[t], x)
          /\ Continue(t, left[t] \ {x})
    /\ MarkDirty(t)

------------------------------------------------------------------------------

Next ==
    \E t \in Threads :
       \/ \E a \in Calls, b \in Streams : a # b /\ bindCallID(t, a, b)
       \/ \E a \in Streams, b \in Streams : a # b /\ unBindCallID(t, a, b)
       \/ \E p \in Processes, b \in Streams :
             bindHalfDuplexOut(t, p, b) \/ unBindHalfDuplexOut(t, p, b)
       \/ \E id \in Ids : unBindAll(t, id)
       \/ unBindAllCopy(t)
       \/ unBindAllStep(t)

Spec == Init /\ [][Next]_vars

------------------------------------------------------------------------------
(***************************************************************************)
(* Properties.                                                             *)
(***************************************************************************)

\* A set names only streams that exist and where its owner has a read
\* pointer: getDataByID and availForGetByID never miss the ring buffer
\* ("RingBuffer does not exist"), whatever the threads unbind meanwhile.
NoDanglingBinding ==
    \A a \in Ids : \A b \in bound[a] : b \in rings /\ a \in reader[b]

\* Between streams a binding is whole: it is in both sets and has both read
\* pointers, or nothing of it is left in any of the four places.
DuplexBinding ==
    \A a, b \in Streams :
       /\ b \in bound[a] <=> a \in bound[b]
       /\ b \in bound[a] <=> a \in reader[b]

\* A ring buffer exists exactly as long as somebody reads it: none leaks and
\* none is deleted under a reader.
RingWhileRead == \A b \in Ids : b \in rings <=> reader[b] # {}

BindingInv ==
    /\ TypeOK
    /\ NoDanglingBinding
    /\ DuplexBinding
    /\ RingWhileRead

\* Unless another thread touched the same set, unBindAll leaves its stream
\* bound to nothing, and read by nobody but recorders.
UnBindAllDetaches ==
    [][\A t \in Threads :
          (pc[t] = "loop" /\ pc'[t] = "idle" /\ t \notin dirty)
              => /\ bound'[arg[t]] = {}
                 /\ reader'[arg[t]] \subseteq Processes]_vars

\* The methods, interleaved as they may be, do to the relation "has a read
\* pointer in" what BindingGraph says and never disturb a pair of streams
\* other than the one they were called for.
Graph == INSTANCE BindingGraph
             WITH link <- {l \in Ids \X Ids : l[1] \in reader[l[2]]}

ImplementsGraph == Graph!Spec
===============================================================================
