-------------------------- MODULE CallManagerProofs --------------------------
(*****************************************************************************)
(* Proofs about CallManager, for any sets of calls and conferences, in two   *)
(* parts: the daemon's maps, sets and counters agree after every handler,    *)
(* whatever the client asks for and the peers do; and who hears whom.        *)
(*                                                                           *)
(* 1. The maps. A handler calls others, and in the middle of one the maps    *)
(* need not agree. So the lemmas come in layers. Steady: a step that changes *)
(* streams and states, and neither which calls and conferences there are nor *)
(* who is in which. Leaves: a step by which participants leave, or           *)
(* conferences dissolve. Follows and Tidy: what every whole handler keeps.   *)
(* Each is transitive, a handler is a chain of such steps, and a loop over   *)
(* the participants (ForEach, a fold in the order of the ids) is one by an   *)
(* induction over the set. Follows speaks of what holds whatever the peers   *)
(* and the client do; Tidy, Kept and Honest of what needs peers that can be  *)
(* reached, or a client that is up to date. The inductive invariant, IInv,   *)
(* and its theorems close the part and say which they need.                  *)
(*                                                                           *)
(* 2. Who hears whom: the participants of a conference that talk hear each   *)
(* other, a call on hold is not heard, a call that ends leaves no stream,    *)
(* what is done to one call does not silence another, and a conference that  *)
(* is hung up ends. Between two statements of a handler the bindings need    *)
(* not be right, so these lemmas, too, compare two states of the daemon.     *)
(* Audio: no two calls stopped hearing each other in their conference, no    *)
(* stream lost its call, no call on hold but those of C got the user's       *)
(* audio. AudioBut and AudioEnd are the same, but for calls whose streams    *)
(* are yet to be made or to go. Spares: no call but one lost the user's      *)
(* audio. Each handler has its lemmas, as in the first part, and the         *)
(* theorems follow with IInv.                                                *)
(*****************************************************************************)
EXTENDS CallManager, FiniteSetTheorems, TLAPS

\* The Call objects.
CallRecords ==
    [state : {"Inactive", "Active", "Hold"},
     conn : {"Disconnected", "Progressing", "Ringing", "Connected"},
     type : {"Incoming", "Outgoing"}, confId : Confs \cup {None},
     invite : {"none", "received", "other"}]

\* The Conference objects.
ConfRecords ==
    [parts : SUBSET Calls, nb : Int,
     state : {"ACTIVE_ATTACHED", "ACTIVE_DETACHED", "HOLD"}]

\* The states a client is told.
Answers == {"NONE", "DIALING", "RINGING", "INCOMING", "CURRENT", "HOLD", "FAILURE"}

\* The ids that have a stream in the MainBuffer.
Streams == Calls \cup {Default}

\* A state of the daemon whose waiting calls are counted.
Typed(n) == n \in ManagerStates /\ n.nbWaiting = Cardinality(n.waiting)

\* From n to k the same calls and conferences exist with the same members; calls
\* may have stopped waiting; two calls were bound only within a conference.
Steady(k, n) ==
    /\ Typed(k)
    /\ k.account = n.account /\ k.live = n.live /\ k.confs = n.confs
    /\ k.cutOff = n.cutOff /\ (~Lag => k.aborted = n.aborted)
    /\ \A f \in Confs : /\ k.conf[f].parts = n.conf[f].parts
                        /\ k.conf[f].nb = n.conf[f].nb
                        /\ f \notin n.confs => k.conf[f] = n.conf[f]
    /\ \A c \in Calls : /\ k.call[c].confId = n.call[c].confId
                        /\ k.call[c].type = n.call[c].type
                        /\ n.call[c].state # "Inactive" =>
                              k.call[c].state # "Inactive"
                        /\ c \notin n.live => k.call[c] = n.call[c]
    /\ k.waiting \subseteq n.waiting
    /\ \A c \in k.waiting : k.call[c] = n.call[c] /\ k.shown[c] = n.shown[c]
    /\ ~Lag => \A c, d \in Calls :
                   c # d /\ {c, d} \in k.bound =>
                       \/ {c, d} \in n.bound
                       \/ /\ n.call[c].confId = n.call[d].confId
                          /\ n.call[c].confId \in n.confs

\* Nothing was told of calls that do not exist, but that they ended, and no call
\* told to come in stopped waiting.
Tells(k, n) ==
    \A c \in Calls :
        /\ \/ k.shown[c] \in {n.shown[c], "NONE", "FAILURE"}
           \/ c \in n.live \cup n.account
        /\ k.shown[c] = "INCOMING" =>
              n.shown[c] = "INCOMING" /\ (c \in n.waiting => c \in k.waiting)

\* The fields of such a state.
LEMMA TypedFields ==
    ASSUME NEW n, Typed(n)
    PROVE  /\ n.current \in Calls \cup Confs \cup {None}
           /\ n.account \in SUBSET Calls /\ n.live \in SUBSET Calls
           /\ n.call \in [Calls -> CallRecords]
           /\ n.confs \in SUBSET Confs /\ n.conf \in [Confs -> ConfRecords]
           /\ n.waiting \in SUBSET Calls /\ n.nbWaiting \in Nat
           /\ n.bound \in SUBSET SUBSET Streams
           /\ n.shown \in [Calls -> Answers]
           /\ n.cutOff \in SUBSET Calls /\ n.aborted \in BOOLEAN
           /\ IsFiniteSet(n.waiting)
<1>1. n.waiting \in SUBSET Calls
  BY DEF Typed, ManagerStates
<1>2. IsFiniteSet(n.waiting)
  BY <1>1, CallsAssumption, FS_Subset
<1> QED
  BY <1>2 DEF Typed, ManagerStates, CallRecords, ConfRecords, Answers, Streams

\* A step that does nothing is steady.
LEMMA SteadyRefl ==
    ASSUME NEW n, Typed(n)
    PROVE  Steady(n, n) /\ Tells(n, n)
  BY DEF Steady, Tells

\* Steady steps in a row are one.
LEMMA SteadyTrans ==
    ASSUME NEW n, NEW k, NEW l, Typed(n), Steady(k, n), Steady(l, k)
    PROVE  /\ Steady(l, n)
           /\ Tells(k, n) /\ Tells(l, k) => Tells(l, n)
<1>1. Typed(k) /\ Typed(l)
  BY DEF Steady
<1>2. ~Lag => \A c, d \in Calls :
                  c # d /\ {c, d} \in l.bound =>
                      \/ {c, d} \in n.bound
                      \/ /\ n.call[c].confId = n.call[d].confId
                         /\ n.call[c].confId \in n.confs
  BY DEF Steady
<1>3. \A f \in Confs : /\ l.conf[f].parts = n.conf[f].parts
                       /\ l.conf[f].nb = n.conf[f].nb
                       /\ f \notin n.confs => l.conf[f] = n.conf[f]
  BY DEF Steady
<1>4. \A c \in Calls : /\ l.call[c].confId = n.call[c].confId
                       /\ l.call[c].type = n.call[c].type
                       /\ n.call[c].state # "Inactive" =>
                             l.call[c].state # "Inactive"
                       /\ c \notin n.live => l.call[c] = n.call[c]
  BY DEF Steady
<1>5. /\ l.waiting \subseteq n.waiting
      /\ \A c \in l.waiting : l.call[c] = n.call[c] /\ l.shown[c] = n.shown[c]
  BY DEF Steady
<1>6. Steady(l, n)
  BY <1>1, <1>2, <1>3, <1>4, <1>5 DEF Steady
<1>7. Tells(k, n) /\ Tells(l, k) => Tells(l, n)
  BY DEF Steady, Tells
<1> QED
  BY <1>6, <1>7

\* switchCall changes the current call and nothing else.
LEMMA SwitchCallSteady ==
    ASSUME NEW n, Typed(n), NEW id \in Calls \cup Confs \cup {None}
    PROVE  /\ Steady(switchCall(n, id), n) /\ Tells(switchCall(n, id), n)
           /\ switchCall(n, id).call = n.call
           /\ switchCall(n, id).bound = n.bound
           /\ switchCall(n, id).current = id
           /\ switchCall(n, id).shown = n.shown
           /\ switchCall(n, id).waiting = n.waiting
<1>1. Typed(switchCall(n, id))
  BY DEF Typed, ManagerStates, switchCall
<1> QED
  BY <1>1 DEF Typed, Steady, Tells, ManagerStates, switchCall

\* Telling the client the state of a call, unless that it comes in, is steady.
LEMMA CallStateChangedSteady ==
    ASSUME NEW n, Typed(n), NEW c \in Calls, NEW s \in Answers \ {"INCOMING"},
           c \notin n.waiting
    PROVE  LET k == callStateChanged(n, c, s) IN
           /\ Steady(k, n)
           /\ c \in n.live \cup n.account \/ s \in {"NONE", "FAILURE"} => Tells(k, n)
           /\ k.call = n.call /\ k.bound = n.bound /\ k.current = n.current
           /\ k.shown = [n.shown EXCEPT ![c] = s] /\ k.waiting = n.waiting
<1>1. Typed(callStateChanged(n, c, s))
  BY DEF Typed, ManagerStates, callStateChanged, Answers
<1> DEFINE k == callStateChanged(n, c, s)
<1>2. /\ k.account = n.account /\ k.live = n.live /\ k.confs = n.confs
      /\ k.cutOff = n.cutOff /\ k.aborted = n.aborted /\ k.conf = n.conf
      /\ k.call = n.call /\ k.waiting = n.waiting /\ k.bound = n.bound
      /\ k.current = n.current
      /\ k.shown = [n.shown EXCEPT ![c] = s]
  BY DEF Typed, ManagerStates, callStateChanged
<1>3. n.waiting \in SUBSET Calls /\ n.shown \in [Calls -> Answers]
  BY TypedFields
<1> HIDE DEF k
<1>4. Steady(k, n)
  BY <1>1, <1>2, <1>3 DEF Steady, k
<1>5. c \in n.live \cup n.account \/ s \in {"NONE", "FAILURE"} => Tells(k, n)
  BY <1>2, <1>3 DEF Tells
<1> QED
  BY <1>2, <1>4, <1>5 DEF k

\* A record update named, so that the provers need not expand it.
SetBound(n, B) == [n EXCEPT !.bound = B]

\* So is a change of the bindings, if it binds two calls only within a conference.
LEMMA SetBoundSteady ==
    ASSUME NEW n, Typed(n), NEW B \in SUBSET SUBSET Streams,
           ~Lag => \A c, d \in Calls :
                       c # d /\ {c, d} \in B =>
                           \/ {c, d} \in n.bound
                           \/ /\ n.call[c].confId = n.call[d].confId
                              /\ n.call[c].confId \in n.confs
    PROVE  /\ Steady(SetBound(n, B), n) /\ Tells(SetBound(n, B), n)
           /\ SetBound(n, B).bound = B
<1>1. Typed(SetBound(n, B))
  BY DEF Typed, ManagerStates, SetBound, Streams
<1> QED
  BY <1>1 DEF Typed, Steady, Tells, ManagerStates, SetBound

\* unBindAll takes away bindings and nothing else.
LEMMA UnBindAllSteady ==
    ASSUME NEW n, Typed(n), NEW x
    PROVE  /\ Steady(unBindAll(n, x), n) /\ Tells(unBindAll(n, x), n)
           /\ unBindAll(n, x).bound = {b \in n.bound : x \notin b}
           /\ unBindAll(n, x).current = n.current
           /\ unBindAll(n, x).call = n.call
           /\ unBindAll(n, x).conf = n.conf
           /\ unBindAll(n, x).shown = n.shown
           /\ unBindAll(n, x).waiting = n.waiting
<1> DEFINE B == {b \in n.bound : x \notin b}
<1>1. B \in SUBSET SUBSET Streams
  BY TypedFields
<1>2. unBindAll(n, x) = SetBound(n, B)
  BY DEF unBindAll, SetBound
<1>3. /\ Steady(SetBound(n, B), n) /\ Tells(SetBound(n, B), n)
      /\ SetBound(n, B).bound = B
  BY <1>1, SetBoundSteady
<1>4. LET k == SetBound(n, B) IN
      /\ k.current = n.current /\ k.call = n.call /\ k.conf = n.conf
      /\ k.shown = n.shown /\ k.waiting = n.waiting
  BY DEF SetBound, Typed, ManagerStates
<1> QED
  BY <1>2, <1>3, <1>4

\* Binding a call to the user is steady.
LEMMA BindToUserSteady ==
    ASSUME NEW n, Typed(n), NEW c \in Calls
    PROVE  /\ Steady(bindCallID(n, c, Default), n)
           /\ Tells(bindCallID(n, c, Default), n)
<1> DEFINE B == n.bound \cup {{c, Default}}
<1>1. B \in SUBSET SUBSET Streams
  BY TypedFields DEF Streams
<1>2. bindCallID(n, c, Default) = SetBound(n, B)
  BY DEF bindCallID, SetBound
<1>3. \A d, e \in Calls : {d, e} # {c, Default}
  BY NamesAssumption
<1>4. Steady(SetBound(n, B), n) /\ Tells(SetBound(n, B), n)
  BY <1>1, <1>3, SetBoundSteady
<1> QED
  BY <1>2, <1>4

\* Another list of waiting calls and other Call objects.
SetWaiting(n, h, W, j) == [n EXCEPT !.call = h, !.waiting = W, !.nbWaiting = j]

\* A shorter list of waiting calls, with the right count, is steady, whatever became
\* of the objects of the others.
LEMMA SetWaitingSteady ==
    ASSUME NEW n, Typed(n), NEW h \in [Calls -> CallRecords],
           NEW W \in SUBSET n.waiting, NEW j, j = Cardinality(W),
           \A c \in Calls : h[c].confId = n.call[c].confId,
           \A c \in Calls : h[c].type = n.call[c].type,
           \A c \in Calls : n.call[c].state # "Inactive" =>
                               h[c].state # "Inactive",
           \A c \in Calls \ n.live : h[c] = n.call[c],
           \A c \in W : h[c] = n.call[c]
    PROVE  /\ Steady(SetWaiting(n, h, W, j), n)
           /\ W = n.waiting => Tells(SetWaiting(n, h, W, j), n)
           /\ SetWaiting(n, h, W, j).shown = n.shown
           /\ SetWaiting(n, h, W, j).waiting = W
           /\ SetWaiting(n, h, W, j).call = h
           /\ SetWaiting(n, h, W, j).current = n.current
<1>1. W \in SUBSET Calls /\ j \in Nat
  BY TypedFields, FS_Subset, FS_CardinalityType
<1>2. Typed(SetWaiting(n, h, W, j))
  BY <1>1 DEF Typed, ManagerStates, SetWaiting, CallRecords
<1> QED
  BY <1>2 DEF Typed, Steady, Tells, ManagerStates, SetWaiting

\* The count of a list without one call.
LEMMA WaitingLess ==
    ASSUME NEW n, Typed(n), NEW c
    PROVE  Cardinality(n.waiting \ {c}) = IF c \in n.waiting THEN n.nbWaiting - 1 ELSE n.nbWaiting
<1>1. IsFiniteSet(n.waiting)
  BY TypedFields
<1>2. CASE c \in n.waiting
  BY <1>1, <1>2, FS_RemoveElement DEF Typed
<1>3. CASE c \notin n.waiting
  <2>1. n.waiting \ {c} = n.waiting
    BY <1>3
  <2> QED
    BY <1>3, <2>1 DEF Typed
<1> QED
  BY <1>2, <1>3

\* removeWaitingCall counts a call off exactly when it waited.
LEMMA RemoveWaitingCallSteady ==
    ASSUME NEW n, Typed(n), NEW c \in Calls
    PROVE  LET k == removeWaitingCall(n, c) IN
           /\ Steady(k, n) /\ (c \notin n.waiting => Tells(k, n))
           /\ k.waiting = n.waiting \ {c} /\ k.shown = n.shown
           /\ k.current = n.current
<1> DEFINE j == IF c \in n.waiting THEN n.nbWaiting - 1 ELSE n.nbWaiting
           W == n.waiting \ {c}
<1>1. j = Cardinality(W)
  BY WaitingLess
<1>2. n.call \in [Calls -> CallRecords]
  BY TypedFields
<1>3. removeWaitingCall(n, c) = SetWaiting(n, n.call, W, j)
  BY DEF removeWaitingCall, SetWaiting, Typed, ManagerStates
<1> HIDE DEF j
<1>4. LET k == SetWaiting(n, n.call, W, j) IN
      /\ Steady(k, n) /\ k.waiting = W /\ k.current = n.current /\ k.shown = n.shown
      /\ W = n.waiting => Tells(k, n)
  <2>1. W \in SUBSET n.waiting
    OBVIOUS
  <2> HIDE DEF W
  <2> QED
    BY <1>1, <1>2, <2>1, SetWaitingSteady
<1>5. c \notin n.waiting => W = n.waiting
  OBVIOUS
<1> QED
  BY <1>3, <1>4, <1>5

\* A waiting call is one that came in and rings.
Fresh(n) ==
    \A c \in n.waiting : /\ c \in n.live /\ n.shown[c] = "INCOMING"
                         /\ n.call[c].type = "Incoming"
                         /\ n.call[c].conn = "Ringing"
                         /\ n.call[c].state = "Inactive"

\* Conferences count their participants, who carry their id.
Grouped(n) ==
    /\ \A f \in n.confs : /\ n.conf[f].nb = Cardinality(n.conf[f].parts)
                          /\ n.conf[f].nb >= 2
    /\ \A f \in n.confs, c \in n.live :
          c \in n.conf[f].parts <=> n.call[c].confId = f
    /\ ~Lag => \A f \in n.confs : n.conf[f].parts \subseteq n.live

\* Nothing is left of conferences and calls that are gone.
Forgotten(n) ==
    /\ \A f \in Confs \ n.confs : n.conf[f] = NewConference
    /\ \A c \in Calls \ n.live : n.call[c] = NewCall

\* Calls are bound to each other within a conference only.
Separate(n) ==
    ~Lag => \A c, d \in Calls :
                c # d /\ {c, d} \in n.bound =>
                    /\ n.call[c].confId = n.call[d].confId
                    /\ n.call[c].confId \in n.confs

\* A call that was placed is active or on hold: getStateStr never says RINGING.
Begun(n) ==
    \A c \in Calls : n.call[c].type = "Outgoing" => n.call[c].state # "Inactive"

\* What holds in every state, also in the middle of a handler.
Sound(n) ==
    /\ Typed(n) /\ Fresh(n) /\ Grouped(n) /\ Forgotten(n) /\ Separate(n)
    /\ Begun(n)

\* A steady step keeps a sound state sound.
LEMMA SteadySound ==
    ASSUME NEW n, Sound(n), NEW k, Steady(k, n)
    PROVE  Sound(k)
<1>1. Typed(k)
  BY DEF Steady
<1>2. Fresh(k)
  BY DEF Sound, Steady, Fresh
<1>3. Grouped(k)
  <2>1. n.confs \subseteq Confs
    BY TypedFields DEF Sound
  <2>2. \A f \in k.confs : k.conf[f].nb = Cardinality(k.conf[f].parts) /\ k.conf[f].nb >= 2
    BY <2>1 DEF Sound, Steady, Grouped
  <2>3. n.live \subseteq Calls
    BY TypedFields DEF Sound
  <2>4. \A f \in k.confs, c \in k.live : c \in k.conf[f].parts <=> k.call[c].confId = f
    BY <2>1, <2>3 DEF Sound, Steady, Grouped
  <2>5. ~Lag => \A f \in k.confs : k.conf[f].parts \subseteq k.live
    BY <2>1 DEF Sound, Steady, Grouped
  <2> QED
    BY <2>2, <2>4, <2>5 DEF Grouped
<1>4. Forgotten(k)
  BY DEF Sound, Steady, Forgotten
<1>5. Separate(k)
  BY DEF Sound, Steady, Separate
<1>6. Begun(k)
  BY DEF Sound, Steady, Begun
<1> QED
  BY <1>1, <1>2, <1>3, <1>4, <1>5, <1>6 DEF Sound

\* The process dies of a null Call: that changes nothing else.
LEMMA AbortSteady ==
    ASSUME NEW n, Typed(n)
    PROVE  /\ Lag => Steady(abort(n), n)
           /\ Tells(abort(n), n) /\ abort(n).shown = n.shown
<1>1. Typed(abort(n))
  BY DEF Typed, ManagerStates, abort
<1> QED
  BY <1>1 DEF Typed, Steady, Tells, ManagerStates, abort

\* Holding changes the state, and the INVITE if one is sent.
LEMMA HeldFields ==
    ASSUME NEW n, NEW c, n.call[c] \in CallRecords
    PROVE  /\ Held(n, c) \in CallRecords
           /\ Held(n, c).confId = n.call[c].confId /\ Held(n, c).type = n.call[c].type
           /\ Held(n, c).conn = n.call[c].conn /\ Held(n, c).state = "Hold"
<1> DEFINE i == IF Reinvited(n, c) THEN "other" ELSE n.call[c].invite
<1>1. Held(n, c) = [n.call[c] EXCEPT !.state = "Hold", !.invite = i]
  BY DEF Held, CallRecords
<1>2. i \in {"none", "received", "other"}
  BY DEF CallRecords
<1> HIDE DEF i
<1> QED
  BY <1>1, <1>2 DEF CallRecords

\* onHoldCall unbinds its call and takes it off the waiting list.
LEMMA OnHoldCallSteady ==
    ASSUME NEW n, Typed(n), NEW c \in Calls \cup Confs \cup {None}
    PROVE  LET k == onHoldCall(n, c) IN
           /\ Steady(k, n) /\ Tells(k, n)
           /\ c \in n.account => \A b \in k.bound : c \notin b /\ b \in n.bound
           /\ \A d \in Calls \ {c} : k.shown[d] = n.shown[d]
<1>1. CASE c \notin n.account
  BY <1>1, SteadyRefl DEF onHoldCall
<1>2. CASE c \in n.account
  <2> DEFINE h == IF c \in n.live
                  THEN [n.call EXCEPT ![c] = Held(n, c)] ELSE n.call
             W == n.waiting \ {c}
             j == IF c \in n.waiting THEN n.nbWaiting - 1 ELSE n.nbWaiting
             w == SetWaiting(n, h, W, j)
             u == unBindAll(w, c)
             t == IF n.current = c THEN switchCall(u, None) ELSE u
             k == callStateChanged(t, c, "HOLD")
  <2>1. c \in Calls
    BY <1>2, TypedFields
  <2>2. /\ h \in [Calls -> CallRecords]
        /\ \A d \in Calls : h[d].confId = n.call[d].confId
        /\ \A d \in Calls : h[d].type = n.call[d].type
        /\ \A d \in Calls : n.call[d].state # "Inactive" => h[d].state # "Inactive"
        /\ \A d \in Calls \ n.live : h[d] = n.call[d]
        /\ \A d \in W : h[d] = n.call[d]
    <3>1. n.call \in [Calls -> CallRecords] /\ n.waiting \in SUBSET Calls
      BY TypedFields
    <3>2. /\ Held(n, c) \in CallRecords
          /\ Held(n, c).confId = n.call[c].confId
          /\ Held(n, c).type = n.call[c].type
          /\ Held(n, c).state = "Hold"
      BY <2>1, <3>1, HeldFields
    <3> QED
      BY <2>1, <3>1, <3>2
  <2>3. j = Cardinality(W)
    BY WaitingLess
  <2>4. removeWaitingCall(removeStream(linkOnHold(n, c), c), c) = u
    <3> DEFINE B == {b \in n.bound : c \notin b}
    <3>1. linkOnHold(n, c) = [n EXCEPT !.call = h]
      <4>1. CASE c \in n.live
        BY <4>1 DEF linkOnHold, Typed, ManagerStates
      <4>2. CASE c \notin n.live
        BY <4>2 DEF linkOnHold, Typed, ManagerStates
      <4> QED
        BY <4>1, <4>2
    <3> HIDE DEF h
    <3>2. removeStream([n EXCEPT !.call = h], c) = [n EXCEPT !.call = h, !.bound = B]
      BY DEF removeStream, unBindAll, Typed, ManagerStates
    <3>3. removeWaitingCall([n EXCEPT !.call = h, !.bound = B], c)
             = [n EXCEPT !.call = h, !.bound = B, !.waiting = W, !.nbWaiting = j]
      BY DEF removeWaitingCall, Typed, ManagerStates
    <3>4. u = [n EXCEPT !.call = h, !.bound = B, !.waiting = W, !.nbWaiting = j]
      BY DEF unBindAll, SetWaiting, Typed, ManagerStates
    <3> QED
      BY <3>1, <3>2, <3>3, <3>4
  <2>5. onHoldCall(n, c) = k
    <3>1. u.current = n.current
      BY DEF unBindAll, SetWaiting, Typed, ManagerStates
    <3> HIDE DEF u
    <3> QED
      BY <1>2, <2>4, <3>1 DEF onHoldCall
  <2> HIDE DEF h, j
  <2>6. Steady(w, n) /\ w.waiting = W /\ w.current = n.current
    BY <2>2, <2>3, SetWaitingSteady
  <2>6a. w.bound = n.bound /\ w.shown = n.shown
    BY DEF SetWaiting, Typed, ManagerStates
  <2> HIDE DEF w
  <2>7. /\ Steady(u, w) /\ Tells(u, w) /\ Typed(w)
        /\ \A b \in u.bound : c \notin b /\ b \in w.bound
        /\ u.shown = w.shown /\ u.waiting = w.waiting
    BY <2>6, UnBindAllSteady DEF Steady
  <2> HIDE DEF u
  <2>8. Typed(u)
    BY <2>7 DEF Steady
  <2>8a. /\ Steady(t, u) /\ Tells(t, u) /\ t.bound = u.bound /\ t.shown = u.shown
         /\ t.waiting = u.waiting
    <3>1. CASE t = u
      BY <2>8, <3>1, SteadyRefl
    <3>2. CASE t = switchCall(u, None)
      BY <2>8, <3>2, SwitchCallSteady
    <3> QED
      BY <3>1, <3>2
  <2> HIDE DEF t
  <2>9. Typed(t) /\ c \notin t.waiting /\ c \in t.account
    BY <1>2, <2>6, <2>7, <2>8a DEF Steady
  <2>10. /\ Steady(k, t) /\ Tells(k, t) /\ k.bound = t.bound
         /\ k.shown = [t.shown EXCEPT ![c] = "HOLD"] /\ k.waiting = t.waiting
    BY <2>1, <2>9, CallStateChangedSteady DEF Answers
  <2> HIDE DEF k
  <2>10a. \A d \in Calls \ {c} : k.shown[d] = n.shown[d]
    <3>1. t.shown \in [Calls -> Answers]
      BY <2>9, TypedFields
    <3> QED
      BY <2>6a, <2>7, <2>8a, <2>10, <3>1
  <2>10b. k.shown[c] = "HOLD" /\ k.waiting = W
    <3>1. t.shown \in [Calls -> Answers]
      BY <2>9, TypedFields
    <3>2. u.waiting = W /\ t.waiting = u.waiting /\ k.waiting = t.waiting
      BY <2>6, <2>7, <2>8a, <2>10
    <3> QED
      BY <2>1, <2>10, <3>1, <3>2
  <2>11. Steady(u, n)
    BY <2>6, <2>7, SteadyTrans
  <2>12. Steady(t, n)
    BY <2>8a, <2>11, SteadyTrans
  <2>13. Steady(k, n)
    BY <2>10, <2>12, SteadyTrans
  <2>14. Tells(k, n)
    BY <1>2, <2>10a, <2>10b DEF Tells
  <2> QED
    BY <2>5, <2>6a, <2>7, <2>8a, <2>10, <2>10a, <2>13, <2>14
<1> QED
  BY <1>1, <1>2

\* A record update named.
SetConf(n, g) == [n EXCEPT !.conf = g]

\* Another state of a conference changes no membership.
LEMMA ConferenceStateSteady ==
    ASSUME NEW n, Typed(n), NEW f \in n.confs,
           NEW s \in {"ACTIVE_ATTACHED", "ACTIVE_DETACHED", "HOLD"}
    PROVE  LET k == [n EXCEPT !.conf[f].state = s] IN
           Steady(k, n) /\ Tells(k, n) /\ k.bound = n.bound /\ k.call = n.call
<1> DEFINE g == [n.conf EXCEPT ![f] = [@ EXCEPT !.state = s]]
<1>1. n.conf \in [Confs -> ConfRecords] /\ f \in Confs
  BY TypedFields
<1>2. /\ g \in [Confs -> ConfRecords]
      /\ \A h \in Confs : g[h].parts = n.conf[h].parts /\ g[h].nb = n.conf[h].nb
      /\ \A h \in Confs : h # f => g[h] = n.conf[h]
  <2>1. /\ [n.conf[f] EXCEPT !.state = s] \in ConfRecords
        /\ [n.conf[f] EXCEPT !.state = s].parts = n.conf[f].parts
        /\ [n.conf[f] EXCEPT !.state = s].nb = n.conf[f].nb
    BY <1>1 DEF ConfRecords
  <2> QED
    BY <1>1, <2>1
<1>3. [n EXCEPT !.conf[f].state = s] = SetConf(n, g)
  BY DEF SetConf
<1> HIDE DEF g
<1> DEFINE k == SetConf(n, g)
<1>4. /\ k.account = n.account /\ k.live = n.live /\ k.confs = n.confs
      /\ k.cutOff = n.cutOff /\ k.aborted = n.aborted /\ k.conf = g
      /\ k.call = n.call /\ k.waiting = n.waiting /\ k.bound = n.bound
      /\ k.shown = n.shown
  BY DEF Typed, ManagerStates, SetConf
<1>5. Typed(k)
  BY <1>2 DEF Typed, ManagerStates, SetConf, ConfRecords
<1> HIDE DEF k
<1>6. Steady(k, n) /\ Tells(k, n)
  BY <1>2, <1>4, <1>5 DEF Steady, Tells
<1> QED
  BY <1>3, <1>4, <1>6 DEF k

\* The user leaves what is current: only bindings and the conference's state change.
LEMMA DetachMainParticipantSteady ==
    ASSUME NEW n, Typed(n)
    PROVE  LET k == detachMainParticipant(n) IN
           Steady(k, n) /\ Tells(k, n)
<1> DEFINE u == unBindAll(n, Default)
           s == IF u.conf[u.current].state = "ACTIVE_ATTACHED"
                THEN "ACTIVE_DETACHED" ELSE u.conf[u.current].state
           l == [u EXCEPT !.conf[u.current].state = s]
<1>1. Typed(u) /\ Steady(u, n) /\ Tells(u, n)
  BY UnBindAllSteady DEF Steady
<1>2. CASE isConference(u, u.current)
  <2>1. detachMainParticipant(n) = switchCall(l, None)
    BY <1>2 DEF detachMainParticipant
  <2>2. u.current \in u.confs /\ u.current \in Confs
    BY <1>1, <1>2, TypedFields DEF isConference
  <2> HIDE DEF u
  <2>3. s \in {"ACTIVE_ATTACHED", "ACTIVE_DETACHED", "HOLD"}
    BY <1>1, <2>2, TypedFields DEF ConfRecords
  <2> HIDE DEF s
  <2>4. Steady(l, u) /\ Tells(l, u)
    BY <1>1, <2>2, <2>3, ConferenceStateSteady
  <2> HIDE DEF l
  <2>5. Typed(l)
    BY <2>4 DEF Steady
  <2>5a. Steady(l, n) /\ Tells(l, n)
    BY <1>1, <2>4, SteadyTrans
  <2>6. Steady(switchCall(l, None), l) /\ Tells(switchCall(l, None), l)
    BY <2>5, SwitchCallSteady
  <2> QED
    BY <2>1, <2>5a, <2>6, SteadyTrans
<1>3. CASE ~isConference(u, u.current)
  BY <1>1, <1>3 DEF detachMainParticipant
<1> QED
  BY <1>2, <1>3

\* So does a command that first leaves the current call.
LEMMA LeaveCurrentSteady ==
    ASSUME NEW n, Typed(n), NEW c
    PROVE  Steady(leaveCurrent(n, c), n) /\ Tells(leaveCurrent(n, c), n)
<1>1. n.current \in Calls \cup Confs \cup {None}
  BY TypedFields
<1>2. CASE leaveCurrent(n, c) = n
  BY <1>2, SteadyRefl
<1>3. CASE leaveCurrent(n, c) = detachMainParticipant(n)
  BY <1>3, DetachMainParticipantSteady
<1>4. CASE leaveCurrent(n, c) = onHoldCall(n, n.current)
  BY <1>1, <1>4, OnHoldCallSteady
<1> QED
  BY <1>2, <1>3, <1>4 DEF leaveCurrent

\* A participant is bound to the user and to the other members of its conference.
LEMMA BindParticipantSteady ==
    ASSUME NEW n, Sound(n), NEW f \in n.confs, NEW c \in Calls, n.call[c].confId = f
    PROVE  LET k == bindParticipant(n, f, c) IN
           Steady(k, n) /\ Tells(k, n) /\ k.call = n.call
<1> DEFINE peers == IF n.conf[f].nb >= 1 THEN n.conf[f].parts \ {c} ELSE {}
           B == n.bound \cup {{c, x} : x \in peers \cup {Default}}
<1>1. Typed(n) /\ f \in Confs
  BY TypedFields DEF Sound
<1>2. peers \in SUBSET Calls /\ (~Lag => \A x \in peers : n.call[x].confId = f)
  <2>1. n.conf[f].parts \in SUBSET Calls
    BY <1>1, TypedFields DEF ConfRecords
  <2>2. ~Lag => \A x \in n.conf[f].parts : n.call[x].confId = f
    BY DEF Sound, Grouped
  <2> QED
    BY <2>1, <2>2
<1> HIDE DEF peers
<1>3. B \in SUBSET SUBSET Streams
  BY <1>1, <1>2, TypedFields DEF Streams
<1>4. ASSUME ~Lag, NEW d \in Calls, NEW e \in Calls, d # e, {d, e} \in B
      PROVE  \/ {d, e} \in n.bound
             \/ /\ n.call[d].confId = n.call[e].confId
                /\ n.call[d].confId \in n.confs
  <2>1. CASE {d, e} \in n.bound
    BY <2>1
  <2>2. CASE \E x \in peers \cup {Default} : {d, e} = {c, x}
    <3>1. PICK x \in peers \cup {Default} : {d, e} = {c, x}
      BY <2>2
    <3>2. x # Default
      BY <3>1, NamesAssumption
    <3> QED
      BY <1>2, <1>4, <3>1, <3>2
  <2> QED
    BY <1>4, <2>1, <2>2
<1>5. bindParticipant(n, f, c) = SetBound(n, B)
  BY DEF bindParticipant, SetBound, peers
<1> HIDE DEF B
<1>6. Steady(SetBound(n, B), n) /\ Tells(SetBound(n, B), n)
  BY <1>1, <1>3, <1>4, SetBoundSteady
<1>7. SetBound(n, B).call = n.call
  BY <1>1 DEF Typed, ManagerStates, SetBound
<1> QED
  BY <1>5, <1>6, <1>7

\* A call's stream goes to the user, and to its conference if it is in one.
LEMMA AddStreamSteady ==
    ASSUME NEW n, Sound(n), NEW c \in Calls
    PROVE  Steady(addStream(n, c), n) /\ Tells(addStream(n, c), n)
<1>1. Typed(n)
  BY DEF Sound
<1>2. CASE addStream(n, c) = bindCallID(n, c, Default)
  BY <1>1, <1>2, BindToUserSteady
<1>3. CASE addStream(n, c) = n
  BY <1>1, <1>3, SteadyRefl
<1>4. CASE n.call[c].confId \in n.confs /\ addStream(n, c) = bindParticipant(n, n.call[c].confId, c)
  BY <1>4, BindParticipantSteady
<1> QED
  BY <1>2, <1>3, <1>4 DEF addStream

\* Making a call, or its conference, current.
LEMMA SwitchToCallSteady ==
    ASSUME NEW n, Typed(n), NEW c \in Calls
    PROVE  Steady(switchToCall(n, c), n) /\ Tells(switchToCall(n, c), n)
<1> DEFINE id == IF participToConference(n, c) THEN n.call[c].confId ELSE c
<1>1. id \in Calls \cup Confs \cup {None}
  BY TypedFields DEF CallRecords
<1>2. switchToCall(n, c) = switchCall(n, id)
  BY DEF switchToCall
<1> HIDE DEF id
<1> QED
  BY <1>1, <1>2, SwitchCallSteady

\* A change of one Call's state that leaves waiting calls alone.
LEMMA SetCallSteady ==
    ASSUME NEW n, Typed(n), NEW c \in n.live, c \notin n.waiting,
           NEW r \in CallRecords, r.confId = n.call[c].confId,
           r.type = n.call[c].type,
           n.call[c].state # "Inactive" => r.state # "Inactive"
    PROVE  LET k == [n EXCEPT !.call = [n.call EXCEPT ![c] = r]] IN
           Steady(k, n) /\ Tells(k, n) /\ k.bound = n.bound
<1> DEFINE h == [n.call EXCEPT ![c] = r]
           W == n.waiting
           j == n.nbWaiting
<1>1. n.call \in [Calls -> CallRecords] /\ c \in Calls /\ n.waiting \in SUBSET Calls
  BY TypedFields
<1>2. /\ h \in [Calls -> CallRecords]
      /\ \A d \in Calls : h[d].confId = n.call[d].confId
      /\ \A d \in Calls : h[d].type = n.call[d].type
      /\ \A d \in Calls : n.call[d].state # "Inactive" => h[d].state # "Inactive"
      /\ \A d \in Calls \ n.live : h[d] = n.call[d]
      /\ \A d \in W : h[d] = n.call[d]
  BY <1>1
<1>3. j = Cardinality(W)
  BY DEF Typed
<1> HIDE DEF h
<1>4. [n EXCEPT !.call = h] = SetWaiting(n, h, W, j)
  BY DEF SetWaiting, Typed, ManagerStates
<1>5. [n EXCEPT !.call = h].bound = n.bound
  BY DEF Typed, ManagerStates
<1> HIDE DEF W, j
<1>6. Steady(SetWaiting(n, h, W, j), n) /\ Tells(SetWaiting(n, h, W, j), n)
  BY <1>2, <1>3, SetWaitingSteady DEF W
<1> QED
  BY <1>4, <1>5, <1>6 DEF h

\* An INVITE of an answered call begins or ends.
LEMMA InviteSteady ==
    ASSUME NEW n, Sound(n), NEW c \in n.live, n.call[c].conn = "Connected",
           NEW i \in {"none", "received", "other"}
    PROVE  LET k == [n EXCEPT !.call[c].invite = i] IN Steady(k, n) /\ Tells(k, n)
<1> DEFINE k == [n EXCEPT !.call[c].invite = i]
           r == [n.call[c] EXCEPT !.invite = i]
<1>1. Typed(n) /\ c \in Calls /\ c \notin n.waiting /\ n.call[c] \in CallRecords
  BY TypedFields DEF Sound, Fresh
<1>2. r \in CallRecords /\ r.confId = n.call[c].confId /\ r.type = n.call[c].type
      /\ r.state = n.call[c].state
  BY <1>1 DEF CallRecords
<1>3. k = [n EXCEPT !.call = [n.call EXCEPT ![c] = r]]
  BY <1>1 DEF Typed, ManagerStates
<1> HIDE DEF r, k
<1>4. Steady(k, n) /\ Tells(k, n)
  BY <1>1, <1>2, <1>3, SetCallSteady
<1> QED
  BY <1>4 DEF k

\* A resumed call is an answered one, which does not wait.
LEMMA LinkOffHoldSteady ==
    ASSUME NEW n, Sound(n), NEW c \in Calls
    PROVE  Steady(linkOffHold(n, c), n) /\ Tells(linkOffHold(n, c), n)
<1>1. Typed(n)
  BY DEF Sound
<1>2. CASE linkOffHold(n, c) = n
  BY <1>1, <1>2, SteadyRefl
<1>3. CASE c \in n.live /\ Reinvited(n, c)
  <2> DEFINE r == [n.call[c] EXCEPT !.state = "Active", !.invite = "other"]
  <2>1. n.call[c] \in CallRecords
    BY <1>1, TypedFields
  <2>2. c \notin n.waiting
    BY <1>3 DEF Sound, Fresh, Reinvited
  <2>3. r \in CallRecords /\ r.confId = n.call[c].confId
        /\ r.type = n.call[c].type /\ r.state # "Inactive"
    BY <2>1 DEF CallRecords
  <2>4. linkOffHold(n, c) = [n EXCEPT !.call = [n.call EXCEPT ![c] = r]]
    BY <1>1, <1>3 DEF linkOffHold, Typed, ManagerStates
  <2> HIDE DEF r
  <2> QED
    BY <1>1, <1>3, <2>2, <2>3, <2>4, SetCallSteady
<1> QED
  BY <1>2, <1>3 DEF linkOffHold

\* offHoldCall of a call that exists and does not wait.
LEMMA OffHoldCallSteady ==
    ASSUME NEW n, Sound(n), NEW c \in n.live, c \notin n.waiting
    PROVE  Steady(offHoldCall(n, c), n) /\ Tells(offHoldCall(n, c), n)
<1> DEFINE a == leaveCurrent(n, c)
           b == linkOffHold(a, c)
           d == callStateChanged(b, c, "CURRENT")
           e == switchToCall(d, c)
           k == addStream(e, c)
<1>0. Typed(n) /\ c \in Calls
  BY TypedFields DEF Sound
<1>1. Steady(a, n) /\ Tells(a, n)
  BY <1>0, LeaveCurrentSteady
<1>2. Sound(a) /\ c \in a.live
  BY <1>1, SteadySound DEF Steady
<1> HIDE DEF a
<1>3. Steady(b, a) /\ Tells(b, a)
  BY <1>0, <1>2, LinkOffHoldSteady
<1> HIDE DEF b
<1>4. Steady(b, n) /\ Tells(b, n)
  BY <1>0, <1>1, <1>3, SteadyTrans
<1>5. Typed(b) /\ c \notin b.waiting /\ c \in b.live
  BY <1>4 DEF Steady
<1>6. Steady(d, b) /\ Tells(d, b)
  BY <1>0, <1>5, CallStateChangedSteady DEF Answers
<1> HIDE DEF d
<1>7. Typed(d)
  BY <1>6 DEF Steady
<1>8. Steady(e, d) /\ Tells(e, d)
  BY <1>0, <1>7, SwitchToCallSteady
<1> HIDE DEF e
<1>9. Steady(d, n) /\ Tells(d, n)
  BY <1>0, <1>4, <1>6, SteadyTrans
<1>10. Steady(e, n) /\ Tells(e, n)
  BY <1>0, <1>8, <1>9, SteadyTrans
<1>11. Sound(e)
  BY <1>10, SteadySound
<1>12. Steady(k, e) /\ Tells(k, e)
  BY <1>0, <1>11, AddStreamSteady
<1>13. offHoldCall(n, c) = k
  BY <1>2 DEF offHoldCall, a, b, d, e
<1> HIDE DEF k
<1> QED
  BY <1>0, <1>10, <1>12, <1>13, SteadyTrans

\* What answerCall makes of its call in the link and on the waiting list.
LEMMA LinkAnswerSteady ==
    ASSUME NEW n, Typed(n), NEW c \in Calls
    PROVE  LET k == removeWaitingCall(linkAnswer(n, c), c) IN
           Steady(k, n) /\ k.waiting = n.waiting \ {c} /\ k.shown = n.shown
<1> DEFINE h == IF c \in n.live /\ n.call[c].invite = "received" /\ c \notin n.cutOff
                THEN [n.call EXCEPT ![c] = [@ EXCEPT !.conn = "Connected", !.state = "Active"]]
                ELSE n.call
           W == n.waiting \ {c}
           j == IF c \in n.waiting THEN n.nbWaiting - 1 ELSE n.nbWaiting
           k == SetWaiting(n, h, W, j)
<1>1. removeWaitingCall(linkAnswer(n, c), c) = k
  <2>1. linkAnswer(n, c) = [n EXCEPT !.call = h]
    BY DEF linkAnswer, Typed, ManagerStates
  <2> HIDE DEF h
  <2> QED
    BY <2>1 DEF removeWaitingCall, Typed, ManagerStates, SetWaiting
<1>2. /\ h \in [Calls -> CallRecords]
      /\ \A x \in Calls : h[x].confId = n.call[x].confId
      /\ \A x \in Calls : h[x].type = n.call[x].type
      /\ \A x \in Calls : n.call[x].state # "Inactive" => h[x].state # "Inactive"
      /\ \A x \in Calls \ n.live : h[x] = n.call[x]
      /\ \A x \in W : h[x] = n.call[x]
  <2>1. n.call \in [Calls -> CallRecords] /\ n.waiting \in SUBSET Calls
    BY TypedFields
  <2>2. LET r == [n.call[c] EXCEPT !.conn = "Connected", !.state = "Active"]
        IN  /\ r \in CallRecords /\ r.confId = n.call[c].confId
            /\ r.type = n.call[c].type /\ r.state = "Active"
    BY <2>1 DEF CallRecords
  <2> QED
    BY <2>1, <2>2
<1>3. j = Cardinality(W)
  BY WaitingLess
<1> HIDE DEF h, j
<1>4. Steady(k, n) /\ k.waiting = W /\ k.shown = n.shown
  BY <1>2, <1>3, SetWaitingSteady
<1> QED
  BY <1>1, <1>4

\* answerCall takes its call off the waiting list.
LEMMA AnswerCallSteady ==
    ASSUME NEW n, Sound(n), NEW c \in Calls
    PROVE  LET k == answerCall(n, c) IN
           Steady(k, n) /\ (c \in n.live => Tells(k, n)) /\ c \notin k.waiting
<1> DEFINE a == leaveCurrent(n, c)
           b == removeWaitingCall(linkAnswer(a, c), c)
           d == switchToCall(b, c)
           e == addStream(d, c)
           k == callStateChanged(e, c, "CURRENT")
<1>0. Typed(n)
  BY DEF Sound
<1>1. Steady(a, n) /\ Tells(a, n)
  BY <1>0, LeaveCurrentSteady
<1>2. Typed(a)
  BY <1>1 DEF Steady
<1>3. answerCall(n, c) = k
  BY DEF answerCall
<1> HIDE DEF a
<1>6. Steady(b, a) /\ b.waiting = a.waiting \ {c} /\ b.shown = a.shown
  BY <1>2, LinkAnswerSteady
<1> HIDE DEF b
<1>7. Steady(b, n)
  BY <1>0, <1>1, <1>6, SteadyTrans
<1>8. Typed(b)
  BY <1>7 DEF Steady
<1>9. Steady(d, b) /\ Tells(d, b)
  BY <1>8, SwitchToCallSteady
<1> HIDE DEF d
<1>10. Steady(d, n)
  BY <1>0, <1>7, <1>9, SteadyTrans
<1>11. Sound(d)
  BY <1>10, SteadySound
<1>12. Steady(e, d) /\ Tells(e, d)
  BY <1>11, AddStreamSteady
<1> HIDE DEF e
<1>13. Steady(e, n)
  BY <1>0, <1>10, <1>12, SteadyTrans
<1>14. Typed(e) /\ c \notin e.waiting /\ (c \in n.live => c \in e.live)
  BY <1>6, <1>9, <1>12, <1>13 DEF Steady
<1>15. /\ Steady(k, e) /\ (c \in e.live => Tells(k, e))
       /\ k.shown = [e.shown EXCEPT ![c] = "CURRENT"]
  BY <1>14, CallStateChangedSteady DEF Answers
<1> HIDE DEF k
<1>16. c \notin k.waiting
  BY <1>14, <1>15 DEF Steady
<1>17. ASSUME c \in n.live PROVE Tells(k, n)
  <2>1. Tells(k, e) /\ k.shown[c] # "INCOMING"
    <3>1. c \in e.live /\ e.shown \in [Calls -> Answers]
      BY <1>14, <1>17, TypedFields
    <3> QED
      BY <1>15, <3>1
  <2>2. a.live = n.live /\ a.account = n.account
    BY <1>1 DEF Steady
  <2>3. /\ b.live = n.live /\ b.account = n.account /\ d.live = n.live
        /\ d.account = n.account /\ e.live = n.live /\ e.account = n.account
    BY <1>7, <1>10, <1>13 DEF Steady
  <2>4. \A x \in Calls : x # c /\ x \in a.waiting => x \in b.waiting
    BY <1>6
  <2> QED
    BY <1>1, <1>6, <1>9, <1>12, <2>1, <2>2, <2>3, <2>4 DEF Tells
<1> QED
  BY <1>0, <1>3, <1>13, <1>15, <1>16, <1>17, SteadyTrans

\* The user joins a conference.
LEMMA AddMainParticipantSteady ==
    ASSUME NEW n, Typed(n), NEW f \in Confs
    PROVE  Steady(addMainParticipant(n, f), n) /\ Tells(addMainParticipant(n, f), n)
<1> DEFINE a == IF isConference(n, n.current) THEN detachMainParticipant(n)
                ELSE IF hasCurrentCall(n) THEN onHoldCall(n, n.current)
                ELSE n
           B == a.bound \cup {{p, Default} : p \in a.conf[f].parts}
           s == IF a.conf[f].state = "ACTIVE_DETACHED"
                THEN "ACTIVE_ATTACHED" ELSE a.conf[f].state
           b == SetBound(a, B)
           d == [b EXCEPT !.conf[f].state = s]
           e == IF f \notin a.confs THEN a ELSE d
<1>1. Steady(a, n) /\ Tells(a, n)
  BY TypedFields, DetachMainParticipantSteady, OnHoldCallSteady, SteadyRefl
<1>2. Typed(a)
  BY <1>1 DEF Steady
<1> DEFINE both == [a EXCEPT !.bound = @ \cup {{p, Default} : p \in a.conf[f].parts},
                             !.conf[f].state = IF @ = "ACTIVE_DETACHED"
                                               THEN "ACTIVE_ATTACHED" ELSE @]
<1>2a. addMainParticipant(n, f) = switchCall(IF f \notin a.confs THEN a ELSE both, f)
  BY DEF addMainParticipant
<1> HIDE DEF a
<1>2b. both = d
  BY <1>2 DEF SetBound, Typed, ManagerStates
<1>3. addMainParticipant(n, f) = switchCall(e, f)
  BY <1>2a, <1>2b
<1> HIDE DEF both
<1>4. Steady(e, a) /\ Tells(e, a)
  <2>1. CASE f \notin a.confs
    BY <1>2, <2>1, SteadyRefl
  <2>2. CASE f \in a.confs
    <3>1. B \in SUBSET SUBSET Streams
      BY <1>2, TypedFields DEF Streams, ConfRecords
    <3>2. \A x, y \in Calls : x # y /\ {x, y} \in B => {x, y} \in a.bound
      BY NamesAssumption
    <3> HIDE DEF B
    <3>3. Steady(b, a) /\ Tells(b, a)
      BY <1>2, <3>1, <3>2, SetBoundSteady
    <3>4. Typed(b) /\ f \in b.confs
      BY <2>2, <3>3 DEF Steady
    <3>5. s \in {"ACTIVE_ATTACHED", "ACTIVE_DETACHED", "HOLD"}
      BY <1>2, TypedFields DEF ConfRecords
    <3> HIDE DEF b, s
    <3>6. Steady(d, b) /\ Tells(d, b)
      BY <3>4, <3>5, ConferenceStateSteady
    <3> HIDE DEF d
    <3>7. Steady(d, a) /\ Tells(d, a)
      BY <1>2, <3>3, <3>6, SteadyTrans
    <3> QED
      BY <2>2, <3>7
  <2> QED
    BY <2>1, <2>2
<1> HIDE DEF e
<1>5. Steady(e, n) /\ Tells(e, n)
  BY <1>1, <1>4, SteadyTrans
<1>6. Typed(e)
  BY <1>5 DEF Steady
<1>7. Steady(switchCall(e, f), e) /\ Tells(switchCall(e, f), e)
  BY <1>6, SwitchCallSteady
<1> QED
  BY <1>3, <1>5, <1>7, SteadyTrans

\* A participant that enters is resumed, answered or bound, by its state.
LEMMA EnterSteady ==
    ASSUME NEW n, Sound(n), NEW f \in n.confs, NEW c \in n.live,
           n.call[c].confId = f, NEW s,
           NEW answered \in SUBSET {"INCOMING", "INACTIVE"},
           s = "HOLD" => c \notin n.waiting
    PROVE  LET k == enter(n, f, c, s, answered) IN
           /\ Steady(k, n) /\ Tells(k, n)
           /\ s \in answered => c \notin k.waiting
<1> DEFINE b == bindParticipant(n, f, c)
<1>1. Typed(n) /\ c \in Calls /\ f # None
  BY TypedFields, NamesAssumption DEF Sound
<1>2. Steady(b, n) /\ Tells(b, n)
  BY <1>1, BindParticipantSteady
<1>3. Sound(b)
  BY <1>2, SteadySound
<1>5. c \in b.live /\ (s = "HOLD" => c \notin b.waiting)
  BY <1>2 DEF Steady
<1> HIDE DEF b
<1>6. s = "HOLD" => Steady(offHoldCall(b, c), b) /\ Tells(offHoldCall(b, c), b)
  BY <1>3, <1>5, OffHoldCallSteady
<1>7. Steady(answerCall(b, c), b) /\ Tells(answerCall(b, c), b) /\ c \notin answerCall(b, c).waiting
  BY <1>1, <1>3, <1>5, AnswerCallSteady
<1>8. CASE s = "HOLD" /\ enter(n, f, c, s, answered) = offHoldCall(b, c)
  BY <1>1, <1>2, <1>6, <1>8, SteadyTrans
<1>9. CASE enter(n, f, c, s, answered) = answerCall(b, c)
  BY <1>1, <1>2, <1>7, <1>9, SteadyTrans
<1>10. CASE s \notin answered /\ enter(n, f, c, s, answered) = b
  BY <1>2, <1>10
<1>11. CASE s \notin answered /\ enter(n, f, c, s, answered) = n
  BY <1>1, <1>11, SteadyRefl
<1> QED
  BY <1>8, <1>9, <1>10, <1>11 DEF enter, b

--------------------------------------------------------------------------------
(***************************************************************************)
(* Leaving a conference.                                                   *)
(***************************************************************************)

\* The sets of participants, in an update named.
SetMembers(n, g, h) == [n EXCEPT !.conf = g, !.call = h]

\* A conference with other participants and another count.
WithMembers(r, P, j) == [r EXCEPT !.parts = P, !.nb = j]

\* A conference whose participants are other ones.
LEMMA MembersType ==
    ASSUME NEW r \in ConfRecords, NEW P \in SUBSET Calls, NEW j \in Int
    PROVE  LET q == WithMembers(r, P, j) IN
           q \in ConfRecords /\ q.parts = P /\ q.nb = j /\ q.state = r.state
  BY DEF ConfRecords, WithMembers

\* Call c is no participant of f any more, and carries no conference's id.
Removed(k, n, c, f) ==
    /\ Typed(k)
    /\ k.account = n.account /\ k.live = n.live /\ k.confs = n.confs
    /\ k.cutOff = n.cutOff /\ k.aborted = n.aborted
    /\ k.waiting = n.waiting /\ k.shown = n.shown
    /\ k.current = n.current
    /\ k.conf[f].parts = n.conf[f].parts \ {c}
    /\ k.conf[f].nb = n.conf[f].nb - 1
    /\ \A h \in Confs : h # f => k.conf[h] = n.conf[h]
    /\ k.call[c].confId = None
    /\ k.call[c].type = n.call[c].type
    /\ k.call[c].state = n.call[c].state
    /\ k.call[c].conn = n.call[c].conn
    /\ \A d \in Calls : d # c => k.call[d] = n.call[d]
    /\ k.bound = {b \in n.bound : c \notin b}

\* What removeParticipant does, when the conference exists.
LEMMA RemoveParticipantFields ==
    ASSUME NEW n, Typed(n), NEW c \in Calls, NEW f \in n.confs, n.call[c].confId = f
    PROVE  Removed(removeParticipant(n, c), n, c, f)
<1> DEFINE q == [n.conf[f] EXCEPT !.parts = @ \ {c}, !.nb = @ - 1]
           g == [n.conf EXCEPT ![f] = q]
           r == [n.call[c] EXCEPT !.confId = None]
           h == [n.call EXCEPT ![c] = r]
           s == SetMembers(n, g, h)
<1>1. /\ f \in Confs /\ n.conf \in [Confs -> ConfRecords]
      /\ n.call \in [Calls -> CallRecords]
  BY TypedFields
<1>2a. q \in ConfRecords /\ q.parts = n.conf[f].parts \ {c} /\ q.nb = n.conf[f].nb - 1
  <2>1. n.conf[f] \in ConfRecords
    BY <1>1
  <2>2. n.conf[f].parts \in SUBSET Calls /\ n.conf[f].nb \in Int
    BY <2>1 DEF ConfRecords
  <2>3. n.conf[f].parts \ {c} \in SUBSET Calls /\ n.conf[f].nb - 1 \in Int
    BY <2>2
  <2>4. ASSUME NEW P \in SUBSET Calls, NEW j \in Int,
               P = n.conf[f].parts \ {c}, j = n.conf[f].nb - 1
        PROVE  q \in ConfRecords /\ q.parts = P /\ q.nb = j
    <3>1. q = WithMembers(n.conf[f], P, j)
      BY <2>4 DEF WithMembers
    <3> HIDE DEF q
    <3> QED
      BY <2>1, <3>1, MembersType
  <2> HIDE DEF q
  <2> QED
    BY <2>3, <2>4
<1>2b. /\ r \in CallRecords /\ r.confId = None
       /\ r.type = n.call[c].type /\ r.state = n.call[c].state
       /\ r.conn = n.call[c].conn
  BY <1>1 DEF CallRecords
<1>3. removeParticipant(n, c) = unBindAll(s, c)
  <2>1. confRemove(n, f, c) = [n EXCEPT !.conf = g]
    <3>1. n.conf[f] \in ConfRecords
      BY <1>1
    <3>2. q = [[n.conf[f] EXCEPT !.parts = @ \ {c}] EXCEPT !.nb = n.conf[f].nb - 1]
      BY <3>1 DEF ConfRecords
    <3> QED
      BY <1>1, <3>2 DEF confRemove, Typed, ManagerStates
  <2>2. [[n EXCEPT !.conf = g] EXCEPT !.call[c].confId = None] = s
    BY DEF SetMembers, Typed, ManagerStates
  <2> QED
    BY <2>1, <2>2 DEF removeParticipant, removeStream
<1> HIDE DEF q, r
<1>4. /\ g \in [Confs -> ConfRecords] /\ h \in [Calls -> CallRecords]
  BY <1>1, <1>2a, <1>2b
<1>5. /\ g[f] = q /\ \A e \in Confs : e # f => g[e] = n.conf[e]
      /\ h[c] = r /\ \A d \in Calls : d # c => h[d] = n.call[d]
  BY <1>1
<1> HIDE DEF g, h
<1>6. /\ s.account = n.account /\ s.live = n.live /\ s.confs = n.confs
      /\ s.cutOff = n.cutOff /\ s.aborted = n.aborted /\ s.conf = g
      /\ s.call = h /\ s.waiting = n.waiting /\ s.bound = n.bound
      /\ s.shown = n.shown /\ s.current = n.current
  BY DEF Typed, ManagerStates, SetMembers
<1>7. Typed(s)
  BY <1>4 DEF Typed, ManagerStates, SetMembers, ConfRecords, CallRecords
<1> HIDE DEF s
<1> DEFINE k == unBindAll(s, c)
<1>8. /\ Typed(k) /\ k.bound = {b \in s.bound : c \notin b} /\ k.call = s.call /\ k.conf = s.conf
      /\ k.current = s.current
      /\ k.account = s.account /\ k.live = s.live /\ k.confs = s.confs
      /\ k.cutOff = s.cutOff
  BY <1>7, UnBindAllSteady DEF Steady
<1>9. k.waiting = s.waiting /\ k.shown = s.shown /\ k.aborted = s.aborted
  BY <1>7 DEF unBindAll, Typed, ManagerStates
<1> HIDE DEF k
<1>10. LET l == k IN
           /\ l.conf[f].parts = n.conf[f].parts \ {c}
           /\ l.conf[f].nb = n.conf[f].nb - 1
           /\ \A e \in Confs : e # f => l.conf[e] = n.conf[e]
           /\ l.call[c].confId = None
           /\ l.call[c].type = n.call[c].type
           /\ l.call[c].state = n.call[c].state
           /\ l.call[c].conn = n.call[c].conn
           /\ \A d \in Calls : d # c => l.call[d] = n.call[d]
           /\ l.bound = {b \in n.bound : c \notin b}
  BY <1>2a, <1>2b, <1>5, <1>6, <1>8
<1> QED
  BY <1>3, <1>6, <1>8, <1>9, <1>10 DEF k, Removed

\* A record update named.
SetConfs(n, F, g) == [n EXCEPT !.confs = F, !.conf = g]

\* Conference f is gone, and with it bindings only.
Dissolved(k, n, f) ==
    /\ Typed(k)
    /\ k.account = n.account /\ k.live = n.live /\ k.confs = n.confs \ {f}
    /\ k.cutOff = n.cutOff /\ k.aborted = n.aborted
    /\ k.waiting = n.waiting /\ k.shown = n.shown /\ k.call = n.call
    /\ k.current = n.current
    /\ k.conf[f] = NewConference
    /\ \A h \in Confs : h # f => k.conf[h] = n.conf[h]
    /\ \A c, d \in Calls : {c, d} \in k.bound => {c, d} \in n.bound

\* What removeConference does.
LEMMA RemoveConferenceFields ==
    ASSUME NEW n, Typed(n), NEW f \in n.confs,
           n.conf[f].parts # {} => FirstOf(n.conf[f].parts) \in Calls
    PROVE  Dissolved(removeConference(n, f), n, f)
<1> DEFINE p == FirstOf(n.conf[f].parts)
           B == {b \in n.bound : Default \notin b}
                   \cup (IF n.conf[f].parts = {} THEN {} ELSE {{p, Default}})
           a == SetBound(n, B)
           g == [n.conf EXCEPT ![f] = NewConference]
           k == SetConfs(a, n.confs \ {f}, g)
<1>1. f \in Confs /\ n.conf \in [Confs -> ConfRecords] /\ NewConference \in ConfRecords
  BY TypedFields DEF NewConference, ConfRecords
<1>2. g \in [Confs -> ConfRecords] /\ g[f] = NewConference
      /\ \A h \in Confs : h # f => g[h] = n.conf[h]
  BY <1>1
<1>3. B \in SUBSET SUBSET Streams
  BY TypedFields DEF Streams
<1>4. \A c, d \in Calls : {c, d} \in B => {c, d} \in n.bound
  BY NamesAssumption
<1>5. removeConference(n, f) = k
  <2>1. (IF n.conf[f].parts = {} THEN unBindAll(n, Default)
         ELSE bindCallID(unBindAll(n, Default), p, Default)) = a
    BY DEF unBindAll, bindCallID, SetBound, Typed, ManagerStates
  <2>2. a.confs = n.confs /\ a.conf = n.conf /\ unBindAll(n, Default).conf = n.conf
    BY DEF SetBound, unBindAll, Typed, ManagerStates
  <2>3. removeConference(n, f) = [a EXCEPT !.confs = @ \ {f}, !.conf[f] = NewConference]
    <3> HIDE DEF p, B
    <3> QED
      BY <2>1 DEF removeConference, p
  <2> HIDE DEF a
  <2> QED
    BY <2>2, <2>3 DEF SetConfs
<1> HIDE DEF B, g
<1>6. /\ k.account = n.account /\ k.live = n.live /\ k.confs = n.confs \ {f}
      /\ k.cutOff = n.cutOff /\ k.aborted = n.aborted /\ k.conf = g
      /\ k.call = n.call /\ k.waiting = n.waiting /\ k.bound = B
      /\ k.shown = n.shown /\ k.current = n.current
  BY DEF Typed, ManagerStates, SetBound, SetConfs
<1>7. Typed(k)
  BY <1>2, <1>3 DEF Typed, ManagerStates, SetBound, SetConfs, ConfRecords, Streams
<1> HIDE DEF k
<1> QED
  BY <1>2, <1>4, <1>5, <1>6, <1>7 DEF Dissolved

--------------------------------------------------------------------------------
(***************************************************************************)
(* The handlers that only take participants out of conferences.            *)
(***************************************************************************)

\* From n to k participants have left conferences, or those were dissolved, and
\* nothing else became of any call.
Leaves(k, n) ==
    /\ Sound(k)
    /\ k.account = n.account /\ k.live = n.live
    /\ k.cutOff = n.cutOff /\ (~Lag => k.aborted = n.aborted)
    /\ k.confs \subseteq n.confs /\ k.waiting \subseteq n.waiting
    /\ \A c \in Calls :
          \/ k.call[c].confId = None
          \/ /\ k.call[c].confId = n.call[c].confId
             /\ n.call[c].confId \in n.confs => n.call[c].confId \in k.confs
    /\ Tells(k, n)

\* A steady step is one in which nobody leaves.
LEMMA SteadyLeaves ==
    ASSUME NEW n, Sound(n), NEW k, Steady(k, n), Tells(k, n)
    PROVE  Leaves(k, n)
<1>1. Sound(k)
  BY SteadySound
<1> QED
  BY <1>1 DEF Leaves, Steady

\* Leaving and leaving again is leaving.
LEMMA LeavesTrans ==
    ASSUME NEW n, NEW k, NEW l, Leaves(k, n), Leaves(l, k)
    PROVE  Leaves(l, n)
<1>1. Tells(l, n)
  BY DEF Leaves, Tells
<1> QED
  BY <1>1 DEF Leaves

\* One participant of three or more goes.
LEMMA ParticipantLeaves ==
    ASSUME NEW n, Sound(n), NEW c \in n.live, NEW f \in n.confs,
           n.call[c].confId = f, n.conf[f].nb > 2
    PROVE  LET k == removeParticipant(n, c) IN
           Leaves(k, n) /\ k.call[c].confId = None /\ k.shown[c] = n.shown[c]
<1>1. /\ Typed(n) /\ c \in Calls /\ f \in Confs /\ f # None
  BY TypedFields, NamesAssumption DEF Sound
<1> DEFINE k == removeParticipant(n, c)
<1>2a. Removed(k, n, c, f)
  BY <1>1, RemoveParticipantFields
<1> HIDE DEF k
<1>2. /\ Typed(k)
      /\ k.account = n.account /\ k.live = n.live /\ k.confs = n.confs
      /\ k.cutOff = n.cutOff /\ k.aborted = n.aborted
      /\ k.waiting = n.waiting /\ k.shown = n.shown
      /\ k.conf[f].parts = n.conf[f].parts \ {c}
      /\ k.conf[f].nb = n.conf[f].nb - 1
      /\ \A h \in Confs : h # f => k.conf[h] = n.conf[h]
      /\ k.call[c].confId = None
      /\ k.call[c].type = n.call[c].type
      /\ k.call[c].state = n.call[c].state
      /\ k.call[c].conn = n.call[c].conn
      /\ \A d \in Calls : d # c => k.call[d] = n.call[d]
      /\ k.bound = {b \in n.bound : c \notin b}
  BY <1>2a DEF Removed
<1>3. n.conf[f].parts \in SUBSET Calls /\ n.confs \in SUBSET Confs /\ n.conf[f].nb \in Int
  BY <1>1, TypedFields DEF ConfRecords
<1>4. c \in n.conf[f].parts
  BY <1>1 DEF Sound, Grouped
<1>5. Cardinality(n.conf[f].parts \ {c}) = n.conf[f].nb - 1
  <2>1. IsFiniteSet(n.conf[f].parts) /\ n.conf[f].nb = Cardinality(n.conf[f].parts)
    BY <1>3, CallsAssumption, FS_Subset DEF Sound, Grouped
  <2> QED
    BY <1>4, <2>1, FS_RemoveElement
<1>6. Fresh(k)
  <2>1. n.waiting \in SUBSET Calls
    BY <1>1, TypedFields
  <2> QED
    BY <1>2, <2>1 DEF Sound, Fresh
<1>7. Grouped(k)
  <2>1. k.conf[f].nb = Cardinality(k.conf[f].parts) /\ k.conf[f].nb >= 2
    BY <1>2, <1>3, <1>5
  <2>2. \A h \in k.confs : k.conf[h].nb = Cardinality(k.conf[h].parts) /\ k.conf[h].nb >= 2
    <3>1. n.conf[f].parts \in SUBSET Calls /\ n.confs \in SUBSET Confs
      BY <1>3
    <3>2. ASSUME NEW h \in n.confs, h # f
          PROVE  k.conf[h] = n.conf[h]
      BY <1>2, <3>1, <3>2
    <3>3. \A h \in n.confs : n.conf[h].nb = Cardinality(n.conf[h].parts) /\ n.conf[h].nb >= 2
      BY DEF Sound, Grouped
    <3>4. k.confs = n.confs
      BY <1>2
    <3> QED
      BY <2>1, <3>2, <3>3, <3>4
  <2>3. ASSUME NEW h \in k.confs, NEW d \in k.live
        PROVE  d \in k.conf[h].parts <=> k.call[d].confId = h
    <3>1. h \in Confs /\ h # None /\ h \in n.confs /\ d \in n.live /\ d \in Calls
      BY <1>1, <1>2, <1>3, NamesAssumption, TypedFields
    <3>2. d \in n.conf[h].parts <=> n.call[d].confId = h
      BY <3>1 DEF Sound, Grouped
    <3> QED
      BY <1>1, <1>2, <3>1, <3>2
  <2>4. ASSUME ~Lag, NEW h \in k.confs
        PROVE  k.conf[h].parts \subseteq k.live
    <3>1. h \in Confs /\ n.conf[h].parts \subseteq n.live
      BY <1>2, <1>3, <2>4 DEF Sound, Grouped
    <3> QED
      BY <1>2, <3>1
  <2> QED
    BY <2>2, <2>3, <2>4 DEF Grouped
<1>8. Forgotten(k)
  BY <1>1, <1>2 DEF Sound, Forgotten
<1>9. Separate(k)
  BY <1>1, <1>2 DEF Sound, Separate
<1>10. Begun(k)
  BY <1>1, <1>2 DEF Sound, Begun
<1>11. Sound(k)
  BY <1>2, <1>6, <1>7, <1>8, <1>9, <1>10 DEF Sound
<1> QED
  BY <1>1, <1>2, <1>11 DEF Leaves, Tells, k

\* The other one of two participants.
LEMMA TwoParticipants ==
    ASSUME NEW n, Sound(n), NEW c \in n.live, NEW f \in n.confs,
           n.call[c].confId = f, n.conf[f].nb = 2
    PROVE  \E p \in Calls : p # c /\ n.conf[f].parts = {c, p}
<1>1. n.conf[f].parts \in SUBSET Calls
  BY TypedFields DEF Sound, ConfRecords
<1>2. c \in n.conf[f].parts
  BY DEF Sound, Grouped
<1>3. IsFiniteSet(n.conf[f].parts) /\ Cardinality(n.conf[f].parts) = 2
  BY <1>1, CallsAssumption, FS_Subset DEF Sound, Grouped
<1> DEFINE P == n.conf[f].parts
<1> HIDE DEF P
<1>4. IsFiniteSet(P \ {c}) /\ Cardinality(P \ {c}) = 1
  <2>1. c \in P /\ IsFiniteSet(P) /\ Cardinality(P) = 2
    BY <1>2, <1>3 DEF P
  <2>2. /\ IsFiniteSet(P \ {c})
        /\ Cardinality(P \ {c}) = IF c \in P THEN Cardinality(P) - 1 ELSE Cardinality(P)
    BY <2>1, FS_RemoveElement
  <2> QED
    BY <2>1, <2>2
<1>5. PICK p : P \ {c} = {p}
  BY <1>4, FS_Singleton
<1> QED
  BY <1>1, <1>2, <1>5 DEF P

\* Of two participants one goes: the other is released, the conference dissolved.
LEMMA ConferenceDissolves ==
    ASSUME NEW n, Sound(n), NEW c \in n.live, NEW f \in n.confs,
           n.call[c].confId = f, n.conf[f].nb = 2, NEW id,
           NEW a, Removed(a, n, c, f)
    PROVE  LET k == processRemainingParticipant(a, id, f) IN
           Leaves(k, n) /\ k.call[c].confId = None /\ k.shown[c] = n.shown[c]
<1>1. /\ Typed(n) /\ c \in Calls /\ f \in Confs /\ f # None
  BY TypedFields, NamesAssumption DEF Sound
<1>2. n.conf[f].parts \in SUBSET Calls /\ n.confs \in SUBSET Confs
  BY <1>1, TypedFields DEF ConfRecords
<1>4. PICK p \in Calls : p # c /\ n.conf[f].parts = {c, p}
  BY TwoParticipants
<1>5. /\ Typed(a) /\ a.conf[f].parts = {p} /\ a.conf[f].nb = 1
      /\ f \in a.confs /\ a.live = n.live /\ (p \notin n.live => Lag)
  <2>1. p \notin n.live => Lag
    BY <1>4 DEF Sound, Grouped
  <2> QED
    BY <1>4, <2>1 DEF Removed
<1> DEFINE r == [a.call[p] EXCEPT !.confId = None]
           h == [a.call EXCEPT ![p] = r]
           b == SetMembers(a, a.conf, h)
           d == IF p \notin n.live THEN abort(a)
                ELSE IF id = f THEN switchCall(b, p) ELSE onHoldCall(b, p)
           k == removeConference(d, f)
<1>6. FirstOf({p}) = p
  BY <1>4, CallsAssumption DEF FirstOf
<1>7. processRemainingParticipant(a, id, f) = k
  <2>1. [a EXCEPT !.call[p].confId = None] = b
    BY <1>5 DEF SetMembers, Typed, ManagerStates
  <2>2. releaseLast(a, id, f) = d
    <3> HIDE DEF b
    <3> QED
      BY <1>5, <1>6, <2>1 DEF releaseLast
  <2> HIDE DEF d
  <2> QED
    BY <1>5, <2>2 DEF processRemainingParticipant
<1>8. r \in CallRecords /\ r.confId = None /\ r.type = a.call[p].type
      /\ r.state = a.call[p].state /\ r.conn = a.call[p].conn
  <2>1. a.call[p] \in CallRecords
    BY <1>5, TypedFields
  <2> QED
    BY <2>1 DEF CallRecords
<1>8a. p \notin n.live => r = NewCall /\ r = a.call[p]
  <2>1. p \notin n.live => n.call[p] = NewCall /\ a.call[p] = n.call[p]
    BY <1>4 DEF Sound, Forgotten, Removed
  <2> QED
    BY <2>1 DEF NewCall
<1> HIDE DEF r
<1>9. /\ h \in [Calls -> CallRecords] /\ h[p] = r
      /\ \A x \in Calls : x # p => h[x] = a.call[x]
  BY <1>5, <1>8, TypedFields
<1>9a. p \notin n.live => h = a.call
  BY <1>5, <1>8a, TypedFields
<1> HIDE DEF h
<1>10. /\ b.account = a.account /\ b.live = a.live /\ b.confs = a.confs
       /\ b.cutOff = a.cutOff /\ b.aborted = a.aborted /\ b.conf = a.conf
       /\ b.call = h /\ b.waiting = a.waiting /\ b.bound = a.bound
       /\ b.shown = a.shown /\ b.current = a.current
  BY <1>5 DEF Typed, ManagerStates, SetMembers
<1>11. Typed(b)
  BY <1>5, <1>9 DEF Typed, ManagerStates, SetMembers, CallRecords
<1>11a. p \notin n.live => b = a
  <2>1. a = [a EXCEPT !.conf = a.conf, !.call = a.call]
    BY <1>5 DEF Typed, ManagerStates
  <2> QED
    BY <1>9a, <2>1 DEF SetMembers
<1> HIDE DEF b
<1>12. Steady(d, b) /\ Tells(d, b) /\ d.shown[c] = b.shown[c]
  <2>1. CASE p \notin n.live
    BY <1>5, <1>11a, <2>1, AbortSteady
  <2>2. CASE p \in n.live
    BY <1>1, <1>4, <1>11, <2>2, SwitchCallSteady, OnHoldCallSteady
  <2> QED
    BY <2>1, <2>2
<1> HIDE DEF d
<1>13. Dissolved(k, d, f)
  <2>1. Typed(d) /\ f \in d.confs /\ d.conf[f].parts = {p}
    BY <1>1, <1>5, <1>10, <1>12 DEF Steady
  <2> QED
    BY <1>6, <2>1, RemoveConferenceFields
<1> HIDE DEF k
<1>14. /\ k.account = n.account /\ k.live = n.live /\ k.confs = n.confs \ {f}
       /\ k.cutOff = n.cutOff /\ (~Lag => k.aborted = n.aborted) /\ Typed(k)
       /\ k.waiting \subseteq n.waiting
       /\ k.conf[f] = NewConference
  BY <1>10, <1>12, <1>13 DEF Removed, Steady, Dissolved
<1>15. /\ k.call[c].confId = None /\ k.call[p].confId = None
       /\ \A x \in Calls : x \notin {c, p} => k.call[x].confId = n.call[x].confId
  BY <1>1, <1>4, <1>8, <1>9, <1>10, <1>12, <1>13 DEF Removed, Steady, Dissolved
<1>16. ASSUME NEW g \in Confs, g # f
       PROVE  /\ k.conf[g].parts = n.conf[g].parts /\ k.conf[g].nb = n.conf[g].nb
              /\ g \notin n.confs => k.conf[g] = n.conf[g]
  BY <1>10, <1>12, <1>13, <1>16 DEF Removed, Steady, Dissolved
<1>17. ASSUME NEW x \in Calls
       PROVE  /\ b.call[x].type = n.call[x].type /\ b.call[x].state = n.call[x].state
              /\ b.call[x].conn = n.call[x].conn /\ b.shown[x] = n.shown[x]
  <2>1. /\ a.call[x].type = n.call[x].type /\ a.call[x].state = n.call[x].state
        /\ a.call[x].conn = n.call[x].conn /\ a.shown = n.shown
    BY DEF Removed
  <2> QED
    BY <1>8, <1>9, <1>10, <2>1
<1>18. Fresh(k)
  <2>1. SUFFICES ASSUME NEW x \in k.waiting
                 PROVE  /\ x \in n.waiting /\ k.call[x].type = n.call[x].type
                        /\ k.call[x].state = n.call[x].state
                        /\ k.call[x].conn = n.call[x].conn /\ k.shown[x] = n.shown[x]
    BY <1>14 DEF Sound, Fresh
  <2>2. x \in n.waiting /\ x \in Calls
    BY <1>1, <1>14, TypedFields
  <2>3. x \in d.waiting /\ k.call[x] = d.call[x] /\ k.shown[x] = d.shown[x]
    BY <1>13 DEF Dissolved
  <2>4. d.call[x] = b.call[x] /\ d.shown[x] = b.shown[x]
    BY <1>12, <2>3 DEF Steady
  <2> QED
    BY <1>17, <2>2, <2>3, <2>4
<1>19. Grouped(k)
  <2>1. \A g \in k.confs : k.conf[g].nb = Cardinality(k.conf[g].parts) /\ k.conf[g].nb >= 2
    <3>1. \A g \in n.confs : n.conf[g].nb = Cardinality(n.conf[g].parts) /\ n.conf[g].nb >= 2
      BY DEF Sound, Grouped
    <3>2. ASSUME NEW g \in k.confs
          PROVE  g \in n.confs /\ k.conf[g].parts = n.conf[g].parts /\ k.conf[g].nb = n.conf[g].nb
      BY <1>2, <1>14, <1>16
    <3> QED
      BY <3>1, <3>2
  <2>2. ASSUME NEW g \in k.confs
        PROVE  g \in n.confs /\ g # f /\ g # None /\ k.conf[g].parts = n.conf[g].parts
    BY <1>2, <1>14, <1>16, NamesAssumption
  <2>3. ASSUME NEW g \in k.confs, NEW x \in k.live
        PROVE  x \in k.conf[g].parts <=> k.call[x].confId = g
    <3>1. x \in n.live /\ x \in Calls
      BY <1>1, <1>14, TypedFields
    <3>2. x \in n.conf[g].parts <=> n.call[x].confId = g
      BY <2>2, <3>1 DEF Sound, Grouped
    <3>3. x \in {c, p} => n.call[x].confId = f
      BY <1>4, <3>1 DEF Sound, Grouped
    <3> QED
      BY <1>14, <1>15, <2>2, <3>1, <3>2, <3>3
  <2>4. ~Lag => \A g \in k.confs : k.conf[g].parts \subseteq k.live
    BY <1>14, <2>2 DEF Sound, Grouped
  <2> QED
    BY <2>1, <2>3, <2>4 DEF Grouped
<1>20. Forgotten(k)
  <2>1. ASSUME NEW g \in Confs \ k.confs
        PROVE  k.conf[g] = NewConference
    BY <1>14, <1>16 DEF Sound, Forgotten
  <2>2. ASSUME NEW x \in Calls \ k.live
        PROVE  k.call[x] = NewCall
    <3>1. x \notin n.live /\ x # c
      BY <1>5, <1>14
    <3>2. a.call[x] = n.call[x] /\ b.call[x] = a.call[x]
      BY <1>9, <1>9a, <1>10, <3>1 DEF Removed
    <3>3. d.call[x] = b.call[x]
      BY <1>10, <1>12, <3>1 DEF Steady, Removed
    <3>4. k.call[x] = d.call[x]
      BY <1>13 DEF Dissolved
    <3> QED
      BY <3>1, <3>2, <3>3, <3>4 DEF Sound, Forgotten
  <2> QED
    BY <2>1, <2>2 DEF Forgotten
<1>21. ASSUME NEW x \in Calls, n.call[x].confId = f
       PROVE  x \in {c, p}
  <2>1. x \in n.live
    BY <1>1, <1>21 DEF Sound, Forgotten, NewCall
  <2> QED
    BY <1>4, <1>21, <2>1 DEF Sound, Grouped
<1>22. Separate(k)
  <2>1. SUFFICES ASSUME ~Lag, NEW x \in Calls, NEW y \in Calls, x # y, {x, y} \in k.bound
                 PROVE  k.call[x].confId = k.call[y].confId /\ k.call[x].confId \in k.confs
    BY DEF Separate
  <2>2. {x, y} \in d.bound
    BY <2>1, <1>13 DEF Dissolved
  <2>3. CASE {x, y} \in b.bound
    <3>1. {x, y} \in n.bound /\ x # c /\ y # c
      BY <1>10, <2>3 DEF Removed
    <3>2. n.call[x].confId = n.call[y].confId /\ n.call[x].confId \in n.confs
      BY <2>1, <3>1 DEF Sound, Separate
    <3>3. n.call[x].confId # f
      BY <1>21, <2>1, <3>1, <3>2
    <3>4. x # p /\ y # p
      <4>1. n.call[p].confId = f
        BY <1>4, <1>5, <2>1 DEF Sound, Grouped
      <4> QED
        BY <3>2, <3>3, <4>1
    <3> QED
      BY <1>14, <1>15, <3>1, <3>2, <3>3, <3>4
  <2>4. CASE b.call[x].confId = b.call[y].confId /\ b.call[x].confId \in b.confs
    <3>1. b.confs = n.confs /\ b.call[c].confId = None /\ b.call[p].confId = None
      BY <1>1, <1>4, <1>8, <1>9, <1>10 DEF Removed
    <3>2. None \notin n.confs
      BY <1>2, NamesAssumption
    <3>3. x \notin {c, p} /\ y \notin {c, p}
      BY <2>4, <3>1, <3>2
    <3>4. b.call[x].confId = n.call[x].confId /\ b.call[y].confId = n.call[y].confId
      BY <1>9, <1>10, <3>3 DEF Removed
    <3>5. n.call[x].confId # f
      BY <1>21, <3>3
    <3> QED
      BY <1>14, <1>15, <2>4, <3>1, <3>3, <3>4, <3>5
  <2> QED
    BY <1>12, <2>1, <2>2, <2>3, <2>4 DEF Steady
<1>23. Begun(k)
  <2>1. ASSUME NEW x \in Calls
        PROVE  /\ k.call[x].type = n.call[x].type
               /\ n.call[x].state # "Inactive" => k.call[x].state # "Inactive"
    <3>1. b.call[x].type = n.call[x].type /\ b.call[x].state = n.call[x].state
      BY <1>17
    <3>2. /\ d.call[x].type = b.call[x].type
          /\ b.call[x].state # "Inactive" => d.call[x].state # "Inactive"
      BY <1>12 DEF Steady
    <3> QED
      BY <1>13, <3>1, <3>2 DEF Dissolved
  <2> QED
    BY <2>1 DEF Sound, Begun
<1>24. Sound(k)
  BY <1>14, <1>18, <1>19, <1>20, <1>22, <1>23 DEF Sound
<1>25. Tells(k, n)
  <2>1. a.shown = n.shown /\ b.shown = n.shown /\ b.live = n.live /\ b.account = n.account
        /\ k.shown = d.shown /\ k.waiting = d.waiting /\ b.waiting = n.waiting
    BY <1>10, <1>13 DEF Removed, Dissolved
  <2> QED
    BY <1>12, <2>1 DEF Tells
<1>26. \A x \in Calls :
          \/ k.call[x].confId = None
          \/ /\ k.call[x].confId = n.call[x].confId
             /\ n.call[x].confId \in n.confs => n.call[x].confId \in k.confs
  <2>1. SUFFICES ASSUME NEW x \in Calls, x \notin {c, p}
                 PROVE  /\ k.call[x].confId = n.call[x].confId
                        /\ n.call[x].confId \in n.confs => n.call[x].confId \in k.confs
    BY <1>15
  <2> QED
    BY <1>14, <1>15, <1>21, <2>1
<1>27. k.shown[c] = n.shown[c]
  BY <1>1, <1>12, <1>13, <1>17 DEF Dissolved
<1> QED
  BY <1>7, <1>14, <1>15, <1>24, <1>25, <1>26, <1>27 DEF Leaves

\* leaveConference takes its call out of the conference, whichever is current.
LEMMA LeaveConferenceLeaves ==
    ASSUME NEW n, Sound(n), NEW c \in Calls, NEW id
    PROVE  LET k == leaveConference(n, c, id) IN
           /\ Leaves(k, n)
           /\ n.call[c].confId \in n.confs => k.call[c].confId = None
           /\ k.call[c].confId \notin k.confs
           /\ k.shown[c] = n.shown[c]
<1> DEFINE f == n.call[c].confId
           a == removeParticipant(n, c)
           k == leaveConference(n, c, id)
<1>0. Typed(n)
  BY DEF Sound
<1>1. CASE f \notin n.confs
  <2>1. k = n
    BY <1>1 DEF leaveConference
  <2>2. Leaves(n, n)
    BY <1>0, SteadyRefl, SteadyLeaves
  <2> QED
    BY <1>1, <2>1, <2>2
<1>2. CASE f \in n.confs
  <2>1. c \in n.live /\ None \notin n.confs
    BY <1>0, <1>2, TypedFields, NamesAssumption DEF Sound, Forgotten, NewCall
  <2>2. Removed(a, n, c, f)
    BY <1>0, <1>2, RemoveParticipantFields
  <2>3. k = processRemainingParticipant(a, id, f)
    BY <1>2 DEF leaveConference
  <2>4. n.conf[f].nb \in Int /\ n.conf[f].nb >= 2 /\ a.conf[f].nb = n.conf[f].nb - 1
    <3>1. n.conf[f] \in ConfRecords
      BY <1>0, <1>2, TypedFields
    <3> QED
      BY <1>2, <2>2, <3>1 DEF Sound, Grouped, Removed, ConfRecords
  <2>5. Leaves(k, n) /\ k.call[c].confId = None /\ k.shown[c] = n.shown[c]
    <3>1. CASE n.conf[f].nb > 2
      <4>1. Leaves(a, n) /\ a.call[c].confId = None /\ a.shown[c] = n.shown[c]
        BY <1>2, <2>1, <3>1, ParticipantLeaves
      <4>2. a.conf[f].nb > 1
        BY <2>4, <3>1
      <4>3. k = a
        BY <2>3, <4>2 DEF processRemainingParticipant
      <4> QED
        BY <4>1, <4>3
    <3>2. CASE n.conf[f].nb = 2
      <4> HIDE DEF a, k
      <4> QED
        BY <1>2, <2>1, <2>2, <2>3, <3>2, ConferenceDissolves
    <3> QED
      BY <2>4, <3>1, <3>2
  <2>6. None \notin k.confs
    BY <2>1, <2>5 DEF Leaves
  <2> QED
    BY <2>5, <2>6
<1> QED
  BY <1>1, <1>2

\* CALL_STATE is never RINGING, and INCOMING for a call that waits.
LEMMA StateStrings ==
    ASSUME NEW n, Sound(n), NEW c \in Calls
    PROVE  /\ getStateStr(n, c) # "RINGING"
           /\ c \in n.waiting => getStateStr(n, c) = "INCOMING"
<1>1. n.call[c] \in CallRecords
  BY TypedFields DEF Sound
<1>2. n.call[c].state \in {"Inactive", "Active", "Hold"} /\ n.call[c].type \in {"Incoming", "Outgoing"}
  BY <1>1 DEF CallRecords
<1>2a. n.call[c].type = "Outgoing" => n.call[c].state \in {"Active", "Hold"}
  BY <1>2 DEF Sound, Begun
<1>3. getStateStr(n, c) # "RINGING"
  BY <1>2, <1>2a DEF getStateStr
<1>4. c \in n.waiting => getStateStr(n, c) = "INCOMING"
  BY DEF Sound, Fresh, getStateStr
<1> QED
  BY <1>3, <1>4

\* detachParticipant makes its call a simple one.
LEMMA DetachParticipantLeaves ==
    ASSUME NEW n, Sound(n), NEW c \in Calls
    PROVE  LET k == detachParticipant(n, c) IN
           /\ Leaves(k, n)
           /\ c \in n.live /\ n.call[c].confId \in n.confs => k.call[c].confId = None
<1> DEFINE a == onHoldCall(n, c)
           k == detachParticipant(n, c)
<1>0. Typed(n)
  BY DEF Sound
<1>1. CASE c \notin n.live \/ n.call[c].confId \notin n.confs
  <2>1. k = n
    BY <1>1 DEF detachParticipant
  <2>2. Leaves(n, n)
    BY <1>0, SteadyRefl, SteadyLeaves
  <2> QED
    BY <1>1, <2>1, <2>2
<1>2. CASE c \in n.live /\ n.call[c].confId \in n.confs
  <2>1. Leaves(a, n) /\ Sound(a) /\ a.call[c].confId \in a.confs
    <3>1. Steady(a, n) /\ Tells(a, n)
      BY <1>0, OnHoldCallSteady
    <3> HIDE DEF a
    <3>2. a.call[c].confId = n.call[c].confId /\ a.confs = n.confs
      BY <3>1 DEF Steady
    <3> QED
      BY <1>2, <3>1, <3>2, SteadyLeaves, SteadySound
  <2>2. k = leaveConference(a, c, n.current)
    BY <1>2, StateStrings DEF detachParticipant
  <2> HIDE DEF a, k
  <2>3. Leaves(k, a) /\ k.call[c].confId = None
    BY <2>1, <2>2, LeaveConferenceLeaves
  <2> QED
    BY <2>1, <2>3, LeavesTrans DEF k
<1> QED
  BY <1>1, <1>2

--------------------------------------------------------------------------------
(***************************************************************************)
(* The ends of calls.                                                      *)
(***************************************************************************)

\* Between two handlers a waiting call is in no conference.
Alone(n) == \A c \in n.waiting : n.call[c].confId = None

\* What holds between two handlers.
Settled(n) == Sound(n) /\ Alone(n)

\* No call carries the id of a conference that is gone.
Named(n) == \A c \in n.live : n.call[c].confId \in {None} \cup n.confs

\* While every peer can be reached, calls with an account exist.
Kept(n) == Named(n) /\ n.account \subseteq n.live /\ n.cutOff = {}

\* A call the client was told of exists.
Honest(n) == \A c \in Calls : n.shown[c] \in {"NONE", "FAILURE"} \/ c \in n.live

\* A call the client was told to come in still waits.
Rung(n) == \A c \in Calls : n.shown[c] = "INCOMING" => c \in n.waiting

\* What every handler keeps, but those that begin a call.
Follows(k, n) ==
    Settled(k) /\ k.waiting \subseteq n.waiting /\ (Kept(n) => Kept(k))

\* What it keeps unless it is about a call that does not exist.
Tidy(k, n) ==
    /\ ~Lag /\ Kept(n) => k.aborted = n.aborted
    /\ Kept(n) /\ Honest(n) => Honest(k)
    /\ Rung(n) => Rung(k)

\* Handlers in a row keep what each keeps.
LEMMA FollowsTrans ==
    ASSUME NEW n, NEW k, NEW l, Follows(k, n), Follows(l, k)
    PROVE  Follows(l, n) /\ (Tidy(k, n) /\ Tidy(l, k) => Tidy(l, n))
  BY DEF Follows, Tidy

\* A handler that returns at once keeps everything.
LEMMA FollowsRefl ==
    ASSUME NEW n, Settled(n)
    PROVE  Follows(n, n) /\ Tidy(n, n)
  BY DEF Follows, Tidy

\* A step by which participants leave keeps what handlers keep.
LEMMA LeavesFollows ==
    ASSUME NEW n, Settled(n), NEW k, Leaves(k, n)
    PROVE  Follows(k, n) /\ Tidy(k, n)
<1>1. n.live \in SUBSET Calls /\ n.waiting \in SUBSET Calls
  BY TypedFields DEF Settled, Sound
<1>2. Settled(k)
  BY <1>1 DEF Settled, Leaves, Alone
<1>3. Kept(n) => Kept(k)
  BY <1>1 DEF Leaves, Kept, Named
<1>4. /\ Kept(n) /\ Honest(n) => Honest(k)
      /\ Rung(n) => Rung(k)
  BY DEF Leaves, Kept, Honest, Tells, Rung
<1> QED
  BY <1>2, <1>3, <1>4 DEF Follows, Tidy, Leaves

\* So does a steady step.
LEMMA SteadyFollows ==
    ASSUME NEW n, Settled(n), NEW k, Steady(k, n)
    PROVE  Follows(k, n) /\ (Tells(k, n) => Tidy(k, n))
<1>1. n.live \in SUBSET Calls /\ n.waiting \in SUBSET Calls
  BY TypedFields DEF Settled, Sound
<1>2. Settled(k)
  BY <1>1, SteadySound DEF Settled, Steady, Alone
<1>3. Kept(n) => Kept(k)
  BY <1>1 DEF Steady, Kept, Named
<1>4. /\ Tells(k, n) /\ Kept(n) /\ Honest(n) => Honest(k)
      /\ Tells(k, n) /\ Rung(n) => Rung(k)
  BY DEF Steady, Kept, Honest, Tells, Rung
<1> QED
  BY <1>2, <1>3, <1>4 DEF Follows, Tidy, Steady

\* The fields that change when a call begins or ends, in one named update.
SetEntries(n, L, A, h, W, j, t) ==
    [n EXCEPT !.live = L, !.account = A, !.call = h, !.waiting = W,
              !.nbWaiting = j, !.shown = t]

\* Entries of the right types make a state of the daemon.
LEMMA EntriesType ==
    ASSUME NEW n, Typed(n), NEW L \in SUBSET Calls, NEW A \in SUBSET Calls,
           NEW h \in [Calls -> CallRecords], NEW W \in SUBSET Calls, NEW j,
           j = Cardinality(W), NEW t \in [Calls -> Answers]
    PROVE  Typed(SetEntries(n, L, A, h, W, j, t))
<1>1. IsFiniteSet(W)
  BY CallsAssumption, FS_Subset
<1>2. j \in Nat
  BY <1>1, FS_CardinalityType
<1> QED
  BY <1>2 DEF Typed, ManagerStates, SetEntries, CallRecords, Answers

\* A call in no conference ends.
LEMMA CallEnds ==
    ASSUME NEW n, Settled(n), NEW c \in Calls,
           ~Lag => n.call[c].confId \notin n.confs,
           NEW A \in SUBSET n.account,
           NEW t \in [Calls -> Answers], t[c] \in {"NONE", "FAILURE"},
           \A d \in Calls \ {c} : t[d] = n.shown[d],
           NEW j, j = Cardinality(n.waiting \ {c})
    PROVE  LET k == SetEntries(n, n.live \ {c}, A, [n.call EXCEPT ![c] = NewCall],
                           n.waiting \ {c}, j, t)
           IN  /\ Settled(k) /\ k.waiting \subseteq n.waiting
               /\ Rung(n) => Rung(k)
               /\ A \subseteq n.account \ {c} => Follows(k, n) /\ Tidy(k, n)
<1> DEFINE h == [n.call EXCEPT ![c] = NewCall]
           W == n.waiting \ {c}
           k == SetEntries(n, n.live \ {c}, A, h, W, j, t)
<1>1. Typed(n) /\ NewCall \in CallRecords /\ NewCall.confId = None /\ NewCall.type = "Incoming"
  BY DEF Settled, Sound, NewCall, CallRecords
<1>2. /\ n.call \in [Calls -> CallRecords] /\ n.shown \in [Calls -> Answers]
      /\ n.account \in SUBSET Calls /\ n.live \in SUBSET Calls
      /\ n.waiting \in SUBSET Calls /\ n.confs \in SUBSET Confs
  BY <1>1, TypedFields
<1>3. h \in [Calls -> CallRecords] /\ h[c] = NewCall /\ \A d \in Calls : d # c => h[d] = n.call[d]
  BY <1>1, <1>2
<1> HIDE DEF h
<1>5. /\ k.account = A /\ k.live = n.live \ {c} /\ k.confs = n.confs
      /\ k.cutOff = n.cutOff /\ k.aborted = n.aborted /\ k.conf = n.conf
      /\ k.call = h /\ k.waiting = W /\ k.bound = n.bound /\ k.nbWaiting = j
      /\ k.shown = t
  BY <1>1 DEF Typed, ManagerStates, SetEntries
<1>6. Typed(k)
  BY <1>1, <1>2, <1>3, EntriesType
<1> HIDE DEF k
<1>7. Fresh(k)
  BY <1>2, <1>3, <1>5 DEF Settled, Sound, Fresh
<1>8. Grouped(k)
  <2>1. \A f \in k.confs : k.conf[f].nb = Cardinality(k.conf[f].parts) /\ k.conf[f].nb >= 2
    BY <1>5 DEF Settled, Sound, Grouped
  <2>2. ASSUME NEW f \in k.confs, NEW d \in k.live
        PROVE  d \in k.conf[f].parts <=> k.call[d].confId = f
    BY <1>1, <1>2, <1>3, <1>5, NamesAssumption DEF Settled, Sound, Grouped
  <2>3. ASSUME ~Lag, NEW f \in k.confs
        PROVE  k.conf[f].parts \subseteq k.live
    <3>1. c \in n.live => c \notin n.conf[f].parts
      BY <1>5, <2>3 DEF Settled, Sound, Grouped
    <3>2. n.conf[f].parts \subseteq n.live
      BY <1>5, <2>3 DEF Settled, Sound, Grouped
    <3> QED
      BY <1>5, <3>1, <3>2
  <2> QED
    BY <2>1, <2>2, <2>3 DEF Grouped
<1>9. Forgotten(k)
  BY <1>3, <1>5 DEF Settled, Sound, Forgotten
<1>10. Separate(k)
  BY <1>3, <1>5 DEF Settled, Sound, Separate
<1>11. Begun(k)
  BY <1>1, <1>3, <1>5 DEF Settled, Sound, Begun
<1>12. Alone(k)
  BY <1>2, <1>3, <1>5 DEF Settled, Alone
<1>13. Settled(k)
  BY <1>6, <1>7, <1>8, <1>9, <1>10, <1>11, <1>12 DEF Settled, Sound
<1>14. A \subseteq n.account \ {c} /\ Kept(n) => Kept(k)
  BY <1>2, <1>3, <1>5 DEF Kept, Named
<1>15. (Honest(n) => Honest(k)) /\ (Rung(n) => Rung(k))
  BY <1>5 DEF Honest, Rung
<1> QED
  BY <1>5, <1>13, <1>14, <1>15 DEF Follows, Tidy, k, h

\* The process dies, or the call's account entry goes.
LEMMA AccountOrProcessGoes ==
    ASSUME NEW n, Settled(n), NEW c
    PROVE  /\ Follows(abort(n), n) /\ (Rung(n) => Rung(abort(n)))
           /\ Follows(removeCallAccount(n, c), n) /\ Tidy(removeCallAccount(n, c), n)
<1>1. Typed(n)
  BY DEF Settled, Sound
<1>2. ASSUME NEW k, NEW A \in SUBSET n.account, NEW e \in BOOLEAN,
             k = [n EXCEPT !.account = A, !.aborted = e]
      PROVE  /\ Follows(k, n) /\ (Rung(n) => Rung(k))
             /\ e = n.aborted => Tidy(k, n)
  <2>1. /\ k.live = n.live /\ k.confs = n.confs /\ k.account = A
        /\ k.cutOff = n.cutOff /\ k.aborted = e /\ k.conf = n.conf
        /\ k.call = n.call /\ k.waiting = n.waiting /\ k.bound = n.bound
        /\ k.nbWaiting = n.nbWaiting /\ k.shown = n.shown
    BY <1>1, <1>2 DEF Typed, ManagerStates
  <2>2. Typed(k)
    <3>1. A \in SUBSET Calls
      BY <1>1, TypedFields
    <3> QED
      BY <1>1, <1>2, <3>1 DEF Typed, ManagerStates
  <2>3. Settled(k)
    BY <2>1, <2>2 DEF Settled, Sound, Fresh, Grouped, Forgotten, Separate, Begun, Alone
  <2>4. /\ (Kept(n) => Kept(k)) /\ (Honest(n) => Honest(k))
        /\ (Rung(n) => Rung(k))
    BY <2>1 DEF Kept, Named, Honest, Rung
  <2> QED
    BY <2>1, <2>3, <2>4 DEF Follows, Tidy
<1>3. /\ abort(n) = [n EXCEPT !.account = n.account, !.aborted = TRUE]
      /\ removeCallAccount(n, c) = [n EXCEPT !.account = n.account \ {c}, !.aborted = n.aborted]
  BY <1>1 DEF abort, removeCallAccount, Typed, ManagerStates
<1>4. n.aborted \in BOOLEAN
  BY <1>1, TypedFields
<1> QED
  BY <1>2, <1>3, <1>4

\* What the end of a call starts with: it leaves its conference, or what is current.
LEMMA EndBegins ==
    ASSUME NEW n, Settled(n), NEW c \in Calls, NEW id,
           NEW k,
           participToConference(n, c) => k = leaveConference(n, c, id),
           ~participToConference(n, c) => k \in {n, switchCall(n, None)}
    PROVE  /\ Leaves(k, n) /\ k.call[c].confId \notin k.confs
           /\ k.shown[c] = n.shown[c]
<1>1. Typed(n) /\ Sound(n)
  BY DEF Settled, Sound
<1>2. CASE participToConference(n, c)
  BY <1>1, <1>2, LeaveConferenceLeaves
<1>3. CASE ~participToConference(n, c)
  <2>1. n.call[c].confId = None /\ None \notin n.confs
    BY <1>1, <1>3, TypedFields, NamesAssumption DEF participToConference, Sound, Forgotten, NewCall
  <2>2. k = n \/ k = switchCall(n, None)
    BY <1>3
  <2>3. Steady(k, n) /\ Tells(k, n) /\ k.call = n.call /\ k.shown = n.shown
    BY <1>1, <2>2, SteadyRefl, SwitchCallSteady
  <2>4. k.confs = n.confs
    BY <2>3 DEF Steady
  <2> QED
    BY <1>1, <2>1, <2>3, <2>4, SteadyLeaves
<1> QED
  BY <1>2, <1>3

\* linkHangup and removeCallAccount, together.
LEMMA LinkHangupFollows ==
    ASSUME NEW n, Settled(n), NEW c \in Calls, c \notin n.waiting,
           n.call[c].confId \notin n.confs, n.shown[c] \in {"NONE", "FAILURE"},
           c \in n.account
    PROVE  LET k == removeCallAccount(linkHangup(n, c), c) IN
           Follows(k, n) /\ Tidy(k, n)
<1> DEFINE k == removeCallAccount(linkHangup(n, c), c)
<1>1. Typed(n)
  BY DEF Settled, Sound
<1>2. CASE linkHangup(n, c) = n
  BY <1>2, AccountOrProcessGoes
<1>3. CASE c \notin n.live /\ linkHangup(n, c) = abort(n)
  <2>1. Follows(abort(n), n)
    BY AccountOrProcessGoes
  <2>2. Follows(k, abort(n))
    <3>1. Settled(abort(n))
      BY <2>1 DEF Follows
    <3> QED
      BY <1>3, <3>1, AccountOrProcessGoes
  <2>3. Follows(k, n)
    BY <2>1, <2>2, FollowsTrans
  <2>4. ~ Kept(n)
    BY <1>3 DEF Kept
  <2>5. Rung(n) => Rung(k)
    <3>1. Settled(abort(n)) /\ (Rung(n) => Rung(abort(n)))
      BY <2>1, AccountOrProcessGoes DEF Follows
    <3> QED
      BY <1>3, <3>1, AccountOrProcessGoes DEF Tidy
  <2> QED
    BY <2>3, <2>4, <2>5 DEF Tidy
<1>4. CASE linkHangup(n, c) = removeCall(n, c)
  <2> DEFINE A == n.account \ {c}
             h == [n.call EXCEPT ![c] = NewCall]
             W == n.waiting \ {c}
             j == n.nbWaiting
  <2>1. W = n.waiting /\ j = Cardinality(W)
    BY <1>1 DEF Typed
  <2>2. n.shown \in [Calls -> Answers]
    BY <1>1, TypedFields
  <2>3. LET e == SetEntries(n, n.live \ {c}, A, h, W, j, n.shown)
        IN  Follows(e, n) /\ Tidy(e, n)
    <3> HIDE DEF j
    <3> QED
      BY <2>1, <2>2, CallEnds
  <2>4. k = SetEntries(n, n.live \ {c}, A, h, n.waiting, j, n.shown)
    BY <1>1, <1>4 DEF removeCallAccount, removeCall, SetEntries, Typed, ManagerStates
  <2> QED
    BY <2>1, <2>3, <2>4
<1> QED
  BY <1>2, <1>3, <1>4 DEF linkHangup

\* hangupCall of a call that does not wait.
LEMMA HangupCallFollows ==
    ASSUME NEW n, Settled(n), NEW c \in Calls, c \notin n.waiting
    PROVE  Follows(hangupCall(n, c), n) /\ Tidy(hangupCall(n, c), n)
<1> DEFINE a == callStateChanged(n, c, "NONE")
           b == removeStream(a, c)
           d == IF participToConference(b, c) THEN leaveConference(b, c, n.current)
                ELSE IF isConference(b, n.current) THEN b ELSE switchCall(b, None)
           k == removeCallAccount(linkHangup(d, c), c)
<1>1. Typed(n)
  BY DEF Settled, Sound
<1>2. /\ Steady(a, n) /\ Tells(a, n) /\ a.shown = [n.shown EXCEPT ![c] = "NONE"]
  BY <1>1, CallStateChangedSteady DEF Answers
<1>3. a.shown[c] = "NONE"
  BY <1>1, <1>2, TypedFields
<1>4. hangupCall(n, c) = IF c \notin n.account THEN a ELSE k
  BY DEF hangupCall
<1> HIDE DEF a
<1>4a. Typed(a)
  BY <1>2 DEF Steady
<1>5. Follows(a, n) /\ Tidy(a, n)
  BY <1>2, SteadyFollows
<1>6. Steady(b, a) /\ Tells(b, a) /\ b.shown = a.shown
  BY <1>4a, UnBindAllSteady DEF removeStream
<1> HIDE DEF b
<1>7. Settled(a)
  BY <1>5 DEF Follows
<1>8. Follows(b, a) /\ Tidy(b, a) /\ Settled(b)
  BY <1>6, <1>7, SteadyFollows DEF Follows
<1>9. Leaves(d, b) /\ d.call[c].confId \notin d.confs /\ d.shown[c] = b.shown[c]
  <2>1. /\ participToConference(b, c) => d = leaveConference(b, c, n.current)
        /\ ~participToConference(b, c) => d \in {b, switchCall(b, None)}
    OBVIOUS
  <2> HIDE DEF d
  <2> QED
    BY <1>8, <2>1, EndBegins
<1> HIDE DEF d
<1>10. Follows(d, b) /\ Tidy(d, b) /\ Settled(d)
  BY <1>8, <1>9, LeavesFollows DEF Follows
<1>11. CASE c \notin n.account
  BY <1>4, <1>5, <1>11
<1>12. CASE c \in n.account
  <2>1. c \notin d.waiting /\ c \in d.account /\ d.shown[c] = "NONE"
    BY <1>2, <1>3, <1>6, <1>9, <1>12 DEF Steady, Leaves
  <2>2. Follows(k, d) /\ Tidy(k, d)
    BY <1>9, <1>10, <2>1, LinkHangupFollows
  <2> HIDE DEF k
  <2>3. Follows(b, n) /\ Tidy(b, n)
    BY <1>5, <1>8, FollowsTrans
  <2>4. Follows(d, n) /\ Tidy(d, n)
    BY <1>10, <2>3, FollowsTrans
  <2> QED
    BY <1>4, <1>12, <2>2, <2>4, FollowsTrans
<1> QED
  BY <1>11, <1>12

\* What refuseCall, the end of a session and a failure make of a call's entries.
Gone(n, c, t) ==
    SetEntries(n, n.live \ {c}, n.account \ {c}, [n.call EXCEPT ![c] = NewCall],
           n.waiting \ {c},
           IF c \in n.waiting THEN n.nbWaiting - 1 ELSE n.nbWaiting, t)

\* A call in no conference is forgotten, as ended or failed.
LEMMA GoneFollows ==
    ASSUME NEW n, Settled(n), NEW c \in Calls,
           ~Lag => n.call[c].confId \notin n.confs,
           NEW t \in [Calls -> Answers], t[c] \in {"NONE", "FAILURE"},
           \A d \in Calls \ {c} : t[d] = n.shown[d]
    PROVE  LET k == Gone(n, c, t) IN Follows(k, n) /\ Tidy(k, n)
<1> DEFINE j == IF c \in n.waiting THEN n.nbWaiting - 1 ELSE n.nbWaiting
           A == n.account \ {c}
<1>1. Typed(n)
  BY DEF Settled, Sound
<1>2. j = Cardinality(n.waiting \ {c})
  BY <1>1, WaitingLess
<1>3. Gone(n, c, t) = SetEntries(n, n.live \ {c}, A, [n.call EXCEPT ![c] = NewCall],
                             n.waiting \ {c}, j, t)
  BY DEF Gone
<1>4. A \in SUBSET n.account /\ A \subseteq n.account \ {c}
  OBVIOUS
<1> HIDE DEF j, A
<1> DEFINE k == SetEntries(n, n.live \ {c}, A, [n.call EXCEPT ![c] = NewCall],
                           n.waiting \ {c}, j, t)
<1>5. Follows(k, n) /\ Tidy(k, n)
  BY <1>2, <1>4, CallEnds
<1> HIDE DEF k
<1> QED
  BY <1>3, <1>5 DEF k

\* refuseCall of a call in no conference.
LEMMA RefuseCallFollows ==
    ASSUME NEW n, Settled(n), NEW c \in Calls,
           ~Lag => n.call[c].confId \notin n.confs
    PROVE  Follows(refuseCall(n, c), n) /\ Tidy(refuseCall(n, c), n)
<1> DEFINE t == [n.shown EXCEPT ![c] = "NONE"]
           b == IF Refusable(n, c) THEN Gone(n, c, t) ELSE removeCallAccount(n, c)
           k == removeStream(b, c)
<1>1. Typed(n) /\ n.shown \in [Calls -> Answers]
  BY TypedFields DEF Settled, Sound
<1>2. refuseCall(n, c) = IF c \notin n.account THEN n ELSE k
  <2>1. removeCallAccount(callStateChanged(removeWaitingCall(removeCall(n, c), c), c, "NONE"), c)
          = Gone(n, c, t)
    BY <1>1 DEF removeCallAccount, callStateChanged, removeWaitingCall, removeCall,
                Gone, SetEntries, Typed, ManagerStates
  <2> QED
    BY <2>1 DEF refuseCall
<1>3. t \in [Calls -> Answers] /\ t[c] = "NONE" /\ \A d \in Calls \ {c} : t[d] = n.shown[d]
  BY <1>1 DEF Answers
<1> HIDE DEF t
<1>4. Follows(b, n) /\ Tidy(b, n)
  <2>1. LET g == Gone(n, c, t) IN Follows(g, n) /\ Tidy(g, n)
    BY <1>3, GoneFollows
  <2> QED
    BY <2>1, AccountOrProcessGoes
<1> HIDE DEF b
<1>5. Settled(b) /\ Typed(b)
  BY <1>4 DEF Follows, Settled, Sound
<1>6. Steady(k, b) /\ Tells(k, b)
  BY <1>5, UnBindAllSteady DEF removeStream
<1> HIDE DEF k
<1>7. Follows(k, b) /\ Tidy(k, b)
  BY <1>5, <1>6, SteadyFollows
<1>8. Follows(k, n) /\ Tidy(k, n)
  BY <1>4, <1>7, FollowsTrans
<1> QED
  BY <1>2, <1>8, FollowsRefl

\* The end of a session.
LEMMA CallClosedFollows ==
    ASSUME NEW n, Settled(n), NEW c \in Calls
    PROVE  Follows(SIPCallClosed(n, c), n) /\ Tidy(SIPCallClosed(n, c), n)
<1> DEFINE a == IF participToConference(n, c) THEN leaveConference(n, c, n.current)
                ELSE IF n.current = c THEN switchCall(n, None) ELSE n
           t == [a.shown EXCEPT ![c] = "NONE"]
           g == Gone(a, c, t)
           k == unBindAll(g, c)
<1>1. Leaves(a, n) /\ a.call[c].confId \notin a.confs
  <2>1. /\ participToConference(n, c) => a = leaveConference(n, c, n.current)
        /\ ~participToConference(n, c) => a \in {n, switchCall(n, None)}
    OBVIOUS
  <2> HIDE DEF a
  <2> QED
    BY <2>1, EndBegins
<1>2. SIPCallClosed(n, c)
        = removeCall(unBindAll(removeCallAccount(
              removeWaitingCall(callStateChanged(a, c, "NONE"), c), c), c), c)
  BY DEF SIPCallClosed, peerHungupCall, removeStream
<1> HIDE DEF a
<1>3. Follows(a, n) /\ Tidy(a, n)
  BY <1>1, LeavesFollows
<1>4. Settled(a) /\ Typed(a) /\ a.shown \in [Calls -> Answers]
  BY <1>3, TypedFields DEF Follows, Settled, Sound
<1>5. SIPCallClosed(n, c) = k
  BY <1>2, <1>4 DEF removeCallAccount, callStateChanged, removeWaitingCall, removeCall,
              unBindAll, Gone, SetEntries, Typed, ManagerStates
<1>6. t \in [Calls -> Answers] /\ t[c] = "NONE" /\ \A d \in Calls \ {c} : t[d] = a.shown[d]
  BY <1>4 DEF Answers
<1> HIDE DEF t
<1>7. Follows(g, a) /\ Tidy(g, a)
  BY <1>1, <1>4, <1>6, GoneFollows
<1> HIDE DEF g
<1>8. Settled(g) /\ Typed(g)
  BY <1>7 DEF Follows, Settled, Sound
<1>9. Steady(k, g) /\ Tells(k, g)
  BY <1>8, UnBindAllSteady
<1> HIDE DEF k
<1>10. Follows(k, g) /\ Tidy(k, g)
  BY <1>8, <1>9, SteadyFollows
<1>11. Follows(g, n) /\ Tidy(g, n)
  BY <1>3, <1>7, FollowsTrans
<1> QED
  BY <1>5, <1>10, <1>11, FollowsTrans

\* A call fails: the final response of an INVITE, or the session's end with one.
LEMMA CallFailsFollows ==
    ASSUME NEW n, Settled(n), NEW c \in n.live
    PROVE  Follows(SIPCallServerFailure(n, c), n) /\ Tidy(SIPCallServerFailure(n, c), n)
<1> DEFINE p == IF n.current = c THEN switchCall(n, None) ELSE n
           a == callStateChanged(p, c, "FAILURE")
           b == IF participToConference(a, c) THEN leaveConference(a, c, a.current) ELSE a
           lost == participToConference(a, c) /\ a.call[c].confId \notin n.confs
           k == SIPCallServerFailure(n, c)
           t == [p.shown EXCEPT ![c] = "FAILURE"]
<1>1. Typed(n) /\ c \in Calls
  BY TypedFields DEF Settled, Sound
<1>2. k = removeCall(IF lost THEN a
                     ELSE removeWaitingCall(removeCallAccount(b, c), c), c)
  BY DEF SIPCallServerFailure, callFailure
<1>3. /\ Steady(p, n) /\ Tells(p, n) /\ p.call = n.call /\ p.waiting = n.waiting
      /\ p.shown = n.shown
  BY <1>1, SteadyRefl, SwitchCallSteady
<1> HIDE DEF p, k
<1>4. Follows(p, n) /\ Tidy(p, n) /\ Settled(p) /\ Typed(p)
  <2>1. Follows(p, n) /\ Tidy(p, n)
    BY <1>3, SteadyFollows
  <2> QED
    BY <2>1 DEF Follows, Settled, Sound
<1>5. /\ t \in [Calls -> Answers] /\ t[c] = "FAILURE"
      /\ \A d \in Calls \ {c} : t[d] = p.shown[d]
  BY <1>1, <1>4, TypedFields DEF Answers
<1>6. CASE c \in n.waiting
  <2>1. p.call[c].confId = None
    BY <1>3, <1>6 DEF Settled, Alone
  <2>2. a.call = p.call
    BY <1>4 DEF callStateChanged, Typed, ManagerStates
  <2>3. ~ participToConference(a, c)
    BY <2>1, <2>2 DEF participToConference
  <2>4. k = removeCall(removeWaitingCall(removeCallAccount(a, c), c), c)
    BY <1>2, <2>3
  <2>5. k = Gone(p, c, t)
    BY <1>4, <2>4 DEF removeCallAccount, removeWaitingCall, removeCall,
                callStateChanged, Gone, SetEntries, Typed, ManagerStates
  <2>6. None \notin p.confs
    BY <1>4, TypedFields, NamesAssumption
  <2> HIDE DEF t
  <2>7. Follows(k, p) /\ Tidy(k, p)
    BY <1>1, <1>4, <1>5, <2>1, <2>5, <2>6, GoneFollows
  <2> QED
    BY <1>4, <2>7, FollowsTrans DEF k
<1>7. CASE c \notin n.waiting
  <2>1. /\ Steady(a, p) /\ Tells(a, p) /\ a.call = p.call
        /\ a.shown = t /\ a.waiting = p.waiting
    BY <1>1, <1>3, <1>4, <1>7, CallStateChangedSteady DEF Answers
  <2> HIDE DEF a, t
  <2>2. Follows(a, p) /\ Tidy(a, p) /\ Settled(a) /\ Typed(a)
    <3>1. Follows(a, p) /\ Tidy(a, p)
      BY <1>4, <2>1, SteadyFollows
    <3> QED
      BY <3>1 DEF Follows, Settled, Sound
  <2>3. Follows(a, n) /\ Tidy(a, n)
    BY <1>4, <2>2, FollowsTrans
  <2>4. CASE lost
    <3> DEFINE j == a.nbWaiting
    <3>1. a.waiting \ {c} = a.waiting
      BY <1>3, <1>7, <2>1
    <3>2. k = SetEntries(a, a.live \ {c}, a.account, [a.call EXCEPT ![c] = NewCall],
                     a.waiting \ {c}, j, a.shown)
      BY <1>2, <2>2, <2>4, <3>1 DEF removeCall, SetEntries, Typed, ManagerStates
    <3>3. a.confs = n.confs /\ a.live = n.live /\ a.call = n.call
      BY <1>3, <2>1 DEF Steady
    <3>4. j = Cardinality(a.waiting \ {c})
      BY <2>2, <3>1 DEF Typed
    <3> HIDE DEF j
    <3>5. a.account \in SUBSET a.account /\ a.shown \in [Calls -> Answers]
      BY <2>2, TypedFields
    <3>6. /\ Settled(k) /\ k.waiting \subseteq a.waiting
          /\ Rung(a) => Rung(k)
      BY <1>1, <1>5, <2>1, <2>2, <2>4, <3>2, <3>3, <3>4, <3>5, CallEnds
    <3>7. ~ Kept(n)
      BY <2>4, <3>3 DEF Kept, Named, participToConference
    <3> QED
      BY <1>3, <2>1, <2>3, <3>6, <3>7 DEF Follows, Tidy, k
  <2>5. CASE ~ lost
    <3>1. Leaves(b, a) /\ b.call[c].confId \notin b.confs /\ b.shown[c] = a.shown[c]
      <4>1. /\ participToConference(a, c) => b = leaveConference(a, c, a.current)
            /\ ~participToConference(a, c) => b \in {a, switchCall(a, None)}
        OBVIOUS
      <4> HIDE DEF b
      <4> QED
        BY <1>1, <2>2, <4>1, EndBegins
    <3> HIDE DEF b
    <3>2. Follows(b, a) /\ Tidy(b, a)
      BY <2>2, <3>1, LeavesFollows
    <3>3. Settled(b) /\ Typed(b) /\ b.shown \in [Calls -> Answers]
      BY <3>2, TypedFields DEF Follows, Settled, Sound
    <3>4. k = removeCall(removeWaitingCall(removeCallAccount(b, c), c), c)
      BY <1>2, <2>5
    <3>5. k = Gone(b, c, b.shown)
      BY <3>3, <3>4 DEF removeCallAccount, removeWaitingCall, removeCall, Gone,
                  SetEntries, Typed, ManagerStates
    <3>6. Follows(k, b) /\ Tidy(k, b)
      BY <1>1, <1>5, <2>1, <3>1, <3>3, <3>5, GoneFollows
    <3>7. Follows(b, n) /\ Tidy(b, n)
      BY <2>3, <3>2, FollowsTrans
    <3> QED
      BY <3>6, <3>7, FollowsTrans DEF k
  <2> QED
    BY <2>4, <2>5
<1> QED
  BY <1>6, <1>7

\* The REFER leaves the call as it is, but for its conference.
LEMMA TransferCallFollows ==
    ASSUME NEW n, Settled(n), NEW c \in Calls, c \notin n.waiting
    PROVE  LET k == transferCall(n, c) IN
           /\ Follows(k, n) /\ (Rung(n) => Rung(k))
           /\ c \in n.live => Tidy(k, n)
<1> DEFINE a == IF participToConference(n, c) THEN leaveConference(n, c, c)
                ELSE IF isConference(n, n.current) THEN n
                ELSE switchCall(n, None)
           lost == participToConference(n, c) /\ n.call[c].confId \notin n.confs
           k == transferCall(n, c)
<1>1. k = IF lost THEN abort(n)
          ELSE IF c \notin n.account THEN a
          ELSE IF c \notin a.live \/ c \in a.cutOff THEN abort(a)
          ELSE removeWaitingCall(a, c)
  BY DEF transferCall
<1>2. Leaves(a, n)
  <2>1. /\ participToConference(n, c) => a = leaveConference(n, c, c)
        /\ ~participToConference(n, c) => a \in {n, switchCall(n, None)}
    OBVIOUS
  <2> HIDE DEF a
  <2> QED
    BY <2>1, EndBegins
<1> HIDE DEF a, k
<1>3. Follows(a, n) /\ Tidy(a, n) /\ Settled(a) /\ Typed(a)
  <2>1. Follows(a, n) /\ Tidy(a, n)
    BY <1>2, LeavesFollows
  <2> QED
    BY <2>1 DEF Follows, Settled, Sound
<1>4. CASE k = abort(n) /\ (lost \/ c \notin n.live \/ c \in n.cutOff)
  <2>1. Follows(k, n) /\ (Rung(n) => Rung(k))
    BY <1>4, AccountOrProcessGoes
  <2>2. c \in n.live => ~ Kept(n)
    BY <1>4 DEF Kept, Named, participToConference
  <2> QED
    BY <2>1, <2>2 DEF Tidy, k
<1>5. CASE k = a
  BY <1>3, <1>5 DEF Tidy, k
<1>6. CASE k = abort(a) /\ (c \notin a.live \/ c \in a.cutOff)
  <2>1. Follows(k, a) /\ (Rung(a) => Rung(k))
    BY <1>3, <1>6, AccountOrProcessGoes
  <2>2. Follows(k, n) /\ (Rung(n) => Rung(k))
    BY <1>3, <2>1, FollowsTrans DEF Tidy
  <2>3. c \in n.live => ~ Kept(n)
    BY <1>2, <1>6 DEF Kept, Leaves
  <2> QED
    BY <2>2, <2>3 DEF Tidy, k
<1>7. CASE k = removeWaitingCall(a, c)
  <2>1. Steady(k, a) /\ Tells(k, a)
    <3>1. c \notin a.waiting
      BY <1>2 DEF Leaves
    <3> QED
      BY <1>3, <1>7, <3>1, RemoveWaitingCallSteady
  <2>2. Follows(k, a) /\ Tidy(k, a)
    BY <1>3, <2>1, SteadyFollows
  <2>3. Follows(k, n) /\ Tidy(k, n)
    BY <1>3, <2>2, FollowsTrans
  <2> QED
    BY <2>3 DEF Tidy, k
<1> QED
  BY <1>1, <1>4, <1>5, <1>6, <1>7

\* The peers that can be reached change.
LEMMA PeersReached ==
    ASSUME NEW n, Settled(n), NEW C \in SUBSET Calls
    PROVE  LET k == [n EXCEPT !.cutOff = C] IN
           /\ Settled(k) /\ k.waiting = n.waiting /\ k.shown = n.shown
           /\ C \subseteq n.cutOff => Follows(k, n) /\ Tidy(k, n)
<1> DEFINE k == [n EXCEPT !.cutOff = C]
<1>1. Typed(n)
  BY DEF Settled, Sound
<1>2. /\ k.live = n.live /\ k.confs = n.confs /\ k.account = n.account
      /\ k.cutOff = C /\ k.aborted = n.aborted /\ k.conf = n.conf
      /\ k.call = n.call /\ k.waiting = n.waiting /\ k.bound = n.bound
      /\ k.nbWaiting = n.nbWaiting /\ k.shown = n.shown
  BY <1>1 DEF Typed, ManagerStates
<1>3. Typed(k)
  BY <1>1 DEF Typed, ManagerStates
<1> HIDE DEF k
<1>4. Settled(k)
  BY <1>2, <1>3 DEF Settled, Sound, Fresh, Grouped, Forgotten, Separate, Begun, Alone
<1>5. C \subseteq n.cutOff /\ Kept(n) => Kept(k)
  BY <1>2 DEF Kept, Named
<1>6. (Honest(n) => Honest(k)) /\ (Rung(n) => Rung(k))
  BY <1>2 DEF Honest, Rung
<1> QED
  BY <1>2, <1>4, <1>5, <1>6 DEF Follows, Tidy, k

--------------------------------------------------------------------------------
(***************************************************************************)
(* The beginnings of calls.                                                *)
(***************************************************************************)

\* An id nobody uses.
Free(n, c) ==
    /\ c \notin n.account \cup n.live \cup n.waiting
    /\ \A f \in n.confs : c \notin n.conf[f].parts

\* What the begin of a call changes in its entries.
Begin(n, c, r, W, j, s) ==
    SetEntries(n, n.live \cup {c}, n.account \cup {c}, [n.call EXCEPT ![c] = r],
               W, j, [n.shown EXCEPT ![c] = s])

\* A call with an unused id begins, placed or coming in.
LEMMA CallBegins ==
    ASSUME NEW n, Settled(n), NEW c \in Calls, Free(n, c),
           NEW r \in CallRecords, r.confId \notin n.confs,
           r.type = "Outgoing" => r.state # "Inactive",
           NEW W \in SUBSET Calls, W = n.waiting \/ W = n.waiting \cup {c},
           NEW j, j = Cardinality(W), NEW s \in Answers,
           c \in W => /\ s = "INCOMING" /\ r.type = "Incoming" /\ r.conn = "Ringing"
                      /\ r.state = "Inactive" /\ r.confId = None
    PROVE  LET k == Begin(n, c, r, W, j, s)
           IN  /\ Settled(k) /\ k.waiting = W /\ k.shown = [n.shown EXCEPT ![c] = s]
               /\ k.live = n.live \cup {c} /\ k.account = n.account \cup {c}
               /\ k.call = [n.call EXCEPT ![c] = r] /\ k.conf = n.conf
               /\ k.confs = n.confs /\ k.cutOff = n.cutOff /\ k.aborted = n.aborted
<1> DEFINE h == [n.call EXCEPT ![c] = r]
           t == [n.shown EXCEPT ![c] = s]
           L == n.live \cup {c}
           A == n.account \cup {c}
           k == SetEntries(n, L, A, h, W, j, t)
<1>1. Typed(n) /\ n.call[c] = NewCall /\ NewCall.confId = None
  BY DEF Settled, Sound, Forgotten, Free, NewCall
<1>2. /\ n.call \in [Calls -> CallRecords] /\ n.shown \in [Calls -> Answers]
      /\ n.account \in SUBSET Calls /\ n.live \in SUBSET Calls
      /\ n.waiting \in SUBSET Calls /\ n.confs \in SUBSET Confs
      /\ IsFiniteSet(n.waiting) /\ None \notin n.confs
  BY <1>1, TypedFields, NamesAssumption
<1>3. h \in [Calls -> CallRecords] /\ h[c] = r /\ \A d \in Calls : d # c => h[d] = n.call[d]
  BY <1>2
<1>4. t \in [Calls -> Answers] /\ t[c] = s /\ \A d \in Calls : d # c => t[d] = n.shown[d]
  BY <1>2
<1> HIDE DEF h, t
<1>5. /\ k.account = n.account \cup {c} /\ k.live = n.live \cup {c} /\ k.confs = n.confs
      /\ k.cutOff = n.cutOff /\ k.aborted = n.aborted /\ k.conf = n.conf
      /\ k.call = h /\ k.waiting = W /\ k.bound = n.bound /\ k.nbWaiting = j
      /\ k.shown = t
  BY <1>1 DEF Typed, ManagerStates, SetEntries
<1>6. Typed(k)
  <2>1. L \in SUBSET Calls /\ A \in SUBSET Calls /\ W \in SUBSET Calls
    BY <1>2
  <2> HIDE DEF L, A
  <2> QED
    BY <1>1, <1>3, <1>4, <2>1, EntriesType
<1> HIDE DEF k
<1>7. Fresh(k)
  BY <1>2, <1>3, <1>4, <1>5 DEF Settled, Sound, Fresh
<1>8. Grouped(k)
  <2>1. \A f \in k.confs : k.conf[f].nb = Cardinality(k.conf[f].parts) /\ k.conf[f].nb >= 2
    BY <1>5 DEF Settled, Sound, Grouped
  <2>2. ASSUME NEW f \in k.confs, NEW d \in k.live
        PROVE  d \in k.conf[f].parts <=> k.call[d].confId = f
    <3>1. CASE d = c
      BY <1>3, <1>5, <3>1 DEF Free
    <3>2. CASE d # c
      BY <1>2, <1>3, <1>5, <3>2 DEF Settled, Sound, Grouped
    <3> QED
      BY <3>1, <3>2
  <2>3. ~Lag => \A f \in k.confs : k.conf[f].parts \subseteq k.live
    BY <1>5 DEF Settled, Sound, Grouped
  <2> QED
    BY <2>1, <2>2, <2>3 DEF Grouped
<1>9. Forgotten(k)
  BY <1>3, <1>5 DEF Settled, Sound, Forgotten
<1>10. Separate(k)
  BY <1>1, <1>2, <1>3, <1>5 DEF Settled, Sound, Separate
<1>11. Begun(k)
  BY <1>3, <1>5 DEF Settled, Sound, Begun
<1>12. Alone(k)
  BY <1>2, <1>3, <1>5 DEF Settled, Alone
<1>13. Settled(k)
  BY <1>6, <1>7, <1>8, <1>9, <1>10, <1>11, <1>12 DEF Settled, Sound
<1> QED
  BY <1>5, <1>13 DEF k, h, t, Begin

\* The daemon is told of a call: it waits until the user answers or refuses it.
LEMMA IncomingCallBegins ==
    ASSUME NEW n, Settled(n), NEW c \in Calls, Free(n, c)
    PROVE  LET k == incomingCall(n, c) IN
           /\ Settled(k) /\ k.waiting = n.waiting \cup {c}
           /\ k.shown = [n.shown EXCEPT ![c] = "INCOMING"]
           /\ k.aborted = n.aborted /\ (Kept(n) => Kept(k))
           /\ (Honest(n) => Honest(k)) /\ (Rung(n) => Rung(k))
<1> DEFINE r == [NewCall EXCEPT !.conn = "Ringing", !.invite = "received"]
           W == n.waiting \cup {c}
           j == n.nbWaiting + 1
           k == incomingCall(n, c)
<1>1. Typed(n) /\ c \notin n.waiting
  BY DEF Settled, Sound, Free
<1>2. n.shown \in [Calls -> Answers] /\ n.call \in [Calls -> CallRecords]
  BY <1>1, TypedFields
<1>3. /\ r \in CallRecords /\ r.confId = None /\ r.type = "Incoming"
      /\ r.conn = "Ringing" /\ r.state = "Inactive"
  BY DEF CallRecords, NewCall
<1>4. j = Cardinality(W)
  BY <1>1, TypedFields, FS_AddElement DEF Typed
<1>5. k = Begin(n, c, r, W, j, "INCOMING")
  BY <1>1 DEF Begin, incomingCall, addCall, callStateChanged, addWaitingCall, SetEntries,
              Typed, ManagerStates
<1>6. None \notin n.confs /\ W = n.waiting \cup {c} /\ W \in SUBSET Calls
  BY <1>1, TypedFields, NamesAssumption
<1> HIDE DEF j, r, W, k
<1>7. /\ Settled(k) /\ k.waiting = W /\ k.shown = [n.shown EXCEPT ![c] = "INCOMING"]
      /\ k.live = n.live \cup {c} /\ k.account = n.account \cup {c}
      /\ k.call = [n.call EXCEPT ![c] = r] /\ k.confs = n.confs
      /\ k.cutOff = n.cutOff /\ k.aborted = n.aborted
  <2>1. "INCOMING" \in Answers
    BY DEF Answers
  <2> QED
    BY <1>3, <1>4, <1>5, <1>6, <2>1, CallBegins
<1>8. (Kept(n) => Kept(k)) /\ (Honest(n) => Honest(k)) /\ (Rung(n) => Rung(k))
  <2>1. n.live \in SUBSET Calls
    BY <1>1, TypedFields
  <2> QED
    BY <1>2, <1>3, <1>7, <2>1 DEF Kept, Named, Honest, Rung, W
<1> QED
  BY <1>7, <1>8 DEF k, W

\* From n to k a call was begun with the id of conference or None.
Begins(k, n, c, confId, sent) ==
    /\ Settled(k)
    /\ k.waiting \subseteq n.waiting
    /\ k.confs = n.confs /\ k.cutOff = n.cutOff
    /\ ~Lag => k.aborted = n.aborted
    /\ k.live = IF sent THEN n.live \cup {c} ELSE n.live
    /\ k.account = IF sent THEN n.account \cup {c} ELSE n.account
    /\ \A d \in Calls \ {c} : Free(n, d) => Free(k, d)
    /\ \A d \in Calls : k.call[d].confId = IF sent /\ d = c THEN confId
                                           ELSE n.call[d].confId
    /\ n.account \subseteq n.live /\ Honest(n) => Honest(k)
    /\ Rung(n) => Rung(k)

\* A steady step leaves unused ids unused.
LEMMA SteadyFree ==
    ASSUME NEW n, Typed(n), NEW k, Steady(k, n), NEW c, Free(n, c)
    PROVE  Free(k, c)
<1>1. n.confs \subseteq Confs
  BY TypedFields
<1> QED
  BY <1>1 DEF Steady, Free

\* A steady step of which nothing is told begins no call.
LEMMA SteadyBegins ==
    ASSUME NEW n, Settled(n), NEW k, Steady(k, n), Tells(k, n), NEW c, NEW confId
    PROVE  Begins(k, n, c, confId, FALSE)
<1>1. Typed(n)
  BY DEF Settled, Sound
<1>2. Follows(k, n) /\ Tidy(k, n)
  BY SteadyFollows
<1>3. \A d \in Calls \ {c} : Free(n, d) => Free(k, d)
  BY <1>1, SteadyFree
<1>4. n.account \subseteq n.live /\ Honest(n) => Honest(k)
  BY DEF Steady, Honest, Tells
<1> QED
  BY <1>2, <1>3, <1>4 DEF Begins, Follows, Tidy, Steady

\* A call is placed: it exists if the INVITE could be sent.
LEMMA OutgoingCallBegins ==
    ASSUME NEW n, Settled(n), NEW c \in Calls, Free(n, c),
           NEW confId \in Confs \cup {None}, confId \notin n.confs, NEW sent \in BOOLEAN
    PROVE  Begins(outgoingCall(n, c, confId, sent), n, c, confId, sent)
<1> DEFINE l == leaveCurrent(n, c)
           a == [l EXCEPT !.account = @ \cup {c}, !.shown[c] = "DIALING"]
           r == [state |-> "Active", conn |-> "Progressing",
                 type |-> "Outgoing", confId |-> confId, invite |-> "other"]
           k == outgoingCall(n, c, confId, sent)
<1>1. Typed(n) /\ c \notin n.account
  BY DEF Settled, Sound, Free
<1>2. k = IF sent THEN switchCall(addCall(a, c, r), c) ELSE callFailure(a, c)
  BY <1>1 DEF outgoingCall
<1> HIDE DEF k
<1>3. Steady(l, n) /\ Tells(l, n)
  BY <1>1, LeaveCurrentSteady
<1> HIDE DEF l
<1>4. Settled(l) /\ Typed(l) /\ Free(l, c)
  BY <1>1, <1>3, SteadyFollows, SteadyFree DEF Follows, Settled, Sound
<1>5. l.confs = n.confs /\ l.account = n.account /\ l.live = n.live
  BY <1>3 DEF Steady
<1>6. l.shown \in [Calls -> Answers] /\ l.waiting \in SUBSET Calls /\ l.call \in [Calls -> CallRecords]
  BY <1>4, TypedFields
<1>7. CASE sent
  <2> DEFINE j == l.nbWaiting
             b == Begin(l, c, r, l.waiting, j, "DIALING")
  <2>1. /\ r \in CallRecords /\ r.confId = confId /\ r.type = "Outgoing"
        /\ r.state = "Active" /\ "DIALING" \in Answers
    BY DEF CallRecords, Answers
  <2>2. addCall(a, c, r) = b
    BY <1>4 DEF addCall, Begin, SetEntries, Typed, ManagerStates
  <2> HIDE DEF r
  <2>3. j = Cardinality(l.waiting) /\ c \notin l.waiting
    BY <1>4 DEF Typed, Free
  <2> HIDE DEF j
  <2>4. /\ Settled(b) /\ b.waiting = l.waiting /\ b.shown = [l.shown EXCEPT ![c] = "DIALING"]
        /\ b.live = l.live \cup {c} /\ b.account = l.account \cup {c}
        /\ b.call = [l.call EXCEPT ![c] = r] /\ b.conf = l.conf
        /\ b.confs = l.confs /\ b.cutOff = l.cutOff /\ b.aborted = l.aborted
    BY <1>4, <1>5, <1>6, <2>1, <2>3, CallBegins
  <2> HIDE DEF b, a
  <2>5. k = switchCall(b, c)
    BY <1>2, <1>7, <2>2
  <2>6. Typed(b) /\ c \in Calls \cup Confs \cup {None}
    BY <2>4 DEF Settled, Sound
  <2>7. Steady(k, b) /\ Tells(k, b) /\ k.shown = b.shown /\ k.waiting = b.waiting
    BY <2>5, <2>6, SwitchCallSteady
  <2>8. Settled(k)
    BY <2>4, <2>7, SteadyFollows DEF Follows
  <2>9. ASSUME NEW d \in Calls \ {c}, Free(n, d) PROVE Free(k, d)
    <3>1. Free(l, d)
      BY <1>1, <1>3, <2>9, SteadyFree
    <3>2. Free(b, d)
      BY <2>4, <3>1 DEF Free
    <3> QED
      BY <2>6, <2>7, <3>2, SteadyFree
  <2>10. \A d \in Calls : k.call[d].confId = IF d = c THEN confId ELSE n.call[d].confId
    <3>1. \A d \in Calls : k.call[d].confId = b.call[d].confId
      BY <2>7 DEF Steady
    <3>2. \A d \in Calls : l.call[d].confId = n.call[d].confId
      BY <1>3 DEF Steady
    <3> QED
      BY <1>6, <2>1, <2>4, <3>1, <3>2
  <2>11. n.account \subseteq n.live /\ Honest(n) => Honest(k)
    <3>1. n.account \subseteq n.live /\ Honest(n) => Honest(l)
      BY <1>3 DEF Steady, Honest, Tells
    <3>2. k.live = b.live
      BY <2>7 DEF Steady
    <3> QED
      BY <1>6, <2>4, <2>7, <3>1, <3>2 DEF Honest
  <2>12. Rung(n) => Rung(k)
    <3>1. Rung(n) => Rung(l)
      BY <1>3, SteadyFollows DEF Tidy
    <3> QED
      BY <1>6, <2>4, <2>7, <3>1 DEF Rung
  <2>13. /\ k.waiting \subseteq n.waiting
         /\ k.confs = n.confs /\ k.cutOff = n.cutOff
         /\ ~Lag => k.aborted = n.aborted
         /\ k.live = n.live \cup {c} /\ k.account = n.account \cup {c}
    BY <1>3, <2>4, <2>7 DEF Steady
  <2> QED
    BY <1>7, <2>8, <2>9, <2>10, <2>11, <2>12, <2>13 DEF Begins, k
<1>8. CASE ~sent
  <2> DEFINE q == IF l.current = c THEN switchCall(l, None) ELSE l
             e == callStateChanged(q, c, "FAILURE")
  <2>1. Steady(q, l) /\ Tells(q, l) /\ q.waiting = l.waiting
    BY <1>4, SteadyRefl, SwitchCallSteady
  <2>2. callFailure(a, c) = e
    <3> DEFINE x == IF a.current = c THEN switchCall(a, None) ELSE a
               y == callStateChanged(x, c, "FAILURE")
    <3>1. /\ x.live = l.live /\ x.account = l.account \cup {c} /\ x.waiting = l.waiting
          /\ x.shown = [l.shown EXCEPT ![c] = "DIALING"] /\ x = [q EXCEPT !.account = x.account, !.shown = x.shown]
      BY <1>4 DEF switchCall, Typed, ManagerStates
    <3>2. c \notin l.live /\ c \notin l.account /\ c \notin l.waiting
      BY <1>4 DEF Free
    <3>3. q \in ManagerStates /\ q.account = l.account /\ q.waiting = l.waiting /\ q.shown = l.shown
      BY <1>4 DEF switchCall, Typed, ManagerStates
    <3>4. callFailure(a, c) = removeWaitingCall(removeCallAccount(y, c), c)
      <4>1. y.live = l.live
        BY <3>1, <3>3 DEF callStateChanged, ManagerStates
      <4>2. ~ participToConference(y, c)
        BY <3>2, <4>1 DEF participToConference
      <4> HIDE DEF x
      <4> QED
        BY <4>2 DEF callFailure, x
    <3> HIDE DEF x, q
    <3>5. removeWaitingCall(removeCallAccount(y, c), c) = callStateChanged(q, c, "FAILURE")
      <4>1. (l.account \cup {c}) \ {c} = l.account /\ l.waiting \ {c} = l.waiting
        BY <3>2
      <4>2. [[l.shown EXCEPT ![c] = "DIALING"] EXCEPT ![c] = "FAILURE"]
              = [l.shown EXCEPT ![c] = "FAILURE"]
        BY <1>6
      <4>3. y = [q EXCEPT !.account = l.account \cup {c}, !.shown = [l.shown EXCEPT ![c] = "FAILURE"]]
        BY <3>1, <3>3, <4>2 DEF callStateChanged, ManagerStates
      <4> HIDE DEF y
      <4>4. removeCallAccount(y, c) = [q EXCEPT !.shown = [l.shown EXCEPT ![c] = "FAILURE"]]
        BY <3>3, <4>1, <4>3 DEF removeCallAccount, ManagerStates
      <4>5. removeCallAccount(y, c) = callStateChanged(q, c, "FAILURE")
        BY <3>3, <4>4 DEF callStateChanged, ManagerStates
      <4> DEFINE z == callStateChanged(q, c, "FAILURE")
      <4>6. z.waiting = l.waiting /\ z \in ManagerStates
        BY <3>3, <1>6 DEF callStateChanged, ManagerStates
      <4> HIDE DEF z
      <4>7. removeWaitingCall(z, c) = z
        BY <3>2, <4>1, <4>6 DEF removeWaitingCall, ManagerStates
      <4> QED
        BY <4>5, <4>7 DEF z
    <3> QED
      BY <3>4, <3>5
  <2> HIDE DEF q, a
  <2>3. Typed(q) /\ c \notin q.waiting
    BY <1>4, <2>1 DEF Steady, Free
  <2>4. Steady(e, q) /\ Tells(e, q)
    BY <2>3, CallStateChangedSteady DEF Answers
  <2> HIDE DEF e
  <2>5. Steady(e, l) /\ Tells(e, l)
    BY <1>4, <2>1, <2>4, SteadyTrans
  <2>6. Steady(e, n) /\ Tells(e, n)
    BY <1>1, <1>3, <2>5, SteadyTrans
  <2>7. Begins(e, n, c, confId, FALSE)
    BY <2>6, SteadyBegins
  <2> QED
    BY <1>2, <1>8, <2>2, <2>7 DEF k
<1> QED
  BY <1>7, <1>8

\* A call of its own is placed.
LEMMA OutgoingCallFollows ==
    ASSUME NEW n, Settled(n), NEW c \in Calls, Free(n, c), NEW sent \in BOOLEAN
    PROVE  LET k == outgoingCall(n, c, None, sent) IN Follows(k, n) /\ Tidy(k, n)
<1> DEFINE k == outgoingCall(n, c, None, sent)
<1>1. n.live \in SUBSET Calls /\ n.confs \in SUBSET Confs
  BY TypedFields DEF Settled, Sound
<1>2. None \notin n.confs
  BY <1>1, NamesAssumption
<1>3. Begins(k, n, c, None, sent)
  BY <1>2, OutgoingCallBegins
<1> HIDE DEF k
<1>4. Kept(n) => Kept(k)
  BY <1>1, <1>3 DEF Begins, Kept, Named
<1> QED
  BY <1>3, <1>4 DEF Begins, Follows, Tidy, Kept, k

\* The peer of a call that was placed rings or answers.
LEMMA PeerRespondsSteady ==
    ASSUME NEW n, Sound(n), NEW c \in n.live, n.call[c].type = "Outgoing"
    PROVE  /\ Steady(peerRingingCall(n, c), n) /\ Tells(peerRingingCall(n, c), n)
           /\ Steady(peerAnsweredCall(n, c), n) /\ Tells(peerAnsweredCall(n, c), n)
<1>1. Typed(n) /\ c \in Calls /\ c \notin n.waiting /\ n.call[c] \in CallRecords
  BY TypedFields DEF Sound, Fresh
<1>2. n.call[c].state # "Inactive"
  BY <1>1 DEF Sound, Begun
<1>3. ASSUME NEW r \in CallRecords, r.confId = n.call[c].confId,
             r.type = n.call[c].type, r.state # "Inactive",
             NEW a, a = [n EXCEPT !.call = [n.call EXCEPT ![c] = r]]
      PROVE  Steady(a, n) /\ Tells(a, n) /\ Sound(a) /\ Typed(a) /\ c \in a.live /\ c \notin a.waiting
  <2>1. Steady(a, n) /\ Tells(a, n)
    BY <1>1, <1>3, SetCallSteady
  <2> QED
    BY <1>1, <2>1, SteadySound DEF Steady
<1>4. Steady(peerRingingCall(n, c), n) /\ Tells(peerRingingCall(n, c), n)
  <2> DEFINE r == [n.call[c] EXCEPT !.conn = "Ringing"]
             a == [n EXCEPT !.call = [n.call EXCEPT ![c] = r]]
  <2>1. /\ r \in CallRecords /\ r.confId = n.call[c].confId
        /\ r.type = n.call[c].type /\ r.state # "Inactive"
    BY <1>1, <1>2 DEF CallRecords
  <2>2. peerRingingCall(n, c) = callStateChanged(a, c, "RINGING")
    BY <1>1 DEF peerRingingCall, Typed, ManagerStates
  <2> HIDE DEF r
  <2>3. Steady(a, n) /\ Tells(a, n) /\ Typed(a) /\ c \in a.live /\ c \notin a.waiting
    BY <1>3, <2>1
  <2> HIDE DEF a
  <2>4. LET k == callStateChanged(a, c, "RINGING") IN Steady(k, a) /\ Tells(k, a)
    BY <1>1, <2>3, CallStateChangedSteady DEF Answers
  <2> QED
    BY <1>1, <2>2, <2>3, <2>4, SteadyTrans
<1>5. Steady(peerAnsweredCall(n, c), n) /\ Tells(peerAnsweredCall(n, c), n)
  <2> DEFINE r == [n.call[c] EXCEPT !.conn = "Connected", !.state = "Active",
                                    !.invite = "none"]
             a == [n EXCEPT !.call = [n.call EXCEPT ![c] = r]]
             b == addStream(a, c)
             k == callStateChanged(b, c, "CURRENT")
  <2>1. /\ r \in CallRecords /\ r.confId = n.call[c].confId
        /\ r.type = n.call[c].type /\ r.state # "Inactive"
    BY <1>1, <1>2 DEF CallRecords
  <2>2. peerAnsweredCall(n, c) = IF n.call[c].conn = "Connected" THEN n ELSE k
    BY <1>1 DEF peerAnsweredCall, Typed, ManagerStates
  <2> HIDE DEF r
  <2>3. Steady(a, n) /\ Tells(a, n) /\ Sound(a) /\ Typed(a) /\ c \in a.live /\ c \notin a.waiting
    BY <1>3, <2>1
  <2> HIDE DEF a
  <2>4. Steady(b, a) /\ Tells(b, a)
    BY <1>1, <2>3, AddStreamSteady
  <2> HIDE DEF b
  <2>5. Typed(b) /\ c \in b.live /\ c \notin b.waiting
    BY <2>3, <2>4 DEF Steady
  <2>6. Steady(k, b) /\ Tells(k, b)
    BY <1>1, <2>5, CallStateChangedSteady DEF Answers
  <2> HIDE DEF k
  <2>7. Steady(b, n) /\ Tells(b, n)
    BY <1>1, <2>3, <2>4, SteadyTrans
  <2>8. Steady(k, n) /\ Tells(k, n)
    BY <1>1, <2>6, <2>7, SteadyTrans
  <2> QED
    BY <1>1, <2>2, <2>8, SteadyRefl
<1> QED
  BY <1>4, <1>5

--------------------------------------------------------------------------------
(***************************************************************************)
(* Entering a conference.                                                  *)
(***************************************************************************)

\* The fields that change when calls enter a conference, in one named update.
Enrol(n, f, q, h, B) ==
    [n EXCEPT !.confs = @ \cup {f}, !.conf = [n.conf EXCEPT ![f] = q],
              !.call = h, !.bound = B]

\* The calls C, which are in no conference and lose their streams, get into f,
\* and are with those already in it the two or more participants that q says.
Entering(n, f, C, q, h, B) ==
    /\ C \subseteq n.live /\ B \subseteq n.bound
    /\ q \in ConfRecords /\ h \in [Calls -> CallRecords]
    /\ \A c \in C : n.call[c].confId = None
    /\ \A c \in C : /\ h[c].confId = f
                    /\ h[c].state = n.call[c].state /\ h[c].conn = n.call[c].conn
                    /\ h[c].type = n.call[c].type
    /\ \A c \in Calls \ C : h[c] = n.call[c]
    /\ \A b \in B, c \in C : c \notin b
    /\ \A c \in n.live : c \in q.parts <=> h[c].confId = f
    /\ ~Lag => q.parts \subseteq n.live
    /\ q.nb = Cardinality(q.parts) /\ q.nb >= 2

\* The calls of a sound state that enter a conference leave it sound.
LEMMA CallsEnrol ==
    ASSUME NEW n, Sound(n), NEW f \in Confs, NEW C, NEW q, NEW h, NEW B,
           Entering(n, f, C, q, h, B)
    PROVE  LET k == Enrol(n, f, q, h, B) IN
           /\ Sound(k) /\ Typed(k)
           /\ k.account = n.account /\ k.live = n.live /\ k.confs = n.confs \cup {f}
           /\ k.cutOff = n.cutOff /\ k.aborted = n.aborted /\ k.call = h
           /\ k.waiting = n.waiting /\ k.shown = n.shown /\ k.current = n.current
           /\ k.conf[f] = q /\ k.bound = B
<1> DEFINE g == [n.conf EXCEPT ![f] = q]
           k == Enrol(n, f, q, h, B)
<1>1. Typed(n)
  BY DEF Sound
<1>1a. /\ C \in SUBSET n.live /\ B \in SUBSET n.bound
       /\ q \in ConfRecords /\ h \in [Calls -> CallRecords]
       /\ \A c \in C : n.call[c].confId = None
       /\ \A c \in C : h[c].confId = f
       /\ \A c \in C : /\ h[c].state = n.call[c].state /\ h[c].conn = n.call[c].conn
                       /\ h[c].type = n.call[c].type
       /\ \A c \in Calls \ C : h[c] = n.call[c]
       /\ \A b \in B, c \in C : c \notin b
       /\ \A c \in n.live : c \in q.parts <=> h[c].confId = f
       /\ ~Lag => q.parts \subseteq n.live
       /\ q.nb = Cardinality(q.parts) /\ q.nb >= 2
  BY DEF Entering
<1>2. /\ n.call \in [Calls -> CallRecords] /\ n.live \in SUBSET Calls
      /\ n.waiting \in SUBSET Calls /\ n.confs \in SUBSET Confs
      /\ n.conf \in [Confs -> ConfRecords] /\ n.bound \in SUBSET SUBSET Streams
      /\ None \notin Confs
  BY <1>1, TypedFields, NamesAssumption
<1>3. g \in [Confs -> ConfRecords] /\ g[f] = q /\ \A e \in Confs : e # f => g[e] = n.conf[e]
  BY <1>1a, <1>2
<1>4. k = [n EXCEPT !.confs = n.confs \cup {f}, !.conf = g, !.call = h, !.bound = B]
  BY <1>1a, <1>1 DEF Enrol, Typed, ManagerStates
<1> HIDE DEF g
<1>5. /\ k.account = n.account /\ k.live = n.live /\ k.confs = n.confs \cup {f}
      /\ k.cutOff = n.cutOff /\ k.aborted = n.aborted /\ k.conf = g
      /\ k.call = h /\ k.waiting = n.waiting /\ k.bound = B /\ k.nbWaiting = n.nbWaiting
      /\ k.shown = n.shown /\ k.current = n.current
  BY <1>1a, <1>1, <1>4 DEF Typed, ManagerStates
<1>6. Typed(k)
  <2> DEFINE F == n.confs \cup {f}
  <2>1. F \in SUBSET Confs /\ B \in SUBSET SUBSET Streams
    BY <1>1a, <1>2
  <2>2. k = [n EXCEPT !.confs = F, !.conf = g, !.call = h, !.bound = B]
    BY <1>1a, <1>4
  <2> HIDE DEF F, k
  <2>3. k \in ManagerStates
    BY <1>1a, <1>1, <1>3, <2>1, <2>2 DEF Typed, ManagerStates, ConfRecords, CallRecords, Streams
  <2> QED
    BY <1>1a, <1>1, <1>5, <2>3 DEF Typed
<1> HIDE DEF k
<1>7. Fresh(k)
  BY <1>1a, <1>2, <1>5 DEF Sound, Fresh
<1>8. Grouped(k)
  <2>1. \A e \in k.confs : k.conf[e].nb = Cardinality(k.conf[e].parts) /\ k.conf[e].nb >= 2
    BY <1>1a, <1>2, <1>3, <1>5 DEF Sound, Grouped
  <2>2. ASSUME NEW e \in k.confs, NEW c \in k.live
        PROVE  c \in k.conf[e].parts <=> k.call[c].confId = e
    <3>1. CASE e = f
      BY <1>1a, <1>3, <1>5, <3>1
    <3>2. CASE e # f
      <4>1. e \in n.confs /\ k.conf[e] = n.conf[e] /\ c \in n.live
        BY <1>1a, <1>2, <1>3, <1>5, <3>2
      <4>2. h[c].confId = e <=> n.call[c].confId = e
        BY <1>1a, <1>2, <1>5, <3>2, <4>1
      <4> QED
        BY <1>1a, <1>5, <4>1, <4>2 DEF Sound, Grouped
    <3> QED
      BY <3>1, <3>2
  <2>3. ~Lag => \A e \in k.confs : k.conf[e].parts \subseteq k.live
    BY <1>1a, <1>2, <1>3, <1>5 DEF Sound, Grouped
  <2> QED
    BY <1>1a, <2>1, <2>2, <2>3 DEF Grouped
<1>9. Forgotten(k)
  BY <1>1a, <1>3, <1>5 DEF Sound, Forgotten
<1>10. Separate(k)
  <2>1. ASSUME ~Lag, NEW c \in Calls, NEW d \in Calls, c # d, {c, d} \in k.bound
        PROVE  /\ k.call[c].confId = k.call[d].confId
               /\ k.call[c].confId \in k.confs
    <3>1. {c, d} \in n.bound /\ c \notin C /\ d \notin C
      BY <1>1a, <1>5, <2>1
    <3>2. k.call[c] = n.call[c] /\ k.call[d] = n.call[d]
      BY <1>1a, <1>5, <3>1
    <3> QED
      BY <1>1a, <1>5, <2>1, <3>1, <3>2 DEF Sound, Separate
  <2> QED
    BY <1>1a, <2>1 DEF Separate
<1>11. Begun(k)
  BY <1>1a, <1>2, <1>5 DEF Sound, Begun
<1> QED
  BY <1>1a, <1>3, <1>5, <1>6, <1>7, <1>8, <1>9, <1>10, <1>11 DEF Sound, k

\* What Conference::add makes of a conference.
Added(r, c) == [r EXCEPT !.parts = @ \cup {c}, !.nb = @ + 1]

\* It is a Conference with one more participant and the next count.
LEMMA MemberAdded ==
    ASSUME NEW n, Typed(n), NEW f \in Confs, NEW c \in Calls
    PROVE  LET q == Added(n.conf[f], c) IN
           /\ q \in ConfRecords /\ q.parts = n.conf[f].parts \cup {c}
           /\ q.nb = n.conf[f].nb + 1
           /\ confAdd(n, f, c) = [n EXCEPT !.conf = [n.conf EXCEPT ![f] = q]]
<1> DEFINE q == Added(n.conf[f], c)
<1>1. n.conf \in [Confs -> ConfRecords] /\ n.conf[f] \in ConfRecords
  BY TypedFields
<1>2. n.conf[f].parts \cup {c} \in SUBSET Calls /\ n.conf[f].nb + 1 \in Int
  BY <1>1 DEF ConfRecords
<1>3. ASSUME NEW P \in SUBSET Calls, NEW j \in Int,
             P = n.conf[f].parts \cup {c}, j = n.conf[f].nb + 1
      PROVE  q \in ConfRecords /\ q.parts = P /\ q.nb = j
  <2>1. q = WithMembers(n.conf[f], P, j)
    BY <1>3 DEF WithMembers, Added
  <2> HIDE DEF q
  <2> QED
    BY <1>1, <2>1, MembersType
<1>4. confAdd(n, f, c) = [n EXCEPT !.conf = [n.conf EXCEPT ![f] = q]]
  <2>1. q = [[n.conf[f] EXCEPT !.parts = @ \cup {c}] EXCEPT !.nb = n.conf[f].nb + 1]
    BY <1>1 DEF ConfRecords, Added
  <2> HIDE DEF q
  <2> QED
    BY <1>1, <2>1 DEF confAdd, Typed, ManagerStates
<1> HIDE DEF q
<1>5. q \in ConfRecords /\ q.parts = n.conf[f].parts \cup {c} /\ q.nb = n.conf[f].nb + 1
  BY <1>2, <1>3
<1> QED
  BY <1>4, <1>5 DEF q

\* What addParticipant does before the call enters: the user comes along.
Approached(n, c, f) ==
    LET x == IF n.current = c THEN n
             ELSE IF isConference(n, n.current) THEN detachMainParticipant(n)
             ELSE onHoldCall(n, n.current)
    IN  addMainParticipant(switchCall(x, None), f)

\* Nobody enters or leaves a conference by it.
LEMMA ApproachedSteady ==
    ASSUME NEW n, Typed(n), NEW c, NEW f \in Confs
    PROVE  LET k == Approached(n, c, f) IN Steady(k, n) /\ Tells(k, n)
<1> DEFINE x == IF n.current = c THEN n
                ELSE IF isConference(n, n.current) THEN detachMainParticipant(n)
                ELSE onHoldCall(n, n.current)
           y == switchCall(x, None)
           k == addMainParticipant(y, f)
<1>1. Steady(x, n) /\ Tells(x, n)
  BY TypedFields, SteadyRefl, DetachMainParticipantSteady, OnHoldCallSteady
<1> HIDE DEF x
<1>2. Typed(x) /\ None \in Calls \cup Confs \cup {None}
  BY <1>1 DEF Steady
<1>3. Steady(y, x) /\ Tells(y, x)
  BY <1>2, SwitchCallSteady
<1> HIDE DEF y
<1>4. Steady(y, n) /\ Tells(y, n) /\ Typed(y)
  <2>1. Typed(y)
    BY <1>3 DEF Steady
  <2> QED
    BY <1>1, <1>3, <2>1, SteadyTrans
<1>5. Steady(k, y) /\ Tells(k, y)
  BY <1>4, AddMainParticipantSteady
<1> HIDE DEF k
<1>6. Steady(k, n) /\ Tells(k, n)
  BY <1>4, <1>5, SteadyTrans
<1> QED
  BY <1>6 DEF Approached, k, y, x

\* The call that enters carries the conference's id and has no stream.
Enrolled(a, c, f) ==
    unBindAll(confAdd([a EXCEPT !.call[c].confId = f], f, c), c)

\* It changes nothing else, and the maps agree.
LEMMA ParticipantEnrols ==
    ASSUME NEW a, Sound(a), NEW c \in a.live, NEW f \in a.confs, a.call[c].confId = None
    PROVE  LET e == Enrolled(a, c, f) IN
           /\ Sound(e) /\ Typed(e)
           /\ e.account = a.account /\ e.live = a.live /\ e.confs = a.confs
           /\ e.cutOff = a.cutOff /\ e.aborted = a.aborted
           /\ e.waiting = a.waiting /\ e.shown = a.shown
           /\ e.call[c].confId = f
           /\ e.call[c].state = a.call[c].state /\ e.call[c].conn = a.call[c].conn
           /\ \A d \in Calls \ {c} : e.call[d] = a.call[d]
           /\ e.bound = {b \in a.bound : c \notin b}
<1> DEFINE q == Added(a.conf[f], c)
           h == [a.call EXCEPT ![c].confId = f]
           B == {b \in a.bound : c \notin b}
           e == Enrolled(a, c, f)
<1>1. Typed(a) /\ c \in Calls /\ f \in Confs
  BY TypedFields DEF Sound
<1>2. /\ a.call \in [Calls -> CallRecords] /\ a.call[c] \in CallRecords
      /\ a.live \in SUBSET Calls /\ None \notin Confs /\ c \in Calls /\ f \in Confs
  BY <1>1, TypedFields, NamesAssumption
<1>3. /\ q \in ConfRecords /\ q.parts = a.conf[f].parts \cup {c}
      /\ q.nb = a.conf[f].nb + 1
      /\ confAdd(a, f, c) = [a EXCEPT !.conf = [a.conf EXCEPT ![f] = q]]
  BY <1>1, MemberAdded
<1>4. e = Enrol(a, f, q, h, B)
  <2>1. confAdd([a EXCEPT !.call[c].confId = f], f, c)
          = [a EXCEPT !.conf = [a.conf EXCEPT ![f] = q], !.call = h]
    <3>1. confAdd([a EXCEPT !.call[c].confId = f], f, c)
            = [confAdd(a, f, c) EXCEPT !.call = h]
      BY <1>1 DEF confAdd, Typed, ManagerStates
    <3> HIDE DEF q, h
    <3> QED
      BY <1>1, <1>3, <3>1 DEF Typed, ManagerStates
  <2>2. a.confs \cup {f} = a.confs
    OBVIOUS
  <2> HIDE DEF q, h
  <2> QED
    BY <1>1, <2>1, <2>2 DEF Enrolled, unBindAll, Enrol, Typed, ManagerStates
<1>5. /\ h \in [Calls -> CallRecords] /\ h[c].confId = f
      /\ h[c].state = a.call[c].state /\ h[c].conn = a.call[c].conn
      /\ h[c].type = a.call[c].type
      /\ \A d \in Calls \ {c} : h[d] = a.call[d]
  BY <1>2 DEF CallRecords
<1> HIDE DEF q, h, e
<1>6. /\ q.nb = Cardinality(q.parts) /\ q.nb >= 2
      /\ \A d \in a.live : d \in q.parts <=> h[d].confId = f
      /\ ~Lag => q.parts \subseteq a.live
  <2>1. /\ a.conf[f].nb = Cardinality(a.conf[f].parts) /\ a.conf[f].nb >= 2
        /\ \A d \in a.live : d \in a.conf[f].parts <=> a.call[d].confId = f
        /\ ~Lag => a.conf[f].parts \subseteq a.live
    BY <1>1 DEF Sound, Grouped
  <2>2. c \notin a.conf[f].parts
    BY <1>2, <2>1
  <2>3. IsFiniteSet(a.conf[f].parts)
    <3>1. a.conf \in [Confs -> ConfRecords]
      BY <1>1, TypedFields
    <3>2. a.conf[f].parts \in SUBSET Calls
      BY <1>2, <3>1 DEF ConfRecords
    <3> QED
      BY <3>2, CallsAssumption, FS_Subset
  <2>4. Cardinality(q.parts) = Cardinality(a.conf[f].parts) + 1
    BY <1>3, <2>2, <2>3, FS_AddElement
  <2>5. Cardinality(a.conf[f].parts) \in Nat
    BY <2>3, FS_CardinalityType
  <2>6. q.nb = Cardinality(q.parts) /\ q.nb >= 2
    BY <1>3, <2>1, <2>4, <2>5
  <2>7. \A d \in a.live : d \in q.parts <=> h[d].confId = f
    BY <1>2, <1>3, <1>5, <2>1
  <2> QED
    BY <1>3, <2>1, <2>6, <2>7
<1>7. /\ Sound(e) /\ Typed(e)
      /\ e.account = a.account /\ e.live = a.live /\ e.confs = a.confs
      /\ e.cutOff = a.cutOff /\ e.aborted = a.aborted /\ e.call = h
      /\ e.waiting = a.waiting /\ e.shown = a.shown /\ e.bound = B
  <2> DEFINE C == {c}
  <2>1. /\ C \in SUBSET a.live /\ B \in SUBSET a.bound
        /\ \A d \in C : d = c
        /\ \A b \in B, d \in C : d \notin b
        /\ Calls \ C = Calls \ {c}
    OBVIOUS
  <2>2. a.confs \cup {f} = a.confs
    OBVIOUS
  <2> HIDE DEF C, B
  <2>3. Entering(a, f, C, q, h, B)
    BY <1>3, <1>5, <1>6, <2>1 DEF Entering
  <2>4. LET z == Enrol(a, f, q, h, B) IN
        /\ Sound(z) /\ Typed(z)
        /\ z.account = a.account /\ z.live = a.live /\ z.confs = a.confs \cup {f}
        /\ z.cutOff = a.cutOff /\ z.aborted = a.aborted /\ z.call = h
        /\ z.waiting = a.waiting /\ z.shown = a.shown /\ z.bound = B
    BY <1>1, <1>2, <2>3, CallsEnrol
  <2> QED
    BY <1>4, <2>2, <2>4
<1> QED
  BY <1>5, <1>7 DEF e

\* A call in no conference is added to one; if it waited, it is answered.
LEMMA AddParticipantFollows ==
    ASSUME NEW n, Settled(n), NEW c \in Calls, NEW f \in Confs, n.call[c].confId = None
    PROVE  LET k == addParticipant(n, c, f) IN
           /\ Follows(k, n) /\ Tidy(k, n)
           /\ k.confs = n.confs /\ k.live = n.live
           /\ \A d \in Calls : \/ k.call[d].confId = n.call[d].confId
                               \/ k.call[d].confId \in k.confs
<1> DEFINE a == Approached(n, c, f)
           e == Enrolled(a, c, f)
           s == getStateStr(e, c)
           l == enter(e, f, c, s, {"INCOMING"})
           k == addStream(l, c)
<1>1. Typed(n)
  BY DEF Settled, Sound
<1>2. addParticipant(n, c, f) = IF f \notin n.confs \/ c \notin n.live THEN n ELSE k
  BY DEF addParticipant, Approached, Enrolled
<1>3. Steady(a, n) /\ Tells(a, n)
  BY <1>1, ApproachedSteady
<1> HIDE DEF a
<1>4. Follows(a, n) /\ Tidy(a, n)
  BY <1>3, SteadyFollows
<1>5. Settled(a) /\ Sound(a) /\ Typed(a)
  BY <1>4 DEF Follows, Settled, Sound
<1>6. CASE f \notin n.confs \/ c \notin n.live
  BY <1>2, <1>6, FollowsRefl
<1>7. CASE f \in n.confs /\ c \in n.live
  <2>1. f \in a.confs /\ c \in a.live /\ a.call[c].confId = None
    BY <1>3, <1>7 DEF Steady
  <2>2. None \notin Confs /\ a.live \in SUBSET Calls
    BY <1>5, TypedFields, NamesAssumption
  <2>7. /\ Sound(e) /\ Typed(e)
        /\ e.account = a.account /\ e.live = a.live /\ e.confs = a.confs
        /\ e.cutOff = a.cutOff /\ e.aborted = a.aborted
        /\ e.waiting = a.waiting /\ e.shown = a.shown
        /\ e.call[c].confId = f /\ \A d \in Calls \ {c} : e.call[d] = a.call[d]
    BY <1>5, <2>1, ParticipantEnrols
  <2> HIDE DEF e
  <2>8. Steady(l, e) /\ Tells(l, e) /\ c \notin l.waiting
    <3>1. /\ s # "RINGING" /\ (c \in e.waiting => s = "INCOMING")
      BY <2>7, StateStrings
    <3> HIDE DEF s
    <3>2. /\ Steady(l, e) /\ Tells(l, e)
          /\ s \in {"INCOMING"} => c \notin l.waiting
      BY <2>1, <2>7, <3>1, EnterSteady
    <3> QED
      BY <3>1, <3>2 DEF Steady
  <2> HIDE DEF l
  <2>9. Sound(l) /\ Typed(l)
    BY <2>7, <2>8, SteadySound DEF Steady
  <2>10. Steady(k, l) /\ Tells(k, l)
    BY <2>9, AddStreamSteady
  <2> HIDE DEF k
  <2>11. Steady(k, e) /\ Tells(k, e)
    BY <2>7, <2>8, <2>10, SteadyTrans
  <2>12. c \notin k.waiting
    BY <2>8, <2>10 DEF Steady
  <2>13. Sound(k)
    BY <2>7, <2>11, SteadySound
  <2>14. Alone(k)
    <3>1. k.waiting \in SUBSET Calls
      BY <2>13, TypedFields DEF Sound
    <3>2. k.waiting \subseteq a.waiting
      BY <2>7, <2>11 DEF Steady
    <3>3. \A d \in Calls \ {c} : k.call[d].confId = a.call[d].confId
      BY <2>7, <2>11 DEF Steady
    <3> QED
      BY <1>5, <2>12, <3>1, <3>2, <3>3 DEF Settled, Alone
  <2>15. k.confs = n.confs /\ k.live = n.live
    BY <1>3, <2>7, <2>11 DEF Steady
  <2>16. \A d \in Calls : \/ k.call[d].confId = n.call[d].confId
                          \/ k.call[d].confId \in k.confs
    <3>1. \A d \in Calls : k.call[d].confId = IF d = c THEN f ELSE a.call[d].confId
      BY <2>7, <2>11 DEF Steady
    <3> QED
      BY <1>3, <1>7, <2>15, <3>1 DEF Steady
  <2>17. Follows(k, a) /\ Tidy(k, a)
    <3>1. k.waiting \subseteq a.waiting
      BY <2>7, <2>11 DEF Steady
    <3>2. Kept(a) => Kept(k)
      <4>1. k.live = a.live /\ k.account = a.account /\ k.cutOff = a.cutOff /\ k.confs = a.confs
        BY <2>7, <2>11 DEF Steady
      <4>2. \A d \in Calls : k.call[d].confId = IF d = c THEN f ELSE a.call[d].confId
        BY <2>7, <2>11 DEF Steady
      <4> QED
        BY <1>3, <2>1, <2>2, <4>1, <4>2 DEF Kept, Named
    <3>3. ~Lag => k.aborted = a.aborted
      BY <2>7, <2>11 DEF Steady
    <3>4. Tells(k, a)
      BY <2>7, <2>11 DEF Tells
    <3>5. /\ Kept(a) /\ Honest(a) => Honest(k)
          /\ Rung(a) => Rung(k)
      BY <2>7, <2>11, <3>4 DEF Steady, Kept, Honest, Tells, Rung
    <3> QED
      BY <2>13, <2>14, <3>1, <3>2, <3>3, <3>5 DEF Follows, Tidy, Settled
  <2>18. Follows(k, n) /\ Tidy(k, n)
    BY <1>4, <2>17, FollowsTrans
  <2> QED
    BY <1>2, <1>7, <2>15, <2>16, <2>18 DEF k
<1> QED
  BY <1>6, <1>7

\* Who enters a conference does not wait afterwards.
LEMMA EnterAnswers ==
    ASSUME NEW n, Sound(n), NEW f \in n.confs, NEW c \in n.live,
           n.call[c].confId = f, NEW s, c \in n.waiting => s = "INCOMING",
           NEW answered \in SUBSET {"INCOMING", "INACTIVE"}, "INCOMING" \in answered
    PROVE  LET k == enter(n, f, c, s, answered) IN
           /\ Steady(k, n) /\ Tells(k, n) /\ c \notin k.waiting
           /\ Sound(k) /\ Typed(k)
<1> DEFINE k == enter(n, f, c, s, answered)
<1>1. /\ Steady(k, n) /\ Tells(k, n)
      /\ s \in answered => c \notin k.waiting
  BY EnterSteady
<1> HIDE DEF k
<1>2. Sound(k) /\ Typed(k) /\ c \notin k.waiting
  BY <1>1, SteadySound DEF Steady
<1> QED
  BY <1>1, <1>2 DEF k

\* What joinParticipant makes of the two calls before they enter.
Paired(a, f, c, d) ==
    LET z == confAdd(confAdd([a EXCEPT !.confs = @ \cup {f}], f, c), f, d)
        y == [z EXCEPT !.call[c].confId = f, !.call[d].confId = f]
    IN  unBindAll(unBindAll(y, c), d)

\* They carry the new conference's id and have no streams.
LEMMA PairEnrols ==
    ASSUME NEW a, Sound(a), NEW c \in a.live, NEW d \in a.live, c # d,
           a.call[c].confId = None, a.call[d].confId = None,
           NEW f \in Confs, f \notin a.confs, \A x \in Calls : a.call[x].confId # f
    PROVE  LET e == Paired(a, f, c, d) IN
           /\ Sound(e) /\ Typed(e)
           /\ e.account = a.account /\ e.live = a.live /\ e.confs = a.confs \cup {f}
           /\ e.cutOff = a.cutOff /\ e.aborted = a.aborted
           /\ e.waiting = a.waiting /\ e.shown = a.shown
           /\ \A x \in {c, d} : /\ e.call[x].confId = f
                               /\ e.call[x].state = a.call[x].state
                               /\ e.call[x].conn = a.call[x].conn
           /\ \A x \in Calls \ {c, d} : e.call[x] = a.call[x]
           /\ e.bound = {b \in a.bound : c \notin b /\ d \notin b}
<1> DEFINE z == confAdd(confAdd([a EXCEPT !.confs = @ \cup {f}], f, c), f, d)
           y == [z EXCEPT !.call[c].confId = f, !.call[d].confId = f]
           e == unBindAll(unBindAll(y, c), d)
           p == Added(NewConference, c)
           q == Added(p, d)
           r == [a.call EXCEPT ![c].confId = f]
           h == [r EXCEPT ![d].confId = f]
           B == {b \in {b \in a.bound : c \notin b} : d \notin b}
<1>0. c \in Calls /\ d \in Calls /\ f \in Confs
  BY TypedFields DEF Sound
<1>1. Typed(a) /\ c \in Calls /\ d \in Calls
  BY <1>0 DEF Sound
<1>2. /\ a.call \in [Calls -> CallRecords] /\ a.call[c] \in CallRecords
      /\ a.call[d] \in CallRecords /\ a.live \in SUBSET Calls
      /\ a.conf \in [Confs -> ConfRecords] /\ None \notin Confs
      /\ a.confs \in SUBSET Confs
  BY <1>1, TypedFields, NamesAssumption
<1>3. a.conf[f] = NewConference /\ NewConference \in ConfRecords
  BY <1>1 DEF Sound, Forgotten, NewConference, ConfRecords
<1>4. /\ q \in ConfRecords /\ q.parts = {c, d} /\ q.nb = 2
      /\ z = [a EXCEPT !.confs = a.confs \cup {f}, !.conf = [a.conf EXCEPT ![f] = q]]
  <2> DEFINE a0 == [a EXCEPT !.confs = @ \cup {f}]
             a1 == confAdd(a0, f, c)
             g == [a.conf EXCEPT ![f] = p]
  <2>1. Typed(a0) /\ a0.conf = a.conf
    <3> DEFINE F == a.confs \cup {f}
    <3>1. F \in SUBSET Confs
      BY <1>2
    <3>2. a0 = [a EXCEPT !.confs = F]
      OBVIOUS
    <3> HIDE DEF F, a0
    <3> QED
      BY <1>1, <3>1, <3>2 DEF Typed, ManagerStates
  <2> HIDE DEF a0
  <2>2. /\ p \in ConfRecords /\ p.parts = NewConference.parts \cup {c}
        /\ p.nb = NewConference.nb + 1
        /\ a1 = [a0 EXCEPT !.conf = [a0.conf EXCEPT ![f] = Added(a0.conf[f], c)]]
    BY <1>0, <1>3, <2>1, MemberAdded
  <2>3. p.parts = {c} /\ p.nb = 1
    BY <2>2 DEF NewConference
  <2>4. a1 = [a0 EXCEPT !.conf = g]
    BY <1>3, <2>1, <2>2
  <2> HIDE DEF p, a1
  <2>5. g \in [Confs -> ConfRecords] /\ g[f] = p
    BY <1>2, <2>2
  <2> HIDE DEF g
  <2>6. Typed(a1) /\ a1.conf = g
    BY <2>1, <2>4, <2>5 DEF Typed, ManagerStates, ConfRecords
  <2>7. /\ q \in ConfRecords /\ q.parts = p.parts \cup {d} /\ q.nb = p.nb + 1
        /\ confAdd(a1, f, d) = [a1 EXCEPT !.conf = [a1.conf EXCEPT ![f] = q]]
    <3>1. LET x == Added(a1.conf[f], d) IN
          /\ x \in ConfRecords /\ x.parts = a1.conf[f].parts \cup {d}
          /\ x.nb = a1.conf[f].nb + 1
          /\ confAdd(a1, f, d) = [a1 EXCEPT !.conf = [a1.conf EXCEPT ![f] = x]]
      BY <1>0, <2>6, MemberAdded
    <3>2. a1.conf[f] = p
      BY <2>5, <2>6
    <3> QED
      BY <3>1, <3>2
  <2> HIDE DEF q
  <2>8. q.parts = {c, d} /\ q.nb = 2
    BY <2>3, <2>7
  <2>9. [g EXCEPT ![f] = q] = [a.conf EXCEPT ![f] = q]
    BY <1>2 DEF g
  <2>10. z = [a1 EXCEPT !.conf = [a.conf EXCEPT ![f] = q]]
    BY <2>6, <2>7, <2>9 DEF a1, a0
  <2>11. [a1 EXCEPT !.conf = [a.conf EXCEPT ![f] = q]]
           = [a0 EXCEPT !.conf = [a.conf EXCEPT ![f] = q]]
    BY <2>1, <2>4 DEF Typed, ManagerStates
  <2> HIDE DEF z
  <2>12. z = [a EXCEPT !.confs = a.confs \cup {f}, !.conf = [a.conf EXCEPT ![f] = q]]
    BY <1>1, <2>10, <2>11 DEF a0, Typed, ManagerStates
  <2> QED
    BY <2>7, <2>8, <2>12
<1> HIDE DEF q, z
<1>5. e = Enrol(a, f, q, h, B)
  <2>1. z.call = a.call /\ z.bound = a.bound
    BY <1>1, <1>4 DEF Typed, ManagerStates
  <2>2. y = [z EXCEPT !.call = h]
    BY <1>1, <1>4, <2>1 DEF Typed, ManagerStates
  <2> HIDE DEF h, y
  <2>3. y = [a EXCEPT !.confs = a.confs \cup {f}, !.conf = [a.conf EXCEPT ![f] = q], !.call = h]
    BY <1>1, <1>4, <2>2 DEF Typed, ManagerStates
  <2>4. unBindAll(y, c) = [a EXCEPT !.confs = a.confs \cup {f}, !.conf = [a.conf EXCEPT ![f] = q],
                                    !.call = h, !.bound = {b \in a.bound : c \notin b}]
    BY <1>1, <2>3 DEF unBindAll, Typed, ManagerStates
  <2>5. e = [a EXCEPT !.confs = a.confs \cup {f}, !.conf = [a.conf EXCEPT ![f] = q],
                      !.call = h, !.bound = B]
    BY <1>1, <2>4 DEF unBindAll, Typed, ManagerStates
  <2> QED
    BY <1>1, <2>5 DEF Enrol, Typed, ManagerStates
<1>6. /\ h \in [Calls -> CallRecords]
      /\ \A x \in {c, d} : /\ h[x].confId = f
                           /\ h[x].state = a.call[x].state /\ h[x].conn = a.call[x].conn
                           /\ h[x].type = a.call[x].type
      /\ \A x \in Calls \ {c, d} : h[x] = a.call[x]
  <2>1. r \in [Calls -> CallRecords] /\ r[c].confId = f
        /\ r[c].state = a.call[c].state /\ r[c].conn = a.call[c].conn
        /\ r[c].type = a.call[c].type
        /\ \A x \in Calls \ {c} : r[x] = a.call[x]
    BY <1>2 DEF CallRecords
  <2> HIDE DEF r
  <2>2. h \in [Calls -> CallRecords] /\ h[d].confId = f
        /\ h[d].state = r[d].state /\ h[d].conn = r[d].conn
        /\ h[d].type = r[d].type
        /\ \A x \in Calls \ {d} : h[x] = r[x]
    BY <1>1, <2>1 DEF CallRecords
  <2> HIDE DEF h
  <2> QED
    BY <1>1, <2>1, <2>2
<1> HIDE DEF h, e
<1>7. Entering(a, f, {c, d}, q, h, B)
  <2>1. {c, d} \subseteq a.live /\ B \subseteq a.bound
    OBVIOUS
  <2>2. \A b \in B, x \in {c, d} : x \notin b
    OBVIOUS
  <2>3. Cardinality({c, d}) = 2
    <3>1. IsFiniteSet({d}) /\ Cardinality({d}) = 1
      BY FS_Singleton
    <3>2. {c, d} = {d} \cup {c} /\ c \notin {d}
      OBVIOUS
    <3>3. Cardinality({d} \cup {c}) = Cardinality({d}) + 1
      BY <3>1, <3>2, FS_AddElement
    <3> QED
      BY <3>1, <3>2, <3>3
  <2>4. \A x \in a.live : x \in {c, d} <=> h[x].confId = f
    BY <1>2, <1>6
  <2> HIDE DEF B
  <2> QED
    BY <1>4, <1>6, <2>1, <2>2, <2>3, <2>4 DEF Entering
<1>8. /\ Sound(e) /\ Typed(e)
      /\ e.account = a.account /\ e.live = a.live /\ e.confs = a.confs \cup {f}
      /\ e.cutOff = a.cutOff /\ e.aborted = a.aborted /\ e.call = h
      /\ e.waiting = a.waiting /\ e.shown = a.shown /\ e.bound = B
  <2>1. LET x == Enrol(a, f, q, h, B) IN
        /\ Sound(x) /\ Typed(x)
        /\ x.account = a.account /\ x.live = a.live /\ x.confs = a.confs \cup {f}
        /\ x.cutOff = a.cutOff /\ x.aborted = a.aborted /\ x.call = h
        /\ x.waiting = a.waiting /\ x.shown = a.shown /\ x.bound = B
    <3> DEFINE C == {c, d}
    <3>1. Entering(a, f, C, q, h, B)
      BY <1>7
    <3> HIDE DEF C, B
    <3> QED
      BY <1>1, <3>1, CallsEnrol
  <2> QED
    BY <1>5, <2>1
<1>9. B = {b \in a.bound : c \notin b /\ d \notin b}
  OBVIOUS
<1> HIDE DEF B
<1> QED
  BY <1>6, <1>8, <1>9 DEF Paired, e, y, z

\* Two calls in no conference make a new one.
LEMMA JoinParticipantFollows ==
    ASSUME NEW n, Settled(n), NEW f \in Confs, NEW c \in Calls, NEW d \in Calls, c # d,
           n.call[c].confId = None, n.call[d].confId = None,
           f \notin n.confs, \A x \in Calls : n.call[x].confId # f
    PROVE  LET k == joinParticipant(n, f, c, d) IN
           /\ Follows(k, n) /\ (Rung(n) => Rung(k))
           /\ {c, d} \subseteq n.live => Tidy(k, n)
<1> DEFINE a == IF n.current \in {c, d} THEN n
                ELSE IF isConference(n, n.current) THEN detachMainParticipant(n)
                ELSE onHoldCall(n, n.current)
           e == Paired(a, f, c, d)
           answered == {"INCOMING", "INACTIVE"}
           s == getStateStr(n, c)
           t == getStateStr(n, d)
           u == enter(e, f, c, s, answered)
           v == enter(u, f, d, t, answered)
           w == switchCall(v, f)
           l == [w EXCEPT !.conf[f].state = "ACTIVE_ATTACHED"]
<1>1. Typed(n) /\ n.current \in Calls \cup Confs \cup {None}
  BY TypedFields DEF Settled, Sound
<1>2. joinParticipant(n, f, c, d) = IF {c, d} \subseteq n.live THEN l ELSE abort(n)
  BY DEF joinParticipant, Paired
<1>3. Steady(a, n) /\ Tells(a, n)
  BY <1>1, SteadyRefl, DetachMainParticipantSteady, OnHoldCallSteady
<1> HIDE DEF a
<1>4. Follows(a, n) /\ Tidy(a, n)
  BY <1>3, SteadyFollows
<1>5. Settled(a) /\ Sound(a) /\ Typed(a)
  BY <1>4 DEF Follows, Settled, Sound
<1>6. CASE ~ ({c, d} \subseteq n.live)
  BY <1>2, <1>6, AccountOrProcessGoes
<1>7. CASE {c, d} \subseteq n.live
  <2>1. /\ f \notin a.confs /\ c \in a.live /\ d \in a.live
        /\ a.call[c].confId = None /\ a.call[d].confId = None
        /\ \A x \in Calls : a.call[x].confId # f
    BY <1>3, <1>7 DEF Steady
  <2>2. a.live \in SUBSET Calls
    BY <1>5, TypedFields
  <2>8. /\ Sound(e) /\ Typed(e)
        /\ e.account = a.account /\ e.live = a.live /\ e.confs = a.confs \cup {f}
        /\ e.cutOff = a.cutOff /\ e.aborted = a.aborted
        /\ e.waiting = a.waiting /\ e.shown = a.shown
        /\ e.call[c].confId = f /\ e.call[d].confId = f
        /\ \A x \in Calls \ {c, d} : e.call[x] = a.call[x]
    BY <1>5, <2>1, PairEnrols
  <2> HIDE DEF e
  <2>9. /\ c \in n.waiting => s = "INCOMING"
        /\ d \in n.waiting => t = "INCOMING"
        /\ e.waiting \subseteq n.waiting
    <3>1. e.waiting \subseteq n.waiting
      BY <1>3, <2>8 DEF Steady
    <3>2. Sound(n)
      BY DEF Settled
    <3> QED
      BY <3>1, <3>2, StateStrings
  <2> HIDE DEF s, t
  <2>10. /\ Steady(u, e) /\ Tells(u, e) /\ c \notin u.waiting /\ Sound(u) /\ Typed(u)
    BY <2>1, <2>8, <2>9, EnterAnswers
  <2> HIDE DEF u
  <2>11. /\ Steady(v, u) /\ Tells(v, u) /\ d \notin v.waiting /\ Sound(v) /\ Typed(v)
    <3>1. u.confs = e.confs /\ u.live = e.live /\ u.call[d].confId = e.call[d].confId
          /\ u.waiting \subseteq e.waiting
      BY <2>10 DEF Steady
    <3> QED
      BY <2>1, <2>8, <2>9, <2>10, <3>1, EnterAnswers
  <2> HIDE DEF v
  <2>12. Steady(w, v) /\ Tells(w, v) /\ Typed(w) /\ f \in w.confs
    <3>1. Steady(w, v) /\ Tells(w, v)
      BY <2>11, SwitchCallSteady
    <3>2. f \in v.confs
      BY <2>8, <2>10, <2>11 DEF Steady
    <3> HIDE DEF w
    <3> QED
      BY <3>1, <3>2 DEF Steady
  <2> HIDE DEF w
  <2>13. Steady(l, w) /\ Tells(l, w)
    BY <2>12, ConferenceStateSteady
  <2> HIDE DEF l
  <2>14. Steady(l, e) /\ Tells(l, e)
    <3>1. Steady(v, e) /\ Tells(v, e)
      BY <2>8, <2>10, <2>11, SteadyTrans
    <3>2. Steady(w, e) /\ Tells(w, e)
      BY <2>8, <2>12, <3>1, SteadyTrans
    <3> QED
      BY <2>8, <2>13, <3>2, SteadyTrans
  <2>15. Sound(l)
    BY <2>8, <2>14, SteadySound
  <2>16. /\ l.waiting \subseteq a.waiting /\ c \notin l.waiting /\ d \notin l.waiting
         /\ l.live = a.live /\ l.account = a.account /\ l.cutOff = a.cutOff
         /\ l.confs = a.confs \cup {f} /\ (~Lag => l.aborted = a.aborted)
         /\ \A x \in Calls : l.call[x].confId = e.call[x].confId
    BY <2>8, <2>10, <2>11, <2>12, <2>13, <2>14 DEF Steady
  <2>17. Alone(l)
    <3>1. a.waiting \in SUBSET Calls
      BY <1>5, TypedFields
    <3> QED
      BY <1>5, <2>8, <2>16, <3>1 DEF Settled, Alone
  <2>18. Kept(a) => Kept(l)
    <3>1. ASSUME Kept(a), NEW x \in l.live PROVE l.call[x].confId \in {None} \cup l.confs
      <4>1. x \in a.live /\ x \in Calls /\ a.call[x].confId \in {None} \cup a.confs
        BY <2>2, <2>16, <3>1 DEF Kept, Named
      <4> QED
        BY <2>8, <2>16, <4>1
    <3> QED
      BY <2>16, <3>1 DEF Kept, Named
  <2>19. /\ Kept(a) /\ Honest(a) => Honest(l)
         /\ Rung(a) => Rung(l)
    <3>1. Tells(l, a)
      BY <2>8, <2>14 DEF Tells
    <3> QED
      BY <2>16, <3>1 DEF Kept, Honest, Tells, Rung
  <2>20. Follows(l, a) /\ Tidy(l, a)
    BY <2>15, <2>16, <2>17, <2>18, <2>19 DEF Follows, Tidy, Settled
  <2>21. Follows(l, n) /\ Tidy(l, n)
    BY <1>4, <2>20, FollowsTrans
  <2> QED
    BY <1>2, <1>7, <2>21 DEF Tidy
<1> QED
  BY <1>6, <1>7

--------------------------------------------------------------------------------
(***************************************************************************)
(* The loops over the participants of a conference.                        *)
(***************************************************************************)

\* Induction over a finite set: what holds of a subset when it holds of all that
\* lack one of its members, holds of all subsets.
LEMMA SubsetInduction ==
    ASSUME NEW S, IsFiniteSet(S), NEW T \in SUBSET SUBSET S,
           \A s \in SUBSET S : (\A x \in s : s \ {x} \in T) => s \in T
    PROVE  T = SUBSET S
<1> DEFINE R == StrictSubsetOrdering(S)
           Bad == (SUBSET S) \ T
<1>1. IsWellFoundedOn(R, SUBSET S)
  BY FS_StrictSubsetOrderingWellFounded, FS_FiniteSubsetsOfFinite
<1>2. SUFFICES ASSUME Bad # {} PROVE FALSE
  OBVIOUS
<1> HIDE DEF R
<1>3. PICK s \in Bad : \A t \in Bad : ~ (<<t, s>> \in R)
  <2>1. Bad \subseteq SUBSET S
    OBVIOUS
  <2> HIDE DEF Bad
  <2> QED
    BY <1>1, <1>2, <2>1, WFMin
<1>4. PICK x \in s : s \ {x} \notin T
  BY <1>3
<1>5. s \ {x} \in Bad
  BY <1>3, <1>4
<1>6. <<s \ {x}, s>> \in R
  BY <1>3, <1>4 DEF R, StrictSubsetOrdering
<1> QED
  BY <1>3, <1>5, <1>6

\* The greatest member of a finite set is one of its members.
LEMMA MaxIsMember ==
    ASSUME NEW S \in SUBSET Nat, IsFiniteSet(S), S # {}
    PROVE  Max(S) \in S /\ \A x \in S : x <= Max(S)
<1> DEFINE T == {s \in SUBSET S : s # {} => \E x \in s : \A y \in s : x >= y}
<1>1. ASSUME NEW s \in SUBSET S, \A x \in s : s \ {x} \in T
      PROVE  s \in T
  <2>1. SUFFICES ASSUME NEW x \in s PROVE \E z \in s : \A y \in s : z >= y
    OBVIOUS
  <2>2. CASE s \ {x} = {}
    BY <2>2
  <2>3. CASE s \ {x} # {}
    <3>1. PICK z \in s \ {x} : \A y \in s \ {x} : z >= y
      BY <1>1, <2>3
    <3>2. x \in Nat /\ z \in Nat /\ \A y \in s : y \in Nat
      OBVIOUS
    <3> HIDE DEF T
    <3> QED
      BY <3>1, <3>2
  <2> QED
    BY <2>2, <2>3
<1>2. T = SUBSET S
  <2>1. T \in SUBSET SUBSET S
    OBVIOUS
  <2> HIDE DEF T
  <2> QED
    BY <1>1, <2>1, SubsetInduction
<1>3. \E x \in S : \A y \in S : x >= y
  BY <1>2
<1> QED
  BY <1>3 DEF Max

\* What one round makes of a state of M for a member of C, as a function.
RoundsOf(G, C, M) == G \in [C \X M -> M]

\* The states F of a loop from n on, by the members of C that have been done.
LoopOf(F, G, C, M, n) ==
    /\ F \in [SUBSET C -> M]
    /\ \A s \in SUBSET C :
          F[s] = IF s = {} THEN n ELSE G[<<Max(s), F[s \ {Max(s)}]>>]

\* A loop over a set of ids is a function on its subsets: what the loop makes of
\* the state when it has done the members of the subset, the greatest last.
LEMMA LoopExists ==
    ASSUME NEW C \in SUBSET Nat, IsFiniteSet(C), NEW M, NEW n \in M,
           NEW G, RoundsOf(G, C, M)
    PROVE  \E F : LoopOf(F, G, C, M, n)
<1> DEFINE eq(F, D) == \A s \in SUBSET D : 
                  F[s] = IF s = {} THEN n ELSE G[<<Max(s), F[s \ {Max(s)}]>>]
           T == {D \in SUBSET C : \E F \in [SUBSET D -> M] : eq(F, D)}
<1>0. G \in [C \X M -> M]
  BY DEF RoundsOf
<1>1. ASSUME NEW D \in SUBSET C, \A x \in D : D \ {x} \in T
      PROVE  D \in T
  <2>1. CASE D = {}
    <3> DEFINE F == [s \in SUBSET D |-> n]
    <3>1. F \in [SUBSET D -> M] /\ eq(F, D)
      BY <2>1
    <3> QED
      BY <3>1
  <2>2. CASE D # {}
    <3> DEFINE x == Max(D)
    <3>0. IsFiniteSet(D)
      BY FS_Subset
    <3>1. x \in D /\ \A y \in D : y <= x
      BY <2>2, <3>0, MaxIsMember
    <3>2. PICK F \in [SUBSET (D \ {x}) -> M] : eq(F, D \ {x})
      BY <1>1, <3>1
    <3> DEFINE F2 == [s \in SUBSET D |-> IF x \in s THEN G[<<x, F[s \ {x}]>>] ELSE F[s]]
    <3>3. F2 \in [SUBSET D -> M]
      <4>1. ASSUME NEW s \in SUBSET D, x \in s PROVE G[<<x, F[s \ {x}]>>] \in M
        <5>1. F[s \ {x}] \in M
          BY <3>2
        <5> QED
          BY <1>0, <5>1, <3>1
      <4>2. ASSUME NEW s \in SUBSET D, x \notin s PROVE F[s] \in M
        BY <4>2, <3>2
      <4> QED
        BY <4>1, <4>2
    <3>4. ASSUME NEW s \in SUBSET D
          PROVE F2[s] = IF s = {} THEN n ELSE G[<<Max(s), F2[s \ {Max(s)}]>>]
      <4>1. CASE x \in s
        <5>1. IsFiniteSet(s) /\ s \in SUBSET Nat
          BY FS_Subset
        <5>2. Max(s) = x
          <6>1. Max(s) \in s /\ \A y \in s : y <= Max(s)
            BY <5>1, <4>1, MaxIsMember
          <6>2. Max(s) <= x /\ x <= Max(s) /\ Max(s) \in Nat /\ x \in Nat
            BY <6>1, <3>1, <4>1
          <6> QED
            BY <6>2
        <5> HIDE DEF x
        <5>3. F2[s] = G[<<x, F[s \ {x}]>>] /\ F2[s \ {x}] = F[s \ {x}]
          BY <4>1
        <5> QED
          BY <5>2, <5>3, <4>1
      <4>2. CASE x \notin s
        <5>1. CASE s = {}
          BY <5>1, <3>2
        <5>2. CASE s # {}
          <6>1. IsFiniteSet(s) /\ s \in SUBSET Nat
            BY FS_Subset
          <6>2. Max(s) \in s
            BY <6>1, <5>2, MaxIsMember
          <6> HIDE DEF x
          <6>3. F2[s] = F[s] /\ F2[s \ {Max(s)}] = F[s \ {Max(s)}]
            BY <4>2, <6>2
          <6>4. F[s] = G[<<Max(s), F[s \ {Max(s)}]>>]
            BY <3>2, <5>2, <4>2
          <6> QED
            BY <6>3, <6>4, <5>2
        <5> QED
          BY <5>1, <5>2
      <4> QED
        BY <4>1, <4>2
    <3> HIDE DEF F2
    <3> QED
      BY <3>3, <3>4
  <2> QED
    BY <2>1, <2>2
<1>2. T = SUBSET C
  <2>1. T \in SUBSET SUBSET C
    OBVIOUS
  <2> HIDE DEF T
  <2> QED
    BY <1>1, <2>1, SubsetInduction
<1>3. PICK F \in [SUBSET C -> M] : eq(F, C)
  BY <1>2
<1> QED
  BY <1>3 DEF LoopOf

\* What each round of a loop keeps, P of the members done, holds at its end.
LEMMA LoopKeeps ==
    ASSUME NEW C \in SUBSET Nat, IsFiniteSet(C), NEW P, NEW F,
           F[{}] \in P[{}],
           \A s \in SUBSET C : s # {} /\ F[s \ {Max(s)}] \in P[s \ {Max(s)}] => F[s] \in P[s]
    PROVE  \A s \in SUBSET C : F[s] \in P[s]
<1> DEFINE T == {s \in SUBSET C : F[s] \in P[s]}
<1>1. ASSUME NEW s \in SUBSET C, \A x \in s : s \ {x} \in T
      PROVE  s \in T
  <2>1. CASE s = {}
    BY <2>1
  <2>2. CASE s # {}
    <3>1. IsFiniteSet(s) /\ s \in SUBSET Nat
      BY FS_Subset
    <3>2. Max(s) \in s
      BY <2>2, <3>1, MaxIsMember
    <3> QED
      BY <1>1, <2>2, <3>2
  <2> QED
    BY <2>1, <2>2
<1>2. T = SUBSET C
  <2>1. T \in SUBSET SUBSET C
    OBVIOUS
  <2> HIDE DEF T
  <2> QED
    BY <1>1, <2>1, SubsetInduction
<1> QED
  BY <1>2

\* The loop of hangupConference.
HangUpAll(n, C) == ForEach(hangupCall, n, C)

\* The loop of unHoldConference.
OffHoldAll(n, C) == ForEach(offHoldCall, n, C)

\* The loop of holdConference.
HoldAll(n, C) ==
    LET hold(k, c) == onHoldCall(switchCall(k, c), c) IN ForEach(hold, n, C)

\* The loop of joinConference.
MoveAll(n, C, g) ==
    LET move(k, c) == addParticipant(detachParticipant(k, c), c, g)
    IN  ForEach(move, n, C)

\* What hanging up each call keeps, the loop of hangupConference keeps.
LEMMA HangUpLoop ==
    ASSUME NEW M, NEW n \in M, NEW C \in SUBSET Calls,
           \A k \in M, c \in C : hangupCall(k, c) \in M
    PROVE  HangUpAll(n, C) \in M
<1> DEFINE G == [p \in C \X M |-> hangupCall(p[2], p[1])]
           Eq(F) == F = [s \in SUBSET C |-> IF s = {} THEN n
                                             ELSE hangupCall(F[s \ {Max(s)}], Max(s))]
           it == CHOOSE F : Eq(F)
           P == [s \in SUBSET C |-> M]
<1>1. C \in SUBSET Nat /\ IsFiniteSet(C)
  BY CallsAssumption, FS_Subset
<1>2. ASSUME NEW s \in SUBSET C, s # {}
      PROVE  Max(s) \in C
  BY <1>1, <1>2, FS_Subset, MaxIsMember
<1>3. PICK F : LoopOf(F, G, C, M, n)
  <2>1. RoundsOf(G, C, M)
    BY DEF RoundsOf
  <2> HIDE DEF G
  <2> QED
    BY <1>1, <2>1, LoopExists
<1>4. Eq(F)
  <2>1. ASSUME NEW s \in SUBSET C, s # {}
        PROVE  F[s] = hangupCall(F[s \ {Max(s)}], Max(s))
    <3>1. F[s \ {Max(s)}] \in M /\ Max(s) \in C
      BY <1>2, <1>3, <2>1 DEF LoopOf
    <3> QED
      BY <1>3, <2>1, <3>1 DEF LoopOf
  <2> QED
    BY <1>3, <2>1 DEF LoopOf
<1>5. Eq(it)
  BY <1>4
<1>6. HangUpAll(n, C) = it[C]
  BY DEF HangUpAll, ForEach, MapThenFoldSet
<1> HIDE DEF it
<1>7. \A s \in SUBSET C : it[s] \in P[s]
  <2>1. it[{}] \in P[{}]
    BY <1>5
  <2>2. ASSUME NEW s \in SUBSET C, s # {}, it[s \ {Max(s)}] \in P[s \ {Max(s)}]
        PROVE  it[s] \in P[s]
    <3>1. it[s \ {Max(s)}] \in M /\ Max(s) \in C
      BY <1>2, <2>2
    <3>2. it[s] = hangupCall(it[s \ {Max(s)}], Max(s))
      BY <1>5, <2>2
    <3>3. it[s] \in M
      BY <3>1, <3>2
    <3> QED
      BY <3>3
  <2> HIDE DEF P
  <2> QED
    BY <1>1, <2>1, <2>2, LoopKeeps
<1> QED
  BY <1>6, <1>7

\* The same of the loop of unHoldConference.
LEMMA OffHoldLoop ==
    ASSUME NEW M, NEW n \in M, NEW C \in SUBSET Calls,
           \A k \in M, c \in C : offHoldCall(k, c) \in M
    PROVE  OffHoldAll(n, C) \in M
<1> DEFINE G == [p \in C \X M |-> offHoldCall(p[2], p[1])]
           Eq(F) == F = [s \in SUBSET C |-> IF s = {} THEN n
                                             ELSE offHoldCall(F[s \ {Max(s)}], Max(s))]
           it == CHOOSE F : Eq(F)
           P == [s \in SUBSET C |-> M]
<1>1. C \in SUBSET Nat /\ IsFiniteSet(C)
  BY CallsAssumption, FS_Subset
<1>2. ASSUME NEW s \in SUBSET C, s # {}
      PROVE  Max(s) \in C
  BY <1>1, <1>2, FS_Subset, MaxIsMember
<1>3. PICK F : LoopOf(F, G, C, M, n)
  <2>1. RoundsOf(G, C, M)
    BY DEF RoundsOf
  <2> HIDE DEF G
  <2> QED
    BY <1>1, <2>1, LoopExists
<1>4. Eq(F)
  <2>1. ASSUME NEW s \in SUBSET C, s # {}
        PROVE  F[s] = offHoldCall(F[s \ {Max(s)}], Max(s))
    <3>1. F[s \ {Max(s)}] \in M /\ Max(s) \in C
      BY <1>2, <1>3, <2>1 DEF LoopOf
    <3> QED
      BY <1>3, <2>1, <3>1 DEF LoopOf
  <2> QED
    BY <1>3, <2>1 DEF LoopOf
<1>5. Eq(it)
  BY <1>4
<1>6. OffHoldAll(n, C) = it[C]
  BY DEF OffHoldAll, ForEach, MapThenFoldSet
<1> HIDE DEF it
<1>7. \A s \in SUBSET C : it[s] \in P[s]
  <2>1. it[{}] \in P[{}]
    BY <1>5
  <2>2. ASSUME NEW s \in SUBSET C, s # {}, it[s \ {Max(s)}] \in P[s \ {Max(s)}]
        PROVE  it[s] \in P[s]
    <3>1. it[s \ {Max(s)}] \in M /\ Max(s) \in C
      BY <1>2, <2>2
    <3>2. it[s] = offHoldCall(it[s \ {Max(s)}], Max(s))
      BY <1>5, <2>2
    <3>3. it[s] \in M
      BY <3>1, <3>2
    <3> QED
      BY <3>3
  <2> HIDE DEF P
  <2> QED
    BY <1>1, <2>1, <2>2, LoopKeeps
<1> QED
  BY <1>6, <1>7

\* The same of the loop of holdConference.
LEMMA HoldLoop ==
    ASSUME NEW M, NEW n \in M, NEW C \in SUBSET Calls,
           \A k \in M, c \in C : onHoldCall(switchCall(k, c), c) \in M
    PROVE  HoldAll(n, C) \in M
<1> DEFINE G == [p \in C \X M |-> onHoldCall(switchCall(p[2], p[1]), p[1])]
           Eq(F) == F = [s \in SUBSET C |-> IF s = {} THEN n
                                             ELSE onHoldCall(switchCall(F[s \ {Max(s)}], Max(s)), Max(s))]
           it == CHOOSE F : Eq(F)
           P == [s \in SUBSET C |-> M]
<1>1. C \in SUBSET Nat /\ IsFiniteSet(C)
  BY CallsAssumption, FS_Subset
<1>2. ASSUME NEW s \in SUBSET C, s # {}
      PROVE  Max(s) \in C
  BY <1>1, <1>2, FS_Subset, MaxIsMember
<1>3. PICK F : LoopOf(F, G, C, M, n)
  <2>1. RoundsOf(G, C, M)
    BY DEF RoundsOf
  <2> HIDE DEF G
  <2> QED
    BY <1>1, <2>1, LoopExists
<1>4. Eq(F)
  <2>1. ASSUME NEW s \in SUBSET C, s # {}
        PROVE  F[s] = onHoldCall(switchCall(F[s \ {Max(s)}], Max(s)), Max(s))
    <3>1. F[s \ {Max(s)}] \in M /\ Max(s) \in C
      BY <1>2, <1>3, <2>1 DEF LoopOf
    <3> QED
      BY <1>3, <2>1, <3>1 DEF LoopOf
  <2> QED
    BY <1>3, <2>1 DEF LoopOf
<1>5. Eq(it)
  BY <1>4
<1>6. HoldAll(n, C) = it[C]
  BY DEF HoldAll, ForEach, MapThenFoldSet
<1> HIDE DEF it
<1>7. \A s \in SUBSET C : it[s] \in P[s]
  <2>1. it[{}] \in P[{}]
    BY <1>5
  <2>2. ASSUME NEW s \in SUBSET C, s # {}, it[s \ {Max(s)}] \in P[s \ {Max(s)}]
        PROVE  it[s] \in P[s]
    <3>1. it[s \ {Max(s)}] \in M /\ Max(s) \in C
      BY <1>2, <2>2
    <3>2. it[s] = onHoldCall(switchCall(it[s \ {Max(s)}], Max(s)), Max(s))
      BY <1>5, <2>2
    <3>3. it[s] \in M
      BY <3>1, <3>2
    <3> QED
      BY <3>3
  <2> HIDE DEF P
  <2> QED
    BY <1>1, <2>1, <2>2, LoopKeeps
<1> QED
  BY <1>6, <1>7

\* The same of the loop of joinConference.
LEMMA MoveLoop ==
    ASSUME NEW M, NEW n \in M, NEW C \in SUBSET Calls, NEW g,
           \A k \in M, c \in C : addParticipant(detachParticipant(k, c), c, g) \in M
    PROVE  MoveAll(n, C, g) \in M
<1> DEFINE G == [p \in C \X M |-> addParticipant(detachParticipant(p[2], p[1]), p[1], g)]
           Eq(F) == F = [s \in SUBSET C |-> IF s = {} THEN n
                                             ELSE addParticipant(detachParticipant(F[s \ {Max(s)}], Max(s)), Max(s), g)]
           it == CHOOSE F : Eq(F)
           P == [s \in SUBSET C |-> M]
<1>1. C \in SUBSET Nat /\ IsFiniteSet(C)
  BY CallsAssumption, FS_Subset
<1>2. ASSUME NEW s \in SUBSET C, s # {}
      PROVE  Max(s) \in C
  BY <1>1, <1>2, FS_Subset, MaxIsMember
<1>3. PICK F : LoopOf(F, G, C, M, n)
  <2>1. RoundsOf(G, C, M)
    BY DEF RoundsOf
  <2> HIDE DEF G
  <2> QED
    BY <1>1, <2>1, LoopExists
<1>4. Eq(F)
  <2>1. ASSUME NEW s \in SUBSET C, s # {}
        PROVE  F[s] = addParticipant(detachParticipant(F[s \ {Max(s)}], Max(s)), Max(s), g)
    <3>1. F[s \ {Max(s)}] \in M /\ Max(s) \in C
      BY <1>2, <1>3, <2>1 DEF LoopOf
    <3> QED
      BY <1>3, <2>1, <3>1 DEF LoopOf
  <2> QED
    BY <1>3, <2>1 DEF LoopOf
<1>5. Eq(it)
  BY <1>4
<1>6. MoveAll(n, C, g) = it[C]
  BY DEF MoveAll, ForEach, MapThenFoldSet
<1> HIDE DEF it
<1>7. \A s \in SUBSET C : it[s] \in P[s]
  <2>1. it[{}] \in P[{}]
    BY <1>5
  <2>2. ASSUME NEW s \in SUBSET C, s # {}, it[s \ {Max(s)}] \in P[s \ {Max(s)}]
        PROVE  it[s] \in P[s]
    <3>1. it[s \ {Max(s)}] \in M /\ Max(s) \in C
      BY <1>2, <2>2
    <3>2. it[s] = addParticipant(detachParticipant(it[s \ {Max(s)}], Max(s)), Max(s), g)
      BY <1>5, <2>2
    <3>3. it[s] \in M
      BY <3>1, <3>2
    <3> QED
      BY <3>3
  <2> HIDE DEF P
  <2> QED
    BY <1>1, <2>1, <2>2, LoopKeeps
<1> QED
  BY <1>6, <1>7

\* The participants of a conference do not wait.
LEMMA ParticipantsDoNotWait ==
    ASSUME NEW n, Settled(n), NEW f \in n.confs
    PROVE  /\ n.conf[f].parts \subseteq Calls
           /\ n.conf[f].parts \cap n.waiting = {}
           /\ ~Lag => n.conf[f].parts \subseteq n.live
           /\ \A c \in n.conf[f].parts \cap n.live : n.call[c].confId = f
<1>1. Typed(n)
  BY DEF Settled, Sound
<1>2. f \in Confs /\ n.conf[f] \in ConfRecords /\ None \notin Confs
  BY <1>1, TypedFields, NamesAssumption
<1>3. n.conf[f].parts \subseteq Calls
  BY <1>2 DEF ConfRecords
<1>4. \A c \in n.conf[f].parts \cap n.live : n.call[c].confId = f
  BY DEF Settled, Sound, Grouped
<1>5. ~Lag => n.conf[f].parts \subseteq n.live
  BY DEF Settled, Sound, Grouped
<1>6. n.conf[f].parts \cap n.waiting = {}
  BY <1>2, <1>4 DEF Settled, Sound, Alone, Fresh
<1> QED
  BY <1>3, <1>4, <1>5, <1>6

\* A conference is hung up: its calls one by one, whatever becomes of it meanwhile.
LEMMA HangupConferenceFollows ==
    ASSUME NEW n, Settled(n), NEW f
    PROVE  Follows(hangupConference(n, f), n) /\ Tidy(hangupConference(n, f), n)
<1> DEFINE C == n.conf[f].parts
           M == {k \in ManagerStates : Follows(k, n) /\ Tidy(k, n)}
           e == HangUpAll(n, C)
           a == IF f \notin n.confs THEN n ELSE e
           k == switchCall(a, None)
<1>1. hangupConference(n, f) = k
  BY DEF hangupConference, HangUpAll
<1>2. n \in M
  BY FollowsRefl DEF Settled, Sound, Typed
<1>3. a \in M
  <2>1. CASE f \notin n.confs
    BY <1>2, <2>1
  <2>2. CASE f \in n.confs
    <3>1. C \subseteq Calls /\ C \cap n.waiting = {}
      BY <2>2, ParticipantsDoNotWait
    <3> HIDE DEF C
    <3>2. ASSUME NEW l \in M, NEW c \in C PROVE hangupCall(l, c) \in M
      <4>1. Follows(l, n) /\ Tidy(l, n) /\ Settled(l) /\ c \notin l.waiting /\ c \in Calls
        BY <3>1 DEF Follows
      <4>2. Follows(hangupCall(l, c), l) /\ Tidy(hangupCall(l, c), l)
        BY <4>1, HangupCallFollows
      <4>3. Follows(hangupCall(l, c), n) /\ Tidy(hangupCall(l, c), n)
        BY <4>1, <4>2, FollowsTrans
      <4> QED
        BY <4>3 DEF Follows, Settled, Sound, Typed
    <3> HIDE DEF M
    <3>3. e \in M
      BY <1>2, <3>1, <3>2, HangUpLoop
    <3> QED
      BY <2>2, <3>3
  <2> QED
    BY <2>1, <2>2
<1> HIDE DEF a
<1>4. Follows(a, n) /\ Tidy(a, n) /\ Settled(a) /\ Typed(a)
  BY <1>3 DEF Follows, Settled, Sound
<1>5. Steady(k, a) /\ Tells(k, a)
  BY <1>4, SwitchCallSteady
<1> HIDE DEF k
<1>6. Follows(k, a) /\ Tidy(k, a)
  BY <1>4, <1>5, SteadyFollows
<1> QED
  BY <1>1, <1>4, <1>6, FollowsTrans

\* Steady steps that say nothing new of calls there are not, in a row.
Calm(n) == {k \in ManagerStates : Steady(k, n) /\ Tells(k, n)}

\* One more of them changes nothing.
LEMMA CalmSteps ==
    ASSUME NEW n, Typed(n), NEW k \in Calm(n)
    PROVE  /\ n \in Calm(n) /\ Typed(k) /\ Steady(k, n) /\ Tells(k, n)
           /\ \A l : Steady(l, k) /\ Tells(l, k) => l \in Calm(n)
<1>1. n \in Calm(n)
  BY SteadyRefl DEF Calm, Typed
<1>2. Steady(k, n) /\ Tells(k, n)
  BY DEF Calm
<1>3. Typed(k)
  BY <1>2 DEF Steady
<1>4. ASSUME NEW l, Steady(l, k), Tells(l, k) PROVE l \in Calm(n)
  <2>1. Steady(l, n) /\ Tells(l, n)
    BY <1>2, <1>4, SteadyTrans
  <2>2. Typed(l)
    BY <1>4 DEF Steady
  <2> QED
    BY <2>1, <2>2 DEF Calm, Typed
<1> QED
  BY <1>1, <1>2, <1>3, <1>4

\* A conference is put on hold.
LEMMA HoldConferenceFollows ==
    ASSUME NEW n, Settled(n), NEW f
    PROVE  Follows(holdConference(n, f), n) /\ Tidy(holdConference(n, f), n)
<1> DEFINE C == n.conf[f].parts
           e == HoldAll(n, C)
           k == [e EXCEPT !.conf[f].state = "HOLD"]
<1>1. holdConference(n, f) = IF f \notin n.confs THEN n ELSE k
  BY DEF holdConference, HoldAll, ForEach, MapThenFoldSet
<1>2. Typed(n)
  BY DEF Settled, Sound
<1>3. CASE f \in n.confs
  <2>1. C \subseteq Calls
    BY <1>3, ParticipantsDoNotWait
  <2> HIDE DEF C
  <2>2. ASSUME NEW l \in Calm(n), NEW c \in C
        PROVE  onHoldCall(switchCall(l, c), c) \in Calm(n)
    <3> DEFINE x == switchCall(l, c)
               y == onHoldCall(x, c)
    <3>1. Typed(l) /\ c \in Calls
      BY <1>2, <2>1, CalmSteps
    <3>2. Steady(x, l) /\ Tells(x, l)
      BY <3>1, SwitchCallSteady
    <3> HIDE DEF x
    <3>3. Typed(x) /\ x \in Calm(n)
      BY <1>2, <3>2, CalmSteps DEF Steady
    <3>4. Steady(y, x) /\ Tells(y, x)
      BY <3>1, <3>3, OnHoldCallSteady
    <3> HIDE DEF y
    <3>5. y \in Calm(n)
      BY <1>2, <3>3, <3>4, CalmSteps
    <3> QED
      BY <3>5 DEF x, y
  <2>3. n \in Calm(n)
    BY <1>2, SteadyRefl DEF Calm, Typed
  <2>4. e \in Calm(n)
    BY <2>1, <2>2, <2>3, HoldLoop
  <2> HIDE DEF e
  <2>5. Typed(e) /\ f \in e.confs
    BY <1>2, <1>3, <2>4, CalmSteps DEF Steady, Calm
  <2>6. Steady(k, e) /\ Tells(k, e)
    BY <2>5, ConferenceStateSteady
  <2> HIDE DEF k
  <2>7. Steady(k, n) /\ Tells(k, n)
    BY <1>2, <2>4, <2>6, CalmSteps DEF Calm
  <2> QED
    BY <1>1, <1>3, <2>7, SteadyFollows
<1> QED
  BY <1>1, <1>3, FollowsRefl

\* offHoldCall of a call that may have gone: then the process dies.
LEMMA OffHoldCallDies ==
    ASSUME NEW n, Sound(n), NEW c \in Calls \ n.live
    PROVE  \E a : /\ offHoldCall(n, c) = abort(a) /\ Steady(a, n) /\ Tells(a, n)
                  /\ Typed(a)
<1> DEFINE a == leaveCurrent(n, c)
<1>1. Typed(n)
  BY DEF Sound
<1>2. Steady(a, n) /\ Tells(a, n)
  BY <1>1, LeaveCurrentSteady
<1>3. offHoldCall(n, c) = IF c \notin a.live THEN abort(a) ELSE offHoldCall(n, c)
  BY DEF offHoldCall
<1> HIDE DEF a
<1>4. c \notin a.live /\ Typed(a)
  BY <1>2 DEF Steady
<1> QED
  BY <1>2, <1>3, <1>4

\* A call on hold is resumed: while the client knows all at once, one that exists.
LEMMA ResumedSteady ==
    ASSUME NEW n, Sound(n), NEW c \in Calls, c \notin n.waiting, ~Lag => c \in n.live
    PROVE  Steady(offHoldCall(n, c), n) /\ Tells(offHoldCall(n, c), n)
<1> DEFINE k == offHoldCall(n, c)
<1>1. CASE c \in n.live
  BY <1>1, OffHoldCallSteady
<1>2. CASE c \notin n.live
  <2>1. PICK a : k = abort(a) /\ Steady(a, n) /\ Tells(a, n) /\ Typed(a)
    BY <1>2, OffHoldCallDies
  <2> HIDE DEF k
  <2>2. Steady(k, a) /\ Tells(k, a)
    BY <1>2, <2>1, AbortSteady, ClientAssumption
  <2>3. Typed(n)
    BY DEF Sound
  <2>4. Steady(k, n) /\ Tells(k, n)
    BY <2>1, <2>2, <2>3, SteadyTrans
  <2> QED
    BY <2>4 DEF k
<1> QED
  BY <1>1, <1>2

\* A call on hold is resumed.
LEMMA OffHoldCallFollows ==
    ASSUME NEW n, Settled(n), NEW c \in Calls, c \notin n.waiting
    PROVE  LET k == offHoldCall(n, c) IN
           /\ Follows(k, n) /\ (Rung(n) => Rung(k))
           /\ c \in n.live => Tidy(k, n)
<1> DEFINE k == offHoldCall(n, c)
<1>1. Sound(n)
  BY DEF Settled
<1>2. CASE c \in n.live
  <2>1. Steady(k, n) /\ Tells(k, n)
    BY <1>1, <1>2, OffHoldCallSteady
  <2> HIDE DEF k
  <2>2. Follows(k, n) /\ Tidy(k, n)
    BY <2>1, SteadyFollows
  <2> QED
    BY <2>2 DEF Tidy, k
<1>3. CASE c \notin n.live
  <2>1. PICK a : k = abort(a) /\ Steady(a, n) /\ Tells(a, n)
    BY <1>1, <1>3, OffHoldCallDies
  <2> HIDE DEF k
  <2>2. Follows(a, n) /\ Tidy(a, n) /\ Settled(a)
    BY <2>1, SteadyFollows DEF Follows
  <2>3. Follows(k, a) /\ (Rung(a) => Rung(k))
    BY <2>1, <2>2, AccountOrProcessGoes
  <2>4. Follows(k, n) /\ (Rung(n) => Rung(k))
    BY <2>2, <2>3, FollowsTrans DEF Tidy
  <2> QED
    BY <1>3, <2>4 DEF k
<1> QED
  BY <1>2, <1>3

\* A conference is resumed.
LEMMA UnHoldConferenceFollows ==
    ASSUME NEW n, Settled(n), NEW f
    PROVE  Follows(unHoldConference(n, f), n) /\ Tidy(unHoldConference(n, f), n)
<1> DEFINE C == n.conf[f].parts
           e == OffHoldAll(n, C)
           k == [e EXCEPT !.conf[f].state = "ACTIVE_ATTACHED"]
<1>1. unHoldConference(n, f) = IF f \notin n.confs THEN n ELSE k
  BY DEF unHoldConference, OffHoldAll
<1>2. Typed(n) /\ Sound(n)
  BY DEF Settled, Sound
<1>3. CASE f \in n.confs
  <2>1. C \subseteq Calls /\ C \cap n.waiting = {} /\ (~Lag => C \subseteq n.live)
    BY <1>3, ParticipantsDoNotWait
  <2> HIDE DEF C
  <2>2. ASSUME NEW l \in Calm(n), NEW c \in C
        PROVE  offHoldCall(l, c) \in Calm(n)
    <3> DEFINE y == offHoldCall(l, c)
    <3>1. Typed(l) /\ Steady(l, n) /\ c \in Calls
      BY <1>2, <2>1, CalmSteps
    <3>2. Sound(l) /\ c \notin l.waiting /\ (~Lag => c \in l.live)
      <4>1. Sound(l)
        BY <1>2, <3>1, SteadySound
      <4> QED
        BY <2>1, <3>1, <4>1 DEF Steady
    <3>3. Steady(y, l) /\ Tells(y, l)
      BY <3>1, <3>2, ResumedSteady
    <3> QED
      BY <1>2, <3>3, CalmSteps
  <2>3. n \in Calm(n)
    BY <1>2, SteadyRefl DEF Calm, Typed
  <2>4. e \in Calm(n)
    BY <2>1, <2>2, <2>3, OffHoldLoop
  <2> HIDE DEF e
  <2>5. Typed(e) /\ f \in e.confs
    BY <1>2, <1>3, <2>4, CalmSteps DEF Steady, Calm
  <2>6. Steady(k, e) /\ Tells(k, e)
    BY <2>5, ConferenceStateSteady
  <2> HIDE DEF k
  <2>7. Steady(k, n) /\ Tells(k, n)
    BY <1>2, <2>4, <2>6, CalmSteps DEF Calm
  <2> QED
    BY <1>1, <1>3, <2>7, SteadyFollows
<1> QED
  BY <1>1, <1>3, FollowsRefl

\* The calls of one conference are moved to another.
LEMMA JoinConferenceFollows ==
    ASSUME NEW n, Settled(n), NEW f, NEW g \in Confs
    PROVE  Follows(joinConference(n, f, g), n) /\ Tidy(joinConference(n, f, g), n)
<1> DEFINE C == n.conf[f].parts
           Ready(k) == \A c \in C \cap k.live : k.call[c].confId \in {None} \cup k.confs
           M == {k \in ManagerStates : Follows(k, n) /\ Tidy(k, n) /\ Ready(k)}
           e == MoveAll(n, C, g)
<1>1. joinConference(n, f, g) = IF {f, g} \subseteq n.confs THEN e ELSE n
  BY DEF joinConference, MoveAll, ForEach, MapThenFoldSet
<1>2. CASE {f, g} \subseteq n.confs
  <2>1. C \subseteq Calls /\ \A c \in C \cap n.live : n.call[c].confId = f
    BY <1>2, ParticipantsDoNotWait
  <2>2. n \in M
    <3>1. Ready(n)
      BY <1>2, <2>1
    <3> HIDE DEF Ready
    <3> QED
      BY <3>1, FollowsRefl DEF Settled, Sound, Typed
  <2> HIDE DEF C
  <2>3. ASSUME NEW l \in M, NEW c \in C
        PROVE  addParticipant(detachParticipant(l, c), c, g) \in M
    <3> DEFINE a == detachParticipant(l, c)
               k == addParticipant(a, c, g)
    <3>1. Follows(l, n) /\ Tidy(l, n) /\ Settled(l) /\ Sound(l) /\ Ready(l) /\ c \in Calls
      BY <2>1 DEF Follows, Settled
    <3>2. CASE c \notin l.live
      <4>1. a = l
        BY <3>2 DEF detachParticipant
      <4>2. addParticipant(l, c, g) = l
        BY <3>2 DEF addParticipant
      <4> QED
        BY <4>1, <4>2
    <3>3. CASE c \in l.live
      <4>1. /\ Leaves(a, l)
            /\ l.call[c].confId \in l.confs => a.call[c].confId = None
        BY <3>1, <3>3, DetachParticipantLeaves
      <4> HIDE DEF a
      <4>2. a.call[c].confId = None
        BY <2>3, <3>1, <3>3, <4>1 DEF Leaves
      <4>3. Follows(a, l) /\ Tidy(a, l) /\ Settled(a)
        BY <3>1, <4>1, LeavesFollows DEF Follows
      <4>4. /\ Follows(k, a) /\ Tidy(k, a)
            /\ k.confs = a.confs /\ k.live = a.live
            /\ \A d \in Calls : \/ k.call[d].confId = a.call[d].confId
                                \/ k.call[d].confId \in k.confs
        BY <3>1, <4>2, <4>3, AddParticipantFollows
      <4>5. k.live \subseteq l.live
        BY <4>1, <4>4 DEF Leaves
      <4> HIDE DEF k
      <4>6. Follows(k, n) /\ Tidy(k, n)
        <5>1. Follows(a, n) /\ Tidy(a, n)
          BY <3>1, <4>3, FollowsTrans
        <5> QED
          BY <4>4, <5>1, FollowsTrans
      <4>7. Ready(k)
        <5>1. ASSUME NEW d \in C \cap k.live
              PROVE  k.call[d].confId \in {None} \cup k.confs
          <6>1. d \in Calls /\ l.call[d].confId \in {None} \cup l.confs
            BY <2>1, <3>1, <4>5
          <6>2. a.call[d].confId \in {None} \cup a.confs
            BY <4>1, <6>1 DEF Leaves
          <6> QED
            BY <4>4, <6>1, <6>2
        <5> QED
          BY <5>1
      <4> HIDE DEF Ready
      <4> QED
        BY <4>6, <4>7 DEF Follows, Settled, Sound, Typed, k, a
    <3> QED
      BY <3>2, <3>3
  <2> HIDE DEF M
  <2>4. e \in M
    BY <2>1, <2>2, <2>3, MoveLoop
  <2> QED
    BY <1>1, <1>2, <2>4 DEF M
<1> QED
  BY <1>1, <1>2, FollowsRefl

\* The loop of createConfFromParticipantList.
PlaceAll(n, C, f, sent) ==
    LET place(k, c) == outgoingCall(switchCall(k, None), c, f, c \in sent)
    IN  ForEach(place, n, C)

\* What placing each call keeps, P of the calls placed, the loop makes true of all.
LEMMA PlaceLoop ==
    ASSUME NEW C \in SUBSET Calls, NEW P, NEW f, NEW sent, NEW n \in P[{}],
           \A s \in SUBSET C : \A c \in C \ s, k \in P[s] :
               outgoingCall(switchCall(k, None), c, f, c \in sent) \in P[s \cup {c}]
    PROVE  PlaceAll(n, C, f, sent) \in P[C]
<1> DEFINE M == UNION {P[s] : s \in SUBSET C}
           op(k, c) == outgoingCall(switchCall(k, None), c, f, c \in sent)
           G == [p \in C \X M |-> IF op(p[2], p[1]) \in M THEN op(p[2], p[1]) ELSE n]
           Eq(F) == F = [s \in SUBSET C |-> IF s = {} THEN n
                                             ELSE op(F[s \ {Max(s)}], Max(s))]
           it == CHOOSE F : Eq(F)
<1>1. C \in SUBSET Nat /\ IsFiniteSet(C)
  BY CallsAssumption, FS_Subset
<1>2. ASSUME NEW s \in SUBSET C, s # {}
      PROVE  /\ Max(s) \in s /\ Max(s) \in C /\ s \ {Max(s)} \in SUBSET C
             /\ Max(s) \in C \ (s \ {Max(s)}) /\ (s \ {Max(s)}) \cup {Max(s)} = s
  <2>1. Max(s) \in s
    BY <1>1, <1>2, FS_Subset, MaxIsMember
  <2> HIDE DEF M
  <2> QED
    BY <2>1
<1>3. \A s \in SUBSET C : P[s] \subseteq M
  OBVIOUS
<1>4. n \in M
  BY <1>3
<1>5. ASSUME NEW s \in SUBSET C, s # {}, NEW k \in P[s \ {Max(s)}]
      PROVE  op(k, Max(s)) \in P[s]
  <2>1. /\ Max(s) \in C \ (s \ {Max(s)}) /\ (s \ {Max(s)}) \cup {Max(s)} = s
        /\ s \ {Max(s)} \in SUBSET C
    BY <1>2, <1>5
  <2> HIDE DEF M
  <2> DEFINE x == Max(s)
             t == s \ {x}
  <2>2. x \in C \ t /\ t \in SUBSET C /\ t \cup {x} = s /\ k \in P[t]
    BY <2>1
  <2> HIDE DEF x, t
  <2>3. op(k, x) \in P[t \cup {x}]
    BY <2>2
  <2> QED
    BY <2>2, <2>3 DEF x
<1> HIDE DEF M, op
<1>6. PICK F : LoopOf(F, G, C, M, n)
  <2>1. RoundsOf(G, C, M)
    BY <1>4 DEF RoundsOf
  <2> HIDE DEF G
  <2> QED
    BY <1>1, <1>4, <2>1, LoopExists
<1>7. \A s \in SUBSET C : F[s] \in P[s]
  <2>1. F[{}] \in P[{}]
    BY <1>6 DEF LoopOf
  <2>2. ASSUME NEW s \in SUBSET C, s # {}, F[s \ {Max(s)}] \in P[s \ {Max(s)}]
        PROVE  F[s] \in P[s]
    <3> DEFINE k == F[s \ {Max(s)}]
    <3>1. k \in M /\ Max(s) \in C
      BY <1>2, <1>3, <2>2
    <3>2. F[s] = G[<<Max(s), k>>]
      BY <1>6, <2>2 DEF LoopOf
    <3>3. op(k, Max(s)) \in P[s]
      BY <1>5, <2>2
    <3>4. op(k, Max(s)) \in M
      BY <1>3, <3>3
    <3> HIDE DEF k
    <3>5. G[<<Max(s), k>>] = op(k, Max(s))
      BY <3>1, <3>4
    <3> QED
      BY <3>2, <3>3, <3>5
  <2> QED
    BY <1>1, <2>1, <2>2, LoopKeeps
<1>8. Eq(F)
  <2>1. ASSUME NEW s \in SUBSET C, s # {}
        PROVE  F[s] = op(F[s \ {Max(s)}], Max(s))
    <3> DEFINE k == F[s \ {Max(s)}]
    <3>1. k \in P[s \ {Max(s)}] /\ k \in M /\ Max(s) \in C
      BY <1>2, <1>3, <1>7, <2>1
    <3>2. F[s] = G[<<Max(s), k>>]
      BY <1>6, <2>1 DEF LoopOf
    <3>3. op(k, Max(s)) \in M
      <4>1. op(k, Max(s)) \in P[s]
        BY <1>5, <2>1, <3>1
      <4> QED
        BY <1>3, <4>1
    <3> HIDE DEF k
    <3>4. G[<<Max(s), k>>] = op(k, Max(s))
      BY <3>1, <3>3
    <3> QED
      BY <3>2, <3>4 DEF k
  <2> QED
    BY <1>6, <2>1 DEF LoopOf
<1>9. Eq(it)
  BY <1>8
<1>10. PlaceAll(n, C, f, sent) = it[C]
  BY DEF PlaceAll, ForEach, MapThenFoldSet, op
<1> HIDE DEF it
<1>11. \A s \in SUBSET C : it[s] \in P[s]
  <2>1. it[{}] \in P[{}]
    BY <1>9
  <2>2. ASSUME NEW s \in SUBSET C, s # {}, it[s \ {Max(s)}] \in P[s \ {Max(s)}]
        PROVE  it[s] \in P[s]
    <3>1. it[s] = op(it[s \ {Max(s)}], Max(s))
      BY <1>9, <2>2
    <3> QED
      BY <1>5, <2>2, <3>1
  <2> QED
    BY <1>1, <2>1, <2>2, LoopKeeps
<1> QED
  BY <1>10, <1>11

\* The states in which the calls s of the list C have been placed for f.
Placing(n, C, f, sent, s) ==
    {k \in ManagerStates :
        /\ Settled(k) /\ k.waiting \subseteq n.waiting
        /\ k.confs = n.confs /\ k.cutOff = n.cutOff
        /\ ~Lag => k.aborted = n.aborted
        /\ k.live = n.live \cup (s \cap sent)
        /\ k.account = n.account \cup (s \cap sent)
        /\ \A d \in C \ s : Free(k, d)
        /\ \A d \in Calls : k.call[d].confId = IF d \in s \cap sent THEN f
                                               ELSE n.call[d].confId
        /\ n.account \subseteq n.live /\ Honest(n) => Honest(k)
        /\ Rung(n) => Rung(k)}

\* One more is placed.
LEMMA OneMorePlaced ==
    ASSUME NEW n, NEW C \in SUBSET Calls, NEW f \in Confs, f \notin n.confs,
           NEW sent, NEW s \in SUBSET C, NEW c \in C \ s,
           NEW k \in Placing(n, C, f, sent, s)
    PROVE  outgoingCall(switchCall(k, None), c, f, c \in sent)
              \in Placing(n, C, f, sent, s \cup {c})
<1> DEFINE a == switchCall(k, None)
           b == c \in sent
           l == outgoingCall(a, c, f, b)
<1>1. /\ Settled(k) /\ k.waiting \subseteq n.waiting
      /\ k.confs = n.confs /\ k.cutOff = n.cutOff
      /\ ~Lag => k.aborted = n.aborted
      /\ k.live = n.live \cup (s \cap sent)
      /\ k.account = n.account \cup (s \cap sent)
      /\ \A d \in C \ s : Free(k, d)
      /\ \A d \in Calls : k.call[d].confId = IF d \in s \cap sent THEN f
                                             ELSE n.call[d].confId
      /\ n.account \subseteq n.live /\ Honest(n) => Honest(k)
      /\ Rung(n) => Rung(k)
  BY DEF Placing
<1>2. Typed(k)
  BY <1>1 DEF Settled, Sound
<1>3. Steady(a, k) /\ Tells(a, k)
  BY <1>2, SwitchCallSteady
<1> HIDE DEF a
<1>4. Settled(a) /\ Follows(a, k) /\ Tidy(a, k)
  BY <1>1, <1>3, SteadyFollows DEF Follows
<1>5. \A d \in C \ s : Free(a, d)
  BY <1>1, <1>2, <1>3, SteadyFree
<1>6. Begins(l, a, c, f, b)
  <2>1. f \notin a.confs /\ Free(a, c) /\ c \in Calls /\ b \in BOOLEAN
    BY <1>1, <1>3, <1>5 DEF Steady
  <2> HIDE DEF b
  <2> QED
    BY <1>4, <2>1, OutgoingCallBegins
<1> HIDE DEF l
<1>7. l \in ManagerStates
  BY <1>6 DEF Begins, Settled, Sound, Typed
<1>8. /\ l.live = n.live \cup ((s \cup {c}) \cap sent)
      /\ l.account = n.account \cup ((s \cup {c}) \cap sent)
  <2>1. a.live = k.live /\ a.account = k.account
    BY <1>3 DEF Steady
  <2>2. (s \cup {c}) \cap sent = IF c \in sent THEN (s \cap sent) \cup {c} ELSE s \cap sent
    OBVIOUS
  <2> QED
    BY <1>1, <1>6, <2>1, <2>2 DEF Begins
<1>9. \A d \in C \ (s \cup {c}) : Free(l, d)
  BY <1>5, <1>6 DEF Begins
<1>10. \A d \in Calls : l.call[d].confId = IF d \in (s \cup {c}) \cap sent THEN f
                                           ELSE n.call[d].confId
  <2>1. \A d \in Calls : a.call[d].confId = k.call[d].confId
    BY <1>3 DEF Steady
  <2> QED
    BY <1>1, <1>6, <2>1 DEF Begins
<1>11. n.account \subseteq n.live /\ Honest(n) => Honest(l)
  <2>1. n.account \subseteq n.live => a.account \subseteq a.live
    BY <1>1, <1>3 DEF Steady
  <2>2. Honest(k) /\ k.account \subseteq k.live => Honest(a)
    BY <1>3 DEF Steady, Honest, Tells
  <2>3. n.account \subseteq n.live => k.account \subseteq k.live
    BY <1>1
  <2> QED
    BY <1>1, <1>6, <2>1, <2>2, <2>3 DEF Begins
<1>12. Rung(n) => Rung(l)
  BY <1>1, <1>4, <1>6 DEF Begins, Tidy
<1>13. /\ Settled(l) /\ l.waiting \subseteq n.waiting
       /\ l.confs = n.confs /\ l.cutOff = n.cutOff
       /\ ~Lag => l.aborted = n.aborted
  BY <1>1, <1>3, <1>6 DEF Begins, Steady
<1> QED
  BY <1>7, <1>8, <1>9, <1>10, <1>11, <1>12, <1>13 DEF Placing, l, a

\* The calls of a list are placed and make a conference, if two of them or more
\* could be; a single one is left with the id of a conference that never was.
LEMMA CreateConfFollows ==
    ASSUME NEW n, Settled(n), NEW C \in SUBSET Calls, NEW f \in Confs,
           \A c \in C : Free(n, c),
           f \notin n.confs, \A c \in Calls : n.call[c].confId # f,
           NEW sent \in SUBSET C
    PROVE  LET k == createConfFromParticipantList(n, f, C, sent) IN
           /\ Settled(k) /\ k.waiting \subseteq n.waiting /\ (Rung(n) => Rung(k))
           /\ Cardinality(sent) > 1 => Follows(k, n) /\ Tidy(k, n)
<1> DEFINE P == [s \in SUBSET C |-> Placing(n, C, f, sent, s)]
           e == PlaceAll(n, C, f, sent)
           q == [parts |-> sent, nb |-> Cardinality(sent), state |-> "ACTIVE_ATTACHED"]
           l == [e EXCEPT !.confs = @ \cup {f}, !.conf[f] = q]
           k == createConfFromParticipantList(n, f, C, sent)
<1>1. k = IF Cardinality(sent) < 2 THEN e ELSE l
  <2>1. k = IF Cardinality(C \cap sent) < 2 THEN e
            ELSE [e EXCEPT !.confs = @ \cup {f},
                           !.conf[f] = [parts |-> C \cap sent,
                                        nb |-> Cardinality(C \cap sent),
                                        state |-> "ACTIVE_ATTACHED"]]
    BY DEF createConfFromParticipantList, PlaceAll
  <2>2. C \cap sent = sent
    OBVIOUS
  <2> HIDE DEF e, k
  <2> QED
    BY <2>1, <2>2
<1> HIDE DEF k
<1>2. Typed(n)
  BY DEF Settled, Sound
<1>3. n \in P[{}]
  <2>1. n \in Placing(n, C, f, sent, {})
    BY <1>2 DEF Placing, Typed
  <2> QED
    BY <2>1
<1>4. \A s \in SUBSET C : \A c \in C \ s, x \in P[s] :
          outgoingCall(switchCall(x, None), c, f, c \in sent) \in P[s \cup {c}]
  <2>1. ASSUME NEW s \in SUBSET C, NEW c \in C \ s, NEW x \in Placing(n, C, f, sent, s)
        PROVE  outgoingCall(switchCall(x, None), c, f, c \in sent)
                  \in Placing(n, C, f, sent, s \cup {c})
    BY OneMorePlaced
  <2> QED
    BY <2>1
<1>5. e \in P[C]
  <2> HIDE DEF P
  <2> QED
    BY <1>3, <1>4, PlaceLoop
<1>6. C \cap sent = sent
  OBVIOUS
<1> HIDE DEF e
<1>7. /\ Settled(e) /\ e.waiting \subseteq n.waiting
      /\ e.confs = n.confs /\ e.cutOff = n.cutOff
      /\ ~Lag => e.aborted = n.aborted
      /\ e.live = n.live \cup sent /\ e.account = n.account \cup sent
      /\ \A d \in Calls : e.call[d].confId = IF d \in sent THEN f ELSE n.call[d].confId
      /\ n.account \subseteq n.live /\ Honest(n) => Honest(e)
      /\ Rung(n) => Rung(e)
  <2>1. e \in Placing(n, C, f, sent, C)
    BY <1>5
  <2> QED
    BY <1>6, <2>1 DEF Placing
<1>8. Cardinality(sent) \in Nat
  <2>1. IsFiniteSet(sent)
    BY CallsAssumption, FS_Subset
  <2> QED
    BY <2>1, FS_CardinalityType
<1>9. CASE Cardinality(sent) < 2
  BY <1>1, <1>7, <1>8, <1>9 DEF k
<1>10. CASE Cardinality(sent) >= 2
  <2>1. k = l
    BY <1>1, <1>8, <1>10
  <2>2. Typed(e) /\ Sound(e)
    BY <1>7 DEF Settled, Sound
  <2>3. /\ e.call \in [Calls -> CallRecords] /\ e.live \in SUBSET Calls
        /\ e.conf \in [Confs -> ConfRecords]
    BY <2>2, TypedFields
  <2>4. q \in ConfRecords /\ q.parts = sent /\ q.nb = Cardinality(sent)
    BY <1>8 DEF ConfRecords
  <2> HIDE DEF q
  <2>5. l = Enrol(e, f, q, e.call, e.bound)
    BY <2>2 DEF Enrol, Typed, ManagerStates
  <2> HIDE DEF l
  <2> DEFINE N == {}
  <2>6. Entering(e, f, N, q, e.call, e.bound)
    <3>1. \A d \in e.live : d \in q.parts <=> e.call[d].confId = f
      BY <1>7, <2>3, <2>4
    <3>2. q.parts \subseteq e.live
      BY <1>7, <2>4
    <3> QED
      BY <1>10, <2>3, <2>4, <3>1, <3>2 DEF Entering
  <2> HIDE DEF N
  <2>7. LET x == Enrol(e, f, q, e.call, e.bound) IN
        /\ Sound(x) /\ Typed(x)
        /\ x.account = e.account /\ x.live = e.live /\ x.confs = e.confs \cup {f}
        /\ x.cutOff = e.cutOff /\ x.aborted = e.aborted /\ x.call = e.call
        /\ x.waiting = e.waiting /\ x.shown = e.shown
    BY <2>2, <2>6, CallsEnrol
  <2>8. /\ Sound(l)
        /\ l.account = e.account /\ l.live = e.live /\ l.confs = e.confs \cup {f}
        /\ l.cutOff = e.cutOff /\ l.aborted = e.aborted /\ l.call = e.call
        /\ l.waiting = e.waiting /\ l.shown = e.shown
    BY <2>5, <2>7
  <2>9. Settled(l)
    BY <1>7, <2>8 DEF Settled, Alone
  <2>10. Kept(n) => Kept(l)
    <3>1. ASSUME Kept(n), NEW c \in l.live PROVE l.call[c].confId \in {None} \cup l.confs
      <4>1. c \in Calls /\ c \in n.live \cup sent
        BY <1>7, <2>3, <2>8
      <4>2. c \notin sent => n.call[c].confId \in {None} \cup n.confs
        BY <3>1, <4>1 DEF Kept, Named
      <4> QED
        BY <1>7, <2>8, <4>1, <4>2
    <3>2. Kept(n) => l.account \subseteq l.live /\ l.cutOff = {}
      BY <1>7, <2>8 DEF Kept
    <3> QED
      BY <3>1, <3>2 DEF Kept, Named
  <2>11. /\ Kept(n) /\ Honest(n) => Honest(l)
         /\ Rung(n) => Rung(l)
    BY <1>7, <2>8 DEF Kept, Honest, Rung
  <2> QED
    BY <1>7, <2>1, <2>8, <2>9, <2>10, <2>11 DEF Follows, Tidy, k
<1> QED
  BY <1>8, <1>9, <1>10

--------------------------------------------------------------------------------
(***************************************************************************)
(* The state machine.                                                      *)
(***************************************************************************)

\* Every peer can be reached, the client knows all at once, and it lets nobody
\* use a call that failed.
Clean == Fragile = {} /\ ~Lag /\ ~JoinsFailed

\* The inductive invariant.
IInv ==
    /\ Settled(m)
    /\ seen \in [Calls -> Answers]
    /\ \A c \in m.waiting : seen[c] \in {"NONE", "INCOMING"}
    /\ ~Lag => seen = m.shown /\ Rung(m)
    /\ Fragile = {} => Kept(m)
    /\ Clean => Honest(m) /\ ~m.aborted

\* The states a handler may leave the daemon in.
Taken(k) ==
    /\ Settled(k) /\ k.waiting \subseteq m.waiting
    /\ ~Lag => Rung(k)
    /\ Fragile = {} => Kept(k)
    /\ Clean => Honest(k) /\ ~k.aborted

\* What follows is taken.
LEMMA FollowsTaken ==
    ASSUME IInv, NEW k, Follows(k, m), Rung(m) => Rung(k), Clean => Tidy(k, m)
    PROVE  Taken(k)
  BY DEF IInv, Taken, Follows, Tidy, Clean

\* And where everything is tidy.
LEMMA TidyTaken ==
    ASSUME IInv, NEW k, Follows(k, m), Tidy(k, m)
    PROVE  Taken(k)
  BY FollowsTaken DEF Tidy

\* A handler that ends in such a state keeps the invariant.
LEMMA DoKeeps ==
    ASSUME IInv, NEW k, Taken(k), Do(k)
    PROVE  IInv'
<1>1. m' = k /\ seen' = IF Lag THEN seen ELSE k.shown
  BY DEF Do
<1>2. Typed(k) /\ Fresh(k)
  BY DEF Taken, Settled, Sound
<1>3. k.shown \in [Calls -> Answers]
  BY <1>2, TypedFields
<1>4. seen' \in [Calls -> Answers]
  BY <1>1, <1>3 DEF IInv
<1>5. \A c \in k.waiting : seen'[c] \in {"NONE", "INCOMING"}
  BY <1>1, <1>2 DEF IInv, Taken, Fresh
<1>6. /\ Settled(k) /\ (~Lag => seen' = k.shown /\ Rung(k))
      /\ Fragile = {} => Kept(k)
      /\ Clean => Honest(k) /\ ~k.aborted
  BY <1>1 DEF Taken
<1>7. /\ Settled(m') /\ (~Lag => seen' = (m').shown /\ Rung(m'))
      /\ Fragile = {} => Kept(m')
      /\ Clean => Honest(m') /\ ~(m').aborted
      /\ \A c \in (m').waiting : seen'[c] \in {"NONE", "INCOMING"}
  BY <1>1, <1>5, <1>6
<1> QED
  BY <1>4, <1>7 DEF IInv, Settled, Rung, Kept, Honest, Clean

\* What the invariant says of the calls a command may be about.
LEMMA CallsOffered ==
    ASSUME IInv
    PROVE  /\ Settled(m) /\ Sound(m) /\ Typed(m)
           /\ \A c \in Calls : /\ Unused(c) => Free(m, c) /\ seen[c] = "NONE"
                               /\ seen[c] \notin {"NONE", "INCOMING"} => c \notin m.waiting
                               /\ ~Lag /\ seen[c] = "INCOMING" => c \in m.waiting
                               /\ Clean /\ seen[c] \notin {"NONE", "FAILURE"} => c \in m.live
           /\ \A f : UnusedConf(f) => f \notin m.confs /\ \A c \in Calls : m.call[c].confId # f
<1>1. Settled(m) /\ Sound(m) /\ Typed(m)
  BY DEF IInv, Settled, Sound
<1>2. \A c \in Calls : Unused(c) => Free(m, c) /\ seen[c] = "NONE"
  BY DEF Unused, Free
<1>3. \A c \in Calls : seen[c] \notin {"NONE", "INCOMING"} => c \notin m.waiting
  BY DEF IInv
<1>4. \A c \in Calls : ~Lag /\ seen[c] = "INCOMING" => c \in m.waiting
  BY DEF IInv, Rung
<1>5. \A c \in Calls : Clean /\ seen[c] \notin {"NONE", "FAILURE"} => c \in m.live
  BY DEF IInv, Honest, Clean
<1>6. \A f : UnusedConf(f) => f \notin m.confs /\ \A c \in Calls : m.call[c].confId # f
  BY DEF UnusedConf
<1> QED
  BY <1>1, <1>2, <1>3, <1>4, <1>5, <1>6

\* A call begins: placed by the client, or coming in.
LEMMA CallsBeginKeep ==
    ASSUME IInv, NEW c \in Calls, PlaceCall(c) \/ Incoming(c)
    PROVE  IInv'
<1>1. Settled(m) /\ Typed(m) /\ Free(m, c) /\ seen[c] = "NONE"
  BY CallsOffered DEF PlaceCall, Incoming
<1>2. CASE PlaceCall(c)
  <2>1. PICK sent \in Sent({c}) : Do(outgoingCall(m, c, None, c \in sent))
    BY <1>2 DEF PlaceCall
  <2> DEFINE b == c \in sent
             k == outgoingCall(m, c, None, b)
  <2>2. b \in BOOLEAN /\ Do(k)
    BY <2>1
  <2> HIDE DEF b
  <2>3. Follows(k, m) /\ Tidy(k, m)
    BY <1>1, <2>2, OutgoingCallFollows
  <2> HIDE DEF k
  <2> QED
    BY <2>2, <2>3, TidyTaken, DoKeeps
<1>3. CASE Incoming(c)
  <2> DEFINE k == incomingCall(m, c)
  <2>1. Do(k)
    BY <1>3 DEF Incoming
  <2>2. /\ Settled(k) /\ k.waiting = m.waiting \cup {c}
        /\ k.shown = [m.shown EXCEPT ![c] = "INCOMING"]
        /\ k.aborted = m.aborted /\ (Kept(m) => Kept(k))
        /\ (Honest(m) => Honest(k)) /\ (Rung(m) => Rung(k))
    BY <1>1, IncomingCallBegins
  <2> HIDE DEF k
  <2>3. m' = k /\ seen' = IF Lag THEN seen ELSE k.shown
    BY <2>1 DEF Do
  <2>4. Typed(k) /\ Fresh(k)
    BY <2>2 DEF Settled, Sound
  <2>5. k.shown \in [Calls -> Answers]
    BY <2>4, TypedFields
  <2>6. seen' \in [Calls -> Answers]
    BY <2>3, <2>5 DEF IInv
  <2>7. \A d \in k.waiting : seen'[d] \in {"NONE", "INCOMING"}
    BY <1>1, <2>2, <2>3, <2>4 DEF IInv, Fresh
  <2>8. /\ Settled(k) /\ (~Lag => seen' = k.shown /\ Rung(k))
        /\ Fragile = {} => Kept(k)
        /\ Clean => Honest(k) /\ ~k.aborted
    BY <2>2, <2>3 DEF IInv, Clean
  <2>9. /\ Settled(m') /\ (~Lag => seen' = (m').shown /\ Rung(m'))
        /\ Fragile = {} => Kept(m')
        /\ Clean => Honest(m') /\ ~(m').aborted
        /\ \A d \in (m').waiting : seen'[d] \in {"NONE", "INCOMING"}
    BY <2>3, <2>7, <2>8
  <2> QED
    BY <2>6, <2>9 DEF IInv, Settled, Rung, Kept, Honest, Clean
<1> QED
  BY <1>2, <1>3

\* The client answers or refuses a call that comes in.
LEMMA RepliesKeep ==
    ASSUME IInv, NEW c \in Calls, Accept(c) \/ Refuse(c)
    PROVE  IInv'
<1>1. Settled(m) /\ Sound(m) /\ seen[c] = "INCOMING" /\ (~Lag => c \in m.waiting)
  BY CallsOffered DEF Accept, Refuse
<1>2. CASE Accept(c)
  <2> DEFINE k == answerCall(m, c)
  <2>1. Do(k)
    BY <1>2 DEF Accept
  <2>2. Steady(k, m) /\ (c \in m.live => Tells(k, m))
    BY <1>1, AnswerCallSteady
  <2> HIDE DEF k
  <2>3. Follows(k, m) /\ (c \in m.live => Tidy(k, m))
    BY <1>1, <2>2, SteadyFollows
  <2>4. ~Lag => c \in m.live
    BY <1>1 DEF Sound, Fresh
  <2>5. Taken(k)
    BY <2>3, <2>4 DEF Follows, Tidy, Taken, IInv, Clean
  <2> QED
    BY <2>1, <2>5, DoKeeps
<1>3. CASE Refuse(c)
  <2> DEFINE k == refuseCall(m, c)
  <2>1. Do(k)
    BY <1>3 DEF Refuse
  <2>2. ~Lag => m.call[c].confId \notin m.confs
    <3>1. m.confs \subseteq Confs
      BY <1>1, TypedFields DEF Sound
    <3> QED
      BY <1>1, <3>1, NamesAssumption DEF Settled, Alone
  <2>3. Follows(k, m) /\ Tidy(k, m)
    BY <1>1, <2>2, RefuseCallFollows
  <2> HIDE DEF k
  <2> QED
    BY <2>1, <2>3, TidyTaken, DoKeeps
<1> QED
  BY <1>2, <1>3

\* The client ends a call, puts it on hold or takes it off, or transfers it.
LEMMA CommandsKeep ==
    ASSUME IInv, NEW c \in Calls, HangUp(c) \/ Hold(c) \/ Unhold(c) \/ Transfer(c)
    PROVE  IInv'
<1>1. seen[c] \notin {"NONE", "INCOMING"}
  BY DEF HangUp, Hold, Unhold, Transfer
<1>2. Settled(m) /\ Typed(m) /\ c \notin m.waiting
  BY <1>1, CallsOffered
<1>3. CASE HangUp(c)
  <2> DEFINE k == hangupCall(m, c)
  <2>1. Do(k)
    BY <1>3 DEF HangUp
  <2>2. Follows(k, m) /\ Tidy(k, m)
    BY <1>2, HangupCallFollows
  <2> HIDE DEF k
  <2> QED
    BY <2>1, <2>2, TidyTaken, DoKeeps
<1>4. CASE Hold(c)
  <2> DEFINE k == onHoldCall(m, c)
  <2>1. Do(k)
    BY <1>4 DEF Hold
  <2>2. Steady(k, m) /\ Tells(k, m)
    BY <1>2, OnHoldCallSteady
  <2> HIDE DEF k
  <2>3. Follows(k, m) /\ Tidy(k, m)
    BY <1>2, <2>2, SteadyFollows
  <2> QED
    BY <2>1, <2>3, TidyTaken, DoKeeps
<1>5. CASE Unhold(c)
  <2> DEFINE k == offHoldCall(m, c)
  <2>1. Do(k) /\ seen[c] = "HOLD"
    BY <1>5 DEF Unhold
  <2>2. Follows(k, m) /\ (Rung(m) => Rung(k)) /\ (c \in m.live => Tidy(k, m))
    BY <1>2, OffHoldCallFollows
  <2> HIDE DEF k
  <2>3. Clean => c \in m.live
    BY <2>1, CallsOffered
  <2> QED
    BY <2>1, <2>2, <2>3, FollowsTaken, DoKeeps
<1>6. CASE Transfer(c)
  <2> DEFINE k == transferCall(m, c)
  <2>1. Do(k) /\ seen[c] = "CURRENT"
    BY <1>6 DEF Transfer
  <2>2. Follows(k, m) /\ (Rung(m) => Rung(k)) /\ (c \in m.live => Tidy(k, m))
    BY <1>2, TransferCallFollows
  <2> HIDE DEF k
  <2>3. Clean => c \in m.live
    BY <2>1, CallsOffered
  <2> QED
    BY <2>1, <2>2, <2>3, FollowsTaken, DoKeeps
<1> QED
  BY <1>3, <1>4, <1>5, <1>6

\* A call enters or leaves a conference.
LEMMA MovesKeep ==
    ASSUME IInv, NEW c \in Calls,
           \/ DetachParticipant(c)
           \/ \E f \in Confs : AddParticipant(c, f)
           \/ \E f \in Confs, d \in Calls : c # d /\ JoinParticipant(c, d, f)
    PROVE  IInv'
<1>1. Settled(m) /\ Sound(m)
  BY CallsOffered
<1>2. CASE DetachParticipant(c)
  <2> DEFINE k == detachParticipant(m, c)
  <2>1. Do(k)
    BY <1>2 DEF DetachParticipant
  <2>2. Leaves(k, m)
    BY <1>1, DetachParticipantLeaves
  <2> HIDE DEF k
  <2>3. Follows(k, m) /\ Tidy(k, m)
    BY <1>1, <2>2, LeavesFollows
  <2> QED
    BY <2>1, <2>3, TidyTaken, DoKeeps
<1>3. ASSUME NEW f \in Confs, AddParticipant(c, f)
      PROVE  IInv'
  <2> DEFINE k == addParticipant(m, c, f)
  <2>1. Do(k) /\ m.call[c].confId = None
    BY <1>3 DEF AddParticipant, Single
  <2>2. Follows(k, m) /\ Tidy(k, m)
    BY <1>1, <2>1, AddParticipantFollows
  <2> HIDE DEF k
  <2> QED
    BY <2>1, <2>2, TidyTaken, DoKeeps
<1>4. ASSUME NEW f \in Confs, NEW d \in Calls, c # d, JoinParticipant(c, d, f)
      PROVE  IInv'
  <2> DEFINE k == joinParticipant(m, f, c, d)
  <2>1. Do(k) /\ m.call[c].confId = None /\ m.call[d].confId = None /\ UnusedConf(f)
    BY <1>4 DEF JoinParticipant, Single
  <2>2. f \notin m.confs /\ \A x \in Calls : m.call[x].confId # f
    BY <2>1 DEF UnusedConf
  <2>3. /\ Follows(k, m) /\ (Rung(m) => Rung(k))
        /\ {c, d} \subseteq m.live => Tidy(k, m)
    BY <1>1, <1>4, <2>1, <2>2, JoinParticipantFollows
  <2> HIDE DEF k
  <2>4. Clean => {c, d} \subseteq m.live
    <3>1. Clean => /\ seen[c] \notin {"NONE", "FAILURE"}
                   /\ seen[d] \notin {"NONE", "FAILURE"}
      BY <1>4 DEF JoinParticipant, Single, Clean
    <3> QED
      BY <3>1, CallsOffered
  <2> QED
    BY <2>1, <2>3, <2>4, FollowsTaken, DoKeeps
<1> QED
  BY <1>2, <1>3, <1>4

\* The calls of a list are placed for a conference.
LEMMA PlaceConferenceKeeps ==
    ASSUME IInv, NEW f \in Confs, NEW list \in SUBSET Placed, Cardinality(list) > 1,
           PlaceConference(list, f)
    PROVE  IInv'
<1>1. Settled(m) /\ list \subseteq Calls /\ \A c \in list : Unused(c)
  BY CallsOffered, OriginAssumption DEF PlaceConference
<1>2. \A c \in list : Free(m, c)
  BY <1>1, CallsOffered
<1>3. f \notin m.confs /\ \A c \in Calls : m.call[c].confId # f
  BY DEF PlaceConference, UnusedConf
<1>4. PICK sent \in Sent(list) : Do(createConfFromParticipantList(m, f, list, sent))
  BY DEF PlaceConference
<1> DEFINE k == createConfFromParticipantList(m, f, list, sent)
<1>5. sent \in SUBSET list /\ (Fragile = {} => sent = list)
  BY <1>4 DEF Sent
<1>6. /\ Settled(k) /\ k.waiting \subseteq m.waiting /\ (Rung(m) => Rung(k))
      /\ Cardinality(sent) > 1 => Follows(k, m) /\ Tidy(k, m)
  BY <1>1, <1>2, <1>3, <1>5, CreateConfFollows
<1>7. Do(k)
  BY <1>4
<1> HIDE DEF k
<1>8. Fragile = {} => Follows(k, m) /\ Tidy(k, m)
  BY <1>5, <1>6
<1>9. Taken(k)
  BY <1>6, <1>8 DEF Taken, IInv, Follows, Tidy, Clean
<1> QED
  BY <1>7, <1>9, DoKeeps

\* The client does something to a whole conference.
LEMMA ConferencesKeep ==
    ASSUME IInv, NEW f \in Confs,
           \/ AddMainParticipant(f) \/ HoldConference(f) \/ UnholdConference(f)
           \/ HangUpConference(f) \/ \E g \in Confs : f # g /\ JoinConference(f, g)
    PROVE  IInv'
<1>1. Settled(m) /\ Typed(m)
  BY CallsOffered
<1>2. CASE AddMainParticipant(f)
  <2> DEFINE k == addMainParticipant(m, f)
  <2>1. Do(k)
    BY <1>2 DEF AddMainParticipant
  <2>2. Steady(k, m) /\ Tells(k, m)
    BY <1>1, AddMainParticipantSteady
  <2> HIDE DEF k
  <2>3. Follows(k, m) /\ Tidy(k, m)
    BY <1>1, <2>2, SteadyFollows
  <2> QED
    BY <2>1, <2>3, TidyTaken, DoKeeps
<1>3. CASE HoldConference(f)
  <2> DEFINE k == holdConference(m, f)
  <2>1. Do(k) /\ Follows(k, m) /\ Tidy(k, m)
    BY <1>1, <1>3, HoldConferenceFollows DEF HoldConference
  <2> HIDE DEF k
  <2> QED
    BY <2>1, TidyTaken, DoKeeps
<1>4. CASE UnholdConference(f)
  <2> DEFINE k == unHoldConference(m, f)
  <2>1. Do(k) /\ Follows(k, m) /\ Tidy(k, m)
    BY <1>1, <1>4, UnHoldConferenceFollows DEF UnholdConference
  <2> HIDE DEF k
  <2> QED
    BY <2>1, TidyTaken, DoKeeps
<1>5. CASE HangUpConference(f)
  <2> DEFINE k == hangupConference(m, f)
  <2>1. Do(k) /\ Follows(k, m) /\ Tidy(k, m)
    BY <1>1, <1>5, HangupConferenceFollows DEF HangUpConference
  <2> HIDE DEF k
  <2> QED
    BY <2>1, TidyTaken, DoKeeps
<1>6. ASSUME NEW g \in Confs, JoinConference(f, g)
      PROVE  IInv'
  <2> DEFINE k == joinConference(m, f, g)
  <2>1. Do(k) /\ Follows(k, m) /\ Tidy(k, m)
    BY <1>1, <1>6, JoinConferenceFollows DEF JoinConference
  <2> HIDE DEF k
  <2> QED
    BY <2>1, TidyTaken, DoKeeps
<1> QED
  BY <1>2, <1>3, <1>4, <1>5, <1>6

\* A peer responds, ends its call, or can no longer or again be reached.
LEMMA PeersKeep ==
    ASSUME IInv, NEW c \in Calls,
           \/ PeerRings(c) \/ PeerAnswers(c) \/ PeerCloses(c) \/ PeerFails(c)
           \/ PeerReinvites(c) \/ InviteEnds(c) \/ CutOff(c) \/ Reach(c)
    PROVE  IInv'
<1>1. Settled(m) /\ Sound(m) /\ Typed(m)
  BY CallsOffered
<1>2. CASE PeerRings(c)
  <2> DEFINE k == peerRingingCall(m, c)
  <2>1. Do(k) /\ c \in m.live /\ m.call[c].type = "Outgoing"
    BY <1>2 DEF PeerRings
  <2>2. Steady(k, m) /\ Tells(k, m)
    BY <1>1, <2>1, PeerRespondsSteady
  <2> HIDE DEF k
  <2>3. Follows(k, m) /\ Tidy(k, m)
    BY <1>1, <2>2, SteadyFollows
  <2> QED
    BY <2>1, <2>3, TidyTaken, DoKeeps
<1>3. CASE PeerAnswers(c)
  <2> DEFINE k == peerAnsweredCall(m, c)
  <2>1. Do(k) /\ c \in m.live /\ m.call[c].type = "Outgoing"
    BY <1>3 DEF PeerAnswers
  <2>2. Steady(k, m) /\ Tells(k, m)
    BY <1>1, <2>1, PeerRespondsSteady
  <2> HIDE DEF k
  <2>3. Follows(k, m) /\ Tidy(k, m)
    BY <1>1, <2>2, SteadyFollows
  <2> QED
    BY <2>1, <2>3, TidyTaken, DoKeeps
<1>4. CASE PeerCloses(c)
  <2> DEFINE k == SIPCallClosed(m, c)
  <2>1. Do(k) /\ Follows(k, m) /\ Tidy(k, m)
    BY <1>1, <1>4, CallClosedFollows DEF PeerCloses
  <2> HIDE DEF k
  <2> QED
    BY <2>1, TidyTaken, DoKeeps
<1>5. CASE PeerFails(c)
  <2> DEFINE k == SIPCallServerFailure(m, c)
  <2>1. Do(k) /\ Follows(k, m) /\ Tidy(k, m)
    BY <1>1, <1>5, CallFailsFollows DEF PeerFails
  <2> HIDE DEF k
  <2> QED
    BY <2>1, TidyTaken, DoKeeps
<1>6. CASE CutOff(c)
  <2> DEFINE C == m.cutOff \cup {c}
             k == [m EXCEPT !.cutOff = C]
  <2>1. Do(k) /\ Fragile # {}
    BY <1>6 DEF CutOff
  <2>2. C \in SUBSET Calls
    BY <1>1, TypedFields
  <2> HIDE DEF C
  <2>3. Settled(k) /\ k.waiting = m.waiting /\ k.shown = m.shown
    BY <1>1, <2>2, PeersReached
  <2> HIDE DEF k
  <2>4. Taken(k)
    BY <2>1, <2>3 DEF Taken, IInv, Rung, Clean
  <2> QED
    BY <2>1, <2>4, DoKeeps
<1>7. CASE Reach(c)
  <2> DEFINE C == m.cutOff \ {c}
             k == [m EXCEPT !.cutOff = C]
  <2>1. Do(k)
    BY <1>7 DEF Reach
  <2>2. C \in SUBSET Calls /\ C \subseteq m.cutOff
    BY <1>1, TypedFields
  <2> HIDE DEF C
  <2>3. Follows(k, m) /\ Tidy(k, m)
    BY <1>1, <2>2, PeersReached
  <2> HIDE DEF k
  <2> QED
    BY <2>1, <2>3, TidyTaken, DoKeeps
<1>8. CASE PeerReinvites(c) \/ InviteEnds(c)
  <2>1. PICK i \in {"none", "other"} :
          /\ c \in m.live /\ m.call[c].conn = "Connected"
          /\ Do([m EXCEPT !.call[c].invite = i])
    BY <1>8 DEF PeerReinvites, InviteEnds
  <2> DEFINE k == [m EXCEPT !.call[c].invite = i]
  <2>2. Steady(k, m) /\ Tells(k, m)
    BY <1>1, <2>1, InviteSteady
  <2>3. Do(k)
    BY <2>1
  <2> HIDE DEF k
  <2>4. Follows(k, m) /\ Tidy(k, m)
    BY <1>1, <2>2, SteadyFollows
  <2> QED
    BY <2>3, <2>4, TidyTaken, DoKeeps
<1> QED
  BY <1>2, <1>3, <1>4, <1>5, <1>6, <1>7, <1>8

\* The client learns the state of a call.
LEMMA SignalKeeps ==
    ASSUME IInv, NEW c \in Calls, Signal(c)
    PROVE  IInv'
<1>1. Typed(m) /\ Fresh(m)
  BY CallsOffered DEF Sound
<1>2. m.shown \in [Calls -> Answers]
  BY <1>1, TypedFields
<1>3. Lag
  BY DEF Signal, IInv
<1>4. m' = m /\ seen' = [seen EXCEPT ![c] = m.shown[c]]
  BY DEF Signal
<1>5. /\ seen' \in [Calls -> Answers]
      /\ \A d \in m.waiting : seen'[d] \in {"NONE", "INCOMING"}
  BY <1>1, <1>2, <1>4 DEF IInv, Fresh
<1>6. /\ Settled(m') /\ (Fragile = {} => Kept(m'))
      /\ \A d \in (m').waiting : seen'[d] \in {"NONE", "INCOMING"}
  BY <1>4, <1>5 DEF IInv
<1> QED
  BY <1>3, <1>5, <1>6 DEF IInv, Settled, Kept, Clean

\* Every step keeps the invariant.
LEMMA StepKeeps ==
    ASSUME IInv, [Next]_vars
    PROVE  IInv'
<1>1. ASSUME NEW c \in Calls, CallStep(c)
      PROVE  IInv'
  BY <1>1, CallsBeginKeep, RepliesKeep, CommandsKeep, MovesKeep, PeersKeep DEF CallStep
<1>2. ASSUME NEW f \in Confs, ConferenceStep(f)
      PROVE  IInv'
  BY <1>2, MovesKeep, PlaceConferenceKeeps, ConferencesKeep DEF ConferenceStep
<1>3. CASE UNCHANGED vars
  <2>1. m' = m /\ seen' = seen
    BY <1>3 DEF vars
  <2>2. Settled(m') /\ Rung(m') = Rung(m) /\ Kept(m') = Kept(m) /\ Honest(m') = Honest(m)
    BY <2>1 DEF IInv
  <2> QED
    BY <2>1, <2>2 DEF IInv, Settled, Rung, Kept, Honest, Clean
<1> QED
  BY <1>1, <1>2, <1>3, SignalKeeps DEF Next

\* It holds when the daemon has started.
LEMMA StartKeeps ==
    ASSUME Init
    PROVE  IInv
<1>1. m = Start /\ seen = m.shown
  BY DEF Init
<1>2. NewCall \in CallRecords /\ NewConference \in ConfRecords
  BY DEF NewCall, NewConference, CallRecords, ConfRecords
<1>3. m.call \in [Calls -> CallRecords] /\ m.conf \in [Confs -> ConfRecords]
  BY <1>1, <1>2 DEF Start
<1>4. m.nbWaiting = Cardinality(m.waiting)
  BY <1>1, FS_EmptySet DEF Start
<1>5. Typed(m)
  BY <1>1, <1>3, <1>4 DEF Typed, ManagerStates, CallRecords, ConfRecords, Start
<1>6. Fresh(m) /\ Grouped(m) /\ Separate(m)
  BY <1>1 DEF Start, Fresh, Grouped, Separate
<1>7. Forgotten(m) /\ Begun(m)
  BY <1>1 DEF Start, Forgotten, Begun, NewCall
<1>8. Settled(m)
  BY <1>1, <1>5, <1>6, <1>7 DEF Settled, Sound, Alone, Start
<1>9. Kept(m) /\ Honest(m) /\ Rung(m) /\ ~m.aborted
  BY <1>1 DEF Kept, Named, Honest, Rung, Start
<1>10. seen \in [Calls -> Answers] /\ \A c \in m.waiting : seen[c] \in {"NONE", "INCOMING"}
  BY <1>1 DEF Start, Answers
<1> QED
  BY <1>1, <1>8, <1>9, <1>10 DEF IInv

\* The invariant is inductive: it holds in every reachable state, for all calls
\* and conferences, whatever the peers do and in whatever order the client's
\* commands and their messages come.
THEOREM Inductive == Spec => []IInv
<1>1. Init => IInv
  BY StartKeeps
<1>2. IInv /\ [Next]_vars => IInv'
  BY StepKeeps
<1> QED
  BY <1>1, <1>2, PTL DEF Spec

\* The maps and objects of the manager, of the link and of the client hold what
\* their types allow.
THEOREM TypeCorrect == Spec => []TypeOK
<1>1. IInv => TypeOK
  BY DEF IInv, Settled, Sound, Typed, TypeOK, Answers
<1> QED
  BY <1>1, Inductive, PTL

\* Conference::_nbParticipant is the size of the participant set, and never below
\* two while the conference exists: also with peers that cannot be reached, whose
\* handlers return early, and with a client that knows less than the daemon.
THEOREM CountsAgree == Spec => []ParticipantsCounted
<1>1. IInv => ParticipantsCounted
  BY DEF IInv, Settled, Sound, Grouped, ParticipantsCounted
<1> QED
  BY <1>1, Inductive, PTL

\* _nbIncomingWaitingCall is the number of calls that wait, and those exist, are
\* incoming and ring.
THEOREM WaitingCallsCounted == Spec => []WaitingCounted
<1>1. IInv => WaitingCounted
  BY DEF IInv, Settled, Sound, Typed, Fresh, WaitingCounted
<1> QED
  BY <1>1, Inductive, PTL

\* When the client learns of every change at once, a call is in a conference's set
\* exactly when it exists and carries the conference's id, also when peers cannot
\* be reached.
THEOREM MembersCarryTheId == ~Lag => (Spec => []Membership)
<1>1. ~Lag /\ IInv => Membership
  <2>1. ASSUME ~Lag, IInv, NEW f \in m.confs, NEW c \in Calls
        PROVE  c \in m.conf[f].parts <=> c \in m.live /\ m.call[c].confId = f
    BY <2>1 DEF IInv, Settled, Sound, Grouped
  <2> QED
    BY <2>1 DEF Membership
<1>2. CASE Lag
  BY <1>2
<1>3. CASE ~Lag
  <2>1. IInv => Membership
    BY <1>1, <1>3
  <2>2. Spec => []Membership
    BY <2>1, Inductive, PTL
  <2> QED
    BY <2>2
<1> QED
  BY <1>2, <1>3

\* And two calls hear each other only within one conference.
THEOREM ConferencesKeepApart == ~Lag => (Spec => []ConferencesAreSeparate)
<1>1. ~Lag /\ IInv => ConferencesAreSeparate
  <2>1. ASSUME ~Lag, IInv, NEW c \in Calls, NEW d \in Calls, c # d, {c, d} \in m.bound
        PROVE  m.call[c].confId = m.call[d].confId /\ m.call[c].confId # None
    <3>1. m.confs \subseteq Confs
      BY <2>1, TypedFields DEF IInv, Settled, Sound
    <3> QED
      BY <2>1, <3>1, NamesAssumption DEF IInv, Settled, Sound, Separate
  <2> QED
    BY <2>1 DEF ConferencesAreSeparate
<1>2. CASE Lag
  BY <1>2
<1>3. CASE ~Lag
  <2>1. IInv => ConferencesAreSeparate
    BY <1>1, <1>3
  <2>2. Spec => []ConferencesAreSeparate
    BY <2>1, Inductive, PTL
  <2> QED
    BY <2>2
<1> QED
  BY <1>2, <1>3

\* While every peer can be reached, no call carries the id of a conference that is
\* gone, however far behind the client is.
THEOREM IdsNameConferences == Fragile = {} => (Spec => []ConfIdNamesConference)
<1>1. CASE Fragile = {}
  <2>1. IInv => ConfIdNamesConference
    BY <1>1 DEF IInv, Kept, Named, ConfIdNamesConference
  <2>2. Spec => []ConfIdNamesConference
    BY <2>1, Inductive, PTL
  <2> QED
    BY <2>2
<1> QED
  BY <1>1

\* And a call with an account exists.
THEOREM AccountsNameCalls == Fragile = {} => (Spec => []KnownCalls)
<1>1. CASE Fragile = {}
  <2>1. IInv => KnownCalls
    BY <1>1 DEF IInv, Kept, KnownCalls
  <2>2. Spec => []KnownCalls
    BY <2>1, Inductive, PTL
  <2> QED
    BY <2>2
<1> QED
  BY <1>1

\* While every peer can be reached, and the client knows all at once and joins no
\* call that failed, no handler uses a call that does not exist.
THEOREM CallsUsedExist == Clean => (Spec => []NoNullCall)
<1>1. CASE Clean
  <2>1. IInv => NoNullCall
    BY <1>1 DEF IInv, NoNullCall
  <2>2. Spec => []NoNullCall
    BY <2>1, Inductive, PTL
  <2> QED
    BY <2>2
<1> QED
  BY <1>1

--------------------------------------------------------------------------------
(***************************************************************************)
(* Part 2. Who hears whom.                                                 *)
(***************************************************************************)

\* A call that talks.
Talks(n, c) ==
    c \in n.live /\ n.call[c].state = "Active" /\ n.call[c].conn = "Connected"

\* Two calls of one conference talk and do not hear each other.
Deaf(n, c, d) ==
    /\ c # d /\ {c, d} \notin n.bound
    /\ n.call[c].confId \in n.confs /\ n.call[d].confId = n.call[c].confId
    /\ Talks(n, c) /\ Talks(n, d)

\* A stream without a call.
Orphan(n, c) == c \notin n.live /\ \E b \in n.bound : c \in b

\* An answered call on hold that the user hears.
HeldHeard(n, c) ==
    /\ c \in n.live
    /\ n.call[c].state = "Hold" /\ n.call[c].conn = "Connected"
    /\ {c, Default} \in n.bound

\* From n to k no two calls stopped hearing each other in their conference, no
\* stream lost its call, and of the calls on hold at most those of C got the
\* user's audio.
Audio(k, n, C) ==
    /\ k.cutOff = n.cutOff
    /\ ~Lag => \A c, d \in Calls : Deaf(k, c, d) => Deaf(n, c, d)
    /\ ~Lag => \A c \in Calls : Orphan(k, c) => Orphan(n, c)
    /\ \A c \in Calls \ C : HeldHeard(k, c) => HeldHeard(n, c)

\* The calls of conferences are among C.
Inside(n, C) == \A c \in Calls \ C : n.call[c].confId = None

\* The state of the daemon is a record with its fields, also where their types are
\* not known.
Shaped(n) ==
    {"current", "account", "live", "call", "confs", "conf", "waiting",
     "nbWaiting", "bound", "shown", "cutOff", "aborted"} \subseteq DOMAIN n

\* What is heard depends on nothing that changed from n to k.
Quiet(k, n) ==
    /\ Shaped(k)
    /\ k.bound = n.bound /\ k.call = n.call /\ k.live = n.live
    /\ k.confs = n.confs /\ k.cutOff = n.cutOff

\* A state with its types has its fields.
LEMMA TypedShaped == ASSUME NEW n, Typed(n) PROVE Shaped(n)
  BY DEF Typed, ManagerStates, Shaped

\* What the daemon notes of a call, and which call is current, are not heard.
LEMMA QuietSteps ==
    ASSUME NEW n, Shaped(n), NEW id, NEW c, NEW s
    PROVE  /\ Quiet(n, n)
           /\ Quiet(switchCall(n, id), n)
           /\ Quiet(callStateChanged(n, c, s), n)
           /\ Quiet(removeWaitingCall(n, c), n)
           /\ Quiet(removeCallAccount(n, c), n)
           /\ Quiet(abort(n), n)
  BY DEF Shaped, Quiet, switchCall, callStateChanged, removeWaitingCall,
         removeCallAccount, abort

\* Two such steps are one.
LEMMA QuietTrans ==
    ASSUME NEW n, NEW k, NEW l, Quiet(k, n), Quiet(l, k)
    PROVE  Quiet(l, n)
  BY DEF Quiet

\* A quiet step changes nothing that Audio speaks of.
LEMMA QuietAudio ==
    ASSUME NEW n, NEW k, Quiet(k, n), NEW C
    PROVE  Audio(k, n, C)
  BY DEF Quiet, Audio, Deaf, Talks, Orphan, HeldHeard

\* Audio holds of a chain of steps.
LEMMA AudioTrans ==
    ASSUME NEW n, NEW k, NEW l, NEW C, Audio(k, n, C), Audio(l, k, C)
    PROVE  Audio(l, n, C)
  BY DEF Audio

\* unBindAll takes the bindings of one stream away and changes nothing else.
LEMMA UnBindAllFields ==
    ASSUME NEW n, Shaped(n), NEW x
    PROVE  LET k == unBindAll(n, x) IN
           /\ Shaped(k) /\ k.bound = {b \in n.bound : x \notin b}
           /\ k.call = n.call /\ k.live = n.live /\ k.confs = n.confs
           /\ k.cutOff = n.cutOff /\ k.conf = n.conf /\ k.shown = n.shown
           /\ k.current = n.current /\ k.account = n.account
           /\ k.waiting = n.waiting
  BY DEF Shaped, unBindAll

\* The user's stream goes from everybody.
LEMMA UserUnbound ==
    ASSUME NEW n, Shaped(n), NEW C
    PROVE  Audio(unBindAll(n, Default), n, C)
<1> DEFINE k == unBindAll(n, Default)
<1>1. /\ k.bound = {b \in n.bound : Default \notin b}
      /\ k.call = n.call /\ k.live = n.live /\ k.confs = n.confs
      /\ k.cutOff = n.cutOff
  BY UnBindAllFields
<1> HIDE DEF k
<1>2. \A c, d \in Calls : {c, d} \in n.bound => {c, d} \in k.bound
  BY <1>1, NamesAssumption
<1>3. \A c, d \in Calls : Deaf(k, c, d) => Deaf(n, c, d)
  BY <1>1, <1>2 DEF Deaf, Talks
<1>4. \A c \in Calls : Orphan(k, c) => Orphan(n, c)
  BY <1>1 DEF Orphan
<1>5. \A c \in Calls : HeldHeard(k, c) => HeldHeard(n, c)
  BY <1>1 DEF HeldHeard
<1> QED
  BY <1>1, <1>3, <1>4, <1>5 DEF Audio, k

\* onHoldCall unbinds its call and puts it on hold, or does nothing.
LEMMA OnHoldCallFields ==
    ASSUME NEW n, Shaped(n), NEW c \in n.account
    PROVE  LET k == onHoldCall(n, c) IN
           /\ Shaped(k) /\ k.bound = {b \in n.bound : c \notin b}
           /\ k.call = IF c \in n.live THEN [n.call EXCEPT ![c] = Held(n, c)]
                       ELSE n.call
           /\ k.live = n.live /\ k.confs = n.confs /\ k.cutOff = n.cutOff
           /\ k.conf = n.conf
           /\ k.shown = [n.shown EXCEPT ![c] = "HOLD"]
           /\ k.account = n.account
<1> DEFINE a == linkOnHold(n, c)
           b == unBindAll(a, c)
           d == removeWaitingCall(b, c)
           e == IF n.current = c THEN switchCall(d, None) ELSE d
           k == callStateChanged(e, c, "HOLD")
<1>1. onHoldCall(n, c) = k
  BY DEF onHoldCall, removeStream
<1>2. /\ Shaped(a) /\ a.bound = n.bound
      /\ a.call = IF c \in n.live THEN [n.call EXCEPT ![c] = Held(n, c)] ELSE n.call
      /\ a.live = n.live /\ a.confs = n.confs /\ a.cutOff = n.cutOff
      /\ a.conf = n.conf /\ a.shown = n.shown /\ a.account = n.account
  BY DEF Shaped, linkOnHold
<1> HIDE DEF a
<1>3. /\ Shaped(b) /\ b.bound = {z \in a.bound : c \notin z}
      /\ b.call = a.call /\ b.live = a.live /\ b.confs = a.confs
      /\ b.cutOff = a.cutOff /\ b.conf = a.conf /\ b.shown = a.shown
      /\ b.account = a.account
  BY <1>2, UnBindAllFields
<1> HIDE DEF b
<1>4. Quiet(d, b) /\ d.conf = b.conf /\ d.shown = b.shown /\ d.account = b.account
  BY <1>3, QuietSteps DEF removeWaitingCall, Shaped
<1> HIDE DEF d
<1>5. Quiet(e, d) /\ e.conf = d.conf /\ e.shown = d.shown /\ e.account = d.account
  BY <1>4, QuietSteps DEF switchCall, Shaped, Quiet
<1> HIDE DEF e
<1>6. /\ Quiet(k, e) /\ k.conf = e.conf /\ k.account = e.account
      /\ k.shown = [e.shown EXCEPT ![c] = "HOLD"]
  BY <1>5, QuietSteps DEF callStateChanged, Shaped, Quiet
<1> HIDE DEF k
<1> QED
  BY <1>1, <1>2, <1>3, <1>4, <1>5, <1>6 DEF Quiet

\* In either case there are the same calls and conferences, and no new bindings.
LEMMA OnHoldCallKeeps ==
    ASSUME NEW n, Shaped(n), NEW c
    PROVE  LET k == onHoldCall(n, c) IN
           /\ Shaped(k) /\ k.bound \subseteq n.bound /\ k.live = n.live
           /\ k.confs = n.confs /\ k.conf = n.conf
<1>1. CASE c \notin n.account
  BY <1>1 DEF onHoldCall
<1>2. CASE c \in n.account
  <2> DEFINE k == onHoldCall(n, c)
  <2>1. /\ Shaped(k) /\ k.bound = {b \in n.bound : c \notin b}
        /\ k.live = n.live /\ k.confs = n.confs /\ k.conf = n.conf
    BY <1>2, OnHoldCallFields
  <2> HIDE DEF k
  <2> QED
    BY <2>1 DEF k
<1> QED
  BY <1>1, <1>2

\* Nobody in a conference stops hearing others by a hold but the call on hold,
\* which does not talk.
LEMMA OnHoldCallAudio ==
    ASSUME NEW n, Typed(n), NEW c, NEW C
    PROVE  Audio(onHoldCall(n, c), n, C)
<1> DEFINE k == onHoldCall(n, c)
<1>1. CASE c \notin n.account
  BY <1>1, TypedShaped, QuietSteps, QuietAudio DEF onHoldCall
<1>2. CASE c \in n.account
  <2>1. /\ k.bound = {b \in n.bound : c \notin b}
        /\ k.call = IF c \in n.live THEN [n.call EXCEPT ![c] = Held(n, c)]
                    ELSE n.call
        /\ k.live = n.live /\ k.confs = n.confs /\ k.cutOff = n.cutOff
    BY <1>2, TypedShaped, OnHoldCallFields
  <2>2. n.call \in [Calls -> CallRecords] /\ c \in Calls
    BY <1>2, TypedFields
  <2>2a. Held(n, c).state = "Hold" /\ Held(n, c).confId = n.call[c].confId
    BY <2>2, HeldFields
  <2> HIDE DEF k
  <2>3. /\ \A d \in Calls : d # c => k.call[d] = n.call[d]
        /\ c \in n.live => k.call[c].state = "Hold"
        /\ \A d \in Calls : k.call[d].confId = n.call[d].confId
    BY <2>1, <2>2, <2>2a
  <2>4. \A x, y \in Calls : Deaf(k, x, y) => Deaf(n, x, y)
    <3> SUFFICES ASSUME NEW x \in Calls, NEW y \in Calls, Deaf(k, x, y)
                 PROVE  Deaf(n, x, y)
      OBVIOUS
    <3>1. x # c /\ y # c
      BY <2>1, <2>3 DEF Deaf, Talks
    <3>2. {x, y} \in n.bound => {x, y} \in k.bound
      BY <2>1, <3>1
    <3> QED
      BY <2>1, <2>3, <3>1, <3>2 DEF Deaf, Talks
  <2>5. \A x \in Calls : Orphan(k, x) => Orphan(n, x)
    BY <2>1 DEF Orphan
  <2>6. \A x \in Calls : HeldHeard(k, x) => HeldHeard(n, x)
    BY <2>1, <2>3 DEF HeldHeard
  <2> QED
    BY <2>1, <2>4, <2>5, <2>6 DEF Audio, k
<1> QED
  BY <1>1, <1>2

\* detachMainParticipant: the user leaves a conference, whose calls hear each other on.
LEMMA DetachMainParticipantAudio ==
    ASSUME NEW n, Typed(n), NEW C
    PROVE  Audio(detachMainParticipant(n), n, C)
<1> DEFINE u == unBindAll(n, Default)
           l == [u EXCEPT !.conf[u.current].state =
                    IF @ = "ACTIVE_ATTACHED" THEN "ACTIVE_DETACHED" ELSE @]
           k == switchCall(l, None)
<1>1. Audio(u, n, C) /\ Shaped(u)
  BY TypedShaped, UserUnbound, UnBindAllFields
<1>2. detachMainParticipant(n) \in {u, k}
  BY DEF detachMainParticipant
<1> HIDE DEF u
<1>3. Quiet(l, u)
  BY <1>1 DEF Quiet, Shaped
<1> HIDE DEF l
<1>4. Quiet(k, l)
  BY <1>3, QuietSteps DEF Quiet
<1> HIDE DEF k
<1>5. Audio(k, u, C)
  BY <1>3, <1>4, QuietTrans, QuietAudio
<1> QED
  BY <1>1, <1>2, <1>5, AudioTrans

\* leaveCurrent: whichever the user leaves, a call or a conference, no stream is missing.
LEMMA LeaveCurrentAudio ==
    ASSUME NEW n, Typed(n), NEW c, NEW C
    PROVE  Audio(leaveCurrent(n, c), n, C)
<1>1. Audio(n, n, C)
  BY DEF Audio
<1> QED
  BY <1>1, DetachMainParticipantAudio, OnHoldCallAudio DEF leaveCurrent

--------------------------------------------------------------------------------
(***************************************************************************)
(* Getting streams.                                                        *)
(***************************************************************************)

\* All that talk in c's conference hear c, and c them.
AllHear(n, c) == \A x \in Calls : ~Deaf(n, c, x) /\ ~Deaf(n, x, c)

\* As Audio, but for who hears the calls of D in their conferences.
AudioBut(k, n, C, D) ==
    /\ k.cutOff = n.cutOff
    /\ ~Lag => \A x, y \in Calls \ D : Deaf(k, x, y) => Deaf(n, x, y)
    /\ ~Lag => \A x \in Calls : Orphan(k, x) => Orphan(n, x)
    /\ \A x \in Calls \ C : HeldHeard(k, x) => HeldHeard(n, x)

\* Once those of D are heard by all in their conferences, the step was one of Audio.
LEMMA AudioRestored ==
    ASSUME NEW n, NEW k, NEW l, NEW C, NEW D,
           AudioBut(k, n, C, D), Audio(l, k, C), ~Lag => \A c \in D : AllHear(l, c)
    PROVE  Audio(l, n, C)
  BY DEF Audio, AudioBut, AllHear

\* bindParticipant: everybody in the conference hears the call.
LEMMA BindParticipantAudio ==
    ASSUME NEW n, Sound(n), NEW f \in n.confs, NEW c \in n.live, n.call[c].confId = f,
           NEW C, Inside(n, C)
    PROVE  LET k == bindParticipant(n, f, c) IN
           Audio(k, n, C) /\ (~Lag => AllHear(k, c))
<1> DEFINE P == n.conf[f].parts \ {c}
           k == bindParticipant(n, f, c)
<1>1. Typed(n) /\ Shaped(n) /\ c \in Calls /\ f \in Confs /\ f # None
  BY TypedFields, TypedShaped, NamesAssumption DEF Sound
<1>2. /\ k.bound = n.bound \cup {{c, x} : x \in P \cup {Default}}
      /\ k.call = n.call /\ k.live = n.live /\ k.confs = n.confs
      /\ k.cutOff = n.cutOff
  <2>1. n.conf[f].nb >= 2
    BY DEF Sound, Grouped
  <2>2. n.conf[f].nb \in Int
    BY <1>1, TypedFields DEF ConfRecords
  <2> QED
    BY <1>1, <2>1, <2>2 DEF bindParticipant, Shaped
<1>3. /\ \A x \in n.live : x \in n.conf[f].parts <=> n.call[x].confId = f
      /\ ~Lag => n.conf[f].parts \subseteq n.live
      /\ n.conf[f].parts \subseteq Calls /\ n.live \subseteq Calls
  BY <1>1, TypedFields DEF Sound, Grouped, ConfRecords
<1> HIDE DEF k
<1>4. \A x, y \in Calls : Deaf(k, x, y) => Deaf(n, x, y)
  BY <1>2 DEF Deaf, Talks
<1>5. ~Lag => \A x \in Calls : Orphan(k, x) => Orphan(n, x)
  BY <1>2, <1>3, NamesAssumption DEF Orphan
<1>6. \A x \in Calls \ C : HeldHeard(k, x) => HeldHeard(n, x)
  <2> SUFFICES ASSUME NEW x \in Calls \ C, HeldHeard(k, x)
               PROVE  HeldHeard(n, x)
    OBVIOUS
  <2>1. x # c
    BY <1>1 DEF Inside
  <2>2. x # Default /\ c # Default
    BY <1>1, NamesAssumption
  <2>3. \A y : {x, Default} # {c, y}
    BY <2>1, <2>2
  <2>4. {x, Default} \in n.bound
    BY <1>2, <2>3 DEF HeldHeard
  <2> QED
    BY <1>2, <2>4 DEF HeldHeard
<1>7. ~Lag => AllHear(k, c)
  <2> SUFFICES ASSUME NEW x \in Calls, Deaf(k, c, x) \/ Deaf(k, x, c)
               PROVE  FALSE
    BY DEF AllHear
  <2>1. x # c /\ x \in n.live /\ n.call[x].confId = f /\ {c, x} \notin k.bound
    <3>1. {x, c} = {c, x}
      OBVIOUS
    <3> QED
      BY <1>2, <3>1 DEF Deaf, Talks
  <2>2. x \in P
    BY <1>3, <2>1
  <2> QED
    BY <1>2, <2>1, <2>2
<1> QED
  BY <1>2, <1>4, <1>5, <1>6, <1>7 DEF Audio, k

\* addStream changes bindings only.
LEMMA AddStreamFields ==
    ASSUME NEW n, Shaped(n), NEW c
    PROVE  LET k == addStream(n, c) IN
           /\ Shaped(k) /\ n.bound \subseteq k.bound /\ k.call = n.call
           /\ k.live = n.live /\ k.confs = n.confs /\ k.cutOff = n.cutOff
           /\ k.shown = n.shown
  BY DEF Shaped, addStream, bindCallID, bindParticipant

\* addStream of one of C, or of a call that talks.
LEMMA AddStreamAudio ==
    ASSUME NEW n, Sound(n), NEW c \in Calls, ~Lag => c \in n.live,
           NEW C, Inside(n, C),
           c \notin C => n.call[c].state = "Active"
    PROVE  LET k == addStream(n, c) IN
           Audio(k, n, C) /\ (~Lag => AllHear(k, c))
<1>1. Typed(n) /\ Shaped(n)
  BY TypedShaped DEF Sound
<1>2. CASE ~participToConference(n, c)
  <2> DEFINE k == bindCallID(n, c, Default)
  <2>1. addStream(n, c) = k
    BY <1>2 DEF addStream
  <2>2. /\ k.bound = n.bound \cup {{c, Default}}
        /\ k.call = n.call /\ k.live = n.live /\ k.confs = n.confs
        /\ k.cutOff = n.cutOff
    BY <1>1 DEF bindCallID, Shaped
  <2> HIDE DEF k
  <2>3. \A x, y \in Calls : Deaf(k, x, y) => Deaf(n, x, y)
    BY <2>2 DEF Deaf, Talks
  <2>4. ~Lag => \A x \in Calls : Orphan(k, x) => Orphan(n, x)
    BY <2>2, NamesAssumption DEF Orphan
  <2>5. \A x \in Calls \ C : HeldHeard(k, x) => HeldHeard(n, x)
    <3> SUFFICES ASSUME NEW x \in Calls \ C, HeldHeard(k, x)
                 PROVE  HeldHeard(n, x)
      OBVIOUS
    <3>1. x # c
      BY <2>2 DEF HeldHeard
    <3>2. x # Default /\ c # Default
      BY NamesAssumption
    <3>3. {x, Default} # {c, Default}
      BY <3>1, <3>2
    <3> QED
      BY <2>2, <3>3 DEF HeldHeard
  <2>6. AllHear(k, c)
    <3>1. c \notin n.live \/ n.call[c].confId = None
      BY <1>2 DEF participToConference
    <3>2. None \notin n.confs
      BY <1>1, TypedFields, NamesAssumption
    <3> QED
      BY <2>2, <3>1, <3>2 DEF AllHear, Deaf, Talks
  <2> QED
    BY <2>1, <2>2, <2>3, <2>4, <2>5, <2>6 DEF Audio
<1>3. CASE participToConference(n, c) /\ n.call[c].confId \in n.confs
  <2>1. addStream(n, c) = bindParticipant(n, n.call[c].confId, c)
    BY <1>3 DEF addStream
  <2>2. c \in n.live
    BY <1>3 DEF participToConference
  <2> QED
    BY <1>3, <2>1, <2>2, BindParticipantAudio
<1>4. CASE participToConference(n, c) /\ n.call[c].confId \notin n.confs
  <2>1. addStream(n, c) = n
    BY <1>4 DEF addStream
  <2>2. Audio(n, n, C) /\ AllHear(n, c)
    BY <1>4 DEF Audio, AllHear, Deaf
  <2> QED
    BY <2>1, <2>2
<1> QED
  BY <1>2, <1>3, <1>4

\* The calls in conferences stay the same in a steady step.
LEMMA SteadyInside ==
    ASSUME NEW n, NEW k, Steady(k, n), NEW C, Inside(n, C)
    PROVE  Inside(k, C)
  BY DEF Steady, Inside

\* The link resumes a call: only that one may talk and not be heard now.
LEMMA LinkOffHoldAudio ==
    ASSUME NEW n, Typed(n), NEW c \in Calls, NEW C
    PROVE  LET k == linkOffHold(n, c) IN
           AudioBut(k, n, C, {c}) /\ Shaped(k)
<1> DEFINE k == linkOffHold(n, c)
           r == [n.call[c] EXCEPT !.state = "Active", !.invite = "other"]
<1>1. Shaped(n) /\ n.call \in [Calls -> CallRecords]
  BY TypedFields, TypedShaped
<1>2. CASE c \in n.live /\ Reinvited(n, c)
  <2>1. /\ Shaped(k) /\ k.bound = n.bound /\ k.live = n.live /\ k.confs = n.confs
        /\ k.cutOff = n.cutOff /\ k.call = [n.call EXCEPT ![c] = r]
    BY <1>1, <1>2 DEF linkOffHold, Shaped
  <2>2. r.state = "Active" /\ r.confId = n.call[c].confId
    BY <1>1 DEF CallRecords
  <2> HIDE DEF k, r
  <2>3. /\ \A d \in Calls : d # c => k.call[d] = n.call[d]
        /\ k.call[c] = r
    BY <1>1, <2>1
  <2>4. \A x, y \in Calls \ {c} : Deaf(k, x, y) => Deaf(n, x, y)
    BY <2>1, <2>3 DEF Deaf, Talks
  <2>5. \A x \in Calls : HeldHeard(k, x) => HeldHeard(n, x)
    BY <2>1, <2>2, <2>3 DEF HeldHeard
  <2>6. AudioBut(k, n, C, {c})
    BY <2>1, <2>4, <2>5 DEF AudioBut, Orphan
  <2> QED
    BY <2>1, <2>6 DEF k
<1>3. CASE ~(c \in n.live /\ Reinvited(n, c))
  <2>1. k = n
    BY <1>3 DEF linkOffHold
  <2>2. AudioBut(n, n, C, {c})
    BY DEF AudioBut
  <2> QED
    BY <1>1, <2>1, <2>2
<1> QED
  BY <1>2, <1>3

\* offHoldCall: whoever is put on hold or left before, no stream is missing after.
LEMMA OffHoldCallAudio ==
    ASSUME NEW n, Sound(n), NEW c \in n.live, c \notin n.waiting, NEW C, Inside(n, C),
           c \in C
    PROVE  LET k == offHoldCall(n, c) IN
           Audio(k, n, C) /\ (~Lag => AllHear(k, c))
<1> DEFINE a == leaveCurrent(n, c)
           b == linkOffHold(a, c)
           d == callStateChanged(b, c, "CURRENT")
           e == switchToCall(d, c)
           k == addStream(e, c)
<1>0. Typed(n) /\ c \in Calls
  BY TypedFields DEF Sound
<1>1. Steady(a, n) /\ Audio(a, n, C)
  BY <1>0, LeaveCurrentSteady, LeaveCurrentAudio
<1>2. Sound(a) /\ c \in a.live /\ Typed(a) /\ c \notin a.waiting
  BY <1>1, SteadySound DEF Steady
<1>3. offHoldCall(n, c) = k
  BY <1>2 DEF offHoldCall
<1> HIDE DEF a
<1>4. Steady(b, a) /\ AudioBut(b, a, C, {c}) /\ Shaped(b)
  BY <1>0, <1>2, LinkOffHoldSteady, LinkOffHoldAudio
<1>5. Typed(b) /\ c \notin b.waiting
  BY <1>2, <1>4 DEF Steady
<1> HIDE DEF b
<1>6. Steady(d, b) /\ Quiet(d, b)
  BY <1>0, <1>4, <1>5, CallStateChangedSteady, QuietSteps DEF Answers
<1>7. Typed(d) /\ Shaped(d)
  BY <1>6, TypedShaped DEF Steady
<1> HIDE DEF d
<1>8. Steady(e, d) /\ Quiet(e, d)
  BY <1>0, <1>7, SwitchToCallSteady, QuietSteps DEF switchToCall
<1> HIDE DEF e
<1>9. Quiet(e, b)
  BY <1>6, <1>8, QuietTrans
<1>10. Steady(b, n) /\ Steady(d, n)
  BY <1>0, <1>1, <1>4, <1>6, SteadyTrans
<1>11. Steady(e, n)
  BY <1>0, <1>8, <1>10, SteadyTrans
<1>12. Sound(e) /\ c \in e.live /\ Inside(e, C)
  BY <1>11, SteadySound, SteadyInside DEF Steady
<1>13. Audio(k, e, C) /\ (~Lag => AllHear(k, c))
  BY <1>0, <1>12, AddStreamAudio
<1> HIDE DEF k
<1>14. Audio(k, b, C)
  BY <1>9, <1>13, QuietAudio, AudioTrans
<1>15. Audio(k, a, C)
  BY <1>4, <1>13, <1>14, AudioRestored
<1> QED
  BY <1>1, <1>3, <1>13, <1>15, AudioTrans

\* The link answers a call: again only that one may talk and not be heard now.
LEMMA LinkAnswerAudio ==
    ASSUME NEW n, Typed(n), NEW c \in Calls, NEW C
    PROVE  LET k == removeWaitingCall(linkAnswer(n, c), c) IN
           AudioBut(k, n, C, {c})
<1> DEFINE a == linkAnswer(n, c)
           k == removeWaitingCall(a, c)
           r == [n.call[c] EXCEPT !.conn = "Connected", !.state = "Active"]
<1>1. Shaped(n) /\ n.call \in [Calls -> CallRecords]
  BY TypedFields, TypedShaped
<1>2. CASE c \in n.live /\ n.call[c].invite = "received" /\ c \notin n.cutOff
  <2>1. /\ Shaped(a) /\ a.bound = n.bound /\ a.live = n.live /\ a.confs = n.confs
        /\ a.cutOff = n.cutOff /\ a.call = [n.call EXCEPT ![c] = r]
    BY <1>1, <1>2 DEF linkAnswer, Shaped
  <2>2. r.state = "Active" /\ r.confId = n.call[c].confId
    BY <1>1 DEF CallRecords
  <2> HIDE DEF a, r
  <2>2a. Quiet(k, a)
    BY <2>1, QuietSteps
  <2> HIDE DEF k
  <2>3. /\ \A d \in Calls : d # c => k.call[d] = n.call[d]
        /\ k.call[c] = r
        /\ k.bound = n.bound /\ k.live = n.live /\ k.confs = n.confs
        /\ k.cutOff = n.cutOff
    BY <1>1, <2>1, <2>2a DEF Quiet
  <2>4. \A x, y \in Calls \ {c} : Deaf(k, x, y) => Deaf(n, x, y)
    BY <2>3 DEF Deaf, Talks
  <2>5. \A x \in Calls : HeldHeard(k, x) => HeldHeard(n, x)
    BY <2>2, <2>3 DEF HeldHeard
  <2>6. AudioBut(k, n, C, {c})
    BY <2>3, <2>4, <2>5 DEF AudioBut, Orphan
  <2> QED
    BY <2>6 DEF k, a
<1>3. CASE ~(c \in n.live /\ n.call[c].invite = "received" /\ c \notin n.cutOff)
  <2>1. a = n
    BY <1>3 DEF linkAnswer
  <2>2. Quiet(k, n)
    BY <1>1, <2>1, QuietSteps
  <2>3. Audio(k, n, C)
    BY <2>2, QuietAudio
  <2> QED
    BY <2>3 DEF AudioBut, Audio
<1> QED
  BY <1>2, <1>3

\* answerCall of a call that exists, or by a client that is behind.
LEMMA AnswerCallAudio ==
    ASSUME NEW n, Sound(n), NEW c \in Calls, ~Lag => c \in n.live,
           NEW C, Inside(n, C), c \in C
    PROVE  LET k == answerCall(n, c) IN
           Audio(k, n, C) /\ (~Lag => AllHear(k, c))
<1> DEFINE a == leaveCurrent(n, c)
           b == removeWaitingCall(linkAnswer(a, c), c)
           d == switchToCall(b, c)
           e == addStream(d, c)
           k == callStateChanged(e, c, "CURRENT")
<1>0. Typed(n)
  BY DEF Sound
<1>1. Steady(a, n) /\ Audio(a, n, C)
  BY <1>0, LeaveCurrentSteady, LeaveCurrentAudio
<1>2. Typed(a) /\ a.live = n.live
  BY <1>1 DEF Steady
<1>3. answerCall(n, c) = k
  BY DEF answerCall
<1> HIDE DEF a
<1>4. Steady(b, a) /\ AudioBut(b, a, C, {c})
  BY <1>2, LinkAnswerSteady, LinkAnswerAudio
<1> HIDE DEF b
<1>5. Typed(b) /\ b.live = a.live /\ b.cutOff = a.cutOff
  BY <1>4 DEF Steady
<1>6. Steady(d, b) /\ Quiet(d, b)
  BY <1>5, TypedShaped, SwitchToCallSteady, QuietSteps DEF switchToCall
<1> HIDE DEF d
<1>7. Steady(b, n)
  BY <1>0, <1>1, <1>4, SteadyTrans
<1>8. Steady(d, n)
  BY <1>0, <1>6, <1>7, SteadyTrans
<1>9. Sound(d) /\ Inside(d, C) /\ d.live = n.live
  BY <1>8, SteadySound, SteadyInside DEF Steady
<1>11. Audio(e, d, C) /\ (~Lag => AllHear(e, c))
  BY <1>9, AddStreamAudio
<1>12. Steady(e, d)
  BY <1>9, AddStreamSteady
<1> HIDE DEF e
<1>13. Shaped(e)
  BY <1>12, TypedShaped DEF Steady
<1>14. Quiet(k, e)
  BY <1>13, QuietSteps
<1> HIDE DEF k
<1>15. Audio(k, e, C) /\ (~Lag => AllHear(k, c))
  BY <1>11, <1>14, QuietAudio DEF Quiet, AllHear, Deaf, Talks
<1>16. Audio(k, b, C)
  BY <1>6, <1>11, <1>15, QuietAudio, AudioTrans
<1>17. Audio(k, a, C)
  BY <1>4, <1>15, <1>16, AudioRestored
<1> QED
  BY <1>1, <1>3, <1>15, <1>17, AudioTrans

\* The participants of a conference, and nobody else, are bound to the user.
LEMMA AddMainParticipantAudio ==
    ASSUME NEW n, Sound(n), NEW f \in Confs, NEW C, Inside(n, C)
    PROVE  Audio(addMainParticipant(n, f), n, C)
<1> DEFINE a == IF isConference(n, n.current) THEN detachMainParticipant(n)
                ELSE IF hasCurrentCall(n) THEN onHoldCall(n, n.current)
                ELSE n
           P == a.conf[f].parts
           b == [a EXCEPT !.bound = @ \cup {{p, Default} : p \in P},
                          !.conf[f].state = IF @ = "ACTIVE_DETACHED"
                                            THEN "ACTIVE_ATTACHED" ELSE @]
           d == IF f \notin a.confs THEN a ELSE b
           k == switchCall(d, f)
<1>0. Typed(n)
  BY DEF Sound
<1>1. Steady(a, n) /\ Audio(a, n, C)
  <2>1. Audio(n, n, C)
    BY DEF Audio
  <2> QED
    BY <1>0, <2>1, TypedFields, DetachMainParticipantSteady, OnHoldCallSteady,
       SteadyRefl, DetachMainParticipantAudio, OnHoldCallAudio
<1>2. Sound(a) /\ Typed(a) /\ Shaped(a) /\ Inside(a, C)
  BY <1>1, SteadySound, SteadyInside, TypedShaped DEF Sound
<1>3. addMainParticipant(n, f) = k
  BY DEF addMainParticipant
<1> HIDE DEF a
<1>4. Audio(d, a, C) /\ Shaped(d)
  <2>1. CASE f \notin a.confs
    BY <1>2, <2>1 DEF Audio
  <2>2. CASE f \in a.confs
    <3>1. /\ Shaped(b) /\ b.bound = a.bound \cup {{p, Default} : p \in P}
          /\ b.call = a.call /\ b.live = a.live /\ b.confs = a.confs
          /\ b.cutOff = a.cutOff
      BY <1>2 DEF Shaped
    <3>2. /\ \A x \in P \cap a.live : a.call[x].confId = f
          /\ ~Lag => P \subseteq a.live
          /\ P \subseteq Calls
      BY <1>2, <2>2, TypedFields DEF Sound, Grouped, ConfRecords
    <3> HIDE DEF b, P
    <3>3. \A x, y \in Calls : Deaf(b, x, y) => Deaf(a, x, y)
      BY <3>1 DEF Deaf, Talks
    <3>4. ~Lag => \A x \in Calls : Orphan(b, x) => Orphan(a, x)
      BY <3>1, <3>2, NamesAssumption DEF Orphan
    <3>5. \A x \in Calls \ C : HeldHeard(b, x) => HeldHeard(a, x)
      <4> SUFFICES ASSUME NEW x \in Calls \ C, HeldHeard(b, x)
                   PROVE  HeldHeard(a, x)
        OBVIOUS
      <4>1. x \notin P
        BY <1>2, <3>1, <3>2, NamesAssumption DEF Inside, HeldHeard
      <4>2. x # Default /\ Default \notin P
        BY <3>2, NamesAssumption
      <4>3. \A p \in P : {x, Default} # {p, Default}
        BY <4>1, <4>2
      <4> QED
        BY <3>1, <4>3 DEF HeldHeard
    <3>6. Audio(b, a, C)
      BY <3>1, <3>3, <3>4, <3>5 DEF Audio
    <3> QED
      BY <2>2, <3>1, <3>6
  <2> QED
    BY <2>1, <2>2
<1> HIDE DEF d
<1>5. Quiet(k, d)
  BY <1>4, QuietSteps
<1> HIDE DEF k
<1>6. Audio(k, a, C)
  BY <1>4, <1>5, QuietAudio, AudioTrans
<1> QED
  BY <1>1, <1>3, <1>6, AudioTrans

\* A participant that enters, whatever state it had: the others hear it.
LEMMA EnterAudio ==
    ASSUME NEW n, Sound(n), NEW f \in n.confs, NEW c \in n.live,
           n.call[c].confId = f, NEW s, s = "HOLD" => c \notin n.waiting,
           NEW answered \in SUBSET {"INCOMING", "INACTIVE"}, NEW C, Inside(n, C)
    PROVE  LET k == enter(n, f, c, s, answered) IN
           /\ Audio(k, n, C)
           /\ ~Lag /\ s \in {"HOLD", "CURRENT"} \cup answered => AllHear(k, c)
<1> DEFINE b == bindParticipant(n, f, c)
<1>1. Typed(n) /\ c \in Calls
  BY TypedFields DEF Sound
<1>2. Steady(b, n) /\ Audio(b, n, C) /\ (~Lag => AllHear(b, c))
  BY <1>1, BindParticipantSteady, BindParticipantAudio
<1>3. Sound(b) /\ Inside(b, C)
  BY <1>2, SteadySound, SteadyInside
<1>3a. c \in C
  <2>1. f # None
    BY <1>1, TypedFields, NamesAssumption
  <2> QED
    BY <1>1, <2>1 DEF Inside
<1>4. c \in b.live /\ (s = "HOLD" => c \notin b.waiting)
  BY <1>2 DEF Steady
<1> HIDE DEF b
<1>5. s = "HOLD" => /\ Audio(offHoldCall(b, c), b, C)
                    /\ ~Lag => AllHear(offHoldCall(b, c), c)
  BY <1>3, <1>3a, <1>4, OffHoldCallAudio
<1>6. Audio(answerCall(b, c), b, C) /\ (~Lag => AllHear(answerCall(b, c), c))
  BY <1>1, <1>3, <1>3a, <1>4, AnswerCallAudio
<1>7. CASE s = "HOLD" /\ enter(n, f, c, s, answered) = offHoldCall(b, c)
  BY <1>2, <1>5, <1>7, AudioTrans
<1>8. CASE enter(n, f, c, s, answered) = answerCall(b, c)
  BY <1>2, <1>6, <1>8, AudioTrans
<1>9. CASE s = "CURRENT" /\ enter(n, f, c, s, answered) = b
  BY <1>2, <1>9
<1>10. CASE s \notin {"HOLD", "CURRENT"} \cup answered /\ enter(n, f, c, s, answered) = n
  BY <1>10 DEF Audio
<1> QED
  BY <1>7, <1>8, <1>9, <1>10 DEF enter, b

--------------------------------------------------------------------------------
(***************************************************************************)
(* Who hears whom: leaving a conference.                                   *)
(***************************************************************************)

\* Call c has no stream.
Mute(n, c) == \A b \in n.bound : c \notin b

\* Call x is shown as current, is in no conference, and the user does not hear it.
Silenced(n, x) ==
    /\ x \in n.live /\ n.shown[x] = "CURRENT" /\ n.call[x].confId = None
    /\ {x, Default} \notin n.bound

\* A step about call c makes no conference, and unless it dissolves one it silences
\* no other such call.
Spares(k, n, c) ==
    /\ k.confs \subseteq n.confs
    /\ n.confs \subseteq k.confs =>
          \A x \in Calls \ {c} : Silenced(k, x) => Silenced(n, x)

\* A call without its conference has lost the others' streams, and they its.
LEMMA RemovedAudio ==
    ASSUME NEW n, Typed(n), NEW c \in Calls, NEW f \in n.confs, NEW k, Removed(k, n, c, f),
           NEW C
    PROVE  Audio(k, n, C) /\ AllHear(k, c) /\ Mute(k, c) /\ Spares(k, n, c)
<1>1. None \notin n.confs
  BY TypedFields, NamesAssumption
<1>2. /\ k.bound = {b \in n.bound : c \notin b} /\ k.live = n.live /\ k.confs = n.confs
      /\ k.cutOff = n.cutOff /\ k.call[c].confId = None /\ k.shown = n.shown
      /\ k.call[c].state = n.call[c].state /\ k.call[c].conn = n.call[c].conn
      /\ \A d \in Calls : d # c => k.call[d] = n.call[d]
  BY DEF Removed
<1>3. \A x \in Calls : ~Deaf(k, c, x) /\ ~Deaf(k, x, c)
  BY <1>1, <1>2 DEF Deaf
<1>4. ASSUME NEW x \in Calls, NEW y \in Calls, Deaf(k, x, y)
      PROVE  Deaf(n, x, y)
  <2>1. x # c /\ y # c
    BY <1>3, <1>4
  <2>2. {x, y} \in n.bound => {x, y} \in k.bound
    BY <1>2, <2>1
  <2> QED
    BY <1>2, <1>4, <2>1, <2>2 DEF Deaf, Talks
<1>5. \A x \in Calls : Orphan(k, x) => Orphan(n, x)
  BY <1>2 DEF Orphan
<1>6. \A x \in Calls : HeldHeard(k, x) => HeldHeard(n, x)
  BY <1>2 DEF HeldHeard
<1>7. Spares(k, n, c)
  <2> SUFFICES ASSUME NEW x \in Calls \ {c}, Silenced(k, x)
               PROVE  Silenced(n, x)
    BY <1>2 DEF Spares
  <2>1. {x, Default} \in n.bound => {x, Default} \in k.bound
    <3>1. c \notin {x, Default}
      BY NamesAssumption
    <3> QED
      BY <1>2, <3>1
  <2> QED
    BY <1>2, <2>1 DEF Silenced
<1> QED
  BY <1>2, <1>3, <1>4, <1>5, <1>6, <1>7 DEF Audio, AllHear, Mute

\* A call without its conference's id.
LEMMA ReleasedFields ==
    ASSUME NEW n, Typed(n), NEW p \in Calls, NEW C
    PROVE  LET k == [n EXCEPT !.call[p].confId = None] IN
           /\ Typed(k) /\ Audio(k, n, C)
           /\ k.bound = n.bound /\ k.live = n.live /\ k.confs = n.confs
           /\ k.conf = n.conf
<1> DEFINE r == [n.call[p] EXCEPT !.confId = None]
           k == [n EXCEPT !.call[p].confId = None]
<1>1. Shaped(n) /\ n.call \in [Calls -> CallRecords]
  BY TypedShaped, TypedFields
<1>2. /\ r \in CallRecords /\ r.confId = None
      /\ r.state = n.call[p].state /\ r.conn = n.call[p].conn
  BY <1>1 DEF CallRecords
<1>3. /\ Shaped(k) /\ k.bound = n.bound /\ k.live = n.live /\ k.confs = n.confs
      /\ k.cutOff = n.cutOff /\ k.conf = n.conf /\ k.call = [n.call EXCEPT ![p] = r]
  BY <1>1 DEF Shaped
<1>4. Typed(k)
  BY <1>1, <1>2 DEF Typed, ManagerStates, CallRecords
<1> HIDE DEF k, r
<1>5. /\ \A d \in Calls : d # p => k.call[d] = n.call[d]
      /\ k.call[p] = r
  BY <1>1, <1>3
<1>6. None \notin k.confs
  BY <1>4, TypedFields, NamesAssumption
<1>7. \A x, y \in Calls : Deaf(k, x, y) => Deaf(n, x, y)
  BY <1>2, <1>3, <1>5, <1>6 DEF Deaf, Talks
<1>8. \A x \in Calls : HeldHeard(k, x) => HeldHeard(n, x)
  BY <1>2, <1>3, <1>5 DEF HeldHeard
<1>9. Audio(k, n, C)
  BY <1>3, <1>7, <1>8 DEF Audio, Orphan
<1> QED
  BY <1>3, <1>4, <1>9 DEF k

\* The user's stream goes, and comes back for the only participant left.
LEMMA RemoveConferenceAudio ==
    ASSUME NEW n, Shaped(n), NEW f \in n.confs, NEW p \in Calls, n.conf[f].parts = {p},
           ~Lag => p \in n.live, NEW C, p \in n.live => p \in C
    PROVE  LET k == removeConference(n, f) IN
           /\ Audio(k, n, C) /\ k.confs = n.confs \ {f}
           /\ \A c \in Calls \ {p} : Mute(n, c) => Mute(k, c)
<1> DEFINE a == unBindAll(n, Default)
           b == bindCallID(a, p, Default)
           k == removeConference(n, f)
<1>1. FirstOf({p}) = p
  BY CallsAssumption DEF FirstOf
<1>2. Audio(a, n, C) /\ Shaped(a) /\ a.conf = n.conf /\ a.confs = n.confs
      /\ a.bound = {z \in n.bound : Default \notin z} /\ a.live = n.live
      /\ a.cutOff = n.cutOff
  BY UserUnbound, UnBindAllFields
<1>3. k = [b EXCEPT !.confs = @ \ {f}, !.conf[f] = NewConference]
  <2> HIDE DEF a
  <2> QED
    BY <1>1 DEF removeConference, a
<1> HIDE DEF k, a
<1>4. /\ k.bound = a.bound \cup {{p, Default}} /\ k.call = a.call /\ k.live = a.live
      /\ k.confs = a.confs \ {f} /\ k.cutOff = a.cutOff
  BY <1>2, <1>3 DEF bindCallID, Shaped
<1>5. \A x, y \in Calls : Deaf(k, x, y) => Deaf(a, x, y)
  BY <1>4 DEF Deaf, Talks
<1>6. ~Lag => \A x \in Calls : Orphan(k, x) => Orphan(a, x)
  BY <1>2, <1>4, NamesAssumption DEF Orphan
<1>7. \A x \in Calls \ C : HeldHeard(k, x) => HeldHeard(a, x)
  <2> SUFFICES ASSUME NEW x \in Calls \ C, HeldHeard(k, x)
               PROVE  HeldHeard(a, x)
    OBVIOUS
  <2>1. x # p /\ x # Default /\ p # Default
    BY <1>2, <1>4, NamesAssumption DEF HeldHeard
  <2>2. {x, Default} # {p, Default}
    BY <2>1
  <2> QED
    BY <1>4, <2>2 DEF HeldHeard
<1>8. Audio(k, a, C)
  BY <1>4, <1>5, <1>6, <1>7 DEF Audio
<1>9. \A c \in Calls \ {p} : Mute(n, c) => Mute(k, c)
  BY <1>2, <1>4, NamesAssumption DEF Mute
<1>10. Audio(k, n, C)
  BY <1>2, <1>8, AudioTrans
<1> QED
  BY <1>2, <1>4, <1>9, <1>10 DEF k

\* Of two participants one has gone: the other is released.
LEMMA ConferenceDissolvesAudio ==
    ASSUME NEW n, Sound(n), NEW c \in n.live, NEW f \in n.confs,
           n.call[c].confId = f, n.conf[f].nb = 2, NEW id,
           NEW a, Removed(a, n, c, f), NEW C, Inside(n, C)
    PROVE  LET k == processRemainingParticipant(a, id, f) IN
           /\ Audio(k, a, C) /\ (Mute(a, c) => Mute(k, c))
           /\ f \notin k.confs
<1>1. /\ Typed(n) /\ c \in Calls /\ f \in Confs /\ f # None
  BY TypedFields, NamesAssumption DEF Sound
<1>2. PICK p \in Calls : p # c /\ n.conf[f].parts = {c, p}
  BY TwoParticipants
<1>3. /\ Typed(a) /\ a.conf[f].parts = {p} /\ a.conf[f].nb = 1
      /\ f \in a.confs /\ a.live = n.live /\ (p \notin n.live => Lag)
  <2>1. p \notin n.live => Lag
    BY <1>2 DEF Sound, Grouped
  <2> QED
    BY <1>2, <2>1 DEF Removed
<1> DEFINE b == [a EXCEPT !.call[p].confId = None]
           d == IF p \notin n.live THEN abort(a)
                ELSE IF id = f THEN switchCall(b, p) ELSE onHoldCall(b, p)
           k == removeConference(d, f)
<1>4. processRemainingParticipant(a, id, f) = k
  <2>1. FirstOf({p}) = p
    BY CallsAssumption DEF FirstOf
  <2>2. releaseLast(a, id, f) = d
    BY <1>3, <2>1 DEF releaseLast
  <2> HIDE DEF d
  <2> QED
    BY <1>3, <2>2 DEF processRemainingParticipant
<1>5. /\ Typed(b) /\ Audio(b, a, C) /\ b.bound = a.bound /\ b.live = a.live
      /\ b.confs = a.confs /\ b.conf = a.conf /\ Shaped(b) /\ Shaped(a)
  BY <1>3, ReleasedFields, TypedShaped
<1> HIDE DEF b
<1>6. /\ Audio(d, a, C) /\ Shaped(d) /\ d.live = a.live /\ d.confs = a.confs
      /\ d.conf = a.conf /\ (Mute(a, c) => Mute(d, c))
  <2>1. CASE d = abort(a)
    <3>1. Quiet(abort(a), a) /\ abort(a).conf = a.conf
      BY <1>5, QuietSteps DEF abort, Shaped
    <3> QED
      BY <2>1, <3>1, QuietAudio DEF Quiet, Mute
  <2>2. CASE d = switchCall(b, p)
    <3>1. Quiet(switchCall(b, p), b) /\ switchCall(b, p).conf = b.conf
      BY <1>5, QuietSteps DEF switchCall, Shaped
    <3> QED
      BY <1>5, <2>2, <3>1, QuietAudio, AudioTrans DEF Quiet, Mute
  <2>3. CASE d = onHoldCall(b, p)
    <3>1. Audio(onHoldCall(b, p), b, C)
      BY <1>5, OnHoldCallAudio
    <3>2. LET z == onHoldCall(b, p) IN
          /\ Shaped(z) /\ z.live = b.live /\ z.confs = b.confs /\ z.conf = b.conf
          /\ z.bound \subseteq b.bound
      BY <1>5, OnHoldCallKeeps
    <3> QED
      BY <1>5, <2>3, <3>1, <3>2, AudioTrans DEF Mute
  <2> QED
    BY <2>1, <2>2, <2>3
<1> HIDE DEF d
<1>7. p \in d.live => p \in C
  <2>1. p \in n.live => n.call[p].confId = f
    BY <1>2 DEF Sound, Grouped
  <2> QED
    BY <1>1, <1>3, <1>6, <2>1 DEF Inside
<1>8. /\ Audio(k, d, C) /\ k.confs = d.confs \ {f}
      /\ Mute(d, c) => Mute(k, c)
  BY <1>1, <1>2, <1>3, <1>6, <1>7, RemoveConferenceAudio
<1> HIDE DEF k
<1> QED
  BY <1>4, <1>6, <1>8, AudioTrans

\* leaveConference: who stays in a conference hears all others, and who left nobody.
LEMMA LeaveConferenceAudio ==
    ASSUME NEW n, Sound(n), NEW c \in Calls, NEW id, NEW C, Inside(n, C)
    PROVE  LET k == leaveConference(n, c, id) IN
           /\ Audio(k, n, C) /\ Spares(k, n, c) /\ AllHear(k, c)
           /\ Mute(n, c) \/ n.call[c].confId \in n.confs => Mute(k, c)
<1> DEFINE f == n.call[c].confId
           a == removeParticipant(n, c)
           k == leaveConference(n, c, id)
<1>0. Typed(n)
  BY DEF Sound
<1>1. CASE f \notin n.confs
  <2>1. k = n
    BY <1>1 DEF leaveConference
  <2>2. AllHear(n, c) /\ Spares(n, n, c) /\ Audio(n, n, C)
    BY <1>1 DEF AllHear, Deaf, Spares, Audio
  <2> QED
    BY <1>1, <2>1, <2>2
<1>2. CASE f \in n.confs
  <2>1. c \in n.live
    BY <1>0, <1>2, TypedFields, NamesAssumption DEF Sound, Forgotten, NewCall
  <2>2. Removed(a, n, c, f)
    BY <1>0, <1>2, RemoveParticipantFields
  <2>3. k = processRemainingParticipant(a, id, f)
    BY <1>2 DEF leaveConference
  <2>4. n.conf[f].nb \in Int /\ n.conf[f].nb >= 2 /\ a.conf[f].nb = n.conf[f].nb - 1
    <3>1. n.conf[f] \in ConfRecords
      BY <1>0, <1>2, TypedFields
    <3> QED
      BY <1>2, <2>2, <3>1 DEF Sound, Grouped, Removed, ConfRecords
  <2>5. Audio(a, n, C) /\ AllHear(a, c) /\ Mute(a, c) /\ Spares(a, n, c)
    BY <1>0, <1>2, <2>2, RemovedAudio
  <2>6. AllHear(k, c)
    BY LeaveConferenceLeaves DEF AllHear, Deaf
  <2>7. CASE n.conf[f].nb > 2
    <3>1. a.conf[f].nb > 1
      BY <2>4, <2>7
    <3>2. k = a
      BY <2>3, <3>1 DEF processRemainingParticipant
    <3> QED
      BY <2>5, <3>2
  <2>8. CASE n.conf[f].nb = 2
    <3> HIDE DEF a, k
    <3>1. Audio(k, a, C) /\ Mute(k, c) /\ f \notin k.confs
      BY <1>2, <2>1, <2>2, <2>3, <2>5, <2>8, ConferenceDissolvesAudio
    <3>2. Spares(k, n, c)
      <4>1. k.confs \subseteq n.confs
        BY LeaveConferenceLeaves DEF k, Leaves
      <4> QED
        BY <1>2, <3>1, <4>1 DEF Spares
    <3>3. Audio(k, n, C)
      BY <2>5, <3>1, AudioTrans
    <3> QED
      BY <2>6, <3>1, <3>2, <3>3 DEF k
  <2> QED
    BY <2>4, <2>7, <2>8
<1> QED
  BY <1>1, <1>2

\* Who leaves conferences comes from one.
LEMMA LeavesInside ==
    ASSUME NEW n, NEW k, Leaves(k, n), NEW C, Inside(n, C)
    PROVE  Inside(k, C)
  BY DEF Leaves, Inside

\* The user takes a call out of its conference.
LEMMA DetachParticipantAudio ==
    ASSUME NEW n, Sound(n), NEW c \in Calls, NEW C, Inside(n, C)
    PROVE  Audio(detachParticipant(n, c), n, C)
<1> DEFINE h == onHoldCall(n, c)
           k == leaveConference(h, c, n.current)
<1>1. CASE c \notin n.live \/ n.call[c].confId \notin n.confs
  <2>1. detachParticipant(n, c) = n
    BY <1>1 DEF detachParticipant
  <2> QED
    BY <2>1 DEF Audio
<1>2. CASE ~(c \notin n.live \/ n.call[c].confId \notin n.confs)
  <2>1. detachParticipant(n, c) = k
    BY <1>2, StateStrings DEF detachParticipant
  <2>2. Typed(n) /\ Steady(h, n) /\ Audio(h, n, C)
    BY OnHoldCallSteady, OnHoldCallAudio DEF Sound
  <2>3. Sound(h) /\ Inside(h, C)
    BY <2>2, SteadySound, SteadyInside
  <2> HIDE DEF h
  <2>4. Audio(k, h, C)
    BY <2>3, LeaveConferenceAudio
  <2> HIDE DEF k
  <2> QED
    BY <2>1, <2>2, <2>4, AudioTrans
<1> QED
  BY <1>1, <1>2

--------------------------------------------------------------------------------
(***************************************************************************)
(* Who hears whom: the ends of calls.                                      *)
(***************************************************************************)

\* Two steps about one call are one.
LEMMA SparesTrans ==
    ASSUME NEW n, NEW k, NEW l, NEW c, Spares(k, n, c), Spares(l, k, c)
    PROVE  Spares(l, n, c)
<1>1. l.confs \subseteq n.confs
  BY DEF Spares
<1>2. ASSUME n.confs \subseteq l.confs
      PROVE  n.confs \subseteq k.confs /\ k.confs \subseteq l.confs
  BY <1>2 DEF Spares
<1> QED
  BY <1>1, <1>2 DEF Spares

\* What is told of a call changes nothing for the others.
LEMMA QuietSpares ==
    ASSUME NEW n, NEW k, NEW c, Quiet(k, n), \A x \in Calls \ {c} : k.shown[x] = n.shown[x]
    PROVE  Spares(k, n, c)
  BY DEF Quiet, Spares, Silenced

\* As Audio, but for the streams of call c.
AudioEnd(k, n, C, c) ==
    /\ k.cutOff = n.cutOff
    /\ ~Lag => \A x, y \in Calls : Deaf(k, x, y) => Deaf(n, x, y)
    /\ ~Lag => \A x \in Calls \ {c} : Orphan(k, x) => Orphan(n, x)
    /\ \A x \in Calls \ C : HeldHeard(k, x) => HeldHeard(n, x)

\* Until the call's streams go, the others hear as before.
LEMMA AudioEndTrans ==
    ASSUME NEW n, NEW k, NEW l, NEW C, NEW c
    PROVE  /\ Audio(k, n, C) /\ AudioEnd(l, k, C, c) => AudioEnd(l, n, C, c)
           /\ AudioEnd(k, n, C, c) /\ Audio(l, k, C) => AudioEnd(l, n, C, c)
           /\ AudioEnd(k, n, C, c) /\ Mute(k, c) => Audio(k, n, C)
<1>1. ASSUME Mute(k, c) PROVE ~ Orphan(k, c)
  BY <1>1 DEF Mute, Orphan
<1> QED
  BY <1>1 DEF Audio, AudioEnd

\* A call is removed from the link: k is n without it.
LEMMA CallGoesAudio ==
    ASSUME NEW n, n.call \in [Calls -> CallRecords], NEW c \in Calls, NEW C, NEW k,
           k.live = n.live \ {c}, k.call = [n.call EXCEPT ![c] = NewCall],
           k.bound = n.bound, k.confs = n.confs, k.cutOff = n.cutOff,
           \A x \in Calls \ {c} : k.shown[x] = n.shown[x]
    PROVE  AudioEnd(k, n, C, c) /\ Spares(k, n, c) /\ (Mute(n, c) => Mute(k, c))
<1>1. \A x \in Calls \ {c} : k.call[x] = n.call[x]
  OBVIOUS
<1>2. \A x, y \in Calls : Deaf(k, x, y) => Deaf(n, x, y)
  BY <1>1 DEF Deaf, Talks
<1>3. \A x \in Calls \ {c} : Orphan(k, x) => Orphan(n, x)
  BY DEF Orphan
<1>4. \A x \in Calls : HeldHeard(k, x) => HeldHeard(n, x)
  BY <1>1 DEF HeldHeard
<1>5. \A x \in Calls \ {c} : Silenced(k, x) => Silenced(n, x)
  BY <1>1 DEF Silenced
<1> QED
  BY <1>2, <1>3, <1>4, <1>5 DEF AudioEnd, Spares, Mute

\* A call's streams go: in its conference it and the others stop hearing each other.
LEMMA UnBindAllAudio ==
    ASSUME NEW n, Shaped(n), NEW c \in Calls, NEW C
    PROVE  LET k == unBindAll(n, c) IN
           /\ AudioBut(k, n, C, {c}) /\ Mute(k, c) /\ Spares(k, n, c) /\ Shaped(k)
           /\ n.call[c].confId \notin n.confs => Audio(k, n, C)
<1> DEFINE k == unBindAll(n, c)
<1>1. /\ Shaped(k) /\ k.bound = {b \in n.bound : c \notin b} /\ k.call = n.call
      /\ k.live = n.live /\ k.confs = n.confs /\ k.cutOff = n.cutOff
      /\ k.shown = n.shown
  BY UnBindAllFields
<1> HIDE DEF k
<1>2. \A x, y \in Calls \ {c} : {x, y} \in n.bound => {x, y} \in k.bound
  BY <1>1
<1>3. \A x, y \in Calls \ {c} : Deaf(k, x, y) => Deaf(n, x, y)
  BY <1>1, <1>2 DEF Deaf, Talks
<1>4. \A x \in Calls : Orphan(k, x) => Orphan(n, x)
  BY <1>1 DEF Orphan
<1>5. \A x \in Calls : HeldHeard(k, x) => HeldHeard(n, x)
  BY <1>1 DEF HeldHeard
<1>6. \A x \in Calls \ {c} : Silenced(k, x) => Silenced(n, x)
  <2>1. \A x \in Calls \ {c} : c \notin {x, Default}
    BY NamesAssumption
  <2>2. \A x \in Calls \ {c} : {x, Default} \in n.bound => {x, Default} \in k.bound
    BY <1>1, <2>1
  <2> QED
    BY <1>1, <2>2 DEF Silenced
<1>7. AudioBut(k, n, C, {c})
  BY <1>1, <1>3, <1>4, <1>5 DEF AudioBut
<1>8. ASSUME n.call[c].confId \notin n.confs
      PROVE  Audio(k, n, C)
  <2>1. AllHear(k, c)
    BY <1>1, <1>8 DEF AllHear, Deaf
  <2>2. Audio(k, k, C)
    BY DEF Audio
  <2> QED
    BY <1>7, <2>1, <2>2, AudioRestored
<1> QED
  BY <1>1, <1>6, <1>7, <1>8 DEF Spares, Mute, k

\* The call leaves its conference, or what is current.
LEMMA EndBeginsAudio ==
    ASSUME NEW n, Sound(n), NEW c \in Calls, NEW id, NEW C, Inside(n, C),
           NEW k,
           participToConference(n, c) => k = leaveConference(n, c, id),
           ~participToConference(n, c) => k \in {n, switchCall(n, None)}
    PROVE  /\ Audio(k, n, C) /\ Spares(k, n, c) /\ AllHear(k, c)
           /\ Mute(n, c) => Mute(k, c)
           /\ k.live = n.live /\ k.cutOff = n.cutOff
<1>1. Typed(n) /\ Shaped(n)
  BY TypedShaped DEF Sound
<1>2. CASE participToConference(n, c)
  <2>1. Leaves(k, n)
    BY <1>2, LeaveConferenceLeaves
  <2> QED
    BY <1>2, <2>1, LeaveConferenceAudio DEF Leaves
<1>3. CASE ~participToConference(n, c)
  <2>1. n.call[c].confId \notin n.confs
    BY <1>1, <1>3, TypedFields, NamesAssumption DEF participToConference, Sound, Forgotten, NewCall
  <2>2. Quiet(k, n) /\ k.shown = n.shown
    BY <1>1, <1>3, QuietSteps DEF switchCall, Shaped
  <2>3. Audio(k, n, C) /\ Spares(k, n, c)
    BY <2>2, QuietAudio, QuietSpares
  <2> QED
    BY <2>1, <2>2, <2>3 DEF Quiet, Mute, AllHear, Deaf
<1> QED
  BY <1>2, <1>3

\* The link forgets the call.
LEMMA RemoveCallFields ==
    ASSUME NEW n, Shaped(n), NEW c
    PROVE  LET k == removeCall(n, c) IN
           /\ Shaped(k) /\ k.live = n.live \ {c}
           /\ k.call = [n.call EXCEPT ![c] = NewCall] /\ k.bound = n.bound
           /\ k.confs = n.confs /\ k.cutOff = n.cutOff /\ k.shown = n.shown
           /\ k.account = n.account /\ k.conf = n.conf
  BY DEF Shaped, removeCall

\* hangupCall unbinds the call before the link forgets it.
LEMMA HangupCallAudio ==
    ASSUME NEW n, Settled(n), NEW c \in Calls, c \notin n.waiting,
           NEW C, Inside(n, C)
    PROVE  LET k == hangupCall(n, c) IN Audio(k, n, C) /\ Spares(k, n, c)
<1> DEFINE a == callStateChanged(n, c, "NONE")
           b == removeStream(a, c)
           d == IF participToConference(b, c) THEN leaveConference(b, c, n.current)
                ELSE IF isConference(b, n.current) THEN b ELSE switchCall(b, None)
           e == linkHangup(d, c)
           k == removeCallAccount(e, c)
<1>1. Typed(n) /\ Sound(n) /\ Shaped(n)
  BY TypedShaped DEF Settled, Sound
<1>2. Steady(a, n) /\ Quiet(a, n) /\ \A x \in Calls \ {c} : a.shown[x] = n.shown[x]
  <2>1. Steady(a, n) /\ a.shown = [n.shown EXCEPT ![c] = "NONE"]
    BY <1>1, CallStateChangedSteady DEF Answers
  <2>2. Quiet(a, n)
    BY <1>1, QuietSteps
  <2> QED
    BY <1>1, <2>1, <2>2, TypedFields
<1>3. hangupCall(n, c) = IF c \notin n.account THEN a ELSE k
  BY DEF hangupCall
<1> HIDE DEF a
<1>4. Audio(a, n, C) /\ Spares(a, n, c) /\ Sound(a) /\ Typed(a) /\ Inside(a, C)
  BY <1>1, <1>2, QuietAudio, QuietSpares, SteadySound, SteadyInside DEF Sound
<1>5. /\ Steady(b, a) /\ AudioBut(b, a, C, {c}) /\ Mute(b, c) /\ Spares(b, a, c)
  BY <1>4, TypedShaped, UnBindAllSteady, UnBindAllAudio DEF removeStream
<1> HIDE DEF b
<1>6. Sound(b) /\ Typed(b) /\ Inside(b, C)
  BY <1>4, <1>5, SteadySound, SteadyInside DEF Sound
<1>7. Audio(d, b, C) /\ Spares(d, b, c) /\ AllHear(d, c) /\ Mute(d, c) /\ Typed(d)
  <2>1. /\ participToConference(b, c) => d = leaveConference(b, c, n.current)
        /\ ~participToConference(b, c) => d \in {b, switchCall(b, None)}
    OBVIOUS
  <2>2. Typed(d)
    <3>1. participToConference(b, c) => Typed(leaveConference(b, c, n.current))
      BY <1>6, LeaveConferenceLeaves DEF Leaves, Sound
    <3>2. Typed(switchCall(b, None))
      BY <1>6, SwitchCallSteady DEF Steady
    <3> QED
      BY <1>6, <3>1, <3>2
  <2> HIDE DEF d
  <2> QED
    BY <1>5, <1>6, <2>1, <2>2, EndBeginsAudio
<1> HIDE DEF d
<1>8. Audio(d, a, C)
  BY <1>5, <1>7, AudioRestored
<1>9. Audio(e, d, C) /\ Spares(e, d, c) /\ Shaped(e)
  <2>1. Shaped(d)
    BY <1>7, TypedShaped
  <2>2. CASE e = abort(d)
    <3>1. Quiet(abort(d), d) /\ abort(d).shown = d.shown
      BY <2>1, QuietSteps DEF abort, Shaped
    <3> QED
      BY <2>2, <3>1, QuietAudio, QuietSpares DEF Quiet
  <2>3. CASE e = d
    <3>1. Quiet(d, d)
      BY <2>1, QuietSteps
    <3> QED
      BY <2>1, <2>3, <3>1, QuietAudio, QuietSpares
  <2>4. CASE e = removeCall(d, c)
    <3>1. /\ e.live = d.live \ {c} /\ e.call = [d.call EXCEPT ![c] = NewCall]
          /\ e.bound = d.bound /\ e.confs = d.confs /\ e.cutOff = d.cutOff
          /\ e.shown = d.shown /\ Shaped(e)
      BY <2>1, <2>4, RemoveCallFields
    <3> HIDE DEF e
    <3>2. AudioEnd(e, d, C, c) /\ Spares(e, d, c) /\ Mute(e, c)
      BY <1>7, <3>1, TypedFields, CallGoesAudio
    <3> QED
      BY <3>1, <3>2, AudioEndTrans
  <2> QED
    BY <2>2, <2>3, <2>4 DEF linkHangup
<1> HIDE DEF e
<1>10. Quiet(k, e) /\ k.shown = e.shown
  BY <1>9, QuietSteps DEF removeCallAccount, Shaped
<1> HIDE DEF k
<1>11. Audio(k, e, C) /\ Spares(k, e, c)
  BY <1>10, QuietAudio, QuietSpares
<1>12. Audio(e, a, C)
  BY <1>8, <1>9, AudioTrans
<1>13. Audio(k, n, C)
  BY <1>4, <1>11, <1>12, AudioTrans
<1>14. Spares(k, n, c)
  BY <1>4, <1>5, <1>7, <1>9, <1>11, SparesTrans
<1> QED
  BY <1>3, <1>4, <1>13, <1>14

\* refuseCall: the call is unbound last.
LEMMA RefuseCallAudio ==
    ASSUME NEW n, Sound(n), NEW c \in Calls, ~Lag => n.call[c].confId \notin n.confs,
           NEW C
    PROVE  LET k == refuseCall(n, c) IN Audio(k, n, C) /\ Spares(k, n, c)
<1> DEFINE a == removeCall(n, c)
           b == removeWaitingCall(a, c)
           d == callStateChanged(b, c, "NONE")
           e == IF Refusable(n, c) THEN d ELSE n
           g == removeCallAccount(e, c)
           k == removeStream(g, c)
<1>1. Typed(n) /\ Shaped(n) /\ n.shown \in [Calls -> Answers]
  BY TypedShaped, TypedFields DEF Sound
<1>2. refuseCall(n, c) = IF c \notin n.account THEN n ELSE k
  BY DEF refuseCall
<1>3. /\ Shaped(a) /\ a.live = n.live \ {c} /\ a.call = [n.call EXCEPT ![c] = NewCall]
      /\ a.bound = n.bound /\ a.confs = n.confs /\ a.cutOff = n.cutOff
      /\ a.shown = n.shown
  BY <1>1, RemoveCallFields
<1> HIDE DEF a
<1>4. Quiet(b, a) /\ b.shown = a.shown
  BY <1>3, QuietSteps DEF removeWaitingCall, Shaped
<1> HIDE DEF b
<1>5. Quiet(d, b) /\ d.shown = [b.shown EXCEPT ![c] = "NONE"]
  BY <1>4, QuietSteps DEF callStateChanged, Shaped, Quiet
<1> HIDE DEF d
<1>6. /\ d.live = n.live \ {c} /\ d.call = [n.call EXCEPT ![c] = NewCall]
      /\ d.bound = n.bound /\ d.confs = n.confs /\ d.cutOff = n.cutOff
      /\ \A x \in Calls \ {c} : d.shown[x] = n.shown[x]
  BY <1>1, <1>3, <1>4, <1>5 DEF Quiet
<1>7. AudioEnd(d, n, C, c) /\ Spares(d, n, c)
  BY <1>1, <1>6, TypedFields, CallGoesAudio
<1>8. /\ AudioEnd(e, n, C, c) /\ Spares(e, n, c) /\ Shaped(e)
      /\ ~Lag => e.call[c].confId \notin e.confs
  <2>1. AudioEnd(n, n, C, c) /\ Spares(n, n, c)
    BY DEF AudioEnd, Spares
  <2>2. d.call[c].confId \notin d.confs
    BY <1>1, <1>6, TypedFields, NamesAssumption DEF NewCall
  <2>3. Shaped(d)
    BY <1>5 DEF Quiet
  <2> QED
    BY <1>1, <1>7, <2>1, <2>2, <2>3
<1> HIDE DEF e
<1>9. Quiet(g, e) /\ g.shown = e.shown
  BY <1>8, QuietSteps DEF removeCallAccount, Shaped
<1> HIDE DEF g
<1>10. AudioEnd(g, n, C, c) /\ Spares(g, n, c) /\ Shaped(g)
       /\ (~Lag => g.call[c].confId \notin g.confs)
  <2>1. Audio(g, e, C) /\ Spares(g, e, c)
    BY <1>9, QuietAudio, QuietSpares
  <2> QED
    BY <1>8, <1>9, <2>1, AudioEndTrans, SparesTrans DEF Quiet
<1>11. AudioEnd(k, g, C, c) /\ Spares(k, g, c) /\ Mute(k, c)
  BY <1>10, UnBindAllAudio DEF removeStream, Audio, AudioBut, AudioEnd
<1> HIDE DEF k
<1>12. AudioEnd(k, n, C, c)
  BY <1>10, <1>11 DEF AudioEnd
<1>13. Audio(k, n, C) /\ Spares(k, n, c)
  BY <1>10, <1>11, <1>12, AudioEndTrans, SparesTrans
<1>14. Audio(n, n, C) /\ Spares(n, n, c)
  BY DEF Audio, Spares
<1> QED
  BY <1>2, <1>13, <1>14

\* From n to k only the daemon's entries of call c changed, and what it told of it.
Noted(k, n, c) ==
    /\ Quiet(k, n)
    /\ k.shown \in [Calls -> Answers]
    /\ \A x \in Calls \ {c} : k.shown[x] = n.shown[x]

\* The steps by which the daemon notes something of a call.
LEMMA NotedSteps ==
    ASSUME NEW n, Shaped(n), n.shown \in [Calls -> Answers], NEW c \in Calls
    PROVE  /\ Noted(n, n, c)
           /\ Noted(switchCall(n, None), n, c)
           /\ Noted(callStateChanged(n, c, "NONE"), n, c)
           /\ Noted(callStateChanged(n, c, "FAILURE"), n, c)
           /\ Noted(callStateChanged(n, c, "HOLD"), n, c)
           /\ Noted(callStateChanged(n, c, "RINGING"), n, c)
           /\ Noted(callStateChanged(n, c, "CURRENT"), n, c)
           /\ Noted(removeWaitingCall(n, c), n, c)
           /\ Noted(removeCallAccount(n, c), n, c)
           /\ Noted(abort(n), n, c)
<1>1. /\ switchCall(n, None).shown = n.shown
      /\ removeWaitingCall(n, c).shown = n.shown
      /\ removeCallAccount(n, c).shown = n.shown
      /\ abort(n).shown = n.shown
      /\ \A s : callStateChanged(n, c, s).shown = [n.shown EXCEPT ![c] = s]
  BY DEF Shaped, switchCall, callStateChanged, removeWaitingCall,
         removeCallAccount, abort
<1>2. \A s \in Answers : Noted(callStateChanged(n, c, s), n, c)
  BY <1>1, QuietSteps DEF Noted
<1>3. {"NONE", "FAILURE", "HOLD", "RINGING", "CURRENT"} \subseteq Answers
  BY DEF Answers
<1> QED
  BY <1>1, <1>2, <1>3, QuietSteps DEF Noted

\* What the daemon notes changes nothing that is heard.
LEMMA NotedAudio ==
    ASSUME NEW n, NEW k, NEW c, Noted(k, n, c), NEW C
    PROVE  /\ Audio(k, n, C) /\ Spares(k, n, c) /\ Shaped(k)
           /\ k.live = n.live /\ k.call = n.call /\ k.confs = n.confs
           /\ Mute(n, c) => Mute(k, c)
<1>1. Quiet(k, n)
  BY DEF Noted
<1>2. Audio(k, n, C) /\ Spares(k, n, c)
  BY <1>1, QuietAudio, QuietSpares DEF Noted
<1> QED
  BY <1>1, <1>2 DEF Quiet, Mute

\* Two such steps are one.
LEMMA NotedTrans ==
    ASSUME NEW n, NEW k, NEW l, NEW c, Noted(k, n, c), Noted(l, k, c)
    PROVE  Noted(l, n, c)
  BY QuietTrans DEF Noted

\* The end of a session: the call leaves its conference, and its streams go.
LEMMA CallClosedAudio ==
    ASSUME NEW n, Settled(n), NEW c \in Calls, NEW C, Inside(n, C)
    PROVE  LET k == SIPCallClosed(n, c) IN Audio(k, n, C) /\ Spares(k, n, c)
<1> DEFINE a == IF participToConference(n, c) THEN leaveConference(n, c, n.current)
                ELSE IF n.current = c THEN switchCall(n, None) ELSE n
           b == callStateChanged(a, c, "NONE")
           d == removeWaitingCall(b, c)
           e == removeCallAccount(d, c)
           g == unBindAll(e, c)
           k == removeCall(g, c)
<1>1. Sound(n)
  BY DEF Settled
<1>2. /\ Leaves(a, n) /\ a.call[c].confId \notin a.confs
      /\ Audio(a, n, C) /\ Spares(a, n, c)
  <2>1. /\ participToConference(n, c) => a = leaveConference(n, c, n.current)
        /\ ~participToConference(n, c) => a \in {n, switchCall(n, None)}
    OBVIOUS
  <2> HIDE DEF a
  <2> QED
    BY <1>1, <2>1, EndBegins, EndBeginsAudio
<1>3. SIPCallClosed(n, c) = k
  BY DEF SIPCallClosed, peerHungupCall, removeStream
<1> HIDE DEF a
<1>4. /\ Typed(a) /\ Shaped(a) /\ a.shown \in [Calls -> Answers]
      /\ a.call \in [Calls -> CallRecords]
  BY <1>2, TypedShaped, TypedFields DEF Leaves, Sound
<1>5. Noted(b, a, c)
  BY <1>4, NotedSteps
<1> HIDE DEF b
<1>6. Noted(d, b, c)
  BY <1>5, NotedSteps DEF Noted, Quiet
<1> HIDE DEF d
<1>7. Noted(e, d, c)
  BY <1>6, NotedSteps DEF Noted, Quiet
<1> HIDE DEF e
<1>8. Noted(e, a, c)
  BY <1>5, <1>6, <1>7, NotedTrans
<1>9. /\ Audio(e, a, C) /\ Spares(e, a, c) /\ Shaped(e)
      /\ e.live = a.live /\ e.call = a.call /\ e.confs = a.confs
  BY <1>8, NotedAudio
<1>9a. e.call[c].confId \notin e.confs
  BY <1>2, <1>9
<1>10. Audio(g, e, C) /\ Mute(g, c) /\ Spares(g, e, c) /\ Shaped(g)
       /\ g.call = a.call
  <2>1. Audio(g, e, C) /\ Mute(g, c) /\ Spares(g, e, c) /\ Shaped(g)
    BY <1>9, <1>9a, UnBindAllAudio
  <2>2. g.call = e.call
    BY <1>9, UnBindAllFields
  <2> QED
    BY <1>9, <2>1, <2>2
<1> HIDE DEF g
<1>11. AudioEnd(k, g, C, c) /\ Spares(k, g, c) /\ Mute(k, c)
  <2>1. /\ k.live = g.live \ {c} /\ k.call = [g.call EXCEPT ![c] = NewCall]
        /\ k.bound = g.bound /\ k.confs = g.confs /\ k.cutOff = g.cutOff
        /\ k.shown = g.shown
    BY <1>10, RemoveCallFields
  <2> HIDE DEF k
  <2> QED
    BY <1>4, <1>10, <2>1, CallGoesAudio
<1> HIDE DEF k
<1>12. Audio(g, n, C) /\ Spares(g, n, c)
  BY <1>2, <1>9, <1>10, AudioTrans, SparesTrans
<1>13. Audio(k, n, C) /\ Spares(k, n, c)
  BY <1>11, <1>12, AudioEndTrans, SparesTrans
<1> QED
  BY <1>3, <1>13

\* A call fails: whatever had become of it, only its own streams may be left over.
LEMMA CallFailsAudio ==
    ASSUME NEW n, Settled(n), NEW c \in Calls, NEW C, Inside(n, C)
    PROVE  LET k == callFailure(n, c)
               l == SIPCallServerFailure(n, c)
           IN  /\ Audio(k, n, C) /\ Spares(k, n, c)
               /\ AudioEnd(l, n, C, c) /\ Spares(l, n, c)
<1> DEFINE p == IF n.current = c THEN switchCall(n, None) ELSE n
           a == callStateChanged(p, c, "FAILURE")
           b == IF participToConference(a, c) THEN leaveConference(a, c, a.current) ELSE a
           lost == participToConference(a, c) /\ a.call[c].confId \notin n.confs
           g == removeCallAccount(b, c)
           k == callFailure(n, c)
           l == removeCall(k, c)
<1>1. Sound(n) /\ Typed(n) /\ Shaped(n) /\ n.shown \in [Calls -> Answers]
  BY TypedShaped, TypedFields DEF Settled, Sound
<1>2. k = IF lost THEN a ELSE removeWaitingCall(g, c)
  BY DEF callFailure
<1>3. SIPCallServerFailure(n, c) = l
  BY DEF SIPCallServerFailure
<1> HIDE DEF k
<1>4. Noted(p, n, c) /\ Steady(p, n)
  BY <1>1, NotedSteps, SteadyRefl, SwitchCallSteady
<1> HIDE DEF p
<1>5. Noted(a, p, c)
  BY <1>4, NotedSteps DEF Noted, Quiet
<1>6. Noted(a, n, c)
  BY <1>4, <1>5, NotedTrans
<1>7. Audio(a, n, C) /\ Spares(a, n, c) /\ Shaped(a) /\ a.shown \in [Calls -> Answers]
      /\ a.live = n.live /\ a.call = n.call /\ a.confs = n.confs
  BY <1>6, NotedAudio DEF Noted
<1>8. /\ Audio(b, a, C) /\ Spares(b, a, c) /\ Shaped(b)
      /\ b.shown \in [Calls -> Answers] /\ b.call \in [Calls -> CallRecords]
  <2>1. CASE ~participToConference(a, c)
    <3>1. b = a
      BY <2>1
    <3> QED
      BY <1>1, <1>7, <3>1, TypedFields DEF Audio, Spares
  <2>2. CASE participToConference(a, c)
    <3>1. c \notin n.waiting
      <4>1. n.call[c].confId # None
        BY <1>7, <2>2 DEF participToConference
      <4> QED
        BY <4>1 DEF Settled, Alone
    <3>2. Steady(a, p)
      <4>1. Typed(p) /\ c \notin p.waiting
        BY <1>4, <3>1 DEF Steady
      <4> QED
        BY <4>1, CallStateChangedSteady DEF Answers
    <3>3. Sound(a) /\ Inside(a, C)
      BY <1>1, <1>4, <3>2, SteadySound, SteadyInside
    <3> HIDE DEF a
    <3>4. /\ Leaves(b, a) /\ Audio(b, a, C) /\ Spares(b, a, c)
      BY <2>2, <3>3, LeaveConferenceLeaves, LeaveConferenceAudio
    <3> QED
      BY <3>4, TypedShaped, TypedFields DEF Leaves, Sound
  <2> QED
    BY <2>1, <2>2
<1> HIDE DEF b, a
<1>9. Noted(g, b, c)
  BY <1>8, NotedSteps
<1> HIDE DEF g
<1>10. Noted(removeWaitingCall(g, c), g, c)
  BY <1>9, NotedSteps DEF Noted, Quiet
<1>11. Noted(removeWaitingCall(g, c), b, c)
  BY <1>9, <1>10, NotedTrans
<1>12. LET z == removeWaitingCall(g, c) IN Audio(z, b, C) /\ Spares(z, b, c) /\ Shaped(z)
  BY <1>11, NotedAudio
<1>13. LET z == removeWaitingCall(g, c) IN Audio(z, a, C) /\ Spares(z, a, c) /\ Shaped(z)
  BY <1>8, <1>12, AudioTrans, SparesTrans
<1>14. /\ Audio(k, n, C) /\ Spares(k, n, c) /\ Shaped(k)
       /\ k.call \in [Calls -> CallRecords]
  <2>1. removeWaitingCall(g, c).call = b.call
    BY <1>11, NotedAudio
  <2> QED
    BY <1>1, <1>2, <1>7, <1>8, <1>13, <2>1, TypedFields, AudioTrans, SparesTrans
<1>15. AudioEnd(l, k, C, c) /\ Spares(l, k, c)
  <2>1. /\ l.live = k.live \ {c} /\ l.call = [k.call EXCEPT ![c] = NewCall]
        /\ l.bound = k.bound /\ l.confs = k.confs /\ l.cutOff = k.cutOff
        /\ l.shown = k.shown
    BY <1>14, RemoveCallFields
  <2> HIDE DEF l
  <2> QED
    BY <1>14, <2>1, CallGoesAudio
<1> HIDE DEF l
<1>16. AudioEnd(l, n, C, c) /\ Spares(l, n, c)
  BY <1>14, <1>15, AudioEndTrans, SparesTrans
<1> QED
  BY <1>3, <1>14, <1>16 DEF k

\* The REFER: the call leaves its conference, or what is current.
LEMMA TransferCallAudio ==
    ASSUME NEW n, Sound(n), NEW c \in Calls, NEW C, Inside(n, C)
    PROVE  LET k == transferCall(n, c) IN Audio(k, n, C) /\ Spares(k, n, c)
<1> DEFINE a == IF participToConference(n, c) THEN leaveConference(n, c, c)
                ELSE IF isConference(n, n.current) THEN n
                ELSE switchCall(n, None)
           k == transferCall(n, c)
<1>1. Typed(n) /\ Shaped(n) /\ n.shown \in [Calls -> Answers]
  BY TypedShaped, TypedFields DEF Sound
<1>2. k \in {abort(n), a, abort(a), removeWaitingCall(a, c)}
  BY DEF transferCall
<1> HIDE DEF k
<1>3. /\ Audio(a, n, C) /\ Spares(a, n, c)
      /\ Shaped(a) /\ a.shown \in [Calls -> Answers]
  <2>1. /\ participToConference(n, c) => a = leaveConference(n, c, c)
        /\ ~participToConference(n, c) => a \in {n, switchCall(n, None)}
    OBVIOUS
  <2>2. Leaves(leaveConference(n, c, c), n)
    BY LeaveConferenceLeaves
  <2>3. Typed(switchCall(n, None))
    BY <1>1, SwitchCallSteady DEF Steady
  <2>4. Typed(a)
    BY <1>1, <2>1, <2>2, <2>3 DEF Leaves, Sound
  <2> HIDE DEF a
  <2> QED
    BY <2>1, <2>4, EndBeginsAudio, TypedShaped, TypedFields
<1> HIDE DEF a
<1>4. CASE k \in {abort(n), n}
  <2>1. Noted(k, n, c)
    BY <1>1, <1>4, NotedSteps
  <2> QED
    BY <2>1, NotedAudio DEF k
<1>5. CASE k \in {a, abort(a), removeWaitingCall(a, c)}
  <2>1. Noted(k, a, c)
    BY <1>3, <1>5, NotedSteps
  <2>2. Audio(k, a, C) /\ Spares(k, a, c)
    BY <2>1, NotedAudio
  <2> QED
    BY <1>3, <2>2, AudioTrans, SparesTrans DEF k
<1> QED
  BY <1>2, <1>4, <1>5

\* A hold unbinds the call alone, which is not shown as current any more.
LEMMA OnHoldCallSpares ==
    ASSUME NEW n, Typed(n), NEW c, NEW d
    PROVE  Spares(onHoldCall(n, c), n, d)
<1> DEFINE k == onHoldCall(n, c)
<1>1. CASE c \notin n.account
  BY <1>1 DEF onHoldCall, Spares
<1>2. CASE c \in n.account
  <2>1. /\ k.bound = {b \in n.bound : c \notin b}
        /\ k.call = IF c \in n.live THEN [n.call EXCEPT ![c] = Held(n, c)]
                    ELSE n.call
        /\ k.live = n.live /\ k.confs = n.confs
        /\ k.shown = [n.shown EXCEPT ![c] = "HOLD"]
    BY <1>2, TypedShaped, OnHoldCallFields
  <2>2. /\ n.call \in [Calls -> CallRecords] /\ c \in Calls
        /\ n.shown \in [Calls -> Answers]
    BY <1>2, TypedFields
  <2> HIDE DEF k
  <2>3. \A x \in Calls \ {c} : k.call[x] = n.call[x] /\ k.shown[x] = n.shown[x]
    BY <2>1, <2>2
  <2>4. \A x \in Calls \ {c} : {x, Default} \in n.bound => {x, Default} \in k.bound
    <3>1. \A x \in Calls \ {c} : c \notin {x, Default}
      BY <2>2, NamesAssumption
    <3> QED
      BY <2>1, <3>1
  <2>5. \A x \in Calls \ {c} : Silenced(k, x) => Silenced(n, x)
    BY <2>1, <2>3, <2>4 DEF Silenced
  <2>6. ~Silenced(k, c)
    BY <2>1, <2>2 DEF Silenced
  <2> QED
    BY <2>1, <2>5, <2>6 DEF Spares, k
<1> QED
  BY <1>1, <1>2

\* So is the detaching of a participant, whose conference it leaves.
LEMMA DetachParticipantSpares ==
    ASSUME NEW n, Sound(n), NEW c \in Calls
    PROVE  Spares(detachParticipant(n, c), n, c)
<1> DEFINE h == onHoldCall(n, c)
           k == leaveConference(h, c, n.current)
<1>1. CASE c \notin n.live \/ n.call[c].confId \notin n.confs
  BY <1>1 DEF detachParticipant, Spares
<1>2. CASE ~(c \notin n.live \/ n.call[c].confId \notin n.confs)
  <2>1. detachParticipant(n, c) = k
    BY <1>2, StateStrings DEF detachParticipant
  <2>2. Typed(n) /\ Steady(h, n) /\ Spares(h, n, c)
    BY OnHoldCallSteady, OnHoldCallSpares DEF Sound
  <2>3. Sound(h)
    BY <2>2, SteadySound
  <2> HIDE DEF h
  <2>4. Spares(k, h, c)
    <3>1. Inside(h, Calls)
      BY DEF Inside
    <3> QED
      BY <2>3, <3>1, LeaveConferenceAudio
  <2> HIDE DEF k
  <2> QED
    BY <2>1, <2>2, <2>4, SparesTrans
<1> QED
  BY <1>1, <1>2

\* The user leaves a call, if any: as long as it is no conference, nobody else is
\* unbound.
LEMMA LeaveCurrentSpares ==
    ASSUME NEW n, Typed(n), NEW c, ~isConference(n, n.current)
    PROVE  Spares(leaveCurrent(n, c), n, c)
<1>1. leaveCurrent(n, c) \in {n, onHoldCall(n, n.current)}
  BY DEF leaveCurrent
<1>2. Spares(n, n, c) /\ Spares(onHoldCall(n, n.current), n, c)
  BY OnHoldCallSpares DEF Spares
<1> QED
  BY <1>1, <1>2

\* A step that only adds bindings and tells of one call spares the others.
LEMMA BoundSpares ==
    ASSUME NEW n, NEW k, NEW c, k.live = n.live, k.confs = n.confs, n.bound \subseteq k.bound,
           \A x \in Calls \ {c} : /\ k.call[x].confId = n.call[x].confId
                                  /\ k.shown[x] = n.shown[x]
    PROVE  Spares(k, n, c)
  BY DEF Spares, Silenced

\* The user turns to a call, by a resume or an answer: only what was current is held.
LEMMA TurnSpares ==
    ASSUME NEW n, Typed(n), NEW c \in Calls, ~isConference(n, n.current)
    PROVE  Spares(offHoldCall(n, c), n, c) /\ Spares(answerCall(n, c), n, c)
<1> DEFINE a == leaveCurrent(n, c)
<1>1. Steady(a, n) /\ Spares(a, n, c)
  BY LeaveCurrentSteady, LeaveCurrentSpares
<1>2. /\ Typed(a) /\ Shaped(a) /\ a.call \in [Calls -> CallRecords]
      /\ a.shown \in [Calls -> Answers]
  BY <1>1, TypedShaped, TypedFields DEF Steady
<1>3. Spares(offHoldCall(n, c), a, c)
  <2> DEFINE b == linkOffHold(a, c)
             d == callStateChanged(b, c, "CURRENT")
             e == switchToCall(d, c)
             k == addStream(e, c)
  <2>1. offHoldCall(n, c) = IF c \notin a.live THEN abort(a) ELSE k
    BY DEF offHoldCall
  <2> HIDE DEF a
  <2>2. /\ Shaped(b) /\ b.bound = a.bound /\ b.live = a.live /\ b.confs = a.confs
        /\ b.shown = a.shown /\ \A x \in Calls \ {c} : b.call[x] = a.call[x]
    BY <1>2 DEF linkOffHold, Shaped
  <2> HIDE DEF b
  <2>3. Quiet(d, b) /\ d.shown = [a.shown EXCEPT ![c] = "CURRENT"]
    BY <2>2, QuietSteps DEF callStateChanged, Shaped
  <2> HIDE DEF d
  <2>4. Quiet(e, d) /\ e.shown = d.shown
    BY <2>3, QuietSteps DEF switchToCall, switchCall, Quiet, Shaped
  <2> HIDE DEF e
  <2>5. /\ e.bound \subseteq k.bound /\ k.call = e.call /\ k.live = e.live
        /\ k.confs = e.confs /\ k.shown = e.shown
    BY <2>4, AddStreamFields DEF Quiet
  <2> HIDE DEF k
  <2>6. Spares(k, a, c)
    BY <1>2, <2>2, <2>3, <2>4, <2>5, BoundSpares DEF Quiet
  <2>7. Spares(abort(a), a, c)
    BY <1>2 DEF abort, Shaped, Spares, Silenced
  <2> QED
    BY <2>1, <2>6, <2>7
<1>4. Spares(answerCall(n, c), a, c)
  <2> DEFINE g == linkAnswer(a, c)
             b == removeWaitingCall(g, c)
             d == switchToCall(b, c)
             e == addStream(d, c)
             k == callStateChanged(e, c, "CURRENT")
  <2>1. answerCall(n, c) = k
    BY DEF answerCall
  <2> HIDE DEF a
  <2>2. /\ Shaped(g) /\ g.bound = a.bound /\ g.live = a.live /\ g.confs = a.confs
        /\ g.shown = a.shown /\ \A x \in Calls \ {c} : g.call[x] = a.call[x]
    BY <1>2 DEF linkAnswer, Shaped
  <2> HIDE DEF g
  <2>3. Quiet(b, g) /\ b.shown = g.shown
    BY <2>2, QuietSteps DEF removeWaitingCall, Shaped
  <2> HIDE DEF b
  <2>4. Quiet(d, b) /\ d.shown = b.shown
    BY <2>3, QuietSteps DEF switchToCall, switchCall, Quiet, Shaped
  <2> HIDE DEF d
  <2>5. /\ Shaped(e) /\ d.bound \subseteq e.bound /\ e.call = d.call /\ e.live = d.live
        /\ e.confs = d.confs /\ e.shown = d.shown
    BY <2>4, AddStreamFields DEF Quiet
  <2> HIDE DEF e
  <2>6. Quiet(k, e) /\ k.shown = [e.shown EXCEPT ![c] = "CURRENT"]
    BY <2>5, QuietSteps DEF callStateChanged, Shaped
  <2> HIDE DEF k
  <2> QED
    BY <1>2, <2>1, <2>2, <2>3, <2>4, <2>5, <2>6, BoundSpares DEF Quiet
<1> QED
  BY <1>1, <1>3, <1>4, SparesTrans

--------------------------------------------------------------------------------
(***************************************************************************)
(* Calls that begin, and their answers.                                    *)
(***************************************************************************)

\* A call that was not answered.
Silent(r) == r.conn # "Connected"

\* A call that nobody talks on begins or changes.
LEMMA SilentAudio ==
    ASSUME NEW n, n.call \in [Calls -> CallRecords], NEW c \in Calls, NEW C,
           NEW r, Silent(r), NEW k,
           k.live \in {n.live, n.live \cup {c}}, k.call = [n.call EXCEPT ![c] = r],
           k.bound = n.bound, k.confs = n.confs, k.cutOff = n.cutOff
    PROVE  /\ Audio(k, n, C)
           /\ (\A x \in Calls \ {c} : k.shown[x] = n.shown[x]) => Spares(k, n, c)
<1>1. /\ \A x \in Calls \ {c} : k.call[x] = n.call[x]
      /\ k.call[c] = r
  OBVIOUS
<1>2. \A x, y \in Calls : Deaf(k, x, y) => Deaf(n, x, y)
  <2> SUFFICES ASSUME NEW x \in Calls, NEW y \in Calls, Deaf(k, x, y)
               PROVE  Deaf(n, x, y)
    OBVIOUS
  <2>1. x # c /\ y # c
    BY <1>1 DEF Deaf, Talks, Silent
  <2> QED
    BY <1>1, <2>1 DEF Deaf, Talks
<1>3. \A x \in Calls : Orphan(k, x) => Orphan(n, x)
  BY DEF Orphan
<1>4. \A x \in Calls : HeldHeard(k, x) => HeldHeard(n, x)
  BY <1>1 DEF HeldHeard, Silent
<1>5. (\A x \in Calls \ {c} : k.shown[x] = n.shown[x]) =>
          \A x \in Calls \ {c} : Silenced(k, x) => Silenced(n, x)
  BY <1>1 DEF Silenced
<1> QED
  BY <1>2, <1>3, <1>4, <1>5 DEF Audio, Spares

\* A call comes in.
LEMMA IncomingCallAudio ==
    ASSUME NEW n, Typed(n), NEW c \in Calls, NEW C
    PROVE  LET k == incomingCall(n, c) IN Audio(k, n, C) /\ Spares(k, n, c)
<1> DEFINE r == [NewCall EXCEPT !.conn = "Ringing", !.invite = "received"]
           k == incomingCall(n, c)
<1>1. n.call \in [Calls -> CallRecords] /\ n.shown \in [Calls -> Answers] /\ Shaped(n)
  BY TypedFields, TypedShaped
<1>2. Silent(r)
  BY DEF Silent, NewCall
<1>3. /\ k.live = n.live \cup {c} /\ k.call = [n.call EXCEPT ![c] = r]
      /\ k.bound = n.bound /\ k.confs = n.confs /\ k.cutOff = n.cutOff
      /\ k.shown = [n.shown EXCEPT ![c] = "INCOMING"]
  BY <1>1 DEF incomingCall, addWaitingCall, callStateChanged, addCall, Shaped
<1> HIDE DEF k, r
<1>4. \A x \in Calls \ {c} : k.shown[x] = n.shown[x]
  BY <1>1, <1>3
<1> QED
  BY <1>1, <1>2, <1>3, <1>4, SilentAudio DEF k

\* The peer's telephone rings: nobody talks yet.
LEMMA PeerRingingCallAudio ==
    ASSUME NEW n, Typed(n), NEW c \in n.live, NEW C
    PROVE  LET k == peerRingingCall(n, c) IN Audio(k, n, C) /\ Spares(k, n, c)
<1> DEFINE r == [n.call[c] EXCEPT !.conn = "Ringing"]
           k == peerRingingCall(n, c)
<1>1. n.call \in [Calls -> CallRecords] /\ n.shown \in [Calls -> Answers] /\ Shaped(n)
      /\ c \in Calls
  BY TypedFields, TypedShaped
<1>2. Silent(r)
  BY <1>1 DEF CallRecords, Silent
<1>3. /\ k.live = n.live /\ k.call = [n.call EXCEPT ![c] = r]
      /\ k.bound = n.bound /\ k.confs = n.confs /\ k.cutOff = n.cutOff
      /\ k.shown = [n.shown EXCEPT ![c] = "RINGING"]
  BY <1>1 DEF peerRingingCall, callStateChanged, Shaped
<1> HIDE DEF k, r
<1>4. \A x \in Calls \ {c} : k.shown[x] = n.shown[x]
  BY <1>1, <1>3
<1> QED
  BY <1>1, <1>2, <1>3, <1>4, SilentAudio DEF k

\* The peer answers: the call gets its streams at once.
LEMMA PeerAnsweredCallAudio ==
    ASSUME NEW n, Sound(n), NEW c \in n.live, n.call[c].type = "Outgoing",
           NEW C, Inside(n, C)
    PROVE  LET k == peerAnsweredCall(n, c) IN Audio(k, n, C) /\ Spares(k, n, c)
<1> DEFINE r == [n.call[c] EXCEPT !.conn = "Connected", !.state = "Active",
                                  !.invite = "none"]
           a == [n EXCEPT !.call = [n.call EXCEPT ![c] = r]]
           b == addStream(a, c)
           k == callStateChanged(b, c, "CURRENT")
<1>1. /\ Typed(n) /\ Shaped(n) /\ c \in Calls /\ n.call \in [Calls -> CallRecords]
      /\ n.shown \in [Calls -> Answers]
  BY TypedFields, TypedShaped DEF Sound
<1>2. peerAnsweredCall(n, c) = IF n.call[c].conn = "Connected" THEN n ELSE k
  BY <1>1 DEF peerAnsweredCall, Shaped
<1>3. Audio(n, n, C) /\ Spares(n, n, c)
  BY DEF Audio, Spares
<1>4. /\ r.state = "Active" /\ r.conn = "Connected" /\ r \in CallRecords
      /\ r.confId = n.call[c].confId /\ r.type = n.call[c].type
  BY <1>1 DEF CallRecords
<1> HIDE DEF r
<1>5. /\ Shaped(a) /\ a.bound = n.bound /\ a.live = n.live /\ a.confs = n.confs
      /\ a.cutOff = n.cutOff /\ a.shown = n.shown
      /\ \A x \in Calls \ {c} : a.call[x] = n.call[x]
      /\ a.call[c] = r
  BY <1>1 DEF Shaped
<1>6. Sound(a) /\ Inside(a, C)
  <2>1. c \notin n.waiting
    BY DEF Sound, Fresh
  <2>2. Steady(a, n)
    BY <1>1, <1>4, <2>1, SetCallSteady
  <2> HIDE DEF a
  <2> QED
    BY <2>2, SteadySound, SteadyInside
<1> HIDE DEF a
<1>7. AudioBut(a, n, C, {c}) /\ Spares(a, n, c)
  <2>1. \A x, y \in Calls \ {c} : Deaf(a, x, y) => Deaf(n, x, y)
    BY <1>5 DEF Deaf, Talks
  <2>2. \A x \in Calls : HeldHeard(a, x) => HeldHeard(n, x)
    BY <1>4, <1>5 DEF HeldHeard
  <2>3. \A x \in Calls \ {c} : Silenced(a, x) => Silenced(n, x)
    BY <1>5 DEF Silenced
  <2> QED
    BY <1>5, <2>1, <2>2, <2>3 DEF AudioBut, Spares, Orphan
<1>8. /\ Audio(b, a, C) /\ (~Lag => AllHear(b, c))
      /\ Steady(b, a) /\ a.bound \subseteq b.bound /\ b.shown = a.shown
  <2>1. c \in a.live /\ a.call[c].state = "Active"
    BY <1>4, <1>5
  <2>2. Audio(b, a, C) /\ (~Lag => AllHear(b, c))
    BY <1>1, <1>6, <2>1, AddStreamAudio
  <2>3. Steady(b, a)
    BY <1>1, <1>6, AddStreamSteady
  <2>4. a.bound \subseteq b.bound /\ b.shown = a.shown
    BY <1>5 DEF addStream, bindCallID, bindParticipant, Shaped
  <2> QED
    BY <2>2, <2>3, <2>4
<1> HIDE DEF b
<1>9. Spares(b, a, c)
  <2>1. \A x \in Calls \ {c} : b.call[x].confId = a.call[x].confId
    BY <1>8 DEF Steady
  <2> QED
    BY <1>8, <2>1 DEF Steady, Spares, Silenced
<1>10. Noted(k, b, c)
  <2>1. Shaped(b) /\ b.shown \in [Calls -> Answers]
    BY <1>8, TypedShaped, TypedFields DEF Steady
  <2> QED
    BY <1>1, <2>1, NotedSteps
<1>11. Audio(k, b, C) /\ Spares(k, b, c) /\ (~Lag => AllHear(k, c))
  <2>1. Quiet(k, b)
    BY <1>10 DEF Noted
  <2> QED
    BY <1>8, <1>10, <2>1, NotedAudio DEF Quiet, AllHear, Deaf, Talks
<1> HIDE DEF k
<1>12. Audio(k, a, C)
  BY <1>8, <1>11, AudioTrans
<1>13. Audio(k, n, C)
  BY <1>7, <1>11, <1>12, AudioRestored
<1>14. Spares(k, n, c)
  BY <1>7, <1>9, <1>11, SparesTrans
<1> QED
  BY <1>2, <1>3, <1>13, <1>14

\* A call is placed: it does not talk yet, and a failed attempt leaves no stream.
LEMMA OutgoingCallAudio ==
    ASSUME NEW n, Settled(n), NEW c \in Calls, NEW confId, NEW sent,
           NEW C, ~sent => c \notin n.live
    PROVE  LET k == outgoingCall(n, c, confId, sent) IN
           Audio(k, n, C) /\ (~isConference(n, n.current) => Spares(k, n, c))
<1> DEFINE l == leaveCurrent(n, c)
           a == [l EXCEPT !.account = @ \cup {c}, !.shown[c] = "DIALING"]
           r == [state |-> "Active", conn |-> "Progressing",
                 type |-> "Outgoing", confId |-> confId, invite |-> "other"]
           b == addCall(a, c, r)
           k == outgoingCall(n, c, confId, sent)
<1>1. Typed(n) /\ Sound(n)
  BY DEF Settled, Sound
<1>2. /\ Steady(l, n) /\ Audio(l, n, C)
      /\ ~isConference(n, n.current) => Spares(l, n, c)
  BY <1>1, LeaveCurrentSteady, LeaveCurrentAudio, LeaveCurrentSpares
<1>3. k = IF c \in n.account THEN n
          ELSE IF sent THEN switchCall(b, c) ELSE callFailure(a, c)
  BY DEF outgoingCall
<1> HIDE DEF l, k
<1>4. /\ Typed(l) /\ Shaped(l) /\ l.call \in [Calls -> CallRecords]
      /\ l.shown \in [Calls -> Answers] /\ l.live = n.live
  BY <1>2, TypedShaped, TypedFields DEF Steady
<1>5. /\ Quiet(a, l) /\ a.shown \in [Calls -> Answers]
      /\ \A x \in Calls \ {c} : a.shown[x] = l.shown[x]
  BY <1>4 DEF Quiet, Shaped, Answers
<1> HIDE DEF a
<1>6. /\ Audio(a, n, C) /\ Shaped(a)
      /\ ~isConference(n, n.current) => Spares(a, n, c)
  <2>1. Audio(a, l, C) /\ Spares(a, l, c) /\ Shaped(a)
    BY <1>5, QuietAudio, QuietSpares DEF Quiet
  <2> QED
    BY <1>2, <2>1, AudioTrans, SparesTrans
<1>7. CASE k = n
  BY <1>7 DEF Audio, Spares, k
<1>8. CASE k = switchCall(b, c)
  <2>1. Silent(r)
    BY DEF Silent
  <2> HIDE DEF r
  <2>2. /\ b.live = a.live \cup {c} /\ b.call = [a.call EXCEPT ![c] = r]
        /\ b.bound = a.bound /\ b.confs = a.confs /\ b.cutOff = a.cutOff
        /\ b.shown = a.shown /\ Shaped(b)
    BY <1>6 DEF addCall, Shaped
  <2> HIDE DEF b
  <2>3. a.call \in [Calls -> CallRecords]
    BY <1>4, <1>5 DEF Quiet
  <2>4. Audio(b, a, C) /\ Spares(b, a, c)
    <3>1. b.live \in {a.live, a.live \cup {c}}
      BY <2>2
    <3>2. Audio(b, a, C)
      BY <2>1, <2>2, <2>3, <3>1, SilentAudio
    <3>3. \A x \in Calls \ {c} : b.shown[x] = a.shown[x]
      BY <2>2
    <3>4. Spares(b, a, c)
      BY <2>1, <2>2, <2>3, <3>1, <3>3, SilentAudio
    <3> QED
      BY <3>2, <3>4
  <2>5. Audio(k, b, C) /\ Spares(k, b, c)
    <3>1. Quiet(k, b) /\ k.shown = b.shown
      BY <1>8, <2>2, QuietSteps DEF switchCall, Shaped
    <3> QED
      BY <3>1, QuietAudio, QuietSpares
  <2> QED
    BY <1>6, <2>4, <2>5, AudioTrans, SparesTrans DEF k
<1>9. CASE ~sent /\ k = callFailure(a, c)
  <2> DEFINE p == IF a.current = c THEN switchCall(a, None) ELSE a
             q == callStateChanged(p, c, "FAILURE")
             d == removeCallAccount(q, c)
  <2>1. Noted(p, a, c)
    BY <1>5, <1>6, NotedSteps
  <2>2. p.live = n.live
    BY <1>4, <1>5, <2>1 DEF Noted, Quiet
  <2> HIDE DEF p
  <2>3. Noted(q, p, c)
    BY <2>1, NotedSteps DEF Noted, Quiet
  <2>4. ~participToConference(q, c)
    BY <1>9, <2>2, <2>3 DEF Noted, Quiet, participToConference
  <2>5. k = removeWaitingCall(d, c)
    <3> HIDE DEF q
    <3> QED
      BY <1>9, <2>4 DEF callFailure, p, q
  <2> HIDE DEF q
  <2>6. Noted(d, q, c)
    BY <2>3, NotedSteps DEF Noted, Quiet
  <2> HIDE DEF d
  <2>7. Noted(k, d, c)
    BY <2>5, <2>6, NotedSteps DEF Noted, Quiet
  <2>8. Noted(k, a, c)
    BY <2>1, <2>3, <2>6, <2>7, NotedTrans
  <2>9. Audio(k, a, C) /\ Spares(k, a, c)
    BY <2>8, NotedAudio
  <2> QED
    BY <1>6, <2>9, AudioTrans, SparesTrans DEF k
<1> QED
  BY <1>3, <1>7, <1>8, <1>9

\* Which peers can be reached, and which INVITEs are pending, is not heard.
LEMMA PeersReachedAudio ==
    ASSUME NEW n, Shaped(n), n.call \in [Calls -> CallRecords], NEW W, NEW c \in Calls,
           NEW i, NEW k, k \in {[n EXCEPT !.cutOff = W], [n EXCEPT !.call[c].invite = i]}
    PROVE  /\ \A x, y \in Calls : Deaf(k, x, y) => Deaf(n, x, y)
           /\ \A x \in Calls : Orphan(k, x) => Orphan(n, x)
           /\ \A x \in Calls : HeldHeard(k, x) => HeldHeard(n, x)
           /\ Spares(k, n, c)
<1> DEFINE r == [n.call[c] EXCEPT !.invite = i]
<1>1. /\ k.bound = n.bound /\ k.live = n.live /\ k.confs = n.confs /\ k.shown = n.shown
      /\ k.call \in {n.call, [n.call EXCEPT ![c] = r]}
  BY DEF Shaped
<1>2. r.state = n.call[c].state /\ r.conn = n.call[c].conn /\ r.confId = n.call[c].confId
  BY DEF CallRecords
<1> HIDE DEF r
<1>3. \A x \in Calls : /\ k.call[x].state = n.call[x].state
                       /\ k.call[x].conn = n.call[x].conn
                       /\ k.call[x].confId = n.call[x].confId
  BY <1>1, <1>2
<1> QED
  BY <1>1, <1>3, BoundSpares DEF Deaf, Talks, Orphan, HeldHeard

--------------------------------------------------------------------------------
(***************************************************************************)
(* Who hears whom: entering a conference.                                  *)
(***************************************************************************)

\* What leaveCurrent does to the Call objects: a participant's and one that is not
\* current stay as they are, and nothing is connected.
LEMMA LeaveCurrentCalls ==
    ASSUME NEW n, Typed(n), NEW c, NEW x \in Calls
    PROVE  LET k == leaveCurrent(n, c) IN
           /\ n.call[x].confId # None \/ n.current # x => k.call[x] = n.call[x]
           /\ k.call[x].conn = n.call[x].conn
<1>1. Shaped(n) /\ n.call \in [Calls -> CallRecords]
  BY TypedShaped, TypedFields
<1>2. detachMainParticipant(n).call = n.call
  <2>1. unBindAll(n, Default).call = n.call /\ Shaped(unBindAll(n, Default))
    BY <1>1, UnBindAllFields
  <2> HIDE DEF unBindAll
  <2> QED
    BY <2>1 DEF detachMainParticipant, switchCall, Shaped
<1>3. ASSUME ~participToConference(n, n.current)
      PROVE  LET k == onHoldCall(n, n.current) IN
             /\ n.call[x].confId # None \/ n.current # x => k.call[x] = n.call[x]
             /\ k.call[x].conn = n.call[x].conn
  <2>1. CASE n.current \notin n.account
    BY <2>1 DEF onHoldCall
  <2>2. CASE n.current \in n.account
    <3>1. onHoldCall(n, n.current).call
            = IF n.current \in n.live
              THEN [n.call EXCEPT ![n.current] = Held(n, n.current)]
              ELSE n.call
      BY <1>1, <2>2, OnHoldCallFields
    <3>2. n.current \in n.live /\ n.call[x].confId # None => n.current # x
      BY <1>3 DEF participToConference
    <3>3. Held(n, x).conn = n.call[x].conn
      BY <1>1, HeldFields
    <3> QED
      BY <1>1, <3>1, <3>2, <3>3
  <2> QED
    BY <2>1, <2>2
<1> QED
  BY <1>2, <1>3 DEF leaveCurrent

\* offHoldCall and answerCall change the Call objects in the link and when the
\* current call is left.
LEMMA ResumeLinks ==
    ASSUME NEW n, Typed(n), NEW c \in Calls
    PROVE  LET a == leaveCurrent(n, c) IN
           /\ offHoldCall(n, c).call = linkOffHold(a, c).call
           /\ answerCall(n, c).call = linkAnswer(a, c).call
<1> DEFINE a == leaveCurrent(n, c)
<1>1. Steady(a, n)
  BY LeaveCurrentSteady
<1>2. Typed(a) /\ Shaped(a) /\ a.call \in [Calls -> CallRecords]
  BY <1>1, TypedShaped, TypedFields DEF Steady
<1>3. offHoldCall(n, c).call = linkOffHold(a, c).call
  <2> DEFINE b == linkOffHold(a, c)
             d == callStateChanged(b, c, "CURRENT")
             e == switchToCall(d, c)
             k == addStream(e, c)
  <2>1. offHoldCall(n, c) = IF c \notin a.live THEN abort(a) ELSE k
    BY DEF offHoldCall
  <2> HIDE DEF a
  <2>2. Shaped(b) /\ (c \notin a.live => b = a)
    BY <1>2 DEF linkOffHold, Shaped
  <2> HIDE DEF b
  <2>3. Quiet(d, b)
    BY <2>2, QuietSteps
  <2> HIDE DEF d
  <2>4. Quiet(e, d)
    BY <2>3, QuietSteps DEF switchToCall, Quiet
  <2> HIDE DEF e
  <2>5. k.call = e.call
    BY <2>4, AddStreamFields DEF Quiet
  <2> HIDE DEF k
  <2>6. Quiet(abort(a), a)
    BY <1>2, QuietSteps
  <2> QED
    BY <2>1, <2>2, <2>3, <2>4, <2>5, <2>6 DEF Quiet, b
<1>4. answerCall(n, c).call = linkAnswer(a, c).call
  <2> DEFINE g == linkAnswer(a, c)
             b == removeWaitingCall(g, c)
             d == switchToCall(b, c)
             e == addStream(d, c)
             k == callStateChanged(e, c, "CURRENT")
  <2>1. answerCall(n, c) = k
    BY DEF answerCall
  <2> HIDE DEF a
  <2>2. Shaped(g)
    BY <1>2 DEF linkAnswer, Shaped
  <2> HIDE DEF g
  <2>3. Quiet(b, g)
    BY <2>2, QuietSteps
  <2> HIDE DEF b
  <2>4. Quiet(d, b)
    BY <2>3, QuietSteps DEF switchToCall, Quiet
  <2> HIDE DEF d
  <2>5. Shaped(e) /\ e.call = d.call
    BY <2>4, AddStreamFields DEF Quiet
  <2> HIDE DEF e
  <2>6. Quiet(k, e)
    BY <2>5, QuietSteps
  <2> QED
    BY <2>1, <2>2, <2>3, <2>4, <2>5, <2>6 DEF Quiet, g
<1> QED
  BY <1>3, <1>4

\* They leave the objects of other participants alone.
LEMMA ResumeCalls ==
    ASSUME NEW n, Typed(n), NEW c \in Calls, NEW x \in Calls, x # c, n.call[x].confId # None
    PROVE  /\ offHoldCall(n, c).call[x] = n.call[x]
           /\ answerCall(n, c).call[x] = n.call[x]
<1> DEFINE a == leaveCurrent(n, c)
<1>1. a.call[x] = n.call[x] /\ Steady(a, n)
  BY LeaveCurrentCalls, LeaveCurrentSteady
<1>2. Shaped(a) /\ a.call \in [Calls -> CallRecords]
  BY <1>1, TypedShaped, TypedFields DEF Steady
<1>3. /\ offHoldCall(n, c).call = linkOffHold(a, c).call
      /\ answerCall(n, c).call = linkAnswer(a, c).call
  BY ResumeLinks
<1> HIDE DEF a
<1>4. linkOffHold(a, c).call[x] = a.call[x] /\ linkAnswer(a, c).call[x] = a.call[x]
  BY <1>2 DEF linkOffHold, linkAnswer, Shaped
<1> QED
  BY <1>1, <1>3, <1>4

\* A call that is not current and whose re-INVITE is sent is on hold no more.
LEMMA OffHoldResumes ==
    ASSUME NEW n, Typed(n), NEW c \in n.live, n.current # c, Reinvited(n, c)
    PROVE  offHoldCall(n, c).call[c].state = "Active"
<1> DEFINE a == leaveCurrent(n, c)
<1>0. c \in Calls
  BY TypedFields
<1>1. a.call[c] = n.call[c] /\ Steady(a, n)
  BY <1>0, LeaveCurrentCalls, LeaveCurrentSteady
<1>2. Shaped(a) /\ a.call \in [Calls -> CallRecords]
  BY <1>1, TypedShaped, TypedFields DEF Steady
<1>3. offHoldCall(n, c).call = linkOffHold(a, c).call
  BY <1>0, ResumeLinks
<1> HIDE DEF a
<1>4. c \in a.live /\ Reinvited(a, c)
  BY <1>1 DEF Steady, Reinvited
<1>5. linkOffHold(a, c).call[c] = [a.call[c] EXCEPT !.state = "Active", !.invite = "other"]
  BY <1>0, <1>2, <1>4 DEF linkOffHold, Shaped
<1>6. a.call[c] \in CallRecords
  BY <1>0, <1>2
<1> QED
  BY <1>3, <1>5, <1>6 DEF CallRecords

\* Only a call that was answered before can be on hold when it has been accepted.
LEMMA AnsweredOnHold ==
    ASSUME NEW n, Typed(n), NEW c \in Calls, HeldHeard(answerCall(n, c), c)
    PROVE  n.call[c].conn = "Connected"
<1> DEFINE a == leaveCurrent(n, c)
           r == [a.call[c] EXCEPT !.conn = "Connected", !.state = "Active"]
<1>1. a.call[c].conn = n.call[c].conn /\ Steady(a, n)
  BY LeaveCurrentCalls, LeaveCurrentSteady
<1>2. Shaped(a) /\ a.call \in [Calls -> CallRecords]
  BY <1>1, TypedShaped, TypedFields DEF Steady
<1>3. answerCall(n, c).call = linkAnswer(a, c).call
  BY ResumeLinks
<1> HIDE DEF a
<1>4. linkAnswer(a, c).call[c] \in {a.call[c], r}
  BY <1>2 DEF linkAnswer, Shaped
<1>5. r.state = "Active"
  BY <1>2 DEF CallRecords
<1> HIDE DEF r
<1> QED
  BY <1>1, <1>3, <1>4, <1>5 DEF HeldHeard

\* So does a participant that enters, with those of the others.
LEMMA EnterCalls ==
    ASSUME NEW n, Sound(n), NEW f \in n.confs, NEW c \in n.live,
           n.call[c].confId = f, NEW s, NEW answered, NEW x \in Calls, x # c,
           n.call[x].confId # None
    PROVE  enter(n, f, c, s, answered).call[x] = n.call[x]
<1> DEFINE b == bindParticipant(n, f, c)
<1>1. Typed(n) /\ c \in Calls
  BY TypedFields DEF Sound
<1>2. Steady(b, n) /\ b.call = n.call
  <2>1. b.call = n.call
    BY <1>1, TypedShaped DEF bindParticipant, Shaped
  <2> QED
    BY <1>1, <2>1, BindParticipantSteady
<1>3. enter(n, f, c, s, answered) \in {offHoldCall(b, c), answerCall(b, c), b, n}
  BY DEF enter
<1> HIDE DEF b
<1>4. Typed(b)
  BY <1>2 DEF Steady
<1>5. offHoldCall(b, c).call[x] = b.call[x] /\ answerCall(b, c).call[x] = b.call[x]
  BY <1>1, <1>2, <1>4, ResumeCalls
<1> QED
  BY <1>2, <1>3, <1>5

\* The user comes along with the call.
LEMMA ApproachedAudio ==
    ASSUME NEW n, Sound(n), NEW c, NEW f \in Confs, NEW C, Inside(n, C)
    PROVE  Audio(Approached(n, c, f), n, C)
<1> DEFINE x == IF n.current = c THEN n
                ELSE IF isConference(n, n.current) THEN detachMainParticipant(n)
                ELSE onHoldCall(n, n.current)
           y == switchCall(x, None)
           k == addMainParticipant(y, f)
<1>1. Typed(n) /\ Audio(n, n, C)
  BY DEF Sound, Audio
<1>2. Steady(x, n) /\ Audio(x, n, C)
  BY <1>1, TypedFields, SteadyRefl, DetachMainParticipantSteady, OnHoldCallSteady,
     DetachMainParticipantAudio, OnHoldCallAudio
<1> HIDE DEF x
<1>3. Typed(x) /\ Shaped(x)
  BY <1>2, TypedShaped DEF Steady
<1>4. Steady(y, x) /\ Quiet(y, x)
  BY <1>3, SwitchCallSteady, QuietSteps
<1> HIDE DEF y
<1>5. Steady(y, n) /\ Audio(y, n, C)
  BY <1>1, <1>2, <1>4, SteadyTrans, QuietAudio, AudioTrans
<1>6. Sound(y) /\ Inside(y, C)
  BY <1>5, SteadySound, SteadyInside
<1>7. Audio(k, y, C)
  BY <1>6, AddMainParticipantAudio
<1> HIDE DEF k
<1>8. Audio(k, n, C)
  BY <1>5, <1>7, AudioTrans
<1> QED
  BY <1>8 DEF Approached, k, y, x

\* The calls D got into conference f and lost their streams: only who hears them
\* changed.
LEMMA EnrolAudio ==
    ASSUME NEW a, NEW e, NEW f, NEW D \in SUBSET Calls, NEW C,
           e.live = a.live, e.cutOff = a.cutOff, e.confs = a.confs \cup {f},
           f \notin a.confs => \A x \in Calls : a.call[x].confId # f,
           \A x \in Calls \ D : e.call[x] = a.call[x],
           e.bound = {b \in a.bound : \A d \in D : d \notin b}
    PROVE  AudioBut(e, a, C, D)
<1>1. \A x, y \in Calls \ D : {x, y} \in a.bound => {x, y} \in e.bound
  OBVIOUS
<1>2. \A x, y \in Calls \ D : Deaf(e, x, y) => Deaf(a, x, y)
  <2> SUFFICES ASSUME NEW x \in Calls \ D, NEW y \in Calls \ D, Deaf(e, x, y)
               PROVE  Deaf(a, x, y)
    OBVIOUS
  <2>1. e.call[x] = a.call[x] /\ e.call[y] = a.call[y]
    OBVIOUS
  <2>2. a.call[x].confId \in a.confs
    BY <2>1 DEF Deaf
  <2> QED
    BY <1>1, <2>1, <2>2 DEF Deaf, Talks
<1>3. \A x \in Calls : Orphan(e, x) => Orphan(a, x)
  BY DEF Orphan
<1>4. \A x \in Calls : HeldHeard(e, x) => HeldHeard(a, x)
  <2> SUFFICES ASSUME NEW x \in Calls, HeldHeard(e, x)
               PROVE  HeldHeard(a, x)
    OBVIOUS
  <2>1. x \notin D /\ {x, Default} \in a.bound
    BY DEF HeldHeard
  <2> QED
    BY <2>1 DEF HeldHeard
<1> QED
  BY <1>2, <1>3, <1>4 DEF AudioBut

\* What CALL_STATE says of a call, and of one that waits.
LEMMA StatesOffered ==
    ASSUME NEW n, Sound(n), NEW c \in n.live
    PROVE  LET s == getStateStr(n, c) IN
           /\ s \in {"HOLD", "CURRENT", "INCOMING", "INACTIVE"}
           /\ s = "HOLD" => c \notin n.waiting
<1>1. c \in Calls
  BY TypedFields DEF Sound
<1>2. n.call[c] \in CallRecords
  BY <1>1, TypedFields DEF Sound
<1>3. getStateStr(n, c) # "RINGING" /\ (c \in n.waiting => getStateStr(n, c) = "INCOMING")
  BY <1>1, StateStrings
<1> QED
  BY <1>2, <1>3 DEF getStateStr, CallRecords

\* addParticipant: the call that enters and the others of its conference hear each
\* other afterwards, and the user hears no other call on hold.
LEMMA AddParticipantAudio ==
    ASSUME NEW n, Sound(n), NEW c \in Calls, NEW f \in Confs, n.call[c].confId = None,
           NEW C, Inside(n, C)
    PROVE  LET k == addParticipant(n, c, f) IN
           /\ Audio(k, n, C \cup {c}) /\ Inside(k, C \cup {c})
           /\ k = n \/ k.call[c].confId # None
<1> DEFINE a == Approached(n, c, f)
           e == Enrolled(a, c, f)
           s == getStateStr(e, c)
           l == enter(e, f, c, s, {"INCOMING"})
           k == addStream(l, c)
           E == C \cup {c}
<1>1. Typed(n)
  BY DEF Sound
<1>2. addParticipant(n, c, f) = IF f \notin n.confs \/ c \notin n.live THEN n ELSE k
  BY DEF addParticipant, Approached, Enrolled
<1>3. Steady(a, n) /\ Audio(a, n, E)
  <2>1. Inside(n, E)
    BY DEF Inside
  <2> QED
    BY <1>1, <2>1, ApproachedSteady, ApproachedAudio
<1> HIDE DEF a
<1>4. Sound(a) /\ Inside(a, C)
  BY <1>3, SteadySound, SteadyInside
<1>5. CASE f \notin n.confs \/ c \notin n.live
  BY <1>2, <1>5 DEF Audio, Inside
<1>6. CASE f \in n.confs /\ c \in n.live
  <2>0. f # None
    BY NamesAssumption
  <2>1. f \in a.confs /\ c \in a.live /\ a.call[c].confId = None
    BY <1>3, <1>6 DEF Steady
  <2>2. /\ Sound(e) /\ Typed(e) /\ e.live = a.live /\ e.confs = a.confs
        /\ e.cutOff = a.cutOff /\ e.waiting = a.waiting
        /\ e.call[c].confId = f /\ \A d \in Calls \ {c} : e.call[d] = a.call[d]
        /\ e.bound = {b \in a.bound : c \notin b}
    BY <1>4, <2>1, ParticipantEnrols
  <2> HIDE DEF e
  <2>3. AudioBut(e, a, E, {c})
    <3> DEFINE D == {c}
    <3>1. /\ D \in SUBSET Calls /\ e.confs = a.confs \cup {f}
          /\ \A x \in Calls \ D : e.call[x] = a.call[x]
          /\ e.bound = {b \in a.bound : \A d \in D : d \notin b}
      BY <2>1, <2>2
    <3> HIDE DEF D
    <3>2. AudioBut(e, a, E, D)
      BY <2>1, <2>2, <3>1, EnrolAudio
    <3> QED
      BY <3>2 DEF D
  <2>4. Inside(e, E)
    BY <1>4, <2>2 DEF Inside
  <2>5. /\ f \in e.confs /\ c \in e.live
        /\ s \in {"HOLD", "CURRENT", "INCOMING", "INACTIVE"}
        /\ s = "HOLD" => c \notin e.waiting
    BY <2>1, <2>2, StatesOffered
  <2> HIDE DEF s, E
  <2>6. {"INCOMING"} \in SUBSET {"INCOMING", "INACTIVE"}
    OBVIOUS
  <2>7. Audio(l, e, E)
    BY <2>2, <2>4, <2>5, <2>6, EnterAudio
  <2>8. Steady(l, e)
    <3>1. c \in e.waiting => s = "INCOMING"
      BY <2>2, <2>5, StateStrings, TypedFields DEF s
    <3> QED
      BY <2>2, <2>5, <2>6, <3>1, EnterSteady
  <2> HIDE DEF l
  <2>9. Sound(l) /\ Inside(l, E) /\ c \in l.live /\ Typed(l)
    BY <2>2, <2>4, <2>5, <2>8, SteadySound, SteadyInside DEF Steady
  <2>10. Audio(k, l, E) /\ (~Lag => AllHear(k, c))
    BY <2>9, AddStreamAudio DEF E
  <2>11. Steady(k, l)
    BY <2>9, AddStreamSteady
  <2> HIDE DEF k
  <2>12. Inside(k, E)
    BY <2>9, <2>11, SteadyInside
  <2>13. Audio(k, e, E)
    BY <2>7, <2>10, AudioTrans
  <2>14. Audio(k, a, E)
    BY <2>3, <2>10, <2>13, AudioRestored
  <2>15. Audio(k, n, E)
    BY <1>3, <2>14, AudioTrans
  <2>16. k.call[c].confId # None
    BY <2>0, <2>2, <2>8, <2>11 DEF Steady
  <2> QED
    BY <1>2, <1>6, <2>12, <2>15, <2>16 DEF k, E
<1> QED
  BY <1>5, <1>6

\* joinParticipant: the two calls hear each other, and the user no other on hold.
LEMMA JoinParticipantAudio ==
    ASSUME NEW n, Sound(n), NEW f \in Confs, NEW c \in Calls, NEW d \in Calls, c # d,
           n.call[c].confId = None, n.call[d].confId = None,
           f \notin n.confs, \A x \in Calls : n.call[x].confId # f,
           NEW C, Inside(n, C)
    PROVE  LET k == joinParticipant(n, f, c, d) IN
           /\ Audio(k, n, C \cup {c, d})
           /\ \/ Quiet(k, n)
              \/ k.call[c].confId # None /\ k.call[d].confId # None
<1> DEFINE a == IF n.current \in {c, d} THEN n
                ELSE IF isConference(n, n.current) THEN detachMainParticipant(n)
                ELSE onHoldCall(n, n.current)
           e == Paired(a, f, c, d)
           answered == {"INCOMING", "INACTIVE"}
           s == getStateStr(n, c)
           t == getStateStr(n, d)
           u == enter(e, f, c, s, answered)
           v == enter(u, f, d, t, answered)
           w == switchCall(v, f)
           k == [w EXCEPT !.conf[f].state = "ACTIVE_ATTACHED"]
           D == {c, d}
           E == C \cup D
<1>1. Typed(n) /\ Shaped(n) /\ n.call \in [Calls -> CallRecords] /\ Audio(n, n, E)
  BY TypedShaped, TypedFields DEF Sound, Audio
<1>2. joinParticipant(n, f, c, d) = IF {c, d} \subseteq n.live THEN k ELSE abort(n)
  BY DEF joinParticipant, Paired
<1>3. Steady(a, n) /\ Audio(a, n, E) /\ \A x \in D : a.call[x] = n.call[x]
  <2>1. Steady(a, n) /\ Audio(a, n, E)
    <3>1. n.current \in Calls \cup Confs \cup {None}
      BY <1>1, TypedFields
    <3>2. /\ Steady(n, n)
          /\ Steady(detachMainParticipant(n), n)
          /\ Steady(onHoldCall(n, n.current), n)
      BY <1>1, <3>1, SteadyRefl, DetachMainParticipantSteady, OnHoldCallSteady
    <3>3. /\ Audio(detachMainParticipant(n), n, E)
          /\ Audio(onHoldCall(n, n.current), n, E)
      BY <1>1, <3>1, DetachMainParticipantAudio, OnHoldCallAudio
    <3> QED
      BY <1>1, <3>2, <3>3
  <2>2. detachMainParticipant(n).call = n.call
    <3>1. unBindAll(n, Default).call = n.call /\ Shaped(unBindAll(n, Default))
      BY <1>1, UnBindAllFields
    <3> HIDE DEF unBindAll
    <3> QED
      BY <3>1 DEF detachMainParticipant, switchCall, Shaped
  <2>3. n.current \notin D => \A x \in D : onHoldCall(n, n.current).call[x] = n.call[x]
    <3>1. CASE n.current \notin n.account
      BY <3>1 DEF onHoldCall
    <3>2. CASE n.current \in n.account
      <4>1. onHoldCall(n, n.current).call
              = IF n.current \in n.live
                THEN [n.call EXCEPT ![n.current] = Held(n, n.current)]
                ELSE n.call
        BY <1>1, <3>2, OnHoldCallFields
      <4> QED
        BY <1>1, <4>1
    <3> QED
      BY <3>1, <3>2
  <2> QED
    BY <2>1, <2>2, <2>3
<1> HIDE DEF a
<1>4. Sound(a) /\ Inside(a, C)
  BY <1>3, SteadySound, SteadyInside
<1>5. CASE ~ ({c, d} \subseteq n.live)
  <2>1. Quiet(abort(n), n)
    BY <1>1, QuietSteps
  <2> QED
    BY <1>2, <1>5, <2>1, QuietAudio
<1>6. CASE {c, d} \subseteq n.live
  <2>1. /\ f \notin a.confs /\ c \in a.live /\ d \in a.live
        /\ a.call[c].confId = None /\ a.call[d].confId = None
        /\ \A x \in Calls : a.call[x].confId # f
    BY <1>3, <1>6 DEF Steady
  <2>2. /\ Sound(e) /\ Typed(e) /\ e.live = a.live /\ e.confs = a.confs \cup {f}
        /\ e.cutOff = a.cutOff /\ e.waiting = a.waiting
        /\ e.call[c].confId = f /\ e.call[c].state = a.call[c].state
        /\ e.call[d].confId = f /\ e.call[d].state = a.call[d].state
        /\ \A x \in Calls \ D : e.call[x] = a.call[x]
        /\ e.bound = {b \in a.bound : \A x \in D : x \notin b}
    <3>1. LET z == Paired(a, f, c, d) IN
          /\ Sound(z) /\ Typed(z) /\ z.live = a.live /\ z.confs = a.confs \cup {f}
          /\ z.cutOff = a.cutOff /\ z.waiting = a.waiting
          /\ \A x \in {c, d} : /\ z.call[x].confId = f
                              /\ z.call[x].state = a.call[x].state
          /\ \A x \in Calls \ {c, d} : z.call[x] = a.call[x]
          /\ z.bound = {b \in a.bound : c \notin b /\ d \notin b}
      BY <1>4, <2>1, PairEnrols
    <3> HIDE DEF e
    <3>2. {b \in a.bound : c \notin b /\ d \notin b}
            = {b \in a.bound : \A x \in D : x \notin b}
      OBVIOUS
    <3> QED
      BY <3>1, <3>2 DEF e
  <2> HIDE DEF e
  <2>3. AudioBut(e, a, E, D)
    <3>1. D \in SUBSET Calls
      OBVIOUS
    <3> HIDE DEF D, E
    <3> QED
      BY <2>1, <2>2, <3>1, EnrolAudio
  <2>4. Inside(e, E)
    BY <1>4, <2>2 DEF Inside
  <2>5. /\ f \in e.confs /\ c \in e.live /\ d \in e.live
        /\ s \in {"HOLD", "CURRENT"} \cup answered /\ (s = "HOLD" => c \notin n.waiting)
        /\ t \in {"HOLD", "CURRENT"} \cup answered /\ (t = "HOLD" => d \notin n.waiting)
        /\ e.waiting \subseteq n.waiting
        /\ c \in n.waiting => s = "INCOMING"
        /\ d \in n.waiting => t = "INCOMING"
    <3>1. f \in e.confs /\ c \in e.live /\ d \in e.live /\ e.waiting \subseteq n.waiting
      BY <1>3, <2>1, <2>2 DEF Steady
    <3>2. /\ s \in {"HOLD", "CURRENT"} \cup answered /\ (s = "HOLD" => c \notin n.waiting)
          /\ t \in {"HOLD", "CURRENT"} \cup answered /\ (t = "HOLD" => d \notin n.waiting)
      BY <1>6, StatesOffered
    <3>3. /\ c \in n.waiting => s = "INCOMING"
          /\ d \in n.waiting => t = "INCOMING"
      BY StateStrings
    <3> HIDE DEF s, t
    <3> QED
      BY <3>1, <3>2, <3>3
  <2>6. /\ answered \in SUBSET {"INCOMING", "INACTIVE"} /\ "INCOMING" \in answered
        /\ None # f /\ c \in D /\ d \in D
    BY NamesAssumption
  <2> HIDE DEF s, t, E, answered, D
  <2>7. Audio(u, e, E) /\ (~Lag => AllHear(u, c))
    BY <2>2, <2>4, <2>5, <2>6, EnterAudio
  <2>8. Steady(u, e) /\ Sound(u) /\ Inside(u, E) /\ u.call[d] = e.call[d]
    <3>1. Steady(u, e) /\ Sound(u)
      BY <2>2, <2>5, <2>6, EnterAnswers
    <3>2. u.call[d] = e.call[d]
      <4>1. e.call[c].confId = f /\ e.call[d].confId # None /\ d # c
        BY <2>2, <2>6
      <4>2. Sound(e) /\ f \in e.confs /\ c \in e.live
        BY <2>2, <2>5
      <4> QED
        BY <4>1, <4>2, EnterCalls
    <3> QED
      BY <2>4, <3>1, <3>2, SteadyInside
  <2> HIDE DEF u
  <2>9. /\ f \in u.confs /\ d \in u.live /\ u.call[d].confId = f
        /\ u.call[c].confId = f /\ u.waiting \subseteq n.waiting
    BY <2>2, <2>5, <2>8 DEF Steady
  <2>10. Audio(v, u, E) /\ (~Lag => AllHear(v, d))
    BY <2>5, <2>6, <2>8, <2>9, EnterAudio
  <2>11. v.call[c] = u.call[c] /\ Steady(v, u)
    <3>1. v.call[c] = u.call[c]
      BY <2>6, <2>8, <2>9, EnterCalls
    <3>2. Steady(v, u)
      BY <2>5, <2>6, <2>8, <2>9, EnterAnswers
    <3> QED
      BY <3>1, <3>2
  <2> HIDE DEF v
  <2>12. ~Lag => AllHear(v, c)
    BY <2>7, <2>10 DEF AllHear, Audio
  <2>12a. v.call[c].confId # None /\ v.call[d].confId # None
    BY <2>6, <2>9, <2>11 DEF Steady
  <2>13. Audio(v, e, E)
    BY <2>7, <2>10, AudioTrans
  <2>14. ~Lag => \A x \in D : AllHear(v, x)
    BY <2>10, <2>12 DEF D
  <2>15. Audio(v, a, E)
    BY <2>3, <2>13, <2>14, AudioRestored
  <2>16. Quiet(w, v)
    BY <2>11, TypedShaped, QuietSteps DEF Steady
  <2> HIDE DEF w
  <2>17. Quiet(k, w)
    BY <2>16 DEF Quiet, Shaped
  <2> HIDE DEF k
  <2>18. Audio(k, v, E)
    BY <2>16, <2>17, QuietTrans, QuietAudio
  <2>19. Audio(k, n, E)
    BY <1>3, <2>15, <2>18, AudioTrans
  <2>20. k.call = v.call
    BY <2>16, <2>17 DEF Quiet
  <2> QED
    BY <1>2, <1>6, <2>12a, <2>19, <2>20 DEF k, E, D
<1> QED
  BY <1>5, <1>6

\* offHoldCall of any call that does not wait: of one that is gone, the process dies
\* when what was current has been put on hold.
LEMMA ResumedAudio ==
    ASSUME NEW n, Sound(n), NEW c \in Calls, c \notin n.waiting, NEW C, Inside(n, C),
           c \in n.live => c \in C
    PROVE  Audio(offHoldCall(n, c), n, C)
<1>1. CASE c \in n.live
  BY <1>1, OffHoldCallAudio
<1>2. CASE c \notin n.live
  <2> DEFINE a == leaveCurrent(n, c)
  <2>1. Typed(n)
    BY DEF Sound
  <2>2. Steady(a, n) /\ Audio(a, n, C)
    BY <2>1, LeaveCurrentSteady, LeaveCurrentAudio
  <2>3. c \notin a.live => offHoldCall(n, c) = abort(a)
    BY DEF offHoldCall
  <2> HIDE DEF a
  <2>4. offHoldCall(n, c) = abort(a) /\ Shaped(a)
    BY <1>2, <2>2, <2>3, TypedShaped DEF Steady
  <2>5. Audio(abort(a), a, C)
    BY <2>4, QuietSteps, QuietAudio
  <2> QED
    BY <2>2, <2>4, <2>5, AudioTrans
<1> QED
  BY <1>1, <1>2

\* From n to k conferences may have gone and lost participants.
Shrinks(k, n) ==
    /\ k.confs \subseteq n.confs
    /\ \A f \in k.confs : k.conf[f].parts \subseteq n.conf[f].parts

\* No conference has c among its participants.
Without(k, c) == \A f \in k.confs : c \notin k.conf[f].parts

\* The last participant's release leaves the conferences as they are.
LEMMA ReleaseLastConfs ==
    ASSUME NEW n, Shaped(n), NEW id, NEW f
    PROVE  LET k == releaseLast(n, id, f) IN
           Shaped(k) /\ k.confs = n.confs /\ k.conf = n.conf
<1> DEFINE p == FirstOf(n.conf[f].parts)
           a == [n EXCEPT !.call[p].confId = None]
<1>1. Shaped(a) /\ a.confs = n.confs /\ a.conf = n.conf
  BY DEF Shaped
<1>2. releaseLast(n, id, f) \in {n, abort(n), switchCall(a, p), onHoldCall(a, p)}
  BY DEF releaseLast
<1> HIDE DEF a
<1>3. /\ Shaped(abort(n)) /\ abort(n).confs = n.confs /\ abort(n).conf = n.conf
      /\ Shaped(switchCall(a, p)) /\ switchCall(a, p).confs = a.confs
      /\ switchCall(a, p).conf = a.conf
  BY <1>1 DEF Shaped, abort, switchCall
<1>4. /\ Shaped(onHoldCall(a, p)) /\ onHoldCall(a, p).confs = a.confs
      /\ onHoldCall(a, p).conf = a.conf
  BY <1>1, OnHoldCallKeeps
<1> HIDE DEF p
<1> QED
  BY <1>1, <1>2, <1>3, <1>4

\* Leaving a conference adds nobody to any.
LEMMA LeaveConferenceShrinks ==
    ASSUME NEW n, Sound(n), NEW c \in Calls, NEW id
    PROVE  Shrinks(leaveConference(n, c, id), n)
<1> DEFINE f == n.call[c].confId
           a == removeParticipant(n, c)
           d == releaseLast(a, id, f)
           k == leaveConference(n, c, id)
<1>1. Typed(n) /\ n.confs \subseteq Confs
  BY TypedFields DEF Sound
<1>2. CASE f \notin n.confs
  BY <1>2 DEF leaveConference, Shrinks
<1>3. CASE f \in n.confs
  <2>1. Removed(a, n, c, f)
    BY <1>1, <1>3, RemoveParticipantFields
  <2>2. k \in {a, removeConference(d, f), switchCall(removeConference(a, f), None)}
    BY <1>3 DEF leaveConference, processRemainingParticipant
  <2> HIDE DEF a, k
  <2>3. Typed(a) /\ Shaped(a) /\ Shrinks(a, n)
    BY <1>1, <2>1, TypedShaped DEF Removed, Shrinks
  <2>4. Shaped(d) /\ d.confs = a.confs /\ d.conf = a.conf
    BY <2>3, ReleaseLastConfs
  <2> HIDE DEF d
  <2>5. ASSUME NEW x, Shaped(x), x.confs = a.confs, x.conf = a.conf
        PROVE  Shrinks(removeConference(x, f), a) /\ Shaped(removeConference(x, f))
    <3> DEFINE y == removeConference(x, f)
    <3>1. /\ y.confs = x.confs \ {f} /\ y.conf = [x.conf EXCEPT ![f] = NewConference]
          /\ Shaped(y)
      BY <1>3, <2>1, <2>5 DEF removeConference, unBindAll, bindCallID, Shaped, Removed
    <3> HIDE DEF y
    <3>2. a.conf \in [Confs -> ConfRecords] /\ a.confs \subseteq Confs
      BY <2>3, TypedFields
    <3>3. Shrinks(y, a)
      BY <2>5, <3>1, <3>2 DEF Shrinks
    <3> QED
      BY <3>1, <3>3 DEF y
  <2>6. Shrinks(removeConference(d, f), a)
    BY <2>4, <2>5
  <2>7. Shrinks(switchCall(removeConference(a, f), None), a)
    <3>1. Shrinks(removeConference(a, f), a) /\ Shaped(removeConference(a, f))
      BY <2>3, <2>5
    <3> DEFINE y == removeConference(a, f)
    <3> HIDE DEF y
    <3> QED
      BY <3>1 DEF Shaped, switchCall, Shrinks, y
  <2>8. Shrinks(k, a)
    <3>1. Shrinks(a, a)
      BY DEF Shrinks
    <3> QED
      BY <2>2, <2>6, <2>7, <3>1
  <2> QED
    BY <2>3, <2>8 DEF Shrinks, k
<1> QED
  BY <1>2, <1>3

\* A hang-up ends the call's membership and its account entry, and takes nothing
\* from other calls.
LEMMA HangupCallParts ==
    ASSUME NEW n, Settled(n), NEW c \in Calls, c \notin n.waiting, NEW C
    PROVE  LET k == hangupCall(n, c) IN
           /\ Shrinks(k, n) /\ k.account = n.account \ {c}
           /\ n.live \ {c} \subseteq k.live
           /\ Inside(n, C) => Inside(k, C)
           /\ c \in n.live \cap n.account => Without(k, c)
<1> DEFINE a == callStateChanged(n, c, "NONE")
           b == removeStream(a, c)
           d == IF participToConference(b, c) THEN leaveConference(b, c, n.current)
                ELSE IF isConference(b, n.current) THEN b ELSE switchCall(b, None)
           e == linkHangup(d, c)
           k == removeCallAccount(e, c)
<1>1. Typed(n) /\ Sound(n) /\ Shaped(n)
  BY TypedShaped DEF Settled, Sound
<1>2. hangupCall(n, c) = IF c \notin n.account THEN a ELSE k
  BY DEF hangupCall
<1>3. Steady(a, n) /\ Tells(a, n) /\ Shaped(a)
  <2>1. Steady(a, n) /\ Tells(a, n)
    BY <1>1, CallStateChangedSteady DEF Answers
  <2> QED
    BY <2>1, TypedShaped DEF Steady
<1> HIDE DEF a
<1>4. Settled(a) /\ Sound(a) /\ Typed(a)
  BY <1>3, SteadyFollows DEF Follows, Settled, Sound
<1>5. Steady(b, a) /\ Tells(b, a)
  BY <1>4, UnBindAllSteady DEF removeStream
<1> HIDE DEF b
<1>6. Settled(b) /\ Sound(b) /\ Typed(b)
  BY <1>4, <1>5, SteadyFollows DEF Follows, Settled, Sound
<1>7. /\ Leaves(d, b) /\ d.call[c].confId \notin d.confs /\ Shrinks(d, b)
  <2>1. /\ participToConference(b, c) => d = leaveConference(b, c, n.current)
        /\ ~participToConference(b, c) => d \in {b, switchCall(b, None)}
    OBVIOUS
  <2>2. Leaves(d, b) /\ d.call[c].confId \notin d.confs
    <3> HIDE DEF d
    <3> QED
      BY <1>6, <2>1, EndBegins
  <2>3. Shrinks(b, b) /\ Shrinks(switchCall(b, None), b)
    <3>1. Shaped(b)
      BY <1>6, TypedShaped
    <3> QED
      BY <3>1 DEF Shaped, switchCall, Shrinks
  <2>4. Shrinks(leaveConference(b, c, n.current), b)
    BY <1>6, LeaveConferenceShrinks
  <2> HIDE DEF d
  <2> QED
    BY <2>1, <2>2, <2>3, <2>4
<1> HIDE DEF d
<1>8. /\ d.account = n.account /\ d.live = n.live /\ Shrinks(d, n) /\ Shaped(d)
      /\ d.call \in [Calls -> CallRecords] /\ Sound(d)
      /\ Inside(n, C) => Inside(d, C)
  <2>1. d.account = n.account /\ d.live = n.live
    BY <1>3, <1>5, <1>7 DEF Steady, Leaves
  <2>2. n.confs \subseteq Confs
    BY <1>1, TypedFields
  <2>3. Shrinks(d, n)
    BY <1>3, <1>5, <1>7, <2>2 DEF Steady, Shrinks
  <2>4. Inside(n, C) => Inside(d, C)
    BY <1>3, <1>5, <1>7, SteadyInside, LeavesInside
  <2>5. Sound(d) /\ Typed(d)
    BY <1>7 DEF Leaves, Sound
  <2> QED
    BY <2>1, <2>3, <2>4, <2>5, TypedFields, TypedShaped
<1>9. CASE c \notin n.account
  <2>1. Shrinks(a, n) /\ a.account = n.account \ {c} /\ n.live \ {c} \subseteq a.live
    <3>1. n.confs \subseteq Confs
      BY <1>1, TypedFields
    <3> QED
      BY <1>3, <1>9, <3>1 DEF Steady, Shrinks
  <2>2. Inside(n, C) => Inside(a, C)
    BY <1>3, SteadyInside
  <2> QED
    BY <1>2, <1>9, <2>1, <2>2
<1>10. CASE c \in n.account
  <2>1. /\ k.account = d.account \ {c} /\ k.confs = d.confs /\ k.conf = d.conf
        /\ d.live \ {c} \subseteq k.live
        /\ k.call \in {d.call, [d.call EXCEPT ![c] = NewCall]}
    BY <1>8 DEF Shaped, linkHangup, removeCall, abort, removeCallAccount
  <2> HIDE DEF k
  <2>2. Inside(n, C) => Inside(k, C)
    BY <1>8, <2>1 DEF Inside, NewCall
  <2>3. c \in n.live => Without(k, c)
    BY <1>7, <1>8, <2>1 DEF Sound, Grouped, Without
  <2>4. Shrinks(k, n)
    BY <1>8, <2>1 DEF Shrinks
  <2> QED
    BY <1>2, <1>8, <1>10, <2>1, <2>2, <2>3, <2>4 DEF k
<1> QED
  BY <1>9, <1>10

\* A conference is hung up: whoever is left hears the same.
LEMMA HangupConferenceAudio ==
    ASSUME NEW n, Settled(n), NEW f, NEW C, Inside(n, C)
    PROVE  Audio(hangupConference(n, f), n, C)
<1> DEFINE D == n.conf[f].parts
           M == {k \in ManagerStates : /\ Follows(k, n) /\ Audio(k, n, C)
                                       /\ Inside(k, C)}
           e == HangUpAll(n, D)
           a == IF f \notin n.confs THEN n ELSE e
<1>1. hangupConference(n, f) = switchCall(a, None)
  BY DEF hangupConference, HangUpAll
<1>2. n \in M
  <2>1. Typed(n)
    BY DEF Settled, Sound
  <2>2. Audio(n, n, C)
    BY DEF Audio
  <2> QED
    BY <2>1, <2>2, FollowsRefl DEF Typed
<1>3. a \in M
  <2>1. CASE f \notin n.confs
    BY <1>2, <2>1
  <2>2. CASE f \in n.confs
    <3>1. D \subseteq Calls /\ D \cap n.waiting = {}
      BY <2>2, ParticipantsDoNotWait
    <3> HIDE DEF D
    <3>2. ASSUME NEW l \in M, NEW c \in D PROVE hangupCall(l, c) \in M
      <4>1. /\ Follows(l, n) /\ Settled(l) /\ c \notin l.waiting /\ c \in Calls
            /\ Audio(l, n, C) /\ Inside(l, C)
        BY <3>1 DEF Follows
      <4>2. /\ Follows(hangupCall(l, c), l) /\ Audio(hangupCall(l, c), l, C)
            /\ Inside(hangupCall(l, c), C)
        BY <4>1, HangupCallFollows, HangupCallAudio, HangupCallParts
      <4>3. Follows(hangupCall(l, c), n) /\ Audio(hangupCall(l, c), n, C)
        BY <4>1, <4>2, FollowsTrans, AudioTrans
      <4> QED
        BY <4>2, <4>3 DEF Follows, Settled, Sound, Typed
    <3> HIDE DEF M
    <3>3. e \in M
      BY <1>2, <3>1, <3>2, HangUpLoop
    <3> QED
      BY <2>2, <3>3
  <2> QED
    BY <2>1, <2>2
<1> HIDE DEF a
<1>4. Audio(a, n, C) /\ Shaped(a)
  BY <1>3, TypedShaped DEF Follows, Settled, Sound
<1>5. Audio(switchCall(a, None), a, C)
  BY <1>4, QuietSteps, QuietAudio
<1> QED
  BY <1>1, <1>4, <1>5, AudioTrans

\* A step that changes a conference's own state only.
LEMMA ConferenceStateQuiet ==
    ASSUME NEW n, Shaped(n), NEW f, NEW s
    PROVE  Quiet([n EXCEPT !.conf[f].state = s], n)
  BY DEF Shaped, Quiet

\* A conference is put on hold.
LEMMA HoldConferenceAudio ==
    ASSUME NEW n, Settled(n), NEW f, NEW C
    PROVE  Audio(holdConference(n, f), n, C)
<1> DEFINE D == n.conf[f].parts
           M == {k \in Calm(n) : Audio(k, n, C)}
           e == HoldAll(n, D)
           k == [e EXCEPT !.conf[f].state = "HOLD"]
<1>1. holdConference(n, f) = IF f \notin n.confs THEN n ELSE k
  BY DEF holdConference, HoldAll, ForEach, MapThenFoldSet
<1>2. Typed(n)
  BY DEF Settled, Sound
<1>3. Audio(n, n, C)
  BY DEF Audio
<1>4. CASE f \in n.confs
  <2>1. D \subseteq Calls
    BY <1>4, ParticipantsDoNotWait
  <2> HIDE DEF D
  <2>2. ASSUME NEW l \in M, NEW c \in D
        PROVE  onHoldCall(switchCall(l, c), c) \in M
    <3> DEFINE x == switchCall(l, c)
               y == onHoldCall(x, c)
    <3>1. Typed(l) /\ c \in Calls /\ l \in Calm(n) /\ Audio(l, n, C) /\ Shaped(l)
      BY <1>2, <2>1, CalmSteps, TypedShaped
    <3>2. Steady(x, l) /\ Tells(x, l) /\ Audio(x, l, C)
      BY <3>1, SwitchCallSteady, QuietSteps, QuietAudio
    <3> HIDE DEF x
    <3>3. Typed(x) /\ x \in Calm(n)
      BY <1>2, <3>1, <3>2, CalmSteps DEF Steady
    <3>4. Steady(y, x) /\ Tells(y, x) /\ Audio(y, x, C)
      BY <3>1, <3>3, OnHoldCallSteady, OnHoldCallAudio
    <3> HIDE DEF y
    <3>5. y \in Calm(n) /\ Audio(y, n, C)
      <4>1. y \in Calm(n)
        BY <1>2, <3>3, <3>4, CalmSteps
      <4>2. Audio(y, n, C)
        BY <3>1, <3>2, <3>4, AudioTrans
      <4> QED
        BY <4>1, <4>2
    <3> QED
      BY <3>5 DEF x, y
  <2>3. n \in M
    BY <1>2, <1>3, SteadyRefl DEF Calm, Typed
  <2> HIDE DEF M
  <2>4. e \in M
    BY <2>1, <2>2, <2>3, HoldLoop
  <2> HIDE DEF e
  <2>5. Audio(e, n, C) /\ Shaped(e)
    BY <1>2, <2>4, CalmSteps, TypedShaped DEF M
  <2>6. Audio(k, e, C)
    BY <2>5, ConferenceStateQuiet, QuietAudio
  <2> QED
    BY <1>1, <1>4, <2>5, <2>6, AudioTrans
<1> QED
  BY <1>1, <1>3, <1>4

\* A conference is resumed: each of its calls, also one that is gone.
LEMMA UnHoldConferenceAudio ==
    ASSUME NEW n, Settled(n), NEW f, NEW C, Inside(n, C)
    PROVE  Audio(unHoldConference(n, f), n, C)
<1> DEFINE D == n.conf[f].parts
           M == {k \in Calm(n) : Audio(k, n, C)}
           e == OffHoldAll(n, D)
           k == [e EXCEPT !.conf[f].state = "ACTIVE_ATTACHED"]
<1>1. unHoldConference(n, f) = IF f \notin n.confs THEN n ELSE k
  BY DEF unHoldConference, OffHoldAll
<1>2. Typed(n) /\ Sound(n)
  BY DEF Settled, Sound
<1>3. Audio(n, n, C)
  BY DEF Audio
<1>4. CASE f \in n.confs
  <2>1. /\ D \subseteq Calls /\ D \cap n.waiting = {} /\ (~Lag => D \subseteq n.live)
        /\ D \cap n.live \subseteq C
    <3>1. /\ D \subseteq Calls /\ D \cap n.waiting = {} /\ (~Lag => D \subseteq n.live)
          /\ \A c \in D \cap n.live : n.call[c].confId = f
      BY <1>4, ParticipantsDoNotWait
    <3>2. f # None
      BY <1>2, <1>4, TypedFields, NamesAssumption
    <3> HIDE DEF D
    <3> QED
      BY <3>1, <3>2 DEF Inside
  <2> HIDE DEF D
  <2>2. ASSUME NEW l \in M, NEW c \in D
        PROVE  offHoldCall(l, c) \in M
    <3> DEFINE y == offHoldCall(l, c)
    <3>1. /\ Typed(l) /\ Steady(l, n) /\ c \in Calls /\ l \in Calm(n)
          /\ Audio(l, n, C)
      BY <1>2, <2>1, CalmSteps
    <3>2. Sound(l) /\ c \notin l.waiting /\ Inside(l, C) /\ (c \in l.live => c \in C)
      <4>1. Sound(l) /\ Inside(l, C)
        BY <1>2, <3>1, SteadySound, SteadyInside
      <4> QED
        BY <2>1, <3>1, <4>1 DEF Steady
    <3>3. Steady(y, l) /\ Tells(y, l)
      BY <2>1, <3>1, <3>2, ResumedSteady DEF Steady
    <3>4. Audio(y, l, C)
      BY <3>1, <3>2, ResumedAudio
    <3> HIDE DEF y
    <3>5. y \in Calm(n) /\ Audio(y, n, C)
      <4>1. y \in Calm(n)
        BY <1>2, <3>1, <3>3, CalmSteps
      <4>2. Audio(y, n, C)
        BY <3>1, <3>4, AudioTrans
      <4> QED
        BY <4>1, <4>2
    <3> QED
      BY <3>5 DEF y
  <2>3. n \in M
    BY <1>2, <1>3, SteadyRefl DEF Calm, Typed
  <2> HIDE DEF M
  <2>4. e \in M
    BY <2>1, <2>2, <2>3, OffHoldLoop
  <2> HIDE DEF e
  <2>5. Audio(e, n, C) /\ Shaped(e)
    BY <1>2, <2>4, CalmSteps, TypedShaped DEF M
  <2>6. Audio(k, e, C)
    BY <2>5, ConferenceStateQuiet, QuietAudio
  <2> QED
    BY <1>1, <1>4, <2>5, <2>6, AudioTrans
<1> QED
  BY <1>1, <1>3, <1>4

\* The calls of one conference are moved to another.
LEMMA JoinConferenceAudio ==
    ASSUME NEW n, Settled(n), NEW f, NEW g \in Confs, NEW C, Inside(n, C)
    PROVE  Audio(joinConference(n, f, g), n, C)
<1> DEFINE D == n.conf[f].parts
           Ready(k) == \A c \in D \cap k.live : k.call[c].confId \in {None} \cup k.confs
           M == {k \in ManagerStates : /\ Settled(k) /\ Ready(k) /\ k.live \subseteq n.live
                                       /\ Audio(k, n, C) /\ Inside(k, C)}
           e == MoveAll(n, D, g)
<1>1. joinConference(n, f, g) = IF {f, g} \subseteq n.confs THEN e ELSE n
  BY DEF joinConference, MoveAll, ForEach, MapThenFoldSet
<1>2. Audio(n, n, C) /\ Typed(n)
  BY DEF Audio, Settled, Sound
<1>3. CASE {f, g} \subseteq n.confs
  <2>1. /\ D \subseteq Calls /\ \A c \in D \cap n.live : n.call[c].confId = f
        /\ D \cap n.live \subseteq C
    <3>1. D \subseteq Calls /\ \A c \in D \cap n.live : n.call[c].confId = f
      BY <1>3, ParticipantsDoNotWait
    <3>2. f # None
      BY <1>2, <1>3, TypedFields, NamesAssumption
    <3> HIDE DEF D
    <3> QED
      BY <3>1, <3>2 DEF Inside
  <2>2. n \in M
    <3>1. Ready(n)
      BY <1>3, <2>1
    <3> HIDE DEF Ready
    <3> QED
      BY <1>2, <3>1 DEF Typed
  <2> HIDE DEF D
  <2>3. ASSUME NEW l \in M, NEW c \in D
        PROVE  addParticipant(detachParticipant(l, c), c, g) \in M
    <3> DEFINE a == detachParticipant(l, c)
               k == addParticipant(a, c, g)
    <3>1. /\ Settled(l) /\ Sound(l) /\ Ready(l) /\ c \in Calls /\ l.live \subseteq n.live
          /\ Audio(l, n, C) /\ Inside(l, C)
      BY <2>1 DEF Settled
    <3>2. CASE c \notin l.live
      <4>1. a = l
        BY <3>2 DEF detachParticipant
      <4>2. addParticipant(l, c, g) = l
        BY <3>2 DEF addParticipant
      <4> QED
        BY <4>1, <4>2
    <3>3. CASE c \in l.live
      <4>0. c \in C
        BY <2>1, <3>1, <3>3
      <4>1. /\ Leaves(a, l) /\ Audio(a, l, C)
            /\ l.call[c].confId \in l.confs => a.call[c].confId = None
        BY <3>1, <3>3, DetachParticipantLeaves, DetachParticipantAudio
      <4> HIDE DEF a
      <4>2. a.call[c].confId = None
        BY <2>3, <3>1, <3>3, <4>1 DEF Leaves
      <4>3. Settled(a) /\ Sound(a) /\ Inside(a, C)
        BY <3>1, <4>1, LeavesFollows, LeavesInside DEF Follows, Settled
      <4>4. /\ Settled(k)
            /\ k.confs = a.confs /\ k.live = a.live
            /\ \A d \in Calls : \/ k.call[d].confId = a.call[d].confId
                                \/ k.call[d].confId \in k.confs
        BY <3>1, <4>2, <4>3, AddParticipantFollows DEF Follows
      <4>5. Audio(k, a, C) /\ Inside(k, C)
        <5>1. Audio(k, a, C \cup {c}) /\ Inside(k, C \cup {c})
          BY <3>1, <4>2, <4>3, AddParticipantAudio
        <5>2. C \cup {c} = C
          BY <4>0
        <5> HIDE DEF k
        <5> QED
          BY <5>1, <5>2
      <4>6. k.live \subseteq l.live
        BY <4>1, <4>4 DEF Leaves
      <4> HIDE DEF k
      <4>7. Audio(k, n, C)
        <5>1. Audio(a, n, C)
          BY <3>1, <4>1, AudioTrans
        <5> QED
          BY <4>5, <5>1, AudioTrans
      <4>8. Ready(k)
        <5>1. ASSUME NEW d \in D \cap k.live
              PROVE  k.call[d].confId \in {None} \cup k.confs
          <6>1. d \in Calls /\ l.call[d].confId \in {None} \cup l.confs
            BY <2>1, <3>1, <4>6
          <6>2. a.call[d].confId \in {None} \cup a.confs
            BY <4>1, <6>1 DEF Leaves
          <6> QED
            BY <4>4, <6>1, <6>2
        <5> QED
          BY <5>1
      <4> HIDE DEF Ready
      <4> QED
        BY <3>1, <4>4, <4>5, <4>6, <4>7, <4>8 DEF Settled, Sound, Typed, k, a
    <3> QED
      BY <3>2, <3>3
  <2>4. e \in M
    <3> HIDE DEF M
    <3> QED
      BY <2>1, <2>2, <2>3, MoveLoop
  <2>5. Audio(e, n, C)
    BY <2>4
  <2> QED
    BY <1>1, <1>3, <2>5
<1> QED
  BY <1>1, <1>2, <1>3

\* While nothing is current, placing a call changes no other, and the one placed is
\* not answered.
LEMMA OutgoingCallCalls ==
    ASSUME NEW n, Shaped(n), NEW c, NEW confId, NEW sent, c \notin n.live
    PROVE  LET k == outgoingCall(switchCall(n, None), c, confId, sent)
               r == [state |-> "Active", conn |-> "Progressing",
                     type |-> "Outgoing", confId |-> confId, invite |-> "other"]
           IN  k.call \in {n.call, [n.call EXCEPT ![c] = r]}
<1> DEFINE b == switchCall(n, None)
           a == [b EXCEPT !.account = @ \cup {c}, !.shown[c] = "DIALING"]
           r == [state |-> "Active", conn |-> "Progressing",
                 type |-> "Outgoing", confId |-> confId, invite |-> "other"]
           k == outgoingCall(b, c, confId, sent)
<1>1. Shaped(b) /\ b.current = None /\ b.call = n.call /\ b.live = n.live
  BY DEF Shaped, switchCall
<1> HIDE DEF b
<1>2. leaveCurrent(b, c) = b
  BY <1>1 DEF leaveCurrent, hasCurrentCall
<1>3. Shaped(a) /\ a.call = n.call /\ a.live = n.live
  BY <1>1 DEF Shaped
<1>4. k \in {b, switchCall(addCall(a, c, r), c), callFailure(a, c)}
  BY <1>2 DEF outgoingCall
<1> HIDE DEF a, r
<1>5. switchCall(addCall(a, c, r), c).call = [n.call EXCEPT ![c] = r]
  BY <1>3 DEF Shaped, switchCall, addCall
<1>6. callFailure(a, c).call = n.call
  <2> DEFINE p == IF a.current = c THEN switchCall(a, None) ELSE a
             q == callStateChanged(p, c, "FAILURE")
  <2>1. Shaped(p) /\ p.call = n.call /\ p.live = n.live
    BY <1>3 DEF Shaped, switchCall
  <2> HIDE DEF p
  <2>2. Shaped(q) /\ q.call = n.call /\ q.live = n.live
    BY <2>1 DEF Shaped, callStateChanged
  <2>3. callFailure(a, c) = removeWaitingCall(removeCallAccount(q, c), c)
    <3>1. ~participToConference(q, c)
      BY <2>2 DEF participToConference
    <3> HIDE DEF q
    <3> QED
      BY <3>1 DEF callFailure, p, q
  <2> HIDE DEF q
  <2> QED
    BY <2>2, <2>3 DEF Shaped, removeWaitingCall, removeCallAccount
<1> HIDE DEF k
<1> QED
  BY <1>1, <1>4, <1>5, <1>6 DEF k, b, r

\* The calls of a list are placed and make a conference: nobody of it talks yet.
LEMMA CreateConfAudio ==
    ASSUME NEW n, Settled(n), NEW D \in SUBSET Calls, NEW f \in Confs,
           \A c \in D : Free(n, c),
           f \notin n.confs, \A c \in Calls : n.call[c].confId # f,
           NEW sent \in SUBSET D, NEW C
    PROVE  Audio(createConfFromParticipantList(n, f, D, sent), n, C)
<1> DEFINE Dials(k) == \A d \in Calls : k.call[d].confId = f => k.call[d].conn # "Connected"
           Q(s) == {k \in Placing(n, D, f, sent, s) : Audio(k, n, C) /\ Dials(k)}
           P == [s \in SUBSET D |-> Q(s)]
           e == PlaceAll(n, D, f, sent)
           q == [parts |-> sent, nb |-> Cardinality(sent), state |-> "ACTIVE_ATTACHED"]
           l == [e EXCEPT !.confs = @ \cup {f}, !.conf[f] = q]
           k == createConfFromParticipantList(n, f, D, sent)
<1>1. k \in {e, l}
  <2>1. k = IF Cardinality(D \cap sent) < 2 THEN e
            ELSE [e EXCEPT !.confs = @ \cup {f},
                           !.conf[f] = [parts |-> D \cap sent,
                                        nb |-> Cardinality(D \cap sent),
                                        state |-> "ACTIVE_ATTACHED"]]
    BY DEF createConfFromParticipantList, PlaceAll
  <2>2. D \cap sent = sent
    OBVIOUS
  <2> HIDE DEF e, k
  <2> QED
    BY <2>1, <2>2
<1> HIDE DEF k
<1>2. Typed(n) /\ Audio(n, n, C)
  BY DEF Settled, Sound, Audio
<1>3. n \in P[{}]
  <2>1. n \in Placing(n, D, f, sent, {})
    BY <1>2 DEF Placing, Typed
  <2>2. Dials(n)
    OBVIOUS
  <2> HIDE DEF Dials
  <2> QED
    BY <1>2, <2>1, <2>2
<1>4. \A s \in SUBSET D : \A c \in D \ s, x \in P[s] :
          outgoingCall(switchCall(x, None), c, f, c \in sent) \in P[s \cup {c}]
  <2>1. ASSUME NEW s \in SUBSET D, NEW c \in D \ s, NEW x \in Q(s)
        PROVE  outgoingCall(switchCall(x, None), c, f, c \in sent) \in Q(s \cup {c})
    <3> DEFINE y == outgoingCall(switchCall(x, None), c, f, c \in sent)
               b == c \in sent
               r == [state |-> "Active", conn |-> "Progressing",
                     type |-> "Outgoing", confId |-> f, invite |-> "other"]
    <3>1. x \in Placing(n, D, f, sent, s) /\ Audio(x, n, C) /\ Dials(x)
      OBVIOUS
    <3>2. y \in Placing(n, D, f, sent, s \cup {c})
      BY <3>1, OneMorePlaced
    <3>3. Settled(x) /\ Free(x, c) /\ c \in Calls
      BY <3>1 DEF Placing
    <3>4. Typed(x) /\ Shaped(x) /\ c \notin x.live /\ x.call \in [Calls -> CallRecords]
      BY <3>3, TypedShaped, TypedFields DEF Settled, Sound, Free
    <3>5. Settled(switchCall(x, None)) /\ switchCall(x, None).live = x.live
      <4>1. Steady(switchCall(x, None), x) /\ Tells(switchCall(x, None), x)
        BY <3>4, SwitchCallSteady
      <4> QED
        BY <3>3, <4>1, SteadyFollows DEF Follows, Steady
    <3>6. Audio(switchCall(x, None), x, C)
      BY <3>4, QuietSteps, QuietAudio
    <3>7. Audio(y, switchCall(x, None), C)
      <4> HIDE DEF b
      <4>1. Audio(outgoingCall(switchCall(x, None), c, f, b), switchCall(x, None), C)
        BY <3>3, <3>4, <3>5, OutgoingCallAudio
      <4> QED
        BY <4>1 DEF b
    <3>8. Audio(y, n, C)
      BY <3>1, <3>6, <3>7, AudioTrans
    <3>9. y.call \in {x.call, [x.call EXCEPT ![c] = r]}
      <4> HIDE DEF b
      <4>1. outgoingCall(switchCall(x, None), c, f, b).call
               \in {x.call, [x.call EXCEPT ![c] = r]}
        BY <3>4, OutgoingCallCalls
      <4> QED
        BY <4>1 DEF b
    <3> HIDE DEF y
    <3>10. Dials(y)
      BY <3>1, <3>3, <3>4, <3>9
    <3> QED
      BY <3>2, <3>8, <3>10 DEF y
  <2> HIDE DEF Q
  <2> QED
    BY <2>1
<1>5. e \in P[D]
  <2> HIDE DEF P
  <2> QED
    BY <1>3, <1>4, PlaceLoop
<1> HIDE DEF e
<1>6. e \in Placing(n, D, f, sent, D) /\ Audio(e, n, C) /\ Dials(e)
  BY <1>5
<1>7. Shaped(e)
  BY <1>6, TypedShaped DEF Placing, Settled, Sound
<1> HIDE DEF q
<1>8. /\ l.call = e.call /\ l.live = e.live /\ l.bound = e.bound
      /\ l.cutOff = e.cutOff /\ l.confs = e.confs \cup {f}
  BY <1>7 DEF Shaped
<1> HIDE DEF l
<1>9. Audio(l, e, C)
  <2>1. \A c, d \in Calls : Deaf(l, c, d) => Deaf(e, c, d)
    BY <1>6, <1>8 DEF Deaf, Talks
  <2>2. \A c \in Calls : Orphan(l, c) => Orphan(e, c)
    BY <1>8 DEF Orphan
  <2>3. \A c \in Calls : HeldHeard(l, c) => HeldHeard(e, c)
    BY <1>8 DEF HeldHeard
  <2> QED
    BY <1>8, <2>1, <2>2, <2>3 DEF Audio
<1>10. Audio(l, n, C)
  BY <1>6, <1>9, AudioTrans
<1> QED
  BY <1>1, <1>6, <1>10 DEF k

\* What hanging up each call keeps, P of the calls hung up, is true after all rounds.
LEMMA HangUpRounds ==
    ASSUME NEW C \in SUBSET Calls, NEW P, NEW n \in P[{}],
           \A s \in SUBSET C : \A c \in C \ s, k \in P[s] :
               hangupCall(k, c) \in P[s \cup {c}]
    PROVE  HangUpAll(n, C) \in P[C]
<1> DEFINE M == UNION {P[s] : s \in SUBSET C}
           op(k, c) == hangupCall(k, c)
           G == [p \in C \X M |-> IF op(p[2], p[1]) \in M THEN op(p[2], p[1]) ELSE n]
           Eq(F) == F = [s \in SUBSET C |-> IF s = {} THEN n
                                             ELSE op(F[s \ {Max(s)}], Max(s))]
           it == CHOOSE F : Eq(F)
<1>1. C \in SUBSET Nat /\ IsFiniteSet(C)
  BY CallsAssumption, FS_Subset
<1>2. ASSUME NEW s \in SUBSET C, s # {}
      PROVE  /\ Max(s) \in s /\ Max(s) \in C /\ s \ {Max(s)} \in SUBSET C
             /\ Max(s) \in C \ (s \ {Max(s)}) /\ (s \ {Max(s)}) \cup {Max(s)} = s
  <2>1. Max(s) \in s
    BY <1>1, <1>2, FS_Subset, MaxIsMember
  <2> HIDE DEF M
  <2> QED
    BY <2>1
<1>3. \A s \in SUBSET C : P[s] \subseteq M
  OBVIOUS
<1>4. n \in M
  BY <1>3
<1>5. ASSUME NEW s \in SUBSET C, s # {}, NEW k \in P[s \ {Max(s)}]
      PROVE  op(k, Max(s)) \in P[s]
  <2>1. /\ Max(s) \in C \ (s \ {Max(s)}) /\ (s \ {Max(s)}) \cup {Max(s)} = s
        /\ s \ {Max(s)} \in SUBSET C
    BY <1>2, <1>5
  <2> HIDE DEF M
  <2> DEFINE x == Max(s)
             t == s \ {x}
  <2>2. x \in C \ t /\ t \in SUBSET C /\ t \cup {x} = s /\ k \in P[t]
    BY <2>1
  <2> HIDE DEF x, t
  <2>3. op(k, x) \in P[t \cup {x}]
    BY <2>2
  <2> QED
    BY <2>2, <2>3 DEF x
<1> HIDE DEF M, op
<1>6. PICK F : LoopOf(F, G, C, M, n)
  <2>1. RoundsOf(G, C, M)
    BY <1>4 DEF RoundsOf
  <2> HIDE DEF G
  <2> QED
    BY <1>1, <1>4, <2>1, LoopExists
<1>7. \A s \in SUBSET C : F[s] \in P[s]
  <2>1. F[{}] \in P[{}]
    BY <1>6 DEF LoopOf
  <2>2. ASSUME NEW s \in SUBSET C, s # {}, F[s \ {Max(s)}] \in P[s \ {Max(s)}]
        PROVE  F[s] \in P[s]
    <3> DEFINE k == F[s \ {Max(s)}]
    <3>1. k \in M /\ Max(s) \in C
      BY <1>2, <1>3, <2>2
    <3>2. F[s] = G[<<Max(s), k>>]
      BY <1>6, <2>2 DEF LoopOf
    <3>3. op(k, Max(s)) \in P[s]
      BY <1>5, <2>2
    <3>4. op(k, Max(s)) \in M
      BY <1>3, <3>3
    <3> HIDE DEF k
    <3>5. G[<<Max(s), k>>] = op(k, Max(s))
      BY <3>1, <3>4
    <3> QED
      BY <3>2, <3>3, <3>5
  <2> QED
    BY <1>1, <2>1, <2>2, LoopKeeps
<1>8. Eq(F)
  <2>1. ASSUME NEW s \in SUBSET C, s # {}
        PROVE  F[s] = op(F[s \ {Max(s)}], Max(s))
    <3> DEFINE k == F[s \ {Max(s)}]
    <3>1. k \in P[s \ {Max(s)}] /\ k \in M /\ Max(s) \in C
      BY <1>2, <1>3, <1>7, <2>1
    <3>2. F[s] = G[<<Max(s), k>>]
      BY <1>6, <2>1 DEF LoopOf
    <3>3. op(k, Max(s)) \in M
      <4>1. op(k, Max(s)) \in P[s]
        BY <1>5, <2>1, <3>1
      <4> QED
        BY <1>3, <4>1
    <3> HIDE DEF k
    <3>4. G[<<Max(s), k>>] = op(k, Max(s))
      BY <3>1, <3>3
    <3> QED
      BY <3>2, <3>4 DEF k
  <2> QED
    BY <1>6, <2>1 DEF LoopOf
<1>9. Eq(it)
  BY <1>8
<1>10. HangUpAll(n, C) = it[C]
  BY DEF HangUpAll, ForEach, MapThenFoldSet, op
<1> HIDE DEF it
<1>11. \A s \in SUBSET C : it[s] \in P[s]
  <2>1. it[{}] \in P[{}]
    BY <1>9
  <2>2. ASSUME NEW s \in SUBSET C, s # {}, it[s \ {Max(s)}] \in P[s \ {Max(s)}]
        PROVE  it[s] \in P[s]
    <3>1. it[s] = op(it[s \ {Max(s)}], Max(s))
      BY <1>9, <2>2
    <3> QED
      BY <1>5, <2>2, <3>1
  <2> QED
    BY <1>1, <2>1, <2>2, LoopKeeps
<1> QED
  BY <1>10, <1>11

\* A conference whose calls exist and have accounts is gone when it has been hung
\* up, and so are their account entries.
LEMMA HangupConferenceEnds ==
    ASSUME NEW n, Settled(n), NEW f \in n.confs,
           n.conf[f].parts \subseteq n.account, n.conf[f].parts \subseteq n.live
    PROVE  LET k == hangupConference(n, f) IN
           /\ f \notin k.confs
           /\ k.account \cap n.conf[f].parts = {}
<1> DEFINE D == n.conf[f].parts
           Q(s) == {k \in ManagerStates :
                       /\ Settled(k) /\ k.waiting \cap D = {}
                       /\ D \ s \subseteq k.live /\ k.account \cap D = D \ s
                       /\ f \in k.confs => k.conf[f].parts \subseteq D \ s}
           P == [s \in SUBSET D |-> Q(s)]
           e == HangUpAll(n, D)
<1>1. hangupConference(n, f) = switchCall(e, None)
  BY DEF hangupConference, HangUpAll
<1>2. /\ D \subseteq Calls /\ D \cap n.waiting = {}
      /\ D \subseteq n.account /\ D \subseteq n.live
  BY ParticipantsDoNotWait
<1>3. n \in P[{}]
  <2>1. n \in ManagerStates
    BY DEF Settled, Sound, Typed
  <2> QED
    BY <1>2, <2>1
<1> HIDE DEF D
<1>4. \A s \in SUBSET D : \A c \in D \ s, x \in P[s] : hangupCall(x, c) \in P[s \cup {c}]
  <2>1. ASSUME NEW s \in SUBSET D, NEW c \in D \ s, NEW x \in Q(s)
        PROVE  hangupCall(x, c) \in Q(s \cup {c})
    <3> DEFINE y == hangupCall(x, c)
    <3>1. /\ Settled(x) /\ x.waiting \cap D = {} /\ c \in Calls /\ c \notin x.waiting
          /\ D \ s \subseteq x.live /\ x.account \cap D = D \ s
          /\ f \in x.confs => x.conf[f].parts \subseteq D \ s
      BY <1>2
    <3>2. Settled(y) /\ y.waiting \subseteq x.waiting
      BY <3>1, HangupCallFollows DEF Follows
    <3>3. c \in x.live \cap x.account
      BY <3>1
    <3>4. /\ Shrinks(y, x) /\ y.account = x.account \ {c}
          /\ x.live \ {c} \subseteq y.live /\ Without(y, c)
      BY <3>1, <3>3, HangupCallParts
    <3> HIDE DEF y
    <3>5. y \in ManagerStates
      BY <3>2 DEF Settled, Sound, Typed
    <3>6. /\ y.waiting \cap D = {} /\ D \ (s \cup {c}) \subseteq y.live
          /\ y.account \cap D = D \ (s \cup {c})
      BY <3>1, <3>2, <3>4
    <3>7. f \in y.confs => y.conf[f].parts \subseteq D \ (s \cup {c})
      BY <3>1, <3>4 DEF Shrinks, Without
    <3> QED
      BY <3>2, <3>5, <3>6, <3>7 DEF y
  <2> HIDE DEF Q
  <2> QED
    BY <2>1
<1>5. e \in P[D]
  <2> HIDE DEF P
  <2> QED
    BY <1>2, <1>3, <1>4, HangUpRounds
<1> HIDE DEF e
<1>6. /\ Settled(e) /\ e.account \cap D = {}
      /\ f \in e.confs => e.conf[f].parts = {}
  BY <1>5
<1>7. f \notin e.confs
  <2>1. f \in e.confs => Cardinality(e.conf[f].parts) = 0
    BY <1>6, FS_EmptySet
  <2> QED
    BY <1>6, <2>1 DEF Settled, Sound, Grouped
<1>8. Shaped(e)
  BY <1>6, TypedShaped DEF Settled, Sound
<1>9. switchCall(e, None).confs = e.confs /\ switchCall(e, None).account = e.account
  BY <1>8 DEF switchCall, Shaped
<1> QED
  BY <1>1, <1>6, <1>7, <1>9 DEF D

--------------------------------------------------------------------------------
(***************************************************************************)
(* The state machine: every action, and the theorems.                      *)
(***************************************************************************)

\* The calls that carry the id of a conference.
Members == {c \in Calls : m.call[c].confId # None}

\* How a call on hold gets the user's audio: with a conference, or by a command
\* about the very call that the link refuses.
Regained(c) ==
    \/ m.call[c].confId # None \/ (m').call[c].confId # None
    \/ Unhold(c) /\ (m.current = c \/ ~Reinvited(m, c))
    \/ Accept(c) /\ m.call[c].conn = "Connected"

\* What a step keeps of who hears whom.
Sounds ==
    /\ ~Lag => \A c, d \in Calls : Deaf(m', c, d) => Deaf(m, c, d)
    /\ ~Lag => \A c \in Calls : Orphan(m', c) => Orphan(m, c)
    /\ \A c \in Calls : HeldHeard(m', c) => HeldHeard(m, c) \/ Regained(c)

\* A handler that keeps what is heard, up to the calls in conferences and those of
\* D, keeps it in the state machine if those of D are not on hold and heard.
LEMMA EnterSounds ==
    ASSUME IInv, NEW k, Do(k), NEW D, Audio(k, m, Members \cup D),
           \A c \in D : HeldHeard(k, c) => HeldHeard(m, c) \/ Regained(c)
    PROVE  Sounds
<1>1. m' = k
  BY DEF Do
<1>2. \A c \in Calls : HeldHeard(k, c) => HeldHeard(m, c) \/ Regained(c)
  BY DEF Audio, Members, Regained
<1>3. /\ ~Lag => \A c, d \in Calls : Deaf(k, c, d) => Deaf(m, c, d)
      /\ ~Lag => \A c \in Calls : Orphan(k, c) => Orphan(m, c)
  BY DEF Audio
<1> QED
  BY <1>1, <1>2, <1>3 DEF Sounds

\* In most steps there are no others.
LEMMA DoSounds ==
    ASSUME IInv, NEW k, Do(k), Audio(k, m, Members)
    PROVE  Sounds
<1> DEFINE D == {}
<1>1. Members \cup D = Members
  OBVIOUS
<1>2. \A c \in D : HeldHeard(k, c) => HeldHeard(m, c) \/ Regained(c)
  OBVIOUS
<1> HIDE DEF D
<1>3. Audio(k, m, Members \cup D)
  BY <1>1
<1> QED
  BY <1>2, <1>3, EnterSounds

\* The calls of conferences are members, and what the invariant says besides.
LEMMA MembersInside ==
    ASSUME IInv
    PROVE  /\ Inside(m, Members) /\ Settled(m) /\ Sound(m) /\ Typed(m) /\ Shaped(m)
           /\ \A c \in Calls : seen[c] \notin {"NONE", "INCOMING"} => c \notin m.waiting
<1>1. Inside(m, Members)
  BY DEF Inside, Members
<1> QED
  BY <1>1, CallsOffered, TypedShaped

\* The beginnings of calls.
LEMMA CallsBeginSound ==
    ASSUME IInv, NEW c \in Calls, PlaceCall(c) \/ Incoming(c)
    PROVE  Sounds
<1>1. Settled(m) /\ Typed(m)
  BY MembersInside
<1>2. CASE PlaceCall(c)
  <2>1. PICK sent \in Sent({c}) : Do(outgoingCall(m, c, None, c \in sent))
    BY <1>2 DEF PlaceCall
  <2>2. c \notin m.live
    BY <1>2 DEF PlaceCall, Unused
  <2> DEFINE b == c \in sent
             k == outgoingCall(m, c, None, b)
  <2>3. Do(k)
    BY <2>1
  <2> HIDE DEF b
  <2>4. Audio(k, m, Members)
    BY <1>1, <2>2, OutgoingCallAudio
  <2> QED
    BY <2>3, <2>4, DoSounds
<1>3. CASE Incoming(c)
  <2>1. Audio(incomingCall(m, c), m, Members)
    BY <1>1, IncomingCallAudio
  <2> QED
    BY <1>3, <2>1, DoSounds DEF Incoming
<1> QED
  BY <1>2, <1>3

\* What the client does to one call.
LEMMA CommandsSound ==
    ASSUME IInv, NEW c \in Calls,
           \/ Accept(c) \/ Refuse(c) \/ HangUp(c) \/ Hold(c) \/ Unhold(c)
           \/ Transfer(c) \/ DetachParticipant(c)
    PROVE  Sounds
<1>1. /\ Inside(m, Members) /\ Settled(m) /\ Sound(m) /\ Typed(m)
      /\ seen[c] \notin {"NONE", "INCOMING"} => c \notin m.waiting
  BY MembersInside
<1>2. CASE Accept(c)
  <2> DEFINE D == {c}
             k == answerCall(m, c)
  <2>1. ~Lag => c \in m.live
    BY <1>1, <1>2, CallsOffered DEF Accept, Sound, Fresh
  <2>2. Inside(m, Members \cup D) /\ c \in Members \cup D
    BY <1>1 DEF Inside
  <2>3. \A x \in D : HeldHeard(k, x) => Regained(x)
    BY <1>1, <1>2, AnsweredOnHold DEF Regained
  <2>4. Do(k)
    BY <1>2 DEF Accept
  <2> HIDE DEF D
  <2>5. Audio(k, m, Members \cup D)
    BY <1>1, <2>1, <2>2, AnswerCallAudio
  <2> HIDE DEF k
  <2> QED
    BY <2>3, <2>4, <2>5, EnterSounds
<1>3. CASE Refuse(c)
  <2>1. ~Lag => m.call[c].confId \notin m.confs
    <3>1. ~Lag => m.call[c].confId = None
      BY <1>1, <1>3, CallsOffered DEF Refuse, Settled, Alone
    <3>2. None \notin m.confs
      BY <1>1, TypedFields, NamesAssumption
    <3> QED
      BY <3>1, <3>2
  <2>2. Audio(refuseCall(m, c), m, Members)
    BY <1>1, <2>1, RefuseCallAudio
  <2> QED
    BY <1>3, <2>2, DoSounds DEF Refuse
<1>4. CASE HangUp(c)
  <2>1. c \notin m.waiting
    BY <1>1, <1>4 DEF HangUp
  <2>2. Audio(hangupCall(m, c), m, Members)
    BY <1>1, <2>1, HangupCallAudio
  <2> QED
    BY <1>4, <2>2, DoSounds DEF HangUp
<1>5. CASE Hold(c)
  <2>1. Audio(onHoldCall(m, c), m, Members)
    BY <1>1, OnHoldCallAudio
  <2> QED
    BY <1>5, <2>1, DoSounds DEF Hold
<1>6. CASE Unhold(c)
  <2> DEFINE D == {c}
             k == offHoldCall(m, c)
  <2>1. c \notin m.waiting
    BY <1>1, <1>6 DEF Unhold
  <2>2. Inside(m, Members \cup D) /\ c \in Members \cup D
    BY <1>1 DEF Inside
  <2>3. ASSUME HeldHeard(k, c) PROVE Regained(c)
    <3>1. CASE c \in m.live /\ m.current # c /\ Reinvited(m, c)
      BY <1>1, <2>3, <3>1, OffHoldResumes DEF HeldHeard
    <3>2. CASE c \notin m.live
      <4>1. c \notin leaveCurrent(m, c).live
        BY <1>1, <3>2, LeaveCurrentSteady DEF Steady
      <4>2. k = abort(leaveCurrent(m, c))
        BY <4>1 DEF offHoldCall
      <4>3. Shaped(leaveCurrent(m, c))
        BY <1>1, LeaveCurrentSteady, TypedShaped DEF Steady
      <4>4. c \notin k.live
        BY <4>1, <4>2, <4>3 DEF abort, Shaped
      <4> QED
        BY <2>3, <4>4 DEF HeldHeard
    <3> QED
      BY <1>6, <3>1, <3>2 DEF Regained
  <2>4. Do(k) /\ \A x \in D : HeldHeard(k, x) => Regained(x)
    BY <1>6, <2>3 DEF Unhold
  <2> HIDE DEF D
  <2>5. Audio(k, m, Members \cup D)
    BY <1>1, <2>1, <2>2, ResumedAudio
  <2> HIDE DEF k
  <2> QED
    BY <2>4, <2>5, EnterSounds
<1>7. CASE Transfer(c)
  <2>1. Audio(transferCall(m, c), m, Members)
    BY <1>1, TransferCallAudio
  <2> QED
    BY <1>7, <2>1, DoSounds DEF Transfer
<1>8. CASE DetachParticipant(c)
  <2>1. Audio(detachParticipant(m, c), m, Members)
    BY <1>1, DetachParticipantAudio
  <2> QED
    BY <1>8, <2>1, DoSounds DEF DetachParticipant
<1> QED
  BY <1>2, <1>3, <1>4, <1>5, <1>6, <1>7, <1>8

\* Calls enter conferences.
LEMMA MovesSound ==
    ASSUME IInv, NEW f \in Confs,
           \/ \E c \in Calls : AddParticipant(c, f)
           \/ \E c, d \in Calls : c # d /\ JoinParticipant(c, d, f)
           \/ \E list \in SUBSET Placed :
                 Cardinality(list) > 1 /\ PlaceConference(list, f)
    PROVE  Sounds
<1>1. Inside(m, Members) /\ Settled(m) /\ Sound(m)
  BY MembersInside
<1>2. ASSUME NEW c \in Calls, AddParticipant(c, f)
      PROVE  Sounds
  <2> DEFINE k == addParticipant(m, c, f)
             D == {c}
  <2>1. Do(k) /\ m.call[c].confId = None /\ m' = k
    BY <1>2 DEF AddParticipant, Single, Do
  <2>2. Audio(k, m, Members \cup D) /\ (k = m \/ k.call[c].confId # None)
    BY <1>1, <2>1, AddParticipantAudio
  <2> HIDE DEF k
  <2>3. \A x \in D : HeldHeard(k, x) => HeldHeard(m, x) \/ Regained(x)
    BY <2>1, <2>2 DEF Regained
  <2> HIDE DEF D
  <2> QED
    BY <2>1, <2>2, <2>3, EnterSounds
<1>3. ASSUME NEW c \in Calls, NEW d \in Calls, c # d, JoinParticipant(c, d, f)
      PROVE  Sounds
  <2> DEFINE k == joinParticipant(m, f, c, d)
             D == {c, d}
  <2>1. /\ Do(k) /\ m' = k
        /\ m.call[c].confId = None /\ m.call[d].confId = None
        /\ f \notin m.confs /\ \A x \in Calls : m.call[x].confId # f
    BY <1>3 DEF JoinParticipant, Single, UnusedConf, Do
  <2>2. /\ Audio(k, m, Members \cup D)
        /\ Quiet(k, m) \/ (k.call[c].confId # None /\ k.call[d].confId # None)
    BY <1>1, <1>3, <2>1, JoinParticipantAudio
  <2> HIDE DEF k
  <2>3. \A x \in D : HeldHeard(k, x) => HeldHeard(m, x) \/ Regained(x)
    BY <2>1, <2>2 DEF Regained, Quiet, HeldHeard
  <2> HIDE DEF D
  <2> QED
    BY <2>1, <2>2, <2>3, EnterSounds
<1>4. ASSUME NEW list \in SUBSET Placed, PlaceConference(list, f)
      PROVE  Sounds
  <2>1. /\ \A c \in list : Unused(c)
        /\ f \notin m.confs /\ \A c \in Calls : m.call[c].confId # f
    BY <1>4 DEF PlaceConference, UnusedConf
  <2>2. list \in SUBSET Calls /\ \A c \in list : Free(m, c)
    BY <2>1, CallsOffered, OriginAssumption
  <2>3. PICK sent \in Sent(list) : Do(createConfFromParticipantList(m, f, list, sent))
    BY <1>4 DEF PlaceConference
  <2>4. sent \in SUBSET list
    BY DEF Sent
  <2>5. Audio(createConfFromParticipantList(m, f, list, sent), m, Members)
    BY <1>1, <2>1, <2>2, <2>4, CreateConfAudio
  <2> QED
    BY <2>3, <2>5, DoSounds
<1> QED
  BY <1>2, <1>3, <1>4

\* What the client does to a whole conference.
LEMMA ConferencesSound ==
    ASSUME IInv, NEW f \in Confs,
           \/ AddMainParticipant(f) \/ HoldConference(f) \/ UnholdConference(f)
           \/ HangUpConference(f) \/ \E g \in Confs : f # g /\ JoinConference(f, g)
    PROVE  Sounds
<1>1. Inside(m, Members) /\ Settled(m) /\ Sound(m)
  BY MembersInside
<1>2. /\ Audio(addMainParticipant(m, f), m, Members)
      /\ Audio(holdConference(m, f), m, Members)
  BY <1>1, AddMainParticipantAudio, HoldConferenceAudio
<1>3. /\ Audio(unHoldConference(m, f), m, Members)
      /\ Audio(hangupConference(m, f), m, Members)
  BY <1>1, UnHoldConferenceAudio, HangupConferenceAudio
<1>4. \A g \in Confs : Audio(joinConference(m, f, g), m, Members)
  BY <1>1, JoinConferenceAudio
<1> QED
  BY <1>2, <1>3, <1>4, DoSounds
     DEF AddMainParticipant, HoldConference, UnholdConference, HangUpConference,
         JoinConference

\* What the peers do, but for a failure.
LEMMA PeersSound ==
    ASSUME IInv, NEW c \in Calls,
           \/ PeerRings(c) \/ PeerAnswers(c) \/ PeerReinvites(c) \/ InviteEnds(c)
           \/ PeerCloses(c) \/ CutOff(c) \/ Reach(c)
    PROVE  Sounds
<1>1. Inside(m, Members) /\ Settled(m) /\ Sound(m) /\ Typed(m) /\ Shaped(m)
  BY MembersInside
<1>2. CASE PeerRings(c)
  <2>1. Audio(peerRingingCall(m, c), m, Members)
    BY <1>1, <1>2, PeerRingingCallAudio DEF PeerRings
  <2> QED
    BY <1>2, <2>1, DoSounds DEF PeerRings
<1>3. CASE PeerAnswers(c)
  <2>1. Audio(peerAnsweredCall(m, c), m, Members)
    BY <1>1, <1>3, PeerAnsweredCallAudio DEF PeerAnswers
  <2> QED
    BY <1>3, <2>1, DoSounds DEF PeerAnswers
<1>4. CASE PeerCloses(c)
  <2>1. Audio(SIPCallClosed(m, c), m, Members)
    BY <1>1, CallClosedAudio
  <2> QED
    BY <1>4, <2>1, DoSounds DEF PeerCloses
<1>5. CASE CutOff(c) \/ Reach(c) \/ PeerReinvites(c) \/ InviteEnds(c)
  <2>1. PICK W, i : m' \in {[m EXCEPT !.cutOff = W], [m EXCEPT !.call[c].invite = i]}
    BY <1>5 DEF CutOff, Reach, PeerReinvites, InviteEnds, Do
  <2>2. PICK k : k = m'
    OBVIOUS
  <2>3. m.call \in [Calls -> CallRecords]
    BY <1>1, TypedFields
  <2>4. /\ \A x, y \in Calls : Deaf(k, x, y) => Deaf(m, x, y)
        /\ \A x \in Calls : Orphan(k, x) => Orphan(m, x)
        /\ \A x \in Calls : HeldHeard(k, x) => HeldHeard(m, x)
    BY <1>1, <2>1, <2>2, <2>3, PeersReachedAudio
  <2> QED
    BY <2>2, <2>4 DEF Sounds
<1> QED
  BY <1>2, <1>3, <1>4, <1>5

\* After a failure the call's own stream may be left.
LEMMA FailuresSound ==
    ASSUME IInv, NEW c \in Calls, PeerFails(c)
    PROVE  /\ ~Lag => \A x, y \in Calls : Deaf(m', x, y) => Deaf(m, x, y)
           /\ ~Lag => \A x \in Calls \ {c} : Orphan(m', x) => Orphan(m, x)
           /\ \A x \in Calls : HeldHeard(m', x) => HeldHeard(m, x) \/ Regained(x)
<1> DEFINE k == SIPCallServerFailure(m, c)
<1>1. Inside(m, Members) /\ Settled(m)
  BY MembersInside
<1>2. AudioEnd(k, m, Members, c)
  BY <1>1, CallFailsAudio
<1>3. m' = k
  BY DEF PeerFails, Do
<1> HIDE DEF k
<1> QED
  BY <1>2, <1>3 DEF AudioEnd, Members, Regained

\* Every step.
LEMMA StepSounds ==
    ASSUME IInv, [Next]_vars
    PROVE  /\ ~Lag => \A c, d \in Calls : Deaf(m', c, d) => Deaf(m, c, d)
           /\ ~Lag => \A c \in Calls : Orphan(m', c) => Orphan(m, c) \/ PeerFails(c)
           /\ \A c \in Calls : HeldHeard(m', c) => HeldHeard(m, c) \/ Regained(c)
<1>1. CASE Sounds
  BY <1>1 DEF Sounds
<1>2. ASSUME NEW c \in Calls, PeerFails(c)
      PROVE  /\ ~Lag => \A x, d \in Calls : Deaf(m', x, d) => Deaf(m, x, d)
             /\ ~Lag => \A x \in Calls : Orphan(m', x) => Orphan(m, x) \/ PeerFails(x)
             /\ \A x \in Calls : HeldHeard(m', x) => HeldHeard(m, x) \/ Regained(x)
  BY <1>2, FailuresSound
<1>3. ASSUME m' = m PROVE Sounds
  BY <1>3 DEF Sounds
<1>4. ASSUME NEW c \in Calls, CallStep(c), ~PeerFails(c)
      PROVE  Sounds
  BY <1>4, CallsBeginSound, CommandsSound, PeersSound DEF CallStep
<1>5. ASSUME NEW f \in Confs, ConferenceStep(f)
      PROVE  Sounds
  BY <1>5, MovesSound, ConferencesSound DEF ConferenceStep
<1>6. \/ Sounds \/ \E c \in Calls : PeerFails(c)
  BY <1>3, <1>4, <1>5 DEF Next, vars, Signal
<1> QED
  BY <1>1, <1>2, <1>6

\* What is done to one call, or by its peer, leaves the audio of others alone.
LEMMA OthersSpared ==
    ASSUME IInv, NEW c \in Calls,
           Concerns(c) \/ (TurnsTo(c) /\ ~isConference(m, m.current))
    PROVE  Spares(m', m, c)
<1>1. /\ Inside(m, Members) /\ Settled(m) /\ Sound(m) /\ Typed(m)
      /\ seen[c] \notin {"NONE", "INCOMING"} => c \notin m.waiting
  BY MembersInside
<1>2. CASE Incoming(c)
  <2>1. Spares(incomingCall(m, c), m, c)
    BY <1>1, IncomingCallAudio
  <2> QED
    BY <1>2, <2>1 DEF Incoming, Do
<1>3. CASE PeerRings(c)
  <2>1. Spares(peerRingingCall(m, c), m, c)
    BY <1>1, <1>3, PeerRingingCallAudio DEF PeerRings
  <2> QED
    BY <1>3, <2>1 DEF PeerRings, Do
<1>4. CASE PeerAnswers(c)
  <2>1. Spares(peerAnsweredCall(m, c), m, c)
    BY <1>1, <1>4, PeerAnsweredCallAudio DEF PeerAnswers
  <2> QED
    BY <1>4, <2>1 DEF PeerAnswers, Do
<1>5. CASE PeerCloses(c)
  <2>1. Spares(SIPCallClosed(m, c), m, c)
    BY <1>1, CallClosedAudio
  <2> QED
    BY <1>5, <2>1 DEF PeerCloses, Do
<1>6. CASE PeerFails(c)
  <2>1. Spares(SIPCallServerFailure(m, c), m, c)
    BY <1>1, CallFailsAudio
  <2> QED
    BY <1>6, <2>1 DEF PeerFails, Do
<1>7. CASE HangUp(c)
  <2>1. c \notin m.waiting
    BY <1>1, <1>7 DEF HangUp
  <2>2. Spares(hangupCall(m, c), m, c)
    BY <1>1, <2>1, HangupCallAudio
  <2> QED
    BY <1>7, <2>2 DEF HangUp, Do
<1>8. CASE Refuse(c)
  <2>1. ~Lag => m.call[c].confId \notin m.confs
    <3>1. ~Lag => m.call[c].confId = None
      BY <1>1, <1>8, CallsOffered DEF Refuse, Settled, Alone
    <3>2. None \notin m.confs
      BY <1>1, TypedFields, NamesAssumption
    <3> QED
      BY <3>1, <3>2
  <2>2. Spares(refuseCall(m, c), m, c)
    BY <1>1, <2>1, RefuseCallAudio
  <2> QED
    BY <1>8, <2>2 DEF Refuse, Do
<1>9. CASE Hold(c)
  <2>1. Spares(onHoldCall(m, c), m, c)
    BY <1>1, OnHoldCallSpares
  <2> QED
    BY <1>9, <2>1 DEF Hold, Do
<1>10. CASE Transfer(c)
  <2>1. Spares(transferCall(m, c), m, c)
    BY <1>1, TransferCallAudio
  <2> QED
    BY <1>10, <2>1 DEF Transfer, Do
<1>11. CASE PeerReinvites(c) \/ InviteEnds(c)
  <2>1. PICK i : m' = [m EXCEPT !.call[c].invite = i]
    BY <1>11 DEF PeerReinvites, InviteEnds, Do
  <2>2. PICK k : k = m'
    OBVIOUS
  <2>3. m.call \in [Calls -> CallRecords] /\ Shaped(m)
    BY <1>1, TypedFields, TypedShaped
  <2>4. Spares(k, m, c)
    BY <2>1, <2>2, <2>3, PeersReachedAudio
  <2> QED
    BY <2>2, <2>4
<1>12. CASE DetachParticipant(c)
  <2>1. Spares(detachParticipant(m, c), m, c)
    BY <1>1, DetachParticipantSpares
  <2> QED
    BY <1>12, <2>1 DEF DetachParticipant, Do
<1>13. CASE (Accept(c) \/ Unhold(c)) /\ ~isConference(m, m.current)
  <2>1. Spares(answerCall(m, c), m, c) /\ Spares(offHoldCall(m, c), m, c)
    BY <1>1, <1>13, TurnSpares
  <2> QED
    BY <1>13, <2>1 DEF Accept, Unhold, Do
<1>14. CASE PlaceCall(c) /\ ~isConference(m, m.current)
  <2>1. PICK sent \in Sent({c}) : Do(outgoingCall(m, c, None, c \in sent))
    BY <1>14 DEF PlaceCall
  <2>2. c \notin m.live
    BY <1>14 DEF PlaceCall, Unused
  <2> DEFINE b == c \in sent
             k == outgoingCall(m, c, None, b)
  <2>3. m' = k
    BY <2>1 DEF Do
  <2> HIDE DEF b
  <2>4. Spares(k, m, c)
    BY <1>1, <1>14, <2>2, OutgoingCallAudio
  <2> QED
    BY <2>3, <2>4
<1> QED
  BY <1>2, <1>3, <1>4, <1>5, <1>6, <1>7, <1>8, <1>9, <1>10, <1>11, <1>12, <1>13, <1>14
     DEF Concerns, TurnsTo

\* No two calls of one conference talk without hearing each other.
NobodyDeaf == \A c, d \in Calls : ~Deaf(m, c, d)

\* When the client learns of every change at once, all participants that talk hear
\* each other, also in a conference that held others, was resumed or was joined with
\* another, and also when peers cannot be reached.
THEOREM TalkersHearEachOther == ~Lag => (Spec => []ParticipantsHearEachOther)
<1>1. Init => NobodyDeaf
  BY DEF Init, Start, NobodyDeaf, Deaf
<1>2. ~Lag /\ IInv /\ NobodyDeaf /\ [Next]_vars => NobodyDeaf'
  BY StepSounds DEF NobodyDeaf
<1>3. IInv /\ NobodyDeaf => ParticipantsHearEachOther
  <2>1. ASSUME IInv, NobodyDeaf, NEW f \in m.confs, NEW c \in m.conf[f].parts,
               NEW d \in m.conf[f].parts, c # d, Talking(c), Talking(d)
        PROVE  {c, d} \in m.bound
    <3>1. c \in m.live /\ d \in m.live /\ c \in Calls /\ d \in Calls
      BY <2>1, TypedFields DEF Talking, IInv, Settled, Sound
    <3>2. m.call[c].confId = f /\ m.call[d].confId = f
      BY <2>1, <3>1 DEF IInv, Settled, Sound, Grouped
    <3> QED
      BY <2>1, <3>1, <3>2 DEF NobodyDeaf, Deaf, Talks, Talking
  <2> QED
    BY <2>1 DEF ParticipantsHearEachOther
<1>4. CASE Lag
  BY <1>4
<1>5. CASE ~Lag
  <2>1. IInv /\ NobodyDeaf /\ [Next]_vars => NobodyDeaf'
    BY <1>2, <1>5
  <2>2. Spec => []ParticipantsHearEachOther
    BY <1>1, <1>3, <2>1, Inductive, PTL DEF Spec
  <2> QED
    BY <2>2
<1> QED
  BY <1>4, <1>5

\* An answered call on hold gets the user's audio again only with a conference, or by
\* a command about that very call that the link refuses: with any client and any
\* peers, however long INVITEs stay pending.
THEOREM HeldHeardInConferences == Spec => HeldStaysSilent
<1>1. ASSUME IInv, [Next]_vars
      PROVE  \A c \in OnHoldAndHeard' \ OnHoldAndHeard : Regained(c)
  <2>1. ASSUME NEW c \in OnHoldAndHeard' \ OnHoldAndHeard
        PROVE  Regained(c)
    <3>1. IInv'
      BY <1>1, StepKeeps
    <3>2. m.live \in SUBSET Calls /\ (m').live \in SUBSET Calls
      <4>1. Typed(m) /\ Typed(m')
        BY <1>1, <3>1 DEF IInv, Settled, Sound
      <4> QED
        BY <4>1, TypedFields
    <3>3. c \in Calls /\ HeldHeard(m', c)
      BY <3>2, <2>1 DEF OnHoldAndHeard, HeldHeard
    <3>4. HeldHeard(m, c) \/ Regained(c)
      BY <1>1, <3>3, StepSounds
    <3> QED
      BY <2>1, <3>4 DEF OnHoldAndHeard, HeldHeard
  <2> QED
    BY <2>1
<1>2. IInv /\ [Next]_vars =>
        [\A c \in OnHoldAndHeard' \ OnHoldAndHeard :
            \/ m.call[c].confId # None \/ (m').call[c].confId # None
            \/ Unhold(c) /\ (m.current = c \/ ~Reinvited(m, c))
            \/ Accept(c) /\ m.call[c].conn = "Connected"]_vars
  BY <1>1 DEF Regained
<1> QED
  BY <1>2, Inductive, PTL DEF Spec, HeldStaysSilent

\* When the client learns of every change at once, only a call that fails leaves a
\* stream behind.
THEOREM StreamsOutliveFailures == ~Lag => (Spec => StreamsEndWithCall)
<1>1. ASSUME ~Lag, IInv, [Next]_vars
      PROVE  \A c \in Orphans' \ Orphans : PeerFails(c)
  <2>1. ASSUME NEW c \in Orphans' \ Orphans
        PROVE  PeerFails(c)
    <3>1. c \in Calls /\ Orphan(m', c) /\ ~Orphan(m, c)
      BY <2>1 DEF Orphans, Orphan
    <3> QED
      BY <1>1, <3>1, StepSounds
  <2> QED
    BY <2>1
<1>2. CASE Lag
  BY <1>2
<1>3. CASE ~Lag
  <2>1. IInv /\ [Next]_vars => [\A c \in Orphans' \ Orphans : PeerFails(c)]_vars
    BY <1>1, <1>3
  <2>2. Spec => StreamsEndWithCall
    BY <2>1, Inductive, PTL DEF Spec, StreamsEndWithCall
  <2> QED
    BY <2>2
<1> QED
  BY <1>2, <1>3

\* What the peer of a call does, what ends, holds or detaches it, and that the user
\* turns to it from another call, silences no other that is shown as current and is
\* in no conference, unless a conference is dissolved by it: with any client and any
\* peers.
THEOREM OneCallSparesOthers == Spec => OthersDoNotSilence
<1> DEFINE A(c) == m.confs \subseteq (m').confs =>
                      ~ \E d \in Calls \ {c} :
                            \/ Concerns(d)
                            \/ TurnsTo(d) /\ ~isConference(m, m.current)
<1>1. ASSUME IInv, [Next]_vars
      PROVE  \A c \in CurrentButUnheard' \ CurrentButUnheard : A(c)
  <2>1. ASSUME NEW c \in CurrentButUnheard' \ CurrentButUnheard,
               m.confs \subseteq (m').confs, NEW d \in Calls \ {c},
               Concerns(d) \/ (TurnsTo(d) /\ ~isConference(m, m.current))
        PROVE  FALSE
    <3>1. Spares(m', m, d)
      BY <1>1, <2>1, OthersSpared
    <3>2. IInv'
      BY <1>1, StepKeeps
    <3>3. (m').live \in SUBSET Calls
      <4>1. Typed(m')
        BY <3>2 DEF IInv, Settled, Sound
      <4> QED
        BY <4>1, TypedFields
    <3>4. c \in Calls \ {d} /\ Silenced(m', c)
      BY <2>1, <3>3 DEF CurrentButUnheard, Silenced
    <3>5. Silenced(m, c)
      BY <2>1, <3>1, <3>4 DEF Spares
    <3> QED
      BY <2>1, <3>5 DEF CurrentButUnheard, Silenced
  <2> QED
    BY <2>1
<1>2. IInv /\ [Next]_vars =>
        [\A c \in CurrentButUnheard' \ CurrentButUnheard :
            m.confs \subseteq (m').confs =>
              ~ \E d \in Calls \ {c} :
                    \/ Concerns(d)
                    \/ TurnsTo(d) /\ ~isConference(m, m.current)]_vars
  BY <1>1
<1> QED
  BY <1>2, Inductive, PTL DEF Spec, OthersDoNotSilence

\* A conference whose calls all have accounts is gone when it has been hung up, and
\* so are those: when the client learns of every change at once, or every peer can
\* be reached.
THEOREM HungUpConferencesEnd ==
    ~Lag \/ Fragile = {} => (Spec => HangUpConferenceEndsAll)
<1> DEFINE A(f) == HangUpConference(f) /\ m.conf[f].parts \subseteq m.account =>
                      /\ f \notin (m').confs
                      /\ (m').account \cap m.conf[f].parts = {}
<1>1. ASSUME ~Lag \/ Fragile = {}, IInv
      PROVE  \A f \in Confs : A(f)
  <2>1. ASSUME NEW f \in Confs, HangUpConference(f), m.conf[f].parts \subseteq m.account
        PROVE  /\ f \notin (m').confs
               /\ (m').account \cap m.conf[f].parts = {}
    <3> DEFINE k == hangupConference(m, f)
    <3>1. Settled(m) /\ f \in m.confs /\ m' = k
      BY <1>1, <2>1 DEF IInv, HangUpConference, Do
    <3>2. m.conf[f].parts \subseteq m.live
      BY <1>1, <2>1, <3>1, ParticipantsDoNotWait DEF IInv, Kept
    <3>3. f \notin k.confs /\ k.account \cap m.conf[f].parts = {}
      BY <2>1, <3>1, <3>2, HangupConferenceEnds
    <3> HIDE DEF k
    <3> QED
      BY <3>1, <3>3
  <2> QED
    BY <2>1
<1>2. CASE ~Lag \/ Fragile = {}
  <2>1. IInv /\ [Next]_vars =>
          [\A f \in Confs :
              HangUpConference(f) /\ m.conf[f].parts \subseteq m.account =>
                  /\ f \notin (m').confs
                  /\ (m').account \cap m.conf[f].parts = {}]_vars
    BY <1>1, <1>2
  <2>2. Spec => HangUpConferenceEndsAll
    BY <2>1, Inductive, PTL DEF Spec, HangUpConferenceEndsAll
  <2> QED
    BY <2>2
<1> QED
  BY <1>2

================================================================================
