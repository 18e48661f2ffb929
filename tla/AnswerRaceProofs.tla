--------------------------- MODULE AnswerRaceProofs ----------------------------
(***************************************************************************)
(* For any number of calls: whatever the order of the two threads' steps,  *)
(* the waiting calls stay counted, and no waiting entry and no account     *)
(* entry is left behind once both threads have finished.                   *)
(*                                                                         *)
(* Neither property is inductive: while a thread is in the middle of a     *)
(* handler an entry may well name a call the link does not have.  RaceInv  *)
(* says which thread then has it in hand, and that a call whose end has    *)
(* been told is in no list any more before the link forgets it.            *)
(***************************************************************************)
EXTENDS AnswerRace, FiniteSetTheorems, TLAPS

--------------------------------------------------------------------------------
(***************************************************************************)
(* What the handlers of CallControl do to the four fields that say which   *)
(* calls there are: the accounts, the calls of the link, the waiting list  *)
(* and its count.  Every handler keeps the count right; the lemmas also    *)
(* say which of the other fields it may change.                            *)
(***************************************************************************)

\* The states the client is told.
Answers == {"NONE", "DIALING", "RINGING", "INCOMING", "CURRENT", "HOLD", "FAILURE"}

\* The inductive part: the state is well formed and the waiting calls are counted.
Counted(n) == n \in ManagerStates /\ n.nbWaiting = Cardinality(n.waiting)

\* The two states have the same calls.
SameCalls(n, k) ==
    /\ n.account = k.account /\ n.live = k.live
    /\ n.waiting = k.waiting /\ n.nbWaiting = k.nbWaiting
    /\ n.aborted = k.aborted

\* The list of waiting calls is finite, so Cardinality counts it.
LEMMA WaitingFinite ==
    ASSUME NEW n \in ManagerStates
    PROVE  IsFiniteSet(n.waiting)
<1>1. n.waiting \subseteq Calls
  BY DEF ManagerStates
<1> QED
  BY <1>1, CallsAssumption, FS_Subset

\* Another current call, conference or none leaves the calls as they are.
LEMMA SwitchCallKeeps ==
    ASSUME NEW n, Counted(n), NEW id \in Calls \cup Confs \cup {None}
    PROVE  Counted(switchCall(n, id)) /\ SameCalls(switchCall(n, id), n)
  BY DEF Counted, SameCalls, ManagerStates, switchCall

\* Telling the client a state changes no call.
LEMMA CallStateChangedKeeps ==
    ASSUME NEW n, Counted(n), NEW c \in Calls, NEW s \in Answers
    PROVE  Counted(callStateChanged(n, c, s)) /\ SameCalls(callStateChanged(n, c, s), n)
  BY DEF Counted, SameCalls, ManagerStates, callStateChanged, Answers

\* A record update named, so that the provers need not expand it.
SetWaiting(n, W, k) == [n EXCEPT !.waiting = W, !.nbWaiting = k]

\* A waiting list and its count, replaced together, stay counted.
LEMMA SetWaitingKeeps ==
    ASSUME NEW n, n \in ManagerStates, NEW W \in SUBSET Calls, NEW k \in Nat,
           k = Cardinality(W)
    PROVE  /\ Counted(SetWaiting(n, W, k))
           /\ SetWaiting(n, W, k).waiting = W
           /\ SetWaiting(n, W, k).account = n.account
           /\ SetWaiting(n, W, k).live = n.live
           /\ SetWaiting(n, W, k).aborted = n.aborted
  BY DEF ManagerStates, Counted, SetWaiting

\* removeWaitingCall takes a call off the list and counts it off exactly when it
\* was there: the unsigned counter of waiting calls never wraps.
LEMMA RemoveWaitingCallCounts ==
    ASSUME NEW n, Counted(n), NEW c \in Calls
    PROVE  LET k == removeWaitingCall(n, c) IN
           /\ Counted(k)
           /\ k.waiting = n.waiting \ {c}
           /\ k.account = n.account /\ k.live = n.live /\ k.aborted = n.aborted
<1> DEFINE W == n.waiting \ {c}
           nb == IF c \in n.waiting THEN n.nbWaiting - 1 ELSE n.nbWaiting
<1>1. IsFiniteSet(n.waiting) /\ Cardinality(n.waiting) \in Nat
  BY WaitingFinite, FS_CardinalityType DEF Counted
<1>2. nb \in Nat /\ nb = Cardinality(W)
  <2>1. CASE c \in n.waiting
    <3>1. /\ Cardinality(W) = Cardinality(n.waiting) - 1
          /\ Cardinality(W) \in Nat
      BY <1>1, <2>1, FS_RemoveElement, FS_CardinalityType
    <3> QED
      BY <2>1, <3>1 DEF Counted
  <2>2. CASE c \notin n.waiting
    <3>1. W = n.waiting
      BY <2>2
    <3> QED
      BY <1>1, <2>2, <3>1 DEF Counted
  <2> QED
    BY <2>1, <2>2
<1>3. W \in SUBSET Calls
  BY DEF Counted, ManagerStates
<1>4. removeWaitingCall(n, c) = SetWaiting(n, W, nb)
  BY DEF removeWaitingCall, SetWaiting
<1> HIDE DEF W, nb
<1>6. n \in ManagerStates
  BY DEF Counted
<1>7. LET k == SetWaiting(n, W, nb) IN
      Counted(k) /\ k.waiting = W /\ k.account = n.account /\ k.live = n.live
      /\ k.aborted = n.aborted
  BY <1>2, <1>3, <1>6, SetWaitingKeeps
<1> HIDE DEF SetWaiting
<1> QED
  BY <1>4, <1>7 DEF W

\* addWaitingCall counts a call that was not in the list yet.
LEMMA AddWaitingCallCounts ==
    ASSUME NEW n, Counted(n), NEW c \in Calls, c \notin n.waiting
    PROVE  LET k == addWaitingCall(n, c) IN
           /\ Counted(k)
           /\ k.waiting = n.waiting \cup {c}
           /\ k.account = n.account /\ k.live = n.live /\ k.aborted = n.aborted
<1> DEFINE W == n.waiting \cup {c}
           nb == n.nbWaiting + 1
<1>1. IsFiniteSet(n.waiting) /\ Cardinality(n.waiting) \in Nat
  BY WaitingFinite, FS_CardinalityType DEF Counted
<1>2. Cardinality(W) = Cardinality(n.waiting) + 1
  BY <1>1, FS_AddElement
<1>3. nb \in Nat /\ nb = Cardinality(W)
  BY <1>1, <1>2 DEF Counted
<1>4. W \in SUBSET Calls
  BY DEF Counted, ManagerStates
<1>5. addWaitingCall(n, c) = SetWaiting(n, W, nb)
  BY DEF addWaitingCall, SetWaiting
<1> HIDE DEF W, nb
<1>6. n \in ManagerStates
  BY DEF Counted
<1>7. LET k == SetWaiting(n, W, nb) IN
      Counted(k) /\ k.waiting = W /\ k.account = n.account /\ k.live = n.live
      /\ k.aborted = n.aborted
  BY <1>3, <1>4, <1>6, SetWaitingKeeps
<1> HIDE DEF SetWaiting
<1> QED
  BY <1>5, <1>7 DEF W

\* Unbinding a stream leaves the calls as they are.
LEMMA UnBindAllKeeps ==
    ASSUME NEW n, Counted(n), NEW x
    PROVE  Counted(unBindAll(n, x)) /\ SameCalls(unBindAll(n, x), n)
<1>1. {b \in n.bound : x \notin b} \in SUBSET SUBSET (Calls \cup {Default})
  BY DEF Counted, ManagerStates
<1> QED
  BY <1>1 DEF Counted, SameCalls, ManagerStates, unBindAll

\* Binding two streams leaves the calls as they are.
LEMMA BindCallIDKeeps ==
    ASSUME NEW n, Counted(n), NEW x \in Calls \cup {Default}, NEW y \in Calls \cup {Default}
    PROVE  Counted(bindCallID(n, x, y)) /\ SameCalls(bindCallID(n, x, y), n)
<1>1. n.bound \cup {{x, y}} \in SUBSET SUBSET (Calls \cup {Default})
  BY DEF Counted, ManagerStates
<1> QED
  BY <1>1 DEF Counted, SameCalls, ManagerStates, bindCallID

\* The Call objects.
CallRecords ==
    [state : {"Inactive", "Active", "Hold"},
     conn : {"Disconnected", "Progressing", "Ringing", "Connected"},
     type : {"Incoming", "Outgoing"}, confId : Confs \cup {None},
     invite : {"none", "received", "other"}]

\* Other Call objects for the same ids leave the accounts and lists as they are.
LEMMA SetCallKeeps ==
    ASSUME NEW n, Counted(n), NEW f \in [Calls -> CallRecords]
    PROVE  Counted([n EXCEPT !.call = f]) /\ SameCalls([n EXCEPT !.call = f], n)
  BY DEF Counted, SameCalls, ManagerStates, CallRecords

\* A record update named.
SetLive(n, L, f) == [n EXCEPT !.live = L, !.call = f]

\* Another set of calls of the link leaves accounts and waiting calls alone.
LEMMA SetLiveKeeps ==
    ASSUME NEW n, Counted(n), NEW L \in SUBSET Calls, NEW f \in [Calls -> CallRecords]
    PROVE  /\ Counted(SetLive(n, L, f)) /\ SetLive(n, L, f).live = L
           /\ SetLive(n, L, f).account = n.account
           /\ SetLive(n, L, f).waiting = n.waiting
           /\ SetLive(n, L, f).aborted = n.aborted
  BY DEF Counted, ManagerStates, CallRecords, SetLive

\* A Call put on hold is a Call in the same conference and connection.
LEMMA HeldFields ==
    ASSUME NEW n, NEW c, n.call[c] \in CallRecords
    PROVE  /\ Held(n, c) \in CallRecords
           /\ Held(n, c).confId = n.call[c].confId
           /\ Held(n, c).conn = n.call[c].conn /\ Held(n, c).state = "Hold"
<1> DEFINE i == IF Reinvited(n, c) THEN "other" ELSE n.call[c].invite
<1>1. Held(n, c) = [n.call[c] EXCEPT !.state = "Hold", !.invite = i]
  BY DEF Held, CallRecords
<1>2. i \in {"none", "received", "other"}
  BY DEF CallRecords
<1> HIDE DEF i
<1> QED
  BY <1>1, <1>2 DEF CallRecords

\* The link's onhold changes a Call, never which calls there are.
LEMMA LinkOnHoldKeeps ==
    ASSUME NEW n, Counted(n), NEW c \in Calls
    PROVE  Counted(linkOnHold(n, c)) /\ SameCalls(linkOnHold(n, c), n)
<1> DEFINE f == [n.call EXCEPT ![c] = Held(n, c)]
<1>1. n.call \in [Calls -> CallRecords]
  BY DEF Counted, ManagerStates, CallRecords
<1>2. Held(n, c) \in CallRecords
  BY <1>1, HeldFields
<1>3. f \in [Calls -> CallRecords]
  BY <1>1, <1>2
<1>4. [n EXCEPT !.call[c] = Held(n, c)] = [n EXCEPT !.call = f]
  OBVIOUS
<1> HIDE DEF f
<1>5. Counted([n EXCEPT !.call = f]) /\ SameCalls([n EXCEPT !.call = f], n)
  BY <1>3, SetCallKeeps
<1> QED
  BY <1>4, <1>5 DEF linkOnHold, SameCalls

\* The link's answer changes a Call, never which calls there are.
LEMMA LinkAnswerKeeps ==
    ASSUME NEW n, Counted(n), NEW c \in Calls
    PROVE  Counted(linkAnswer(n, c)) /\ SameCalls(linkAnswer(n, c), n)
<1> DEFINE f == [n.call EXCEPT ![c] = [@ EXCEPT !.conn = "Connected", !.state = "Active"]]
<1>1. n.call \in [Calls -> CallRecords]
  BY DEF Counted, ManagerStates, CallRecords
<1>2. [n.call[c] EXCEPT !.conn = "Connected", !.state = "Active"] \in CallRecords
  BY <1>1 DEF CallRecords
<1>3. f \in [Calls -> CallRecords]
  BY <1>1, <1>2
<1>4. linkAnswer(n, c) \in {n, [n EXCEPT !.call = f]}
  BY DEF linkAnswer
<1> HIDE DEF f
<1>5. Counted([n EXCEPT !.call = f]) /\ SameCalls([n EXCEPT !.call = f], n)
  BY <1>3, SetCallKeeps
<1> QED
  BY <1>4, <1>5 DEF SameCalls

\* The link's addCall adds that call.
LEMMA AddCallKeeps ==
    ASSUME NEW n, Counted(n), NEW c \in Calls, NEW r \in CallRecords
    PROVE  LET k == addCall(n, c, r) IN
           /\ Counted(k)
           /\ k.live = n.live \cup {c}
           /\ k.account = n.account /\ k.waiting = n.waiting /\ k.aborted = n.aborted
<1> DEFINE f == [n.call EXCEPT ![c] = r]
<1>1. f \in [Calls -> CallRecords] /\ n.live \cup {c} \in SUBSET Calls
  BY DEF Counted, ManagerStates, CallRecords
<1>2. addCall(n, c, r) = SetLive(n, n.live \cup {c}, f)
  BY DEF addCall, SetLive
<1> HIDE DEF f
<1> QED
  BY <1>1, <1>2, SetLiveKeeps

\* The link's removeCall removes that call.
LEMMA RemoveCallKeeps ==
    ASSUME NEW n, Counted(n), NEW c \in Calls
    PROVE  LET k == removeCall(n, c) IN
           /\ Counted(k)
           /\ k.live = n.live \ {c}
           /\ k.account = n.account /\ k.waiting = n.waiting /\ k.aborted = n.aborted
<1> DEFINE f == [n.call EXCEPT ![c] = NewCall]
<1>1. NewCall \in CallRecords
  BY DEF NewCall, CallRecords
<1>2. f \in [Calls -> CallRecords] /\ n.live \ {c} \in SUBSET Calls
  BY <1>1 DEF Counted, ManagerStates, CallRecords
<1>3. removeCall(n, c) = SetLive(n, n.live \ {c}, f)
  BY DEF removeCall, SetLive
<1> HIDE DEF f
<1> QED
  BY <1>2, <1>3, SetLiveKeeps

\* removeCallAccount removes that entry only.
LEMMA RemoveCallAccountKeeps ==
    ASSUME NEW n, Counted(n), NEW c \in Calls
    PROVE  LET k == removeCallAccount(n, c) IN
           /\ Counted(k)
           /\ k.account = n.account \ {c}
           /\ k.live = n.live /\ k.waiting = n.waiting /\ k.aborted = n.aborted
  BY DEF Counted, ManagerStates, removeCallAccount

\* A process that dies changes nothing else of the state modelled.
LEMMA AbortKeeps ==
    ASSUME NEW n, Counted(n)
    PROVE  /\ Counted(abort(n)) /\ abort(n).aborted
           /\ abort(n).account = n.account /\ abort(n).live = n.live
           /\ abort(n).waiting = n.waiting
  BY DEF Counted, ManagerStates, abort

\* onHoldCall may take a call off the waiting list, and keeps the list counted.
LEMMA OnHoldCallKeeps ==
    ASSUME NEW n, Counted(n), NEW c \in Calls
    PROVE  LET k == onHoldCall(n, c) IN
           /\ Counted(k)
           /\ k.waiting \subseteq n.waiting
           /\ k.account = n.account /\ k.live = n.live /\ k.aborted = n.aborted
<1> DEFINE h == linkOnHold(n, c)
           s == removeStream(h, c)
           w == removeWaitingCall(s, c)
           t == IF n.current = c THEN switchCall(w, None) ELSE w
           k == callStateChanged(t, c, "HOLD")
<1>1. Counted(h) /\ SameCalls(h, n)
  BY LinkOnHoldKeeps
<1>2. Counted(s) /\ SameCalls(s, h)
  BY <1>1, UnBindAllKeeps DEF removeStream
<1>3. /\ Counted(w) /\ w.waiting = s.waiting \ {c}
      /\ w.account = s.account /\ w.live = s.live /\ w.aborted = s.aborted
  BY <1>2, RemoveWaitingCallCounts
<1>4. Counted(t) /\ SameCalls(t, w)
  BY <1>3, SwitchCallKeeps DEF SameCalls
<1>5. Counted(k) /\ SameCalls(k, t)
  BY <1>4, CallStateChangedKeeps DEF Answers
<1>6. onHoldCall(n, c) = IF c \notin n.account THEN n ELSE k
  BY DEF onHoldCall
<1> HIDE DEF h, s, w, t, k
<1> QED
  BY <1>1, <1>2, <1>3, <1>4, <1>5, <1>6 DEF SameCalls

\* Another state of a conference leaves the calls as they are.
LEMMA SetConfKeeps ==
    ASSUME NEW n, Counted(n), NEW f \in Confs,
           NEW s \in {"ACTIVE_ATTACHED", "ACTIVE_DETACHED", "HOLD"}
    PROVE  LET k == [n EXCEPT !.conf[f].state = s] IN Counted(k) /\ SameCalls(k, n)
<1> DEFINE R == [parts : SUBSET Calls, nb : Int,
                 state : {"ACTIVE_ATTACHED", "ACTIVE_DETACHED", "HOLD"}]
           g == [n.conf EXCEPT ![f] = [@ EXCEPT !.state = s]]
<1>1. n.conf \in [Confs -> R]
  BY DEF Counted, ManagerStates
<1>2. g \in [Confs -> R]
  <2>1. [n.conf[f] EXCEPT !.state = s] \in R
    BY <1>1
  <2> QED
    BY <1>1, <2>1
<1>3. [n EXCEPT !.conf[f].state = s] = [n EXCEPT !.conf = g]
  OBVIOUS
<1> HIDE DEF g
<1>4. LET k == [n EXCEPT !.conf = g] IN Counted(k) /\ SameCalls(k, n)
  BY <1>2 DEF Counted, SameCalls, ManagerStates
<1> QED
  BY <1>3, <1>4

\* A user who leaves a conference changes no call.
LEMMA DetachMainParticipantKeeps ==
    ASSUME NEW n, Counted(n)
    PROVE  Counted(detachMainParticipant(n)) /\ SameCalls(detachMainParticipant(n), n)
<1> DEFINE u == unBindAll(n, Default)
           s == IF u.conf[u.current].state = "ACTIVE_ATTACHED"
                THEN "ACTIVE_DETACHED" ELSE u.conf[u.current].state
           k == [u EXCEPT !.conf[u.current].state = s]
<1>1. Counted(u) /\ SameCalls(u, n)
  BY UnBindAllKeeps
<1>2. CASE isConference(u, u.current)
  <2>1. u.current \in Confs
    BY <1>1, <1>2 DEF isConference, Counted, ManagerStates
  <2>2. s \in {"ACTIVE_ATTACHED", "ACTIVE_DETACHED", "HOLD"}
    BY <1>1, <2>1 DEF Counted, ManagerStates
  <2>3. detachMainParticipant(n) = switchCall(k, None)
    BY <1>2 DEF detachMainParticipant
  <2> HIDE DEF u, s
  <2>4. Counted(k) /\ SameCalls(k, u)
    BY <1>1, <2>1, <2>2, SetConfKeeps
  <2> HIDE DEF k
  <2>5. Counted(switchCall(k, None)) /\ SameCalls(switchCall(k, None), k)
    BY <2>4, SwitchCallKeeps
  <2> QED
    BY <1>1, <2>3, <2>4, <2>5 DEF SameCalls
<1>3. CASE ~isConference(u, u.current)
  BY <1>1, <1>3 DEF detachMainParticipant
<1> QED
  BY <1>2, <1>3

\* Leaving what is current may only take a call off the waiting list.
LEMMA LeaveCurrentKeeps ==
    ASSUME NEW n, Counted(n), NEW c \in Calls
    PROVE  LET k == leaveCurrent(n, c) IN
           /\ Counted(k)
           /\ k.waiting \subseteq n.waiting
           /\ k.account = n.account /\ k.live = n.live /\ k.aborted = n.aborted
<1>1. Counted(detachMainParticipant(n)) /\ SameCalls(detachMainParticipant(n), n)
  BY DetachMainParticipantKeeps
<1>2. CASE hasCurrentCall(n) /\ ~isConference(n, n.current)
           /\ ~participToConference(n, n.current) /\ n.current \in Calls
  <2>1. leaveCurrent(n, c) = onHoldCall(n, n.current)
    BY <1>2 DEF leaveCurrent
  <2> QED
    BY <1>2, <2>1, OnHoldCallKeeps
<1>3. CASE hasCurrentCall(n) /\ ~isConference(n, n.current) /\ n.current \notin Calls
  <2>1. n.current \notin n.account
    BY <1>3 DEF Counted, ManagerStates
  <2>2. leaveCurrent(n, c) = n
    BY <1>3, <2>1 DEF leaveCurrent, onHoldCall
  <2> QED
    BY <2>2
<1>4. CASE leaveCurrent(n, c) = n
  BY <1>4
<1>5. CASE leaveCurrent(n, c) = detachMainParticipant(n)
  BY <1>1, <1>5 DEF SameCalls
<1> QED
  BY <1>2, <1>3, <1>4, <1>5 DEF leaveCurrent

\* Making a call or its conference current changes no call.
LEMMA SwitchToCallKeeps ==
    ASSUME NEW n, Counted(n), NEW c \in Calls
    PROVE  Counted(switchToCall(n, c)) /\ SameCalls(switchToCall(n, c), n)
<1> DEFINE id == IF participToConference(n, c) THEN n.call[c].confId ELSE c
<1>1. id \in Calls \cup Confs \cup {None}
  BY DEF Counted, ManagerStates
<1>2. switchToCall(n, c) = switchCall(n, id)
  BY DEF switchToCall
<1> HIDE DEF id
<1> QED
  BY <1>1, <1>2, SwitchCallKeeps

\* Connecting the stream of a call changes no call.
LEMMA AddStreamKeeps ==
    ASSUME NEW n, Counted(n), NEW c \in Calls
    PROVE  Counted(addStream(n, c)) /\ SameCalls(addStream(n, c), n)
<1>1. CASE addStream(n, c) = bindCallID(n, c, Default)
  BY <1>1, BindCallIDKeeps
<1>2. CASE addStream(n, c) = n
  BY <1>2 DEF SameCalls
<1>3. ASSUME NEW f \in Confs
      PROVE  Counted(bindParticipant(n, f, c)) /\ SameCalls(bindParticipant(n, f, c), n)
  <2> DEFINE peers == IF n.conf[f].nb >= 1 THEN n.conf[f].parts \ {c} ELSE {}
             B == n.bound \cup {{c, x} : x \in peers \cup {Default}}
  <2>1. peers \subseteq Calls
    BY DEF Counted, ManagerStates
  <2>2. B \in SUBSET SUBSET (Calls \cup {Default})
    BY <2>1 DEF Counted, ManagerStates
  <2>3. bindParticipant(n, f, c) = [n EXCEPT !.bound = B]
    BY DEF bindParticipant
  <2> HIDE DEF B
  <2>4. LET k == [n EXCEPT !.bound = B] IN Counted(k) /\ SameCalls(k, n)
    BY <2>2 DEF Counted, SameCalls, ManagerStates
  <2> QED
    BY <2>3, <2>4
<1>4. CASE n.call[c].confId \in n.confs /\ addStream(n, c) = bindParticipant(n, n.call[c].confId, c)
  <2>1. n.call[c].confId \in Confs
    BY <1>4 DEF Counted, ManagerStates
  <2> QED
    BY <1>3, <1>4, <2>1
<1> QED
  BY <1>1, <1>2, <1>4 DEF addStream

--------------------------------------------------------------------------------
(***************************************************************************)
(* The two threads.                                                        *)
(***************************************************************************)

\* An account entry without a call: the SIP thread is about to add the call, or
\* the D-Bus thread to remove the entry.
AccountInHand ==
    \A c \in m.account \ m.live : voip = <<"add", c>> \/ main = <<"forget", c>>

\* A waiting entry without a call: the SIP thread is about to add the call.
WaitingInHand == \A c \in m.waiting \ m.live : voip = <<"add", c>>

\* The peer's hang-up has cleared the lists before the link removes the call.
ToldIsGone ==
    ~m.aborted =>
        \A c \in Calls : voip \in {<<"closed", c>>, <<"release", c>>} =>
            c \notin m.account /\ c \notin m.waiting

\* The inductive invariant: who has each entry without a call in hand.
RaceInv ==
    /\ TypeOK
    /\ Counted(m)
    /\ AccountInHand
    /\ WaitingInHand
    /\ ToldIsGone

------------------------------------------------------------------------------
\* Initially there is no call.
LEMMA InitRace == Init => RaceInv
<1> SUFFICES ASSUME Init PROVE RaceInv
  OBVIOUS
<1>1. m \in ManagerStates
  <2>1. NewCall \in CallRecords
    BY DEF NewCall, CallRecords
  <2>2. [c \in Calls |-> NewCall] \in [Calls -> CallRecords]
    BY <2>1
  <2>3. NewConference \in [parts : SUBSET Calls, nb : Int,
                  state : {"ACTIVE_ATTACHED", "ACTIVE_DETACHED", "HOLD"}]
    BY DEF NewConference
  <2> QED
    BY <2>2, <2>3 DEF Init, Start, ManagerStates, CallRecords
<1>2. m.nbWaiting = Cardinality(m.waiting)
  BY FS_EmptySet DEF Init, Start
<1> QED
  BY <1>1, <1>2 DEF Init, Start, RaceInv, TypeOK, Counted, AccountInHand,
     WaitingInHand, ToldIsGone, Idle

------------------------------------------------------------------------------
\* A step of the SIP thread preserves the invariant.
LEMMA VoipKeepsRace ==
    ASSUME RaceInv, ~m.aborted, NEW c \in Calls, VoipNext(c)
    PROVE  RaceInv'
<1> USE DEF RaceInv
<1>1. CASE Announce(c)
  <2> DEFINE n1 == [m EXCEPT !.account = @ \cup {c}]
             n2 == addWaitingCall(n1, c)
  <2>1. c \notin m.waiting /\ voip = Idle /\ voip' = <<"add", c>> /\ main' = main
    BY <1>1 DEF Announce, WaitingInHand, Idle
  <2>2. /\ Counted(n1) /\ n1.account = m.account \cup {c}
        /\ n1.live = m.live /\ n1.waiting = m.waiting /\ n1.aborted = m.aborted
    BY DEF Counted, ManagerStates
  <2>3. m' = callStateChanged(n2, c, "INCOMING") /\ UNCHANGED ended
    BY <1>1 DEF Announce
  <2> HIDE DEF n1
  <2>4. /\ Counted(n2) /\ n2.waiting = n1.waiting \cup {c}
        /\ n2.account = n1.account /\ n2.live = n1.live /\ n2.aborted = n1.aborted
    BY <2>1, <2>2, AddWaitingCallCounts
  <2> HIDE DEF n2
  <2>5. Counted(m') /\ SameCalls(m', n2)
    BY <2>3, <2>4, CallStateChangedKeeps DEF Answers
  <2>6. /\ m'.account = m.account \cup {c} /\ m'.live = m.live
        /\ m'.waiting = m.waiting \cup {c} /\ Counted(m')
    BY <2>2, <2>4, <2>5 DEF SameCalls
  <2>7. TypeOK'
    BY <2>1, <2>3, <2>6 DEF TypeOK, Counted, VoipSteps
  <2>8. AccountInHand' /\ WaitingInHand' /\ ToldIsGone'
    BY <2>1, <2>6 DEF AccountInHand, WaitingInHand, ToldIsGone, Idle
  <2> QED
    BY <2>6, <2>7, <2>8 DEF Counted
<1>2. CASE Add(c)
  <2> DEFINE r == [NewCall EXCEPT !.conn = "Ringing", !.invite = "received"]
  <2>1. /\ voip = <<"add", c>> /\ voip' = Idle /\ main' = main
        /\ m' = addCall(m, c, r) /\ UNCHANGED ended
    BY <1>2 DEF Add, VoipStep
  <2>2. r \in CallRecords
    BY DEF NewCall, CallRecords
  <2> HIDE DEF r
  <2>3. /\ Counted(m') /\ m'.live = m.live \cup {c}
        /\ m'.account = m.account /\ m'.waiting = m.waiting
    BY <2>1, <2>2, AddCallKeeps
  <2>4. TypeOK'
    BY <2>1, <2>3 DEF TypeOK, Counted
  <2>5. AccountInHand' /\ WaitingInHand' /\ ToldIsGone'
    BY <2>1, <2>3 DEF AccountInHand, WaitingInHand, ToldIsGone, Idle
  <2> QED
    BY <2>3, <2>4, <2>5 DEF Counted
<1>3. CASE PeerCloses(c)
  <2>1. /\ c \in m.live /\ voip = Idle /\ voip' = <<"peer hung up", c>>
        /\ main' = main /\ ended' = ended \cup {c}
        /\ m' \in {m, switchCall(m, None)}
    BY <1>3 DEF PeerCloses
  <2>2. Counted(switchCall(m, None)) /\ SameCalls(switchCall(m, None), m)
    BY SwitchCallKeeps
  <2> HIDE DEF RaceInv
  <2>3. Counted(m') /\ SameCalls(m', m)
    BY <2>1, <2>2 DEF SameCalls, RaceInv
  <2> USE DEF RaceInv
  <2>4. TypeOK'
    BY <2>1, <2>3 DEF TypeOK, Counted, VoipSteps
  <2>5. AccountInHand' /\ WaitingInHand' /\ ToldIsGone'
    BY <2>1, <2>3 DEF AccountInHand, WaitingInHand, ToldIsGone, Idle, SameCalls
  <2> QED
    BY <2>3, <2>4, <2>5 DEF Counted
<1>4. CASE Closed(c)
  <2>1. /\ voip = <<"peer hung up", c>> /\ voip' = <<"closed", c>>
        /\ main' = main /\ UNCHANGED ended
    BY <1>4 DEF Closed, VoipStep
  <2>2. CASE c \in m.live
    <3> DEFINE n1 == callStateChanged(m, c, "NONE")
               n2 == removeWaitingCall(n1, c)
    <3>1. m' = removeCallAccount(n2, c)
      BY <1>4, <2>2 DEF Closed
    <3>2. Counted(n1) /\ SameCalls(n1, m)
      BY CallStateChangedKeeps DEF Answers
    <3> HIDE DEF n1
    <3>3. /\ Counted(n2) /\ n2.waiting = n1.waiting \ {c}
          /\ n2.account = n1.account /\ n2.live = n1.live
      BY <3>2, RemoveWaitingCallCounts
    <3> HIDE DEF n2
    <3>4. /\ Counted(m') /\ m'.account = n2.account \ {c}
          /\ m'.live = n2.live /\ m'.waiting = n2.waiting
      BY <3>1, <3>3, RemoveCallAccountKeeps
    <3>5. /\ m'.account = m.account \ {c} /\ m'.waiting = m.waiting \ {c}
          /\ m'.live = m.live
      BY <3>2, <3>3, <3>4 DEF SameCalls
    <3>6. TypeOK'
      BY <2>1, <3>4 DEF TypeOK, Counted, VoipSteps
    <3>7. AccountInHand' /\ WaitingInHand' /\ ToldIsGone'
      BY <2>1, <3>5 DEF AccountInHand, WaitingInHand, ToldIsGone
    <3> QED
      BY <3>4, <3>6, <3>7 DEF Counted
  <2>3. CASE c \notin m.live
    <3>1. m' = abort(m)
      BY <1>4, <2>3 DEF Closed
    <3>2. /\ Counted(m') /\ m'.aborted /\ m'.account = m.account
          /\ m'.live = m.live /\ m'.waiting = m.waiting
      BY <3>1, AbortKeeps
    <3>3. TypeOK'
      BY <2>1, <3>2 DEF TypeOK, Counted, VoipSteps
    <3>4. AccountInHand' /\ WaitingInHand' /\ ToldIsGone'
      BY <2>1, <3>2 DEF AccountInHand, WaitingInHand, ToldIsGone
    <3> QED
      BY <3>2, <3>3, <3>4 DEF Counted
  <2> QED
    BY <2>2, <2>3
<1>5. CASE Unbound(c)
  <2>1. /\ voip = <<"closed", c>> /\ voip' = <<"release", c>>
        /\ main' = main /\ m' = unBindAll(m, c) /\ UNCHANGED ended
    BY <1>5 DEF Unbound, VoipStep, removeStream
  <2>2. Counted(m') /\ SameCalls(m', m)
    BY <2>1, UnBindAllKeeps
  <2>3. TypeOK'
    BY <2>1, <2>2 DEF TypeOK, Counted, VoipSteps
  <2>4. AccountInHand' /\ WaitingInHand' /\ ToldIsGone'
    BY <2>1, <2>2 DEF AccountInHand, WaitingInHand, ToldIsGone, SameCalls
  <2> QED
    BY <2>2, <2>3, <2>4 DEF Counted
<1>6. CASE Release(c)
  <2>1. /\ voip = <<"release", c>> /\ voip' = Idle
        /\ main' = main /\ m' = removeCall(m, c) /\ UNCHANGED ended
    BY <1>6 DEF Release, VoipStep
  <2>2. c \notin m.account /\ c \notin m.waiting
    BY <2>1 DEF ToldIsGone
  <2>3. /\ Counted(m') /\ m'.live = m.live \ {c}
        /\ m'.account = m.account /\ m'.waiting = m.waiting
    BY <2>1, RemoveCallKeeps
  <2>4. TypeOK'
    BY <2>1, <2>3 DEF TypeOK, Counted
  <2>5. AccountInHand' /\ WaitingInHand' /\ ToldIsGone'
    BY <2>1, <2>2, <2>3 DEF AccountInHand, WaitingInHand, ToldIsGone, Idle
  <2> QED
    BY <2>3, <2>4, <2>5 DEF Counted
<1> QED
  BY <1>1, <1>2, <1>3, <1>4, <1>5, <1>6 DEF VoipNext

------------------------------------------------------------------------------
\* A step of the D-Bus thread that leaves the calls of the link alone and adds
\* to no list preserves the invariant, if it only leaves "forget" without the
\* account entry.
LEMMA QuietKeepsRace ==
    ASSUME RaceInv, ~m.aborted, Counted(m'), UNCHANGED voip,
           main' \in {Idle} \cup MainSteps \X Calls, ended' \subseteq Calls,
           m'.live = m.live, m'.account \subseteq m.account,
           m'.waiting \subseteq m.waiting,
           \A d \in Calls : main = <<"forget", d>> => d \notin m'.account
    PROVE  RaceInv'
<1>1. TypeOK'
  BY DEF RaceInv, TypeOK, Counted
<1>2. AccountInHand'
  <2> SUFFICES ASSUME NEW d \in m'.account \ m'.live
               PROVE  voip = <<"add", d>>
    BY DEF AccountInHand
  <2>1. d \in Calls /\ d \in m.account \ m.live
    BY DEF RaceInv, TypeOK, ManagerStates
  <2> QED
    BY <2>1 DEF RaceInv, AccountInHand
<1>3. WaitingInHand' /\ ToldIsGone'
  BY DEF RaceInv, WaitingInHand, ToldIsGone
<1> QED
  BY <1>1, <1>2, <1>3 DEF RaceInv

\* A step of the D-Bus thread preserves the invariant.
LEMMA MainKeepsRace ==
    ASSUME RaceInv, ~m.aborted, NEW c \in Calls, MainNext(c)
    PROVE  RaceInv'
<1>1. Counted(m) /\ ended \subseteq Calls
  BY DEF RaceInv, TypeOK
<1>2. CASE Accept(c)
  <2>1. /\ main = Idle /\ main' = <<"lookup answer", c>>
        /\ m' = leaveCurrent(m, c) /\ UNCHANGED <<ended, voip>>
    BY <1>2 DEF Accept
  <2>2. /\ Counted(m') /\ m'.waiting \subseteq m.waiting
        /\ m'.account = m.account /\ m'.live = m.live
    BY <1>1, <2>1, LeaveCurrentKeeps
  <2> QED
    BY <1>1, <2>1, <2>2, QuietKeepsRace DEF Idle, MainSteps
<1>3. CASE LookupAnswer(c)
  <2>1. /\ main = <<"lookup answer", c>>
        /\ main' \in {<<"answer", c>>, <<"waiting", c>>}
        /\ UNCHANGED <<m, ended, voip>>
    BY <1>3 DEF LookupAnswer, MainStep
  <2>2. main' \in MainSteps \X Calls
    <3>1. CASE main' = <<"answer", c>>
      BY <3>1 DEF MainSteps
    <3>2. CASE main' = <<"waiting", c>>
      BY <3>2 DEF MainSteps
    <3> QED
      BY <2>1, <3>1, <3>2
  <2>3. Counted(m')
    BY <1>1, <2>1 DEF Counted
  <2> QED
    BY <1>1, <2>1, <2>2, <2>3, QuietKeepsRace
<1>4. CASE Answer(c)
  <2> DEFINE n == linkAnswer(m, c)
  <2>1. /\ main = <<"answer", c>> /\ main' = <<"waiting", c>>
        /\ UNCHANGED <<ended, voip>>
        /\ m' \in {m, n, abort(m)}
    BY <1>4 DEF Answer, MainStep, Using
  <2>2. Counted(n) /\ SameCalls(n, m)
    BY <1>1, LinkAnswerKeeps
  <2> HIDE DEF n
  <2>3. /\ Counted(m') /\ m'.waiting = m.waiting
        /\ m'.account = m.account /\ m'.live = m.live
    BY <1>1, <2>1, <2>2, AbortKeeps DEF SameCalls
  <2> QED
    BY <1>1, <2>1, <2>3, QuietKeepsRace DEF MainSteps
<1>5. CASE Waiting(c)
  <2>1. /\ main = <<"waiting", c>> /\ main' = <<"switch", c>>
        /\ m' = removeWaitingCall(m, c) /\ UNCHANGED <<ended, voip>>
    BY <1>5 DEF Waiting, MainStep
  <2>2. /\ Counted(m') /\ m'.waiting = m.waiting \ {c}
        /\ m'.account = m.account /\ m'.live = m.live
    BY <1>1, <2>1, RemoveWaitingCallCounts
  <2> QED
    BY <1>1, <2>1, <2>2, QuietKeepsRace DEF MainSteps
<1>6. CASE Switch(c)
  <2>1. /\ main = <<"switch", c>> /\ main' = <<"stream", c>>
        /\ m' = switchToCall(m, c) /\ UNCHANGED <<ended, voip>>
    BY <1>6 DEF Switch, MainStep
  <2>2. Counted(m') /\ SameCalls(m', m)
    BY <1>1, <2>1, SwitchToCallKeeps
  <2> QED
    BY <1>1, <2>1, <2>2, QuietKeepsRace DEF MainSteps, SameCalls
<1>7. CASE Stream(c)
  <2> DEFINE n == addStream(m, c)
  <2>1. /\ main = <<"stream", c>> /\ main' = Idle
        /\ m' = callStateChanged(n, c, "CURRENT") /\ UNCHANGED <<ended, voip>>
    BY <1>7 DEF Stream, MainStep
  <2>2. Counted(n) /\ SameCalls(n, m)
    BY <1>1, AddStreamKeeps
  <2> HIDE DEF n
  <2>3. Counted(m') /\ SameCalls(m', n)
    BY <2>1, <2>2, CallStateChangedKeeps DEF Answers
  <2> QED
    BY <1>1, <2>1, <2>2, <2>3, QuietKeepsRace DEF SameCalls
<1>8. CASE Refuse(c)
  <2>1. /\ main = Idle /\ main' = <<"lookup refuse", c>>
        /\ UNCHANGED <<m, ended, voip>>
    BY <1>8 DEF Refuse
  <2>2. Counted(m')
    BY <1>1, <2>1 DEF Counted
  <2> QED
    BY <1>1, <2>1, <2>2, QuietKeepsRace DEF Idle, MainSteps
<1>9. CASE LookupRefuse(c)
  <2>1. /\ main = <<"lookup refuse", c>>
        /\ main' \in {<<"refuse", c>>, <<"forget", c>>}
        /\ UNCHANGED <<m, ended, voip>>
    BY <1>9 DEF LookupRefuse, MainStep
  <2>2. main' \in MainSteps \X Calls
    <3>1. CASE main' = <<"refuse", c>>
      BY <3>1 DEF MainSteps
    <3>2. CASE main' = <<"forget", c>>
      BY <3>2 DEF MainSteps
    <3> QED
      BY <2>1, <3>1, <3>2
  <2>3. Counted(m')
    BY <1>1, <2>1 DEF Counted
  <2> QED
    BY <1>1, <2>1, <2>2, <2>3, QuietKeepsRace
<1>10. CASE EndSession(c)
  <2>1. /\ main = <<"refuse", c>>
        /\ main' \in {<<"remove", c>>, <<"forget", c>>}
        /\ UNCHANGED voip /\ ended' = ended \cup {c}
        /\ m' \in {m, abort(m)}
    BY <1>10 DEF EndSession, MainStep, Using
  <2>2. /\ Counted(m') /\ m'.waiting = m.waiting
        /\ m'.account = m.account /\ m'.live = m.live
    BY <1>1, <2>1, AbortKeeps
  <2>3. main' \in MainSteps \X Calls
    <3>1. CASE main' = <<"remove", c>>
      BY <3>1 DEF MainSteps
    <3>2. CASE main' = <<"forget", c>>
      BY <3>2 DEF MainSteps
    <3> QED
      BY <2>1, <3>1, <3>2
  <2> QED
    BY <1>1, <2>1, <2>2, <2>3, QuietKeepsRace
<1>11. CASE Refused(c)
  <2> DEFINE n1 == removeCall(m, c)
             n2 == removeWaitingCall(n1, c)
  <2>1. /\ main = <<"remove", c>> /\ main' = <<"forget", c>>
        /\ m' = callStateChanged(n2, c, "NONE") /\ UNCHANGED <<ended, voip>>
    BY <1>11 DEF Refused, MainStep
  <2>2. /\ Counted(n1) /\ n1.live = m.live \ {c}
        /\ n1.account = m.account /\ n1.waiting = m.waiting
    BY <1>1, RemoveCallKeeps
  <2> HIDE DEF n1
  <2>3. /\ Counted(n2) /\ n2.waiting = n1.waiting \ {c}
        /\ n2.account = n1.account /\ n2.live = n1.live
    BY <2>2, RemoveWaitingCallCounts
  <2> HIDE DEF n2
  <2>4. Counted(m') /\ SameCalls(m', n2)
    BY <2>1, <2>3, CallStateChangedKeeps DEF Answers
  <2>5. /\ m'.live = m.live \ {c} /\ m'.account = m.account
        /\ m'.waiting = m.waiting \ {c}
    BY <2>2, <2>3, <2>4 DEF SameCalls
  <2>6. TypeOK'
    BY <1>1, <2>1, <2>4 DEF RaceInv, TypeOK, Counted, MainSteps
  <2>7. AccountInHand' /\ WaitingInHand' /\ ToldIsGone'
    BY <2>1, <2>5 DEF RaceInv, AccountInHand, WaitingInHand, ToldIsGone
  <2> QED
    BY <2>4, <2>6, <2>7 DEF RaceInv
<1>12. CASE Forget(c)
  <2>1. /\ main = <<"forget", c>> /\ main' = <<"silence", c>>
        /\ m' = removeCallAccount(m, c) /\ UNCHANGED <<ended, voip>>
    BY <1>12 DEF Forget, MainStep
  <2>2. /\ Counted(m') /\ m'.waiting = m.waiting
        /\ m'.account = m.account \ {c} /\ m'.live = m.live
    BY <1>1, <2>1, RemoveCallAccountKeeps
  <2> QED
    BY <1>1, <2>1, <2>2, QuietKeepsRace DEF MainSteps
<1>13. CASE Silence(c)
  <2>1. /\ main = <<"silence", c>> /\ main' = Idle
        /\ m' = unBindAll(m, c) /\ UNCHANGED <<ended, voip>>
    BY <1>13 DEF Silence, MainStep, removeStream
  <2>2. Counted(m') /\ SameCalls(m', m)
    BY <1>1, <2>1, UnBindAllKeeps
  <2> QED
    BY <1>1, <2>1, <2>2, QuietKeepsRace DEF SameCalls
<1> QED
  BY <1>2, <1>3, <1>4, <1>5, <1>6, <1>7, <1>8, <1>9, <1>10, <1>11, <1>12, <1>13
     DEF MainNext

------------------------------------------------------------------------------
(***************************************************************************)
(* The theorems.                                                           *)
(***************************************************************************)

\* Every state reached satisfies the invariant.
THEOREM RaceInvariant == Spec => []RaceInv
<1>1. RaceInv /\ [Next]_vars => RaceInv'
  <2> SUFFICES ASSUME RaceInv, [Next]_vars
               PROVE  RaceInv'
    OBVIOUS
  <2>1. CASE Next
    <3>1. ~m.aborted
      BY <2>1 DEF Next
    <3>2. PICK c \in Calls : VoipNext(c) \/ MainNext(c)
      BY <2>1 DEF Next
    <3>3. CASE VoipNext(c)
      BY <3>1, <3>3, VoipKeepsRace
    <3>4. CASE MainNext(c)
      BY <3>1, <3>4, MainKeepsRace
    <3> QED
      BY <3>2, <3>3, <3>4
  <2>2. CASE UNCHANGED vars
    BY <2>2 DEF vars, RaceInv, TypeOK, Counted, AccountInHand, WaitingInHand,
       ToldIsGone
  <2> QED
    BY <2>1, <2>2
<1> QED
  BY <1>1, InitRace, PTL DEF Spec

\* The state stays well formed whatever the two threads do: in particular the
\* unsigned count of waiting calls never goes below zero.
THEOREM RaceTypeCorrect == Spec => []TypeOK
<1>1. RaceInv => TypeOK
  BY DEF RaceInv
<1> QED
  BY <1>1, RaceInvariant, PTL

\* The waiting calls are counted at all times, although both threads take the
\* same call off the list, and none is left waiting that the link has forgotten.
THEOREM WaitingIsSettled == Spec => []WaitingSettled
<1>1. RaceInv => WaitingSettled
  BY DEF RaceInv, Counted, WaitingInHand, WaitingSettled, AtRest, Idle
<1> QED
  BY <1>1, RaceInvariant, PTL

\* No account entry is left of a call that has gone, whichever thread was first
\* to end it.
THEOREM AccountsAreSettled == Spec => []AccountsSettled
<1>1. RaceInv => AccountsSettled
  BY DEF RaceInv, AccountInHand, AccountsSettled, AtRest, Idle
<1> QED
  BY <1>1, RaceInvariant, PTL
--------------------------------------------------------------------------------
(***************************************************************************)
(* What was answered is heard.                                             *)
(***************************************************************************)

\* No call is in a conference, and no Call object is left of a call that is gone.
NoConference ==
    /\ m.confs = {}
    /\ \A c \in Calls : /\ m.call[c].confId = None
                        /\ c \notin m.live => m.call[c] = NewCall

\* Answered, and not on hold.
Talks(c) == m.call[c].conn = "Connected" /\ m.call[c].state = "Active"

\* Where a thread is in answerCall with the call answered.
Answering(t, c) == t[2] = c /\ t[1] \in {"waiting", "switch", "stream"}
\* Where a thread is in refuseCall.
Refusing(t, c) ==
    t[2] = c /\ t[1] \in {"lookup refuse", "refuse", "remove", "forget", "silence"}

\* A call that talks has its stream, or the D-Bus thread is about to bind it, or
\* the SIP thread to remove the call.
StreamInHand ==
    \A c \in Calls : Talks(c) =>
        \/ {c, Default} \in m.bound
        \/ Answering(main, c)
        \/ voip = <<"release", c>>

\* A call that was answered is not shown as coming in any more, once answerCall
\* has finished: so nobody refuses it, which would end its stream.
AnsweredIsNotRefused ==
    \A c \in Calls : m.call[c].conn = "Connected" =>
        /\ m.shown[c] = "INCOMING" => Answering(main, c)
        /\ ~Refusing(main, c)

\* The invariant that makes AnsweredIsHeard inductive, on top of RaceInv.
HeardInv == NoConference /\ StreamInHand /\ AnsweredIsNotRefused

\* From n to k at most calls were put on hold.
Quieter(k, n) ==
    /\ k.confs = n.confs /\ k.live = n.live
    /\ \A c \in Calls : /\ k.call[c].confId = n.call[c].confId
                        /\ k.call[c].conn = n.call[c].conn
                        /\ c \notin n.live => k.call[c] = n.call[c]
                        /\ k.shown[c] \in {n.shown[c], "HOLD"}
                        /\ k.call[c].state = "Active" => n.call[c].state = "Active"
                        /\ \/ {c, Default} \in n.bound => {c, Default} \in k.bound
                           \/ k.call[c].state = "Hold" \/ c \notin n.live

\* onHoldCall is such a step.
LEMMA OnHoldQuieter ==
    ASSUME NEW n, Counted(n), NEW x \in Calls
    PROVE  Quieter(onHoldCall(n, x), n)
<1> DEFINE h == linkOnHold(n, x)
           s == unBindAll(h, x)
           w == removeWaitingCall(s, x)
           t == IF n.current = x THEN switchCall(w, None) ELSE w
           k == callStateChanged(t, x, "HOLD")
<1>1. /\ h \in ManagerStates /\ h.confs = n.confs /\ h.live = n.live
      /\ h.shown = n.shown /\ h.bound = n.bound
      /\ h.call = IF x \in n.live THEN [n.call EXCEPT ![x] = Held(n, x)] ELSE n.call
  <2>1. Counted(h)
    BY LinkOnHoldKeeps
  <2>2. n.call \in [Calls -> CallRecords] /\ n \in ManagerStates
    BY DEF Counted, ManagerStates, CallRecords
  <2> DEFINE q == [n.call EXCEPT ![x] = Held(n, x)]
  <2>3. h = IF x \in n.live THEN [n EXCEPT !.call = q] ELSE n
    BY <2>2 DEF linkOnHold, ManagerStates
  <2> HIDE DEF h, q
  <2>4. /\ h.confs = n.confs /\ h.live = n.live /\ h.shown = n.shown
        /\ h.bound = n.bound /\ h.call = IF x \in n.live THEN q ELSE n.call
    BY <2>2, <2>3 DEF ManagerStates
  <2> QED
    BY <2>1, <2>4 DEF Counted, q
<1> HIDE DEF h
<1>2. /\ s.confs = h.confs /\ s.live = h.live /\ s.call = h.call /\ s.shown = h.shown
      /\ s.bound = {b \in h.bound : x \notin b} /\ s \in ManagerStates
  BY <1>1 DEF unBindAll, ManagerStates
<1> HIDE DEF s
<1>3. /\ w.confs = s.confs /\ w.live = s.live /\ w.call = s.call /\ w.shown = s.shown
      /\ w.bound = s.bound
  BY <1>2 DEF removeWaitingCall, ManagerStates
<1> HIDE DEF w
<1>4. /\ t.confs = w.confs /\ t.live = w.live /\ t.call = w.call /\ t.shown = w.shown
      /\ t.bound = w.bound
  BY DEF switchCall
<1> HIDE DEF t
<1>5. /\ k.confs = t.confs /\ k.live = t.live /\ k.call = t.call
      /\ k.shown = [t.shown EXCEPT ![x] = "HOLD"] /\ k.bound = t.bound
  BY DEF callStateChanged
<1>6. onHoldCall(n, x) = IF x \notin n.account THEN n ELSE k
  BY DEF onHoldCall, removeStream, h, s, w, t
<1> HIDE DEF k
<1>7. n.call \in [Calls -> CallRecords] /\ n.shown \in [Calls -> Answers]
  BY DEF Counted, ManagerStates, CallRecords, Answers
<1>8. /\ k.confs = n.confs /\ k.live = n.live
      /\ k.call = IF x \in n.live THEN [n.call EXCEPT ![x] = Held(n, x)] ELSE n.call
      /\ k.shown = [n.shown EXCEPT ![x] = "HOLD"]
      /\ k.bound = {b \in n.bound : x \notin b}
  BY <1>1, <1>2, <1>3, <1>4, <1>5
<1>9. Quieter(k, n)
  <2>1. /\ Held(n, x).confId = n.call[x].confId
        /\ Held(n, x).conn = n.call[x].conn /\ Held(n, x).state = "Hold"
    BY <1>7, HeldFields
  <2> QED
    BY <1>7, <1>8, <2>1, NamesAssumption DEF Quieter, CallRecords
<1>10. Quieter(n, n)
  BY DEF Quieter
<1> QED
  BY <1>6, <1>9, <1>10

\* So is what answerCall does first.
LEMMA LeaveCurrentQuieter ==
    ASSUME NEW n, Counted(n), n.confs = {},
           \A d \in Calls : n.call[d].confId = None, NEW c \in Calls
    PROVE  Quieter(leaveCurrent(n, c), n)
<1>1. Quieter(n, n)
  BY DEF Quieter
<1>2. CASE leaveCurrent(n, c) = n
  BY <1>1, <1>2
<1>3. CASE leaveCurrent(n, c) # n
  <2>1. leaveCurrent(n, c) = onHoldCall(n, n.current)
    BY <1>3 DEF leaveCurrent, isConference
  <2>2. n.current \in n.account
    BY <1>3, <2>1 DEF onHoldCall
  <2>3. n.account \subseteq Calls
    BY DEF Counted, ManagerStates
  <2> QED
    BY <2>1, <2>2, <2>3, OnHoldQuieter
<1> QED
  BY <1>2, <1>3

\* Initially nobody talks.
LEMMA InitHeard == Init => HeardInv
<1> SUFFICES ASSUME Init PROVE HeardInv
  OBVIOUS
<1>1. /\ m.confs = {} /\ m.live = {} /\ \A c \in Calls : m.call[c] = NewCall
      /\ main = Idle
  BY DEF Init, Start
<1>2. \A c \in Calls : m.call[c].conn = "Disconnected" /\ m.call[c].confId = None
  BY <1>1 DEF NewCall
<1> QED
  BY <1>1, <1>2 DEF HeardInv, NoConference, StreamInHand, AnsweredIsNotRefused, Talks, Refusing, Idle

\* What HeardInv speaks of stays as it is.
SameTalk(k, n) ==
    /\ k.confs = n.confs /\ k.live = n.live /\ k.call = n.call
    /\ k.shown = n.shown /\ k.bound = n.bound

\* A step of the SIP thread keeps it.
LEMMA VoipKeepsHeard ==
    ASSUME RaceInv, HeardInv, NEW c \in Calls, VoipNext(c)
    PROVE  HeardInv'
<1>1. /\ m \in ManagerStates /\ m.call \in [Calls -> CallRecords]
      /\ m.shown \in [Calls -> Answers]
  BY DEF RaceInv, TypeOK, ManagerStates, CallRecords, Answers
<1>2. CASE Announce(c)
  <2>1. /\ c \notin m.live /\ voip = Idle /\ voip' = <<"add", c>> /\ main' = main
        /\ m' = callStateChanged(
                   addWaitingCall([m EXCEPT !.account = @ \cup {c}], c), c, "INCOMING")
    BY <1>2 DEF Announce
  <2>2. /\ m'.confs = m.confs /\ m'.live = m.live /\ m'.call = m.call
        /\ m'.bound = m.bound /\ m'.shown = [m.shown EXCEPT ![c] = "INCOMING"]
    BY <1>1, <2>1 DEF callStateChanged, addWaitingCall, ManagerStates
  <2>3. m.call[c].conn = "Disconnected"
    BY <2>1 DEF HeardInv, NoConference, NewCall
  <2> QED
    BY <1>1, <2>1, <2>2, <2>3
       DEF HeardInv, NoConference, StreamInHand, AnsweredIsNotRefused, Talks, Idle
<1>3. CASE Add(c)
  <2> DEFINE r == [NewCall EXCEPT !.conn = "Ringing", !.invite = "received"]
  <2>1. voip' = Idle /\ voip = <<"add", c>> /\ main' = main /\ m' = addCall(m, c, r)
    BY <1>3 DEF Add, VoipStep
  <2>2. r.conn = "Ringing" /\ r.confId = None
    BY DEF NewCall
  <2> HIDE DEF r
  <2>3. /\ m'.confs = m.confs /\ m'.live = m.live \cup {c}
        /\ m'.call = [m.call EXCEPT ![c] = r]
        /\ m'.bound = m.bound /\ m'.shown = m.shown
    BY <1>1, <2>1 DEF addCall, ManagerStates
  <2> QED
    BY <1>1, <2>1, <2>2, <2>3
       DEF HeardInv, NoConference, StreamInHand, AnsweredIsNotRefused, Talks, Idle
<1>4. CASE PeerCloses(c)
  <2>1. /\ voip = Idle /\ voip' = <<"peer hung up", c>> /\ main' = main
        /\ m' \in {m, switchCall(m, None)}
    BY <1>4 DEF PeerCloses
  <2>2. SameTalk(m', m)
    BY <1>1, <2>1 DEF SameTalk, switchCall, ManagerStates
  <2> QED
    BY <2>1, <2>2
       DEF SameTalk, HeardInv, NoConference, StreamInHand, AnsweredIsNotRefused, Talks, Idle
<1>5. CASE Closed(c)
  <2>1. /\ voip = <<"peer hung up", c>> /\ voip' = <<"closed", c>> /\ main' = main
    BY <1>5 DEF Closed, VoipStep
  <2>2. /\ m'.confs = m.confs /\ m'.live = m.live /\ m'.call = m.call
        /\ m'.bound = m.bound /\ m'.shown \in {m.shown, [m.shown EXCEPT ![c] = "NONE"]}
    BY <1>1, <1>5 DEF Closed, abort, removeCallAccount, removeWaitingCall,
                      callStateChanged, ManagerStates
  <2>3. \A d \in Calls : m'.shown[d] = "INCOMING" => m.shown[d] = "INCOMING"
    BY <1>1, <2>2
  <2> QED
    BY <2>1, <2>2, <2>3
       DEF HeardInv, NoConference, StreamInHand, AnsweredIsNotRefused, Talks
<1>6. CASE Unbound(c)
  <2>1. /\ voip = <<"closed", c>> /\ voip' = <<"release", c>> /\ main' = main
        /\ m' = unBindAll(m, c)
    BY <1>6 DEF Unbound, VoipStep, removeStream
  <2>2. /\ m'.confs = m.confs /\ m'.live = m.live /\ m'.call = m.call
        /\ m'.bound = {b \in m.bound : c \notin b} /\ m'.shown = m.shown
    BY <1>1, <2>1 DEF unBindAll, ManagerStates
  <2>3. \A d \in Calls \ {c} : {d, Default} \in m.bound => {d, Default} \in m'.bound
    BY <2>2, NamesAssumption
  <2> QED
    BY <2>1, <2>2, <2>3
       DEF HeardInv, NoConference, StreamInHand, AnsweredIsNotRefused, Talks
<1>7. CASE Release(c)
  <2>1. /\ voip = <<"release", c>> /\ voip' = Idle /\ main' = main
        /\ m' = removeCall(m, c)
    BY <1>7 DEF Release, VoipStep
  <2>2. /\ m'.confs = m.confs /\ m'.live = m.live \ {c}
        /\ m'.call = [m.call EXCEPT ![c] = NewCall]
        /\ m'.bound = m.bound /\ m'.shown = m.shown
    BY <1>1, <2>1 DEF removeCall, ManagerStates
  <2>3. NewCall.conn = "Disconnected" /\ NewCall.confId = None
    BY DEF NewCall
  <2> QED
    BY <1>1, <2>1, <2>2, <2>3
       DEF HeardInv, NoConference, StreamInHand, AnsweredIsNotRefused, Talks, Idle
<1> QED
  BY <1>2, <1>3, <1>4, <1>5, <1>6, <1>7 DEF VoipNext

\* A step of the D-Bus thread that changes nothing it speaks of keeps it, unless it
\* ends answerCall or begins refuseCall.
LEMMA SameTalkKeepsHeard ==
    ASSUME HeardInv, SameTalk(m', m), UNCHANGED voip,
           \A d \in Calls : /\ Answering(main, d) => Answering(main', d)
                            /\ Refusing(main', d) => Refusing(main, d)
    PROVE  HeardInv'
<1>1. NoConference'
  BY DEF SameTalk, HeardInv, NoConference
<1>2. StreamInHand'
  BY DEF SameTalk, HeardInv, StreamInHand, Talks
<1>3. AnsweredIsNotRefused'
  BY DEF SameTalk, HeardInv, AnsweredIsNotRefused
<1> QED
  BY <1>1, <1>2, <1>3 DEF HeardInv

\* A step of the D-Bus thread keeps it.
LEMMA MainKeepsHeard ==
    ASSUME RaceInv, HeardInv, NEW c \in Calls, MainNext(c)
    PROVE  HeardInv'
<1>1. /\ Counted(m) /\ m \in ManagerStates /\ m.call \in [Calls -> CallRecords]
      /\ m.shown \in [Calls -> Answers]
  BY DEF RaceInv, Counted, ManagerStates, CallRecords, Answers
<1>2. CASE Accept(c)
  <2>1. /\ main = Idle /\ main' = <<"lookup answer", c>>
        /\ m' = leaveCurrent(m, c) /\ voip' = voip
    BY <1>2 DEF Accept
  <2>2. Quieter(m', m)
    BY <1>1, <2>1, LeaveCurrentQuieter DEF HeardInv, NoConference
  <2>3. \A d \in Calls : ~Answering(main, d) /\ ~Refusing(main', d)
    BY <2>1 DEF Answering, Refusing, Idle
  <2>4. NoConference'
    BY <2>2 DEF HeardInv, NoConference, Quieter
  <2>5. AnsweredIsNotRefused'
    <3>1. \A d \in Calls : /\ m'.call[d].conn = m.call[d].conn
                           /\ m'.shown[d] = "INCOMING" => m.shown[d] = "INCOMING"
      BY <2>2 DEF Quieter
    <3> QED
      BY <2>3, <3>1 DEF HeardInv, AnsweredIsNotRefused
  <2>6. ASSUME NEW d \in Calls, m'.call[d].conn = "Connected", m'.call[d].state = "Active"
        PROVE  {d, Default} \in m'.bound \/ voip' = <<"release", d>>
    <3>1. Talks(d)
      BY <2>2, <2>6 DEF Quieter, Talks
    <3>2. d \in m.live
      BY <3>1 DEF HeardInv, NoConference, Talks, NewCall
    <3> QED
      BY <2>1, <2>2, <2>3, <2>6, <3>1, <3>2 DEF Quieter, HeardInv, StreamInHand
  <2> QED
    BY <2>4, <2>5, <2>6 DEF HeardInv, StreamInHand, Talks
<1>3. CASE LookupAnswer(c)
  <2>1. /\ main = <<"lookup answer", c>> /\ m' = m /\ voip' = voip
        /\ main' = <<"answer", c>> \/ main' = <<"waiting", c>>
    BY <1>3 DEF LookupAnswer, MainStep
  <2>2. \A d \in Calls : ~Answering(main, d) /\ ~Refusing(main', d)
    <3>1. CASE main' = <<"answer", c>>
      BY <2>1, <3>1 DEF Answering, Refusing
    <3>2. CASE main' = <<"waiting", c>>
      BY <2>1, <3>2 DEF Answering, Refusing
    <3> QED
      BY <2>1, <3>1, <3>2
  <2> QED
    BY <2>1, <2>2, SameTalkKeepsHeard DEF SameTalk
<1>4. CASE Answer(c)
  <2>1. /\ main = <<"answer", c>> /\ main' = <<"waiting", c>> /\ voip' = voip
        /\ \/ m' \in {m, abort(m)}
           \/ c \in m.live /\ m' = linkAnswer(m, c)
    BY <1>4 DEF Answer, MainStep, Using
  <2>2. \A d \in Calls : ~Answering(main, d) /\ ~Refusing(main', d)
    BY <2>1 DEF Answering, Refusing
  <2>3. Answering(main', c)
    BY <2>1 DEF Answering
  <2>4. CASE SameTalk(m', m)
    BY <2>1, <2>2, <2>4, SameTalkKeepsHeard
  <2>5. CASE ~SameTalk(m', m)
    <3>1. m' # m /\ m' # abort(m)
      <4>1. SameTalk(m, m) /\ SameTalk(abort(m), m)
        BY <1>1 DEF SameTalk, abort, ManagerStates
      <4> QED
        BY <2>5, <4>1
    <3> DEFINE q == [m.call EXCEPT ![c] = [@ EXCEPT !.conn = "Connected", !.state = "Active"]]
    <3>2. c \in m.live /\ m' = [m EXCEPT !.call = q]
      <4>1. linkAnswer(m, c) \in {m, [m EXCEPT !.call = q]}
        BY DEF linkAnswer
      <4> HIDE DEF q
      <4> QED
        BY <2>1, <3>1, <4>1
    <3>3. q[c].confId = m.call[c].confId /\ \A d \in Calls \ {c} : q[d] = m.call[d]
      BY <1>1 DEF CallRecords
    <3> HIDE DEF q
    <3>4. /\ m'.confs = m.confs /\ m'.live = m.live /\ m'.call = q
          /\ m'.bound = m.bound /\ m'.shown = m.shown
      BY <1>1, <3>2 DEF ManagerStates
    <3>5. NoConference'
      BY <3>2, <3>3, <3>4 DEF HeardInv, NoConference
    <3>6. StreamInHand'
      BY <2>1, <2>2, <2>3, <3>3, <3>4 DEF HeardInv, StreamInHand, Talks
    <3>7. AnsweredIsNotRefused'
      BY <2>2, <2>3, <3>3, <3>4 DEF HeardInv, AnsweredIsNotRefused
    <3> QED
      BY <3>5, <3>6, <3>7 DEF HeardInv
  <2> QED
    BY <2>4, <2>5
<1>5. CASE Waiting(c)
  <2>1. /\ main = <<"waiting", c>> /\ main' = <<"switch", c>> /\ voip' = voip
        /\ m' = removeWaitingCall(m, c)
    BY <1>5 DEF Waiting, MainStep
  <2>2. SameTalk(m', m)
    BY <1>1, <2>1 DEF SameTalk, removeWaitingCall, ManagerStates
  <2>3. \A d \in Calls : (Answering(main, d) => Answering(main', d)) /\ ~Refusing(main', d)
    BY <2>1 DEF Answering, Refusing
  <2> QED
    BY <2>1, <2>2, <2>3, SameTalkKeepsHeard
<1>6. CASE Switch(c)
  <2>1. /\ main = <<"switch", c>> /\ main' = <<"stream", c>> /\ voip' = voip
        /\ m' = switchToCall(m, c)
    BY <1>6 DEF Switch, MainStep
  <2>2. SameTalk(m', m)
    BY <1>1, <2>1 DEF SameTalk, switchToCall, switchCall, ManagerStates
  <2>3. \A d \in Calls : (Answering(main, d) => Answering(main', d)) /\ ~Refusing(main', d)
    BY <2>1 DEF Answering, Refusing
  <2> QED
    BY <2>1, <2>2, <2>3, SameTalkKeepsHeard
<1>7. CASE Stream(c)
  <2>1. /\ main = <<"stream", c>> /\ main' = Idle /\ voip' = voip
        /\ m' = callStateChanged(addStream(m, c), c, "CURRENT")
    BY <1>7 DEF Stream, MainStep
  <2>2. addStream(m, c) = bindCallID(m, c, Default)
    BY DEF addStream, participToConference, HeardInv, NoConference
  <2>3. /\ m'.confs = m.confs /\ m'.live = m.live /\ m'.call = m.call
        /\ m'.bound = m.bound \cup {{c, Default}}
        /\ m'.shown = [m.shown EXCEPT ![c] = "CURRENT"]
    BY <1>1, <2>1, <2>2 DEF callStateChanged, bindCallID, ManagerStates
  <2>4. \A d \in Calls : (Answering(main, d) => d = c) /\ ~Refusing(main', d)
    BY <2>1 DEF Answering, Refusing, Idle
  <2>5. m'.shown[c] = "CURRENT" /\ \A d \in Calls \ {c} : m'.shown[d] = m.shown[d]
    BY <1>1, <2>3
  <2>6. NoConference'
    BY <2>3 DEF HeardInv, NoConference
  <2>7. StreamInHand'
    BY <2>1, <2>3, <2>4 DEF HeardInv, StreamInHand, Talks
  <2>8. AnsweredIsNotRefused'
    BY <2>3, <2>4, <2>5 DEF HeardInv, AnsweredIsNotRefused
  <2> QED
    BY <2>6, <2>7, <2>8 DEF HeardInv
<1>8. CASE Refuse(c)
  <2>1. /\ main = Idle /\ main' = <<"lookup refuse", c>> /\ voip' = voip
        /\ m' = m /\ m.shown[c] = "INCOMING"
    BY <1>8 DEF Refuse
  <2>2. \A d \in Calls : ~Answering(main, d) /\ (Refusing(main', d) => d = c)
    BY <2>1 DEF Answering, Refusing, Idle
  <2>3. m.call[c].conn # "Connected"
    BY <2>1, <2>2 DEF HeardInv, AnsweredIsNotRefused
  <2> QED
    BY <2>1, <2>2, <2>3
       DEF HeardInv, NoConference, StreamInHand, AnsweredIsNotRefused, Talks
<1>9. CASE LookupRefuse(c) \/ EndSession(c) \/ Forget(c)
  <2>1. /\ \/ main = <<"lookup refuse", c>> \/ main = <<"refuse", c>>
           \/ main = <<"forget", c>>
        /\ \/ main' = <<"refuse", c>> \/ main' = <<"remove", c>>
           \/ main' = <<"forget", c>> \/ main' = <<"silence", c>>
        /\ voip' = voip /\ m' \in {m, abort(m), removeCallAccount(m, c)}
    BY <1>9 DEF LookupRefuse, EndSession, Forget, MainStep, Using
  <2>2. SameTalk(m', m)
    BY <1>1, <2>1 DEF SameTalk, abort, removeCallAccount, ManagerStates
  <2>3. /\ main[1] \in {"lookup refuse", "refuse", "forget"} /\ main[2] = c
        /\ main'[2] = c
    <3>1. \A s : <<s, c>>[1] = s /\ <<s, c>>[2] = c
      OBVIOUS
    <3>2. main[1] \in {"lookup refuse", "refuse", "forget"} /\ main[2] = c
      BY <2>1, <3>1
    <3>3. main'[2] = c
      BY <2>1, <3>1
    <3> QED
      BY <3>2, <3>3
  <2>4. \A d \in Calls : ~Answering(main, d) /\ (Refusing(main', d) => d = c)
    BY <2>3 DEF Answering, Refusing
  <2>5. Refusing(main, c)
    BY <2>3 DEF Refusing
  <2> QED
    BY <2>1, <2>2, <2>4, <2>5, SameTalkKeepsHeard
<1>10. CASE Refused(c)
  <2>1. /\ main = <<"remove", c>> /\ main' = <<"forget", c>> /\ voip' = voip
        /\ m' = callStateChanged(removeWaitingCall(removeCall(m, c), c), c, "NONE")
    BY <1>10 DEF Refused, MainStep
  <2>2. /\ m'.confs = m.confs /\ m'.live = m.live \ {c}
        /\ m'.call = [m.call EXCEPT ![c] = NewCall]
        /\ m'.bound = m.bound /\ m'.shown = [m.shown EXCEPT ![c] = "NONE"]
    BY <1>1, <2>1 DEF callStateChanged, removeWaitingCall, removeCall, ManagerStates
  <2>3. NewCall.conn = "Disconnected" /\ NewCall.confId = None
    BY DEF NewCall
  <2>4. \A d \in Calls : ~Answering(main, d) /\ (Refusing(main', d) => d = c)
    BY <2>1 DEF Answering, Refusing
  <2>5. m'.call[c] = NewCall /\ \A d \in Calls \ {c} : m'.call[d] = m.call[d]
    BY <1>1, <2>2
  <2>6. NoConference'
    BY <2>2, <2>3, <2>5 DEF HeardInv, NoConference
  <2>7. StreamInHand'
    BY <2>1, <2>2, <2>3, <2>4, <2>5 DEF HeardInv, StreamInHand, Talks
  <2>8. AnsweredIsNotRefused'
    <3>1. m'.shown \in [Calls -> Answers] /\ \A d \in Calls \ {c} : m'.shown[d] = m.shown[d]
      BY <1>1, <2>2 DEF Answers
    <3> QED
      BY <2>3, <2>4, <2>5, <3>1 DEF HeardInv, AnsweredIsNotRefused
  <2> QED
    BY <2>6, <2>7, <2>8 DEF HeardInv
<1>11. CASE Silence(c)
  <2>1. /\ main = <<"silence", c>> /\ main' = Idle /\ voip' = voip
        /\ m' = unBindAll(m, c)
    BY <1>11 DEF Silence, MainStep, removeStream
  <2>2. /\ m'.confs = m.confs /\ m'.live = m.live /\ m'.call = m.call
        /\ m'.bound = {b \in m.bound : c \notin b} /\ m'.shown = m.shown
    BY <1>1, <2>1 DEF unBindAll, ManagerStates
  <2>3. \A d \in Calls \ {c} : {d, Default} \in m.bound => {d, Default} \in m'.bound
    BY <2>2, NamesAssumption
  <2>4. \A d \in Calls : ~Answering(main, d) /\ ~Refusing(main', d)
    BY <2>1 DEF Answering, Refusing, Idle
  <2>5. Refusing(main, c)
    BY <2>1 DEF Refusing
  <2>6. m.call[c].conn # "Connected"
    BY <2>5 DEF HeardInv, AnsweredIsNotRefused
  <2> QED
    BY <2>1, <2>2, <2>3, <2>4, <2>6
       DEF HeardInv, NoConference, StreamInHand, AnsweredIsNotRefused, Talks
<1> QED
  BY <1>2, <1>3, <1>4, <1>5, <1>6, <1>7, <1>8, <1>9, <1>10, <1>11 DEF MainNext

\* A call that was answered in time has its stream to the user when both threads
\* have finished, whatever they did meanwhile to it or to other calls.
THEOREM AnsweredAreHeard == Spec => []AnsweredIsHeard
<1>1. RaceInv /\ HeardInv /\ [Next]_vars => HeardInv'
  <2>1. ASSUME RaceInv, HeardInv, Next
        PROVE  HeardInv'
    BY <2>1, VoipKeepsHeard, MainKeepsHeard DEF Next
  <2>2. ASSUME HeardInv, UNCHANGED vars
        PROVE  HeardInv'
    BY <2>2 DEF vars, HeardInv, NoConference, StreamInHand, AnsweredIsNotRefused, Talks
  <2> QED
    BY <2>1, <2>2
<1>2. RaceInv /\ HeardInv => AnsweredIsHeard
  <2>1. ASSUME HeardInv, AtRest, NEW c \in Calls, Talks(c)
        PROVE  {c, Default} \in m.bound
    <3>1. ~Answering(main, c) /\ voip # <<"release", c>>
      BY <2>1 DEF AtRest, Answering, Idle
    <3> QED
      BY <2>1, <3>1 DEF HeardInv, StreamInHand
  <2>2. RaceInv => m.live \subseteq Calls
    BY DEF RaceInv, Counted, ManagerStates
  <2> QED
    BY <2>1, <2>2 DEF AnsweredIsHeard, Talks
<1> QED
  BY <1>1, <1>2, InitHeard, RaceInvariant, PTL DEF Spec

================================================================================
