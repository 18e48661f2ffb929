------------------------------ MODULE CallControl ------------------------------
(***************************************************************************)
(* The call and conference control of the daemon: the handlers of class    *)
(* ManagerImpl (src/daemon/src/managerimpl.cpp), of Conference and of the  *)
(* SIP link as operators on the daemon's state.  CallManager and           *)
(* AnswerRace make the state machines from them.                           *)
(*                                                                         *)
(* The state is a record m, with                                           *)
(*    current    _currentCallId2: a call, a conference or None             *)
(*    account    the keys of _callAccountMap                               *)
(*    live       the keys of the link's _callMap                           *)
(*    call       the Call objects                                          *)
(*    confs      the keys of _conferencemap                                *)
(*    conf       the Conference objects                                    *)
(*    waiting, nbWaiting   _waitingCall and _nbIncomingWaitingCall         *)
(*    bound      the pairs of streams bound in the MainBuffer, as module   *)
(*               BindingGraph describes them                               *)
(*    shown      the state of each call last signalled on D-Bus            *)
(*    cutOff     the calls whose peer no message can be sent to            *)
(*    aborted    the process died: a null Call was used, or an exception   *)
(*               left the handler                                          *)
(* Every call belongs to a registered SIP account; direct IP to IP calls   *)
(* keep no entry in _callAccountMap and are not modelled.                  *)
(***************************************************************************)
EXTENDS Integers, FiniteSets, SequencesExt

CONSTANTS Calls,     \* call ids, ordered as the daemon's sets of ids are
          Confs,     \* conference ids
          Default,   \* default_id, the stream of the audio layer
          None       \* the empty id

ASSUME CallsAssumption == Calls \subseteq Nat /\ IsFiniteSet(Calls)
ASSUME ConfsAssumption == IsFiniteSet(Confs) /\ Confs \cap Calls = {}
ASSUME NamesAssumption ==
    /\ Default \notin Calls \cup Confs
    /\ None \notin Calls \cup Confs \cup {Default}

\* invite is invite_tsx of the call's pjsip session: the INVITE that came in with
\* the call, from its arrival to the ACK; another, of either side; or none.
NewCall == [state |-> "Inactive", conn |-> "Disconnected",
            type |-> "Incoming", confId |-> None, invite |-> "none"]

NewConference == [parts |-> {}, nb |-> 0, state |-> "ACTIVE_ATTACHED"]

Start == [current |-> None, account |-> {}, live |-> {},
          call |-> [c \in Calls |-> NewCall],
          confs |-> {}, conf |-> [f \in Confs |-> NewConference],
          waiting |-> {}, nbWaiting |-> 0, bound |-> {},
          shown |-> [c \in Calls |-> "NONE"], cutOff |-> {}, aborted |-> FALSE]

ManagerStates ==
    [current : Calls \cup Confs \cup {None}, account : SUBSET Calls,
     live : SUBSET Calls,
     call : [Calls -> [state : {"Inactive", "Active", "Hold"},
                       conn : {"Disconnected", "Progressing", "Ringing",
                               "Connected"},
                       type : {"Incoming", "Outgoing"},
                       confId : Confs \cup {None},
                       invite : {"none", "received", "other"}]],
     confs : SUBSET Confs,
     conf : [Confs -> [parts : SUBSET Calls, nb : Int,
                       state : {"ACTIVE_ATTACHED", "ACTIVE_DETACHED", "HOLD"}]],
     waiting : SUBSET Calls, nbWaiting : Nat,
     bound : SUBSET SUBSET (Calls \cup {Default}),
     shown : [Calls -> {"NONE", "DIALING", "RINGING", "INCOMING", "CURRENT",
                        "HOLD", "FAILURE"}],
     cutOff : SUBSET Calls, aborted : BOOLEAN]

------------------------------------------------------------------------------
(***************************************************************************)
(* The small helpers.                                                      *)
(***************************************************************************)

switchCall(m, id) == [m EXCEPT !.current = id]
hasCurrentCall(m) == m.current # None
isConference(m, id) == id \in m.confs

participToConference(m, c) == c \in m.live /\ m.call[c].confId # None

\* The signal of that name, by what it does to its receiver: `shown' is the state
\* that a client keeps of the call.
callStateChanged(m, c, s) == [m EXCEPT !.shown[c] = s]
removeCallAccount(m, c) == [m EXCEPT !.account = @ \ {c}]
abort(m) == [m EXCEPT !.aborted = TRUE]

addWaitingCall(m, c) ==
    [m EXCEPT !.waiting = @ \cup {c}, !.nbWaiting = @ + 1]

\* Mutant: the counter goes down although the call was not waiting.
removeWaitingCallAlways(m, c) ==
    [m EXCEPT !.waiting = @ \ {c}, !.nbWaiting = @ - 1]

removeWaitingCall(m, c) ==
    [m EXCEPT !.waiting = @ \ {c},
              !.nbWaiting = IF c \in m.waiting THEN @ - 1 ELSE @]

bindCallID(m, x, y) == [m EXCEPT !.bound = @ \cup {{x, y}}]
unBindAll(m, x) == [m EXCEPT !.bound = {b \in @ : x \notin b}]

\* Mutant: only the audio layer loses the stream, its conference keeps it.
removeStreamFromUser(m, c) == [m EXCEPT !.bound = @ \ {{c, Default}}]

removeStream(m, c) == unBindAll(m, c)

\* CALL_STATE of getCallDetails.  The Active case of getStateStr has no break
\* and falls through to Hold.
getStateStr(m, c) ==
    IF c \notin m.live THEN "UNKNOWN"
    ELSE IF m.call[c].state \in {"Active", "Hold"} THEN "HOLD"
    ELSE CASE m.call[c].conn = "Ringing" ->
                 IF m.call[c].type = "Incoming" THEN "INCOMING" ELSE "RINGING"
           [] m.call[c].conn = "Connected" -> "CURRENT"
           [] OTHER -> "INACTIVE"

\* A loop over a set of ids, in the order of std::set.
ForEach(op(_, _), m, ids) ==
    MapThenFoldSet(LAMBDA c, n : op(n, c), m, LAMBDA c : c, Max, ids)

------------------------------------------------------------------------------
(***************************************************************************)
(* The SIP link.                                                           *)
(***************************************************************************)

addCall(m, c, newCall) ==
    [m EXCEPT !.live = @ \cup {c}, !.call[c] = newCall]

removeCall(m, c) == [m EXCEPT !.live = @ \ {c}, !.call[c] = NewCall]

\* A re-INVITE is sent in an established dialog where no INVITE is pending.
Reinvited(m, c) ==
    /\ m.call[c].conn = "Connected" /\ m.call[c].invite = "none"
    /\ c \notin m.cutOff

\* The state changes before the re-INVITE is tried: without it the call is held too.
Held(m, c) ==
    [m.call[c] EXCEPT !.state = "Hold",
                      !.invite = IF Reinvited(m, c) THEN "other" ELSE @]

linkOnHold(m, c) ==
    IF c \in m.live THEN [m EXCEPT !.call[c] = Held(m, c)] ELSE m

\* Here it changes after: a resume that is refused leaves the call on hold.
linkOffHold(m, c) ==
    IF c \in m.live /\ Reinvited(m, c)
    THEN [m EXCEPT !.call[c] = [@ EXCEPT !.state = "Active", !.invite = "other"]]
    ELSE m

\* Only the INVITE that came in with the call can be answered.
linkAnswer(m, c) ==
    IF c \in m.live /\ m.call[c].invite = "received" /\ c \notin m.cutOff
    THEN [m EXCEPT !.call[c] = [@ EXCEPT !.conn = "Connected", !.state = "Active"]]
    ELSE m

\* The CANCEL of an INVITE without any response yet is delayed, the call stays;
\* so it does when the message cannot be sent.
linkHangup(m, c) ==
    IF c \notin m.live THEN abort(m)
    ELSE IF m.call[c].conn = "Progressing" \/ c \in m.cutOff THEN m
    ELSE removeCall(m, c)

\* An outgoing or answered call is not refused.
Refusable(m, c) ==
    /\ c \in m.live
    /\ m.call[c].type = "Incoming"
    /\ m.call[c].conn # "Connected"
    /\ c \notin m.cutOff

------------------------------------------------------------------------------
(***************************************************************************)
(* Streams and holding.                                                    *)
(***************************************************************************)

\* Mutant: a new participant is bound to the audio layer only.
bindParticipantToDefault(m, f, c) == bindCallID(m, c, Default)

bindParticipant(m, f, c) ==
    LET peers == IF m.conf[f].nb >= 1 THEN m.conf[f].parts \ {c} ELSE {}
    IN  [m EXCEPT !.bound = @ \cup {{c, x} : x \in peers \cup {Default}}]

addStream(m, c) ==
    IF ~participToConference(m, c) THEN bindCallID(m, c, Default)
    ELSE IF m.call[c].confId \in m.confs
         THEN bindParticipant(m, m.call[c].confId, c)
         ELSE m

\* Mutant: the streams of a call put on hold stay bound.
onHoldCallKeepStream(m, c) ==
    IF c \notin m.account THEN m
    ELSE LET m1 == removeWaitingCall(linkOnHold(m, c), c)
             m2 == IF m.current = c THEN switchCall(m1, None) ELSE m1
         IN  callStateChanged(m2, c, "HOLD")

onHoldCall(m, c) ==
    IF c \notin m.account THEN m
    ELSE LET m1 == removeWaitingCall(removeStream(linkOnHold(m, c), c), c)
             m2 == IF m.current = c THEN switchCall(m1, None) ELSE m1
         IN  callStateChanged(m2, c, "HOLD")

\* detachParticipant(default_id, ...): the user leaves the conference.
detachMainParticipant(m) ==
    LET m1 == unBindAll(m, Default)
    IN  IF ~isConference(m1, m1.current) THEN m1
        ELSE LET left == [m1 EXCEPT !.conf[m1.current].state =
                             IF @ = "ACTIVE_ATTACHED" THEN "ACTIVE_DETACHED"
                             ELSE @]
             IN  switchCall(left, None)

\* "in any cases we have to detach from current communication": what
\* outgoingCall, answerCall and offHoldCall of call c do first.
leaveCurrent(m, c) ==
    IF ~hasCurrentCall(m) THEN m
    ELSE IF isConference(m, m.current)
    THEN IF participToConference(m, c) THEN m ELSE detachMainParticipant(m)
    ELSE IF participToConference(m, m.current) THEN m
    ELSE onHoldCall(m, m.current)

switchToCall(m, c) ==
    switchCall(m, IF participToConference(m, c) THEN m.call[c].confId ELSE c)

offHoldCall(m, c) ==
    LET m1 == leaveCurrent(m, c)
        m2 == callStateChanged(linkOffHold(m1, c), c, "CURRENT")
    IN  IF c \notin m1.live THEN abort(m1)
        ELSE addStream(switchToCall(m2, c), c)

answerCall(m, c) ==
    LET m1 == removeWaitingCall(linkAnswer(leaveCurrent(m, c), c), c)
    IN  callStateChanged(addStream(switchToCall(m1, c), c), c, "CURRENT")

------------------------------------------------------------------------------
(***************************************************************************)
(* Conferences.                                                            *)
(***************************************************************************)

\* Conference::add and remove: the count follows every call of them.
confAdd(m, f, c) ==
    [m EXCEPT !.conf[f].parts = @ \cup {c}, !.conf[f].nb = @ + 1]

confRemove(m, f, c) ==
    [m EXCEPT !.conf[f].parts = @ \ {c}, !.conf[f].nb = @ - 1]

\* Mutant: the call that leaves keeps the conference's id.
removeParticipantKeepId(m, c) ==
    LET f == m.call[c].confId
    IN  IF f \notin m.confs THEN m
        ELSE removeStream(confRemove(m, f, c), c)

removeParticipant(m, c) ==
    LET f == m.call[c].confId
    IN  IF f \notin m.confs THEN m
        ELSE removeStream([confRemove(m, f, c) EXCEPT !.call[c].confId = None], c)

FirstOf(parts) == CHOOSE c \in parts : \A d \in parts : c <= d

\* Mutant: the conference itself is bound instead of its last participant.
removeConferenceBindsItself(m, f) ==
    IF f \notin m.confs THEN m
    ELSE [bindCallID(unBindAll(m, Default), f, Default)
             EXCEPT !.confs = @ \ {f}, !.conf[f] = NewConference]

removeConference(m, f) ==
    LET m1 == unBindAll(m, Default)
        m2 == IF m.conf[f].parts = {} THEN m1
              ELSE bindCallID(m1, FirstOf(m.conf[f].parts), Default)
    IN  IF f \notin m.confs THEN m
        ELSE [m2 EXCEPT !.confs = @ \ {f}, !.conf[f] = NewConference]

\* Mutant: the last participant still carries the conference's id.
releaseLastKeepId(m, id, f) ==
    LET p == FirstOf(m.conf[f].parts)
    IN  IF m.conf[f].parts = {} THEN m
        ELSE IF id = f THEN switchCall(m, p)
        ELSE onHoldCall(m, p)

\* The only participant left is a simple call again: the current one if its
\* conference was current, else on hold.
releaseLast(m, id, f) ==
    LET p == FirstOf(m.conf[f].parts)
        m1 == [m EXCEPT !.call[p].confId = None]
    IN  IF m.conf[f].parts = {} THEN m
        ELSE IF p \notin m.live THEN abort(m)
        ELSE IF id = f THEN switchCall(m1, p)
        ELSE onHoldCall(m1, p)

\* Mutant: the conference of a single participant stays.
processRemainingKeep(m, id, f) ==
    IF m.conf[f].nb > 0 THEN m
    ELSE switchCall(removeConference(m, f), None)

processRemainingParticipant(m, id, f) ==
    IF m.conf[f].nb > 1 THEN m
    ELSE IF m.conf[f].nb = 1
    THEN removeConference(releaseLast(m, id, f), f)
    ELSE switchCall(removeConference(m, f), None)

\* removeParticipant, then processRemainingParticipant, of a participant that
\* goes while id is the current one.
leaveConference(m, c, id) ==
    LET f == m.call[c].confId
    IN  IF f \notin m.confs THEN m
        ELSE processRemainingParticipant(removeParticipant(m, c), id, f)

detachParticipant(m, c) ==
    IF c \notin m.live \/ m.call[c].confId \notin m.confs THEN m
    ELSE IF getStateStr(m, c) = "RINGING" THEN removeParticipant(m, c)
    ELSE leaveConference(onHoldCall(m, c), c, m.current)

addMainParticipant(m, f) ==
    LET m1 == IF isConference(m, m.current) THEN detachMainParticipant(m)
              ELSE IF hasCurrentCall(m) THEN onHoldCall(m, m.current)
              ELSE m
        bind == {{p, Default} : p \in m1.conf[f].parts}
        m2 == IF f \notin m1.confs THEN m1
              ELSE [m1 EXCEPT !.bound = @ \cup bind,
                              !.conf[f].state = IF @ = "ACTIVE_DETACHED"
                                                THEN "ACTIVE_ATTACHED" ELSE @]
    IN  switchCall(m2, f)

\* What joinParticipant and addParticipant do for a call according to the
\* CALL_STATE s it had; the two differ in the states they answer.
enter(m, f, c, s, answered) ==
    CASE s = "HOLD" -> offHoldCall(bindParticipant(m, f, c), c)
      [] s \in answered -> answerCall(bindParticipant(m, f, c), c)
      [] s = "CURRENT" -> bindParticipant(m, f, c)
      [] OTHER -> m

addParticipant(m, c, f) ==
    LET m1 == IF m.current = c THEN m
              ELSE IF isConference(m, m.current) THEN detachMainParticipant(m)
              ELSE onHoldCall(m, m.current)
        m2 == addMainParticipant(switchCall(m1, None), f)
        m3 == unBindAll(confAdd([m2 EXCEPT !.call[c].confId = f], f, c), c)
    IN  IF f \notin m.confs \/ c \notin m.live THEN m
        ELSE addStream(enter(m3, f, c, getStateStr(m3, c), {"INCOMING"}), c)

joinParticipant(m, f, c1, c2) ==
    LET m1 == IF m.current \in {c1, c2} THEN m
              ELSE IF isConference(m, m.current) THEN detachMainParticipant(m)
              ELSE onHoldCall(m, m.current)
        m2 == confAdd(confAdd([m1 EXCEPT !.confs = @ \cup {f}], f, c1), f, c2)
        m3 == [m2 EXCEPT !.call[c1].confId = f, !.call[c2].confId = f]
        m4 == unBindAll(unBindAll(m3, c1), c2)
        answered == {"INCOMING", "INACTIVE"}
        m5 == enter(m4, f, c1, getStateStr(m, c1), answered)
        m6 == enter(m5, f, c2, getStateStr(m, c2), answered)
    IN  IF {c1, c2} \subseteq m.live
        THEN [switchCall(m6, f) EXCEPT !.conf[f].state = "ACTIVE_ATTACHED"]
        ELSE abort(m)

joinConference(m, f1, f2) ==
    LET move(n, c) == addParticipant(detachParticipant(n, c), c, f2)
    IN  IF {f1, f2} \subseteq m.confs
        THEN ForEach(move, m, m.conf[f1].parts) ELSE m

holdConference(m, f) ==
    LET hold(n, c) == onHoldCall(switchCall(n, c), c)
    IN  IF f \notin m.confs THEN m
        ELSE [ForEach(hold, m, m.conf[f].parts) EXCEPT !.conf[f].state = "HOLD"]

unHoldConference(m, f) ==
    IF f \notin m.confs THEN m
    ELSE [ForEach(offHoldCall, m, m.conf[f].parts)
             EXCEPT !.conf[f].state = "ACTIVE_ATTACHED"]

------------------------------------------------------------------------------
(***************************************************************************)
(* Calls that begin.                                                       *)
(***************************************************************************)

callFailure(m, c) ==
    LET m1 == callStateChanged(
                 IF m.current = c THEN switchCall(m, None) ELSE m, c, "FAILURE")
        m2 == IF participToConference(m1, c)
              THEN leaveConference(m1, c, m1.current) ELSE m1
    IN  IF participToConference(m1, c) /\ m1.call[c].confId \notin m.confs
        THEN m1
        ELSE removeWaitingCall(removeCallAccount(m2, c), c)

\* sent: the link could make the call and send the INVITE.  DIALING is the
\* state the client gave the call before it asked.
outgoingCall(m, c, confId, sent) ==
    LET m1 == [leaveCurrent(m, c) EXCEPT !.account = @ \cup {c},
                                         !.shown[c] = "DIALING"]
        call == [state |-> "Active", conn |-> "Progressing",
                 type |-> "Outgoing", confId |-> confId, invite |-> "other"]
    IN  IF c \in m.account THEN m
        ELSE IF sent THEN switchCall(addCall(m1, c, call), c)
        ELSE callFailure(m1, c)

\* The conference becomes known when all calls have been placed.
createConfFromParticipantList(m, f, list, sent) ==
    LET place(n, c) == outgoingCall(switchCall(n, None), c, f, c \in sent)
        m1 == ForEach(place, m, list)
        placed == list \cap sent
    IN  IF Cardinality(placed) < 2 THEN m1
        ELSE [m1 EXCEPT !.confs = @ \cup {f},
                        !.conf[f] = [parts |-> placed, nb |-> Cardinality(placed),
                                     state |-> "ACTIVE_ATTACHED"]]

\* transaction_request_cb: the user is told before the link knows the call.
incomingCall(m, c) ==
    LET m1 == addWaitingCall([m EXCEPT !.account = @ \cup {c}], c)
    IN  addCall(callStateChanged(m1, c, "INCOMING"), c,
                [NewCall EXCEPT !.conn = "Ringing", !.invite = "received"])

peerRingingCall(m, c) ==
    callStateChanged([m EXCEPT !.call[c].conn = "Ringing"], c, "RINGING")

\* SIPCallAnswered.
peerAnsweredCall(m, c) ==
    LET m1 == [m EXCEPT !.call[c] = [@ EXCEPT !.conn = "Connected",
                                              !.state = "Active", !.invite = "none"]]
    IN  IF m.call[c].conn = "Connected" THEN m
        ELSE callStateChanged(addStream(m1, c), c, "CURRENT")

------------------------------------------------------------------------------
(***************************************************************************)
(* Calls that end.                                                         *)
(***************************************************************************)

\* Mutant: the call's account entry stays.
hangupCallKeepAccount(m, c) ==
    LET m1 == callStateChanged(m, c, "NONE")
        m2 == removeStream(m1, c)
        m3 == IF participToConference(m2, c)
              THEN leaveConference(m2, c, m.current)
              ELSE IF isConference(m2, m.current) THEN m2
              ELSE switchCall(m2, None)
    IN  IF c \notin m.account THEN m1 ELSE linkHangup(m3, c)

\* Mutant: the user is unbound with the call that is hung up.
hangupCallUnbindsUser(m, c) ==
    LET m1 == callStateChanged(m, c, "NONE")
        m2 == unBindAll(removeStream(m1, c), Default)
        m3 == IF participToConference(m2, c)
              THEN leaveConference(m2, c, m.current)
              ELSE IF isConference(m2, m.current) THEN m2
              ELSE switchCall(m2, None)
    IN  IF c \notin m.account THEN m1
        ELSE removeCallAccount(linkHangup(m3, c), c)

hangupCall(m, c) ==
    LET m1 == callStateChanged(m, c, "NONE")
        m2 == removeStream(m1, c)
        m3 == IF participToConference(m2, c)
              THEN leaveConference(m2, c, m.current)
              ELSE IF isConference(m2, m.current) THEN m2
              ELSE switchCall(m2, None)
    IN  IF c \notin m.account THEN m1
        ELSE removeCallAccount(linkHangup(m3, c), c)

\* Mutant: the walk stops as soon as the conference is gone.
hangupConferenceWhileThere(m, f) ==
    LET hang(n, c) == IF f \in n.confs THEN hangupCall(n, c) ELSE n
    IN  IF f \notin m.confs THEN switchCall(m, None)
        ELSE switchCall(ForEach(hang, m, m.conf[f].parts), None)

hangupConference(m, f) ==
    IF f \notin m.confs THEN switchCall(m, None)
    ELSE switchCall(ForEach(hangupCall, m, m.conf[f].parts), None)

refuseCall(m, c) ==
    LET m1 == callStateChanged(removeWaitingCall(removeCall(m, c), c), c, "NONE")
        m2 == IF Refusable(m, c) THEN m1 ELSE m
    IN  IF c \notin m.account THEN m
        ELSE removeStream(removeCallAccount(m2, c), c)

\* The REFER that cannot be sent is an exception nobody catches.
transferCall(m, c) ==
    LET m1 == IF participToConference(m, c) THEN leaveConference(m, c, c)
              ELSE IF isConference(m, m.current) THEN m
              ELSE switchCall(m, None)
        lost == participToConference(m, c) /\ m.call[c].confId \notin m.confs
    IN  IF lost THEN abort(m)
        ELSE IF c \notin m.account THEN m1
        ELSE IF c \notin m1.live \/ c \in m1.cutOff THEN abort(m1)
        ELSE removeWaitingCall(m1, c)

\* Mutant: a participant whose peer hangs up stays in its conference.
peerHungupCallStays(m, c) ==
    LET m1 == IF m.current = c THEN switchCall(m, None) ELSE m
        m2 == removeWaitingCall(callStateChanged(m1, c, "NONE"), c)
    IN  removeStream(removeCallAccount(m2, c), c)

\* Mutant: the streams of a call the peer ended stay bound.
peerHungupCallKeepStream(m, c) ==
    LET m1 == IF participToConference(m, c) THEN leaveConference(m, c, m.current)
              ELSE IF m.current = c THEN switchCall(m, None) ELSE m
        m2 == removeWaitingCall(callStateChanged(m1, c, "NONE"), c)
    IN  removeCallAccount(m2, c)

\* SIPCallClosed: the session has ended, so peerHungup of the link only
\* reports that, and the call is removed after peerHungupCall.
peerHungupCall(m, c) ==
    LET m1 == IF participToConference(m, c) THEN leaveConference(m, c, m.current)
              ELSE IF m.current = c THEN switchCall(m, None) ELSE m
        m2 == removeWaitingCall(callStateChanged(m1, c, "NONE"), c)
    IN  removeStream(removeCallAccount(m2, c), c)

SIPCallClosed(m, c) == removeCall(peerHungupCall(m, c), c)

SIPCallServerFailure(m, c) == removeCall(callFailure(m, c), c)
===============================================================================
