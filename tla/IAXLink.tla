------------------------------ MODULE IAXLink ------------------------------
(***************************************************************************)
(* The IAX link of one account (daemon/src/iax/iaxvoiplink.cpp) on top of  *)
(* libiax2: its calls, its registration, and the two threads that use      *)
(* them.                                                                   *)
(*                                                                         *)
(* The event thread runs getEvent over and over.  It holds _mutexIAX from  *)
(* the first event of an iteration to the last, the calls it makes to the  *)
(* manager included, and looks at the refresh stamp after it let it go.    *)
(* The D-Bus thread looks a call up and changes streams, the call and the  *)
(* call map without _mutexIAX; it holds the mutex only around libiax2.     *)
(* _callMapMutex is held for one look-up, insertion or removal.            *)
(***************************************************************************)
EXTENDS LibIAX

CONSTANTS CallIds,    \* the ids getNewCallID may give
          Reuse       \* may the allocator return an address still referred to?

VARIABLES calls,      \* _callMap: the session and the states of each call, or Absent
          known,      \* the calls the manager has told its clients of
          bound,      \* the calls whose stream is bound in the main buffer
          ev,         \* where the event thread is
          missed,     \* calls that libiax2 ended without the link seeing it
          op,         \* the D-Bus thread's operation and where it is
          regSession, \* _regSession
          stamp,      \* _nextRefreshStamp: "off" (0), "retry" or "refresh"
          regState,   \* the account's registration state
          wanted,     \* what the user last asked of the registration
          overtaken,  \* a refresh was under way when the user last unregistered
          crash       \* what undefined behaviour ended the process, or "none"

linkvars == <<calls, known, bound, missed, ev, op>>
regvars == <<regSession, stamp, regState, wanted, overtaken>>
vars == <<libvars, linkvars, regvars, crash>>

NoCall == "no call"
ASSUME IAXLinkAssumption == Reuse \in BOOLEAN /\ NoCall \notin CallIds

Absent == [sess |-> NoSession, conn |-> "progressing", state |-> "inactive"]
InMap(c) == calls[c] # Absent
CallsOf(s) == {c \in CallIds : InMap(c) /\ calls[c].sess = s}

Idle == [at |-> "idle"]
NoOp == [at |-> "idle"]
MutexFree == ev.at \in {"idle", "refresh"}
Alive == crash = "none"

CallRecords == [sess : Sessions,
                conn : {"progressing", "ringing", "connected"},
                state : {"inactive", "active", "hold"}]

Operations == {"hangup", "refuse", "answer", "onhold", "offhold"}

\* The values the variables range over; an operation of the D-Bus thread or
\* an event in progress carries the call and the session it looked up.
TypeOK ==
    /\ LibTypeOK
    /\ calls \in [CallIds -> CallRecords \cup {Absent}]
    /\ known \subseteq CallIds /\ bound \subseteq CallIds /\ missed \subseteq CallIds
    /\ ev \in {Idle, [at |-> "refresh"], [at |-> "acked"]}
              \cup [at : {"handle"}, sess : Sessions, type : EventTypes,
                    call : CallIds \cup {NoCall}]
              \cup [at : {"ring"}, sess : Sessions, call : CallIds]
    /\ op \in {NoOp} \cup [at : {"unregister", "unstamped"}]
              \cup [at : {"placed"}, call : CallIds, sess : Sessions]
              \cup [at : {"found", "sent"}, call : CallIds, name : Operations]
    /\ regSession \in Sessions \cup {NoSession}
    /\ stamp \in {"off", "retry", "refresh"}
    /\ regState \in {"Unregistered", "Trying", "Registered", "ErrorAuth"}
    /\ wanted \in {"registered", "unregistered"}
    /\ overtaken \in BOOLEAN
    /\ crash \in {"none", "null call", "deleted call", "dead session"}

Init ==
    /\ LibInit
    /\ calls = [c \in CallIds |-> Absent]
    /\ known = {} /\ bound = {} /\ missed = {}
    /\ ev = Idle /\ op = NoOp
    /\ regSession = NoSession /\ stamp = "off" /\ regState = "Unregistered"
    /\ wanted = "unregistered" /\ overtaken = FALSE
    /\ crash = "none"

-----------------------------------------------------------------------------
(* Ids, addresses and undefined behaviour.                                 *)

\* Ids that nothing refers to, less one for each CONNECT yet to be handled.
UnusedIds == {c \in CallIds : ~InMap(c) /\ c \notin known
                              /\ (op.at \in {"placed", "found", "sent"} => op.call # c)
                              /\ (ev.at = "ring" => ev.call # c)}
IncomingNews == {s \in Sessions :
                    \/ inbox[s] # <<>> /\ inbox[s][1] = "connect"
                    \/ ev.at = "handle" /\ ev.sess = s /\ ev.type = "connect"}
RoomForCall == Cardinality(UnusedIds) > Cardinality(IncomingNews)

Addresses == {calls[c].sess : c \in {d \in CallIds : InMap(d)}}
             \cup IF op.at = "placed" THEN {op.sess} ELSE {}
FreeForRegister(s) == Reuse \/ s \notin finals \cup Addresses
FreeForCall(s) == Reuse \/ s \notin finals \cup Addresses \cup {regSession}

\* A call that was deleted, or a session that was, is used: the process ends,
\* or the freed memory still reads as it did and what is done to it is lost.
Undefined(what, lost) ==
    \/ crash' = what /\ UNCHANGED <<libvars, linkvars, regvars>>
    \/ lost /\ UNCHANGED crash

-----------------------------------------------------------------------------
(* Calls, from D-Bus.                                                      *)

\* newOutgoingCall: iaxOutgoingInvite makes the session under _mutexIAX; what
\* iax_call returns is not looked at.
PlaceCall ==
    /\ op = NoOp /\ MutexFree /\ RoomForCall
    /\ \E s \in Sessions, c \in UnusedIds :
         /\ FreeForCall(s)
         /\ OpenSession(s, "calling", <<>>)
         /\ op' = [at |-> "placed", call |-> c, sess |-> s]
         /\ missed' = missed \ {c}
    /\ UNCHANGED <<finals, calls, known, bound, ev, regvars, crash>>

\* The rest of it, without the mutex: the call is put into the map.
PlaceCallAdd ==
    /\ op.at = "placed"
    /\ calls' = [calls EXCEPT ![op.call] =
                    [sess |-> op.sess, conn |-> "progressing", state |-> "active"]]
    /\ known' = known \cup {op.call}
    /\ op' = NoOp
    /\ UNCHANGED <<libvars, bound, missed, ev, regvars, crash>>

\* The client offers these for calls in these states.
Offered(name, c) ==
    /\ c \in known
    /\ InMap(c) => CASE name = "refuse"  -> calls[c].state = "inactive"
                     [] name = "answer"  -> calls[c].state = "inactive"
                     [] name = "onhold"  -> calls[c].conn = "connected"
                     [] name = "offhold" -> calls[c].state = "hold"
                     [] OTHER            -> TRUE

\* The look-up with which every operation begins, and the change of the
\* stream that follows it in all of them but refuse.
Find(name) ==
    /\ op = NoOp
    /\ \E c \in CallIds :
         /\ Offered(name, c)
         /\ \/ /\ InMap(c)
               /\ op' = [at |-> "found", call |-> c, name |-> name]
               /\ bound' = CASE name \in {"answer", "offhold"} -> bound \cup {c}
                             [] name \in {"hangup", "onhold"}  -> bound \ {c}
                             [] OTHER                          -> bound
               /\ UNCHANGED <<known, crash>>
            \* answer looks at the call before it tests it for NULL
            \/ /\ ~InMap(c) /\ name = "answer"
               /\ crash' = "null call"
               /\ UNCHANGED <<op, bound, known>>
            \* the others return, and the manager forgets what it hangs up
            \/ /\ ~InMap(c) /\ name \in {"hangup", "refuse"}
               /\ known' = known \ {c}
               /\ UNCHANGED <<op, bound, crash>>
    /\ UNCHANGED <<libvars, calls, missed, ev, regvars>>

\* What the operation does to the session, under _mutexIAX.
Send ==
    /\ op.at = "found" /\ MutexFree
    /\ \/ /\ ~InMap(op.call)
          /\ Undefined("deleted call", op' = NoOp /\ UNCHANGED <<libvars, calls, known, bound, missed, ev, regvars>>)
       \/ /\ InMap(op.call) /\ calls[op.call].sess \notin sessions
          /\ Undefined("dead session",
                       /\ op' = [op EXCEPT !.at = "sent"]
                       /\ UNCHANGED <<libvars, calls, known, bound, missed, ev, regvars>>)
       \/ /\ InMap(op.call) /\ calls[op.call].sess \in sessions
          /\ LET s == calls[op.call].sess
             IN CASE op.name \in {"hangup", "refuse"} -> SendFinal(s)
                  [] op.name = "answer" -> /\ peer' = [peer EXCEPT ![s] =
                                                 IF @ = "called" THEN "talking" ELSE @]
                                           /\ UNCHANGED <<sessions, inbox, finals>>
                  [] OTHER -> UNCHANGED libvars
          /\ op' = [op EXCEPT !.at = "sent"]
          /\ UNCHANGED <<calls, known, bound, missed, ev, regvars, crash>>

\* What the operation does to the call after it.  refuse only names the call.
Finish ==
    /\ op.at = "sent"
    /\ \/ /\ ~InMap(op.call) /\ op.name # "refuse"
          /\ Undefined("deleted call",
                       /\ op' = NoOp /\ known' = known \ {op.call}
                       /\ UNCHANGED <<libvars, calls, bound, missed, ev, regvars>>)
       \/ /\ InMap(op.call) \/ op.name = "refuse"
          /\ op' = NoOp
          /\ IF op.name \in {"hangup", "refuse"}
             THEN /\ calls' = [calls EXCEPT ![op.call] = Absent]
                  /\ known' = known \ {op.call}
             ELSE /\ calls' = [calls EXCEPT ![op.call].state =
                                  IF op.name = "onhold" THEN "hold" ELSE "active",
                                            ![op.call].conn =
                                  IF op.name = "answer" THEN "connected" ELSE @]
                  /\ UNCHANGED known
          /\ UNCHANGED <<libvars, bound, missed, ev, regvars, crash>>

-----------------------------------------------------------------------------
(* Registration.                                                           *)

\* Two mutants: the session of the last request is kept; the request is not
\* tried again.
sendRegisterLeaks ==
    /\ MutexFree
    /\ \E s \in Sessions :
         /\ FreeForRegister(s)
         /\ OpenSession(s, "register", <<>>)
         /\ regSession' = s
    /\ stamp' = "retry"
    /\ regState' = "Trying"
    /\ UNCHANGED finals

sendRegisterOnce ==
    /\ MutexFree
    /\ \E s \in Sessions :
         /\ FreeForRegister(s)
         /\ ReplaceSession(regSession, s, "register")
         /\ regSession' = s
    /\ stamp' = "off"
    /\ regState' = "Trying"
    /\ UNCHANGED finals

\* sendRegister, under _mutexIAX: always a new session.
sendRegister ==
    /\ MutexFree
    /\ \E s \in Sessions :
         /\ FreeForRegister(s)
         /\ ReplaceSession(regSession, s, "register")
         /\ regSession' = s
    /\ stamp' = "retry"
    /\ regState' = "Trying"
    /\ UNCHANGED finals

\* IAXAccount::registerVoIPLink, from D-Bus.
Register ==
    /\ op = NoOp
    /\ sendRegister
    /\ wanted' = "registered" /\ overtaken' = FALSE
    /\ UNCHANGED <<linkvars, crash>>

\* sendUnregister: the session under the mutex, then the stamp and the state
\* without it.  terminate, which follows, finds initDone false and does nothing:
\* init leaves it so when the first port is free, the only init modelled.
Unregister ==
    /\ op = NoOp /\ MutexFree
    /\ IF regSession = NoSession THEN UNCHANGED libvars
       ELSE DestroySession(regSession) /\ UNCHANGED finals
    /\ regSession' = NoSession
    /\ op' = [at |-> "unregister"]
    /\ wanted' = "unregistered"
    /\ overtaken' = (ev.at = "refresh")
    /\ UNCHANGED <<calls, known, bound, missed, ev, stamp, regState, crash>>

\* A mutant: the refresh stays due.
UnregisterStampKept ==
    /\ op.at = "unregister"
    /\ op' = [at |-> "unstamped"]
    /\ UNCHANGED <<libvars, calls, known, bound, missed, ev, regvars, crash>>

UnregisterStamp ==
    /\ op.at = "unregister"
    /\ stamp' = "off"
    /\ op' = [at |-> "unstamped"]
    /\ UNCHANGED <<libvars, calls, known, bound, missed, ev, regSession, regState, wanted, overtaken, crash>>

UnregisterState ==
    /\ op.at = "unstamped"
    /\ regState' = "Unregistered"
    /\ op' = NoOp
    /\ UNCHANGED <<libvars, calls, known, bound, missed, ev, regSession, stamp, wanted, overtaken, crash>>

-----------------------------------------------------------------------------
(* The event thread.                                                       *)

\* The peer calls: iax_find_session makes a session for its NEW.  (It makes one
\* for any other full frame without a destination too; no peer that knows of no
\* call sends one.)
PeerCalls ==
    /\ MutexFree /\ RoomForCall
    /\ \E s \in Sessions :
         /\ FreeForCall(s)
         /\ OpenSession(s, "called", <<"connect">>)
    /\ UNCHANGED <<finals, linkvars, regvars, crash>>

\* iax_get_event returns an event, and getEvent looks for its call.
GetEvent ==
    /\ ev = Idle
    /\ \E s \in Sessions, type \in EventTypes :
         /\ TakeEvent(s, type)
         /\ \E c \in IF CallsOf(s) = {} THEN {NoCall} ELSE CallsOf(s) :
              ev' = [at |-> "handle", sess |-> s, type |-> type, call |-> c]
         /\ missed' = IF /\ op.at = "placed" /\ op.sess = s
                         /\ type \in {"hangup", "reject"}
                      THEN missed \cup {op.call} ELSE missed
    /\ UNCHANGED <<calls, known, bound, op, regvars, crash>>

\* peerHungupCall: the manager has the link end the call (unBindAll, delete),
\* and forgets it.
peerHungupCall(c) ==
    /\ bound' = bound \ {c}
    /\ known' = known \ {c}
    /\ calls' = [calls EXCEPT ![c] = Absent]

\* A mutant: the call of a refused call attempt stays in the map.
callEndedStays(c) ==
    /\ known' = known \ {c}
    /\ UNCHANGED <<calls, bound>>

\* callFailure and callBusy, and removeCall: the stream and the session are
\* left as they are.
callEnded(c) ==
    /\ known' = known \ {c}
    /\ calls' = [calls EXCEPT ![c] = Absent]
    /\ UNCHANGED bound

\* A mutant: an ANSWER always connects.
peerAnsweredAgain(c) ==
    /\ bound' = bound \cup {c}
    /\ calls' = [calls EXCEPT ![c].conn = "connected"]
    /\ UNCHANGED known

\* ANSWER and TRANSFER, unless the call is connected.
peerAnswered(c) ==
    IF calls[c].conn = "connected" THEN UNCHANGED <<calls, known, bound>>
    ELSE /\ bound' = bound \cup {c}
         /\ calls' = [calls EXCEPT ![c].conn = "connected", ![c].state = "active"]
         /\ UNCHANGED known

\* The test, the stream and the states are one step: of a call that is not
\* connected the D-Bus thread has at most a hang-up under way, and what that does
\* between two of them comes to the same before the first or after the last.
iaxHandleCallEvent ==
    /\ ev.at = "handle" /\ ev.call # NoCall
    /\ \/ /\ InMap(ev.call)
          /\ \/ ev.type = "hangup" /\ peerHungupCall(ev.call)
             \/ ev.type \in {"reject", "busy"} /\ callEnded(ev.call)
             \/ ev.type = "answer" /\ peerAnswered(ev.call)
             \/ /\ ev.type = "ringa"
                /\ calls' = [calls EXCEPT ![ev.call].conn = "ringing"]
                /\ UNCHANGED <<known, bound>>
             \/ /\ ev.type \in {"connect", "regack", "regrej"}
                /\ UNCHANGED <<calls, known, bound>>
          /\ ev' = Idle
          /\ UNCHANGED <<missed, op, crash>>
       \/ /\ ~InMap(ev.call)
          /\ Undefined("deleted call",
                       ev' = Idle /\ UNCHANGED <<libvars, calls, known, bound, missed, op, regvars>>)
    /\ UNCHANGED <<libvars, regvars>>

\* REGACK and REGREJ of the session the link waits for.
iaxHandleRegReply ==
    /\ ev.at = "handle" /\ ev.call = NoCall /\ ev.sess = regSession
    /\ IF ev.type \in {"regack", "regrej"}
       THEN /\ DestroySession(regSession) /\ UNCHANGED finals
            /\ regSession' = NoSession
            /\ IF ev.type = "regack"
               THEN /\ stamp' = "refresh" /\ ev' = [at |-> "acked"]
                    /\ UNCHANGED regState
               ELSE /\ regState' = "ErrorAuth" /\ ev' = Idle
                    /\ UNCHANGED stamp
       ELSE /\ ev' = Idle
            /\ UNCHANGED <<libvars, regSession, stamp, regState>>
    /\ UNCHANGED <<calls, known, bound, missed, op, wanted, overtaken, crash>>

\* The last assignment of a REGACK; _mutexIAX does not keep sendUnregister's
\* two from falling between this one and the stamp's.
RegistrationAcked ==
    /\ ev.at = "acked"
    /\ regState' = "Registered"
    /\ ev' = Idle
    /\ UNCHANGED <<libvars, calls, known, bound, missed, op, regSession, stamp, wanted, overtaken, crash>>

\* An event of a session that no call had when getEvent looked.
iaxHandlePrecallEvent ==
    /\ ev.at = "handle" /\ ev.call = NoCall /\ ev.sess # regSession
    /\ \/ /\ ev.type = "connect"
          /\ \E c \in UnusedIds :
               /\ ev' = [at |-> "ring", sess |-> ev.sess, call |-> c]
               /\ known' = known \cup {c}
               /\ missed' = missed \ {c}
          /\ UNCHANGED <<calls, bound, crash>>
       \/ /\ ev.type = "hangup"
          /\ \/ /\ CallsOf(ev.sess) = {}
                /\ crash' = "null call"
                /\ UNCHANGED <<calls, known, bound, missed, ev>>
             \/ \E c \in CallsOf(ev.sess) :
                  /\ peerHungupCall(c)
                  /\ ev' = Idle
                  /\ UNCHANGED <<missed, crash>>
       \/ /\ ev.type \notin {"connect", "hangup"}
          /\ ev' = Idle
          /\ UNCHANGED <<calls, known, bound, missed, crash>>
    /\ UNCHANGED <<libvars, op, regvars>>

\* The rest of a CONNECT, after incomingCall: accept, announce, add the call.
IncomingAdd ==
    /\ ev.at = "ring"
    /\ calls' = [calls EXCEPT ![ev.call] =
                    [sess |-> ev.sess, conn |-> "progressing", state |-> "inactive"]]
    /\ ev' = Idle
    /\ UNCHANGED <<libvars, known, bound, missed, op, regvars, crash>>

\* A final frame's time comes, in iax_get_event.
FinalFrame ==
    /\ ev = Idle
    /\ FinalDue
    /\ UNCHANGED <<linkvars, regvars, crash>>

\* An ACCEPT that libiax2 refuses, in iax_get_event: the call keeps the session.
\* The REJECT is scheduled through the session even when that is freed.
AcceptRefused ==
    /\ ev = Idle
    /\ \E s \in Sessions :
         /\ RefuseAccept(s)
         /\ missed' = missed \cup CallsOf(s)
                      \cup IF op.at = "placed" /\ op.sess = s THEN {op.call} ELSE {}
         /\ crash' \in IF s \in sessions' THEN {crash} ELSE {crash, "dead session"}
    /\ UNCHANGED <<calls, known, bound, ev, op, regvars>>

\* getEvent has handled every event, finds the stamp due, and registers.
RefreshDue ==
    /\ ev = Idle /\ \A s \in Sessions : inbox[s] = <<>>
    /\ stamp # "off"
    /\ ev' = [at |-> "refresh"]
    /\ overtaken' = (overtaken \/ op.at = "unregister")
    /\ UNCHANGED <<libvars, calls, known, bound, missed, op, regSession, stamp, regState, wanted, crash>>

Refresh ==
    /\ ev.at = "refresh"
    /\ sendRegister
    /\ ev' = Idle
    /\ UNCHANGED <<calls, known, bound, missed, op, wanted, overtaken, crash>>

PeerActs == PeerSays /\ UNCHANGED <<linkvars, regvars, crash>>

-----------------------------------------------------------------------------
DBus == \/ PlaceCall \/ PlaceCallAdd
        \/ \E name \in Operations : Find(name)
        \/ Send \/ Finish
        \/ Register \/ Unregister \/ UnregisterStamp \/ UnregisterState

EventThread == \/ GetEvent \/ iaxHandleCallEvent \/ iaxHandleRegReply
               \/ RegistrationAcked \/ iaxHandlePrecallEvent \/ IncomingAdd
               \/ FinalFrame \/ AcceptRefused \/ RefreshDue \/ Refresh

\* Undefined behaviour may end the process; nothing follows.
Crashed == ~Alive /\ UNCHANGED vars

Next == \/ Alive /\ (DBus \/ EventThread \/ PeerActs \/ PeerCalls)
        \/ Crashed

\* The event thread runs every 3 ms, the D-Bus thread finishes what it began,
\* and a server that is asked again and again answers one day, before the next
\* attempt is due (the round trip is not always longer than the 8 seconds).
\* Events are all handled before the stamp is looked at.
Fairness ==
    /\ WF_vars(Alive /\ (Send \/ Finish \/ PlaceCallAdd \/ UnregisterStamp \/ UnregisterState))
    /\ WF_vars(Alive /\ (iaxHandleCallEvent \/ iaxHandleRegReply \/ iaxHandlePrecallEvent
                         \/ RegistrationAcked \/ IncomingAdd \/ Refresh))
    /\ WF_vars(Alive /\ RefreshDue)
    /\ \A s \in Sessions : SF_vars(Alive /\ GetEvent /\ ev'.sess = s)
    /\ SF_vars(Alive /\ ev.at # "refresh" /\ ServerAnswers /\ PeerActs)

Spec == Init /\ [][Next]_vars
FairSpec == Spec /\ Fairness

-----------------------------------------------------------------------------
(* What the link should keep.                                              *)

\* A call whose session is being ended: by the event that is being handled,
\* or by the user's operation, which has sent the final frame.
Ending(c) == \/ ev.at = "handle" /\ ev.type \in {"hangup", "reject"} /\ ev.call = c
             \/ op.at = "sent" /\ op.name \in {"hangup", "refuse"} /\ op.call = c

\* A call of the map has a session that libiax2 still has and that no other
\* call has, from addCall to the start of its end: iaxFindCallBySession, which
\* takes the first call with the session of an event, finds the right one, and
\* iax_hangup and the audio that the event thread sends for the call reach its
\* peer.  It needs `missed', for two ends that the link does not see:
\* newOutgoingCall adds the call after it let the mutex go, and a HANGUP or a
\* REJECT that came before finds no call; and libiax2 itself destroys the
\* session of a call whose ACCEPT it refuses, and loses the REJECT it had for
\* the link.  With Reuse it is false: a final frame destroys the session now at
\* its address.
EachCallItsSession ==
    \A c \in CallIds : InMap(c) /\ ~Ending(c) /\ c \notin missed =>
        /\ calls[c].sess \in sessions
        /\ CallsOf(calls[c].sess) = {c}

\* No session of libiax2 is forgotten: each is a call's, the registration's,
\* the one an event or an operation in progress is about, or already has a
\* final frame scheduled, which destroys it.  The one exception is the session
\* of a call that ended with BUSY, which the link never hangs up.  What calls,
\* registers, refreshes and hangs up in getEvent and on D-Bus must agree for
\* this: sendRegister destroys the old session and iaxHandleRegReply the new.
SessionsOwned ==
    \A s \in sessions :
        \/ CallsOf(s) # {}
        \/ s = regSession
        \/ op.at = "placed" /\ op.sess = s
        \/ s \in IncomingNews
        \/ ev.at \in {"handle", "ring"} /\ ev.sess = s
        \/ s \in finals
        \/ peer[s] = "busy"

\* A call on hold has no stream in the main buffer, except while offhold, which
\* binds before it tells the peer, is under way: an ANSWER (or a TRANSFER,
\* which takes the same branch) that the event thread handles while the call is
\* held or being held must not bind it again.
HeldIsSilent ==
    \A c \in bound : InMap(c) /\ calls[c].state = "hold" =>
        op.at \in {"found", "sent"} /\ op.call = c /\ op.name = "offhold"

\* Once sendUnregister is done, the account stays unregistered until the user
\* registers it: no refresh is due, no session waits for a reply, and no late
\* REGACK or REGREJ changes the state.  It needs `overtaken': getEvent reads
\* _nextRefreshStamp after it let _mutexIAX go, and a refresh it has decided on
\* registers the account again (README, differences).
UnregisteredStays ==
    wanted = "unregistered" /\ ~overtaken /\ op = NoOp =>
        regState = "Unregistered" /\ stamp = "off" /\ regSession = NoSession

\* Trying is not for ever: when the user stops asking, a registration that was
\* sent comes to an end, because sendRegister always makes a refresh due in 10
\* seconds, which replaces a session whose server does not answer.
TryingEnds ==
    <>[][~Register]_vars =>
        ((regState = "Trying") ~> (regState # "Trying" \/ ~Alive))
=============================================================================
