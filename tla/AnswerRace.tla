------------------------------ MODULE AnswerRace ------------------------------
(***************************************************************************)
(* An incoming call between the two threads that handle it.  The SIP       *)
(* thread announces the call to the client, gives it to the link and, when *)
(* the peer cancels or hangs up, takes it away again; the D-Bus thread     *)
(* answers or refuses it.  The handlers are those of CallControl, cut      *)
(* where the other thread can come between: each step is one access to     *)
(* state that has a lock of its own, or a pjsip call, which holds the      *)
(* dialog's lock.                                                          *)
(*                                                                         *)
(* A Call the other thread has deleted may still be used: what happens     *)
(* then is undefined, and here either the process dies or the use has no   *)
(* effect on the state modelled.                                           *)
(***************************************************************************)
EXTENDS CallControl

VARIABLES m,       \* the state of the daemon, see CallControl
          ended,   \* the calls whose invite session has ended
          main,    \* the D-Bus thread: what it has yet to do, and for which call
          voip     \* the SIP thread

vars == <<m, ended, main, voip>>

Idle == <<"idle", None>>

MainSteps == {"lookup answer", "answer", "waiting", "switch", "stream",
              "lookup refuse", "refuse", "remove", "forget", "silence"}
VoipSteps == {"add", "peer hung up", "closed", "release"}

TypeOK ==
    /\ m \in ManagerStates
    /\ ended \subseteq Calls
    /\ main \in {Idle} \cup MainSteps \X Calls
    /\ voip \in {Idle} \cup VoipSteps \X Calls

Init == m = Start /\ ended = {} /\ main = Idle /\ voip = Idle

AtRest == main = Idle /\ voip = Idle

\* A step of a thread: it was at step s for call c and goes on to step t.
MainStep(s, c, t) == main = <<s, c>> /\ main' = t /\ UNCHANGED voip
VoipStep(s, c, t) == voip = <<s, c>> /\ voip' = t /\ UNCHANGED main

\* The SIP thread holds the dialog of c while it reports the end of the call.
DialogFree(c) == \A s \in {"peer hung up", "closed", "release"} : voip # <<s, c>>

\* The outcomes of using the Call c when it may have been deleted.
Using(c, n) ==
    IF c \in m.live THEN m' = n ELSE m' \in {m, abort(m)}

------------------------------------------------------------------------------
(***************************************************************************)
(* The SIP thread.                                                         *)
(***************************************************************************)

\* transaction_request_cb up to Manager::incomingCall, which tells the client.
Announce(c) ==
    /\ c \notin ended \cup m.live \cup m.account
    /\ voip = Idle /\ voip' = <<"add", c>>
    /\ m' = callStateChanged(
               addWaitingCall([m EXCEPT !.account = @ \cup {c}], c), c, "INCOMING")
    /\ UNCHANGED <<ended, main>>

\* transaction_request_cb, the rest: the link gets the call.
Add(c) ==
    /\ VoipStep("add", c, Idle)
    /\ m' = addCall(m, c, [NewCall EXCEPT !.conn = "Ringing", !.invite = "received"])
    /\ UNCHANGED ended

\* CANCEL or BYE: SIPCallClosed, peerHungupCall up to the link's peerHungup.
PeerCloses(c) ==
    /\ c \in m.live \ ended
    /\ voip = Idle /\ voip' = <<"peer hung up", c>>
    /\ m' = IF m.current = c THEN switchCall(m, None) ELSE m
    /\ ended' = ended \cup {c}
    /\ UNCHANGED main

\* Mutant: the call's account entry stays.
ClosedKeepAccount(c) ==
    /\ VoipStep("peer hung up", c, <<"closed", c>>)
    /\ m' = IF c \in m.live
            THEN removeWaitingCall(callStateChanged(m, c, "NONE"), c)
            ELSE abort(m)
    /\ UNCHANGED ended

\* The link's peerHungup throws when the call has gone; then the client is told.
Closed(c) ==
    /\ VoipStep("peer hung up", c, <<"closed", c>>)
    /\ m' = IF c \in m.live
            THEN removeCallAccount(
                    removeWaitingCall(callStateChanged(m, c, "NONE"), c), c)
            ELSE abort(m)
    /\ UNCHANGED ended

Unbound(c) ==
    /\ VoipStep("closed", c, <<"release", c>>)
    /\ m' = removeStream(m, c)
    /\ UNCHANGED ended

Release(c) ==
    /\ VoipStep("release", c, Idle)
    /\ m' = removeCall(m, c)
    /\ UNCHANGED ended

------------------------------------------------------------------------------
(***************************************************************************)
(* The D-Bus thread: answerCall.                                           *)
(***************************************************************************)

Accept(c) ==
    /\ main = Idle
    /\ m.shown[c] = "INCOMING"
    /\ m' = leaveCurrent(m, c)
    /\ main' = <<"lookup answer", c>>
    /\ UNCHANGED <<ended, voip>>

\* The link throws when it does not know the call; answerCall catches and goes
\* on as if the call had been answered.
LookupAnswer(c) ==
    /\ MainStep("lookup answer", c,
                <<IF c \in m.live THEN "answer" ELSE "waiting", c>>)
    /\ UNCHANGED <<m, ended>>

\* The 200 OK cannot be sent in a session that has ended: thrown and caught too.
\* SIPCallAnswered may run in the SIP thread between the sending and answer's own
\* setConnectionState.  It makes the call connected and active, as answer does, and
\* gives it its stream, as answerCall does next: all is one step here.
Answer(c) ==
    /\ DialogFree(c)
    /\ MainStep("answer", c, <<"waiting", c>>)
    /\ Using(c, IF c \in ended THEN m ELSE linkAnswer(m, c))
    /\ UNCHANGED ended

Waiting(c) ==
    /\ MainStep("waiting", c, <<"switch", c>>)
    /\ m' = removeWaitingCall(m, c)
    /\ UNCHANGED ended

Switch(c) ==
    /\ MainStep("switch", c, <<"stream", c>>)
    /\ m' = switchToCall(m, c)
    /\ UNCHANGED ended

Stream(c) ==
    /\ MainStep("stream", c, Idle)
    /\ m' = callStateChanged(addStream(m, c), c, "CURRENT")
    /\ UNCHANGED ended

------------------------------------------------------------------------------
(***************************************************************************)
(* The D-Bus thread: refuseCall.                                           *)
(***************************************************************************)

Refuse(c) ==
    /\ main = Idle
    /\ m.shown[c] = "INCOMING"
    /\ c \in m.account
    /\ main' = <<"lookup refuse", c>>
    /\ UNCHANGED <<m, ended, voip>>

LookupRefuse(c) ==
    /\ MainStep("lookup refuse", c,
                <<IF Refusable(m, c) THEN "refuse" ELSE "forget", c>>)
    /\ UNCHANGED <<m, ended>>

\* pjsip ends the session, unless the peer did.
EndSession(c) ==
    /\ DialogFree(c)
    /\ MainStep("refuse", c, <<IF c \in m.live \ ended THEN "remove" ELSE "forget", c>>)
    /\ Using(c, m)
    /\ ended' = ended \cup {c}

\* The client is told a little later, with the account; nothing is in between
\* that the other thread reads.
Refused(c) ==
    /\ MainStep("remove", c, <<"forget", c>>)
    /\ m' = callStateChanged(removeWaitingCall(removeCall(m, c), c), c, "NONE")
    /\ UNCHANGED ended

Forget(c) ==
    /\ MainStep("forget", c, <<"silence", c>>)
    /\ m' = removeCallAccount(m, c)
    /\ UNCHANGED ended

\* Mutant: the user is unbound from everything.
SilenceUser(c) ==
    /\ MainStep("silence", c, Idle)
    /\ m' = unBindAll(m, Default)
    /\ UNCHANGED ended

Silence(c) ==
    /\ MainStep("silence", c, Idle)
    /\ m' = removeStream(m, c)
    /\ UNCHANGED ended

------------------------------------------------------------------------------

VoipNext(c) ==
    Announce(c) \/ Add(c) \/ PeerCloses(c) \/ Closed(c) \/ Unbound(c) \/ Release(c)

MainNext(c) ==
    \/ Accept(c) \/ LookupAnswer(c) \/ Answer(c) \/ Waiting(c) \/ Switch(c)
    \/ Stream(c)
    \/ Refuse(c) \/ LookupRefuse(c) \/ EndSession(c) \/ Refused(c) \/ Forget(c)
    \/ Silence(c)

Next == ~m.aborted /\ \E c \in Calls : VoipNext(c) \/ MainNext(c)

Spec == Init /\ [][Next]_vars

------------------------------------------------------------------------------
(***************************************************************************)
(* Properties of the states where both threads have finished.              *)
(***************************************************************************)

\* Both threads take the call off the waiting list, each under the list's own
\* lock and at a time of its own: it is counted off once, and when they have
\* finished only calls the link knows still wait.
WaitingSettled ==
    /\ m.nbWaiting = Cardinality(m.waiting)
    /\ AtRest => m.waiting \subseteq m.live

\* Whichever thread was first, a call that has gone has no account any more.
AccountsSettled == AtRest => m.account \subseteq m.live

\* A call that was answered in time is connected to the user, whatever the two
\* threads did meanwhile to another one.
AnsweredIsHeard ==
    AtRest => \A c \in m.live :
        m.call[c].conn = "Connected" /\ m.call[c].state = "Active" =>
            {c, Default} \in m.bound

------------------------------------------------------------------------------
(***************************************************************************)
(* What the code's comments and the D-Bus documentation say, and the race  *)
(* breaks.                                                                 *)
(***************************************************************************)

\* refuse: "Refuse an incoming call".  A call whose account entry refuseCall has
\* removed is not kept by the link: the user could not end it.
RefusedIsGone == AtRest => m.live \subseteq m.account

\* callStateChanged, CURRENT: "The normal active state of an answered call".
CurrentIsAnswered ==
    AtRest => \A c \in m.live :
        m.shown[c] = "CURRENT" => m.call[c].conn = "Connected"

\* hasCurrentCall: "Tell if there is a current call processed".
CurrentExists == AtRest => m.current \in m.live \cup {None}
===============================================================================
