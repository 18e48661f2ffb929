---------------------------- MODULE MediaSession ----------------------------
(***************************************************************************)
(* The sound of one SIP call: its RTP session (AudioRtpFactory), its local *)
(* and negotiated SDP (Sdp) and the INVITE transaction and offer of pjsip, *)
(* between the D-Bus thread, which answers, holds, resumes and hangs up,   *)
(* and the SIP thread, which runs pjsip's callbacks, while the peer        *)
(* answers, re-INVITEs and moves to another address.                       *)
(*                                                                         *)
(* pjsip holds the dialog's lock while it reports the end of a negotiation *)
(* (sdp_media_update_cb); the daemon itself has no lock that covers the    *)
(* session pointer from its test to its use.  A re-INVITE is built and     *)
(* sent in one locked step here.  Of a direction only what this side adds  *)
(* is kept: "sendonly", on hold, or "sendrecv".                            *)
(***************************************************************************)
EXTENDS Naturals

CONSTANTS Addresses,      \* where the peer may listen
          Codecs,         \* payload types; PAYLOAD_CODEC_ULAW is one of them
          PeerMay,        \* what else the peer may do, see AllPeers
          MaxCommands,    \* bound on the user's holds and resumes
          MaxReinvites    \* bound on the peer's re-INVITEs

\* refuse, leave without an answer or answer with no common codec a request of
\* ours; challenge it when no password fits; re-INVITE with or without an offer
\* or for another codec; end another call, after which this one is held as the
\* last of its conference.
AllPeers == {"refuse", "lose", "mismatch", "challenge", "reinvite", "empty",
             "codec", "conference"}

None == "none"
Nowhere == "nowhere"

ASSUME MediaSessionAssumption ==
    /\ "ulaw" \in Codecs /\ None \notin Codecs
    /\ Addresses # {} /\ {None, Nowhere} \cap Addresses = {}
    /\ PeerMay \subseteq AllPeers
    /\ MaxCommands \in Nat /\ MaxReinvites \in Nat

VARIABLES call,       \* the SIPCall: "up", "gone", or "crashed" with the daemon
          state,      \* its _callState
          shown,      \* what the client was told
          session,    \* _rtpSession: where it sends, with which codec
          attrs,      \* the direction attributes of localSession_
          sdp,        \* Sdp: the peer's address, the codec of sessionAudioMedia_[0]
          neg,        \* pjsip's negotiator: its state and the offer it holds
          tsx,        \* invite_tsx: none, ours, the peer's, the peer's without offer
          peer,       \* the peer: where it listens, the codec agreed on, what it
                      \* was last told of this side's direction
          at,         \* at[t]: the step thread t is about to take, and for what
          outcome,    \* history: what became of the offer of the last command
          commands, reinvites   \* bounded counters

vars == <<call, state, shown, session, attrs, sdp, neg, tsx, peer, at, outcome,
          commands, reinvites>>

Threads == {"dbus", "sip"}
Idle    == [step |-> "idle", for |-> None]
Begin(s, f) == [step |-> s, for |-> f]

Offered == {"sendonly", "sendrecv"}
NoSession == [dest |-> None, codec |-> None]
Sessions  == {NoSession} \cup [dest : Addresses \cup {Nowhere}, codec : Codecs]

\* The steps of sdp_media_update_cb, during which pjsip holds the dialog's lock.
Updating == {"destination", "destine", "dtmf", "media", "update media", "negotiated"}
Holding  == {"stop", "remove", "add", "check", "reinvite", "return"}
Resuming == {"init", "create", "start", "remove", "add", "check", "reinvite",
             "active", "return"}

Places == {Idle} \cup [step : Updating, for : {"ours", "peer's", "peer's empty"}]
                \cup [step : Holding, for : {"hold"}]
                \cup [step : Resuming, for : {"resume"}]
                \cup [step : {"delete"}, for : {None}]

TypeOK ==
    /\ call \in {"up", "gone", "crashed"}
    /\ state \in {"Active", "Hold"}
    /\ shown \in {"RINGING", "INCOMING", "CURRENT", "HOLD"}
    /\ session \in Sessions
    /\ attrs \subseteq Offered
    /\ sdp \in [remote : Addresses \cup {None}, codec : Codecs \cup {None}]
    /\ neg \in [state : {"done", "local offer", "remote offer"},
                offer : Offered \cup {None}]
    /\ tsx \in {None, "ours", "peer's", "peer's empty"}
    /\ peer \in [address : Addresses, codec : Codecs, told : Offered \cup {None}]
    /\ at \in [Threads -> Places]
    /\ outcome \in {None, "sent", "accepted", "refused", "ignored", "replaced"}
    /\ commands \in 0 .. MaxCommands /\ reinvites \in 0 .. MaxReinvites

\* newOutgoingCall has sent the INVITE, or transaction_request_cb announced the
\* call: an early session was started, with the default codec.
Init ==
    /\ call = "up" /\ state = "Active"
    /\ session = [dest |-> Nowhere, codec |-> "ulaw"]
    /\ attrs = {"sendrecv"}
    /\ sdp = [remote |-> None, codec |-> None]
    /\ \/ shown = "RINGING" /\ tsx = "ours"
          /\ neg = [state |-> "local offer", offer |-> "sendrecv"]
          /\ outcome = "sent"
       \/ shown = "INCOMING" /\ tsx = "peer's"
          /\ neg = [state |-> "remote offer", offer |-> None]
          /\ outcome = None
    /\ peer \in [address : Addresses, codec : Codecs, told : {None}]
    /\ at = [t \in Threads |-> Idle]
    /\ commands = 0 /\ reinvites = 0

-----------------------------------------------------------------------------
(* Threads, the dialog's lock, and a call deleted under a thread.          *)

Up == call = "up"

Goes(t, from, to) ==
    /\ Up /\ at[t].step = from
    /\ at' = [at EXCEPT ![t] = IF to = "idle" THEN Idle ELSE [@ EXCEPT !.step = to]]

LockFree(t) == \A u \in Threads \ {t} : at[u].step \notin Updating

\* Thread t deletes the SIPCall; if the other thread has it in hand, what
\* follows is undefined: nothing worse, or the end of the process.
Deletes(t) ==
    /\ call' \in {"gone"} \cup
                 IF \A u \in Threads \ {t} : at[u] = Idle THEN {} ELSE {"crashed"}
    /\ session' = NoSession
    /\ at' = [u \in Threads |-> Idle]
    /\ UNCHANGED <<state, shown, attrs, sdp, neg, tsx, peer, outcome, commands,
                   reinvites>>

\* Mutant: a session that is missing is made again.
UsesAnew(new) == session' = new /\ UNCHANGED call

\* A method of a session that has been deleted since it was tested.
Uses(new) ==
    IF session = NoSession THEN call' = "crashed" /\ UNCHANGED session
                           ELSE session' = new /\ UNCHANGED call

\* What an SDP with these attributes says: the sendonly is looked for first.
Direction(as) == IF "sendonly" \in as THEN "sendonly" ELSE "sendrecv"

-----------------------------------------------------------------------------
(* sdp_media_update_cb, in the thread whose pjsip call ended a negotiation.*)

\* Negotiation ends: the peer listens at a and speaks c, and knows this side as
\* told.  sessionAudioMedia_ grows at its end and only its head is read.
Negotiate(t, a, c, told, for) ==
    /\ neg' = [state |-> "done", offer |-> None]
    /\ peer' = [address |-> a, codec |-> c, told |-> told]
    /\ sdp' = [remote |-> a, codec |-> IF sdp.codec = None THEN c ELSE sdp.codec]
    /\ at' = [at EXCEPT ![t] = Begin("destination", for)]

\* Without a session updateDestinationIpAddress throws, and the DTMF payload is
\* not set either.
TestSession(t) ==
    /\ Goes(t, "destination", IF session = NoSession THEN "media" ELSE "destine")
    /\ UNCHANGED <<call, state, shown, session, attrs, sdp, neg, tsx, peer, outcome,
                   commands, reinvites>>

\* Mutant: only the first destination is taken.
updateDestinationOnce(t) ==
    /\ Goes(t, "destine", "dtmf")
    /\ Uses(IF session.dest = Nowhere THEN [session EXCEPT !.dest = sdp.remote]
                                      ELSE session)
    /\ UNCHANGED <<state, shown, attrs, sdp, neg, tsx, peer, outcome, commands,
                   reinvites>>

updateDestinationIpAddress(t) ==
    /\ Goes(t, "destine", "dtmf")
    /\ Uses([session EXCEPT !.dest = sdp.remote])
    /\ UNCHANGED <<state, shown, attrs, sdp, neg, tsx, peer, outcome, commands,
                   reinvites>>

setDtmfPayloadType(t) ==
    /\ Goes(t, "dtmf", "media")
    /\ Uses(session)
    /\ UNCHANGED <<state, shown, attrs, sdp, neg, tsx, peer, outcome, commands,
                   reinvites>>

\* getSessionMedia of the factory throws without a session.
CompareCodec(t) ==
    /\ Goes(t, "media", IF session.codec \in {None, sdp.codec} THEN "negotiated"
                                                               ELSE "update media")
    /\ UNCHANGED <<call, state, shown, session, attrs, sdp, neg, tsx, peer, outcome,
                   commands, reinvites>>

updateSessionMedia(t) ==
    /\ Goes(t, "update media", "negotiated")
    /\ Uses([session EXCEPT !.codec = sdp.codec])
    /\ UNCHANGED <<state, shown, attrs, sdp, neg, tsx, peer, outcome, commands,
                   reinvites>>

\* The callback returns.  The answer to our request ends it, and the first one
\* answers the call; the peer's is answered, and stays until its ACK.
Negotiated(t) ==
    /\ Goes(t, "negotiated", "idle")
    /\ tsx' = IF at[t].for = "peer's" THEN tsx ELSE None
    /\ shown' = IF shown \in {"RINGING", "INCOMING"} THEN "CURRENT" ELSE shown
    /\ outcome' = IF \/ at[t].for = "ours" /\ outcome = "sent"
                     \/ shown = "INCOMING"
                  THEN "accepted" ELSE outcome
    /\ UNCHANGED <<call, state, session, attrs, sdp, neg, peer, commands, reinvites>>

Update(t) ==
    \/ TestSession(t) \/ updateDestinationIpAddress(t) \/ setDtmfPayloadType(t)
    \/ CompareCodec(t) \/ updateSessionMedia(t) \/ Negotiated(t)

-----------------------------------------------------------------------------
(* The user: answer, onhold, offhold, hangup.                              *)

\* pjsip_inv_answer negotiates in the D-Bus thread.
answer ==
    /\ Up /\ shown = "INCOMING" /\ at["dbus"] = Idle /\ LockFree("dbus")
    /\ Negotiate("dbus", peer.address, peer.codec, Direction(attrs), "peer's")
    /\ UNCHANGED <<call, state, shown, session, attrs, tsx, outcome, commands,
                   reinvites>>

onhold(t) ==
    /\ Up /\ shown = "CURRENT" /\ at[t] = Idle
    /\ t = "sip" => "conference" \in PeerMay
    /\ commands < MaxCommands /\ commands' = commands + 1
    /\ state' = "Hold"
    /\ at' = [at EXCEPT ![t] = Begin("stop", "hold")]
    /\ outcome' = None
    /\ UNCHANGED <<call, shown, session, attrs, sdp, neg, tsx, peer, reinvites>>

stop(t) ==
    /\ Goes(t, "stop", "remove")
    /\ session' = NoSession
    /\ UNCHANGED <<call, state, shown, attrs, sdp, neg, tsx, peer, outcome, commands,
                   reinvites>>

offhold ==
    /\ Up /\ shown = "HOLD" /\ at["dbus"] = Idle
    /\ commands < MaxCommands /\ commands' = commands + 1
    /\ at' = [at EXCEPT !["dbus"] = Begin("init", "resume")]
    /\ outcome' = None
    /\ UNCHANGED <<call, state, shown, session, attrs, sdp, neg, tsx, peer, reinvites>>

\* A session left over is stopped.
initAudioRtpConfig(t) ==
    /\ Goes(t, "init", "create")
    /\ session' = NoSession
    /\ UNCHANGED <<call, state, shown, attrs, sdp, neg, tsx, peer, outcome, commands,
                   reinvites>>

\* Payload type 0, which is ULAW, until a codec is set.
initAudioSymmetricRtpSession(t) ==
    /\ Goes(t, "create", "start")
    /\ session' = [dest |-> Nowhere, codec |-> "ulaw"]
    /\ UNCHANGED <<call, state, shown, attrs, sdp, neg, tsx, peer, outcome, commands,
                   reinvites>>

\* With a session that another thread stopped it throws, and nobody catches it.
start(t) ==
    /\ Goes(t, "start", "remove")
    /\ Uses([session EXCEPT !.codec = IF sdp.codec = None THEN "ulaw" ELSE sdp.codec])
    /\ UNCHANGED <<state, shown, attrs, sdp, neg, tsx, peer, outcome, commands,
                   reinvites>>

\* What a command means to say of this side.
Meant(command) == IF command = "hold" THEN "sendonly" ELSE "sendrecv"

\* Mutant: the attribute of the last hold stays beside the new one.
removeNoAttributes(t) ==
    /\ Goes(t, "remove", "add")
    /\ UNCHANGED <<call, state, shown, session, attrs, sdp, neg, tsx, peer, outcome,
                   commands, reinvites>>

removeAttributes(t) ==
    /\ Goes(t, "remove", "add")
    /\ attrs' = {}
    /\ UNCHANGED <<call, state, shown, session, sdp, neg, tsx, peer, outcome, commands,
                   reinvites>>

addAttribute(t) ==
    /\ Goes(t, "add", "check")
    /\ attrs' = attrs \cup {Meant(at[t].for)}
    /\ UNCHANGED <<call, state, shown, session, sdp, neg, tsx, peer, outcome, commands,
                   reinvites>>

\* pjsip_inv_reinvite looks at invite_tsx before it takes the dialog's lock.
CheckPending(t) ==
    /\ Goes(t, "check", IF tsx # None THEN "return" ELSE "reinvite")
    /\ outcome' = IF tsx # None THEN "refused" ELSE outcome
    /\ UNCHANGED <<call, state, shown, session, attrs, sdp, neg, tsx, peer, commands,
                   reinvites>>

\* An offer the negotiator still holds is sent in place of the new one.  When a
\* transaction has come up meanwhile the request is dropped, the offer is not.
SIPSessionReinvite(t) ==
    /\ LockFree(t)
    /\ Goes(t, "reinvite",
            IF tsx = None /\ at[t].for = "resume" THEN "active" ELSE "return")
    /\ neg' = IF neg.state = "done"
              THEN [state |-> "local offer", offer |-> Direction(attrs)] ELSE neg
    /\ tsx' = IF tsx = None THEN "ours" ELSE tsx
    /\ outcome' = CASE tsx # None -> "refused"
                    [] tsx = None /\ neg.state # "done" -> "ignored"
                    [] OTHER -> IF outcome = None THEN "sent" ELSE outcome
    /\ UNCHANGED <<call, state, shown, session, attrs, sdp, peer, commands, reinvites>>

SetActive(t) ==
    /\ Goes(t, "active", "return")
    /\ state' = "Active"
    /\ UNCHANGED <<call, shown, session, attrs, sdp, neg, tsx, peer, outcome, commands,
                   reinvites>>

\* onHoldCall and offHoldCall tell the client the same whatever came out.
Return(t) ==
    /\ Goes(t, "return", "idle")
    /\ shown' = IF at[t].for = "hold" THEN "HOLD" ELSE "CURRENT"
    /\ UNCHANGED <<call, state, session, attrs, sdp, neg, tsx, peer, outcome, commands,
                   reinvites>>

\* pjsip_inv_end_session takes the dialog's lock; the call is deleted after.
hangup ==
    /\ Up /\ shown # "INCOMING" /\ at["dbus"] = Idle /\ LockFree("dbus")
    /\ at' = [at EXCEPT !["dbus"] = Begin("delete", None)]
    /\ UNCHANGED <<call, state, shown, session, attrs, sdp, neg, tsx, peer, outcome,
                   commands, reinvites>>

removeCall == Up /\ at["dbus"].step = "delete" /\ Deletes("dbus")

Step(t) ==
    \/ Update(t) \/ stop(t) \/ initAudioRtpConfig(t) \/ initAudioSymmetricRtpSession(t)
    \/ start(t) \/ removeAttributes(t) \/ addAttribute(t) \/ CheckPending(t)
    \/ SIPSessionReinvite(t) \/ SetActive(t) \/ Return(t)

-----------------------------------------------------------------------------
(* The peer, through pjsip and the SIP thread.                             *)

Receives == Up /\ at["sip"] = Idle /\ LockFree("sip")

\* 2xx to our INVITE or re-INVITE, from any address.
Accepts(a, c) ==
    /\ Receives /\ tsx = "ours"
    /\ c = peer.codec \/ "codec" \in PeerMay
    /\ Negotiate("sip", a, c, neg.offer, "ours")
    /\ UNCHANGED <<call, state, shown, session, attrs, tsx, outcome, commands,
                   reinvites>>

\* Another final answer cancels the offer; a challenge that no password meets
\* leaves it in the negotiator.
Refuses(how) ==
    /\ Receives /\ tsx = "ours" /\ shown # "RINGING"
    /\ how \in PeerMay \cap {"refuse", "challenge"}
    /\ neg' = IF how = "refuse" THEN [state |-> "done", offer |-> None] ELSE neg
    /\ tsx' = None
    /\ outcome' = "refused"
    /\ UNCHANGED <<call, state, shown, session, attrs, sdp, peer, at, commands,
                   reinvites>>

\* No common codec: sdp_media_update_cb hangs up and then uses the call it deleted.
Mismatches ==
    /\ Receives /\ tsx = "ours" /\ "mismatch" \in PeerMay
    /\ call' \in {"gone", "crashed"}
    /\ session' = NoSession /\ at' = [t \in Threads |-> Idle]
    /\ UNCHANGED <<state, shown, attrs, sdp, neg, tsx, peer, outcome, commands,
                   reinvites>>

\* BYE or CANCEL; our request times out, or the first one is refused.
PeerHangsUp == Receives /\ Deletes("sip")

Fails == Receives /\ tsx = "ours" /\ "lose" \in PeerMay /\ Deletes("sip")

\* pjsip answers a re-INVITE that crosses another by itself.
MayReinvite ==
    /\ Receives /\ tsx = None
    /\ shown \in {"CURRENT", "HOLD"}
    /\ reinvites < MaxReinvites /\ reinvites' = reinvites + 1

\* sdp_request_offer_cb answers with localSession_; but an offer that meets one
\* of ours in the negotiator is taken for its answer, and itself gets none.
Reinvites(a, c) ==
    /\ "reinvite" \in PeerMay /\ MayReinvite
    /\ c = peer.codec \/ "codec" \in PeerMay
    /\ tsx' = "peer's"
    /\ Negotiate("sip", a, c, IF neg.state = "done" THEN Direction(attrs) ELSE peer.told,
                 "peer's")
    /\ UNCHANGED <<call, state, shown, session, attrs, outcome, commands>>

\* sdp_create_offer_cb builds localSession_ anew; the answer comes in the ACK.
ReinvitesEmpty ==
    /\ "empty" \in PeerMay /\ MayReinvite
    /\ attrs' = {"sendrecv"}
    /\ IF neg.state = "done"
       THEN tsx' = "peer's empty" /\ neg' = [state |-> "local offer", offer |-> "sendrecv"]
       ELSE UNCHANGED <<tsx, neg>>
    /\ outcome' = IF outcome = None THEN "replaced" ELSE outcome
    /\ UNCHANGED <<call, state, shown, session, sdp, peer, at, commands>>

\* Or the transaction times out.
Acknowledges ==
    /\ Receives /\ tsx = "peer's" /\ shown # "INCOMING"
    /\ tsx' = None
    /\ UNCHANGED <<call, state, shown, session, attrs, sdp, neg, peer, at, outcome,
                   commands, reinvites>>

AnswersInAck(a) ==
    /\ Receives /\ tsx = "peer's empty"
    /\ Negotiate("sip", a, peer.codec, neg.offer, "peer's empty")
    /\ outcome' = IF outcome = "accepted" THEN "replaced" ELSE outcome
    /\ UNCHANGED <<call, state, shown, session, attrs, tsx, commands, reinvites>>

EndsRequest ==
    \/ \E a \in Addresses, c \in Codecs : Accepts(a, c)
    \/ \E how \in {"refuse", "challenge"} : Refuses(how)
    \/ Mismatches \/ Fails \/ Acknowledges
    \/ \E a \in Addresses : AnswersInAck(a)

Next ==
    \/ answer \/ offhold \/ hangup \/ removeCall
    \/ \E t \in Threads : onhold(t) \/ Step(t)
    \/ EndsRequest \/ PeerHangsUp \/ ReinvitesEmpty
    \/ \E a \in Addresses, c \in Codecs : Reinvites(a, c)

Spec == Init /\ [][Next]_vars

\* Both threads run; every INVITE transaction is answered, acknowledged or times
\* out, since the event thread polls for ever.
FairSpec ==
    /\ Spec
    /\ \A t \in Threads : WF_vars(Step(t))
    /\ WF_vars(EndsRequest) /\ WF_vars(removeCall)

-----------------------------------------------------------------------------

Quiet == Up /\ tsx = None /\ \A t \in Threads : at[t] = Idle

\* Held, a call has no session; active, its session sends to where the peer
\* listens, in the codec agreed on; and the client knows which of the two it is.
SoundAgrees ==
    IF state = "Hold"
    THEN shown = "HOLD" /\ session = NoSession
    ELSE /\ shown = "CURRENT"
         /\ session = [dest |-> peer.address, codec |-> peer.codec]

PeerAgrees == peer.told = IF state = "Hold" THEN "sendonly" ELSE "sendrecv"

\* Whenever nothing is going on and the offer of the user's last hold, resume or
\* answer was accepted, this side, the peer and the client agree about the call:
\* whatever the peer asked for meanwhile, wherever it moved, and whichever hold
\* or resume was refused before.  A re-INVITE without an offer is answered with a
\* new one that forgets the hold: of it only the sound is right.
AcceptedAgrees ==
    Quiet /\ outcome \in {"accepted", "replaced"} =>
        SoundAgrees /\ (outcome = "accepted" => PeerAgrees)

\* A call that is shown held sends nothing, as soon as the command has returned:
\* no late answer and no request of the peer brings its session back.
HeldIsStill ==
    Up /\ shown = "HOLD" /\ at["dbus"] = Idle => session = NoSession

\* A hold or resume that was sent comes to an end: they agree, or it was refused,
\* the user went on to something else, or the call is over.
RequestsEnd ==
    (outcome = "sent" /\ at["dbus"] = Idle) ~>
        ((Quiet /\ SoundAgrees /\ PeerAgrees)
         \/ outcome \in {"refused", "replaced"} \/ at["dbus"] # Idle \/ ~Up)
=============================================================================
