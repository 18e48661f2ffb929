------------------------------ MODULE CallManager ------------------------------
(***************************************************************************)
(* The daemon's call control as its users drive it: a client on D-Bus and  *)
(* the peers, whose messages the SIP link turns into callbacks.  One step  *)
(* is one whole handler, run to its end before the next one starts; what   *)
(* the two threads do to each other inside a handler is the subject of     *)
(* AnswerRace.                                                             *)
(*                                                                         *)
(* The client (src/gnome) offers for a call the commands its state allows, *)
(* and knows that state from the daemon's signals: seen[c] is the state    *)
(* the client has last been told.  When Lag is FALSE it is told at once.   *)
(***************************************************************************)
EXTENDS CallControl

CONSTANTS Placed,      \* the call ids the client makes up for calls it places
          Received,    \* the call ids the daemon makes up for incoming calls
          Fragile,     \* the calls whose peer may become unreachable
          Lag,         \* whether signals reach the client late
          JoinsFailed  \* whether the client lets the user drag a failed call

ASSUME OriginAssumption == Placed \cup Received \subseteq Calls
ASSUME FragileAssumption == Fragile \subseteq Calls
ASSUME ClientAssumption == Lag \in BOOLEAN /\ JoinsFailed \in BOOLEAN

VARIABLES m,     \* the state of the daemon, see CallControl
          seen   \* per call: the state the client knows

vars == <<m, seen>>

TypeOK ==
    /\ m \in ManagerStates
    /\ seen \in [Calls -> {"NONE", "DIALING", "RINGING", "INCOMING", "CURRENT",
                           "HOLD", "FAILURE"}]

Init == m = Start /\ seen = m.shown

\* The daemon gets to state n, if it still runs.
Do(n) ==
    /\ ~m.aborted
    /\ m' = n
    /\ seen' = IF Lag THEN seen ELSE n.shown

\* A call id nobody uses: of it nothing is left anywhere.
Unused(c) ==
    /\ c \notin m.account \cup m.live \cup m.waiting
    /\ m.current # c
    /\ \A b \in m.bound : c \notin b
    /\ \A f \in m.confs : c \notin m.conf[f].parts
    /\ m.shown[c] = "NONE" /\ seen[c] = "NONE"

UnusedConf(f) ==
    /\ f \notin m.confs
    /\ m.current # f
    /\ \A c \in Calls : m.call[c].confId # f

\* A call the client shows on its own, not below a conference.
Single(c) ==
    /\ seen[c] # "NONE"
    /\ seen[c] = "FAILURE" => JoinsFailed
    /\ m.call[c].confId = None

\* The calls of a set whose INVITE gets sent.
Sent(calls) == {s \in SUBSET calls : calls \ s \subseteq Fragile}

------------------------------------------------------------------------------
(***************************************************************************)
(* The commands of the client.                                             *)
(***************************************************************************)

PlaceCall(c) ==
    /\ c \in Placed
    /\ Unused(c)
    /\ \E sent \in Sent({c}) : Do(outgoingCall(m, c, None, c \in sent))

PlaceConference(list, f) ==
    /\ \A c \in list : Unused(c)
    /\ UnusedConf(f)
    /\ \E sent \in Sent(list) :
          Do(createConfFromParticipantList(m, f, list, sent))

Accept(c) == seen[c] = "INCOMING" /\ Do(answerCall(m, c))

Refuse(c) == seen[c] = "INCOMING" /\ Do(refuseCall(m, c))

HangUp(c) ==
    /\ seen[c] \in {"DIALING", "RINGING", "CURRENT", "HOLD", "FAILURE"}
    /\ Do(hangupCall(m, c))

Hold(c) == seen[c] = "CURRENT" /\ Do(onHoldCall(m, c))

Unhold(c) == seen[c] = "HOLD" /\ Do(offHoldCall(m, c))

Transfer(c) == seen[c] = "CURRENT" /\ Do(transferCall(m, c))

JoinParticipant(c, d, f) ==
    /\ Single(c) /\ Single(d)
    /\ UnusedConf(f)
    /\ Do(joinParticipant(m, f, c, d))

AddParticipant(c, f) ==
    Single(c) /\ f \in m.confs /\ Do(addParticipant(m, c, f))

DetachParticipant(c) ==
    m.call[c].confId # None /\ Do(detachParticipant(m, c))

AddMainParticipant(f) ==
    /\ f \in m.confs
    /\ m.conf[f].state = "ACTIVE_DETACHED"
    /\ Do(addMainParticipant(m, f))

JoinConference(f, g) ==
    {f, g} \subseteq m.confs /\ Do(joinConference(m, f, g))

HoldConference(f) ==
    /\ f \in m.confs
    /\ m.conf[f].state # "HOLD"
    /\ Do(holdConference(m, f))

UnholdConference(f) ==
    /\ f \in m.confs
    /\ m.conf[f].state = "HOLD"
    /\ Do(unHoldConference(m, f))

HangUpConference(f) == f \in m.confs /\ Do(hangupConference(m, f))

------------------------------------------------------------------------------
(***************************************************************************)
(* The peers and the network.                                              *)
(***************************************************************************)

Incoming(c) == c \in Received /\ Unused(c) /\ Do(incomingCall(m, c))

PeerRings(c) ==
    /\ c \in m.live
    /\ m.call[c].type = "Outgoing" /\ m.call[c].conn = "Progressing"
    /\ Do(peerRingingCall(m, c))

PeerAnswers(c) ==
    /\ c \in m.live
    /\ m.call[c].type = "Outgoing" /\ m.call[c].conn # "Connected"
    /\ Do(peerAnsweredCall(m, c))

\* A re-INVITE of the peer: pjsip answers it.
PeerReinvites(c) ==
    /\ c \in m.live
    /\ m.call[c].conn = "Connected" /\ m.call[c].invite = "none"
    /\ Do([m EXCEPT !.call[c].invite = "other"])

\* The peer's ACK, or its final answer to a re-INVITE.
InviteEnds(c) ==
    /\ c \in m.live
    /\ m.call[c].conn = "Connected" /\ m.call[c].invite # "none"
    /\ Do([m EXCEPT !.call[c].invite = "none"])

PeerCloses(c) == c \in m.live /\ Do(SIPCallClosed(m, c))

PeerFails(c) == c \in m.live /\ Do(SIPCallServerFailure(m, c))

CutOff(c) ==
    /\ c \in Fragile \cap m.live
    /\ Do([m EXCEPT !.cutOff = @ \cup {c}])

Reach(c) == c \in m.cutOff /\ Do([m EXCEPT !.cutOff = @ \ {c}])

\* The client learns the call's present state.
Signal(c) ==
    /\ seen[c] # m.shown[c]
    /\ seen' = [seen EXCEPT ![c] = m.shown[c]]
    /\ UNCHANGED m

------------------------------------------------------------------------------

CallStep(c) ==
    \/ PlaceCall(c) \/ Accept(c) \/ Refuse(c) \/ HangUp(c) \/ Hold(c)
    \/ Unhold(c) \/ Transfer(c) \/ DetachParticipant(c)
    \/ Incoming(c) \/ PeerRings(c) \/ PeerAnswers(c) \/ PeerCloses(c)
    \/ PeerReinvites(c) \/ InviteEnds(c) \/ PeerFails(c) \/ CutOff(c) \/ Reach(c)

ConferenceStep(f) ==
    \/ AddMainParticipant(f) \/ HoldConference(f) \/ UnholdConference(f)
    \/ HangUpConference(f)
    \/ \E c \in Calls : AddParticipant(c, f)
    \/ \E c, d \in Calls : c # d /\ JoinParticipant(c, d, f)
    \/ \E list \in SUBSET Placed :
          Cardinality(list) > 1 /\ PlaceConference(list, f)
    \/ \E g \in Confs : f # g /\ JoinConference(f, g)

Next ==
    \/ \E c \in Calls : CallStep(c) \/ Signal(c)
    \/ \E f \in Confs : ConferenceStep(f)

Spec == Init /\ [][Next]_vars

------------------------------------------------------------------------------
(***************************************************************************)
(* Membership of calls and conferences.                                    *)
(***************************************************************************)

\* A conference counts its participants itself (Conference::_nbParticipant),
\* apart from the set it keeps, and processRemainingParticipant decides by the
\* count.  The two agree and a conference of fewer than two participants has
\* been dissolved, whichever way its participants came and went.
ParticipantsCounted ==
    \A f \in m.confs :
        /\ m.conf[f].nb = Cardinality(m.conf[f].parts)
        /\ m.conf[f].nb >= 2

\* A call is in a conference's set exactly when the call exists and carries
\* the conference's id: hanging up, detaching, failing, moving between
\* conferences and dissolving one leave both sides in step.
Membership ==
    \A f \in m.confs, c \in Calls :
        c \in m.conf[f].parts <=> c \in m.live /\ m.call[c].confId = f

\* No call carries the id of a conference that is gone: its audio could not be
\* connected any more and it could neither be detached nor added elsewhere.
ConfIdNamesConference ==
    \A c \in m.live : m.call[c].confId \in {None} \cup m.confs

\* Two calls are on one line only when they are in one conference: nobody hears
\* a stranger, also not somebody who left the conference or was put on hold.
ConferencesAreSeparate ==
    \A c, d \in Calls :
        c # d /\ {c, d} \in m.bound =>
            m.call[c].confId = m.call[d].confId /\ m.call[c].confId # None

Talking(c) ==
    /\ c \in m.live
    /\ m.call[c].state = "Active" /\ m.call[c].conn = "Connected"

\* All participants that talk hear each other: in whatever order they joined,
\* answered, were held, resumed and moved, each pair has been bound by one of
\* the two, also when the conference held others on its way.
ParticipantsHearEachOther ==
    \A f \in m.confs : \A c, d \in m.conf[f].parts :
        c # d /\ Talking(c) /\ Talking(d) => {c, d} \in m.bound

------------------------------------------------------------------------------
(***************************************************************************)
(* What the daemon remembers of a call.                                    *)
(***************************************************************************)

\* _nbIncomingWaitingCall, by which the daemon decides to ring or to beep, is
\* the number of calls that wait; each exists, is incoming and not answered.
WaitingCounted ==
    /\ m.nbWaiting = Cardinality(m.waiting)
    /\ \A c \in m.waiting :
          /\ c \in m.live
          /\ m.call[c].type = "Incoming" /\ m.call[c].conn = "Ringing"

\* A call that has an account has a Call object in the link: nothing is left
\* of it when it ends, refused, closed by the peer or failed.
KnownCalls == m.account \subseteq m.live

\* No handler uses a Call that the link does not have.
NoNullCall == ~m.aborted

\* A step that hangs up a conference whose calls the daemon all has accounts
\* for leaves neither the conference nor any of them, although each hang-up
\* changes the conference it walks through and the last ones find it gone.
HangUpConferenceEndsAll ==
    [][\A f \in Confs :
          HangUpConference(f) /\ m.conf[f].parts \subseteq m.account =>
              /\ f \notin m'.confs
              /\ m'.account \cap m.conf[f].parts = {}]_vars

\* onHoldCall: "Unbind calls in main buffer".  Whatever is done to the other
\* calls and to conferences, an answered call on hold gets the user's audio
\* again only as a participant, with its conference, entered or dissolved; or
\* by a command about that very call that the link refuses, which offHoldCall
\* and answerCall do not notice: the re-INVITE of a resume while an INVITE is
\* pending (the one of holding it, at the latest) or the peer is cut off, and
\* the second answer of a client that is behind.
OnHoldAndHeard ==
    {c \in m.live : /\ m.call[c].state = "Hold" /\ m.call[c].conn = "Connected"
                    /\ {c, Default} \in m.bound}

HeldStaysSilent ==
    [][\A c \in OnHoldAndHeard' \ OnHoldAndHeard :
          \/ m.call[c].confId # None \/ m'.call[c].confId # None
          \/ Unhold(c) /\ (m.current = c \/ ~Reinvited(m, c))
          \/ Accept(c) /\ m.call[c].conn = "Connected"]_vars

\* A call's streams end with it.  Only one that failed, however far it had got,
\* leaves its id bound (callFailure does not call removeStream).
Orphans == {c \in Calls \ m.live : \E b \in m.bound : c \in b}

StreamsEndWithCall == [][\A c \in Orphans' \ Orphans : PeerFails(c)]_vars

CurrentButUnheard ==
    {c \in m.live : /\ m.shown[c] = "CURRENT" /\ m.call[c].confId = None
                    /\ {c, Default} \notin m.bound}

\* What the peer of call d does, and the commands that end, hold or detach it.
Concerns(d) ==
    \/ Incoming(d) \/ PeerRings(d) \/ PeerAnswers(d) \/ PeerReinvites(d)
    \/ InviteEnds(d) \/ PeerCloses(d) \/ PeerFails(d) \/ HangUp(d) \/ Refuse(d)
    \/ Hold(d) \/ Transfer(d) \/ DetachParticipant(d)

\* The commands by which the user turns to d and leaves what is current.
TurnsTo(d) == PlaceCall(d) \/ Accept(d) \/ Unhold(d)

\* What concerns one call does not silence another that is shown as current and
\* is in no conference; nor does turning to a call, unless the user leaves a
\* conference for it (detachMainParticipant unbinds the user from everybody).
\* Steps that dissolve a conference are left out, removeConference does the
\* same; so are the commands that enter, join, hold or resume a conference.
OthersDoNotSilence ==
    [][\A c \in CurrentButUnheard' \ CurrentButUnheard :
          m.confs \subseteq m'.confs =>
              ~ \E d \in Calls \ {c} :
                    \/ Concerns(d)
                    \/ TurnsTo(d) /\ ~isConference(m, m.current)]_vars

------------------------------------------------------------------------------
(***************************************************************************)
(* What the comments and the D-Bus documentation say, and the handlers do  *)
(* not keep.                                                               *)
(***************************************************************************)

\* onHoldCall: "Unbind calls in main buffer".  An answered call on hold is not
\* connected to the user's microphone and speaker.
HeldIsSilent ==
    \A c \in m.live :
        m.call[c].state = "Hold" /\ m.call[c].conn = "Connected" =>
            {c, Default} \notin m.bound

\* accept: "Automatically put the current call on state HOLD".  When the user
\* talks to one call, in no conference, and accepts another, the first is on
\* hold afterwards.
AcceptHoldsCurrent ==
    [][\A c, d \in Calls :
          /\ c # d /\ Accept(c)
          /\ d \in m.account /\ Talking(d) /\ m.bound = {{d, Default}}
          => m'.shown[d] = "HOLD"]_vars

\* removeConference: "Unbind main participant audio from conference".  What
\* happens to a conference does not silence a call that is shown as the current
\* one and is in none.
CurrentIsHeard ==
    \A c \in m.live :
        m.shown[c] = "CURRENT" /\ m.call[c].confId = None =>
            {c, Default} \in m.bound

\* callStateChanged, CURRENT: "The normal active state of an answered call".
CurrentMeansAnswered ==
    \A c \in m.live :
        m.shown[c] = "CURRENT" => m.call[c].conn = "Connected"

\* The same state, as getCallDetails reports it to a client that asks, is that
\* of a call that talks.
TalkingIsCurrent ==
    \A c \in m.live : Talking(c) => getStateStr(m, c) = "CURRENT"

\* hangup: "Make sure user data is NULL in callbacks".  A call that was hung up
\* does not get the user's audio afterwards.
HungUpIsSilent ==
    \A c \in m.live \ m.account : \A b \in m.bound : c \notin b
===============================================================================
