---------------------------- MODULE MCCallManager ----------------------------
(***************************************************************************)
(* Parts of CallManager that a question needs more calls or conferences    *)
(* for than TLC can treat with every action, and CallManager with peers    *)
(* that answer INVITEs promptly, but those of the calls Slow.              *)
(***************************************************************************)
EXTENDS CallManager

CONSTANTS conf1, conf2,
          Slow   \* the calls whose INVITEs may stay pending from step to step

ASSUME SlowAssumption == Slow \subseteq Calls

TwoConferences == {conf1, conf2}

\* The peers of the other calls answer an INVITE before anything else happens.
Pending == {c \in Calls \ Slow : m.call[c].conn = "Connected" /\ m.call[c].invite # "none"}

\* An action constraint of the runs.
PromptPeers == Pending # {} => InviteEnds(FirstOf(Pending))

------------------------------------------------------------------------------
(***************************************************************************)
(* Two conferences of two answered calls each, reached by the handlers     *)
(* themselves, and then all that the client can do with them, while the    *)
(* peers hang up.  With Placed and Received empty no new call begins.      *)
(***************************************************************************)
\* Two calls have come in and been accepted, and are joined.
Conference(n, c, d, h) ==
    LET accept(k, e) == answerCall(incomingCall(k, e), e)
    IN  joinParticipant(accept(accept(n, c), d), h, c, d)

MoveInit == m = Conference(Conference(Start, 1, 2, conf1), 3, 4, conf2) /\ seen = m.shown

MoveNext ==
    \/ \E c \in Calls :
          \/ HangUp(c) \/ Hold(c) \/ Unhold(c) \/ DetachParticipant(c)
          \/ PeerCloses(c) \/ InviteEnds(c)
    \/ \E h \in Confs : ConferenceStep(h)

MoveSpec == MoveInit /\ [][MoveNext]_vars

------------------------------------------------------------------------------
\* Calls that come in, are accepted and hung up by the client; no more.
CallsNext == \E c \in Calls : Incoming(c) \/ Accept(c) \/ HangUp(c)

CallsSpec == Init /\ [][CallsNext]_vars
==============================================================================
