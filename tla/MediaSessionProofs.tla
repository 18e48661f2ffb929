------------------------- MODULE MediaSessionProofs -------------------------
(***************************************************************************)
(* Proofs about MediaSession: the types of its variables, that a held call *)
(* stays silent (HeldIsStill), and that a hold, resume or answer that was  *)
(* accepted leaves the sound, the peer and the client in agreement         *)
(* (AcceptedAgrees), for any number of addresses, codecs, commands and     *)
(* re-INVITEs.  The peer may do whatever it likes, but no other call's end *)
(* puts this one on hold from the SIP thread ("conference") and, for       *)
(* AcceptedAgrees, it keeps to the codec agreed on ("codec").              *)
(***************************************************************************)
EXTENDS MediaSession, TLAPS

\* While a negotiation is told of, the peer's address and the codec are known.
SdpKnown == \A t \in Threads :
    at[t].step \in Updating => sdp.remote # None /\ sdp.codec # None

\* TypeOK in two halves: what the daemon keeps of the call, and its dialog.
CallTyped ==
    /\ call \in {"up", "gone", "crashed"}
    /\ state \in {"Active", "Hold"}
    /\ shown \in {"RINGING", "INCOMING", "CURRENT", "HOLD"}
    /\ session \in Sessions
    /\ attrs \subseteq Offered
    /\ at \in [Threads -> Places]
    /\ commands \in 0 .. MaxCommands /\ reinvites \in 0 .. MaxReinvites

DialogTyped ==
    /\ sdp \in [remote : Addresses \cup {None}, codec : Codecs \cup {None}]
    /\ neg \in [state : {"done", "local offer", "remote offer"},
                offer : Offered \cup {None}]
    /\ tsx \in {None, "ours", "peer's", "peer's empty"}
    /\ peer \in [address : Addresses, codec : Codecs, told : Offered \cup {None}]
    /\ outcome \in {None, "sent", "accepted", "refused", "ignored", "replaced"}

LEMMA TypeHalves == TypeOK <=> CallTyped /\ DialogTyped
  BY DEF TypeOK, CallTyped, DialogTyped

LEMMA DialogKept ==
    ASSUME TypeOK, UNCHANGED <<sdp, neg, tsx, peer, outcome>>
    PROVE  DialogTyped'
  BY TypeHalves DEF DialogTyped

\* What a thread is at tells what for.
LEMMA PlaceFor ==
    ASSUME NEW p \in Places
    PROVE  /\ p.step \in Updating =>
                p \in [step : Updating, for : {"ours", "peer's", "peer's empty"}]
           /\ p.step \in Holding \cup Resuming =>
                \/ p \in [step : Holding, for : {"hold"}]
                \/ p \in [step : Resuming, for : {"resume"}]
           /\ p.step = "delete" => p = [step |-> "delete", for |-> None]
           /\ p.step = "idle" => p = Idle
  <1>1. CASE p = Idle
    BY <1>1 DEF Idle, Updating, Holding, Resuming
  <1>2. CASE p \in [step : Updating, for : {"ours", "peer's", "peer's empty"}]
    BY <1>2 DEF Updating, Holding, Resuming
  <1>3. CASE p \in [step : Holding, for : {"hold"}] \cup [step : Resuming, for : {"resume"}]
    BY <1>3 DEF Updating, Holding, Resuming
  <1>4. CASE p \in [step : {"delete"}, for : {None}]
    BY <1>4 DEF Updating, Holding, Resuming
  <1> QED BY <1>1, <1>2, <1>3, <1>4 DEF Places

\* A thread that moves on within a negotiation is at one of its steps.
LEMMA UpdatingPlace ==
    ASSUME NEW p \in Places, p.step \in Updating, NEW s \in Updating
    PROVE  [p EXCEPT !.step = s] \in Places
  <1>1. p \in [step : Updating, for : {"ours", "peer's", "peer's empty"}]
    BY PlaceFor
  <1>2. [p EXCEPT !.step = s] \in [step : Updating, for : {"ours", "peer's", "peer's empty"}]
    BY <1>1
  <1> QED BY <1>2 DEF Places

\* The steps that hold and resume have in common follow those of either.
LEMMA CommandPlace ==
    ASSUME NEW p \in Places, p.step \in Holding \cup Resuming,
           NEW s \in Holding \cap Resuming
    PROVE  [p EXCEPT !.step = s] \in Places
  <1>1. CASE p \in [step : Holding, for : {"hold"}]
    <2>1. [p EXCEPT !.step = s] \in [step : Holding, for : {"hold"}]
      BY <1>1
    <2> QED BY <2>1 DEF Places
  <1>2. CASE p \in [step : Resuming, for : {"resume"}]
    <2>1. [p EXCEPT !.step = s] \in [step : Resuming, for : {"resume"}]
      BY <1>2
    <2> QED BY <2>1 DEF Places
  <1> QED BY <1>1, <1>2, PlaceFor

\* Only a resume creates a session and becomes active.
LEMMA ResumingPlace ==
    ASSUME NEW p \in Places, p.step \in Resuming, p.step \notin Holding \/ p.for = "resume",
           NEW s \in Resuming
    PROVE  [p EXCEPT !.step = s] \in Places
  <1>1. p \in [step : Resuming, for : {"resume"}]
    BY PlaceFor DEF Holding, Resuming
  <1>2. [p EXCEPT !.step = s] \in [step : Resuming, for : {"resume"}]
    BY <1>1
  <1> QED BY <1>2 DEF Places

\* Goes leaves every thread at a place.
LEMMA GoesPlace ==
    ASSUME TypeOK, NEW t \in Threads, NEW from, NEW to, Goes(t, from, to),
           to = "idle" \/ [at[t] EXCEPT !.step = to] \in Places
    PROVE  at' \in [Threads -> Places] /\ at[t] \in Places /\ at[t].step = from
  BY DEF TypeOK, Goes, Places

\* The session that is used is there or nothing changes but the process.
LEMMA UsesTyped ==
    ASSUME TypeOK, NEW new, session # NoSession => new \in Sessions, Uses(new)
    PROVE  session' \in Sessions /\ call' \in {"up", "gone", "crashed"}
  BY DEF TypeOK, Uses

\* Which places a step leads to.
LEMMA PlacesOfSteps ==
    ASSUME TypeOK, NEW t \in Threads
    PROVE  /\ \A from, to \in Updating : Goes(t, from, to) => at' \in [Threads -> Places]
           /\ \A from \in Holding \cup Resuming, to \in Holding \cap Resuming :
                Goes(t, from, to) => at' \in [Threads -> Places]
           /\ \A from \in Resuming, to \in Resuming :
                Goes(t, from, to) /\ (from \notin Holding \/ at[t].for = "resume")
                    => at' \in [Threads -> Places]
           /\ \A from : Goes(t, from, "idle") => at' \in [Threads -> Places]
  <1>0. at \in [Threads -> Places] /\ at[t] \in Places
    BY DEF TypeOK
  <1>1. ASSUME NEW from \in Updating, NEW to \in Updating, Goes(t, from, to)
        PROVE  at' \in [Threads -> Places]
    <2>1. at[t].step \in Updating
      BY <1>1 DEF Goes
    <2>2. [at[t] EXCEPT !.step = to] \in Places
      BY <1>0, <2>1, UpdatingPlace
    <2> QED BY <2>2, <1>1, GoesPlace
  <1>2. ASSUME NEW from \in Holding \cup Resuming, NEW to \in Holding \cap Resuming,
               Goes(t, from, to)
        PROVE  at' \in [Threads -> Places]
    <2>1. at[t].step \in Holding \cup Resuming
      BY <1>2 DEF Goes
    <2>2. [at[t] EXCEPT !.step = to] \in Places
      BY <1>0, <2>1, CommandPlace
    <2> QED BY <2>2, <1>2, GoesPlace
  <1>3. ASSUME NEW from \in Resuming, NEW to \in Resuming, Goes(t, from, to),
               from \notin Holding \/ at[t].for = "resume"
        PROVE  at' \in [Threads -> Places]
    <2>1. at[t].step = from
      BY <1>3 DEF Goes
    <2>2. [at[t] EXCEPT !.step = to] \in Places
      BY <1>0, <1>3, <2>1, ResumingPlace
    <2> QED BY <2>2, <1>3, GoesPlace
  <1>4. ASSUME NEW from, Goes(t, from, "idle")
        PROVE  at' \in [Threads -> Places]
    BY <1>4, GoesPlace
  <1> QED BY <1>1, <1>2, <1>3, <1>4

\* The end of a negotiation leaves records of their types.
LEMMA NegotiateTyped ==
    ASSUME TypeOK, NEW t \in Threads, NEW a \in Addresses, NEW c \in Codecs,
           NEW told \in Offered \cup {None}, NEW for \in {"ours", "peer's", "peer's empty"},
           Negotiate(t, a, c, told, for)
    PROVE  /\ neg' \in [state : {"done", "local offer", "remote offer"},
                         offer : Offered \cup {None}]
           /\ peer' \in [address : Addresses, codec : Codecs, told : Offered \cup {None}]
           /\ sdp' \in [remote : Addresses \cup {None}, codec : Codecs \cup {None}]
           /\ at' \in [Threads -> Places]
  <1>1. neg' \in [state : {"done", "local offer", "remote offer"}, offer : Offered \cup {None}]
    BY DEF Negotiate
  <1>2. peer' \in [address : Addresses, codec : Codecs, told : Offered \cup {None}]
    BY DEF Negotiate
  <1>3. sdp' \in [remote : Addresses \cup {None}, codec : Codecs \cup {None}]
    BY DEF Negotiate, TypeOK
  <1>4. [step |-> "destination", for |-> for] \in Places
    BY DEF Places, Updating
  <1>5. at' \in [Threads -> Places]
    BY <1>4 DEF Negotiate, Begin, TypeOK
  <1> QED BY <1>1, <1>2, <1>3, <1>5

\* A thread that takes up a command, or puts it down, has a place.
LEMMA BeginTyped ==
    /\ Idle \in Places
    /\ Begin("stop", "hold") \in Places
    /\ Begin("init", "resume") \in Places
    /\ Begin("delete", None) \in Places
  BY DEF Places, Begin, Idle, Holding, Resuming

LEMMA DirectionTyped == \A as : Direction(as) \in Offered
  BY DEF Direction, Offered

LEMMA DeletesTyped ==
    ASSUME TypeOK, NEW t \in Threads, Deletes(t)
    PROVE  TypeOK' /\ SdpKnown'
  <1>1. at' = [u \in Threads |-> Idle]
    BY DEF Deletes
  <1>2. at' \in [Threads -> Places] /\ \A u \in Threads : at'[u].step = "idle"
    BY <1>1, BeginTyped DEF Idle
  <1>3. session' \in Sessions
    BY DEF Deletes, Sessions
  <1>4. call' \in {"up", "gone", "crashed"}
    BY DEF Deletes
  <1>5. UNCHANGED <<state, shown, attrs, sdp, neg, tsx, peer, outcome, commands, reinvites>>
    BY DEF Deletes
  <1>6. TypeOK'
    <2>1. CallTyped'
      BY <1>2, <1>3, <1>4, <1>5, TypeHalves DEF CallTyped
    <2>2. DialogTyped'
      BY <1>5, DialogKept
    <2> QED BY <2>1, <2>2 DEF TypeOK, CallTyped, DialogTyped
  <1>7. SdpKnown'
    BY <1>2 DEF SdpKnown, Updating
  <1> QED BY <1>6, <1>7

\* A thread's own steps keep the types.
LEMMA StepTyped ==
    ASSUME TypeOK, SdpKnown, NEW t \in Threads, Step(t)
    PROVE  TypeOK'
  <1> USE DEF Updating, Holding, Resuming
  <1>0. /\ "ulaw" \in Codecs /\ sdp.codec \in Codecs \cup {None}
        /\ sdp.remote \in Addresses \cup {None}
        /\ at[t] \in Places
    BY MediaSessionAssumption DEF TypeOK
  <1>s. session # NoSession => session \in [dest : Addresses \cup {Nowhere}, codec : Codecs]
    BY DEF TypeOK, Sessions
  <1>t. CallTyped /\ DialogTyped
    BY TypeHalves
  <1>w. CallTyped' /\ DialogTyped' => TypeOK'
    BY DEF TypeOK, CallTyped, DialogTyped
  <1>1. CASE TestSession(t)
    <2>1. at' \in [Threads -> Places]
      BY <1>1, PlacesOfSteps DEF TestSession
    <2>2. UNCHANGED <<call, state, shown, session, attrs, sdp, neg, tsx, peer, outcome,
                   commands, reinvites>>
      BY <1>1 DEF TestSession
    <2>3. CallTyped'
      BY <1>t, <2>1, <2>2 DEF CallTyped
    <2>4. DialogTyped'
      BY <2>1, <2>2, DialogKept
    <2> QED BY <1>w, <2>3, <2>4
  <1>2. CASE updateDestinationIpAddress(t)
    <2>1. at' \in [Threads -> Places]
      BY <1>2, PlacesOfSteps DEF updateDestinationIpAddress
    <2>2. sdp.remote \in Addresses
      BY <1>0, <1>2 DEF updateDestinationIpAddress, Goes, SdpKnown
    <2>3. session # NoSession => [session EXCEPT !.dest = sdp.remote] \in Sessions
      BY <1>s, <2>2 DEF Sessions
    <2>4. session' \in Sessions /\ call' \in {"up", "gone", "crashed"}
      BY <1>2, <2>3, UsesTyped DEF updateDestinationIpAddress
    <2>5. UNCHANGED <<state, shown, attrs, sdp, neg, tsx, peer, outcome, commands, reinvites>>
      BY <1>2 DEF updateDestinationIpAddress
    <2>6. CallTyped'
      BY <1>t, <2>1, <2>4, <2>5 DEF CallTyped
    <2>7. DialogTyped'
      BY <2>1, <2>4, <2>5, DialogKept
    <2> QED BY <1>w, <2>6, <2>7
  <1>3. CASE setDtmfPayloadType(t)
    <2>1. at' \in [Threads -> Places]
      BY <1>3, PlacesOfSteps DEF setDtmfPayloadType
    <2>2. session' \in Sessions /\ call' \in {"up", "gone", "crashed"}
      BY <1>3, <1>s, UsesTyped DEF setDtmfPayloadType, Sessions
    <2>3. UNCHANGED <<state, shown, attrs, sdp, neg, tsx, peer, outcome, commands, reinvites>>
      BY <1>3 DEF setDtmfPayloadType
    <2>4. CallTyped'
      BY <1>t, <2>1, <2>2, <2>3 DEF CallTyped
    <2>5. DialogTyped'
      BY <2>1, <2>2, <2>3, DialogKept
    <2> QED BY <1>w, <2>4, <2>5
  <1>4. CASE CompareCodec(t)
    <2>1. at' \in [Threads -> Places]
      BY <1>4, PlacesOfSteps DEF CompareCodec
    <2>2. UNCHANGED <<call, state, shown, session, attrs, sdp, neg, tsx, peer, outcome,
                   commands, reinvites>>
      BY <1>4 DEF CompareCodec
    <2>3. CallTyped'
      BY <1>t, <2>1, <2>2 DEF CallTyped
    <2>4. DialogTyped'
      BY <2>1, <2>2, DialogKept
    <2> QED BY <1>w, <2>3, <2>4
  <1>5. CASE updateSessionMedia(t)
    <2>1. at' \in [Threads -> Places]
      BY <1>5, PlacesOfSteps DEF updateSessionMedia
    <2>2. sdp.codec \in Codecs
      BY <1>0, <1>5 DEF updateSessionMedia, Goes, SdpKnown
    <2>3. session # NoSession => [session EXCEPT !.codec = sdp.codec] \in Sessions
      BY <1>s, <2>2 DEF Sessions
    <2>4. session' \in Sessions /\ call' \in {"up", "gone", "crashed"}
      BY <1>5, <2>3, UsesTyped DEF updateSessionMedia
    <2>5. UNCHANGED <<state, shown, attrs, sdp, neg, tsx, peer, outcome, commands, reinvites>>
      BY <1>5 DEF updateSessionMedia
    <2>6. CallTyped'
      BY <1>t, <2>1, <2>4, <2>5 DEF CallTyped
    <2>7. DialogTyped'
      BY <2>1, <2>4, <2>5, DialogKept
    <2> QED BY <1>w, <2>6, <2>7
  <1>6. CASE Negotiated(t)
    <2>1. at' \in [Threads -> Places]
      BY <1>6, PlacesOfSteps DEF Negotiated
    <2>2. CallTyped'
      BY <1>t, <1>6, <2>1 DEF Negotiated, CallTyped
    <2>3. DialogTyped'
      BY <1>t, <1>6 DEF Negotiated, DialogTyped
    <2> QED BY <1>w, <2>2, <2>3
  <1>7. CASE stop(t)
    <2>1. at' \in [Threads -> Places]
      BY <1>7, PlacesOfSteps DEF stop
    <2>2. session' \in Sessions
      BY <1>0, <1>7 DEF stop, Sessions
    <2>3. UNCHANGED <<call, state, shown, attrs, sdp, neg, tsx, peer, outcome, commands,
                   reinvites>>
      BY <1>7 DEF stop
    <2>4. CallTyped'
      BY <1>t, <2>1, <2>2, <2>3 DEF CallTyped
    <2>5. DialogTyped'
      BY <2>1, <2>2, <2>3, DialogKept
    <2> QED BY <1>w, <2>4, <2>5
  <1>8. CASE initAudioRtpConfig(t)
    <2>1. at' \in [Threads -> Places]
      BY <1>8, PlacesOfSteps DEF initAudioRtpConfig
    <2>2. session' \in Sessions
      BY <1>0, <1>8 DEF initAudioRtpConfig, Sessions
    <2>3. UNCHANGED <<call, state, shown, attrs, sdp, neg, tsx, peer, outcome, commands,
                   reinvites>>
      BY <1>8 DEF initAudioRtpConfig
    <2>4. CallTyped'
      BY <1>t, <2>1, <2>2, <2>3 DEF CallTyped
    <2>5. DialogTyped'
      BY <2>1, <2>2, <2>3, DialogKept
    <2> QED BY <1>w, <2>4, <2>5
  <1>9. CASE initAudioSymmetricRtpSession(t)
    <2>1. at' \in [Threads -> Places]
      BY <1>9, PlacesOfSteps DEF initAudioSymmetricRtpSession
    <2>2. session' \in Sessions
      BY <1>0, <1>9 DEF initAudioSymmetricRtpSession, Sessions
    <2>3. UNCHANGED <<call, state, shown, attrs, sdp, neg, tsx, peer, outcome, commands,
                   reinvites>>
      BY <1>9 DEF initAudioSymmetricRtpSession
    <2>4. CallTyped'
      BY <1>t, <2>1, <2>2, <2>3 DEF CallTyped
    <2>5. DialogTyped'
      BY <2>1, <2>2, <2>3, DialogKept
    <2> QED BY <1>w, <2>4, <2>5
  <1>10. CASE start(t)
    <2>1. at' \in [Threads -> Places]
      BY <1>10, PlacesOfSteps DEF start
    <2>2. (IF sdp.codec = None THEN "ulaw" ELSE sdp.codec) \in Codecs
      BY <1>0
    <2>3. session # NoSession =>
            [session EXCEPT !.codec = IF sdp.codec = None THEN "ulaw" ELSE sdp.codec] \in Sessions
      BY <1>s, <2>2 DEF Sessions
    <2>4. session' \in Sessions /\ call' \in {"up", "gone", "crashed"}
      BY <1>10, <2>3, UsesTyped DEF start
    <2>5. UNCHANGED <<state, shown, attrs, sdp, neg, tsx, peer, outcome, commands, reinvites>>
      BY <1>10 DEF start
    <2>6. CallTyped'
      BY <1>t, <2>1, <2>4, <2>5 DEF CallTyped
    <2>7. DialogTyped'
      BY <2>1, <2>4, <2>5, DialogKept
    <2> QED BY <1>w, <2>6, <2>7
  <1>11. CASE removeAttributes(t)
    <2>1. at' \in [Threads -> Places]
      BY <1>11, PlacesOfSteps DEF removeAttributes
    <2>2. attrs' \subseteq Offered
      BY <1>0, <1>11 DEF removeAttributes
    <2>3. UNCHANGED <<call, state, shown, session, sdp, neg, tsx, peer, outcome, commands,
                   reinvites>>
      BY <1>11 DEF removeAttributes
    <2>4. CallTyped'
      BY <1>t, <2>1, <2>2, <2>3 DEF CallTyped
    <2>5. DialogTyped'
      BY <2>1, <2>2, <2>3, DialogKept
    <2> QED BY <1>w, <2>4, <2>5
  <1>12. CASE addAttribute(t)
    <2>1. at' \in [Threads -> Places]
      BY <1>12, PlacesOfSteps DEF addAttribute
    <2>2. attrs' \subseteq Offered
      BY <1>0, <1>12 DEF addAttribute, TypeOK, Meant, Offered
    <2>3. UNCHANGED <<call, state, shown, session, sdp, neg, tsx, peer, outcome, commands,
                   reinvites>>
      BY <1>12 DEF addAttribute
    <2>4. CallTyped'
      BY <1>t, <2>1, <2>2, <2>3 DEF CallTyped
    <2>5. DialogTyped'
      BY <2>1, <2>2, <2>3, DialogKept
    <2> QED BY <1>w, <2>4, <2>5
  <1>13. CASE CheckPending(t)
    <2>1. at' \in [Threads -> Places]
      BY <1>13, PlacesOfSteps DEF CheckPending
    <2>2. outcome' \in {None, "sent", "accepted", "refused", "ignored", "replaced"}
      BY <1>0, <1>13 DEF CheckPending, TypeOK
    <2>3. UNCHANGED <<call, state, shown, session, attrs, sdp, neg, tsx, peer, commands,
                   reinvites>>
      BY <1>13 DEF CheckPending
    <2>4. CallTyped'
      BY <1>t, <2>1, <2>2, <2>3 DEF CallTyped
    <2>5. DialogTyped'
      BY <1>t, <2>1, <2>2, <2>3 DEF DialogTyped
    <2> QED BY <1>w, <2>4, <2>5
  <1>14. CASE SIPSessionReinvite(t)
    <2>1. at' \in [Threads -> Places]
      <3>1. CASE tsx = None /\ at[t].for = "resume"
        BY <1>14, <3>1, PlacesOfSteps DEF SIPSessionReinvite
      <3>2. CASE ~(tsx = None /\ at[t].for = "resume")
        BY <1>14, <3>2, PlacesOfSteps DEF SIPSessionReinvite
      <3> QED BY <3>1, <3>2
    <2>2. neg' \in [state : {"done", "local offer", "remote offer"}, offer : Offered \cup {None}]
      BY <1>14, DirectionTyped DEF SIPSessionReinvite, TypeOK
    <2>3. outcome' \in {None, "sent", "accepted", "refused", "ignored", "replaced"}
      BY <1>14 DEF SIPSessionReinvite, TypeOK
    <2>4. tsx' \in {None, "ours", "peer's", "peer's empty"}
      BY <1>14 DEF SIPSessionReinvite, TypeOK
    <2>5. UNCHANGED <<call, state, shown, session, attrs, sdp, peer, commands, reinvites>>
      BY <1>14 DEF SIPSessionReinvite
    <2>6. CallTyped'
      BY <1>t, <2>1, <2>2, <2>3, <2>4, <2>5 DEF CallTyped
    <2>7. DialogTyped'
      BY <1>t, <2>1, <2>2, <2>3, <2>4, <2>5 DEF DialogTyped
    <2> QED BY <1>w, <2>6, <2>7
  <1>15. CASE SetActive(t)
    <2>1. at' \in [Threads -> Places]
      BY <1>15, PlacesOfSteps DEF SetActive
    <2>2. state' \in {"Active", "Hold"}
      BY <1>0, <1>15 DEF SetActive
    <2>3. UNCHANGED <<call, shown, session, attrs, sdp, neg, tsx, peer, outcome, commands,
                   reinvites>>
      BY <1>15 DEF SetActive
    <2>4. CallTyped'
      BY <1>t, <2>1, <2>2, <2>3 DEF CallTyped
    <2>5. DialogTyped'
      BY <2>1, <2>2, <2>3, DialogKept
    <2> QED BY <1>w, <2>4, <2>5
  <1>16. CASE Return(t)
    <2>1. at' \in [Threads -> Places]
      BY <1>16, PlacesOfSteps DEF Return
    <2>2. shown' \in {"RINGING", "INCOMING", "CURRENT", "HOLD"}
      BY <1>0, <1>16 DEF Return
    <2>3. UNCHANGED <<call, state, session, attrs, sdp, neg, tsx, peer, outcome, commands,
                   reinvites>>
      BY <1>16 DEF Return
    <2>4. CallTyped'
      BY <1>t, <2>1, <2>2, <2>3 DEF CallTyped
    <2>5. DialogTyped'
      BY <2>1, <2>2, <2>3, DialogKept
    <2> QED BY <1>w, <2>4, <2>5
  <1> QED BY <1>1, <1>2, <1>3, <1>4, <1>5, <1>6, <1>7, <1>8, <1>9, <1>10, <1>11, <1>12,
             <1>13, <1>14, <1>15, <1>16 DEF Step, Update

\* Where a step of thread t leaves the threads.
LEMMA GoesWhere ==
    ASSUME TypeOK, NEW t \in Threads, NEW from, NEW to, Goes(t, from, to)
    PROVE  /\ at[t].step = from
           /\ at'[t].step = to
           /\ to # "idle" => at'[t].for = at[t].for
           /\ \A u \in Threads \ {t} : at'[u] = at[u]
  <1>1. at \in [Threads -> Places] /\ at[t] \in Places
    BY DEF TypeOK
  <1>2. at' = [at EXCEPT ![t] = IF to = "idle" THEN Idle ELSE [at[t] EXCEPT !.step = to]]
    BY DEF Goes
  <1>3. at'[t] = (IF to = "idle" THEN Idle ELSE [at[t] EXCEPT !.step = to])
        /\ \A u \in Threads \ {t} : at'[u] = at[u]
    BY <1>1, <1>2
  <1>4. \E s, f : at[t] = [step |-> s, for |-> f]
    BY <1>1 DEF Places, Idle
  <1>5. [at[t] EXCEPT !.step = to] = [step |-> to, for |-> at[t].for]
    BY <1>4
  <1> QED BY <1>3, <1>5 DEF Goes, Idle

\* No step of a thread's own changes what is negotiated.
LEMMA StepKnown ==
    ASSUME TypeOK, SdpKnown, NEW t \in Threads, Step(t)
    PROVE  SdpKnown'
  <1>1. ASSUME NEW from, NEW to, Goes(t, from, to), to \in Updating => from \in Updating,
               sdp' = sdp
        PROVE  SdpKnown'
    BY <1>1, GoesWhere DEF SdpKnown
  <1>2. CASE Update(t)
    BY <1>1, <1>2 DEF Update, TestSession, updateDestinationIpAddress, setDtmfPayloadType,
                      CompareCodec, updateSessionMedia, Negotiated, Updating
  <1>3. CASE ~Update(t)
    BY <1>1, <1>3 DEF Step, stop, initAudioRtpConfig, initAudioSymmetricRtpSession, start,
                      removeAttributes, addAttribute, CheckPending, SIPSessionReinvite,
                      SetActive, Return, Updating
  <1> QED BY <1>2, <1>3

\* A negotiation that ends tells what it agreed on.
LEMMA NegotiateKnown ==
    ASSUME TypeOK, NEW t \in Threads, NEW a \in Addresses, NEW c \in Codecs,
           NEW told, NEW for, Negotiate(t, a, c, told, for)
    PROVE  SdpKnown'
  <1>1. sdp'.remote # None /\ sdp'.codec # None
    BY MediaSessionAssumption DEF Negotiate
  <1> QED BY <1>1 DEF SdpKnown

\* A thread that takes up a command is not told of a negotiation.
LEMMA BeginKnown ==
    ASSUME TypeOK, SdpKnown, NEW t \in Threads, NEW p \in Places, p.step \notin Updating,
           at' = [at EXCEPT ![t] = p], sdp' = sdp
    PROVE  at' \in [Threads -> Places] /\ SdpKnown'
  BY DEF TypeOK, SdpKnown

\* The commands of the user keep the types.
LEMMA CommandTyped ==
    ASSUME TypeOK, SdpKnown,
           answer \/ offhold \/ hangup \/ removeCall \/ \E t \in Threads : onhold(t)
    PROVE  TypeOK' /\ SdpKnown'
  <1>t. CallTyped /\ DialogTyped /\ "dbus" \in Threads
    BY TypeHalves DEF Threads
  <1>w. CallTyped' /\ DialogTyped' => TypeOK'
    BY DEF TypeOK, CallTyped, DialogTyped
  <1>1. CASE answer
    <2>1. peer.address \in Addresses /\ peer.codec \in Codecs
      BY <1>t DEF DialogTyped
    <2>2. Negotiate("dbus", peer.address, peer.codec, Direction(attrs), "peer's")
          /\ UNCHANGED <<call, state, shown, session, attrs, tsx, outcome, commands, reinvites>>
      BY <1>1 DEF answer
    <2>3. SdpKnown'
      BY <1>t, <2>1, <2>2, NegotiateKnown
    <2>4. CallTyped' /\ DialogTyped'
      <3>1. /\ neg' \in [state : {"done", "local offer", "remote offer"}, offer : Offered \cup {None}]
            /\ peer' \in [address : Addresses, codec : Codecs, told : Offered \cup {None}]
            /\ sdp' \in [remote : Addresses \cup {None}, codec : Codecs \cup {None}]
            /\ at' \in [Threads -> Places]
        BY <1>t, <2>1, <2>2, DirectionTyped, NegotiateTyped
      <3>2. CallTyped'
        BY <1>t, <2>2, <3>1 DEF CallTyped
      <3>3. DialogTyped'
        BY <1>t, <2>2, <3>1 DEF DialogTyped
      <3> QED BY <3>2, <3>3
    <2> QED BY <1>w, <2>3, <2>4
  <1>2. CASE offhold
    <2>1. at' \in [Threads -> Places] /\ SdpKnown'
      BY <1>2, <1>t, BeginTyped, BeginKnown DEF offhold, Begin, Updating
    <2>2. CallTyped'
      BY <1>2, <1>t, <2>1, MediaSessionAssumption DEF offhold, CallTyped
    <2>3. DialogTyped'
      BY <1>2, <1>t DEF offhold, DialogTyped
    <2> QED BY <1>w, <2>1, <2>2, <2>3
  <1>3. CASE hangup
    <2>1. at' \in [Threads -> Places] /\ SdpKnown'
      BY <1>3, <1>t, BeginTyped, BeginKnown DEF hangup, Begin, Updating
    <2>2. CallTyped'
      BY <1>3, <1>t, <2>1 DEF hangup, CallTyped
    <2>3. DialogTyped'
      BY <1>3, <1>t DEF hangup, DialogTyped
    <2> QED BY <1>w, <2>1, <2>2, <2>3
  <1>4. CASE removeCall
    BY <1>4, <1>t, DeletesTyped DEF removeCall
  <1>5. ASSUME NEW t \in Threads, onhold(t)
        PROVE  TypeOK' /\ SdpKnown'
    <2>1. at' \in [Threads -> Places] /\ SdpKnown'
      BY <1>5, BeginTyped, BeginKnown DEF onhold, Begin, Updating
    <2>2. CallTyped'
      BY <1>5, <1>t, <2>1, MediaSessionAssumption DEF onhold, CallTyped
    <2>3. DialogTyped'
      BY <1>5, <1>t DEF onhold, DialogTyped
    <2> QED BY <1>w, <2>1, <2>2, <2>3
  <1> QED BY <1>1, <1>2, <1>3, <1>4, <1>5

\* A negotiation that the peer ended, when the rest of the step is typed.
LEMMA PeerNegotiates ==
    ASSUME TypeOK, NEW a \in Addresses, NEW c \in Codecs, NEW told \in Offered \cup {None},
           NEW for \in {"ours", "peer's", "peer's empty"},
           Negotiate("sip", a, c, told, for),
           UNCHANGED <<call, state, shown, session, attrs, commands>>,
           tsx' \in {None, "ours", "peer's", "peer's empty"},
           outcome' \in {None, "sent", "accepted", "refused", "ignored", "replaced"},
           reinvites' \in 0 .. MaxReinvites
    PROVE  TypeOK' /\ SdpKnown'
  <1>t. CallTyped /\ "sip" \in Threads
    BY TypeHalves DEF Threads
  <1>1. /\ neg' \in [state : {"done", "local offer", "remote offer"}, offer : Offered \cup {None}]
        /\ peer' \in [address : Addresses, codec : Codecs, told : Offered \cup {None}]
        /\ sdp' \in [remote : Addresses \cup {None}, codec : Codecs \cup {None}]
        /\ at' \in [Threads -> Places]
    BY <1>t, NegotiateTyped
  <1>2. SdpKnown'
    BY <1>t, NegotiateKnown
  <1>3. CallTyped'
    BY <1>t, <1>1 DEF CallTyped
  <1>4. DialogTyped'
    BY <1>1 DEF DialogTyped
  <1> QED BY <1>2, <1>3, <1>4 DEF TypeOK, CallTyped, DialogTyped

\* What the peer does keeps the types.
LEMMA PeerTyped ==
    ASSUME TypeOK, SdpKnown,
           EndsRequest \/ PeerHangsUp \/ ReinvitesEmpty
             \/ \E a \in Addresses, c \in Codecs : Reinvites(a, c)
    PROVE  TypeOK' /\ SdpKnown'
  <1>t. CallTyped /\ DialogTyped /\ "sip" \in Threads
    BY TypeHalves DEF Threads
  <1>w. CallTyped' /\ DialogTyped' => TypeOK'
    BY DEF TypeOK, CallTyped, DialogTyped
  <1>p. /\ neg.offer \in Offered \cup {None} /\ peer.told \in Offered \cup {None}
        /\ peer.codec \in Codecs
        /\ tsx \in {None, "ours", "peer's", "peer's empty"}
        /\ outcome \in {None, "sent", "accepted", "refused", "ignored", "replaced"}
        /\ reinvites \in 0 .. MaxReinvites
    BY <1>t DEF DialogTyped, CallTyped
  <1>1. ASSUME NEW a \in Addresses, NEW c \in Codecs, Accepts(a, c)
        PROVE  TypeOK' /\ SdpKnown'
    BY <1>1, <1>p, PeerNegotiates DEF Accepts
  <1>2. ASSUME NEW how \in {"refuse", "challenge"}, Refuses(how)
        PROVE  TypeOK' /\ SdpKnown'
    <2>1. CallTyped'
      BY <1>2, <1>t DEF Refuses, CallTyped
    <2>2. DialogTyped'
      BY <1>2, <1>t DEF Refuses, DialogTyped
    <2>3. SdpKnown'
      BY <1>2 DEF Refuses, SdpKnown
    <2> QED BY <1>w, <2>1, <2>2, <2>3
  <1>3. CASE Mismatches
    <2>1. at' = [t \in Threads |-> Idle] /\ session' \in Sessions
      BY <1>3 DEF Mismatches, Sessions
    <2>2. at' \in [Threads -> Places] /\ \A u \in Threads : at'[u].step = "idle"
      BY <2>1, BeginTyped DEF Idle
    <2>3. CallTyped'
      BY <1>3, <1>t, <2>1, <2>2 DEF Mismatches, CallTyped
    <2>4. DialogTyped'
      BY <1>3, <1>t DEF Mismatches, DialogTyped
    <2>5. SdpKnown'
      BY <2>2 DEF SdpKnown, Updating
    <2> QED BY <1>w, <2>3, <2>4, <2>5
  <1>4. CASE Fails \/ PeerHangsUp
    BY <1>4, <1>t, DeletesTyped DEF Fails, PeerHangsUp
  <1>5. CASE Acknowledges
    <2>1. CallTyped'
      BY <1>5, <1>t DEF Acknowledges, CallTyped
    <2>2. DialogTyped'
      BY <1>5, <1>t DEF Acknowledges, DialogTyped
    <2>3. SdpKnown'
      BY <1>5 DEF Acknowledges, SdpKnown
    <2> QED BY <1>w, <2>1, <2>2, <2>3
  <1>6. ASSUME NEW a \in Addresses, AnswersInAck(a)
        PROVE  TypeOK' /\ SdpKnown'
    BY <1>6, <1>p, PeerNegotiates DEF AnswersInAck
  <1>7. ASSUME NEW a \in Addresses, NEW c \in Codecs, Reinvites(a, c)
        PROVE  TypeOK' /\ SdpKnown'
    <2>1. reinvites' \in 0 .. MaxReinvites
      BY <1>7, <1>p, MediaSessionAssumption DEF Reinvites, MayReinvite
    <2>2. (IF neg.state = "done" THEN Direction(attrs) ELSE peer.told) \in Offered \cup {None}
      BY <1>p, DirectionTyped
    <2> QED BY <1>7, <1>p, <2>1, <2>2, PeerNegotiates DEF Reinvites
  <1>8. CASE ReinvitesEmpty
    <2>1. reinvites' \in 0 .. MaxReinvites
      <3>1. reinvites < MaxReinvites /\ reinvites' = reinvites + 1 /\ MaxReinvites \in Nat
        BY <1>8, MediaSessionAssumption DEF ReinvitesEmpty, MayReinvite
      <3>2. reinvites \in 0 .. MaxReinvites
        BY <1>p
      <3> QED BY <3>1, <3>2
    <2>2. attrs' \subseteq Offered /\ "sendrecv" \in Offered
      BY <1>8 DEF ReinvitesEmpty, Offered
    <2>3. CallTyped'
      BY <1>8, <1>t, <2>1, <2>2 DEF ReinvitesEmpty, CallTyped
    <2>4. neg' \in [state : {"done", "local offer", "remote offer"}, offer : Offered \cup {None}]
          /\ tsx' \in {None, "ours", "peer's", "peer's empty"}
      <3>1. CASE neg.state = "done"
        <4>1. tsx' = "peer's empty" /\ neg' = [state |-> "local offer", offer |-> "sendrecv"]
          BY <1>8, <3>1 DEF ReinvitesEmpty
        <4> QED BY <2>2, <4>1
      <3>2. CASE neg.state # "done"
        BY <1>8, <1>t, <3>2 DEF ReinvitesEmpty, DialogTyped
      <3> QED BY <3>1, <3>2
    <2>5. DialogTyped'
      BY <1>8, <1>t, <2>4 DEF ReinvitesEmpty, DialogTyped
    <2>6. SdpKnown'
      BY <1>8 DEF ReinvitesEmpty, SdpKnown
    <2> QED BY <1>w, <2>3, <2>5, <2>6
  <1> QED BY <1>1, <1>2, <1>3, <1>4, <1>5, <1>6, <1>7, <1>8 DEF EndsRequest

\* Every reachable state of the session, the dialog and the two threads has its
\* type, whatever the peer may do; an address and a codec are known whenever
\* sdp_media_update_cb is told of a negotiation.
THEOREM MediaTypeCorrect == Spec => [](TypeOK /\ SdpKnown)
  <1>1. Init => TypeOK /\ SdpKnown
    <2> SUFFICES ASSUME Init PROVE TypeOK /\ SdpKnown
      OBVIOUS
    <2>1. at = [t \in Threads |-> Idle]
      BY DEF Init
    <2>2. at \in [Threads -> Places] /\ \A u \in Threads : at[u].step = "idle"
      BY <2>1, BeginTyped DEF Idle
    <2>3. CallTyped
      <3>1. session \in Sessions
        BY MediaSessionAssumption DEF Init, Sessions
      <3>2. attrs \subseteq Offered
        BY DEF Init, Offered
      <3>3. commands \in 0 .. MaxCommands /\ reinvites \in 0 .. MaxReinvites
        <4>1. commands = 0 /\ reinvites = 0 /\ MaxCommands \in Nat /\ MaxReinvites \in Nat
          BY MediaSessionAssumption DEF Init
        <4> QED BY <4>1
      <3>4. call = "up" /\ state = "Active" /\ shown \in {"RINGING", "INCOMING"}
        BY DEF Init
      <3> QED BY <2>2, <3>1, <3>2, <3>3, <3>4 DEF CallTyped
    <2>4. DialogTyped
      <3>1. sdp \in [remote : Addresses \cup {None}, codec : Codecs \cup {None}]
        BY DEF Init
      <3>2. /\ neg \in [state : {"done", "local offer", "remote offer"}, offer : Offered \cup {None}]
            /\ tsx \in {None, "ours", "peer's", "peer's empty"}
            /\ outcome \in {None, "sent", "accepted", "refused", "ignored", "replaced"}
        <4>1. "sendrecv" \in Offered
          BY DEF Offered
        <4>2. CASE shown = "RINGING"
          <5>1. tsx = "ours" /\ neg = [state |-> "local offer", offer |-> "sendrecv"]
                /\ outcome = "sent"
            BY <4>2 DEF Init
          <5> QED BY <4>1, <5>1
        <4>3. CASE shown # "RINGING"
          <5>1. tsx = "peer's" /\ neg = [state |-> "remote offer", offer |-> None]
                /\ outcome = None
            BY <4>3 DEF Init
          <5> QED BY <5>1
        <4> QED BY <4>2, <4>3
      <3>3. peer \in [address : Addresses, codec : Codecs, told : Offered \cup {None}]
        BY DEF Init
      <3> QED BY <3>1, <3>2, <3>3 DEF DialogTyped
    <2>5. SdpKnown
      BY <2>2 DEF SdpKnown, Updating
    <2> QED BY <2>3, <2>4, <2>5, TypeHalves
  <1>2. TypeOK /\ SdpKnown /\ [Next]_vars => TypeOK' /\ SdpKnown'
    <2> SUFFICES ASSUME TypeOK, SdpKnown, [Next]_vars PROVE TypeOK' /\ SdpKnown'
      OBVIOUS
    <2>1. ASSUME NEW t \in Threads, Step(t)
          PROVE  TypeOK' /\ SdpKnown'
      BY <2>1, StepTyped, StepKnown
    <2>2. CASE UNCHANGED vars
      <3>1. CallTyped'
        BY <2>2, TypeHalves DEF vars, CallTyped
      <3>2. DialogTyped'
        BY <2>2, DialogKept DEF vars
      <3>3. SdpKnown'
        BY <2>2 DEF vars, SdpKnown
      <3> QED BY <3>1, <3>2, <3>3 DEF TypeOK, CallTyped, DialogTyped
    <2> QED BY <2>1, <2>2, CommandTyped, PeerTyped DEF Next
  <1> QED BY <1>1, <1>2, PTL DEF Spec

-----------------------------------------------------------------------------
(* A held call is still.                                                   *)

\* The SIP thread only ever tells of negotiations, which give no session to a
\* call that has none; from stop to the end of onhold there is none.
HeldInv ==
    /\ at["sip"].step \in Updating \cup {"idle"}
    /\ at["dbus"].for = "hold" /\ at["dbus"].step # "stop" => session = NoSession
    /\ at["dbus"].step \in Updating \/ at["dbus"].for = "hold" => shown # "HOLD"
    /\ HeldIsStill

\* No session is made, and nothing is shown held.
Stills ==
    /\ session = NoSession => session' = NoSession
    /\ shown' = "HOLD" => shown = "HOLD"
    /\ Up' => Up

LEMMA IdleFields == Idle.step = "idle" /\ Idle.for = "none"
  BY DEF Idle, None

LEMMA UsesStills ==
    ASSUME NEW new, Uses(new), Up, shown' = shown
    PROVE  Stills
  BY DEF Uses, Stills

\* The steps of a negotiation, in either thread.
LEMMA UpdateStills ==
    ASSUME TypeOK, NEW t \in Threads, Update(t)
    PROVE  /\ Stills
           /\ at[t].step \in Updating
           /\ at'[t].step \in Updating \cup {"idle"}
           /\ at'[t].step \in Updating => at'[t].for = at[t].for
           /\ at'[t].step = "idle" => at'[t] = Idle
           /\ \A u \in Threads \ {t} : at'[u] = at[u]
  <1>1. \E from \in Updating, to \in Updating \cup {"idle"} : Goes(t, from, to)
    BY DEF Update, TestSession, updateDestinationIpAddress, setDtmfPayloadType,
           CompareCodec, updateSessionMedia, Negotiated, Updating
  <1>2. PICK from \in Updating, to \in Updating \cup {"idle"} : Goes(t, from, to)
    BY <1>1
  <1>3. Stills
    <2>1. Up
      BY <1>2 DEF Goes
    <2>2. CASE updateDestinationIpAddress(t) \/ setDtmfPayloadType(t)
                 \/ updateSessionMedia(t)
      BY <2>1, <2>2, UsesStills
         DEF updateDestinationIpAddress, setDtmfPayloadType, updateSessionMedia
    <2>3. CASE TestSession(t) \/ CompareCodec(t)
      BY <2>3, <2>1 DEF TestSession, CompareCodec, Stills
    <2>4. CASE Negotiated(t)
      BY <2>4, <2>1 DEF Negotiated, Stills
    <2> QED BY <2>2, <2>3, <2>4 DEF Update
  <1>4. /\ at[t].step = from /\ at'[t].step = to
        /\ to # "idle" => at'[t].for = at[t].for
        /\ \A u \in Threads \ {t} : at'[u] = at[u]
    BY <1>2, GoesWhere
  <1>5. to = "idle" => at'[t] = Idle
    BY <1>2 DEF Goes, TypeOK
  <1> QED BY <1>3, <1>4, <1>5 DEF Updating

\* What only the SIP thread does, when it is told of a negotiation or not.
LEMMA SipStills ==
    ASSUME HeldInv, Stills, at'["dbus"] = at["dbus"],
           at'["sip"].step \in Updating \cup {"idle"}
    PROVE  HeldInv'
  BY DEF HeldInv, Stills, HeldIsStill

\* The D-Bus thread moves on within a command.
LEMMA DbusStills ==
    ASSUME TypeOK, HeldInv, Stills, NEW from \in Holding \cup Resuming, from # "stop",
           NEW to \in Holding \cup Resuming, Goes("dbus", from, to)
    PROVE  HeldInv'
  <1>1. /\ at["dbus"].step = from /\ at'["dbus"].step = to /\ at'["sip"] = at["sip"]
        /\ at'["dbus"].for = at["dbus"].for
    BY GoesWhere DEF Threads, Holding, Resuming
  <1>2. to \notin Updating /\ to # "idle"
    BY DEF Holding, Resuming, Updating
  <1>3. at'["dbus"] # Idle
    BY <1>1, <1>2, IdleFields
  <1> QED BY <1>1, <1>2, <1>3 DEF HeldInv, Stills, HeldIsStill

\* The session of the call is stopped by the thread at hand.
LEMMA StopStills ==
    ASSUME TypeOK, HeldInv, NEW from \in Holding \cup Resuming,
           NEW to \in Holding \cup Resuming, Goes("dbus", from, to),
           session' = NoSession, shown' = shown
    PROVE  HeldInv'
  <1>1. /\ at["dbus"].step = from /\ at'["dbus"].step = to /\ at'["sip"] = at["sip"]
        /\ at'["dbus"].for = at["dbus"].for
    BY GoesWhere DEF Threads, Holding, Resuming
  <1>2. to \notin Updating
    BY DEF Holding, Resuming, Updating
  <1> QED BY <1>1, <1>2 DEF HeldInv, HeldIsStill

\* Only a resume creates and starts a session; it does not return on a held call.
LEMMA CreateStills ==
    ASSUME TypeOK, HeldInv, Goes("dbus", "create", "start"), shown' = shown
    PROVE  HeldInv'
  <1>1. /\ at["dbus"].step = "create" /\ at'["dbus"].step = "start"
        /\ at'["sip"] = at["sip"] /\ at'["dbus"].for = at["dbus"].for
    BY GoesWhere DEF Threads
  <1>2. at["dbus"] \in Places
    BY DEF TypeOK, Threads
  <1>3. at["dbus"].for = "resume"
    BY <1>1, <1>2, PlaceFor DEF Holding, Resuming
  <1>4. "start" \notin Updating /\ at'["dbus"] # Idle
    BY <1>1, IdleFields DEF Updating
  <1> QED BY <1>1, <1>3, <1>4 DEF HeldInv, HeldIsStill

\* The client is shown a held call only when its session is stopped.
LEMMA ReturnStills ==
    ASSUME TypeOK, HeldInv, Return("dbus")
    PROVE  HeldInv'
  <1>1. /\ at["dbus"].step = "return" /\ at'["sip"] = at["sip"]
    BY GoesWhere DEF Return, Threads
  <1>2. at'["dbus"] = Idle
    BY DEF Return, Goes, TypeOK, Threads
  <1>3. /\ shown' = IF at["dbus"].for = "hold" THEN "HOLD" ELSE "CURRENT"
        /\ session' = session
    BY DEF Return
  <1>4. Idle.step \notin Updating /\ Idle.for # "hold"
    BY DEF Idle, Updating, None
  <1> QED BY <1>1, <1>2, <1>3, <1>4 DEF HeldInv, HeldIsStill

LEMMA StepStill ==
    ASSUME TypeOK, HeldInv, NEW t \in Threads, Step(t)
    PROVE  HeldInv'
  <1>1. CASE Update(t) /\ t = "sip"
    BY <1>1, UpdateStills, SipStills DEF Threads
  <1>2. CASE Update(t) /\ t = "dbus"
    <2>1. /\ Stills /\ at'["sip"] = at["sip"] /\ at["dbus"].step \in Updating
          /\ at'["dbus"].step \in Updating \cup {"idle"}
          /\ at'["dbus"].step \in Updating => at'["dbus"].for = at["dbus"].for
          /\ at'["dbus"].step = "idle" => at'["dbus"] = Idle
      BY <1>2, UpdateStills DEF Threads
    <2>2. shown' # "HOLD"
      BY <2>1 DEF HeldInv, Stills
    <2>3. at["dbus"] \in Places
      BY DEF TypeOK, Threads
    <2>4. at["dbus"].for # "hold"
      BY <2>1, <2>3, PlaceFor
    <2>5. at'["dbus"].for # "hold"
      BY <2>1, <2>4 DEF Idle, None
    <2> QED BY <2>1, <2>2, <2>5 DEF HeldInv, HeldIsStill
  <1>3. CASE ~Update(t) /\ t = "sip"
    <2>1. \E from \in Holding \cup Resuming : at["sip"].step = from
      BY <1>3 DEF Step, Goes, Holding, Resuming, stop, initAudioRtpConfig, initAudioSymmetricRtpSession, start,
                  removeAttributes, addAttribute, CheckPending, SIPSessionReinvite,
                  SetActive, Return
    <2> QED BY <2>1 DEF HeldInv, Holding, Resuming, Updating
  <1>4. CASE ~Update(t) /\ t = "dbus"
    <2>1. CASE stop("dbus")
      BY <2>1, StopStills DEF stop, Holding, Resuming
    <2>2. CASE initAudioRtpConfig("dbus")
      BY <2>2, StopStills DEF initAudioRtpConfig, Holding, Resuming
    <2>3. CASE initAudioSymmetricRtpSession("dbus")
      BY <2>3, CreateStills DEF initAudioSymmetricRtpSession
    <2>4. CASE start("dbus")
      <3>1. Up /\ Goes("dbus", "start", "remove")
        BY <2>4 DEF start, Goes
      <3>2. Stills
        BY <2>4, <3>1, UsesStills DEF start
      <3> QED BY <3>1, <3>2, DbusStills DEF Holding, Resuming
    <2>5. CASE removeAttributes("dbus") \/ addAttribute("dbus") \/ CheckPending("dbus")
                 \/ SIPSessionReinvite("dbus") \/ SetActive("dbus")
      <3>1. PICK from \in Holding \cup Resuming, to \in Holding \cup Resuming :
                Goes("dbus", from, to) /\ from # "stop"
        BY <2>5 DEF removeAttributes, addAttribute, CheckPending, SIPSessionReinvite,
                    SetActive, Holding, Resuming
      <3>2. Stills
        BY <2>5 DEF removeAttributes, addAttribute, CheckPending, SIPSessionReinvite,
                    SetActive, Goes, Stills
      <3> QED BY <3>1, <3>2, DbusStills
    <2>6. CASE Return("dbus")
      BY <2>6, ReturnStills
    <2> QED BY <1>4, <2>1, <2>2, <2>3, <2>4, <2>5, <2>6 DEF Step
  <1> QED BY <1>1, <1>2, <1>3, <1>4 DEF Threads

\* A call that is deleted is shown nothing more.
LEMMA DeletesStill ==
    ASSUME call' # "up", session' = NoSession, at' = [u \in Threads |-> Idle]
    PROVE  HeldInv'
  BY DEF HeldInv, HeldIsStill, Up, Idle, Updating, Threads, None

LEMMA CommandStill ==
    ASSUME TypeOK, HeldInv, "conference" \notin PeerMay,
           answer \/ offhold \/ hangup \/ removeCall \/ \E t \in Threads : onhold(t)
    PROVE  HeldInv'
  <1>0. at \in [Threads -> Places] /\ {"dbus", "sip"} = Threads
    BY DEF TypeOK, Threads
  <1>1. ASSUME at'["sip"] = at["sip"], at'["dbus"].step # "idle",
               at'["dbus"].step \in Updating \/ at'["dbus"].for = "hold" => shown' # "HOLD",
               at'["dbus"].for = "hold" => at'["dbus"].step = "stop"
        PROVE  HeldInv'
    BY <1>1, IdleFields DEF HeldInv, HeldIsStill
  <1>2. CASE answer
    <2>1. at' = [at EXCEPT !["dbus"] = [step |-> "destination", for |-> "peer's"]] /\ shown' # "HOLD"
      BY <1>2 DEF answer, Begin, Negotiate
    <2> QED BY <1>0, <1>1, <2>1 DEF Updating
  <1>3. CASE offhold
    <2>1. at' = [at EXCEPT !["dbus"] = [step |-> "init", for |-> "resume"]]
      BY <1>3 DEF offhold, Begin
    <2> QED BY <1>0, <1>1, <2>1 DEF Updating
  <1>4. CASE hangup
    <2>1. at' = [at EXCEPT !["dbus"] = [step |-> "delete", for |-> "none"]]
      BY <1>4 DEF hangup, Begin, None
    <2> QED BY <1>0, <1>1, <2>1 DEF Updating
  <1>5. CASE removeCall
    BY <1>5, DeletesStill DEF removeCall, Deletes
  <1>6. ASSUME NEW t \in Threads, onhold(t)
        PROVE  HeldInv'
    <2>1. t = "dbus"
      BY <1>0, <1>6 DEF onhold
    <2>2. at' = [at EXCEPT !["dbus"] = [step |-> "stop", for |-> "hold"]]
          /\ shown' = "CURRENT"
      BY <1>6, <2>1 DEF onhold, Begin
    <2> QED BY <1>0, <1>1, <2>2
  <1> QED BY <1>2, <1>3, <1>4, <1>5, <1>6

LEMMA PeerStill ==
    ASSUME TypeOK, HeldInv,
           EndsRequest \/ PeerHangsUp \/ ReinvitesEmpty
             \/ \E a \in Addresses, c \in Codecs : Reinvites(a, c)
    PROVE  HeldInv'
  <1>0. at \in [Threads -> Places] /\ Threads = {"dbus", "sip"}
    BY DEF TypeOK, Threads
  <1>1. ASSUME NEW a, NEW c, NEW told, NEW for, Negotiate("sip", a, c, told, for),
               UNCHANGED <<call, session, shown>>
        PROVE  HeldInv'
    <2>1. at'["dbus"] = at["dbus"] /\ at'["sip"].step = "destination"
      BY <1>0, <1>1 DEF Negotiate, Begin
    <2> QED BY <1>1, <2>1, SipStills DEF Stills, Up, Updating
  <1>2. CASE UNCHANGED <<call, session, shown, at>>
    BY <1>2, SipStills DEF Stills, Up, HeldInv
  <1>3. CASE PeerHangsUp \/ Fails \/ Mismatches
    BY <1>3, DeletesStill DEF PeerHangsUp, Fails, Mismatches, Deletes
  <1>4. ASSUME NEW a, NEW c, Accepts(a, c) \/ Reinvites(a, c) \/ AnswersInAck(a)
        PROVE  HeldInv'
    BY <1>1, <1>4 DEF Accepts, Reinvites, AnswersInAck
  <1>5. CASE ReinvitesEmpty \/ Acknowledges \/ \E how \in {"refuse", "challenge"} : Refuses(how)
    BY <1>2, <1>5 DEF ReinvitesEmpty, Acknowledges, Refuses
  <1> QED BY <1>3, <1>4, <1>5 DEF EndsRequest

\* A call that is shown held sends nothing (HeldIsStill): no late answer, refused
\* or crossing request, nor any offer of the peer brings back the session that
\* onhold stopped, as long as the SIP thread does not itself hold this call when
\* another one ends (the case in which it does is not so, see the README).
THEOREM HeldStaysStill ==
    ASSUME "conference" \notin PeerMay
    PROVE  Spec => []HeldIsStill
  <1>1. Init => HeldInv
    <2> SUFFICES ASSUME Init PROVE HeldInv
      OBVIOUS
    <2>1. at["sip"] = Idle /\ at["dbus"] = Idle /\ shown \in {"RINGING", "INCOMING"}
      BY DEF Init, Threads
    <2> QED BY <2>1, IdleFields DEF HeldInv, HeldIsStill, Updating
  <1>2. TypeOK /\ HeldInv /\ [Next]_vars => HeldInv'
    <2> SUFFICES ASSUME TypeOK, HeldInv, [Next]_vars PROVE HeldInv'
      OBVIOUS
    <2>1. CASE UNCHANGED vars
      BY <2>1 DEF vars, HeldInv, HeldIsStill, Up
    <2> QED BY <2>1, StepStill, CommandStill, PeerStill DEF Next
  <1>3. HeldInv => HeldIsStill
    BY DEF HeldInv
  <1>4. TypeOK /\ SdpKnown => TypeOK
    OBVIOUS
  <1> QED BY <1>1, <1>2, <1>3, <1>4, MediaTypeCorrect, PTL DEF Spec

-----------------------------------------------------------------------------
(* An accepted request: the sound, the peer and the client agree.         *)

\* The D-Bus thread's place.
Dbus == at["dbus"]

\* A thread is in sdp_media_update_cb.
Busy == \E t \in Threads : at[t].step \in Updating

\* Nobody refused the last command's request or sent another's offer for it.
Good == outcome \notin {"refused", "ignored"}

\* A hold or resume that has yet to be sent.
Preparing == Dbus.step \in {"stop", "init", "create", "start", "remove", "add",
                            "check", "reinvite"}

\* What the last command means the peer to be told.
Wanted == IF state = "Hold" /\ Dbus.for # "resume" THEN "sendonly" ELSE "sendrecv"

\* The session has yet to learn where the peer listens.
Untold ==
    \/ \E t \in Threads : at[t].step \in {"destination", "destine"}
    \/ ~Busy /\ (tsx = "ours" \/ shown = "INCOMING")

\* Who negotiates, and for which request.
Turns ==
    /\ \A t \in Threads : at[t].step \in Updating => at[t].for = tsx
    /\ Dbus.step \in Updating => shown = "INCOMING"
    /\ at["sip"].step \in Updating \cup {"idle"}
    /\ shown = "INCOMING" => at["sip"].step = "idle" /\ tsx = "peer's" /\ outcome = None
    /\ shown = "RINGING" => outcome = "sent"
    /\ shown \in {"RINGING", "INCOMING"} => Dbus.for \notin {"hold", "resume"}

\* What the Sdp knows of the peer.
Knows ==
    /\ sdp.codec \in {None, peer.codec}
    /\ Busy \/ shown \in {"CURRENT", "HOLD"} =>
         sdp.remote = peer.address /\ sdp.codec = peer.codec

\* The session's codec and destination.
Tuned ==
    session # NoSession =>
        /\ /\ shown \in {"CURRENT", "HOLD"} \/ \E t \in Threads : at[t].step = "negotiated"
           /\ Dbus.step # "start"
           => session.codec = peer.codec
        /\ Good /\ ~Preparing /\ ~Untold => session.dest = peer.address

\* When there is a session, and what the state and the client say of it.
Placed ==
    /\ Dbus.for = "hold" => state = "Hold" /\ (Dbus.step # "stop" => session = NoSession)
    /\ Dbus.for = "resume" /\ Dbus.step \notin {"init", "create"} => session # NoSession
    /\ Dbus.for = "resume" /\ Dbus.step = "return" /\ Good => state = "Active"
    /\ Dbus.for \notin {"hold", "resume"} /\ Good =>
         /\ state = "Hold" <=> shown = "HOLD"
         /\ state = "Active" => session # NoSession

\* What the peer was told of this side.
Told ==
    /\ outcome = None /\ Dbus.step = "add" => attrs = {}
    /\ outcome = None /\ (~Preparing \/ Dbus.step \in {"check", "reinvite"}) =>
         Direction(attrs) = Wanted
    /\ outcome = None /\ Busy /\ shown = "INCOMING" =>
         peer.told = Wanted /\ neg.state = "done"
    /\ outcome = None /\ ~Preparing => shown = "INCOMING"
    /\ outcome \in {"sent", "accepted"} => ~Preparing
    /\ outcome = "sent" =>
         /\ tsx = "ours" /\ Direction(attrs) = Wanted
         /\ IF Busy THEN peer.told = Wanted /\ neg.state = "done"
            ELSE neg.offer = Wanted
    /\ outcome = "accepted" =>
         /\ peer.told = Wanted /\ tsx # "ours"
         /\ IF tsx = "peer's empty" THEN ~Busy
            ELSE Direction(attrs) = Wanted /\ neg.state = "done"

\* Until the call ends, the sound, the peer and the client are on the way to agree.
AgreeInv == Up => Turns /\ Knows /\ Tuned /\ Placed /\ Told

\* What a place tells of its thread.
LEMMA PlaceFacts ==
    ASSUME NEW p \in Places
    PROVE  /\ p.step \in Updating => p.for \in {"ours", "peer's", "peer's empty"}
           /\ p.for = "hold" => p.step \in Holding
           /\ p.for = "resume" => p.step \in Resuming
           /\ p.step \in {"idle", "delete"} => p.for = None
           /\ p.step \in Holding \cup Resuming => p.for \in {"hold", "resume"}
           /\ p.step \in Updating \cup Holding \cup Resuming \cup {"idle", "delete"}
  <1>1. CASE p = Idle
    BY <1>1 DEF Idle, Updating, Holding, Resuming, None
  <1>2. CASE p \in [step : Updating, for : {"ours", "peer's", "peer's empty"}]
    BY <1>2 DEF Updating, Holding, Resuming
  <1>3. CASE p \in [step : Holding, for : {"hold"}]
    BY <1>3 DEF Updating, Holding, Resuming
  <1>4. CASE p \in [step : Resuming, for : {"resume"}]
    BY <1>4 DEF Updating, Holding, Resuming
  <1>5. CASE p \in [step : {"delete"}, for : {None}]
    BY <1>5 DEF Updating, Holding, Resuming, None
  <1> QED BY <1>1, <1>2, <1>3, <1>4, <1>5 DEF Places

\* The values the invariant speaks of.
LEMMA TypeFacts ==
    ASSUME TypeOK
    PROVE  /\ Dbus \in Places /\ at["sip"] \in Places
           /\ state \in {"Active", "Hold"}
           /\ shown \in {"RINGING", "INCOMING", "CURRENT", "HOLD"}
           /\ outcome \in {None, "sent", "accepted", "refused", "ignored", "replaced"}
           /\ tsx \in {None, "ours", "peer's", "peer's empty"}
           /\ session # NoSession =>
                /\ session = [dest |-> session.dest, codec |-> session.codec]
                /\ session.codec \in Codecs /\ session.codec # None
  <1>1. Dbus \in Places /\ at["sip"] \in Places
    BY DEF TypeOK, Dbus, Threads
  <1>2. session # NoSession =>
                /\ session = [dest |-> session.dest, codec |-> session.codec]
                /\ session.codec \in Codecs /\ session.codec # None
    BY MediaSessionAssumption DEF TypeOK, Sessions
  <1> QED BY <1>1, <1>2 DEF TypeOK

\* Busy and Untold, thread by thread.
LEMMA BusyEither ==
    /\ Busy <=> Dbus.step \in Updating \/ at["sip"].step \in Updating
    /\ Untold <=> \/ Dbus.step \in {"destination", "destine"}
                  \/ at["sip"].step \in {"destination", "destine"}
                  \/ ~Busy /\ (tsx = "ours" \/ shown = "INCOMING")
    /\ (\E t \in Threads : at[t].step = "negotiated")
         <=> Dbus.step = "negotiated" \/ at["sip"].step = "negotiated"
  BY DEF Busy, Untold, Dbus, Threads

\* And after a step.
LEMMA BusyEitherNext ==
    /\ Busy' <=> Dbus'.step \in Updating \/ at'["sip"].step \in Updating
    /\ Untold' <=> \/ Dbus'.step \in {"destination", "destine"}
                   \/ at'["sip"].step \in {"destination", "destine"}
                   \/ ~Busy' /\ (tsx' = "ours" \/ shown' = "INCOMING")
    /\ (\E t \in Threads : at[t].step = "negotiated")'
         <=> Dbus'.step = "negotiated" \/ at'["sip"].step = "negotiated"
  BY DEF Busy, Untold, Dbus, Threads

\* One thread negotiates at a time.
LEMMA OneUpdates ==
    ASSUME TypeOK, Turns
    PROVE  /\ Dbus.step \in Updating => at["sip"].step = "idle"
           /\ at["sip"].step \in Updating => Dbus.step \notin Updating
  BY DEF Turns, Updating

\* A step of a negotiation that is not its last changes no more than the session.
LEMMA MovesWithin ==
    ASSUME TypeOK, Turns, Knows, Placed, Told, NEW t \in Threads,
           NEW from \in Updating, NEW to \in Updating, Goes(t, from, to),
           session = NoSession <=> session' = NoSession,
           UNCHANGED <<state, shown, attrs, sdp, neg, tsx, peer, outcome>>
    PROVE  /\ Turns' /\ Knows' /\ Placed' /\ Told'
           /\ at[t].step = from /\ at'[t].step = to
           /\ Busy /\ Busy' /\ (Preparing' <=> Preparing)
           /\ Dbus.step = "start" <=> Dbus'.step = "start"
           /\ \A u \in Threads \ {t} : at[u].step \notin Updating /\ at'[u] = at[u]
  <1>1. /\ at[t].step = from /\ at'[t].step = to /\ at'[t].for = at[t].for
        /\ \A u \in Threads \ {t} : at'[u] = at[u]
    BY GoesWhere DEF Updating
  <1>2. Busy /\ Busy'
    BY <1>1 DEF Busy
  <1>3. Dbus'.for = Dbus.for
    BY <1>1 DEF Dbus, Threads
  <1>4. \/ Dbus' = Dbus
        \/ Dbus.step \in Updating /\ Dbus'.step \in Updating
    BY <1>1 DEF Dbus, Threads
  <1>5. /\ Preparing' <=> Preparing
        /\ \A x \in {"start", "stop", "init", "create", "return", "add", "check", "reinvite"} :
             Dbus'.step = x <=> Dbus.step = x
    BY <1>4 DEF Preparing, Updating
  <1>6. Turns'
    BY <1>1, <1>3, <1>4 DEF Turns, Threads, Dbus, Updating
  <1>7. Knows'
    BY <1>2 DEF Knows
  <1>8. Placed'
    BY <1>3, <1>5 DEF Placed, Good
  <1>9. Wanted' = Wanted
    BY <1>3 DEF Wanted
  <1>10. Told'
    BY <1>2, <1>5, <1>9 DEF Told
  <1>11. \A u \in Threads \ {t} : at[u].step \notin Updating
    BY <1>1, OneUpdates DEF Threads, Dbus, Updating
  <1> QED BY <1>1, <1>2, <1>5, <1>6, <1>7, <1>8, <1>10, <1>11

\* The destination that is set is the peer's, the codec the one agreed on.
LEMMA UpdateAgrees ==
    ASSUME TypeOK, AgreeInv, NEW t \in Threads, Update(t), Up'
    PROVE  AgreeInv'
  <1>0. Up /\ Turns /\ Knows /\ Tuned /\ Placed /\ Told
    BY DEF AgreeInv, Update, TestSession, updateDestinationIpAddress,
           setDtmfPayloadType, CompareCodec, updateSessionMedia, Negotiated, Goes
  <1>1. CASE TestSession(t)
    <2>1. /\ Goes(t, "destination", IF session = NoSession THEN "media" ELSE "destine")
          /\ UNCHANGED <<state, shown, session, attrs, sdp, neg, tsx, peer, outcome>>
      BY <1>1 DEF TestSession
    <2>2. PICK to \in {"media", "destine"} :
             Goes(t, "destination", to) /\ (session # NoSession => to = "destine")
      BY <2>1
    <2>3. /\ Turns' /\ Knows' /\ Placed' /\ Told'
          /\ at[t].step = "destination" /\ at'[t].step = to
          /\ Busy /\ Busy' /\ (Preparing' <=> Preparing)
          /\ Dbus.step = "start" <=> Dbus'.step = "start"
          /\ \A u \in Threads \ {t} : at[u].step \notin Updating /\ at'[u] = at[u]
      BY <1>0, <2>1, <2>2, MovesWithin DEF Updating
    <2>4. session # NoSession => Untold'
      BY <2>2, <2>3 DEF Untold
    <2>5. (\E u \in Threads : at[u].step = "negotiated")'
            => \E u \in Threads : at[u].step = "negotiated"
      BY <2>3 DEF Updating
    <2>6. Tuned'
      BY <1>0, <2>1, <2>3, <2>4, <2>5 DEF Tuned, Good
    <2> QED BY <2>3, <2>6 DEF AgreeInv
  <1>2. CASE updateDestinationIpAddress(t)
    <2>1. /\ Goes(t, "destine", "dtmf") /\ session # NoSession
          /\ session' = [session EXCEPT !.dest = sdp.remote]
          /\ UNCHANGED <<state, shown, attrs, sdp, neg, tsx, peer, outcome>>
      BY <1>2 DEF updateDestinationIpAddress, Uses, Up
    <2>2. session'.dest = sdp.remote /\ session'.codec = session.codec /\ session' # NoSession
      BY <2>1, TypeFacts DEF NoSession
    <2>3. /\ Turns' /\ Knows' /\ Placed' /\ Told'
          /\ at[t].step = "destine" /\ at'[t].step = "dtmf"
          /\ Busy /\ Busy' /\ (Preparing' <=> Preparing)
          /\ Dbus.step = "start" <=> Dbus'.step = "start"
          /\ \A u \in Threads \ {t} : at[u].step \notin Updating /\ at'[u] = at[u]
      BY <1>0, <2>1, <2>2, MovesWithin DEF Updating
    <2>4. session'.dest = peer'.address
      BY <1>0, <2>1, <2>2, <2>3 DEF Knows
    <2>5. (\E u \in Threads : at[u].step = "negotiated")'
            => \E u \in Threads : at[u].step = "negotiated"
      BY <2>3 DEF Updating
    <2>6. Tuned'
      BY <1>0, <2>1, <2>2, <2>3, <2>4, <2>5 DEF Tuned
    <2> QED BY <2>3, <2>6 DEF AgreeInv
  <1>3. CASE setDtmfPayloadType(t)
    <2>1. /\ Goes(t, "dtmf", "media") /\ session # NoSession
          /\ UNCHANGED <<state, shown, session, attrs, sdp, neg, tsx, peer, outcome>>
      BY <1>3 DEF setDtmfPayloadType, Uses, Up
    <2>3. /\ Turns' /\ Knows' /\ Placed' /\ Told'
          /\ at[t].step = "dtmf" /\ at'[t].step = "media"
          /\ Busy /\ Busy' /\ (Preparing' <=> Preparing)
          /\ Dbus.step = "start" <=> Dbus'.step = "start"
          /\ \A u \in Threads \ {t} : at[u].step \notin Updating /\ at'[u] = at[u]
      BY <1>0, <2>1, MovesWithin DEF Updating
    <2>4. ~Untold
      BY <2>3 DEF Untold, Updating
    <2>5. (\E u \in Threads : at[u].step = "negotiated")'
            => \E u \in Threads : at[u].step = "negotiated"
      BY <2>3 DEF Updating
    <2>6. Tuned'
      BY <1>0, <2>1, <2>3, <2>4, <2>5 DEF Tuned, Good
    <2> QED BY <2>3, <2>6 DEF AgreeInv
  <1>4. CASE CompareCodec(t)
    <2>1. PICK to \in {"negotiated", "update media"} :
            /\ Goes(t, "media", to)
            /\ to = "negotiated" => session.codec \in {None, sdp.codec}
      BY <1>4 DEF CompareCodec
    <2>2. UNCHANGED <<state, shown, session, attrs, sdp, neg, tsx, peer, outcome>>
      BY <1>4 DEF CompareCodec
    <2>3. /\ Turns' /\ Knows' /\ Placed' /\ Told'
          /\ at[t].step = "media" /\ at'[t].step = to
          /\ Busy /\ Busy' /\ (Preparing' <=> Preparing)
          /\ Dbus.step = "start" <=> Dbus'.step = "start"
          /\ \A u \in Threads \ {t} : at[u].step \notin Updating /\ at'[u] = at[u]
      BY <1>0, <2>1, <2>2, MovesWithin DEF Updating
    <2>4. ~Untold
      BY <2>3 DEF Untold, Updating
    <2>5. (\E u \in Threads : at[u].step = "negotiated")' /\ session # NoSession
            => session.codec = peer.codec
      <3>1. session # NoSession => session.codec # None
        BY TypeFacts
      <3>2. (\E u \in Threads : at[u].step = "negotiated")' => to = "negotiated"
        BY <2>3 DEF Updating
      <3> QED BY <1>0, <2>1, <2>3, <3>1, <3>2 DEF Knows
    <2>6. Tuned'
      BY <1>0, <2>2, <2>3, <2>4, <2>5 DEF Tuned, Good
    <2> QED BY <2>3, <2>6 DEF AgreeInv
  <1>5. CASE updateSessionMedia(t)
    <2>1. /\ Goes(t, "update media", "negotiated") /\ session # NoSession
          /\ session' = [session EXCEPT !.codec = sdp.codec]
          /\ UNCHANGED <<state, shown, attrs, sdp, neg, tsx, peer, outcome>>
      BY <1>5 DEF updateSessionMedia, Uses, Up
    <2>2. session'.codec = sdp.codec /\ session'.dest = session.dest
      BY <2>1, TypeFacts DEF NoSession
    <2>3. at[t].step = "update media"
      BY <2>1 DEF Goes
    <2>4. sdp.codec = peer.codec /\ peer.codec # None
      BY <1>0, <2>3, MediaSessionAssumption DEF Knows, Busy, Updating, TypeOK
    <2>5. session' # NoSession
      BY <2>2, <2>4 DEF NoSession
    <2>6. /\ Turns' /\ Knows' /\ Placed' /\ Told'
          /\ at[t].step = "update media" /\ at'[t].step = "negotiated"
          /\ Busy /\ Busy' /\ (Preparing' <=> Preparing)
          /\ Dbus.step = "start" <=> Dbus'.step = "start"
          /\ \A u \in Threads \ {t} : at[u].step \notin Updating /\ at'[u] = at[u]
      BY <1>0, <2>1, <2>5, MovesWithin DEF Updating
    <2>7. ~Untold
      BY <2>6 DEF Untold, Updating
    <2>8. Tuned'
      BY <1>0, <2>1, <2>2, <2>4, <2>6, <2>7 DEF Tuned, Good
    <2> QED BY <2>6, <2>8 DEF AgreeInv
  <1>6. CASE Negotiated(t)
    <2>1. /\ Goes(t, "negotiated", "idle")
          /\ tsx' = IF at[t].for = "peer's" THEN tsx ELSE None
          /\ shown' = IF shown \in {"RINGING", "INCOMING"} THEN "CURRENT" ELSE shown
          /\ outcome' = IF \/ at[t].for = "ours" /\ outcome = "sent"
                           \/ shown = "INCOMING"
                        THEN "accepted" ELSE outcome
          /\ UNCHANGED <<state, session, attrs, sdp, neg, peer>>
      BY <1>6 DEF Negotiated
    <2>2. /\ at[t].step = "negotiated" /\ at'[t] = Idle
          /\ \A u \in Threads \ {t} : at'[u] = at[u]
      BY <2>1 DEF Goes, TypeOK
    <2>3. Idle.step = "idle" /\ Idle.for = None
      BY DEF Idle
    <2>4. /\ Busy /\ ~Untold /\ at[t].for = tsx
          /\ \A u \in Threads \ {t} : at[u].step \notin Updating
      <3>1. \A u \in Threads \ {t} : at[u].step \notin Updating
        BY <1>0, <2>2, OneUpdates DEF Threads, Dbus, Updating
      <3> QED BY <1>0, <2>2, <3>1 DEF Turns, Busy, Untold, Updating
    <2>5. ~Busy'
      BY <2>2, <2>3, <2>4 DEF Busy, Updating
    <2>6. /\ shown \in {"RINGING", "INCOMING"} => Dbus.for \notin {"hold", "resume"}
          /\ shown = "INCOMING" => outcome = None /\ tsx = "peer's"
      BY <1>0 DEF Turns
    <2>7. \/ Dbus' = Dbus /\ Dbus.step \notin Updating
          \/ Dbus.step = "negotiated" /\ Dbus' = Idle /\ shown = "INCOMING"
      BY <1>0, <2>2, <2>4 DEF Dbus, Threads, Turns, Updating
    <2>8. /\ Dbus.for \notin {"hold", "resume"} <=> Dbus'.for \notin {"hold", "resume"}
          /\ Dbus.for = "hold" <=> Dbus'.for = "hold"
          /\ Dbus.for = "resume" <=> Dbus'.for = "resume"
          /\ Preparing' <=> Preparing
          /\ \A x \in {"start", "stop", "init", "create", "return", "add", "check", "reinvite"} :
             Dbus'.step = x <=> Dbus.step = x
      <3>1. Dbus.step \in Updating => Dbus.for \notin {"hold", "resume"}
        BY TypeFacts, PlaceFacts
      <3> QED BY <2>3, <2>7, <3>1 DEF Preparing, Updating, None
    <2>9. Turns'
      <3>1. at'["sip"].step \in Updating \cup {"idle"}
        BY <1>0, <2>2, <2>3 DEF Turns, Threads
      <3>2. shown' # "INCOMING" /\ (shown' = "RINGING" => FALSE)
        BY <2>1
      <3>3. \A u \in Threads : at'[u].step \notin Updating
        BY <2>5 DEF Busy
      <3> QED BY <3>1, <3>2, <3>3 DEF Turns, Threads, Dbus
    <2>10. Knows'
      BY <1>0, <2>1, <2>4 DEF Knows
    <2>11. Good' <=> Good
      BY <2>1, <2>6 DEF Good, None
    <2>12. Tuned'
      BY <1>0, <2>1, <2>2, <2>4, <2>8, <2>11 DEF Tuned
    <2>13. Placed'
      <3>1. shown' = "HOLD" <=> shown = "HOLD"
        BY <2>1
      <3> QED BY <1>0, <2>1, <2>8, <2>11, <3>1 DEF Placed
    <2>14. Wanted' = Wanted
      BY <2>1, <2>8 DEF Wanted
    <2>15. Told'
      <3>1. CASE outcome' = "accepted" /\ outcome # "accepted"
        <4>1. \/ outcome = "sent"
              \/ outcome = None /\ shown = "INCOMING"
          BY <2>1, <2>6, <3>1
        <4>2. ~Preparing /\ peer.told = Wanted /\ neg.state = "done" /\ Direction(attrs) = Wanted
          <5>1. CASE outcome = "sent"
            BY <1>0, <2>4, <5>1 DEF Told
          <5>2. CASE outcome = None /\ shown = "INCOMING"
            <6>1. ~Preparing
              <7>1. Dbus.for \notin {"hold", "resume"}
                BY <2>6, <5>2
              <7> QED BY <7>1, TypeFacts, PlaceFacts DEF Preparing, Holding, Resuming
            <6> QED BY <1>0, <2>4, <5>2, <6>1 DEF Told
          <5> QED BY <4>1, <5>1, <5>2
        <4>3. ~Preparing' /\ peer'.told = Wanted' /\ neg'.state = "done"
              /\ Direction(attrs)' = Wanted' /\ ~Busy'
          BY <2>1, <2>5, <2>8, <2>14, <4>2 DEF Direction
        <4>4. tsx' # "ours"
          BY <2>1, <2>4 DEF None
        <4> QED BY <2>1, <3>1, <4>3, <4>4 DEF Told, None
      <3>2. CASE outcome' = outcome
        <4>1. outcome # "sent"
          <5>1. outcome = "sent" => tsx = "ours"
            BY <1>0 DEF Told
          <5> QED BY <2>1, <2>4, <3>2, <5>1
        <4>2. outcome = None => shown # "INCOMING"
          BY <2>1, <3>2 DEF None
        <4>3. tsx' \notin {"peer's empty", "ours"}
          BY <2>1, <2>4 DEF None
        <4>4. outcome = "accepted" => tsx # "peer's empty"
          BY <1>0, <2>4 DEF Told
        <4> QED BY <1>0, <2>1, <2>8, <2>14, <3>2, <4>1, <4>2, <4>3, <4>4 DEF Told, Direction
      <3> QED BY <2>1, <3>1, <3>2
    <2> QED BY <2>9, <2>10, <2>12, <2>13, <2>15 DEF AgreeInv
  <1> QED BY <1>1, <1>2, <1>3, <1>4, <1>5, <1>6 DEF Update

\* Where the D-Bus thread is within a command, and what no step of it changes.
LEMMA CommandMoves ==
    ASSUME TypeOK, AgreeInv, Up, NEW from \in Holding \cup Resuming,
           NEW to \in Holding \cup Resuming, Goes("dbus", from, to)
    PROVE  /\ Dbus.step = from /\ Dbus'.step = to /\ Dbus'.for = Dbus.for
           /\ Dbus.for \in {"hold", "resume"}
           /\ from \notin Holding => Dbus.for = "resume"
           /\ from \notin Resuming => Dbus.for = "hold"
           /\ at'["sip"] = at["sip"]
           /\ shown \in {"CURRENT", "HOLD"}
           /\ shown' = shown /\ tsx' = tsx => Turns' /\ (Busy' <=> Busy) /\ (Untold' <=> Untold)
           /\ shown' = shown /\ UNCHANGED <<sdp, peer>> => Knows'
           /\ state' = state => Wanted' = Wanted
           /\ Preparing <=> from \notin {"active", "return"}
           /\ Preparing' <=> to \notin {"active", "return"}
  <1>0. Turns /\ Knows
    BY DEF AgreeInv
  <1>1. /\ Dbus.step = from /\ Dbus'.step = to /\ Dbus'.for = Dbus.for
        /\ at'["sip"] = at["sip"]
    BY GoesWhere DEF Dbus, Threads, Holding, Resuming
  <1>2. /\ Dbus.for \in {"hold", "resume"}
        /\ from \notin Holding => Dbus.for = "resume"
        /\ from \notin Resuming => Dbus.for = "hold"
    BY <1>1, TypeFacts, PlaceFacts
  <1>3. shown \in {"CURRENT", "HOLD"}
    BY <1>0, <1>2, TypeFacts DEF Turns
  <1>4. from \notin Updating /\ to \notin Updating
    BY DEF Holding, Resuming, Updating
  <1>5. ASSUME shown' = shown, tsx' = tsx
        PROVE  Turns' /\ (Busy' <=> Busy) /\ (Untold' <=> Untold)
    <2>1. Busy' <=> Busy
      BY <1>1, <1>4, BusyEither, BusyEitherNext
    <2>2. Untold' <=> Untold
      BY <1>1, <1>4, <1>5, <2>1, BusyEither, BusyEitherNext DEF Updating
    <2>3. Turns'
      BY <1>0, <1>1, <1>3, <1>4, <1>5 DEF Turns, Dbus, Threads
    <2> QED BY <2>1, <2>2, <2>3
  <1>6. ASSUME shown' = shown, UNCHANGED <<sdp, peer>>
        PROVE  Knows'
    BY <1>0, <1>3, <1>6 DEF Knows
  <1>7. state' = state => Wanted' = Wanted
    BY <1>1 DEF Wanted
  <1>8. /\ Preparing <=> from \notin {"active", "return"}
        /\ Preparing' <=> to \notin {"active", "return"}
    BY <1>1 DEF Preparing, Holding, Resuming
  <1> QED BY <1>1, <1>2, <1>3, <1>5, <1>6, <1>7, <1>8

\* What is prepared: the session and the attributes.
LEMMA PrepareAgrees ==
    ASSUME TypeOK, AgreeInv, Up',
           stop("dbus") \/ initAudioRtpConfig("dbus") \/ initAudioSymmetricRtpSession("dbus")
             \/ start("dbus") \/ removeAttributes("dbus") \/ addAttribute("dbus")
    PROVE  AgreeInv'
  <1>0. Up /\ Turns /\ Knows /\ Tuned /\ Placed /\ Told
    BY DEF AgreeInv, stop, initAudioRtpConfig, initAudioSymmetricRtpSession, start,
           removeAttributes, addAttribute, Goes
  <1>1. ASSUME NEW from \in Holding \cup Resuming, NEW to \in Holding \cup Resuming,
               Goes("dbus", from, to), from \notin {"active", "return", "check", "reinvite"},
               to \in {"create", "start", "remove"},
               UNCHANGED <<state, shown, attrs, sdp, neg, tsx, peer, outcome>>,
               session' # NoSession /\ to # "start" => session'.codec = peer.codec,
               Dbus.for = "hold" => session' = NoSession,
               to \in {"start", "remove"} /\ Dbus.for = "resume" => session' # NoSession
        PROVE  AgreeInv'
    <2>1. /\ Dbus'.step = to /\ Dbus'.for = Dbus.for /\ Dbus.for \in {"hold", "resume"}
          /\ Turns' /\ Knows' /\ Wanted' = Wanted /\ Preparing /\ Preparing'
          /\ Busy' <=> Busy
      BY <1>0, <1>1, CommandMoves
    <2>2. Tuned'
      BY <1>1, <2>1 DEF Tuned
    <2>3. Placed'
      BY <1>0, <1>1, <2>1 DEF Placed, Good
    <2>4. Told'
      BY <1>0, <1>1, <2>1 DEF Told
    <2> QED BY <2>1, <2>2, <2>3, <2>4 DEF AgreeInv
  <1>2. CASE stop("dbus")
    <2>1. Goes("dbus", "stop", "remove") /\ session' = NoSession
          /\ UNCHANGED <<state, shown, attrs, sdp, neg, tsx, peer, outcome>>
      BY <1>2 DEF stop
    <2>2. Dbus.for = "hold"
      BY <1>0, <2>1, CommandMoves DEF Holding, Resuming
    <2> QED BY <1>1, <2>1, <2>2 DEF Holding, Resuming
  <1>3. CASE initAudioRtpConfig("dbus")
    BY <1>1, <1>3 DEF initAudioRtpConfig, Holding, Resuming
  <1>4. CASE initAudioSymmetricRtpSession("dbus")
    <2>1. Goes("dbus", "create", "start") /\ session' = [dest |-> Nowhere, codec |-> "ulaw"]
          /\ UNCHANGED <<state, shown, attrs, sdp, neg, tsx, peer, outcome>>
      BY <1>4 DEF initAudioSymmetricRtpSession
    <2>2. Dbus.for = "resume"
      BY <1>0, <2>1, CommandMoves DEF Holding, Resuming
    <2>3. session' # NoSession
      BY <2>1 DEF NoSession, None
    <2> QED BY <1>1, <2>1, <2>2, <2>3 DEF Holding, Resuming
  <1>5. CASE start("dbus")
    <2>1. /\ Goes("dbus", "start", "remove") /\ session # NoSession
          /\ session' = [session EXCEPT !.codec = IF sdp.codec = None THEN "ulaw" ELSE sdp.codec]
          /\ UNCHANGED <<state, shown, attrs, sdp, neg, tsx, peer, outcome>>
      BY <1>5 DEF start, Uses, Up
    <2>2. Dbus.for = "resume" /\ shown \in {"CURRENT", "HOLD"}
      BY <1>0, <2>1, CommandMoves DEF Holding, Resuming
    <2>3. sdp.codec = peer.codec /\ peer.codec # None
      BY <1>0, <2>2, MediaSessionAssumption DEF Knows, TypeOK
    <2>4. session' = [session EXCEPT !.codec = peer.codec]
      BY <2>1, <2>3
    <2>5. session'.codec = peer.codec
      BY <2>1, <2>4, TypeFacts
    <2>6. session' # NoSession
      BY <2>3, <2>5 DEF NoSession
    <2> QED BY <1>1, <2>1, <2>2, <2>5, <2>6 DEF Holding, Resuming
  <1>6. CASE removeAttributes("dbus") \/ addAttribute("dbus")
    <2>1. PICK from \in {"remove", "add"}, to \in {"add", "check"} :
             /\ Goes("dbus", from, to)
             /\ from = "remove" => to = "add" /\ attrs' = {}
             /\ from = "add" => to = "check" /\ attrs' = attrs \cup {Meant(Dbus.for)}
      BY <1>6 DEF removeAttributes, addAttribute, Dbus
    <2>2. UNCHANGED <<state, shown, session, sdp, neg, tsx, peer, outcome>>
      BY <1>6 DEF removeAttributes, addAttribute
    <2>3. /\ Dbus.step = from /\ Dbus'.step = to /\ Dbus'.for = Dbus.for
          /\ Dbus.for \in {"hold", "resume"}
          /\ Turns' /\ Knows' /\ Wanted' = Wanted /\ Preparing /\ Preparing'
          /\ Busy' <=> Busy
          /\ shown \in {"CURRENT", "HOLD"}
      BY <1>0, <2>1, <2>2, CommandMoves DEF Holding, Resuming
    <2>4. Tuned'
      <3>1. shown' \in {"CURRENT", "HOLD"} /\ Dbus.step # "start"
        BY <2>2, <2>3
      <3> QED BY <1>0, <2>2, <2>3, <3>1 DEF Tuned
    <2>5. Placed'
      BY <1>0, <2>1, <2>2, <2>3 DEF Placed, Good
    <2>6. from = "add" /\ outcome = None => Direction(attrs') = Wanted
      <3>1. from = "add" /\ outcome = None => attrs' = {Meant(Dbus.for)}
        BY <1>0, <2>1, <2>3 DEF Told
      <3>2. Meant(Dbus.for) = Wanted
        BY <1>0, <2>3 DEF Placed, Wanted, Meant
      <3> QED BY <3>1, <3>2 DEF Direction, Wanted
    <2>7. Told'
      BY <1>0, <2>1, <2>2, <2>3, <2>6 DEF Told
    <2> QED BY <2>3, <2>4, <2>5, <2>7 DEF AgreeInv
  <1> QED BY <1>2, <1>3, <1>4, <1>5, <1>6

\* What is sent: the request goes out, or the command is refused.
LEMMA SentAgrees ==
    ASSUME TypeOK, AgreeInv, Up', CheckPending("dbus") \/ SIPSessionReinvite("dbus")
    PROVE  AgreeInv'
  <1>0. Up /\ Turns /\ Knows /\ Tuned /\ Placed /\ Told
    BY DEF AgreeInv, CheckPending, SIPSessionReinvite, Goes
  <1>1. PICK from \in {"check", "reinvite"}, to \in {"reinvite", "active", "return"} :
           Goes("dbus", from, to)
    BY DEF CheckPending, SIPSessionReinvite
  <1>2. UNCHANGED <<state, shown, session, attrs, sdp, peer>>
    BY DEF CheckPending, SIPSessionReinvite
  <1>3. /\ Dbus.step = from /\ Dbus'.step = to /\ Dbus'.for = Dbus.for
        /\ Dbus.for \in {"hold", "resume"}
        /\ at'["sip"] = at["sip"]
        /\ Knows' /\ Wanted' = Wanted /\ Preparing
        /\ Preparing' <=> to = "reinvite"
        /\ shown \in {"CURRENT", "HOLD"}
        /\ tsx' = tsx => Turns' /\ (Busy' <=> Busy) /\ (Untold' <=> Untold)
    BY <1>0, <1>1, <1>2, CommandMoves DEF Holding, Resuming
  <1>4. session # NoSession => session'.codec = peer'.codec
    BY <1>0, <1>2, <1>3 DEF Tuned
  <1>5. CASE ~Good' /\ tsx' = tsx
    <2>1. Tuned'
      BY <1>2, <1>3, <1>4, <1>5 DEF Tuned
    <2>2. Placed'
      BY <1>0, <1>2, <1>3, <1>5 DEF Placed
    <2>3. Told'
      BY <1>5 DEF Told, Good, None
    <2> QED BY <1>3, <1>5, <2>1, <2>2, <2>3 DEF AgreeInv
  <1>6. CASE CheckPending("dbus") /\ tsx = None
    <2>1. UNCHANGED <<tsx, neg, outcome>> /\ Goes("dbus", "check", "reinvite")
      BY <1>6 DEF CheckPending
    <2>2. Dbus.step = "check" /\ Dbus'.step = "reinvite"
      BY <1>0, <2>1, CommandMoves DEF Holding, Resuming
    <2>3. Tuned'
      BY <1>2, <1>3, <1>4, <2>2 DEF Tuned
    <2>4. Placed'
      BY <1>0, <1>2, <1>3, <2>1, <2>2 DEF Placed, Good
    <2>5. Told'
      BY <1>0, <1>2, <1>3, <2>1, <2>2 DEF Told
    <2> QED BY <1>3, <2>1, <2>3, <2>4, <2>5 DEF AgreeInv
  <1>7. CASE CheckPending("dbus") /\ tsx # None
    BY <1>5, <1>7 DEF CheckPending, Good
  <1>8. CASE SIPSessionReinvite("dbus") /\ tsx # None
    <2>1. outcome' = "refused" /\ tsx' = tsx
      BY <1>8 DEF SIPSessionReinvite
    <2> QED BY <1>5, <2>1 DEF Good
  <1>9. CASE SIPSessionReinvite("dbus") /\ tsx = None
    <2>1. /\ Goes("dbus", "reinvite", IF Dbus.for = "resume" THEN "active" ELSE "return")
          /\ tsx' = "ours" /\ at["sip"].step \notin Updating
          /\ neg.state # "done" => outcome' = "ignored"
          /\ neg.state = "done" => /\ neg' = [state |-> "local offer", offer |-> Direction(attrs)]
                                   /\ outcome' = IF outcome = None THEN "sent" ELSE outcome
      BY <1>9 DEF SIPSessionReinvite, LockFree, Threads, Dbus
    <2>2. /\ Dbus.step = "reinvite" /\ Dbus'.step \in {"active", "return"}
          /\ Dbus.for = "resume" => Dbus'.step = "active"
      <3>1. PICK x \in {"active", "return"} :
               Goes("dbus", "reinvite", x) /\ (Dbus.for = "resume" => x = "active")
        BY <2>1
      <3> QED BY <1>0, <3>1, CommandMoves DEF Holding, Resuming
    <2>3. ~Busy /\ ~Busy' /\ Untold'
      BY <1>3, <2>1, <2>2, BusyEither, BusyEitherNext DEF Updating
    <2>4. Turns'
      <3>1. \A t \in Threads : at'[t].step \notin Updating
        BY <2>3 DEF Busy
      <3> QED BY <1>0, <1>2, <1>3, <3>1 DEF Turns, Dbus, Threads
    <2>5. Tuned'
      BY <1>2, <1>4, <2>3 DEF Tuned
    <2>6. Placed'
      BY <1>0, <1>2, <1>3, <2>2 DEF Placed
    <2>7. Told'
      <3>1. CASE neg.state # "done"
        BY <2>1, <3>1 DEF Told, None
      <3>2. CASE neg.state = "done" /\ outcome = None
        <4>1. outcome' = "sent" /\ neg'.offer = Direction(attrs)
          <5>1. outcome' = "sent"
            BY <2>1, <3>2
          <5>2. neg' = [state |-> "local offer", offer |-> Direction(attrs)]
            BY <2>1, <3>2
          <5> QED BY <5>1, <5>2
        <4>2. Direction(attrs) = Wanted
          BY <1>0, <2>2, <3>2 DEF Told
        <4> QED BY <1>2, <1>3, <2>1, <2>2, <2>3, <4>1, <4>2 DEF Told, None
      <3>3. CASE neg.state = "done" /\ outcome # None
        <4>1. outcome' = outcome /\ outcome \notin {"sent", "accepted"}
          BY <1>0, <1>3, <2>1, <3>3 DEF Told
        <4> QED BY <3>3, <4>1 DEF Told
      <3> QED BY <3>1, <3>2, <3>3
    <2> QED BY <1>3, <2>4, <2>5, <2>6, <2>7 DEF AgreeInv
  <1> QED BY <1>6, <1>7, <1>8, <1>9

\* What is finished: the call becomes active, and the client is told.
LEMMA FinishAgrees ==
    ASSUME TypeOK, AgreeInv, Up', SetActive("dbus") \/ Return("dbus")
    PROVE  AgreeInv'
  <1>0. Up /\ Turns /\ Knows /\ Tuned /\ Placed /\ Told
    BY DEF AgreeInv, SetActive, Return, Goes
  <1>1. CASE SetActive("dbus")
    <2>1. /\ Goes("dbus", "active", "return") /\ state' = "Active"
          /\ UNCHANGED <<shown, session, attrs, sdp, neg, tsx, peer, outcome>>
      BY <1>1 DEF SetActive
    <2>2. /\ Dbus.step = "active" /\ Dbus'.step = "return" /\ Dbus'.for = Dbus.for
          /\ Dbus.for = "resume" /\ Turns' /\ Knows'
          /\ ~Preparing /\ ~Preparing' /\ (Busy' <=> Busy) /\ (Untold' <=> Untold)
          /\ shown \in {"CURRENT", "HOLD"}
      BY <1>0, <2>1, CommandMoves DEF Holding, Resuming
    <2>3. Wanted' = Wanted
      BY <2>2 DEF Wanted
    <2>4. Tuned'
      BY <1>0, <2>1, <2>2 DEF Tuned, Good
    <2>5. Placed'
      BY <1>0, <2>1, <2>2 DEF Placed
    <2>6. Told'
      BY <1>0, <2>1, <2>2, <2>3 DEF Told
    <2> QED BY <2>2, <2>4, <2>5, <2>6 DEF AgreeInv
  <1>2. CASE Return("dbus")
    <2>1. /\ Goes("dbus", "return", "idle")
          /\ shown' = IF Dbus.for = "hold" THEN "HOLD" ELSE "CURRENT"
          /\ UNCHANGED <<state, session, attrs, sdp, neg, tsx, peer, outcome>>
      BY <1>2 DEF Return, Dbus
    <2>2. /\ Dbus.step = "return" /\ Dbus' = Idle /\ at'["sip"] = at["sip"]
      BY <2>1 DEF Goes, TypeOK, Dbus, Threads
    <2>3. Dbus'.step = "idle" /\ Dbus'.for = None
      BY <2>2 DEF Idle
    <2>4. Dbus.for \in {"hold", "resume"} /\ shown \in {"CURRENT", "HOLD"}
      <3>1. Dbus.for \in {"hold", "resume"}
        BY <2>2, TypeFacts, PlaceFacts DEF Holding
      <3> QED BY <1>0, <3>1, TypeFacts DEF Turns
    <2>5. /\ ~Preparing /\ ~Preparing' /\ (Busy' <=> Busy) /\ (Untold' <=> Untold)
      <3>1. ~Preparing /\ ~Preparing' /\ (Busy' <=> Busy)
        BY <2>2, <2>3, BusyEither, BusyEitherNext DEF Preparing, Updating
      <3>2. shown # "INCOMING" /\ shown' # "INCOMING"
        BY <2>1, <2>4
      <3> QED BY <2>1, <2>2, <2>3, <3>1, <3>2, BusyEither, BusyEitherNext
    <2>6. Turns'
      BY <1>0, <2>1, <2>2, <2>3, <2>4 DEF Turns, Dbus, Threads, Updating
    <2>7. Knows'
      BY <1>0, <2>1, <2>4, <2>5 DEF Knows
    <2>8. Tuned'
      BY <1>0, <2>1, <2>2, <2>4, <2>5 DEF Tuned, Good
    <2>9. Good => (state = "Hold" <=> Dbus.for = "hold")
      BY <1>0, <2>2, <2>4 DEF Placed
    <2>10. Placed'
      BY <1>0, <2>1, <2>2, <2>3, <2>4, <2>9 DEF Placed, Good, None
    <2>11. Told'
      <3>1. CASE ~Good
        BY <2>1, <3>1 DEF Told, Good, None
      <3>2. CASE Good
        <4>1. Wanted' = Wanted
          BY <2>1, <2>3, <2>4, <2>9, <3>2 DEF Wanted, None
        <4>2. outcome # None
          BY <1>0, <2>4, <2>5 DEF Told
        <4> QED BY <1>0, <2>1, <2>5, <4>1, <4>2 DEF Told
      <3> QED BY <3>1, <3>2
    <2> QED BY <2>6, <2>7, <2>8, <2>10, <2>11 DEF AgreeInv
  <1> QED BY <1>1, <1>2

\* A negotiation ends: the session learns where the peer listens, and the peer
\* what this side said last.
LEMMA NegotiateAgrees ==
    ASSUME TypeOK, AgreeInv, Up, NEW t \in Threads, NEW a \in Addresses,
           NEW told \in Offered \cup {None}, NEW why \in {"ours", "peer's", "peer's empty"},
           at[t] = Idle, LockFree(t), t = "dbus" <=> shown = "INCOMING",
           Negotiate(t, a, peer.codec, told, why),
           UNCHANGED <<state, shown, session, attrs>>,
           tsx' = why, shown \in {"RINGING", "INCOMING"} => tsx' = tsx,
           outcome' = outcome \/ (outcome = "accepted" /\ outcome' = "replaced"),
           outcome = None /\ shown = "INCOMING" => told = Direction(attrs),
           outcome' = "sent" => tsx = "ours" /\ tsx' = "ours" /\ told = neg.offer,
           outcome' = "accepted" => tsx' = "peer's" /\ tsx # "peer's empty"
                                      /\ (neg.state = "done" => told = Direction(attrs))
    PROVE  AgreeInv'
  <1>0. Turns /\ Knows /\ Tuned /\ Placed /\ Told
    BY DEF AgreeInv
  <1>1. /\ neg' = [state |-> "done", offer |-> None]
        /\ peer' = [address |-> a, codec |-> peer.codec, told |-> told]
        /\ sdp' = [remote |-> a, codec |-> IF sdp.codec = None THEN peer.codec ELSE sdp.codec]
        /\ at' = [at EXCEPT ![t] = [step |-> "destination", for |-> why]]
    BY DEF Negotiate, Begin
  <1>2. /\ at'[t].step = "destination" /\ at'[t].for = why
        /\ \A u \in Threads \ {t} : at'[u] = at[u] /\ at[u].step \notin Updating
        /\ at[t].step = "idle" /\ at[t].for = None
    <2>1. at'[t] = [step |-> "destination", for |-> why]
      BY <1>1 DEF TypeOK
    <2>2. \A u \in Threads \ {t} : at'[u] = at[u] /\ at[u].step \notin Updating
      BY <1>1 DEF TypeOK, LockFree
    <2>3. at'[t].step = "destination" /\ at'[t].for = why
      <3> DEFINE p == [step |-> "destination", for |-> why]
      <3>1. p.step = "destination" /\ p.for = why
        OBVIOUS
      <3> HIDE DEF p
      <3> QED BY <2>1, <3>1 DEF p
    <2>4. at[t].step = "idle" /\ at[t].for = None
      BY IdleFields DEF None
    <2> QED BY <2>2, <2>3, <2>4
  <1>3. ~Busy /\ Busy' /\ Untold'
    BY <1>2 DEF Busy, Untold, Updating
  <1>4. \/ t = "sip" /\ Dbus' = Dbus
        \/ t = "dbus" /\ Dbus.step = "idle" /\ Dbus.for = None
             /\ Dbus'.step = "destination" /\ Dbus'.for = why
    BY <1>2 DEF Dbus, Threads
  <1>5. /\ Dbus.for \notin {"hold", "resume"} <=> Dbus'.for \notin {"hold", "resume"}
        /\ Dbus.for = "hold" <=> Dbus'.for = "hold"
        /\ Dbus.for = "resume" <=> Dbus'.for = "resume"
        /\ Preparing' <=> Preparing
        /\ \A x \in {"start", "stop", "init", "create", "return", "add", "check", "reinvite"} :
             Dbus'.step = x <=> Dbus.step = x
    BY <1>4 DEF Preparing, None
  <1>6. Wanted' = Wanted /\ (Good' <=> Good) /\ (outcome' = None <=> outcome = None)
    BY <1>5 DEF Wanted, Good, None
  <1>7. Turns'
    <2>1. \A u \in Threads : at'[u].step \in Updating => at'[u].for = tsx'
      BY <1>2
    <2>2. Dbus'.step \in Updating => shown' = "INCOMING"
      BY <1>0, <1>2, <1>3, <1>4 DEF Busy, Dbus, Threads
    <2>3. at'["sip"].step \in Updating \cup {"idle"}
      BY <1>0, <1>2 DEF Turns, Threads, Updating
    <2>4. shown' = "INCOMING" => at'["sip"].step = "idle" /\ tsx' = "peer's" /\ outcome' = None
      <3>1. shown = "INCOMING" => t = "dbus" /\ at'["sip"] = at["sip"]
        BY <1>2 DEF Threads
      <3> QED BY <1>0, <1>6, <3>1 DEF Turns
    <2>5. shown' = "RINGING" => outcome' = "sent"
      BY <1>0 DEF Turns
    <2>6. shown' \in {"RINGING", "INCOMING"} => Dbus'.for \notin {"hold", "resume"}
      BY <1>0, <1>5 DEF Turns
    <2> QED BY <2>1, <2>2, <2>3, <2>4, <2>5, <2>6 DEF Turns
  <1>8. Knows'
    <2>1. sdp'.remote = a /\ peer'.address = a /\ peer'.codec = peer.codec
      BY <1>1
    <2>2. sdp'.codec = IF sdp.codec = None THEN peer.codec ELSE sdp.codec
      BY <1>1
    <2>3. sdp'.codec = peer.codec
      BY <1>0, <2>2 DEF Knows
    <2> QED BY <2>1, <2>3 DEF Knows
  <1>9. Tuned'
    <2>1. ~\E u \in Threads : at'[u].step = "negotiated"
      BY <1>2 DEF Updating
    <2>2. peer'.codec = peer.codec
      BY <1>1
    <2> QED BY <1>0, <1>3, <1>5, <2>1, <2>2 DEF Tuned
  <1>10. Placed'
    BY <1>0, <1>5, <1>6 DEF Placed
  <1>11. Told'
    <2>1. neg'.state = "done" /\ peer'.told = told
      BY <1>1
    <2>2. outcome' = None /\ Dbus'.step = "add" => attrs' = {}
      BY <1>0, <1>5, <1>6 DEF Told
    <2>3. outcome' = None /\ (~Preparing' \/ Dbus'.step \in {"check", "reinvite"})
            => Direction(attrs') = Wanted'
      BY <1>0, <1>5, <1>6 DEF Told
    <2>4. outcome' = None /\ Busy' /\ shown' = "INCOMING" =>
            peer'.told = Wanted' /\ neg'.state = "done"
      <3>1. shown = "INCOMING" => ~Preparing
        BY <1>4 DEF Preparing
      <3> QED BY <1>0, <1>6, <2>1, <3>1 DEF Told
    <2>5. outcome' = None /\ ~Preparing' => shown' = "INCOMING"
      BY <1>0, <1>5, <1>6 DEF Told
    <2>6. outcome' \in {"sent", "accepted"} => ~Preparing' /\ outcome = outcome'
      BY <1>0, <1>5 DEF Told
    <2>7. outcome' = "sent" => tsx' = "ours" /\ Direction(attrs') = Wanted' /\ peer'.told = Wanted'
      BY <1>0, <1>3, <1>6, <2>1, <2>6 DEF Told
    <2>8. outcome' = "accepted" =>
            tsx' = "peer's" /\ Direction(attrs') = Wanted' /\ peer'.told = Wanted'
      BY <1>0, <1>6, <2>1, <2>6 DEF Told
    <2> QED BY <1>3, <2>1, <2>2, <2>3, <2>4, <2>5, <2>6, <2>7, <2>8 DEF Told
  <1> QED BY <1>7, <1>8, <1>9, <1>10, <1>11 DEF AgreeInv

\* A hold or resume begins with nothing told yet.
LEMMA BeginAgrees ==
    ASSUME TypeOK, AgreeInv, Up', onhold("dbus") \/ offhold
    PROVE  AgreeInv'
  <1>0. Up /\ Turns /\ Knows /\ Tuned /\ Placed /\ Told
    BY DEF AgreeInv, onhold, offhold
  <1>1. PICK s \in {"stop", "init"}, f \in {"hold", "resume"} :
           /\ at["dbus"] = Idle
           /\ at' = [at EXCEPT !["dbus"] = [step |-> s, for |-> f]]
           /\ s = "stop" <=> f = "hold"
           /\ f = "hold" => state' = "Hold"
    BY DEF onhold, offhold, Begin
  <1>2. /\ outcome' = None /\ shown \in {"CURRENT", "HOLD"}
        /\ UNCHANGED <<shown, session, attrs, sdp, neg, tsx, peer>>
    BY DEF onhold, offhold
  <1>3. /\ Dbus.step = "idle" /\ Dbus'.step = s /\ Dbus'.for = f
        /\ at'["sip"] = at["sip"]
    <2>1. Dbus' = [step |-> s, for |-> f] /\ at'["sip"] = at["sip"]
      BY <1>1 DEF TypeOK, Dbus, Threads
    <2> QED BY <1>1, <2>1 DEF Dbus, Idle
  <1>4. Preparing' /\ (Busy' <=> Busy)
    BY <1>3, BusyEither, BusyEitherNext DEF Preparing, Updating
  <1>5. Turns'
    BY <1>0, <1>2, <1>3 DEF Turns, Dbus, Threads, Updating
  <1>6. Knows'
    BY <1>0, <1>2 DEF Knows
  <1>7. Tuned'
    BY <1>0, <1>2, <1>3, <1>4 DEF Tuned
  <1>8. Placed'
    BY <1>1, <1>2, <1>3 DEF Placed
  <1>9. Told'
    BY <1>2, <1>3, <1>4 DEF Told, None
  <1> QED BY <1>5, <1>6, <1>7, <1>8, <1>9 DEF AgreeInv

\* Answering tells the peer what the call means; hanging up tells nothing more.
LEMMA AnswerAgrees ==
    ASSUME TypeOK, AgreeInv, Up', answer \/ hangup
    PROVE  AgreeInv'
  <1>0. Up /\ Turns /\ Knows /\ Tuned /\ Placed /\ Told
    BY DEF AgreeInv, answer, hangup
  <1>1. CASE answer
    <2>1. /\ shown = "INCOMING" /\ at["dbus"] = Idle /\ LockFree("dbus")
          /\ Negotiate("dbus", peer.address, peer.codec, Direction(attrs), "peer's")
          /\ UNCHANGED <<state, shown, session, attrs, tsx, outcome>>
      BY <1>1 DEF answer
    <2>2. outcome = None /\ tsx = "peer's"
      BY <1>0, <2>1 DEF Turns
    <2>3. peer.address \in Addresses /\ Direction(attrs) \in Offered \cup {None}
      BY DirectionTyped DEF TypeOK
    <2> QED BY <1>0, <2>1, <2>2, <2>3, NegotiateAgrees DEF Threads, None
  <1>2. CASE hangup
    <2>1. /\ at["dbus"] = Idle
          /\ at' = [at EXCEPT !["dbus"] = [step |-> "delete", for |-> None]]
          /\ UNCHANGED <<state, shown, session, attrs, sdp, neg, tsx, peer, outcome>>
      BY <1>2 DEF hangup, Begin
    <2>2. /\ Dbus.step = "idle" /\ Dbus'.step = "delete"
          /\ Dbus.for = None /\ Dbus'.for = None
          /\ at'["sip"] = at["sip"]
      <3>1. Dbus' = [step |-> "delete", for |-> None] /\ at'["sip"] = at["sip"]
        BY <2>1 DEF TypeOK, Dbus, Threads
      <3> QED BY <2>1, <3>1 DEF Dbus, Idle
    <2>3. /\ ~Preparing /\ ~Preparing' /\ (Busy' <=> Busy) /\ (Untold' <=> Untold)
          /\ Wanted' = Wanted
      <3>1. ~Preparing /\ ~Preparing' /\ Wanted' = Wanted
        BY <2>1, <2>2 DEF Preparing, Wanted
      <3>2. Busy' <=> Busy
        BY <2>2, BusyEither, BusyEitherNext DEF Updating
      <3> QED BY <2>1, <2>2, <3>1, <3>2, BusyEither, BusyEitherNext
    <2>4. Turns'
      BY <1>0, <2>1, <2>2 DEF Turns, Dbus, Threads, Updating, None
    <2>5. Knows'
      BY <1>0, <2>1, <2>3 DEF Knows
    <2>6. Tuned'
      BY <1>0, <2>1, <2>2, <2>3, BusyEither, BusyEitherNext DEF Tuned, Good
    <2>7. Placed'
      BY <1>0, <2>1, <2>2 DEF Placed, Good, None
    <2>8. Told'
      BY <1>0, <2>1, <2>2, <2>3 DEF Told
    <2> QED BY <2>4, <2>5, <2>6, <2>7, <2>8 DEF AgreeInv
  <1> QED BY <1>1, <1>2

\* The answer to our request, or the peer's own request or answer.
LEMMA PeerNegotiatesAgrees ==
    ASSUME TypeOK, AgreeInv, Up', "codec" \notin PeerMay, NEW a \in Addresses,
           \/ \E c \in Codecs : Accepts(a, c) \/ Reinvites(a, c)
           \/ AnswersInAck(a)
    PROVE  AgreeInv'
  <1>0. Up /\ Turns /\ Knows /\ Tuned /\ Placed /\ Told
    BY DEF AgreeInv, Accepts, Reinvites, MayReinvite, AnswersInAck, Receives
  <1>1. CASE \E c \in Codecs : Accepts(a, c)
    <2>1. /\ at["sip"] = Idle /\ LockFree("sip") /\ tsx = "ours"
          /\ Negotiate("sip", a, peer.codec, neg.offer, "ours")
          /\ UNCHANGED <<state, shown, session, attrs, tsx, outcome>>
      BY <1>1 DEF Accepts, Receives
    <2>5. neg.offer \in Offered \cup {None}
      BY DEF TypeOK
    <2>2. shown # "INCOMING" /\ outcome # "accepted"
      BY <1>0, <2>1 DEF Turns, Told
    <2> QED BY <1>0, <2>1, <2>2, <2>5, NegotiateAgrees DEF Threads
  <1>2. CASE \E c \in Codecs : Reinvites(a, c)
    <2>0. MayReinvite
      BY <1>2 DEF Reinvites
    <2>1. /\ at["sip"] = Idle /\ LockFree("sip") /\ tsx = None
          /\ shown \in {"CURRENT", "HOLD"} /\ tsx' = "peer's"
          /\ UNCHANGED <<state, shown, session, attrs, outcome>>
      BY <1>2, <2>0 DEF Reinvites, MayReinvite, Receives
    <2>2. PICK told \in Offered \cup {None} :
             /\ Negotiate("sip", a, peer.codec, told, "peer's")
             /\ neg.state = "done" => told = Direction(attrs)
      <3>1. {Direction(attrs), peer.told} \subseteq Offered \cup {None}
        BY DirectionTyped DEF TypeOK
      <3>2. Negotiate("sip", a, peer.codec,
                      IF neg.state = "done" THEN Direction(attrs) ELSE peer.told, "peer's")
        BY <1>2 DEF Reinvites
      <3> QED BY <3>1, <3>2
    <2>3. outcome # "sent"
      BY <1>0, <2>1 DEF Told, None
    <2> QED BY <1>0, <2>1, <2>2, <2>3, NegotiateAgrees DEF Threads, None
  <1>3. CASE AnswersInAck(a)
    <2>1. /\ at["sip"] = Idle /\ LockFree("sip") /\ tsx = "peer's empty"
          /\ Negotiate("sip", a, peer.codec, neg.offer, "peer's empty")
          /\ outcome' = IF outcome = "accepted" THEN "replaced" ELSE outcome
          /\ UNCHANGED <<state, shown, session, attrs, tsx>>
      BY <1>3 DEF AnswersInAck, Receives
    <2>5. neg.offer \in Offered \cup {None}
      BY DEF TypeOK
    <2>2. shown # "INCOMING" /\ outcome # "sent"
      BY <1>0, <2>1 DEF Turns, Told
    <2>3. outcome' # "sent" /\ outcome' # "accepted"
      BY <2>1, <2>2
    <2>4. outcome' = outcome \/ (outcome = "accepted" /\ outcome' = "replaced")
      BY <2>1
    <2> QED BY <1>0, <2>1, <2>2, <2>3, <2>4, <2>5, NegotiateAgrees DEF Threads
  <1> QED BY <1>1, <1>2, <1>3

\* A request that ends without an answer to learn from, or begins without an offer.
LEMMA PeerEndsAgrees ==
    ASSUME TypeOK, AgreeInv, Up',
           (\E how \in {"refuse", "challenge"} : Refuses(how)) \/ Acknowledges \/ ReinvitesEmpty
    PROVE  AgreeInv'
  <1>0. Up /\ Turns /\ Knows /\ Tuned /\ Placed /\ Told
    BY DEF AgreeInv, Refuses, Acknowledges, ReinvitesEmpty, MayReinvite, Receives
  <1>1. /\ at["sip"] = Idle /\ LockFree("sip")
        /\ UNCHANGED <<state, shown, session, sdp, peer, at>>
    BY DEF Refuses, Acknowledges, ReinvitesEmpty, MayReinvite, Receives
  <1>2. \A u \in Threads : at[u].step \notin Updating
    <2>1. at["sip"].step \notin Updating
      BY <1>1 DEF Idle, Updating
    <2>2. at["dbus"].step \notin Updating
      BY <1>1 DEF LockFree, Threads
    <2> QED BY <2>1, <2>2 DEF Threads
  <1>3. ~Busy /\ ~Busy'
    BY <1>1, <1>2 DEF Busy
  <1>4. (Preparing' <=> Preparing) /\ Wanted' = Wanted /\ Dbus' = Dbus
    BY <1>1 DEF Preparing, Wanted, Dbus
  <1>5. shown # "INCOMING"
    BY <1>0 DEF Refuses, Acknowledges, ReinvitesEmpty, MayReinvite, Turns
  <1>6. Untold' => tsx' = "ours"
    BY <1>1, <1>2, <1>5 DEF Untold, Updating
  <1>7. ASSUME shown = "RINGING" => outcome' = "sent"
        PROVE  Turns' /\ Knows'
    BY <1>0, <1>1, <1>2, <1>3, <1>4, <1>5, <1>7 DEF Turns, Knows
  <1>8. session # NoSession => session'.codec = peer'.codec \/ shown \notin {"CURRENT", "HOLD"}
           \/ Dbus.step = "start"
    BY <1>0, <1>1 DEF Tuned
  <1>9. ASSUME ~Good' \/ Preparing \/ (Good /\ ~Untold)
        PROVE  Tuned'
    BY <1>0, <1>1, <1>2, <1>4, <1>9 DEF Tuned, Updating
  <1>10. ASSUME Good' => Good
         PROVE  Placed'
    BY <1>0, <1>1, <1>4, <1>10 DEF Placed
  <1>11. CASE \E how \in {"refuse", "challenge"} : Refuses(how)
    <2>1. outcome' = "refused" /\ shown # "RINGING"
      BY <1>11 DEF Refuses
    <2>2. ~Good'
      BY <2>1 DEF Good
    <2>3. Told'
      BY <2>1 DEF Told, None
    <2> QED BY <1>7, <1>9, <1>10, <2>1, <2>2, <2>3 DEF AgreeInv
  <1>12. CASE Acknowledges
    <2>1. tsx = "peer's" /\ tsx' = None /\ UNCHANGED <<attrs, neg, outcome>>
      BY <1>12 DEF Acknowledges
    <2>2. ~Untold
      BY <1>2, <1>5, <2>1 DEF Untold, Updating
    <2>3. (Good' <=> Good) /\ shown # "RINGING"
      <3>1. outcome = "sent" => tsx = "ours"
        BY <1>0 DEF Told
      <3> QED BY <1>0, <2>1, <3>1 DEF Good, Turns
    <2>4. Told'
      <3>1. outcome # "sent"
        BY <1>0, <2>1 DEF Told
      <3> QED BY <1>0, <1>1, <1>3, <1>4, <2>1, <3>1 DEF Told, None
    <2> QED BY <1>7, <1>9, <1>10, <2>2, <2>3, <2>4 DEF AgreeInv, Good
  <1>13. CASE ReinvitesEmpty
    <2>1. /\ tsx = None /\ shown \in {"CURRENT", "HOLD"}
          /\ neg.state = "done" => tsx' = "peer's empty"
          /\ outcome' = IF outcome = None THEN "replaced" ELSE outcome
      BY <1>13 DEF ReinvitesEmpty, MayReinvite
    <2>2. ~Untold
      BY <1>2, <1>5, <2>1 DEF Untold, Updating, None
    <2>3. Good' <=> Good
      BY <2>1 DEF Good, None
    <2>4. Told'
      <3>1. outcome # "sent"
        BY <1>0, <2>1 DEF Told, None
      <3>2. outcome' \notin {None, "sent"}
        BY <2>1, <3>1 DEF None
      <3>3. outcome' = "accepted" => tsx' = "peer's empty" /\ peer.told = Wanted /\ ~Preparing
        <4>1. outcome' = "accepted" => outcome = "accepted"
          BY <2>1
        <4> QED BY <1>0, <2>1, <4>1 DEF Told, None
      <3> QED BY <1>1, <1>3, <1>4, <3>2, <3>3 DEF Told
    <2> QED BY <1>7, <1>9, <1>10, <2>1, <2>2, <2>3, <2>4 DEF AgreeInv, Good
  <1> QED BY <1>11, <1>12, <1>13

\* The first request: ours has gone out, or the peer's has come.
LEMMA InitAgrees ==
    ASSUME Init
    PROVE  AgreeInv
  <1>1. /\ Dbus = Idle /\ at["sip"] = Idle /\ Idle.step = "idle" /\ Idle.for = None
        /\ \A t \in Threads : at[t] = Idle
    BY DEF Init, Threads, Dbus, Idle
  <1>2. ~Busy /\ ~Preparing /\ Untold
    <2>1. ~Busy /\ ~Preparing
      BY <1>1 DEF Busy, Preparing, Updating
    <2> QED BY <2>1 DEF Init, Untold
  <1>3. Wanted = "sendrecv" /\ Direction(attrs) = "sendrecv"
    BY DEF Init, Wanted, Direction
  <1>4. Turns
    BY <1>1 DEF Init, Turns, Threads, Updating, None
  <1>5. sdp.codec = None
    BY DEF Init
  <1>6. Knows
    BY <1>2, <1>5 DEF Init, Knows
  <1>7. Tuned
    BY <1>1, <1>2 DEF Init, Tuned
  <1>8. session # NoSession
    BY DEF Init, NoSession, None, Nowhere
  <1>9. Placed
    BY <1>1, <1>8 DEF Init, Placed, None
  <1>10. Told
    <2>1. CASE shown = "RINGING"
      <3>1. outcome = "sent" /\ tsx = "ours" /\ neg.offer = "sendrecv"
        <4>1. /\ outcome = "sent" /\ tsx = "ours"
              /\ neg = [state |-> "local offer", offer |-> "sendrecv"]
          BY <2>1 DEF Init
        <4>2. [state |-> "local offer", offer |-> "sendrecv"].offer = "sendrecv"
          OBVIOUS
        <4> QED BY <4>1, <4>2
      <3>2. IF Busy THEN peer.told = Wanted /\ neg.state = "done" ELSE neg.offer = Wanted
        BY <1>2, <1>3, <3>1
      <3> QED BY <1>2, <1>3, <3>1, <3>2 DEF Told, None
    <2>2. CASE shown = "INCOMING"
      <3>1. outcome = None
        BY <2>2 DEF Init
      <3> QED BY <1>1, <1>2, <1>3, <2>2, <3>1 DEF Told, None
    <2> QED BY <2>1, <2>2 DEF Init
  <1> QED BY <1>4, <1>6, <1>7, <1>9, <1>10 DEF AgreeInv

\* Every step keeps the agreement.  The SIP thread has no command to run.
LEMMA StepAgrees ==
    ASSUME TypeOK, AgreeInv, Up', Next, {"conference", "codec"} \cap PeerMay = {}
    PROVE  AgreeInv'
  <1>1. ASSUME NEW t \in Threads, onhold(t)
        PROVE  AgreeInv'
    BY <1>1, BeginAgrees DEF Threads, onhold
  <1>2. ASSUME NEW t \in Threads, Step(t)
        PROVE  AgreeInv'
    <2>1. CASE Update(t)
      BY <2>1, UpdateAgrees
    <2>2. CASE t = "sip" /\ ~Update(t)
      <3>1. PICK from \in Holding \cup Resuming : \E to : Goes("sip", from, to)
        BY <1>2, <2>2 DEF Step, stop, initAudioRtpConfig, initAudioSymmetricRtpSession,
           start, removeAttributes, addAttribute, CheckPending, SIPSessionReinvite,
           SetActive, Return, Holding, Resuming
      <3>2. at["sip"].step = from /\ Up
        BY <3>1 DEF Goes
      <3> QED BY <3>2 DEF AgreeInv, Turns, Updating, Holding, Resuming
    <2>3. CASE t = "dbus" /\ ~Update(t)
      BY <1>2, <2>3, PrepareAgrees, SentAgrees, FinishAgrees DEF Step
    <2> QED BY <2>1, <2>2, <2>3 DEF Threads
  <1>3. CASE removeCall \/ PeerHangsUp \/ Mismatches \/ Fails
    BY <1>3 DEF removeCall, PeerHangsUp, Mismatches, Fails, Deletes, Up
  <1>4. CASE answer \/ hangup
    BY <1>4, AnswerAgrees
  <1>5. CASE offhold
    BY <1>5, BeginAgrees
  <1>6. CASE EndsRequest
    BY <1>3, <1>6, PeerNegotiatesAgrees, PeerEndsAgrees DEF EndsRequest
  <1>7. CASE ReinvitesEmpty
    BY <1>7, PeerEndsAgrees
  <1>8. CASE \E a \in Addresses, c \in Codecs : Reinvites(a, c)
    BY <1>8, PeerNegotiatesAgrees
  <1> QED BY <1>1, <1>2, <1>3, <1>4, <1>5, <1>6, <1>7, <1>8 DEF Next

\* Whenever nothing is going on and the offer of the user's last hold, resume or
\* answer was accepted, the session, the peer and the client agree about the call
\* (AcceptedAgrees): whichever way onhold, offhold and sdp_media_update_cb cross on
\* the two threads, whatever the peer refused, asked for or moved to before, as long
\* as it keeps to its codec and no other call's end puts this one on hold (the cases
\* in which it does not are not so, see the README).
THEOREM AcceptedRequestsAgree ==
    ASSUME "conference" \notin PeerMay, "codec" \notin PeerMay
    PROVE  Spec => []AcceptedAgrees
  <1>1. Init => AgreeInv
    BY InitAgrees
  <1>2. TypeOK /\ AgreeInv /\ [Next]_vars => AgreeInv'
    <2> SUFFICES ASSUME TypeOK, AgreeInv, [Next]_vars, Up' PROVE AgreeInv'
      BY DEF AgreeInv
    <2>1. CASE UNCHANGED vars
      BY <2>1 DEF vars, AgreeInv, Up, Turns, Knows, Tuned, Placed, Told, Good, Busy,
         Preparing, Untold, Wanted, Dbus, Direction
    <2> QED BY <2>1, StepAgrees
  <1>3. TypeOK /\ AgreeInv /\ HeldIsStill => AcceptedAgrees
    <2> SUFFICES ASSUME TypeOK, AgreeInv, HeldIsStill, Quiet,
                        outcome \in {"accepted", "replaced"}
                 PROVE  SoundAgrees /\ (outcome = "accepted" => PeerAgrees)
      BY DEF AcceptedAgrees
    <2>1. Up /\ Turns /\ Knows /\ Tuned /\ Placed /\ Told
      BY DEF AgreeInv, Quiet
    <2>2. /\ tsx = None /\ Dbus = Idle /\ Dbus.step = "idle" /\ Dbus.for = None
          /\ at["dbus"] = Idle /\ \A t \in Threads : at[t].step = "idle"
      BY DEF Quiet, Dbus, Threads, Idle
    <2>3. Good /\ ~Preparing /\ ~Busy
      BY <2>2 DEF Good, Preparing, Busy, Updating
    <2>4. shown \in {"CURRENT", "HOLD"}
      BY <2>1, <2>2, TypeFacts DEF Turns, None
    <2>5. ~Untold
      BY <2>2, <2>4 DEF Untold, None
    <2>6. (state = "Hold" <=> shown = "HOLD") /\ (state = "Active" => session # NoSession)
      BY <2>1, <2>2, <2>3 DEF Placed, None
    <2>7. CASE state = "Hold"
      BY <2>1, <2>2, <2>6, <2>7 DEF HeldIsStill, SoundAgrees, Told, PeerAgrees, Wanted, None
    <2>8. CASE state = "Active"
      <3>1. session.codec = peer.codec /\ session.dest = peer.address /\ shown = "CURRENT"
        BY <2>1, <2>2, <2>3, <2>4, <2>5, <2>6, <2>8 DEF Tuned
      <3>2. session = [dest |-> peer.address, codec |-> peer.codec]
        BY <2>6, <2>8, <3>1, TypeFacts
      <3> QED BY <2>1, <2>8, <3>1, <3>2 DEF SoundAgrees, Told, PeerAgrees, Wanted
    <2> QED BY <2>7, <2>8, TypeFacts
  <1>4. TypeOK /\ SdpKnown => TypeOK
    OBVIOUS
  <1>5. Spec => []HeldIsStill
    BY HeldStaysStill
  <1> QED BY <1>1, <1>2, <1>3, <1>4, <1>5, MediaTypeCorrect, PTL DEF Spec
=============================================================================
