# A TLA+ model of the SFLphone daemon

SFLphone is a VoIP phone made of a daemon, `sflphoned` (`src/daemon`), and of
clients (`src/gnome`, `src/kde`) that command it over D-Bus.  This project
models the daemon: the state it keeps about calls, conferences, accounts and
audio streams, the operations clients, voip links and audio threads perform on
it, and the interleavings of those threads.

## 1. Inventory

### Threads

| thread | code | what it does |
|---|---|---|
| D-Bus thread | `dbus/callmanager.cpp`, `dbus/configurationmanager.cpp` | runs the client's commands: every public method of `ManagerImpl` |
| SIP event thread | `eventthread.cpp`, `SIPVoIPLink::getEvent` | pjsip's event loop: all callbacks of `sip/sipvoiplink.cpp` run here |
| IAX event threads | `IAXVoIPLink::getEvent`, one per IAX account | polls libiax2 |
| audio threads | `audio/alsa`, `audio/pulseaudio` | move samples between the sound card and `MainBuffer` |
| RTP threads | `audio/audiortp` | one per call, move samples between the network and `MainBuffer` |
| recorder threads | `audio/audiorecorder.cpp` | one per recorded call or conference |

### Components

| component | state | operations | must hold |
|---|---|---|---|
| `RingBuffer` | write position, one read pointer per reader, the cells | put, get, discard, flush, readers come and go | each reader gets what was written since it came, once and in order |
| `MainBuffer`, bindings | map id to ring buffer, map id to the set of ids it reads | bind and unbind (full and half duplex) | sets, read pointers and ring buffers agree; nothing leaks; nothing is deleted under a reader |
| `MainBuffer`, data path | what each client has not read of each stream | put, available, get and mix, discard, flush, resynchronise | what a client is told is there is there; reading does not spread its streams; a silent stream starves no other |
| `ManagerImpl`, calls | current call, waiting calls, call to account map, call to configuration map | out, answer, hang up, hold, transfer, refuse; incoming call, peer answered, hung up, busy, failure | the maps agree with the links' own call maps; the current call is one that exists; a held call carries no sound |
| `ManagerImpl`, conferences | `_conferencemap`, each conference's participants and state, each call's conference id | create, join, add, detach, remove, hold, resume | participants and conference ids agree; no conference with fewer than two participants survives; streams match the participants |
| `VoIPLink` | map id to call | add, remove, find, clear | |
| `SIPVoIPLink` | invite sessions, registrations, transactions | calls and registrations out and in, hold and resume by re-INVITE, transfer by REFER | a call is removed once and its ports freed once, whatever the order of answers |
| `SIPAccount`, `Account` | registration state and flags | register, unregister, answers | the state shown is the state of the last request |
| `IAXVoIPLink` | calls and their sessions, the registration session, the refresh stamp | calls and registration, over libiax2's events | each call has a session of its own; no session is forgotten; an account that was unregistered stays so; a registration ends |
| audio layer | stream state, urgent ring buffer | start, stop, callbacks | |
| `AudioRtp*` | RTP session of a call: destination and codec | create, start, stop, update the destination and the codec | sends to where the peer listens, in the codec agreed on; stays stopped while the call is held |
| recorder | `Recordable`, `AudioRecord`, `AudioRecorder` | toggle, loop | what is written to the file was read from the streams; `Conference` binds and unbinds the same streams |
| tones, ringtone file | the current tone, the file being played | start, stop | |
| `Sdp`, `SdesNegotiator` | offers and answers | negotiate, hold and resume attributes | the answer is a subset of the offer; what the peer is told of this side is what this side does |
| `NumberCleaner`, `History`, `Preferences`, `config` | strings and files | | |
| `PluginManager` | the loaded plugins | load, unload | |
| clients, plugins, vendored libraries | | | not part of the daemon's own logic |

### What is hard

The daemon's objects are shared between these threads with coarse and partial
locking.  `ManagerImpl` locks some of its maps (`_callAccountMapMutex`,
`_waitingCallMutex`, `_currentCallMutex`) and none of its conferences;
`MainBuffer` locks each method but not `unBindAll`; a SIP callback may run
between any two statements of a command from the client.  Answers may come late,
twice, or for a call that has gone.  The list `hazards` in `PROJECT.json` gives
each of these at its line.


## 2. Modules

| module | models | code |
|---|---|---|
| `RingBufferOps` | the arithmetic of the pointers, one operator per method | `audio/ringbuffer.cpp` |
| `RingBuffer` | one ring with a writer and readers that come and go | the same, as `MainBuffer` calls it |
| `BroadcastFifo` | abstract: one queue per reader | what `RingBuffer` promises |
| `MainBuffer` | bindings: sets, read pointers, ring buffers; several threads | `audio/mainbuffer.cpp` |
| `StreamMix` | one client of the data path: a call's RTP thread, the speaker or a recorder reads and mixes its streams | `audio/mainbuffer.cpp`, `AudioRtpSession::processDataEncode`, the audio layers' callbacks, `AudioRecorder::run` |
| `BindingGraph` | abstract: a relation, who reads whom | what `MainBuffer` promises |
| `CallControl` | the handlers of calls and conferences as operators on a state | `managerimpl.cpp`, `conference.cpp`, `sip/sipvoiplink.cpp`, `voiplink.cpp`, `call.cpp` |
| `CallManager` | the client and the peers drive those handlers, one at a time | `dbus/callmanager.cpp`, pjsip's callbacks, the GNOME client |
| `AnswerRace` | answer and refuse against the SIP thread, statement by statement | `answerCall`, `refuseCall`, `incomingCall`, `peerHungupCall` |
| `SIPRegistration` | the registration of one SIP account, two threads and pjsip | `sendRegister`, `sendUnregister`, `registration_cb`, `pjsip_regc` |
| `MediaSession` | the sound of one SIP call: its RTP session, local and negotiated SDP, pjsip's INVITE transaction and offer; two threads and the peer | `AudioRtpFactory.cpp`, `AudioRtpSession.cpp`, `sdp.cpp`, `answer`, `onhold`, `offhold`, `hangup`, `sdp_media_update_cb` of `sip/sipvoiplink.cpp`; external: `sip_inv.c`, `sdp_neg.c` |
| `LibIAX` | libiax2's list of sessions, its events and its scheduled final frames | external: `libs/iax2/iax.c` |
| `IAXLink` | the IAX link of one account: calls and registration, the event thread and the D-Bus thread | `iax/iaxvoiplink.cpp`, `iax/iaxaccount.cpp`, `iax/iaxcall.cpp` |
| `MCRingBuffer`, `MCMainBuffer`, `MCCallManager`, `MCIAXLink` | model values, symmetry and scenarios for TLC | |
| `RingBufferProofs`, `MainBufferProofs`, `StreamMixProofs`, `CallManagerProofs`, `AnswerRaceProofs`, `SIPRegistrationProofs`, `MediaSessionProofs`, `IAXLinkProofs` | theorems and proofs | |

`RingBuffer` uses `RingBufferOps` and is shown to implement `BroadcastFifo`;
`MainBuffer` is shown to implement `BindingGraph`.  `CallManager` and
`AnswerRace` are two schedulers of the one `CallControl`: the first runs whole
handlers and reaches every command and every event, the second cuts a few of
them into their statements.  In `CallControl` the bindings of `MainBuffer`
appear as the abstract relation `bound`, a set of pairs, as the refinement of
`BindingGraph` by `MainBuffer` allows.  `StreamMix` in the same way replaces the
ring buffers by the lengths of one reader's queues, as the refinement of
`BroadcastFifo` by `RingBuffer` allows while nobody is overrun.  `IAXLink` extends
`LibIAX`.

### Correspondence

*Ring buffer.*  `ring.mEnd` is `mEnd`, `ring.rp` is `_readpointer`, `Size` is
`mBufferSize`, `mBuffer` the cells.  A cell holds a serial number and stands for
the bytes of one sample.  Each method is one action, since its callers hold
`MainBuffer::_mutex`.  `backlog` is a history variable.

*MainBuffer.*  `sets` are the keys of `_callIDMap` and `bound[x]` its sets, `rings` the keys of
`_ringBufferMap`, `reader[x]` the readers of the ring buffer of x.  `pc`, `arg` and
`left` are the locals of a thread in `unBindAll`: the set is looked up and copied
without the lock and the members are unbound one locked call at a time.  `dirty`
is a history variable: the threads whose stream somebody else touched meanwhile.

*Stream mix.*  `members` is the client's set in `_callIDMap`, `backlog[b]` what it has
not read of stream b, `rd` where it is between `availForGet` and `getData`, two
locked calls.  The other threads put, bind, unbind and flush at any time.  `kind`
says who the client is, which decides how much it asks for; `frame` is the length of
a call's frame, which its codec sets; `regular` that the writers put whole frames of it.  `nonempty` is a history variable.

*Call control.*  The state is one record `m`: `call[c]` is the `Call` object,
`live` the keys of the link's `_callMap`, `account` those of `_callAccountMap`,
`waiting` and `nbWaiting` are `_waitingCall` and `_nbIncomingWaitingCall`,
`current` is `_currentCallId2`, `confs` and `conf[f]` are `_conferencemap` and the
`Conference` objects, `bound` the bindings, `shown[c]` the state last signalled
on D-Bus, `aborted` that the daemon has crashed (a null `Call`, an exception
nobody catches).  Every handler is an operator from a state to a state, composed
of the operators of the methods it calls in the order it calls them, early
returns included.  `invite` is the `invite_tsx` of the call's pjsip session:
the INVITE the call came with (`"received"`), another (`"other"`) or none.  While
there is one, pjsip refuses a re-INVITE of this side, so that `onhold` and `offhold`
leave what they had changed by then; it ends with the peer's ACK or answer
(`InviteEnds`), and peers re-INVITE too.  pjlib's assertions are not part of it: the
model is of a build without them.  `callStateChanged` is the signal by its effect on
a client, which is why `map` has its receiver in the GNOME client.  `CallManager`
adds `seen[c]`, what the client knows; with
`Lag` it learns of signals late and may send a command for a state that has
passed.  A peer in `Fragile` may be unreachable, so that a request to it fails.

*Answer race.*  `main` and `voip` say which statement of which handler each of
the two threads is at.  `ended` are the calls whose INVITE session pjsip has
ended.  Every lock-protected section, and every access to the `SIPCall` between
two of them, is a step.  Using a `SIPCall` the other thread has deleted is a
choice between going on and crashing.

*Registration.*  `account` holds `_enabled`, `_bRegister`, `_registrationState`
and `_regc`; `regcs[r]` is one `pjsip_regc`: `has_tsx`, `current_op`, `expires`, the
delay its refresh timer runs with (0 when it does not), whether it was created, and
`stuck` when `has_tsx` was set for a request that then could not be sent.  Building a
request (`pjsip_regc_unregister`, `Bye`, and the timer's own request, `Refresh`) and
`pjsip_regc_send` (`Leave`, `Again`) lock the structure separately and are two steps.
`granted` is a history variable, what the registrar granted last.  Both threads run `sendRegister`
(the SIP thread for a 423).  The five error states are one, `Error`.  `unsent`
says that the last request could not be sent.  An error that pjsip reports from
within `pjsip_regc_send` is covered by the answer that comes right after it.

*Media session.*  `session` is `_rtpSession`, `attrs` the direction attributes of
`localSession_`, `sdp` the negotiated peer address and the head of
`sessionAudioMedia_`, `neg` and `tsx` the negotiator and the `invite_tsx` of pjsip's
session, `peer` what the peer does and was last told.  `at[t]` is the statement
thread t is about to take, and for which command or negotiation.  The steps of
`sdp_media_update_cb` run under pjsip's dialog lock and may run in either thread;
nothing locks `_rtpSession` from its test to its use, and a use after the other
thread stopped it may end the process (`crashed`).  `outcome` is a history variable:
what became of the offer of the user's last command.

*IAX link.*  `calls` is `_callMap` with the session and states of each call, `ev`
where the event thread is in `getEvent`, `op` which operation the D-Bus thread is
at, `regSession`, `stamp` and `regState` the registration.  A session is its
address: `libiax2` compares addresses only.  `known` is what the manager has told
its clients of and `bound` the calls whose stream is bound.  `missed` and
`overtaken` are history variables that name the two exceptions below: calls whose
session ended without the link seeing it (an end that came before `addCall`, and an
ACCEPT that libiax2 itself refuses, `RefuseAccept`), and a refresh that crosses an
unregistration.

## 3. Runs

All runs are small instances; each bound is named in the module.

| run | module and cfg | instance | states | shows |
|---|---|---|---|---|
| `ring` | `MCRingBuffer`, `RingBuffer` | 5 cells, 2 readers, puts and gets of 0 to 4 items, 6 serial numbers, backlog up to 13, writes beyond the room | 28 330 | lengths are the true backlogs modulo the size; a write for which all have room is not clipped; while readers keep up, every reader gets everything written since it came, once and in order (refinement of `BroadcastFifo`) |
| `bindings` | `MCMainBuffer`, `MainBufferBindings` | 2 calls, the user, 1 recorder, 2 threads | 146 358 | sets, pointers and rings agree and implement the relation; a duplex binding is whole; a ring lives while it is read; `unBindAll` detaches its stream |
| `stream_mix` | `StreamMix`, `StreamMix` | 3 streams, a call with frames of 2 or 4, the speaker or a recorder, 2 dropped by a resync, backlog up to 8 | 345 581 | what `availForGet` announced is still there at `getData`; the client's own steps never spread its streams apart; every stream with data is read again and again, for a call while resynchronising cuts no frame |
| `calls_conf` | `MCCallManager`, `CallManagerConferences` | 3 calls (2 placed, 1 received), 1 conference; INVITEs of the received call may stay pending | 418 666 | every command and event: memberships, counters, accounts, streams agree, no crash; a held call outside conferences gets sound only from a resume or answer that was refused; ends other than a failure leave no stream; what concerns one call, or turning to it, silences no other but by leaving a conference for it |
| `calls_unreliable` | `CallManager`, `CallManagerUnreliable` | 2 calls, a fragile peer, a client that lags | 734 497 | the waiting calls stay counted also then |
| `conf_move` | `MCCallManager`, `CallManagerMove` | 4 calls in 2 conferences | 210 843 | participants moved, joined, held, detached: conversations stay separate and whole; a conference hung up ends all its calls |
| `answer_race` | `AnswerRace`, `AnswerRace` | 2 calls, 2 threads | 5 370 | waiting list, accounts and streams come out right whichever thread is first |
| `registration` | `SIPRegistration`, `SIPRegistration` | 2 attempts to register, grants of 0, 3 and 60 seconds | 209 191 | an account is never left trying, can unregister, is refreshed if it was granted any time, in time if it was granted more than 5 seconds; every attempt ends |
| `media_session` | `MediaSession`, `MediaSession` | 2 addresses, 2 codecs, 4 holds and resumes, 3 re-INVITEs | 96 602 | after an accepted answer, hold or resume the sound, the peer and the client agree; a held call gets no session back; every hold or resume comes to an end |
| `iax_calls` | `MCIAXLink`, `IAXLinkCalls` | 2 calls, 2 sessions, 1 event queued each | 1 732 081 | no session is forgotten, each call has its own but for the ends the link does not see, a held call is silent |
| `iax_register` | `IAXLink`, `IAXLinkRegister` | no calls, 2 sessions whose addresses are reused, 2 events queued | 236 | an account that was unregistered stays so; a registration ends |
| `calls_accept` | `MCCallManager`, `CallManagerAccept` | 3 incoming calls | violation | accept does not hold the current call |

**Why the bounds are enough.**  Five cells let each pointer wrap, stand before,
at and behind the end, and let two readers be apart by less and by more than a
put; the real 400 000 (`SIZEBUF`) differ in no comparison.  Two calls, the user and a
recorder give `MainBuffer` every kind of binding, and a ring with two readers;
two threads are what an interleaving in `unBindAll` needs.  Three calls and one
conference let a conference be made, lose a participant and survive, lose one
more and dissolve, with a call outside it; two conferences of two calls are
the least that can exchange participants.  An INVITE of a call outside `Slow` is
answered before anything else happens (`PromptPeers`, an action constraint); one call whose INVITEs stay pending is
enough for a resume that is refused, next to calls that are resumed.
`HeldStaysSilent` and `OthersDoNotSilence` hold as well with the constants of
`calls_unreliable`, where all INVITEs may stay pending.  In the race two calls let the SIP
thread work on one while the user answers the other, or the same.  Two
registration structures let a registration be repeated by the user or by a
423 while the older one is still refreshed; the grants are none, less and more than
the 5 seconds that are the least a refresh waits.  Three streams of up to eight bytes
let one stream be ahead of the mean of the others, one
behind and one empty, which is all `syncBuffers` and the least length can tell
apart; what a resync drops, 2, is a frame of 2 and half a frame of 4, as the 640 bytes
of the code are two frames of 8 kHz and half a frame of 32 kHz.  Two addresses and two codecs make a stale one visible; four commands
are a hold and a resume that are refused before a hold and a resume that are
not; three re-INVITEs let one come during each of the steps around them.  Two
IAX sessions and calls are what an event for the wrong call needs; one event in
a queue is enough to make the event of a session stale, since the D-Bus thread
may run for ever before it is taken.

**Restrictions on the environment.**  `calls_conf` and `conf_move` have peers
that can be reached (`Fragile = {}`) and a client that knows each state at once
(`Lag = FALSE`).  The client offers joining only between calls it shows on their
own (`Single`), as the call tree of the GNOME client does, which also does not
let a failed call be dragged (`JoinsFailed = FALSE`).

In `media_session` the peer may refuse, leave unanswered, challenge, mismatch and
re-INVITE with and without an offer; `PeerMay` leaves out a re-INVITE for another
codec, and the hold of the last participant from the SIP thread: both break
`AcceptedAgrees` (section 5).  In `iax_calls` the allocator gives no session an
address that something still refers to (`Reuse = FALSE`; for calls with
`Reuse = TRUE` see section 5), in `iax_register` it may.  In `stream_mix` `Limit`, the
99999 of `mainbuffer.cpp`, is above what a client leaves unread; a call's streams are served only if their
writers put whole frames and `Resync` is a multiple of the frame, which the 640 bytes
of `mainbuffer.cpp:565` are not for speex at 32 kHz (section 5).

**Fairness.**  Nothing is assumed of the user, of the refresh timers, or of which
answer comes.

* `registration`: both threads go on with what they are at (they are threads of
  the system's scheduler, and `_mutexSIP` is held for a bounded time), and every
  pending transaction is answered or given up (pjsip's timer F ends a transaction
  after 33 seconds, and the event thread polls for ever).  The number of
  `pjsip_regc` structures bounds how often a registrar may answer 423: for one
  that does so for ever the code has no bound of its own.
* `media_session`: both threads run; an INVITE transaction is answered,
  acknowledged or times out (timers B and H); a call that is hung up is deleted.
* `stream_mix`: the client calls `availForGet` and then `getData` again and again,
  as its thread's timer makes it: per frame, per period of the card, every
  20 ms.  The card takes at least one byte when there is one.
* `iax_register`: the event thread runs every 3 ms and the D-Bus thread finishes
  what it began (weak fairness); all events are handled before the stamp is
  looked at, and a server that is asked again and again answers one day before
  the next attempt is due (strong fairness, since each attempt replaces the
  session).  The property does not speak of a user who registers for ever.

**Deadlock** is not checked where the program may really stop: a crash
(`aborted`, `crashed`), a call that is gone, or all ids used up.  `RingBuffer`,
`MainBuffer`, `StreamMix` and `IAXLink` have it checked.

## 4. Proofs

Everything below holds for every value of the constants that satisfies their
named assumptions, and is checked by TLAPS to the last leaf.

* **`RingBufferProofs`**.  `RingInv` is type correctness, positions below `Size`,
  and for each reader `getLen = backlog % Size`.  The argument is arithmetic modulo
  `Size`: each call moves a pointer and a backlog by the same amount.  From it:
  `LengthsAgree` (`AvailableIsBacklog`) and `NoClip` (`NoClipWhileRoom`), whose key
  is that `putLen` is the distance from *some* reader's pointer, so that room for
  every reader is room for that one; and `ReadersMissNothing`
  (`ReadersGetEverything`), the refinement of `BroadcastFifo`, one lemma per call:
  while nobody is overrun the cells of a reader's queue are those from its pointer
  on, `Put` writes only cells that lie, from the write position, before every
  reader's pointer (`CellDistance`), and `Get`, `Discard` and the flushes take a
  prefix of one queue or all of them.
* **`MainBufferProofs`**.  `BindingInv` joins type correctness, the agreement of sets,
  pointers and rings, and an invariant of the `unBindAll` loop: what a thread has
  not unbound yet is in its copy, unless its stream is `dirty`.  From it:
  `TypeCorrect`, `NoDangling`, `DuplexHolds`, `RingsLiveWhileRead`, `Detaches`, and
  `Implementation`: every step of
  `MainBuffer` is a step of `BindingGraph` or a stutter.
* **`StreamMixProofs`**.  `MixInv` is type correctness with `AskedIsThere`.  The
  argument: `syncBuffers` only shortens queues, and it does so before the lengths
  are taken; what is asked for is at most the least length that is not zero, so
  each stream that had data has as much; afterwards others only add to a queue,
  or unbind or flush it, which takes it out of `nonempty`.  Theorems
  `MixInvariant`, `MixTypeCorrect`, `AskedStaysThere`.

  `SpreadNeverGrows` (`ClientKeepsTogether`) needs no more than the types.  Taking the
  same of every stream brings two lengths no further apart.  A stream loses `Resync`
  bytes only when it exceeds the mean by more than that, and the mean is at least the
  least length, so it stays above the stream that is most behind.  The sum in the
  mean is a fold, defined by recursion on the sets: `TotalIsSum` shows that its
  equation has a solution (on the sets of at most n streams, for the least n that
  would have none), and `TotalAtLeast` that it is no less than the number of streams
  times the least length.  Both argue by a least counterexample, which needs only
  that the naturals are well founded, where an induction theorem would take an
  operator.
* **`CallManagerProofs`, part 1**.  In the middle of a handler the daemon's maps need not
  agree, and handlers call each other; so the lemmas come in layers.  `Steady`: a
  step that changes streams and states, not which calls and conferences there
  are nor who is in which.  `Leaves`: participants leave, or conferences
  dissolve.  `Follows` and `Tidy`: what each whole handler keeps.  All are
  transitive, a handler is a chain of such steps, and a loop over a conference's
  participants (a fold in the order of the ids, whose own body changes that
  conference) is one too, by induction over the set (`SubsetInduction`, from the
  well-founded order of the subsets).  `IInv`, the inductive invariant, adds to
  the runs' invariants that

  - a waiting call exists, was told to the client as coming in, is inactive and,
    between two handlers, in no conference (else `refuseCall`, which looks at no
    conference, would leave a participant that does not exist);
  - objects of calls and conferences that are gone are as new, so that an id
    carries nothing over to its next use;
  - two streams of calls are bound only if both calls carry one id, of a
    conference that exists;
  - the client knows no more than the daemon told it.

  Its parts need different things, and so do the theorems.  In every setting:
  `Inductive`, `TypeCorrect`, `CountsAgree`, `WaitingCallsCounted`.  With a client that
  is up to date (`Lag = FALSE`), peers reachable or not: `MembersCarryTheId`,
  `ConferencesKeepApart`.  With peers that can be reached (`Fragile = {}`), the
  client up to date or not: `IdsNameConferences`, `AccountsNameCalls`.  With both,
  and no failed call joined: `CallsUsedExist`.

  The first two of these need `Lag = FALSE`: the attempt to prove `Membership`
  without it ended at a state that TLC then reached in nine steps.  An incoming
  call whose peer has become unreachable is dragged into a conference, where
  answering it fails and it goes on waiting; once the peer is back, the client,
  which has not heard of the join, refuses it: the conference keeps a
  participant that does not exist.
* **`CallManagerProofs`, part 2** proves, on top of `IInv`, what the user and the peers
  hear.  The bindings are wrong in the middle of most handlers (`offHoldCall` lets a
  call talk before it is bound, `hangupCall` unbinds one that is still in its
  conference), so the lemmas compare the states before and after a step.  `Audio`: no
  two calls of one conference stopped hearing each other while they talk, no stream
  lost its call, and of the calls on hold at most those named got the user's audio.
  `AudioBut` and `AudioEnd` are `Audio` but for calls whose streams the handler has yet
  to make or to remove; `AudioRestored` and the ends of calls close the gap.
  `Spares`: no other current call outside conferences lost the user's audio; for the
  commands that turn to a call this needs that the current call is no conference.
  `Regained` and `Sounds`: which held calls a command may give sound, the one it names
  when the link refuses and the participants of conferences.
  `Shrinks` and `Without`: what leaving and hanging up take out of a conference, for
  the loop that hangs up all its participants (`HangUpRounds`).  Each has a lemma for
  each handler; handlers chain them, and loops follow by the induction over subsets
  that the first part uses.  Theorems, all of `CallManager`:

  | theorem | property | needs |
  |---|---|---|
  | `TalkersHearEachOther` | `ParticipantsHearEachOther` | a client that is up to date |
  | `HeldHeardInConferences` | `HeldStaysSilent` | nothing |
  | `StreamsOutliveFailures` | `StreamsEndWithCall` | a client that is up to date |
  | `OneCallSparesOthers` | `OthersDoNotSilence` | nothing |
  | `HungUpConferencesEnd` | `HangUpConferenceEndsAll` | either of the two |

  TLC shows what the first two hypotheses are for, each in at most eight states of
  the small instance.  A client that lags behind refuses an incoming call that has
  meanwhile been answered and joined: `refuseCall` ends with `unBindAll`, whatever
  became of the call, and two participants that talk no longer hear each other.
  The same client accepts a call that is gone, and the id gets a stream.
  `HungUpConferencesEnd` needs participants with an account to exist: either `Membership` or
  `KnownCalls` gives that, the one with a client that is up to date, the other with
  peers that can be reached.  With neither, TLC finds no violation on two calls, and
  nothing is proved.
* **`AnswerRaceProofs`** begins with lemmas on the handlers' operators: each keeps the
  state's type and the waiting calls counted, and what each does to the account
  map, the link's map and the waiting list.  `WaitingSettled` and `AccountsSettled` speak of states
  where both threads are at rest and are not inductive.  `RaceInv` adds who has a
  leftover entry in hand: an account entry without a call belongs to the SIP
  thread about to add the call or to the D-Bus thread about to remove the entry;
  a waiting entry without a call to the SIP thread about to add it; and a call
  whose end was told is in no list any more.  `HeardInv`, on top of it, makes
  `AnsweredIsHeard` inductive: a call that talks has its stream, or the D-Bus thread
  is in `answerCall` on its way to bind it, or the SIP thread about to remove it;
  and an answered call is not shown as coming in once `answerCall` has finished, so
  that no refusal, which would end its stream, is under way for it.  Theorems
  `RaceInvariant`, `RaceTypeCorrect`, `WaitingIsSettled`, `AccountsAreSettled`,
  `AnsweredAreHeard`.
* **`SIPRegistrationProofs`**.  `RegInv` says for each gap which thread is about to
  close it: an account shown trying has a request in flight, or the SIP thread
  has an answer to show, or a thread is about to send; an account that says it
  registered without a structure has a thread about to store one, or the SIP
  thread about to lower the flag; the D-Bus thread forgets a structure only of a
  registration that is over.  `RefreshInHand`, on top of it, makes
  `RegisteredIsRefreshed` inductive: an account that says it registered, and was
  granted any time, has a structure with its refresh timer running, in time if the
  grant allows it (`Timely`), or a registration on its way, unless the SIP thread is on
  one of the steps that end by lowering the flag (`Lowering`) or about to send the
  refresh, or the D-Bus thread is about to send, to lower the flag or to unregister.
  That a timer never runs beside a pending *registration* is part of the types; beside
  an unregistration it may (section 5, `DisabledIsQuiet`).  Theorems
  `RegistrationInvariant`, `RegistrationTypeCorrect`, `TryingHasRequest`,
  `RegisteredCanUnregister`, `RegisteredRefreshes`.
* **`MediaSessionProofs`**.  `TypeOK` is inductive only with `SdpKnown`: while the end
  of a negotiation is told of, the peer's address and codec are known, so that
  the session gets real ones.  `HeldInv` adds where the threads are: the SIP
  thread only tells of negotiations, which give no session to a call that has
  none; from `stop` to the end of `onhold` there is none; and no call is shown
  held while the D-Bus thread answers it or is at its hold.
  `AcceptedAgrees` speaks of the few states where nothing is going on; `AgreeInv`
  carries it through the rest, in five parts.  `Turns`: one thread at a time tells of
  a negotiation, for the INVITE transaction pjsip has, the D-Bus thread only when it
  answers.  `Knows`: what the `Sdp` holds of the peer while a negotiation is told of
  and ever after the first.  `Tuned`: the session has the codec agreed on from the end
  of a negotiation or of a resume's `start`, and the peer's address unless a
  destination is yet to be told, a command is being prepared, or its request was
  refused.  `Placed`: at which steps of `onhold` and `offhold` there is a session, and
  what the state and the client say of it.  `Told`: the attributes, the offer the
  negotiator holds and what the peer was told follow the last command from its
  preparation to its acceptance.  Theorems `MediaTypeCorrect`; `HeldStaysStill`, for
  peers without `"conference"`; `AcceptedRequestsAgree`, for peers without
  `"conference"` and `"codec"` (section 5 shows what either breaks).

* **`IAXLinkProofs`**.  `LinkInv` makes `SessionsOwned`, `EachCallItsSession` and
  `HeldIsSilent` inductive by saying who refers to which session and for how long.
  A call, a call being placed, the registration, a call of the peer that arrives
  and a scheduled final frame each refer to a session of their own, except that
  the final frame of a hang-up shares its call's until the call is removed, and a call
  in `missed` may keep a session that is gone; a session an event ends is gone before the event is handled; the mutex keeps the
  other thread from opening or ending one meanwhile.  For the silence: a call
  that is connected, held or being answered has a peer that will not ring any
  more and no ringing left in its queue, so that it never falls back to a state
  in which a late answer would bind it.  `Leaving` does the same for
  `UnregisteredStays`: the session is gone with `sendUnregister`'s first step, so no
  reply finds one, the stamp with its second and the state with its third, and the
  event thread has neither a refresh to send nor the end of a REGACK to write.
  Theorems `IAXTypeCorrect` and `IAXUnregisteredStays` for any allocator;
  `IAXSessionsOwned`, `IAXEachCallItsSession` and `IAXHeldIsSilent` from the assumption
  `Reuse = FALSE` (section 5 shows what reuse breaks).

Each inductive invariant was checked by TLC on the small instance before its
proof.

**Only model-checked:** `TryingEnds`, `RequestsEnd` and `EveryStreamServed`: liveness
under fairness is out of the prover's reach.  Every invariant and action property
of the runs that expect to pass is also a theorem.

## 5. Where code and documentation differ

One difference has a run of its own, `calls_accept` (`findings` in `PROJECT.json`).
The following are stated in the modules and violated as well, or hold only under
the setting named.  To see one, take the cfg named and put the property in place
of its own, as an `INVARIANT` or, where it says so, a `PROPERTY`.

| property | module, cfg | the code |
|---|---|---|
| `PutKeepsUnread` | `MCRingBuffer`, `RingBuffer`, PROPERTY | a Put that fills the last cell makes the full ring look empty (`ringbuffer.cpp:187`) |
| `SmallestPointerIsFurthestBehind` | `MCRingBuffer`, `RingBuffer` | `ringbuffer.cpp:120` takes the smallest offset, which after a wrap is not the reader furthest behind |
| `ClientsGetData` | `StreamMix`, `StreamMix`, PROPERTY | a stream that stops within a frame keeps a call from getting any of its streams (`mainbuffer.cpp:403`): its writer stopped there, or `syncBuffers` dropped its 640 bytes (`mainbuffer.cpp:565`), half of the 1280 of a frame of speex at 32 kHz (`speexcodec.h:43`-47) |
| `TakenIsSent` | `StreamMix`, `StreamMix`, PROPERTY | `getData` returns the size of the last stream alone, and what was taken of the others is thrown away (`mainbuffer.cpp:353`) |
| `RecordedIsRead` | `StreamMix`, `StreamMix`, PROPERTY | the recorder reads at most its buffer and writes as much as was available (`audiorecorder.cpp:78`) |
| `EveryStreamServed` | `StreamMix`, `StreamMix` with `Limit = 4` | 99999 stands for nothing found: streams that all have as much unread are not read |
| `HungUpIsSilent` | `MCCallManager`, `CallManagerConferences` | pjsip delays the CANCEL; a late 200 connects the user to a call that was hung up (`sip/sipvoiplink.cpp:838`) |
| `RefusedIsGone` | `AnswerRace`, `AnswerRace` | a call refused between `incomingCall` and `addCall` stays in the link (`sip/sipvoiplink.cpp:4080`) |
| `AcceptedAgrees` | `MediaSession`, `MediaSession` with `"codec"` in `PeerMay` | `sessionAudioMedia_` grows at its end and only its head is read: a new codec is never taken (`sip/sdp.cpp:125`) |
| `AcceptedAgrees` | `MediaSession`, `MediaSession` with `"conference"` in `PeerMay` | the SIP thread holds the call between the re-INVITE of `offhold` and its `setState` (`sip/sipvoiplink.cpp:1037`) |
| `EachCallItsSession` | `MCIAXLink`, `IAXLinkCalls` with `Reuse = TRUE` | libiax2 destroys whatever is now at the address of a final frame's session |
| `HeldIsSilent` | `MCCallManager`, `CallManagerConferences` | `removeConference` binds the participant that was just put on hold (`managerimpl.cpp:855`); and a resume that pjsip refuses, because the INVITE of the hold, the call or the peer is still pending (`sip_inv.c:2269`), is noticed by `offhold`, which leaves the call on hold (`sip/sipvoiplink.cpp:1032`), and not by `offHoldCall`, which binds it and signals CURRENT (`managerimpl.cpp:631`-649): hold and then a quick resume |
| `CurrentIsHeard` | `MCCallManager`, `CallManagerConferences` | `removeConference` unbinds the user from calls outside the conference too (`managerimpl.cpp:847`); so does `detachMainParticipant`, when the user leaves a conference to place, accept or resume a call (`managerimpl.cpp:338`-341, 1352) |
| `CurrentMeansAnswered` | `MCCallManager`, `CallManagerConferences` | `offHoldCall` signals CURRENT for a call not answered yet (`managerimpl.cpp:634`) |
| `TalkingIsCurrent` | `MCCallManager`, `CallManagerConferences` | `getStateStr` falls through from Active to HOLD (`call.cpp:91`) |
| `ConfIdNamesConference` | `MCCallManager`, `CallManagerConferences` with `Fragile = {1}` | a conference of which fewer than two calls could be placed is deleted, its calls keep its id (`managerimpl.cpp:1300`) |
| `NoNullCall` | `MCCallManager`, `CallManagerConferences` with `JoinsFailed = TRUE` | `joinParticipant` reports a missing call and uses it (`managerimpl.cpp:1173`) |
| `CurrentIsAnswered`, `CurrentExists` | `AnswerRace`, `AnswerRace` | `answerCall` goes on after the link has thrown (`managerimpl.cpp:351`) |
| `DisabledIsQuiet` | `SIPRegistration`, `SIPRegistration` | an account disabled while its registration is pending is registered all the same and goes on refreshing: pjsip refuses the second request, and the exception is only logged (`sip/sipvoiplink.cpp:644`); an answer that arms the timer between `pjsip_regc_unregister`, which stops it, and `pjsip_regc_send` (`sip_reg.c:602`-637, 1092-1136) leaves it running behind the unregistration, to register again; a structure replaced by a later `sendRegister` also goes on (`:489`) |
| `ShownUnregistered` | `SIPRegistration`, `SIPRegistration` | after a 423 the flag is lowered although the account has just registered anew (`sip/sipvoiplink.cpp:3690`), so its success is shown as an unregistration |
| `NoAssertion` | `SIPRegistration`, `SIPRegistration` | `pjsip_regc_send` asserts an idle `current_op`, which a failed registration does not leave (`sip_reg.c:1104`) |

**Met while modelling, and part of the models' behaviour without a property of
their own.**  *SIP.*  `AudioRtpFactory::initAudioRtpConfig` always calls the overload
for an `Account*`, so that no session is ever secured, while
`sdp_media_update_cb` (`sip/sipvoiplink.cpp:3438`) signals `secureSdesOn`.  A resume
that was refused leaves the state Hold, with a live session, and the client is
told CURRENT.  When an offer could not be sent pjsip's negotiator keeps it, sends
it in place of the next one, and takes the peer's next re-INVITE for its answer.
A re-INVITE without an offer is answered with `sendrecv` while the call is held.
A failed negotiation deletes the call and then uses it
(`sip/sipvoiplink.cpp:3368`).  A registrar that grants 0 seconds leaves the account
Registered with no refresh timer (`sip_reg.c:1034`), and one that grants 5 or fewer is
asked again after what it granted has lapsed (`sip_reg.c:1043`): `RegisteredIsRefreshed`
speaks of neither.
*IAX.*  A call that ends with BUSY leaves its session, and the HANGUP that follows
meets a NULL call; a HANGUP or a REJECT that comes before `newOutgoingCall`'s `addCall`
adds a call with a dead session; `answer` uses the call before it tests it for
NULL; a call refused between `incomingCall` and `addCall` rings on; a hang-up that
crosses an ANSWER leaves the stream bound; a refresh decided on before
`sendUnregister` registers the account again.  A peer that accepts a call with a format
that was not offered is refused by libiax2 itself (`iax.c:2714`-2732): its REJECT is
the session's final frame, sent at once, which destroys the session; the event for
the link goes with it, and the call stays in the map with a session that is gone.
Only a REJECT that cannot be sent leaves the session, and the event, behind.  `init` never sets `initDone`, so that
`terminate` hangs up no call.

## 6. Not modelled yet, and the plan

Left out for good: signal processing, codecs, the sound of tones, cryptography,
vendored libraries beyond what a model needs of them, the clients and the
address book plug-ins, start-up and logging.  They are most of the repository's
lines.

Within what is modelled: the RECORD states and the preference to record every
call, IP-to-IP calls, callBusy, attended transfer, the tones that accompany a
call; in `AnswerRace` the other handlers that may run against each other; in
`SIPRegistration` transports, resolving the host name once, and authentication
challenges; in `MediaSession` the RTP thread itself, key exchange and early media;
in `IAXLink` audio, text, several accounts on libiax2's one queue, the sessions that
libiax2 makes for stray full frames other than NEW, `terminate`, and `init` with its
failures; there the check, the binding and `setState` of an ANSWER are one step,
although the D-Bus thread changes the call without `_mutexIAX`.

The order of what comes next, the most important first:

1. `SIPTransport`: acquiring and shutting down transports shared by accounts.  Read
   for it: `acquireTransport`, `createUdpTransport` and `shutdownSipTransport` against
   pjsip's reference counts and idle timer.  A port that changes drops the old
   transport to no reference, while `_transportMap`, the fallback at
   `sip/sipvoiplink.cpp:2139` and the refresh timer of an older `pjsip_regc` still point
   at it; each failed registration keeps a reference.
2. `Recording`: `Recordable`, `AudioRecord` and `Conference::setRecording` with the
   half-duplex bindings; the recorder reads exactly the streams of the
   participants and lets their rings go.
3. The restart of the SIP stack, on top of 1.
4. `SdesNegotiation`, `SdpNegotiation`, `InstantMessaging`, `NumberCleaner`,
   `History`, `AudioLoop`, `PluginManager`: pure algorithms against a reference.

The number of runs is kept at a dozen: a new component's run checks its
properties together, and a violation that is understood moves to section 5.
