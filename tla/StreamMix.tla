------------------------------ MODULE StreamMix ------------------------------
(***************************************************************************)
(* The data path of MainBuffer (daemon/src/audio/mainbuffer.cpp) as one of *)
(* its clients uses it: the RTP or IAX thread that sends a call's sound,   *)
(* the audio layer that plays what the user hears, or a recorder.  The     *)
(* client reads every stream of its set and mixes what it gets.            *)
(*                                                                         *)
(* Each method holds _mutex; the client calls availForGet and then, in a   *)
(* second locked call, getData.  Writers, bindings and flushes of the      *)
(* other threads come in between.                                          *)
(*                                                                         *)
(* As long as nobody is overrun a ring buffer is one queue per reader      *)
(* (RingBuffer implements BroadcastFifo), so that a stream is here the     *)
(* length of this client's queue in it.  Streams are numbered in the order *)
(* of std::set; "audiolayer_id", the user's, comes after all calls.        *)
(***************************************************************************)
EXTENDS Integers, FiniteSets, FiniteSetsExt

CONSTANTS Streams,     \* the streams the client may be bound to
          Kinds,       \* what the client may be: "call", "speaker", "recorder"
          Frames,      \* bytes the encoders take at a time: 320 at 8 kHz, 640 at
                       \* 16 kHz, 1280 at 32 kHz
          Resync,      \* 640, the bytes a stream that is ahead loses
          Buffer,      \* bytes the recorder takes at most
          Limit,       \* 99999, which availForGet takes for "nothing found"
          Chunks,      \* bytes a writer may put at a time
          MaxBacklog   \* bound on what a client leaves unread in a stream

ASSUME StreamMixAssumption ==
    /\ Streams \subseteq Nat /\ IsFiniteSet(Streams)
    /\ Kinds \subseteq {"call", "speaker", "recorder"}
    /\ Frames \cup {Resync, Buffer, Limit} \subseteq Nat \ {0}
    /\ Chunks \subseteq Nat
    /\ MaxBacklog \in Nat

VARIABLES kind,      \* what this client is
          frame,     \* the frame of the codec the call has
          regular,   \* the writers put whole frames of this client's length
          members,   \* its set in _callIDMap
          backlog,   \* backlog[b]: what it has not read of stream b
          rd,        \* where it is between availForGet and getData
          nonempty   \* history: the streams that had data in availForGet and
                     \* that it was not unbound from nor flushed in since

vars == <<kind, frame, regular, members, backlog, rd, nonempty>>

Polling == [at |-> "poll"]

TypeOK ==
    /\ kind \in Kinds
    /\ frame \in Frames
    /\ regular \in BOOLEAN
    /\ members \subseteq Streams
    /\ backlog \in [Streams -> Nat]
    /\ \A b \in Streams \ members : backlog[b] = 0
    /\ rd \in {Polling} \cup [at : {"take"}, told : Nat, asked : Nat]
    /\ nonempty \subseteq members

Init ==
    /\ kind \in Kinds
    /\ frame \in Frames
    /\ regular \in BOOLEAN
    /\ members = {}
    /\ backlog = [b \in Streams |-> 0]
    /\ rd = Polling
    /\ nonempty = {}

-----------------------------------------------------------------------------
(* The other threads.                                                      *)

putData(b, n) ==
    /\ b \in members
    /\ n \in IF regular THEN {frame} ELSE Chunks
    /\ backlog[b] + n <= MaxBacklog
    /\ backlog' = [backlog EXCEPT ![b] = @ + n]
    /\ UNCHANGED <<kind, frame, regular, members, rd, nonempty>>

\* A read pointer starts at the end of what was written.
Bind(b) ==
    /\ b \notin members
    /\ members' = members \cup {b}
    /\ UNCHANGED <<kind, frame, regular, backlog, rd, nonempty>>

Unbind(b) ==
    /\ b \in members
    /\ members' = members \ {b}
    /\ backlog' = [backlog EXCEPT ![b] = 0]
    /\ nonempty' = nonempty \ {b}
    /\ UNCHANGED <<kind, frame, regular, rd>>

\* flush of this client, or flushAllBuffers.
flush ==
    /\ backlog' = [b \in Streams |-> 0]
    /\ nonempty' = {}
    /\ UNCHANGED <<kind, frame, regular, members, rd>>

-----------------------------------------------------------------------------
(* The client.                                                             *)

\* Of each of its streams, n bytes or what there is.
Taken(len, n) ==
    [b \in Streams |-> IF len[b] < n THEN 0 ELSE len[b] - n]

Total(len) == MapThenSumSet(LAMBDA b : len[b], members)

\* More than the mean by more than Resync.
Ahead(b) ==
    LET n == Cardinality(members)
    IN  n > 1 /\ backlog[b] * n > Total(backlog) + Resync * n

\* A mutant: the streams that are not ahead lose data.
syncBuffersBehind ==
    [b \in Streams |->
        IF b \in members /\ ~Ahead(b) /\ \E c \in members : Ahead(c)
        THEN Taken(backlog, Resync)[b] ELSE backlog[b]]

syncBuffers ==
    [b \in Streams |->
        IF b \in members /\ Ahead(b) THEN Taken(backlog, Resync)[b] ELSE backlog[b]]

\* A mutant: empty streams count.
AvailableWithEmpty(len) ==
    IF members = {} THEN 0 ELSE Min({len[b] : b \in members})

\* What availForGet returns: the only stream's length, or the least of those
\* that are not empty.
Available(len) ==
    LET lens  == {len[b] : b \in members}
        found == {n \in lens : 0 < n /\ n < Limit}
    IN  CASE Cardinality(members) = 1 -> Min(lens)
          [] Cardinality(members) > 1 /\ found # {} -> Min(found)
          [] OTHER -> 0

\* What each kind of client then asks for: the thread of a call one frame or
\* nothing, the audio layer what the card has room for, the recorder what fits
\* its buffer.
processDataEncode(told) == {IF told < frame THEN 0 ELSE frame}

audioCallback(told) == IF told = 0 THEN {0} ELSE 1 .. told

AudioRecorderRun(told) == {IF told < Buffer THEN told ELSE Buffer}

ToGet(told) ==
    CASE kind = "call"     -> processDataEncode(told)
      [] kind = "speaker"  -> audioCallback(told)
      [] kind = "recorder" -> AudioRecorderRun(told)

\* A mutant: the streams are resynchronised after their lengths were taken.
availForGetEarly ==
    /\ rd = Polling /\ members # {}
    /\ \E n \in ToGet(Available(backlog)) :
          rd' = IF n = 0 THEN Polling
                ELSE [at |-> "take", told |-> Available(backlog), asked |-> n]
    /\ backlog' = syncBuffers
    /\ nonempty' = {b \in members : rd' # Polling /\ backlog'[b] > 0}
    /\ UNCHANGED <<kind, frame, regular, members>>

availForGet ==
    /\ rd = Polling /\ members # {}
    /\ backlog' = syncBuffers
    /\ \E n \in ToGet(Available(backlog')) :
          rd' = IF n = 0 THEN Polling
                ELSE [at |-> "take", told |-> Available(backlog'), asked |-> n]
    /\ nonempty' = {b \in members : rd' # Polling /\ backlog'[b] > 0}
    /\ UNCHANGED <<kind, frame, regular, members>>

getData ==
    /\ rd # Polling
    /\ backlog' = Taken(backlog, rd.asked)
    /\ rd' = Polling
    /\ nonempty' = {}
    /\ UNCHANGED <<kind, frame, regular, members>>

\* What getData returns: what it got from the last stream of the set.
GetSize ==
    IF members = {} THEN 0
    ELSE backlog[Max(members)] - Taken(backlog, rd.asked)[Max(members)]

\* The audio layer plays a tone and drops as much of the calls.
discard(n) ==
    /\ kind = "speaker" /\ rd = Polling
    /\ backlog' = Taken(backlog, n)
    /\ UNCHANGED <<kind, frame, regular, members, rd, nonempty>>

Client == availForGet \/ getData \/ \E n \in Chunks : discard(n)

Next ==
    \/ \E b \in Streams : \/ \E n \in Chunks \cup {frame} : putData(b, n)
                          \/ Bind(b) \/ Unbind(b)
    \/ flush
    \/ Client

Spec == Init /\ [][Next]_vars

\* The RTP thread polls once per frame, the audio layer once per period, the
\* recorder every 20 ms, the IAX thread every 3 ms.
FairSpec == Spec /\ WF_vars(availForGet) /\ WF_vars(getData)

-----------------------------------------------------------------------------

\* Between availForGet and getData, what the client asks for is there in every
\* stream that had data: getData mixes the same length from each, and the mix
\* has no hole, unless the stream was unbound or flushed.  syncBuffers must
\* have run before the lengths are taken, and nothing but this client may take
\* from its queues.
AskedIsThere ==
    rd # Polling => /\ \A b \in nonempty : backlog[b] >= rd.asked
                    /\ rd.asked <= rd.told

Spread == IF members = {} THEN 0
          ELSE Max({backlog[b] : b \in members}) - Min({backlog[b] : b \in members})

\* The client's own steps never spread its streams further apart: reading,
\* resynchronising and discarding leave the one that is most ahead at most as
\* far from the one that is most behind, so that the delays of the
\* participants of a conference do not drift because of the mixing.
SpreadNeverGrows == [][Client => Spread' <= Spread]_vars

Waiting(b) == b \in members /\ backlog[b] >= IF kind = "call" THEN frame ELSE 1

Served(b) == []<>~Waiting(b) \/ []<><<getData /\ backlog'[b] < backlog[b]>>_vars

\* A stream with data, for a call with a frame of it, is read again and again,
\* whichever of the client's other streams are silent: empty streams do not
\* hold the others back.  For a call it needs writers whose data comes in whole
\* frames, and frames that Resync does not cut: the 640 bytes are half a frame of
\* speex at 32 kHz (README, differences).
EveryStreamServed ==
    (kind = "call" => regular /\ Resync % frame = 0) => \A b \in Streams : Served(b)

-----------------------------------------------------------------------------
(* What the sources say and the code does not do.                          *)

\* mainbuffer.h: "a client will be able to put and get data specifying its
\* callid only".  A stream that stopped in the middle of a frame keeps a call
\* from getting anything of any stream, also when its bindings stay as they are.
\* Writers stop there, and syncBuffers leaves one there with the frames of 32 kHz.
ClientsGetData == <>[][FALSE]_members => \A b \in Streams : Served(b)

\* processDataEncode sends the frame it took.  getData returns the size of the
\* last stream alone: when that one is empty, what was taken of the others is
\* thrown away.
TakenIsSent ==
    [][getData /\ kind = "call" /\ backlog' # backlog => GetSize = rd.asked]_vars

\* AudioRecorder writes the data it read: it writes as much as was available,
\* its buffer being full or not.
RecordedIsRead == [][getData /\ kind = "recorder" => rd.told <= Buffer]_vars
==============================================================================
