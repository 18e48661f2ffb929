--------------------------- MODULE IAXLinkProofs ---------------------------
(***************************************************************************)
(* Proofs about IAXLink: type correctness, and that an account stays       *)
(* unregistered, for any allocator; and, for one that gives no address     *)
(* something still refers to, that no session is forgotten, that each call *)
(* of the map has a session of its own, and that a held call stays silent, *)
(* whatever calls and sessions there are.                                  *)
(***************************************************************************)
EXTENDS IAXLink, TLAPS

-----------------------------------------------------------------------------
(* The inductive invariant.                                                *)

In(q, type) == \E i \in 1 .. Len(q) : q[i] = type

\* A CONNECT is the first event of its session; a call rings before it is
\* answered.
Ordered(q) ==
    /\ \A i \in 1 .. Len(q) : q[i] = "connect" => i = 1
    /\ \A i, j \in 1 .. Len(q) : q[i] = "answer" /\ q[j] = "ringa" => j < i

Handles(s, type) == ev.at = "handle" /\ ev.sess = s /\ ev.type = type

\* The peer calls on session s, and the call is not in the map yet.
Arriving(s) ==
    \/ In(inbox[s], "connect") \/ Handles(s, "connect")
    \/ ev.at = "ring" /\ ev.sess = s

HasCall(s) == \E c \in CallIds : InMap(c) /\ calls[c].sess = s

\* The D-Bus thread is at an operation of these names.
Does(names) == op.at \in {"found", "sent"} /\ op.name \in names
HasSent(c) == op.at = "sent" /\ op.name \in {"hangup", "refuse"} /\ op.call = c

\* The events of a session, and what its peer can still say.
Queues ==
    /\ \A s \in Sessions :
         /\ Ordered(inbox[s])
         /\ s \notin sessions => inbox[s] = <<>>
         /\ In(inbox[s], "busy") => peer[s] = "busy"
         /\ In(inbox[s], "answer") => peer[s] # "calling"
    /\ ev.at = "handle" /\ ev.type \in {"hangup", "reject"} => ev.sess \notin sessions
    /\ ev.at = "handle" /\ ev.type = "busy" => peer[ev.sess] = "busy"
    /\ ev.at = "ring" \/ (ev.at = "handle" /\ ev.type = "connect")
         => ~In(inbox[ev.sess], "connect")

\* Whoever refers to a session refers to one of its own: a call, the call being
\* placed, the registration, the peer's call that is arriving; a final frame
\* only to that of a call whose end it tells, or whose end the link missed.
Referents ==
    /\ \A c, d \in CallIds :
         InMap(c) /\ InMap(d) /\ calls[c].sess = calls[d].sess => c = d
    /\ \A c \in CallIds : InMap(c) =>
         /\ calls[c].sess # regSession
         /\ ~Arriving(calls[c].sess)
         /\ calls[c].sess \in finals => HasSent(c) \/ c \in missed
         /\ HasSent(c) => calls[c].sess \in finals \/ calls[c].sess \notin sessions
    /\ \A s \in Sessions : Arriving(s) => s \in sessions \ finals /\ s # regSession
    /\ regSession \notin finals
    /\ regSession \in Sessions => peer[regSession] # "calling"

\* What the call being placed, and one that rings, will be in the map.
Additions ==
    /\ op.at = "placed" =>
         /\ ~InMap(op.call) /\ ~HasCall(op.sess)
         /\ op.sess # regSession /\ ~Arriving(op.sess)
         /\ op.sess \in sessions \ finals \/ op.call \in missed
    /\ ev.at = "ring" =>
         /\ ~InMap(ev.call)
         /\ op.at \in {"placed", "found", "sent"} => op.call # ev.call

\* An event is handled for the call that had its session when it was taken.
Handled ==
    ev.at = "handle" /\ ev.call # NoCall =>
        /\ InMap(ev.call) => calls[ev.call].sess = ev.sess
        /\ op.at = "placed" => op.call # ev.call
        /\ ev.type # "connect"

\* SessionsOwned, where an event in progress owns only what is arriving.
Owned ==
    \A s \in sessions :
        \/ HasCall(s)
        \/ s = regSession
        \/ op.at = "placed" /\ op.sess = s
        \/ Arriving(s)
        \/ s \in finals
        \/ peer[s] = "busy"

\* What Referents leave of EachCallItsSession.
Served ==
    \A c \in CallIds :
        InMap(c) /\ ~Ending(c) /\ c \notin missed => calls[c].sess \in sessions

\* The call of s rings no more.
NoRing(s) ==
    peer[s] # "calling" /\ ~In(inbox[s], "ringa") /\ ~Handles(s, "ringa")

\* Only a call that is placed and not yet answered can ring; a call is held
\* once it is connected, and then only offhold binds it.
Silence ==
    /\ \A c \in CallIds : InMap(c) =>
         /\ calls[c].conn = "connected" \/ calls[c].state # "active"
                => NoRing(calls[c].sess)
         /\ calls[c].state = "hold" => calls[c].conn = "connected"
    /\ \A s \in Sessions : Arriving(s) => NoRing(s)
    /\ \A s \in Sessions : Handles(s, "answer") => NoRing(s)
    /\ Does({"onhold"}) /\ InMap(op.call) =>
         calls[op.call].conn = "connected" /\ op.call \notin bound
    /\ Does({"answer"}) /\ InMap(op.call) => NoRing(calls[op.call].sess)
    /\ HeldIsSilent

LinkInv ==
    /\ TypeOK
    /\ Queues /\ Referents /\ Additions /\ Handled
    /\ Owned /\ Served /\ Silence

-----------------------------------------------------------------------------
(* Queues.                                                                 *)

LEMMA QueueEmpty == Ordered(<<>>) /\ \A t : ~In(<<>>, t)
  BY DEF Ordered, In

LEMMA QueueConnect ==
    Ordered(<<"connect">>) /\ \A t : In(<<"connect">>, t) <=> t = "connect"
  BY DEF Ordered, In

LEMMA QueueTail ==
    ASSUME NEW q \in Seq(EventTypes), q # <<>>, Ordered(q)
    PROVE  /\ Tail(q) \in Seq(EventTypes) /\ Head(q) \in EventTypes
           /\ Ordered(Tail(q))
           /\ In(q, Head(q))
           /\ \A t : In(Tail(q), t) => In(q, t)
           /\ ~In(Tail(q), "connect")
           /\ Head(q) = "answer" => ~In(Tail(q), "ringa")
  <1>1. /\ Len(q) \in Nat /\ Len(q) >= 1 /\ Len(Tail(q)) = Len(q) - 1
        /\ \A i \in 1 .. Len(Tail(q)) : Tail(q)[i] = q[i + 1] /\ i + 1 \in 1 .. Len(q)
        /\ Head(q) = q[1]
    OBVIOUS
  <1>2. \A t : In(Tail(q), t) => In(q, t)
    BY <1>1 DEF In
  <1>3. In(q, Head(q))
    BY <1>1 DEF In
  <1>4. Ordered(Tail(q)) /\ ~In(Tail(q), "connect")
    BY <1>1 DEF Ordered, In
  <1>5. Head(q) = "answer" => ~In(Tail(q), "ringa")
    BY <1>1 DEF Ordered, In
  <1>6. Tail(q) \in Seq(EventTypes) /\ Head(q) \in EventTypes
    OBVIOUS
  <1> QED BY <1>2, <1>3, <1>4, <1>5, <1>6

LEMMA QueueHead ==
    ASSUME NEW q \in Seq(EventTypes), Ordered(q), In(q, "connect")
    PROVE  Head(q) = "connect"
  <1>1. Len(q) \in Nat
    OBVIOUS
  <1>2. PICK i \in 1 .. Len(q) : q[i] = "connect" /\ i = 1
    BY DEF Ordered, In
  <1> QED BY <1>1, <1>2

LEMMA QueueAppend ==
    ASSUME NEW q \in Seq(EventTypes), NEW e \in EventTypes, Ordered(q),
           e # "connect", e = "ringa" => ~In(q, "answer")
    PROVE  /\ Append(q, e) \in Seq(EventTypes)
           /\ Ordered(Append(q, e))
           /\ \A t : In(Append(q, e), t) <=> In(q, t) \/ t = e
  <1>1. /\ Len(q) \in Nat /\ Len(Append(q, e)) = Len(q) + 1
        /\ \A i \in 1 .. Len(q) : Append(q, e)[i] = q[i]
        /\ Append(q, e)[Len(q) + 1] = e
        /\ \A i \in 1 .. Len(q) + 1 : i \in 1 .. Len(q) \/ i = Len(q) + 1
    OBVIOUS
  <1>2. \A t : In(Append(q, e), t) <=> In(q, t) \/ t = e
    BY <1>1 DEF In
  <1>3. \A i \in 1 .. Len(q) + 1 : Append(q, e)[i] = "connect" => i = 1
    BY <1>1 DEF Ordered
  <1>4. ASSUME NEW i \in 1 .. Len(q) + 1, NEW j \in 1 .. Len(q) + 1,
               Append(q, e)[i] = "answer", Append(q, e)[j] = "ringa"
        PROVE  j < i
    <2>1. CASE j = Len(q) + 1
      <3>1. e = "ringa" /\ ~In(q, "answer") /\ i # j
        BY <1>1, <1>4, <2>1
      <3> QED BY <1>1, <1>4, <2>1, <3>1 DEF In
    <2>2. CASE i = Len(q) + 1
      BY <1>1, <1>4, <2>2
    <2>3. CASE i \in 1 .. Len(q) /\ j \in 1 .. Len(q)
      BY <1>1, <1>4, <2>3 DEF Ordered
    <2> QED BY <1>1, <2>1, <2>2, <2>3
  <1>5. Append(q, e) \in Seq(EventTypes)
    OBVIOUS
  <1> QED BY <1>1, <1>2, <1>3, <1>4, <1>5 DEF Ordered

-----------------------------------------------------------------------------
(* Types.                                                                  *)

OpPlaces ==
    {NoOp} \cup [at : {"unregister", "unstamped"}]
           \cup [at : {"placed"}, call : CallIds, sess : Sessions]
           \cup [at : {"found", "sent"}, call : CallIds, name : Operations]

EvPlaces ==
    {Idle, [at |-> "refresh"], [at |-> "acked"]}
        \cup [at : {"handle"}, sess : Sessions, type : EventTypes,
              call : CallIds \cup {NoCall}]
        \cup [at : {"ring"}, sess : Sessions, call : CallIds]

OpTyped == op \in OpPlaces
EvTyped == ev \in EvPlaces

CallsTyped ==
    /\ calls \in [CallIds -> CallRecords \cup {Absent}]
    /\ known \subseteq CallIds /\ bound \subseteq CallIds /\ missed \subseteq CallIds

RegTyped ==
    /\ regSession \in Sessions \cup {NoSession}
    /\ stamp \in {"off", "retry", "refresh"}
    /\ regState \in {"Unregistered", "Trying", "Registered", "ErrorAuth"}
    /\ wanted \in {"registered", "unregistered"}
    /\ overtaken \in BOOLEAN

CrashTyped == crash \in {"none", "null call", "deleted call", "dead session"}

LEMMA TypeParts ==
    TypeOK <=> LibTypeOK /\ CallsTyped /\ EvTyped /\ OpTyped /\ RegTyped /\ CrashTyped
  BY DEF TypeOK, CallsTyped, EvTyped, EvPlaces, OpTyped, OpPlaces, RegTyped,
         CrashTyped

LEMMA TypePartsNext ==
    LibTypeOK' /\ CallsTyped' /\ EvTyped' /\ OpTyped' /\ RegTyped' /\ CrashTyped'
        => TypeOK'
  BY DEF TypeOK, CallsTyped, EvTyped, EvPlaces, OpTyped, OpPlaces, RegTyped,
         CrashTyped

LEMMA PlaceValues ==
    /\ NoOp \in OpPlaces /\ Idle \in EvPlaces
    /\ [at |-> "refresh"] \in EvPlaces /\ [at |-> "acked"] \in EvPlaces
    /\ \A x \in {"unregister", "unstamped"} : [at |-> x] \in OpPlaces
    /\ \A c \in CallIds, s \in Sessions :
         /\ [at |-> "placed", call |-> c, sess |-> s] \in OpPlaces
         /\ [at |-> "ring", sess |-> s, call |-> c] \in EvPlaces
    /\ \A c \in CallIds, n \in Operations :
         [at |-> "found", call |-> c, name |-> n] \in OpPlaces
    /\ \A c \in CallIds \cup {NoCall}, s \in Sessions, t \in EventTypes :
         [at |-> "handle", sess |-> s, type |-> t, call |-> c] \in EvPlaces
  BY DEF OpPlaces, EvPlaces

\* What each place of a thread carries.
LEMMA OpFields ==
    ASSUME OpTyped
    PROVE  /\ op.at = "placed" => op.call \in CallIds /\ op.sess \in Sessions
           /\ op.at \in {"found", "sent"} => op.call \in CallIds /\ op.name \in Operations
           /\ op = NoOp => op.at = "idle"
           /\ op.at \in {"idle", "placed", "found", "sent", "unregister", "unstamped"}
  BY DEF OpTyped, OpPlaces, NoOp

LEMMA OpSent ==
    ASSUME OpTyped, op.at = "found"
    PROVE  /\ [op EXCEPT !.at = "sent"] \in OpPlaces
           /\ [op EXCEPT !.at = "sent"].at = "sent"
           /\ [op EXCEPT !.at = "sent"].call = op.call
           /\ [op EXCEPT !.at = "sent"].name = op.name
  BY DEF OpTyped, OpPlaces, NoOp

LEMMA EvFields ==
    ASSUME EvTyped
    PROVE  /\ ev.at = "handle" =>
                ev.sess \in Sessions /\ ev.type \in EventTypes
                /\ ev.call \in CallIds \cup {NoCall}
           /\ ev.at = "ring" => ev.sess \in Sessions /\ ev.call \in CallIds
           /\ ev = Idle => ev.at = "idle"
           /\ ev.at \in {"idle", "refresh", "acked", "handle", "ring"}
  BY DEF EvTyped, EvPlaces, Idle

LEMMA CallFields ==
    ASSUME CallsTyped, NEW c \in CallIds
    PROVE  /\ InMap(c) => calls[c] \in CallRecords
           /\ NoSession \notin Sessions
           /\ calls[c] \in CallRecords => InMap(c)
           /\ InMap(c) => /\ calls[c].sess \in Sessions
                          /\ calls[c].conn \in {"progressing", "ringing", "connected"}
                          /\ calls[c].state \in {"inactive", "active", "hold"}
  BY LibIAXAssumption DEF CallsTyped, InMap, Absent, CallRecords

\* What the library's steps do to its types.
LEMMA LibOpens ==
    ASSUME LibTypeOK, NEW s \in Sessions, NEW doing \in PeerStates,
           NEW first \in {<<>>, <<"connect">>}, OpenSession(s, doing, first),
           UNCHANGED finals
    PROVE  LibTypeOK'
  <1>1. <<>> \in Seq(EventTypes) /\ <<"connect">> \in Seq(EventTypes)
    <2>1. "connect" \in EventTypes
      BY DEF EventTypes
    <2> QED BY <2>1
  <1>2. first \in Seq(EventTypes)
    BY <1>1
  <1> QED BY <1>2 DEF LibTypeOK, OpenSession

LEMMA LibDestroys ==
    ASSUME LibTypeOK, NEW s, DestroySession(s), finals' \subseteq Sessions
    PROVE  LibTypeOK'
  <1>1. <<>> \in Seq(EventTypes)
    OBVIOUS
  <1>2. inbox' \in [Sessions -> Seq(EventTypes)]
    BY <1>1 DEF LibTypeOK, DestroySession
  <1>3. peer' \in [Sessions -> PeerStates]
    BY DEF LibTypeOK, DestroySession, PeerStates
  <1> QED BY <1>2, <1>3 DEF LibTypeOK, DestroySession

LEMMA LibReplaces ==
    ASSUME LibTypeOK, NEW s \in Sessions, NEW old, ReplaceSession(old, s, "register"),
           UNCHANGED finals
    PROVE  LibTypeOK'
  <1>1. sessions' \subseteq Sessions
    BY DEF ReplaceSession, LibTypeOK
  <1>2. peer' \in [Sessions -> PeerStates]
    BY DEF ReplaceSession, LibTypeOK, PeerStates
  <1>3. inbox' \in [Sessions -> Seq(EventTypes)]
    <2>1. <<>> \in Seq(EventTypes)
      OBVIOUS
    <2> QED BY <2>1 DEF ReplaceSession, LibTypeOK
  <1> QED BY <1>1, <1>2, <1>3 DEF LibTypeOK

LEMMA LibKept == LibTypeOK /\ UNCHANGED libvars => LibTypeOK'
  BY DEF LibTypeOK, libvars

\* A reply to the registration, and the library's part of it.
LEMMA RegisterTyped ==
    ASSUME TypeOK, sendRegister
    PROVE  LibTypeOK' /\ regSession' \in Sessions
           /\ stamp' = "retry" /\ regState' = "Trying"
  <1>1. PICK s \in Sessions : ReplaceSession(regSession, s, "register") /\ regSession' = s
    BY DEF sendRegister
  <1>2. LibTypeOK'
    BY <1>1, LibReplaces DEF sendRegister, TypeOK
  <1> QED BY <1>1, <1>2 DEF sendRegister

LEMMA UndefinedCases ==
    ASSUME NEW what, NEW ACTION lost, Undefined(what, lost)
    PROVE  \/ crash' = what /\ UNCHANGED <<libvars, linkvars, regvars>>
           \/ lost /\ UNCHANGED crash
  BY DEF Undefined

LEMMA PlaceTyped ==
    ASSUME TypeOK, PlaceCall \/ PlaceCallAdd
    PROVE  TypeOK'
  <1>0. LibTypeOK /\ CallsTyped /\ EvTyped /\ OpTyped /\ RegTyped /\ CrashTyped
    BY TypeParts
  <1>1. CASE PlaceCall
    <2>1. PICK s \in Sessions, c \in UnusedIds :
             /\ OpenSession(s, "calling", <<>>)
             /\ op' = [at |-> "placed", call |-> c, sess |-> s]
             /\ missed' = missed \ {c}
      BY <1>1 DEF PlaceCall
    <2>2. c \in CallIds
      BY DEF UnusedIds
    <2>3. LibTypeOK'
      <3>1. "calling" \in PeerStates
        BY DEF PeerStates
      <3>2. UNCHANGED finals
        BY <1>1 DEF PlaceCall
      <3> QED BY <1>0, <2>1, <3>1, <3>2, LibOpens
    <2>4. OpTyped' /\ EvTyped'
      BY <1>0, <1>1, <2>1, <2>2, PlaceValues DEF PlaceCall, OpTyped, EvTyped
    <2>5. CallsTyped' /\ RegTyped' /\ CrashTyped'
      BY <1>0, <1>1, <2>1 DEF PlaceCall, CallsTyped, RegTyped, CrashTyped, regvars
    <2> QED BY <2>3, <2>4, <2>5, TypePartsNext
  <1>2. CASE PlaceCallAdd
    <2>1. op.call \in CallIds /\ op.sess \in Sessions
      BY <1>0, <1>2, OpFields DEF PlaceCallAdd
    <2>2. CallsTyped'
      BY <1>0, <1>2, <2>1 DEF PlaceCallAdd, CallsTyped, CallRecords
    <2>3. OpTyped' /\ EvTyped' /\ RegTyped' /\ CrashTyped'
      BY <1>0, <1>2, PlaceValues DEF PlaceCallAdd, OpTyped, EvTyped, RegTyped, CrashTyped, regvars
    <2>4. LibTypeOK'
      BY <1>0, <1>2, LibKept DEF PlaceCallAdd
    <2> QED BY <2>2, <2>3, <2>4, TypePartsNext
  <1> QED BY <1>1, <1>2

LEMMA FindTyped ==
    ASSUME TypeOK, NEW name \in Operations, Find(name)
    PROVE  TypeOK'
  <1>0. LibTypeOK /\ CallsTyped /\ EvTyped /\ OpTyped /\ RegTyped /\ CrashTyped
    BY TypeParts
  <1>1. PICK c \in CallIds :
           \/ /\ op' = [at |-> "found", call |-> c, name |-> name]
              /\ bound' \in {bound, bound \cup {c}, bound \ {c}}
              /\ UNCHANGED <<known, crash>>
           \/ crash' = "null call" /\ UNCHANGED <<op, bound, known>>
           \/ known' = known \ {c} /\ UNCHANGED <<op, bound, crash>>
    BY DEF Find
  <1>2. UNCHANGED libvars /\ UNCHANGED <<calls, missed, ev>> /\ UNCHANGED regvars
    BY DEF Find
  <1>3. CallsTyped'
    BY <1>0, <1>1, <1>2 DEF CallsTyped
  <1>4. OpTyped' /\ EvTyped'
    BY <1>0, <1>1, <1>2, PlaceValues DEF OpTyped, EvTyped
  <1>5. LibTypeOK' /\ RegTyped' /\ CrashTyped'
    BY <1>0, <1>1, <1>2, LibKept DEF regvars, RegTyped, CrashTyped
  <1> QED BY <1>3, <1>4, <1>5, TypePartsNext

\* Send: an operation stops, goes on without its session, or reaches it.
LEMMA SendCases ==
    ASSUME TypeOK, Send
    PROVE  /\ op.at = "found" /\ op.call \in CallIds /\ MutexFree
           /\ UNCHANGED <<calls, known, bound, missed, ev, regvars>>
           /\ \/ crash' \in {"deleted call", "dead session"} /\ UNCHANGED <<libvars, op>>
              \/ ~InMap(op.call) /\ op' = NoOp /\ UNCHANGED <<libvars, crash>>
              \/ /\ InMap(op.call) /\ op' = [op EXCEPT !.at = "sent"] /\ UNCHANGED crash
                 /\ \/ calls[op.call].sess \notin sessions /\ UNCHANGED libvars
                    \/ /\ op.name \in {"hangup", "refuse"}
                       /\ SendFinal(calls[op.call].sess)
                    \/ /\ op.name = "answer"
                       /\ peer' = [peer EXCEPT ![calls[op.call].sess] =
                                      IF @ = "called" THEN "talking" ELSE @]
                       /\ UNCHANGED <<sessions, inbox, finals>>
                    \/ op.name \in {"onhold", "offhold"} /\ UNCHANGED libvars
  <1>1. op.at = "found" /\ op.call \in CallIds /\ op.name \in Operations /\ MutexFree
    BY TypeParts, OpFields DEF Send
  <1>2. CASE ~InMap(op.call)
    <2>1. Undefined("deleted call", op' = NoOp /\ UNCHANGED <<libvars, calls, known, bound, missed, ev, regvars>>)
      BY <1>2 DEF Send
    <2> QED BY <1>1, <1>2, <2>1 DEF Undefined, linkvars
  <1>3. CASE InMap(op.call) /\ calls[op.call].sess \notin sessions
    <2>1. Undefined("dead session",
                       /\ op' = [op EXCEPT !.at = "sent"]
                       /\ UNCHANGED <<libvars, calls, known, bound, missed, ev, regvars>>)
      BY <1>3 DEF Send
    <2> QED BY <1>1, <1>3, <2>1 DEF Undefined, linkvars
  <1>4. CASE InMap(op.call) /\ calls[op.call].sess \in sessions
    <2>1. UNCHANGED <<calls, known, bound, missed, ev, regvars, crash>>
          /\ op' = [op EXCEPT !.at = "sent"]
      BY <1>4 DEF Send
    <2>2. CASE op.name \in {"hangup", "refuse"}
      BY <1>1, <1>4, <2>1, <2>2 DEF Send
    <2>3. CASE op.name = "answer"
      BY <1>1, <1>4, <2>1, <2>3 DEF Send
    <2>4. CASE op.name \in {"onhold", "offhold"}
      BY <1>1, <1>4, <2>1, <2>4 DEF Send
    <2> QED BY <1>1, <2>2, <2>3, <2>4 DEF Operations
  <1> QED BY <1>2, <1>3, <1>4

LEMMA FinishCases ==
    ASSUME TypeOK, Finish
    PROVE  /\ op.at = "sent" /\ op.call \in CallIds
           /\ UNCHANGED <<libvars, bound, missed, ev, regvars>>
           /\ \/ crash' = "deleted call" /\ UNCHANGED <<calls, known, op>>
              \/ /\ op' = NoOp /\ UNCHANGED crash
                 /\ known' \subseteq known
                 /\ \/ ~InMap(op.call) /\ UNCHANGED calls
                    \/ op.name \in {"hangup", "refuse"}
                       /\ calls' = [calls EXCEPT ![op.call] = Absent]
                    \/ /\ op.name \in {"answer", "onhold", "offhold"} /\ InMap(op.call)
                       /\ calls' = [calls EXCEPT ![op.call].state =
                                       IF op.name = "onhold" THEN "hold" ELSE "active",
                                                 ![op.call].conn =
                                       IF op.name = "answer" THEN "connected" ELSE @]
  <1>1. op.at = "sent" /\ op.call \in CallIds /\ op.name \in Operations
    BY TypeParts, OpFields DEF Finish
  <1>2. CASE ~InMap(op.call) /\ op.name # "refuse"
    <2>1. Undefined("deleted call",
                       /\ op' = NoOp /\ known' = known \ {op.call}
                       /\ UNCHANGED <<libvars, calls, bound, missed, ev, regvars>>)
      BY <1>2 DEF Finish
    <2> QED BY <1>1, <1>2, <2>1 DEF Undefined, linkvars
  <1>3. CASE InMap(op.call) \/ op.name = "refuse"
    <2>1. UNCHANGED <<libvars, bound, missed, ev, regvars, crash>> /\ op' = NoOp
      BY <1>3 DEF Finish
    <2>2. CASE op.name \in {"hangup", "refuse"}
      BY <1>1, <1>3, <2>1, <2>2 DEF Finish
    <2>3. CASE op.name \notin {"hangup", "refuse"}
      BY <1>1, <1>3, <2>1, <2>3 DEF Finish, Operations
    <2> QED BY <2>2, <2>3
  <1> QED BY <1>2, <1>3

\* A change of a call of the map leaves it a call of the map.
LEMMA ChangedCall ==
    ASSUME CallsTyped, NEW c \in CallIds, InMap(c),
           NEW st \in {"inactive", "active", "hold"},
           NEW cn \in {"progressing", "ringing", "connected"},
           calls' = [calls EXCEPT ![c].state = st, ![c].conn = cn]
    PROVE  /\ calls' \in [CallIds -> CallRecords \cup {Absent}]
           /\ calls'[c].sess = calls[c].sess
           /\ calls'[c].state = st /\ calls'[c].conn = cn
           /\ \A d \in CallIds : InMap(d)' <=> InMap(d)
           /\ \A d \in CallIds \ {c} : calls'[d] = calls[d]
  <1>1. calls[c] \in CallRecords
    BY CallFields
  <1> DEFINE r == [calls[c] EXCEPT !.state = st, !.conn = cn]
  <1>2. calls'[c] = r
    BY DEF CallsTyped
  <1>8. r \in CallRecords /\ r.sess = calls[c].sess /\ r.state = st /\ r.conn = cn
    <2>1. PICK q \in CallRecords : q = calls[c]
      BY <1>1
    <2>2. r = [q EXCEPT !.state = st, !.conn = cn]
      BY <2>1
    <2>3. r \in CallRecords /\ r.sess = q.sess /\ r.state = st /\ r.conn = cn
      BY ONLY <2>2, q \in CallRecords DEF CallRecords
    <2> QED BY <2>1, <2>3
  <1> HIDE DEF r
  <1>3. calls'[c] \in CallRecords /\ calls'[c].sess = calls[c].sess
        /\ calls'[c].state = st /\ calls'[c].conn = cn
    BY <1>2, <1>8
  <1>4. \A d \in CallIds \ {c} : calls'[d] = calls[d]
    BY DEF CallsTyped
  <1>5. calls'[c] # Absent
    BY <1>3, LibIAXAssumption DEF CallRecords, Absent
  <1>6. \A d \in CallIds : InMap(d)' <=> InMap(d)
    BY <1>4, <1>5 DEF InMap
  <1>7. calls' \in [CallIds -> CallRecords \cup {Absent}]
    BY <1>3 DEF CallsTyped
  <1> QED BY <1>3, <1>4, <1>6, <1>7

LEMMA RemovedCall ==
    ASSUME CallsTyped, NEW c \in CallIds, calls' = [calls EXCEPT ![c] = Absent]
    PROVE  /\ calls' \in [CallIds -> CallRecords \cup {Absent}]
           /\ ~InMap(c)'
           /\ \A d \in CallIds \ {c} : calls'[d] = calls[d] /\ (InMap(d)' <=> InMap(d))
  BY DEF CallsTyped, InMap

LEMMA AddedCall ==
    ASSUME CallsTyped, NEW c \in CallIds, NEW s \in Sessions,
           NEW st \in {"inactive", "active", "hold"},
           calls' = [calls EXCEPT ![c] =
                       [sess |-> s, conn |-> "progressing", state |-> st]]
    PROVE  /\ calls' \in [CallIds -> CallRecords \cup {Absent}]
           /\ InMap(c)'
           /\ calls'[c].sess = s /\ calls'[c].conn = "progressing" /\ calls'[c].state = st
           /\ \A d \in CallIds \ {c} : calls'[d] = calls[d] /\ (InMap(d)' <=> InMap(d))
  BY LibIAXAssumption DEF CallsTyped, InMap, CallRecords, Absent

LEMMA SendTyped ==
    ASSUME TypeOK, Send
    PROVE  TypeOK'
  <1>0. LibTypeOK /\ CallsTyped /\ EvTyped /\ OpTyped /\ RegTyped /\ CrashTyped
    BY TypeParts
  <1>1. CallsTyped' /\ EvTyped' /\ RegTyped'
    <2>1. UNCHANGED <<calls, known, bound, missed, ev, regvars>>
      BY SendCases
    <2> QED BY <1>0, <2>1 DEF CallsTyped, EvTyped, RegTyped, regvars
  <1>2. OpTyped' /\ CrashTyped'
    <2>1. /\ op' \in {op, NoOp, [op EXCEPT !.at = "sent"]} /\ op.at = "found"
          /\ crash' \in {crash, "deleted call", "dead session"}
      BY SendCases
    <2> QED BY <1>0, <2>1, OpSent, PlaceValues DEF OpTyped, CrashTyped
  <1>3. LibTypeOK'
    <2>1. CASE UNCHANGED libvars
      BY <1>0, <2>1, LibKept
    <2>2. CASE InMap(op.call) /\ SendFinal(calls[op.call].sess)
      <3>1. calls[op.call].sess \in Sessions
        BY <1>0, <2>2, SendCases, CallFields
      <3>2. finals' \subseteq Sessions
        BY <1>0, <2>2, <3>1 DEF SendFinal, LibTypeOK
      <3>3. CASE DestroySession(calls[op.call].sess)
        BY <1>0, <3>2, <3>3, LibDestroys
      <3>4. CASE UNCHANGED <<sessions, inbox, peer>>
        BY <1>0, <3>2, <3>4 DEF LibTypeOK
      <3> QED BY <2>2, <3>3, <3>4 DEF SendFinal
    <2>3. CASE /\ peer' = [peer EXCEPT ![calls[op.call].sess] =
                                      IF @ = "called" THEN "talking" ELSE @]
               /\ UNCHANGED <<sessions, inbox, finals>>
      BY <1>0, <2>3 DEF LibTypeOK, PeerStates
    <2> QED BY <2>1, <2>2, <2>3, SendCases DEF libvars
  <1> QED BY <1>1, <1>2, <1>3, TypePartsNext

LEMMA FinishTyped ==
    ASSUME TypeOK, Finish
    PROVE  TypeOK'
  <1>0. LibTypeOK /\ CallsTyped /\ EvTyped /\ OpTyped /\ RegTyped /\ CrashTyped
    BY TypeParts
  <1>1. LibTypeOK' /\ EvTyped' /\ RegTyped'
    <2>1. UNCHANGED libvars /\ UNCHANGED <<bound, missed, ev>> /\ UNCHANGED regvars
      BY FinishCases
    <2> QED BY <1>0, <2>1, LibKept DEF EvTyped, RegTyped, regvars
  <1>2. OpTyped' /\ CrashTyped'
    <2>1. op' \in {op, NoOp} /\ crash' \in {crash, "deleted call"}
      BY FinishCases
    <2> QED BY <1>0, <2>1, PlaceValues DEF OpTyped, CrashTyped
  <1>3. CallsTyped'
    <2>1. UNCHANGED <<bound, missed>> /\ known' \subseteq known
      BY FinishCases
    <2>2. calls' \in [CallIds -> CallRecords \cup {Absent}]
      <3>1. CASE UNCHANGED calls
        BY <1>0, <3>1 DEF CallsTyped
      <3>2. CASE calls' = [calls EXCEPT ![op.call] = Absent]
        BY <1>0, <3>2, FinishCases, RemovedCall
      <3>3. CASE /\ op.name \in {"answer", "onhold", "offhold"} /\ InMap(op.call)
                 /\ calls' = [calls EXCEPT ![op.call].state =
                                       IF op.name = "onhold" THEN "hold" ELSE "active",
                                                 ![op.call].conn =
                                       IF op.name = "answer" THEN "connected" ELSE @]
        <4>1. calls[op.call].conn \in {"progressing", "ringing", "connected"}
          BY <1>0, <3>3, FinishCases, CallFields
        <4> DEFINE st == IF op.name = "onhold" THEN "hold" ELSE "active"
                   cn == IF op.name = "answer" THEN "connected" ELSE calls[op.call].conn
        <4>2. calls' = [calls EXCEPT ![op.call].state = st, ![op.call].conn = cn]
          BY <3>3
        <4>3. st \in {"inactive", "active", "hold"}
              /\ cn \in {"progressing", "ringing", "connected"}
          BY <4>1
        <4> HIDE DEF st, cn
        <4> QED BY <1>0, <3>3, <4>2, <4>3, FinishCases, ChangedCall
      <3> QED BY <3>1, <3>2, <3>3, FinishCases
    <2> QED BY <1>0, <2>1, <2>2 DEF CallsTyped
  <1> QED BY <1>1, <1>2, <1>3, TypePartsNext

LEMMA RegistrationTyped ==
    ASSUME TypeOK,
           Register \/ Unregister \/ UnregisterStamp \/ UnregisterState
           \/ iaxHandleRegReply \/ RegistrationAcked \/ RefreshDue \/ Refresh
    PROVE  TypeOK'
  <1>0. LibTypeOK /\ CallsTyped /\ EvTyped /\ OpTyped /\ RegTyped /\ CrashTyped
    BY TypeParts
  <1> USE PlaceValues DEF OpTyped, EvTyped
  <1>1. CASE Register \/ Refresh
    <2>1. sendRegister /\ UNCHANGED <<calls, known, bound, missed, op, crash>>
          /\ ev' \in {ev, Idle}
          /\ wanted' \in {wanted, "registered"} /\ overtaken' \in {overtaken, FALSE}
      BY <1>1 DEF Register, Refresh, linkvars
    <2>2. CallsTyped' /\ EvTyped' /\ OpTyped' /\ CrashTyped'
      BY <1>0, <2>1 DEF CallsTyped, CrashTyped
    <2>3. RegTyped'
      BY <1>0, <2>1, RegisterTyped DEF RegTyped
    <2> QED BY <2>1, <2>2, <2>3, RegisterTyped, TypePartsNext
  <1>2. CASE Unregister
    <2>1. LibTypeOK'
      <3>1. CASE regSession = NoSession
        BY <1>0, <1>2, <3>1, LibKept DEF Unregister
      <3>2. CASE regSession # NoSession
        <4>1. DestroySession(regSession) /\ UNCHANGED finals
          BY <1>2, <3>2 DEF Unregister
        <4>2. finals' \subseteq Sessions
          BY <1>0, <4>1 DEF LibTypeOK
        <4> QED BY <1>0, <4>1, <4>2, LibDestroys
      <3> QED BY <3>1, <3>2
    <2>2. CallsTyped' /\ EvTyped' /\ OpTyped' /\ RegTyped' /\ CrashTyped'
      BY <1>0, <1>2 DEF Unregister, CallsTyped, RegTyped, CrashTyped
    <2> QED BY <2>1, <2>2, TypePartsNext
  <1>3. CASE UnregisterStamp \/ UnregisterState
    <2>1. LibTypeOK'
      BY <1>0, <1>3, LibKept DEF UnregisterStamp, UnregisterState
    <2>2. CallsTyped' /\ EvTyped' /\ OpTyped' /\ RegTyped' /\ CrashTyped'
      BY <1>0, <1>3 DEF UnregisterStamp, UnregisterState, CallsTyped, RegTyped, CrashTyped
    <2> QED BY <2>1, <2>2, TypePartsNext
  <1>4. CASE iaxHandleRegReply
    <2>1. LibTypeOK'
      <3>1. CASE ev.type \in {"regack", "regrej"}
        <4>1. DestroySession(regSession) /\ UNCHANGED finals
          BY <1>4, <3>1 DEF iaxHandleRegReply
        <4>2. finals' \subseteq Sessions
          BY <1>0, <4>1 DEF LibTypeOK
        <4> QED BY <1>0, <4>1, <4>2, LibDestroys
      <3>2. CASE ev.type \notin {"regack", "regrej"}
        BY <1>0, <1>4, <3>2, LibKept DEF iaxHandleRegReply
      <3> QED BY <3>1, <3>2
    <2>2. CallsTyped' /\ EvTyped' /\ OpTyped' /\ RegTyped' /\ CrashTyped'
      BY <1>0, <1>4 DEF iaxHandleRegReply, CallsTyped, RegTyped, CrashTyped
    <2> QED BY <2>1, <2>2, TypePartsNext
  <1>5. CASE RegistrationAcked \/ RefreshDue
    <2>1. LibTypeOK'
      BY <1>0, <1>5, LibKept DEF RegistrationAcked, RefreshDue
    <2>2. CallsTyped' /\ EvTyped' /\ OpTyped' /\ RegTyped' /\ CrashTyped'
      BY <1>0, <1>5 DEF RegistrationAcked, RefreshDue, CallsTyped, RegTyped, CrashTyped
    <2> QED BY <2>1, <2>2, TypePartsNext
  <1> QED BY <1>1, <1>2, <1>3, <1>4, <1>5

\* What the handling of an event does to its call, and that it changes no more.
LEMMA EventCases ==
    ASSUME TypeOK, iaxHandleCallEvent
    PROVE  /\ ev.at = "handle" /\ ev.call \in CallIds /\ ev.call # NoCall
           /\ UNCHANGED <<libvars, missed, op, regvars>>
           /\ \/ crash' = "deleted call" /\ UNCHANGED <<calls, known, bound, ev>>
              \/ /\ ev' = Idle /\ UNCHANGED crash
                 /\ \/ ~InMap(ev.call) /\ UNCHANGED <<calls, known, bound>>
                    \/ InMap(ev.call) /\ ev.type = "hangup" /\ peerHungupCall(ev.call)
                    \/ InMap(ev.call) /\ ev.type \in {"reject", "busy"}
                       /\ callEnded(ev.call)
                    \/ InMap(ev.call) /\ ev.type = "answer" /\ peerAnswered(ev.call)
                    \/ /\ InMap(ev.call) /\ ev.type = "ringa"
                       /\ calls' = [calls EXCEPT ![ev.call].conn = "ringing"]
                       /\ UNCHANGED <<known, bound>>
                    \/ /\ InMap(ev.call) /\ ev.type \in {"connect", "regack", "regrej"}
                       /\ UNCHANGED <<calls, known, bound>>
  <1>1. ev.at = "handle" /\ ev.call \in CallIds /\ ev.call # NoCall
    BY TypeParts, EvFields DEF iaxHandleCallEvent
  <1>2. CASE InMap(ev.call)
    BY <1>1, <1>2 DEF iaxHandleCallEvent, peerHungupCall, callEnded, peerAnswered
  <1>3. CASE ~InMap(ev.call)
    <2>1. /\ Undefined("deleted call",
                       ev' = Idle /\ UNCHANGED <<libvars, calls, known, bound, missed, op, regvars>>)
          /\ UNCHANGED <<libvars, regvars>>
      BY <1>3 DEF iaxHandleCallEvent
    <2> QED BY <1>1, <1>3, <2>1 DEF Undefined, linkvars
  <1> QED BY <1>2, <1>3

\* What a call of the map becomes while its event is handled: it is removed, is
\* connected and its stream bound, rings, or stays.
LEMMA EventCalls ==
    ASSUME TypeOK, iaxHandleCallEvent, NEW c \in CallIds, c = ev.call
    PROVE  /\ CallsTyped'
           /\ \A d \in CallIds \ {c} : calls'[d] = calls[d] /\ (InMap(d)' <=> InMap(d))
           /\ bound' \subseteq bound \cup {c}
           /\ InMap(c)' =>
                /\ InMap(c) /\ calls'[c].sess = calls[c].sess
                /\ \/ calls'[c] = calls[c] /\ bound' \subseteq bound
                   \/ /\ ev.type = "answer" /\ calls[c].conn # "connected"
                      /\ calls'[c].conn = "connected"
                      /\ calls'[c].state = "active"
                   \/ /\ ev.type = "ringa" /\ calls'[c].conn = "ringing"
                      /\ calls'[c].state = calls[c].state
                      /\ bound' \subseteq bound
           /\ ~InMap(c)' /\ InMap(c) => ev.type \in {"hangup", "reject", "busy"}
           /\ ev' = Idle => (InMap(c)' => ev.type \notin {"hangup", "reject", "busy"})
  <1>0. CallsTyped /\ EvTyped /\ UNCHANGED missed
    BY TypeParts, EventCases
  <1>1. CASE UNCHANGED <<calls, known, bound>> /\ (ev' = Idle => ~InMap(c))
    BY <1>0, <1>1 DEF CallsTyped, InMap
  <1>2. CASE InMap(c) /\ ev.type = "hangup" /\ peerHungupCall(c)
    BY <1>0, <1>2, RemovedCall DEF peerHungupCall, CallsTyped
  <1>3. CASE InMap(c) /\ ev.type \in {"reject", "busy"} /\ callEnded(c)
    BY <1>0, <1>3, RemovedCall DEF callEnded, CallsTyped
  <1>4. CASE InMap(c) /\ ev.type = "answer" /\ peerAnswered(c)
    <2>1. CASE calls[c].conn = "connected"
      BY <1>0, <1>4, <2>1 DEF peerAnswered, CallsTyped, InMap
    <2>2. CASE calls[c].conn # "connected"
      <3>1. calls' = [calls EXCEPT ![c].state = "active", ![c].conn = "connected"]
        BY <1>4, <2>2 DEF peerAnswered
      <3>2. bound' = bound \cup {c} /\ UNCHANGED known
        BY <1>4, <2>2 DEF peerAnswered
      <3>3. /\ calls' \in [CallIds -> CallRecords \cup {Absent}]
            /\ calls'[c].sess = calls[c].sess /\ calls'[c].state = "active"
            /\ calls'[c].conn = "connected"
            /\ \A d \in CallIds : InMap(d)' <=> InMap(d)
            /\ \A d \in CallIds \ {c} : calls'[d] = calls[d]
        BY <1>0, <1>4, <3>1, ChangedCall
      <3>4. CallsTyped'
        BY <1>0, <3>2, <3>3 DEF CallsTyped
      <3> QED BY <1>4, <2>2, <3>2, <3>3, <3>4
    <2> QED BY <2>1, <2>2
  <1>5. CASE /\ InMap(c) /\ ev.type = "ringa"
             /\ calls' = [calls EXCEPT ![c].conn = "ringing"]
             /\ UNCHANGED <<known, bound>>
    <2>1. calls[c].state \in {"inactive", "active", "hold"}
      BY <1>0, <1>5, CallFields
    <2>2. calls' = [calls EXCEPT ![c].state = calls[c].state, ![c].conn = "ringing"]
      BY <1>0, <1>5, CallFields DEF CallsTyped, CallRecords
    <2> QED BY <1>0, <1>5, <2>1, <2>2, ChangedCall DEF CallsTyped
  <1>6. CASE /\ InMap(c) /\ ev.type \in {"connect", "regack", "regrej"}
             /\ UNCHANGED <<calls, known, bound>>
    BY <1>0, <1>6 DEF CallsTyped, InMap
  <1>7. crash' = "deleted call" /\ UNCHANGED <<calls, known, bound, ev>> => ev' # Idle
    BY EventCases, EvFields, <1>0
  <1> QED BY <1>1, <1>2, <1>3, <1>4, <1>5, <1>6, <1>7, EventCases

LEMMA EventTyped ==
    ASSUME TypeOK, GetEvent \/ iaxHandleCallEvent \/ FinalFrame
    PROVE  TypeOK'
  <1>0. LibTypeOK /\ CallsTyped /\ EvTyped /\ OpTyped /\ RegTyped /\ CrashTyped
    BY TypeParts
  <1>1. CASE GetEvent
    <2>1. PICK s \in Sessions, type \in EventTypes :
             /\ TakeEvent(s, type)
             /\ \E c \in IF CallsOf(s) = {} THEN {NoCall} ELSE CallsOf(s) :
                  ev' = [at |-> "handle", sess |-> s, type |-> type, call |-> c]
             /\ missed' \in {missed, missed \cup {op.call}}
             /\ missed' # missed => op.at = "placed"
      BY <1>1 DEF GetEvent
    <2>2. EvTyped'
      BY <2>1, PlaceValues DEF EvTyped, CallsOf
    <2>3. CallsTyped' /\ OpTyped' /\ RegTyped' /\ CrashTyped'
      BY <1>0, <1>1, <2>1, OpFields
         DEF GetEvent, CallsTyped, OpTyped, RegTyped, CrashTyped, regvars
    <2>4. LibTypeOK'
      <3>1. CASE DestroySession(s) /\ UNCHANGED finals
        BY <1>0, <3>1, LibDestroys DEF LibTypeOK
      <3>2. CASE /\ inbox' = [inbox EXCEPT ![s] = Tail(@)]
                 /\ UNCHANGED <<sessions, peer, finals>> /\ inbox[s] # <<>>
        <4>1. Tail(inbox[s]) \in Seq(EventTypes)
          BY <1>0, <3>2 DEF LibTypeOK
        <4> QED BY <1>0, <3>2, <4>1 DEF LibTypeOK
      <3> QED BY <2>1, <3>1, <3>2 DEF TakeEvent
    <2> QED BY <2>2, <2>3, <2>4, TypePartsNext
  <1>2. CASE iaxHandleCallEvent
    <2>1. CallsTyped'
      BY <1>2, EventCases, EventCalls
    <2>2. UNCHANGED libvars /\ UNCHANGED op /\ UNCHANGED regvars
          /\ ev' \in {ev, Idle} /\ crash' \in {crash, "deleted call"}
      BY <1>2, EventCases
    <2>3. LibTypeOK' /\ EvTyped' /\ OpTyped' /\ RegTyped' /\ CrashTyped'
      BY <1>0, <2>2, LibKept, PlaceValues
         DEF EvTyped, OpTyped, RegTyped, CrashTyped, regvars
    <2> QED BY <2>1, <2>3, TypePartsNext
  <1>3. CASE FinalFrame
    <2>1. PICK s \in finals : finals' = finals \ {s} /\ DestroySession(s)
      BY <1>3 DEF FinalFrame, FinalDue
    <2>2. finals' \subseteq Sessions
      BY <1>0, <2>1 DEF LibTypeOK
    <2>3. LibTypeOK'
      BY <1>0, <2>1, <2>2, LibDestroys
    <2>4. CallsTyped' /\ EvTyped' /\ OpTyped' /\ RegTyped' /\ CrashTyped'
      BY <1>0, <1>3
         DEF FinalFrame, CallsTyped, EvTyped, OpTyped, RegTyped, CrashTyped, linkvars, regvars
    <2> QED BY <2>3, <2>4, TypePartsNext
  <1> QED BY <1>1, <1>2, <1>3

LEMMA AcceptTyped ==
    ASSUME TypeOK, AcceptRefused
    PROVE  TypeOK'
  <1>0. LibTypeOK /\ CallsTyped /\ EvTyped /\ OpTyped /\ RegTyped /\ CrashTyped
    BY TypeParts
  <1>1. PICK s \in Sessions :
           /\ RefuseAccept(s)
           /\ missed' = missed \cup CallsOf(s)
                        \cup IF op.at = "placed" /\ op.sess = s THEN {op.call} ELSE {}
           /\ crash' \in {crash, "dead session"}
    BY DEF AcceptRefused
  <1>2. LibTypeOK'
    <2>1. finals' \subseteq Sessions
      BY <1>0, <1>1 DEF RefuseAccept, LibTypeOK
    <2>2. CASE DestroySession(s)
      BY <1>0, <2>1, <2>2, LibDestroys
    <2>3. CASE /\ inbox' = [inbox EXCEPT ![s] = Append(@, "reject")]
               /\ peer' = [peer EXCEPT ![s] = "over"]
               /\ UNCHANGED sessions
      <3>1. "reject" \in EventTypes /\ "over" \in PeerStates
        BY DEF EventTypes, PeerStates
      <3>2. Append(inbox[s], "reject") \in Seq(EventTypes)
        BY <1>0, <3>1 DEF LibTypeOK
      <3> QED BY <1>0, <2>1, <2>3, <3>1, <3>2 DEF LibTypeOK
    <2> QED BY <1>1, <2>2, <2>3 DEF RefuseAccept
  <1>3. missed' \subseteq CallIds
    BY <1>0, <1>1, OpFields DEF CallsTyped, CallsOf
  <1>4. EvTyped' /\ CallsTyped' /\ OpTyped' /\ RegTyped' /\ CrashTyped'
    BY <1>0, <1>1, <1>3
       DEF AcceptRefused, CallsTyped, EvTyped, OpTyped, RegTyped, CrashTyped, regvars
  <1> QED BY <1>2, <1>4, TypePartsNext

LEMMA CallerTyped ==
    ASSUME TypeOK, iaxHandlePrecallEvent \/ IncomingAdd
    PROVE  TypeOK'
  <1>0. LibTypeOK /\ CallsTyped /\ EvTyped /\ OpTyped /\ RegTyped /\ CrashTyped
    BY TypeParts
  <1>1. CASE iaxHandlePrecallEvent
    <2>1. LibTypeOK' /\ OpTyped' /\ RegTyped'
      BY <1>0, <1>1, LibKept DEF iaxHandlePrecallEvent, OpTyped, RegTyped, regvars
    <2>2. CASE ev.type = "connect"
      <3>1. PICK c \in UnusedIds :
               /\ ev' = [at |-> "ring", sess |-> ev.sess, call |-> c]
               /\ known' = known \cup {c}
               /\ missed' = missed \ {c} /\ UNCHANGED <<calls, bound, crash>>
        BY <1>1, <2>2 DEF iaxHandlePrecallEvent
      <3>2. c \in CallIds /\ ev.sess \in Sessions
        BY <1>0, <1>1, EvFields DEF UnusedIds, iaxHandlePrecallEvent
      <3>3. EvTyped' /\ CallsTyped' /\ CrashTyped'
        BY <1>0, <3>1, <3>2, PlaceValues DEF EvTyped, CallsTyped, CrashTyped
      <3> QED BY <2>1, <3>3, TypePartsNext
    <2>3. CASE UNCHANGED <<calls, known, bound, missed>>
               /\ ev' \in {ev, Idle} /\ crash' \in {crash, "null call"}
      <3>1. EvTyped' /\ CallsTyped' /\ CrashTyped'
        BY <1>0, <2>3, PlaceValues DEF EvTyped, CallsTyped, CrashTyped
      <3> QED BY <2>1, <3>1, TypePartsNext
    <2>4. ASSUME NEW c \in CallsOf(ev.sess), peerHungupCall(c), ev' = Idle,
                 UNCHANGED <<missed, crash>>
          PROVE  TypeOK'
      <3>1. c \in CallIds
        BY DEF CallsOf
      <3>2. EvTyped' /\ CallsTyped' /\ CrashTyped'
        BY <1>0, <2>4, <3>1, PlaceValues, RemovedCall
           DEF EvTyped, CallsTyped, CrashTyped, peerHungupCall
      <3> QED BY <2>1, <3>2, TypePartsNext
    <2> QED BY <1>1, <2>2, <2>3, <2>4 DEF iaxHandlePrecallEvent
  <1>2. CASE IncomingAdd
    <2>1. ev.sess \in Sessions /\ ev.call \in CallIds
      BY <1>0, <1>2, EvFields DEF IncomingAdd
    <2>2. CallsTyped'
      BY <1>0, <1>2, <2>1, AddedCall DEF IncomingAdd, CallsTyped
    <2>3. LibTypeOK' /\ EvTyped' /\ OpTyped' /\ RegTyped' /\ CrashTyped'
      BY <1>0, <1>2, LibKept, PlaceValues
         DEF IncomingAdd, EvTyped, OpTyped, RegTyped, CrashTyped, regvars
    <2> QED BY <2>2, <2>3, TypePartsNext
  <1> QED BY <1>1, <1>2

\* What the peer says next, and what it does then.
LEMMA SaysWhat ==
    ASSUME NEW doing \in PeerStates, NEW say \in Says(doing)
    PROVE  /\ say[1] \in EventTypes \ {"connect"} /\ say[2] \in PeerStates
           /\ say[1] = "ringa" => doing = "calling"
           /\ doing = "calling" \/ say[2] # "calling"
           /\ say[1] = "answer" => say[2] # "calling"
           /\ say[1] = "busy" => say[2] = "busy"
           /\ doing = "busy" => say[2] = "busy"
  BY DEF Says, PeerStates, EventTypes

LEMMA PeerTyped ==
    ASSUME TypeOK, PeerActs \/ PeerCalls
    PROVE  TypeOK'
  <1>0. LibTypeOK /\ CallsTyped /\ EvTyped /\ OpTyped /\ RegTyped /\ CrashTyped
    BY TypeParts
  <1>1. CallsTyped' /\ EvTyped' /\ OpTyped' /\ RegTyped' /\ CrashTyped'
    BY <1>0 DEF PeerActs, PeerCalls, CallsTyped, EvTyped, OpTyped, RegTyped,
                CrashTyped, linkvars, regvars
  <1>2. CASE PeerActs
    <2>1. PICK s \in sessions : \E say \in Says(peer[s]) :
             /\ inbox' = [inbox EXCEPT ![s] = Append(@, say[1])]
             /\ peer' = [peer EXCEPT ![s] = say[2]]
             /\ UNCHANGED <<sessions, finals>>
      BY <1>2 DEF PeerActs, PeerSays
    <2>2. PICK say \in Says(peer[s]) :
             /\ inbox' = [inbox EXCEPT ![s] = Append(@, say[1])]
             /\ peer' = [peer EXCEPT ![s] = say[2]]
             /\ UNCHANGED <<sessions, finals>>
      BY <2>1
    <2>3. s \in Sessions /\ peer[s] \in PeerStates /\ inbox[s] \in Seq(EventTypes)
      BY <1>0 DEF LibTypeOK
    <2>4. say[1] \in EventTypes /\ say[2] \in PeerStates
      BY <2>3, SaysWhat
    <2>5. Append(inbox[s], say[1]) \in Seq(EventTypes)
      BY <2>3, <2>4
    <2>6. LibTypeOK'
      BY <1>0, <2>2, <2>4, <2>5 DEF LibTypeOK
    <2> QED BY <1>1, <2>6, TypePartsNext
  <1>3. CASE PeerCalls
    <2>1. PICK s \in Sessions : OpenSession(s, "called", <<"connect">>)
      BY <1>3 DEF PeerCalls
    <2>2. "called" \in PeerStates /\ UNCHANGED finals
      BY <1>3 DEF PeerStates, PeerCalls
    <2>3. LibTypeOK'
      BY <1>0, <2>1, <2>2, LibOpens
    <2> QED BY <1>1, <2>3, TypePartsNext
  <1> QED BY <1>2, <1>3

LEMMA TypeStep == TypeOK /\ [Next]_vars => TypeOK'
  <1> SUFFICES ASSUME TypeOK, [Next]_vars PROVE TypeOK'
    OBVIOUS
  <1>1. CASE DBus
    BY <1>1, PlaceTyped, FindTyped, SendTyped, FinishTyped, RegistrationTyped DEF DBus
  <1>2. CASE EventThread
    BY <1>2, EventTyped, RegistrationTyped, CallerTyped, AcceptTyped DEF EventThread
  <1>3. CASE PeerActs \/ PeerCalls
    BY <1>3, PeerTyped
  <1>4. CASE UNCHANGED vars
    <2>1. LibTypeOK /\ CallsTyped /\ EvTyped /\ OpTyped /\ RegTyped /\ CrashTyped
      BY TypeParts
    <2>2. LibTypeOK'
      BY <1>4, <2>1, LibKept DEF vars
    <2>3. CallsTyped' /\ EvTyped' /\ OpTyped' /\ RegTyped' /\ CrashTyped'
      BY <1>4, <2>1 DEF vars, linkvars, regvars, CallsTyped, EvTyped, OpTyped,
                        RegTyped, CrashTyped
    <2> QED BY <2>2, <2>3, TypePartsNext
  <1> QED BY <1>1, <1>2, <1>3, <1>4 DEF Next, Crashed

LEMMA InitTyped == Init => TypeOK
  <1> SUFFICES ASSUME Init PROVE TypeOK
    OBVIOUS
  <1>1. LibTypeOK
    <2>1. <<>> \in Seq(EventTypes)
      OBVIOUS
    <2> QED BY <2>1 DEF Init, LibInit, LibTypeOK, PeerStates
  <1>2. CallsTyped /\ RegTyped /\ CrashTyped
    BY DEF Init, CallsTyped, RegTyped, CrashTyped
  <1>3. OpTyped /\ EvTyped
    BY PlaceValues DEF Init, OpTyped, EvTyped
  <1> QED BY <1>1, <1>2, <1>3, TypeParts

\* Every value a variable takes is of its type, for any calls and sessions and
\* any allocator.
THEOREM IAXTypeCorrect == Spec => []TypeOK
  BY InitTyped, TypeStep, PTL DEF Spec

-----------------------------------------------------------------------------
(* The invariant, step by step.                                            *)

LEMMA InitInv == Init => LinkInv
  <1> SUFFICES ASSUME Init PROVE LinkInv
    OBVIOUS
  <1>1. TypeOK
    BY InitTyped
  <1>2. /\ \A s \in Sessions : inbox[s] = <<>> /\ \A t : ~In(inbox[s], t)
        /\ \A s \in Sessions : Ordered(inbox[s])
        /\ \A c \in CallIds : ~InMap(c)
        /\ op.at = "idle" /\ ev.at = "idle" /\ sessions = {} /\ finals = {} /\ bound = {}
        /\ regSession \notin Sessions
    BY QueueEmpty, LibIAXAssumption DEF Init, LibInit, InMap, NoOp, Idle
  <1>3. \A s \in Sessions : ~Arriving(s) /\ \A t : ~Handles(s, t)
    BY <1>2 DEF Arriving, Handles
  <1>4. Queues /\ Referents /\ Additions /\ Handled /\ Owned /\ Served
    BY <1>2, <1>3 DEF Queues, Referents, Additions, Handled, Owned, Served
  <1>5. Silence
    BY <1>2, <1>3 DEF Silence, Does, HeldIsSilent
  <1> QED BY <1>1, <1>4, <1>5 DEF LinkInv

\* Steps that change no session, no call and no stream, and at which a thread
\* leaves its place only when no call of the map rests on it.
Quiet ==
    /\ UNCHANGED libvars /\ UNCHANGED <<calls, bound, missed, regSession>>
    /\ \/ op' = op
       \/ /\ op'.at \notin {"placed", "found", "sent"} /\ op.at # "placed"
          /\ op.at \in {"found", "sent"} => ~InMap(op.call)
    /\ \/ ev' = ev
       \/ /\ ev'.at \notin {"handle", "ring"} /\ ev.at # "ring"
          /\ ev.at = "handle" =>
               ev.type # "connect" /\ (ev.call \in CallIds => ~InMap(ev.call))

LEMMA QuietInv ==
    ASSUME LinkInv, Quiet, TypeOK'
    PROVE  LinkInv'
  <1>1. Queues /\ Referents /\ Additions /\ Handled /\ Owned /\ Served /\ Silence
    BY DEF LinkInv
  <1>2. UNCHANGED <<sessions, inbox, finals, peer, calls, bound, missed, regSession>>
    BY DEF Quiet, libvars
  <1>3. \A c \in CallIds : (InMap(c)' <=> InMap(c)) /\ calls'[c] = calls[c]
    BY <1>2 DEF InMap
  <1>4. \A s : /\ \A t : Handles(s, t)' => Handles(s, t)
               /\ Handles(s, "connect") => Handles(s, "connect")'
               /\ Arriving(s)' <=> Arriving(s)
               /\ HasCall(s)' <=> HasCall(s)
    BY <1>2, <1>3 DEF Quiet, Handles, Arriving, HasCall
  <1>5. \A c \in CallIds : InMap(c) =>
            /\ HasSent(c)' <=> HasSent(c)
            /\ Ending(c) <=> Ending(c)'
    BY <1>2, <1>3 DEF Quiet, HasSent, Ending
  <1>6. Queues'
    BY <1>1, <1>2 DEF Quiet, Queues
  <1>7. Referents'
    BY <1>1, <1>2, <1>3, <1>4, <1>5 DEF Referents
  <1>8. Additions' /\ Handled'
    BY <1>1, <1>2, <1>3, <1>4 DEF Quiet, Additions, Handled, InMap
  <1>9. Owned' /\ Served'
    BY <1>1, <1>2, <1>3, <1>4, <1>5 DEF Quiet, Owned, Served
  <1>10. Silence'
    BY <1>1, <1>2, <1>3, <1>4 DEF Quiet, Silence, NoRing, Does, HeldIsSilent, InMap
  <1> QED BY <1>6, <1>7, <1>8, <1>9, <1>10 DEF LinkInv

\* No event is in progress while the mutex is free.
LEMMA NoEvent ==
    ASSUME MutexFree
    PROVE  /\ ev.at # "handle" /\ ev.at # "ring"
           /\ \A s, t : ~Handles(s, t)
           /\ \A s : Arriving(s) <=> In(inbox[s], "connect")
  BY DEF MutexFree, Handles, Arriving

LEMMA PlaceCallInv ==
    ASSUME LinkInv, Reuse = FALSE, PlaceCall, TypeOK'
    PROVE  LinkInv'
  <1>1. Queues /\ Referents /\ Additions /\ Handled /\ Owned /\ Served /\ Silence
        /\ LibTypeOK /\ TypeOK
    BY TypeParts DEF LinkInv
  <1>2. PICK s \in Sessions, c \in UnusedIds :
           /\ FreeForCall(s)
           /\ OpenSession(s, "calling", <<>>)
           /\ op' = [at |-> "placed", call |-> c, sess |-> s]
           /\ missed' = missed \ {c}
    BY DEF PlaceCall
  <1>3. /\ UNCHANGED <<finals, calls, known, bound, ev, regSession>>
        /\ op.at = "idle" /\ MutexFree
    BY DEF PlaceCall, NoOp, regvars
  <1>4. c \in CallIds /\ ~InMap(c)
    BY DEF UnusedIds
  <1>5. /\ s \notin sessions /\ s \notin finals /\ s # regSession
        /\ \A d \in CallIds : InMap(d) => calls[d].sess # s
    BY <1>2 DEF FreeForCall, Addresses, OpenSession
  <1>6. /\ sessions' = sessions \cup {s}
        /\ inbox'[s] = <<>> /\ peer'[s] = "calling"
        /\ \A t \in Sessions \ {s} : inbox'[t] = inbox[t] /\ peer'[t] = peer[t]
    BY <1>1, <1>2 DEF OpenSession, LibTypeOK
  <1>7. /\ ~Arriving(s)'
        /\ \A t \in Sessions \ {s} : Arriving(t)' <=> Arriving(t)
        /\ ~Arriving(s)
        /\ \A t, e : ~Handles(t, e)' /\ ~Handles(t, e)
        /\ ev.at # "handle" /\ ev.at # "ring"
        /\ ev'.at # "handle" /\ ev'.at # "ring"
    BY <1>1, <1>3, <1>5, <1>6, NoEvent, QueueEmpty DEF Queues, Arriving, Handles
  <1>8. /\ \A d \in CallIds : InMap(d)' <=> InMap(d)
        /\ \A t : HasCall(t)' <=> HasCall(t)
        /\ \A d : ~HasSent(d) /\ ~HasSent(d)' /\ ~Ending(d) /\ ~Ending(d)'
    BY <1>2, <1>3, <1>7 DEF InMap, HasCall, HasSent, Ending
  <1>9. Queues'
    BY <1>1, <1>6, <1>7, QueueEmpty DEF Queues
  <1>10. \A d \in CallIds : InMap(d) => calls[d].sess \in Sessions
    BY <1>1, TypeParts, CallFields
  <1>11. Referents'
    BY <1>1, <1>2, <1>3, <1>4, <1>5, <1>6, <1>7, <1>8, <1>10 DEF Referents
  <1>12. Additions' /\ Handled'
    BY <1>1, <1>2, <1>3, <1>4, <1>5, <1>6, <1>7, <1>8
       DEF Additions, Handled, HasCall, InMap
  <1>13. Owned'
    BY <1>1, <1>2, <1>3, <1>6, <1>7, <1>8 DEF Owned, LibTypeOK
  <1>14. Served'
    BY <1>1, <1>2, <1>3, <1>4, <1>6, <1>8 DEF Served
  <1>15. Silence'
    <2>1. \A t \in Sessions \ {s} : NoRing(t) => NoRing(t)'
      BY <1>6, <1>7 DEF NoRing
    <2>2. HeldIsSilent'
      BY <1>1, <1>3, <1>8 DEF Silence, HeldIsSilent, InMap
    <2>3. op'.at = "placed"
      BY <1>2
    <2> QED BY <1>1, <1>3, <1>5, <1>7, <1>8, <1>10, <2>1, <2>2, <2>3
            DEF Silence, Does
  <1> QED BY <1>9, <1>11, <1>12, <1>13, <1>14, <1>15 DEF LinkInv

LEMMA PeerCallsInv ==
    ASSUME LinkInv, Reuse = FALSE, PeerCalls, TypeOK'
    PROVE  LinkInv'
  <1>1. Queues /\ Referents /\ Additions /\ Handled /\ Owned /\ Served /\ Silence
        /\ LibTypeOK /\ TypeOK
    BY TypeParts DEF LinkInv
  <1>2. PICK s \in Sessions : FreeForCall(s) /\ OpenSession(s, "called", <<"connect">>)
    BY DEF PeerCalls
  <1>3. UNCHANGED <<finals, calls, known, bound, missed, ev, op, regSession>> /\ MutexFree
    BY DEF PeerCalls, linkvars, regvars
  <1>4. /\ s \notin sessions /\ s \notin finals /\ s # regSession
        /\ \A d \in CallIds : InMap(d) => calls[d].sess # s
        /\ op.at = "placed" => op.sess # s
    BY <1>2 DEF FreeForCall, Addresses, OpenSession
  <1>5. /\ sessions' = sessions \cup {s}
        /\ inbox'[s] = <<"connect">> /\ peer'[s] = "called"
        /\ \A t \in Sessions \ {s} : inbox'[t] = inbox[t] /\ peer'[t] = peer[t]
    BY <1>1, <1>2 DEF OpenSession, LibTypeOK
  <1>6. /\ Arriving(s)'
        /\ \A t \in Sessions \ {s} : Arriving(t)' <=> Arriving(t)
        /\ \A t, e : ~Handles(t, e)' /\ ~Handles(t, e)
        /\ ev.at # "handle" /\ ev.at # "ring"
        /\ ev'.at # "handle" /\ ev'.at # "ring"
    BY <1>3, <1>5, NoEvent, QueueConnect DEF Arriving, Handles
  <1>7. /\ \A d \in CallIds : (InMap(d)' <=> InMap(d)) /\ (HasSent(d)' <=> HasSent(d))
                              /\ (Ending(d)' <=> Ending(d))
        /\ \A t : HasCall(t)' <=> HasCall(t)
    BY <1>3 DEF InMap, HasCall, HasSent, Ending
  <1>8. \A d \in CallIds : InMap(d) => calls[d].sess \in Sessions
    BY <1>1, TypeParts, CallFields
  <1>9. op.at = "placed" => op.sess \in Sessions
    BY <1>1, TypeParts, OpFields
  <1>10. Queues'
    BY <1>1, <1>5, <1>6, QueueConnect DEF Queues
  <1>11. Referents'
    BY <1>1, <1>3, <1>4, <1>5, <1>6, <1>7, <1>8 DEF Referents
  <1>12. Additions' /\ Handled'
    BY <1>1, <1>3, <1>4, <1>5, <1>6, <1>7, <1>9 DEF Additions, Handled, InMap
  <1>13. Owned'
    BY <1>1, <1>3, <1>5, <1>6, <1>7 DEF Owned, LibTypeOK
  <1>14. Served'
    BY <1>1, <1>3, <1>5, <1>7 DEF Served
  <1>15. Silence'
    <2>1. (\A t \in Sessions \ {s} : NoRing(t) => NoRing(t)') /\ NoRing(s)'
      BY <1>5, <1>6, QueueConnect DEF NoRing
    <2> QED BY <1>1, <1>3, <1>4, <1>6, <1>7, <1>8, <2>1, TypeParts, OpFields
            DEF Silence, Does, HeldIsSilent, InMap
  <1> QED BY <1>10, <1>11, <1>12, <1>13, <1>14, <1>15 DEF LinkInv

\* sendRegister, of the user or of the event thread.
LEMMA RegisterInv ==
    ASSUME LinkInv, Reuse = FALSE, Register \/ Refresh, TypeOK'
    PROVE  LinkInv'
  <1>1. Queues /\ Referents /\ Additions /\ Handled /\ Owned /\ Served /\ Silence
        /\ LibTypeOK /\ TypeOK
    BY TypeParts DEF LinkInv
  <1>2. PICK s \in Sessions : /\ FreeForRegister(s)
                              /\ ReplaceSession(regSession, s, "register")
                              /\ regSession' = s
    BY DEF Register, Refresh, sendRegister
  <1>3. /\ UNCHANGED <<finals, calls, bound, missed, op>>
        /\ MutexFree /\ MutexFree'
    BY DEF Register, Refresh, sendRegister, linkvars, MutexFree, Idle
  <1>4. /\ s \notin sessions \ {regSession} /\ s \notin finals
        /\ \A d \in CallIds : InMap(d) => calls[d].sess # s
        /\ op.at = "placed" => op.sess # s
    BY <1>2 DEF FreeForRegister, Addresses, ReplaceSession
  <1>5. /\ sessions' = (sessions \ {regSession}) \cup {s}
        /\ \A t \in Sessions : t \in {s, regSession} => inbox'[t] = <<>>
        /\ \A t \in Sessions : t \notin {s, regSession} =>
              inbox'[t] = inbox[t] /\ peer'[t] = peer[t]
        /\ peer'[s] = "register"
    BY <1>1, <1>2 DEF ReplaceSession, LibTypeOK
  <1>6. /\ \A t \in Sessions : Arriving(t) => t \in sessions \ finals /\ t # regSession
        /\ \A t \in Sessions : Arriving(t)' <=> Arriving(t)
        /\ \A t \in Sessions : Arriving(t) => t # s
        /\ \A t, e : ~Handles(t, e)' /\ ~Handles(t, e)
        /\ ev.at # "handle" /\ ev.at # "ring"
        /\ ev'.at # "handle" /\ ev'.at # "ring"
    <2>1. \A t \in Sessions : Arriving(t) => t \in sessions \ finals /\ t # regSession
      BY <1>1 DEF Referents
    <2>2. \A t \in Sessions : Arriving(t) => t # s
      BY <1>4, <2>1
    <2>3. /\ \A t, e : ~Handles(t, e)' /\ ~Handles(t, e)
          /\ ev.at # "handle" /\ ev.at # "ring" /\ ev'.at # "handle" /\ ev'.at # "ring"
      BY <1>3, NoEvent DEF MutexFree, Handles
    <2>4. \A t \in Sessions : Arriving(t)' <=> Arriving(t)
      BY <1>5, <2>1, <2>2, <2>3, QueueEmpty DEF Arriving
    <2> QED BY <2>1, <2>2, <2>3, <2>4
  <1>7. /\ \A d \in CallIds : (InMap(d)' <=> InMap(d)) /\ (HasSent(d)' <=> HasSent(d))
                              /\ (Ending(d)' <=> Ending(d))
        /\ \A t : HasCall(t)' <=> HasCall(t)
    BY <1>3, <1>6 DEF InMap, HasCall, HasSent, Ending
  <1>8. \A d \in CallIds : InMap(d) =>
           calls[d].sess \in Sessions /\ calls[d].sess \notin {s, regSession}
    BY <1>1, <1>4, TypeParts, CallFields DEF Referents
  <1>9. op.at = "placed" => op.sess \in Sessions /\ op.sess \notin {s, regSession}
    BY <1>1, <1>4, TypeParts, OpFields DEF Additions
  <1>10. Queues'
    BY <1>1, <1>5, <1>6, QueueEmpty DEF Queues
  <1>11. Referents'
    BY <1>1, <1>2, <1>3, <1>4, <1>5, <1>6, <1>7, <1>8 DEF Referents
  <1>12. Additions' /\ Handled'
    BY <1>1, <1>2, <1>3, <1>5, <1>6, <1>7, <1>9 DEF Additions, Handled, InMap
  <1>13. Owned'
    BY <1>1, <1>2, <1>3, <1>5, <1>6, <1>7 DEF Owned, LibTypeOK
  <1>14. Served'
    BY <1>1, <1>3, <1>5, <1>7, <1>8 DEF Served
  <1>15. Silence'
    <2>1. \A t \in Sessions : t \notin {s, regSession} /\ NoRing(t) => NoRing(t)'
      BY <1>5, <1>6 DEF NoRing
    <2> QED BY <1>1, <1>3, <1>6, <1>7, <1>8, <2>1, TypeParts, OpFields
            DEF Silence, Does, HeldIsSilent, InMap
  <1> QED BY <1>10, <1>11, <1>12, <1>13, <1>14, <1>15 DEF LinkInv

\* A session ends that no call needs: the registration's, or one whose final
\* frame was due.
LEMMA DroppedInv ==
    ASSUME LinkInv, TypeOK', NEW s, DestroySession(s), finals' = finals \ {s},
           UNCHANGED <<calls, bound, missed>>,
           s = regSession \/ (s \in finals /\ op' = op),
           \/ regSession' = regSession /\ s # regSession
           \/ regSession' = NoSession /\ s = regSession,
           op' = op \/ (op.at = "idle" /\ op'.at = "unregister"),
           ev.at # "ring", ev'.at \notin {"handle", "ring"},
           ev.at = "handle" => ev.type # "connect" /\ ev.call = NoCall
    PROVE  LinkInv'
  <1>1. Queues /\ Referents /\ Additions /\ Handled /\ Owned /\ Served /\ Silence
        /\ LibTypeOK /\ TypeOK /\ NoCall \notin CallIds
        /\ NoSession \notin Sessions /\ finals \subseteq Sessions
    BY TypeParts, LibIAXAssumption, IAXLinkAssumption DEF LinkInv, LibTypeOK
  <1>2. /\ sessions' = sessions \ {s}
        /\ \A t \in Sessions : t = s => inbox'[t] = <<>> /\ peer'[t] = "none"
        /\ \A t \in Sessions \ {s} : inbox'[t] = inbox[t] /\ peer'[t] = peer[t]
    BY <1>1 DEF DestroySession, LibTypeOK
  <1>3. /\ \A t \in Sessions : Arriving(t) => t \in sessions \ finals /\ t # s
        /\ \A t \in Sessions : Arriving(t)' <=> Arriving(t)
        /\ \A t, e : ~Handles(t, e)'
        /\ ev'.at # "handle" /\ ev'.at # "ring"
    <2>1. \A t \in Sessions : Arriving(t) => t \in sessions \ finals /\ t # s
      BY <1>1 DEF Referents
    <2> QED BY <1>2, <2>1, QueueEmpty DEF Arriving, Handles
  <1>4. /\ \A d \in CallIds : (InMap(d)' <=> InMap(d)) /\ (HasSent(d)' <=> HasSent(d))
                              /\ (Ending(d)' <=> Ending(d))
        /\ \A t : HasCall(t)' <=> HasCall(t)
    BY <1>1, <1>3 DEF InMap, HasCall, HasSent, Ending
  <1>5. \A d \in CallIds : InMap(d) =>
           calls[d].sess \in Sessions /\ (calls[d].sess = s => HasSent(d) \/ d \in missed)
    BY <1>1, TypeParts, CallFields DEF Referents
  <1>6. op.at = "placed" =>
           op.sess \in Sessions /\ (op.sess = s => op.call \in missed)
    BY <1>1, TypeParts, OpFields DEF Additions
  <1>7. Queues'
    BY <1>1, <1>2, <1>3, QueueEmpty DEF Queues
  <1>8. Referents'
    BY <1>1, <1>2, <1>3, <1>4, <1>5 DEF Referents
  <1>9. Additions' /\ Handled'
    BY <1>1, <1>2, <1>3, <1>4, <1>6 DEF Additions, Handled, InMap
  <1>10. Owned'
    BY <1>1, <1>2, <1>3, <1>4 DEF Owned, LibTypeOK
  <1>11. Served'
    BY <1>1, <1>2, <1>4, <1>5 DEF Served, Ending, HasSent
  <1>12. Silence'
    <2>1. \A t \in Sessions : NoRing(t) => NoRing(t)'
      BY <1>2, <1>3, QueueEmpty DEF NoRing
    <2> QED BY <1>1, <1>3, <1>4, <1>5, <2>1, TypeParts, OpFields
            DEF Silence, Does, HeldIsSilent, InMap
  <1> QED BY <1>7, <1>8, <1>9, <1>10, <1>11, <1>12 DEF LinkInv

LEMMA PlaceCallAddInv ==
    ASSUME LinkInv, PlaceCallAdd, TypeOK'
    PROVE  LinkInv'
  <1>1. Queues /\ Referents /\ Additions /\ Handled /\ Owned /\ Served /\ Silence
        /\ TypeOK /\ CallsTyped
    BY TypeParts DEF LinkInv
  <1>0. PICK c \in CallIds, s \in Sessions : c = op.call /\ s = op.sess
    BY <1>1, TypeParts, OpFields DEF PlaceCallAdd
  <1>2. op.at = "placed" /\ op'.at = "idle"
    BY DEF PlaceCallAdd, NoOp
  <1>3. UNCHANGED <<sessions, inbox, finals, peer, bound, missed, ev, regSession>>
    BY DEF PlaceCallAdd, libvars, regvars
  <1>4. calls' = [calls EXCEPT ![c] = [sess |-> s, conn |-> "progressing", state |-> "active"]]
    BY <1>0 DEF PlaceCallAdd
  <1>5. /\ ~InMap(c) /\ ~HasCall(s) /\ s # regSession /\ ~Arriving(s)
        /\ s \in sessions \ finals \/ c \in missed
        /\ ev.at = "ring" => ev.call # c
        /\ ev.at = "handle" => ev.call # c
    BY <1>0, <1>1, <1>2, TypeParts, IAXLinkAssumption DEF Additions, Handled
  <1>6. /\ InMap(c)'
        /\ calls'[c].sess = s /\ calls'[c].conn = "progressing" /\ calls'[c].state = "active"
        /\ \A d \in CallIds \ {c} : calls'[d] = calls[d] /\ (InMap(d)' <=> InMap(d))
    BY <1>1, <1>2, <1>4, AddedCall
  <1>7. /\ \A t : (Arriving(t)' <=> Arriving(t)) /\ \A e : Handles(t, e)' <=> Handles(t, e)
        /\ \A t : HasCall(t)' <=> HasCall(t) \/ t = s
        /\ \A d : ~HasSent(d) /\ ~HasSent(d)' /\ (Ending(d)' <=> Ending(d))
    BY <1>2, <1>3, <1>5, <1>6 DEF Arriving, Handles, HasCall, HasSent, Ending
  <1>8. Queues'
    BY <1>1, <1>3 DEF Queues
  <1>9. Referents'
    BY <1>1, <1>2, <1>3, <1>5, <1>6, <1>7 DEF Referents, HasCall
  <1>10. Additions' /\ Handled'
    BY <1>1, <1>2, <1>3, <1>5, <1>6, <1>7, TypeParts, EvFields
       DEF Additions, Handled, InMap
  <1>11. Owned'
    BY <1>0, <1>1, <1>2, <1>3, <1>7 DEF Owned
  <1>12. Served'
    BY <1>1, <1>3, <1>5, <1>6, <1>7 DEF Served
  <1>13. Silence'
    <2>1. \A t : NoRing(t)' <=> NoRing(t)
      BY <1>3, <1>7 DEF NoRing
    <2>2. HeldIsSilent'
      BY <1>1, <1>2, <1>3, <1>6 DEF Silence, HeldIsSilent, InMap, CallsTyped
    <2> QED BY <1>1, <1>2, <1>3, <1>6, <1>7, <2>1, <2>2 DEF Silence, Does
  <1> QED BY <1>8, <1>9, <1>10, <1>11, <1>12, <1>13 DEF LinkInv

LEMMA FindInv ==
    ASSUME LinkInv, NEW name \in Operations, Find(name), TypeOK'
    PROVE  LinkInv'
  <1>1. Queues /\ Referents /\ Additions /\ Handled /\ Owned /\ Served /\ Silence
        /\ TypeOK /\ CallsTyped
    BY TypeParts DEF LinkInv
  <1>2. op.at = "idle" /\ UNCHANGED libvars /\ UNCHANGED <<calls, missed, ev, regSession>>
    BY DEF Find, NoOp, regvars
  <1>3. PICK c \in CallIds :
           /\ Offered(name, c)
           /\ \/ /\ InMap(c)
                 /\ op' = [at |-> "found", call |-> c, name |-> name]
                 /\ bound' = CASE name \in {"answer", "offhold"} -> bound \cup {c}
                               [] name \in {"hangup", "onhold"}  -> bound \ {c}
                               [] OTHER                          -> bound
              \/ UNCHANGED <<op, bound>>
    BY DEF Find
  <1>4. CASE UNCHANGED <<op, bound>>
    BY <1>2, <1>4, QuietInv DEF Quiet
  <1>5. CASE /\ InMap(c)
             /\ op' = [at |-> "found", call |-> c, name |-> name]
             /\ bound' = CASE name \in {"answer", "offhold"} -> bound \cup {c}
                           [] name \in {"hangup", "onhold"}  -> bound \ {c}
                           [] OTHER                          -> bound
    <2>1. UNCHANGED <<sessions, inbox, finals, peer, calls, missed, ev, regSession>>
      BY <1>2 DEF libvars
    <2>2. op'.at = "found" /\ op'.call = c /\ op'.name = name
      BY <1>5
    <2>3. /\ name \in {"answer", "offhold"} => bound' = bound \cup {c}
          /\ name \in {"hangup", "onhold"} => bound' = bound \ {c}
          /\ name = "refuse" => bound' = bound
      BY <1>5
    <2>4. /\ \A t : (Arriving(t)' <=> Arriving(t)) /\ (HasCall(t)' <=> HasCall(t))
                    /\ \A e : Handles(t, e)' <=> Handles(t, e)
          /\ \A d \in CallIds : InMap(d)' <=> InMap(d)
          /\ \A d : ~HasSent(d) /\ ~HasSent(d)' /\ (Ending(d)' <=> Ending(d))
      BY <1>2, <2>1, <2>2 DEF Arriving, Handles, HasCall, HasSent, Ending, InMap
    <2>5. \A t : NoRing(t)' <=> NoRing(t)
      BY <2>1, <2>4 DEF NoRing
    <2>6. Queues' /\ Referents' /\ Owned' /\ Served'
      BY <1>1, <1>2, <2>1, <2>2, <2>4 DEF Queues, Referents, Owned, Served
    <2>7. Additions' /\ Handled'
      BY <1>1, <1>2, <1>5, <2>1, <2>2, <2>4, TypeParts, EvFields
         DEF Additions, Handled, InMap
    <2>8. Silence'
      <3>1. HeldIsSilent'
        <4>1. \A d \in bound : ~(InMap(d) /\ calls[d].state = "hold")
          BY <1>1, <1>2 DEF Silence, HeldIsSilent
        <4>2. name = "answer" => calls[c].state = "inactive"
          BY <1>3, <1>5 DEF Offered
        <4> QED BY <2>1, <2>2, <2>3, <4>1, <4>2 DEF HeldIsSilent, InMap, Operations
      <3>2. name = "onhold" => calls[c].conn = "connected" /\ c \notin bound'
        BY <1>3, <1>5, <2>3 DEF Offered
      <3>3. name = "answer" => NoRing(calls[c].sess)
        <4> SUFFICES ASSUME name = "answer" PROVE NoRing(calls[c].sess)
          OBVIOUS
        <4>1. calls[c].state = "inactive"
          BY <1>3, <1>5 DEF Offered
        <4> QED BY <1>1, <1>5, <4>1 DEF Silence
      <3> QED BY <1>1, <2>1, <2>2, <2>4, <2>5, <3>1, <3>2, <3>3 DEF Silence, Does
    <2> QED BY <2>6, <2>7, <2>8 DEF LinkInv
  <1> QED BY <1>3, <1>4, <1>5

LEMMA SendInv ==
    ASSUME LinkInv, Send, TypeOK'
    PROVE  LinkInv'
  <1>1. Queues /\ Referents /\ Additions /\ Handled /\ Owned /\ Served /\ Silence
        /\ TypeOK /\ CallsTyped /\ LibTypeOK /\ OpTyped
    BY TypeParts DEF LinkInv
  <1>0. PICK c \in CallIds : c = op.call
    BY <1>1, SendCases
  <1>9. PICK s : s = calls[c].sess
    OBVIOUS
  <1>2. /\ op.at = "found" /\ MutexFree
        /\ UNCHANGED <<calls, bound, missed, ev, regSession>>
    BY <1>1, SendCases DEF regvars
  <1>3. CASE UNCHANGED libvars /\ UNCHANGED op
    BY <1>2, <1>3, QuietInv DEF Quiet
  <1>4. CASE ~InMap(c) /\ op' = NoOp /\ UNCHANGED libvars
    BY <1>0, <1>2, <1>4, QuietInv DEF Quiet, NoOp
  <1>5. CASE /\ InMap(c) /\ op' = [op EXCEPT !.at = "sent"]
             /\ \/ s \notin sessions /\ UNCHANGED libvars
                \/ op.name \in {"hangup", "refuse"} /\ SendFinal(s)
                \/ /\ op.name = "answer"
                   /\ peer' = [peer EXCEPT ![s] = IF @ = "called" THEN "talking" ELSE @]
                   /\ UNCHANGED <<sessions, inbox, finals>>
                \/ op.name \in {"onhold", "offhold"} /\ UNCHANGED libvars
    <2>1. op'.at = "sent" /\ op'.call = c /\ op'.name = op.name /\ op.name \in Operations
      BY <1>0, <1>1, <1>2, <1>5, OpSent, OpFields
    <2>2. s \in Sessions /\ s # regSession /\ ~Arriving(s)
          /\ \A d \in CallIds \ {c} : InMap(d) => calls[d].sess # s
      BY <1>1, <1>2, <1>5, <1>9, CallFields DEF Referents
    <2>3. CASE /\ op.name \in {"hangup", "refuse"}
               /\ \/ finals' = finals \cup {s}
                  \/ s \notin sessions' /\ finals' = finals
               /\ \/ DestroySession(s) \/ UNCHANGED <<sessions, inbox, peer>>
      <3>1. /\ sessions' \in {sessions, sessions \ {s}}
            /\ \A t \in Sessions \ {s} : inbox'[t] = inbox[t] /\ peer'[t] = peer[t]
            /\ \/ inbox'[s] = <<>> /\ peer'[s] = "none" /\ s \notin sessions'
               \/ inbox'[s] = inbox[s] /\ peer'[s] = peer[s] /\ sessions' = sessions
        BY <1>1, <2>2, <2>3 DEF DestroySession, LibTypeOK
      <3>2. /\ \A t, e : ~Handles(t, e) /\ ~Handles(t, e)'
            /\ ev.at # "handle" /\ ev.at # "ring"
            /\ ev'.at # "handle" /\ ev'.at # "ring"
            /\ \A t \in Sessions : Arriving(t)' <=> Arriving(t)
        BY <1>2, <2>2, <3>1, NoEvent, QueueEmpty DEF Arriving, Handles
      <3>3. /\ \A d \in CallIds : InMap(d)' <=> InMap(d)
            /\ \A t : HasCall(t)' <=> HasCall(t)
            /\ HasCall(s)
            /\ \A d : ~HasSent(d) /\ (HasSent(d)' <=> d = c) /\ (Ending(d)' <=> d = c)
        BY <1>2, <1>5, <1>9, <2>1, <2>3, <3>2 DEF InMap, HasCall, HasSent, Ending
      <3>4. Queues'
        BY <1>1, <3>1, <3>2, QueueEmpty DEF Queues
      <3>5. Referents'
        BY <1>1, <1>2, <1>9, <2>2, <2>3, <3>1, <3>2, <3>3, CallFields DEF Referents
      <3>6. Additions' /\ Handled'
        BY <1>2, <2>1, <3>2 DEF Additions, Handled
      <3>7. Owned'
        BY <1>1, <1>2, <2>3, <3>1, <3>2, <3>3 DEF Owned, LibTypeOK
      <3>8. Served'
        BY <1>1, <1>2, <1>9, <2>2, <3>1, <3>3, CallFields DEF Served, Ending
      <3>9. Silence'
        <4>1. \A t \in Sessions : NoRing(t) => NoRing(t)'
          BY <3>1, <3>2, QueueEmpty DEF NoRing
        <4>2. \A d \in CallIds : InMap(d) => calls[d].sess \in Sessions
          BY <1>1, CallFields
        <4>3. HeldIsSilent'
          BY <1>0, <1>1, <1>2, <2>1, <2>3, <3>3 DEF Silence, HeldIsSilent, InMap
        <4> QED BY <1>1, <1>2, <2>1, <2>3, <3>2, <3>3, <4>1, <4>2, <4>3 DEF Silence, Does
      <3> QED BY <3>4, <3>5, <3>6, <3>7, <3>8, <3>9 DEF LinkInv
    <2>4. CASE /\ op.name \notin {"hangup", "refuse"} /\ UNCHANGED <<sessions, inbox, finals>>
               /\ peer' = [peer EXCEPT ![s] = IF @ = "called" THEN "talking" ELSE @]
                  \/ peer' = peer
      <3>1. /\ \A t \in Sessions \ {s} : peer'[t] = peer[t]
            /\ peer'[s] = peer[s] \/ (peer[s] = "called" /\ peer'[s] = "talking")
        BY <1>1, <2>2, <2>4 DEF LibTypeOK
      <3>2. /\ \A t, e : Handles(t, e)' <=> Handles(t, e)
            /\ ev.at # "handle" /\ ev.at # "ring"
            /\ ev'.at # "handle" /\ ev'.at # "ring"
            /\ \A t \in Sessions : Arriving(t)' <=> Arriving(t)
        BY <1>2, <2>4, NoEvent DEF Arriving, Handles
      <3>3. /\ \A d \in CallIds : InMap(d)' <=> InMap(d)
            /\ \A t : HasCall(t)' <=> HasCall(t)
            /\ HasCall(s)
            /\ \A d : ~HasSent(d) /\ ~HasSent(d)' /\ (Ending(d)' <=> Ending(d))
        BY <1>2, <1>5, <1>9, <2>1, <2>4, <3>2 DEF InMap, HasCall, HasSent, Ending
      <3>4. Queues'
        BY <1>1, <2>4, <3>1, <3>2 DEF Queues
      <3>5. Referents' /\ Served'
        BY <1>1, <1>2, <2>2, <2>4, <3>1, <3>2, <3>3, CallFields DEF Referents, Served
      <3>6. Additions' /\ Handled'
        BY <1>2, <2>1, <3>2 DEF Additions, Handled
      <3>7. Owned'
        BY <1>1, <1>2, <2>4, <3>1, <3>2, <3>3 DEF Owned, LibTypeOK
      <3>8. Silence'
        <4>1. \A t \in Sessions : NoRing(t) => NoRing(t)'
          BY <2>4, <3>1, <3>2 DEF NoRing
        <4>2. \A d \in CallIds : InMap(d) => calls[d].sess \in Sessions
          BY <1>1, CallFields
        <4>3. HeldIsSilent'
          BY <1>0, <1>1, <1>2, <2>1, <3>3 DEF Silence, HeldIsSilent, InMap
        <4> QED BY <1>0, <1>1, <1>2, <2>1, <3>2, <3>3, <4>1, <4>2, <4>3 DEF Silence, Does, InMap
      <3> QED BY <3>4, <3>5, <3>6, <3>7, <3>8 DEF LinkInv
    <2>5. CASE s \notin sessions /\ UNCHANGED libvars
      <3>1. UNCHANGED <<sessions, inbox, finals, peer>>
        BY <2>5 DEF libvars
      <3> QED BY <2>3, <2>4, <2>5, <3>1
    <2> QED BY <1>5, <2>3, <2>4, <2>5 DEF SendFinal, libvars
  <1> QED BY <1>0, <1>1, <1>3, <1>4, <1>5, <1>9, SendCases

LEMMA FinishInv ==
    ASSUME LinkInv, Finish, TypeOK'
    PROVE  LinkInv'
  <1>1. Queues /\ Referents /\ Additions /\ Handled /\ Owned /\ Served /\ Silence
        /\ TypeOK /\ CallsTyped
    BY TypeParts DEF LinkInv
  <1>2. PICK c \in CallIds : c = op.call
    BY <1>1, FinishCases
  <1>3. op.at = "sent" /\ UNCHANGED libvars /\ UNCHANGED <<bound, missed, ev, regSession>>
    BY <1>1, FinishCases DEF regvars
  <1>4. UNCHANGED <<sessions, inbox, finals, peer>>
    BY <1>3 DEF libvars
  <1>5. /\ \A t : (Arriving(t)' <=> Arriving(t)) /\ \A e : Handles(t, e)' <=> Handles(t, e)
        /\ \A t : NoRing(t)' <=> NoRing(t)
    BY <1>3, <1>4 DEF Arriving, Handles, NoRing
  <1>6. CASE UNCHANGED <<calls, op>>
    BY <1>3, <1>6, QuietInv DEF Quiet
  <1>7. CASE ~InMap(c) /\ UNCHANGED calls /\ op' = NoOp
    BY <1>2, <1>3, <1>7, QuietInv DEF Quiet, NoOp
  <1>8. CASE /\ InMap(c) /\ op' = NoOp /\ op.name \in {"hangup", "refuse"}
             /\ calls' = [calls EXCEPT ![c] = Absent]
    <2>1. op'.at = "idle"
      BY <1>8 DEF NoOp
    <2>2. /\ ~InMap(c)'
          /\ \A d \in CallIds \ {c} : calls'[d] = calls[d] /\ (InMap(d)' <=> InMap(d))
      BY <1>1, <1>8, RemovedCall
    <2>3. HasSent(c) /\ \A d \in CallIds \ {c} : ~HasSent(d)
      BY <1>2, <1>3, <1>8 DEF HasSent
    <2>4. /\ \A d \in CallIds : ~HasSent(d)'
          /\ \A d \in CallIds \ {c} : Ending(d)' <=> Ending(d)
      BY <1>2, <1>3, <2>1 DEF HasSent, Ending
    <2>5. calls[c].sess \in finals \/ calls[c].sess \notin sessions
      BY <1>1, <1>8, <2>3 DEF Referents
    <2>6. \A t : /\ HasCall(t) => HasCall(t)' \/ t = calls[c].sess
                 /\ HasCall(t)' => HasCall(t)
      BY <2>2 DEF HasCall
    <2>7. Queues'
      BY <1>1, <1>3, <1>4 DEF Queues
    <2>8. Referents'
      BY <1>1, <1>3, <1>4, <1>5, <2>2, <2>3, <2>4 DEF Referents
    <2>9. Additions' /\ Handled'
      BY <1>1, <1>3, <2>1, <2>2, TypeParts, EvFields DEF Additions, Handled, InMap
    <2>10. Owned'
      BY <1>1, <1>3, <1>4, <1>5, <2>5, <2>6 DEF Owned
    <2>11. Served'
      BY <1>1, <1>3, <1>4, <2>2, <2>4 DEF Served
    <2>12. Silence'
      <3>1. HeldIsSilent'
        BY <1>1, <1>2, <1>3, <1>8, <2>2 DEF Silence, HeldIsSilent, CallsTyped
      <3> QED BY <1>1, <1>5, <2>1, <2>2, <3>1 DEF Silence, Does
    <2> QED BY <2>7, <2>8, <2>9, <2>10, <2>11, <2>12 DEF LinkInv
  <1>9. CASE /\ InMap(c) /\ op' = NoOp /\ op.name \in {"answer", "onhold", "offhold"}
             /\ calls' = [calls EXCEPT ![c].state =
                             IF op.name = "onhold" THEN "hold" ELSE "active",
                                       ![c].conn =
                             IF op.name = "answer" THEN "connected" ELSE @]
    <2>1. op'.at = "idle"
      BY <1>9 DEF NoOp
    <2>2. PICK st, cn : /\ st = (IF op.name = "onhold" THEN "hold" ELSE "active")
                        /\ cn = (IF op.name = "answer" THEN "connected" ELSE calls[c].conn)
      OBVIOUS
    <2>3. st \in {"inactive", "active", "hold"} /\ cn \in {"progressing", "ringing", "connected"}
      BY <1>1, <1>9, <2>2, CallFields
    <2>4. calls' = [calls EXCEPT ![c].state = st, ![c].conn = cn]
      BY <1>9, <2>2
    <2>5. /\ calls'[c].sess = calls[c].sess /\ calls'[c].state = st /\ calls'[c].conn = cn
          /\ \A d \in CallIds : InMap(d)' <=> InMap(d)
          /\ \A d \in CallIds \ {c} : calls'[d] = calls[d]
      BY <1>1, <1>9, <2>3, <2>4, ChangedCall
    <2>6. /\ \A d \in CallIds : ~HasSent(d) /\ ~HasSent(d)' /\ (Ending(d)' <=> Ending(d))
          /\ \A d \in CallIds : calls'[d].sess = calls[d].sess
          /\ \A t : HasCall(t)' <=> HasCall(t)
      BY <1>3, <1>9, <2>1, <2>5 DEF HasSent, Ending, HasCall
    <2>7. Queues'
      BY <1>1, <1>3, <1>4 DEF Queues
    <2>8. Referents' /\ Served'
      BY <1>1, <1>3, <1>4, <1>5, <2>5, <2>6 DEF Referents, Served
    <2>9. Additions' /\ Handled'
      BY <1>1, <1>3, <2>1, <2>5, <2>6, TypeParts, EvFields DEF Additions, Handled, InMap
    <2>10. Owned'
      BY <1>1, <1>3, <1>4, <1>5, <2>1, <2>6 DEF Owned
    <2>11. Silence'
      <3>1. cn = "connected" \/ st # "active" => NoRing(calls[c].sess)
        BY <1>1, <1>2, <1>3, <1>9, <2>2 DEF Silence, Does
      <3>2. st = "hold" => cn = "connected" /\ c \notin bound
        BY <1>1, <1>2, <1>3, <1>9, <2>2 DEF Silence, Does
      <3>3. HeldIsSilent'
        BY <1>1, <1>2, <1>3, <2>5, <3>2 DEF Silence, HeldIsSilent, CallsTyped
      <3> QED BY <1>1, <1>5, <2>1, <2>5, <3>1, <3>2, <3>3 DEF Silence, Does
    <2> QED BY <2>7, <2>8, <2>9, <2>10, <2>11 DEF LinkInv
  <1>10. CASE ~InMap(c) /\ calls' = [calls EXCEPT ![c] = Absent] /\ op' = NoOp
    <2>1. UNCHANGED calls
      BY <1>1, <1>10 DEF CallsTyped, InMap
    <2> QED BY <1>7, <1>10, <2>1
  <1> QED BY <1>1, <1>2, <1>6, <1>7, <1>8, <1>9, <1>10, FinishCases

LEMMA GetEventInv ==
    ASSUME LinkInv, GetEvent, TypeOK'
    PROVE  LinkInv'
  <1>1. Queues /\ Referents /\ Additions /\ Handled /\ Owned /\ Served /\ Silence
        /\ TypeOK /\ CallsTyped /\ LibTypeOK /\ NoCall \notin CallIds
    BY TypeParts, IAXLinkAssumption DEF LinkInv
  <1>2. PICK s \in Sessions, type \in EventTypes :
           /\ TakeEvent(s, type)
           /\ \E c \in IF CallsOf(s) = {} THEN {NoCall} ELSE CallsOf(s) :
                ev' = [at |-> "handle", sess |-> s, type |-> type, call |-> c]
           /\ missed' = IF /\ op.at = "placed" /\ op.sess = s
                           /\ type \in {"hangup", "reject"}
                        THEN missed \cup {op.call} ELSE missed
    BY DEF GetEvent
  <1>3. PICK k : /\ ev' = [at |-> "handle", sess |-> s, type |-> type, call |-> k]
                 /\ k \in CallIds => InMap(k) /\ calls[k].sess = s
                 /\ \A d \in CallIds : InMap(d) /\ calls[d].sess = s => k \in CallIds
    BY <1>1, <1>2 DEF CallsOf
  <1>4. /\ ev'.at = "handle" /\ ev'.sess = s /\ ev'.type = type /\ ev'.call = k
        /\ ev.at = "idle" /\ UNCHANGED <<calls, bound, op, regSession>>
        /\ inbox[s] # <<>> /\ type = Head(inbox[s]) /\ UNCHANGED finals
    BY <1>2, <1>3 DEF GetEvent, Idle, regvars, TakeEvent
  <1>5. /\ \A e : In(Tail(inbox[s]), e) => In(inbox[s], e)
        /\ In(inbox[s], type) /\ Ordered(Tail(inbox[s]))
        /\ ~In(Tail(inbox[s]), "connect")
        /\ type = "answer" => ~In(Tail(inbox[s]), "ringa")
        /\ In(inbox[s], "connect") => type = "connect"
    <2>1. inbox[s] \in Seq(EventTypes) /\ Ordered(inbox[s])
      BY <1>1 DEF LibTypeOK, Queues
    <2>2. In(inbox[s], "connect") => type = "connect"
      BY <1>4, <2>1, QueueHead
    <2> QED BY <1>4, <2>1, <2>2, QueueTail
  <1>6. s \in sessions
    BY <1>1, <1>4 DEF Queues
  <1>7. /\ sessions' \subseteq sessions
        /\ \A t \in Sessions \ {s} : /\ inbox'[t] = inbox[t] /\ peer'[t] = peer[t]
                                     /\ t \in sessions' <=> t \in sessions
        /\ \/ /\ inbox'[s] = <<>> /\ peer'[s] = "none" /\ s \notin sessions'
              /\ type \in {"hangup", "reject"}
           \/ /\ inbox'[s] = Tail(inbox[s]) /\ peer'[s] = peer[s] /\ s \in sessions'
              /\ type \notin {"hangup", "reject"}
    BY <1>1, <1>2, <1>6 DEF TakeEvent, DestroySession, LibTypeOK
  <1>8. /\ \A t \in Sessions : \A e : In(inbox'[t], e) => In(inbox[t], e)
        /\ \A t, e : ~Handles(t, e)
        /\ \A t, e : Handles(t, e)' <=> t = s /\ e = type
        /\ ~In(inbox'[s], "connect")
    BY <1>4, <1>5, <1>7, QueueEmpty DEF Handles
  <1>9. \A t \in Sessions : Arriving(t)' <=> Arriving(t)
    BY <1>4, <1>5, <1>7, <1>8 DEF Arriving
  <1>10. /\ \A d \in CallIds : (InMap(d)' <=> InMap(d)) /\ (HasSent(d)' <=> HasSent(d))
                               /\ (Ending(d) => Ending(d)')
         /\ \A t : HasCall(t)' <=> HasCall(t)
    BY <1>4 DEF InMap, HasCall, HasSent, Ending
  <1>11. \A d \in CallIds : InMap(d) => calls[d].sess \in Sessions
    BY <1>1, CallFields
  <1>12. Queues'
    BY <1>1, <1>4, <1>5, <1>7, <1>8, QueueEmpty DEF Queues
  <1>13. Referents'
    <2>1. \A t \in Sessions : Arriving(t)' => t \in sessions' \ finals
      BY <1>1, <1>4, <1>7, <1>8, <1>9 DEF Referents, Arriving
    <2>2. missed \subseteq missed'
      BY <1>2
    <2>3. regSession \in Sessions => peer'[regSession] # "calling"
      BY <1>1, <1>7 DEF Referents
    <2> QED BY <1>1, <1>4, <1>7, <1>9, <1>10, <1>11, <2>1, <2>2, <2>3 DEF Referents
  <1>14. Additions'
    <2>1. op.at = "placed" => op.sess \in Sessions /\ op.call \in CallIds
      BY <1>1, TypeParts, OpFields
    <2>2. op.at = "placed" => op.sess \in sessions' \ finals \/ op.call \in missed'
      BY <1>1, <1>2, <1>7, <2>1 DEF Additions
    <2> QED BY <1>1, <1>4, <1>9, <1>10, <2>1, <2>2 DEF Additions, InMap
  <1>15. Handled'
    <2>1. k \in CallIds => type # "connect"
      <3> SUFFICES ASSUME k \in CallIds, type = "connect" PROVE FALSE
        OBVIOUS
      <3>1. Arriving(s) /\ InMap(k) /\ calls[k].sess = s
        BY <1>3, <1>5 DEF Arriving
      <3> QED BY <1>1, <3>1 DEF Referents
    <2>2. k # NoCall => k \in CallIds
      BY <1>1, <1>2, <1>4 DEF CallsOf
    <2>3. op.at = "placed" => ~InMap(op.call)
      BY <1>1 DEF Additions
    <2> QED BY <1>3, <1>4, <2>1, <2>2, <2>3 DEF Handled, InMap
  <1>16. Owned'
    BY <1>1, <1>4, <1>7, <1>9, <1>10 DEF Owned, LibTypeOK
  <1>17. Served'
    <2> SUFFICES ASSUME NEW d \in CallIds, InMap(d)', ~Ending(d)', d \notin missed'
                 PROVE  calls'[d].sess \in sessions'
      BY DEF Served
    <2>1. InMap(d) /\ ~Ending(d) /\ d \notin missed
      BY <1>2, <1>10
    <2>2. calls[d].sess \in sessions
      BY <1>1, <2>1 DEF Served
    <2>3. CASE calls[d].sess # s
      BY <1>4, <1>7, <1>11, <2>1, <2>2, <2>3
    <2>4. CASE calls[d].sess = s
      <3>1. k = d
        BY <1>1, <1>3, <2>1, <2>4 DEF Referents
      <3> QED BY <1>4, <1>7, <2>4, <3>1 DEF Ending
    <2> QED BY <2>3, <2>4
  <1>18. Silence'
    <2>1. \A t \in Sessions : NoRing(t) => NoRing(t)'
      BY <1>5, <1>7, <1>8 DEF NoRing
    <2>2. \A t \in Sessions : Handles(t, "answer")' => NoRing(t)'
      BY <1>1, <1>5, <1>7, <1>8, QueueEmpty DEF NoRing, Queues
    <2>3. HeldIsSilent'
      BY <1>1, <1>4 DEF Silence, HeldIsSilent, InMap
    <2> QED BY <1>1, <1>4, <1>9, <1>10, <1>11, <2>1, <2>2, <2>3, TypeParts, OpFields
            DEF Silence, Does, InMap
  <1> QED BY <1>12, <1>13, <1>14, <1>15, <1>16, <1>17, <1>18 DEF LinkInv

LEMMA HandleCallEventInv ==
    ASSUME LinkInv, iaxHandleCallEvent, TypeOK'
    PROVE  LinkInv'
  <1>1. Queues /\ Referents /\ Additions /\ Handled /\ Owned /\ Served /\ Silence
        /\ TypeOK /\ CallsTyped
    BY TypeParts DEF LinkInv
  <1>2. PICK c \in CallIds : c = ev.call
    BY <1>1, EventCases
  <1>3. /\ ev.at = "handle" /\ ev.call # NoCall
        /\ UNCHANGED libvars /\ UNCHANGED <<missed, op, regSession>>
    BY <1>1, EventCases DEF regvars
  <1>4. CASE UNCHANGED <<calls, bound, ev>>
    BY <1>3, <1>4, QuietInv DEF Quiet
  <1>5. CASE ev' = Idle
    <2>1. UNCHANGED <<sessions, inbox, finals, peer>> /\ ev'.at = "idle"
      BY <1>3, <1>5 DEF libvars, Idle
    <2>2. ev.type # "connect" /\ (InMap(c) => calls[c].sess = ev.sess)
      BY <1>1, <1>2, <1>3 DEF Handled
    <2>3. /\ \A d \in CallIds \ {c} : calls'[d] = calls[d] /\ (InMap(d)' <=> InMap(d))
          /\ bound' \subseteq bound \cup {c}
          /\ InMap(c)' =>
               /\ InMap(c) /\ calls'[c].sess = calls[c].sess
               /\ \/ calls'[c] = calls[c] /\ bound' \subseteq bound
                  \/ /\ ev.type = "answer" /\ calls[c].conn # "connected"
                     /\ calls'[c].conn = "connected"
                     /\ calls'[c].state = "active"
                  \/ /\ ev.type = "ringa" /\ calls'[c].conn = "ringing"
                     /\ calls'[c].state = calls[c].state
                     /\ bound' \subseteq bound
          /\ ~InMap(c)' /\ InMap(c) => ev.type \in {"hangup", "reject", "busy"}
          /\ InMap(c)' => ev.type \notin {"hangup", "reject", "busy"}
      BY <1>1, <1>2, <1>5, EventCalls
    <2>13. bound' \subseteq CallIds
      BY <1>1, <2>3 DEF CallsTyped
    <2>4. /\ \A t : Arriving(t)' <=> Arriving(t)
          /\ \A t, e : ~Handles(t, e)'
      BY <1>3, <2>1, <2>2 DEF Arriving, Handles
    <2>5. \A d \in CallIds : /\ InMap(d)' => InMap(d) /\ calls'[d].sess = calls[d].sess
                             /\ HasSent(d)' <=> HasSent(d)
                             /\ InMap(d)' /\ Ending(d) => Ending(d)'
      BY <1>2, <1>3, <2>3 DEF HasSent, Ending
    <2>6. \A t \in Sessions : NoRing(t) => NoRing(t)'
      BY <2>1, <2>4 DEF NoRing
    <2>7. Queues'
      BY <1>1, <2>1 DEF Queues
    <2>8. Referents'
      BY <1>1, <1>3, <2>1, <2>4, <2>5 DEF Referents
    <2>9. Additions' /\ Handled'
      <3>1. op.at = "placed" => ~HasCall(op.sess)'
        BY <1>1, <1>3, <2>5 DEF Additions, HasCall
      <3> QED BY <1>1, <1>3, <2>1, <2>4, <2>5, <3>1, TypeParts, OpFields
              DEF Additions, Handled, InMap
    <2>10. Owned'
      <3> SUFFICES ASSUME NEW t \in sessions, HasCall(t)
                   PROVE  HasCall(t)' \/ peer[t] = "busy"
        BY <1>1, <1>3, <2>1, <2>4 DEF Owned
      <3>1. PICK d \in CallIds : InMap(d) /\ calls[d].sess = t
        BY DEF HasCall
      <3>2. CASE InMap(d)'
        BY <2>5, <3>1, <3>2 DEF HasCall
      <3>3. CASE ~InMap(d)'
        <4>1. d = c /\ ev.type \in {"hangup", "reject", "busy"} /\ t = ev.sess
          BY <2>2, <2>3, <3>1, <3>3
        <4> QED BY <1>1, <1>3, <4>1 DEF Queues
      <3> QED BY <3>2, <3>3
    <2>11. Served'
      BY <1>1, <1>3, <2>1, <2>5 DEF Served
    <2>12. Silence'
      <3>1. /\ ev.type = "answer" => NoRing(ev.sess)
            /\ ev.type = "ringa" => ~NoRing(ev.sess)
        BY <1>1, <1>3, TypeParts, EvFields DEF Silence, NoRing, Handles
      <3>2. ASSUME NEW d \in CallIds, InMap(d)', NEW t, t = calls'[d].sess
            PROVE  /\ calls'[d].conn = "connected" \/ calls'[d].state # "active"
                          => NoRing(t)'
                   /\ calls'[d].state = "hold" => calls'[d].conn = "connected"
        <4>1. InMap(d) /\ calls'[d].sess = calls[d].sess /\ calls[d].sess \in Sessions
          BY <1>1, <2>5, <3>2, CallFields
        <4>2. CASE calls'[d] = calls[d]
          <5>1. calls[d].conn = "connected" \/ calls[d].state # "active"
                   => NoRing(calls[d].sess)
            BY <1>1, <4>1 DEF Silence
          <5>2. NoRing(calls[d].sess) => NoRing(t)'
            BY <2>6, <3>2, <4>1
          <5> QED BY <1>1, <4>1, <4>2, <5>1, <5>2 DEF Silence
        <4>3. CASE d = c /\ calls'[c] # calls[c]
          <5>1. calls[c].sess = ev.sess
            BY <2>2, <4>1, <4>3
          <5>2. NoRing(ev.sess) => NoRing(t)'
            BY <2>6, <3>2, <4>1, <4>3, <5>1
          <5> QED BY <1>1, <2>3, <3>1, <3>2, <4>1, <4>3, <5>1, <5>2 DEF Silence
        <4> QED BY <2>3, <4>2, <4>3
      <3>3. Does({"onhold"})' /\ InMap(op.call)' =>
              calls'[op.call].conn = "connected" /\ op.call \notin bound'
        <4> SUFFICES ASSUME NEW d \in CallIds, d = op.call, Does({"onhold"}), InMap(d)'
                     PROVE  calls'[d].conn = "connected" /\ d \notin bound'
          BY <1>1, <1>3, TypeParts, OpFields DEF Does, InMap
        <4>1. InMap(d) /\ calls[d].conn = "connected" /\ d \notin bound
              /\ NoRing(calls[d].sess)
          BY <1>1, <2>5 DEF Silence
        <4> QED BY <2>2, <2>3, <3>1, <4>1
      <3>4. ASSUME NEW d \in CallIds, d = op.call, Does({"answer"}), InMap(d)',
                   NEW t, t = calls'[d].sess
            PROVE  NoRing(t)'
        <4>1. InMap(d) /\ NoRing(calls[d].sess) /\ calls'[d].sess = calls[d].sess
          BY <1>1, <2>5, <3>4 DEF Silence
        <4> QED BY <1>1, <2>6, <3>4, <4>1, CallFields
      <3>5. HeldIsSilent'
        <4> SUFFICES ASSUME NEW d \in bound', d \in CallIds, InMap(d)',
                            calls'[d].state = "hold"
                     PROVE  op.at \in {"found", "sent"} /\ op.call = d /\ op.name = "offhold"
          BY <1>3, <2>13 DEF HeldIsSilent
        <4>1. calls[d].state = "hold" /\ InMap(d) /\ d \in bound
          BY <2>3
        <4> QED BY <1>1, <4>1 DEF Silence, HeldIsSilent
      <3>6. (Does({"answer"}) /\ InMap(op.call) => NoRing(calls[op.call].sess))'
        BY <1>1, <1>3, <3>4, TypeParts, OpFields DEF Does, InMap
      <3>7. (Does({"onhold"}) /\ InMap(op.call) =>
               calls[op.call].conn = "connected" /\ op.call \notin bound)'
        BY <1>3, <3>3 DEF Does
      <3>8. (\A d \in CallIds : InMap(d) =>
               /\ calls[d].conn = "connected" \/ calls[d].state # "active"
                      => NoRing(calls[d].sess)
               /\ calls[d].state = "hold" => calls[d].conn = "connected")'
        BY <3>2
      <3> QED BY <1>1, <2>4, <2>6, <3>5, <3>6, <3>7, <3>8 DEF Silence
    <2> QED BY <2>7, <2>8, <2>9, <2>10, <2>11, <2>12 DEF LinkInv
  <1> QED BY <1>1, <1>4, <1>5, EventCases

LEMMA PrecallEventInv ==
    ASSUME LinkInv, iaxHandlePrecallEvent, TypeOK'
    PROVE  LinkInv'
  <1>1. Queues /\ Referents /\ Additions /\ Handled /\ Owned /\ Served /\ Silence
        /\ TypeOK /\ CallsTyped /\ NoCall \notin CallIds
    BY TypeParts, IAXLinkAssumption DEF LinkInv
  <1>2. /\ ev.at = "handle" /\ ev.call = NoCall
        /\ UNCHANGED libvars /\ UNCHANGED <<op, regSession>>
        /\ UNCHANGED <<sessions, inbox, finals, peer>>
    BY DEF iaxHandlePrecallEvent, regvars, libvars
  <1>3. CASE ev.type = "connect"
    <2>1. PICK c \in UnusedIds : /\ ev' = [at |-> "ring", sess |-> ev.sess, call |-> c]
                                 /\ missed' = missed \ {c}
                                 /\ UNCHANGED <<calls, bound>>
      BY <1>3 DEF iaxHandlePrecallEvent
    <2>2. /\ c \in CallIds /\ ~InMap(c)
          /\ op.at \in {"placed", "found", "sent"} => op.call # c
      BY DEF UnusedIds
    <2>3. /\ ev'.at = "ring" /\ ev'.sess = ev.sess /\ ev'.call = c
          /\ \A t : Arriving(t)' <=> Arriving(t)
          /\ \A t, e : ~Handles(t, e)'
          /\ \A t \in Sessions : NoRing(t) => NoRing(t)'
      BY <1>2, <1>3, <2>1 DEF Arriving, Handles, NoRing
    <2>4. /\ \A d \in CallIds : (InMap(d)' <=> InMap(d)) /\ (HasSent(d)' <=> HasSent(d))
                                /\ (Ending(d)' <=> Ending(d))
          /\ \A t : HasCall(t)' <=> HasCall(t)
      BY <1>1, <1>2, <2>1, <2>3 DEF InMap, HasCall, HasSent, Ending
    <2>5. Queues' /\ Referents' /\ Served'
      BY <1>1, <1>2, <1>3, <2>1, <2>2, <2>3, <2>4 DEF Queues, Referents, Served
    <2>6. Additions' /\ Handled'
      BY <1>1, <1>2, <2>1, <2>2, <2>3, <2>4 DEF Additions, Handled, InMap
    <2>7. Owned'
      BY <1>1, <1>2, <2>3, <2>4 DEF Owned
    <2>8. Silence'
      <3>1. HeldIsSilent'
        BY <1>1, <1>2, <2>1 DEF Silence, HeldIsSilent, InMap
      <3>2. \A d \in CallIds : InMap(d) => calls[d].sess \in Sessions
        BY <1>1, CallFields
      <3> QED BY <1>1, <1>2, <2>1, <2>3, <2>4, <3>1, <3>2, TypeParts, OpFields
              DEF Silence, Does, InMap
    <2> QED BY <2>5, <2>6, <2>7, <2>8 DEF LinkInv
  <1>4. CASE UNCHANGED <<calls, bound, missed>> /\ (ev' = ev \/ ev' = Idle)
             /\ ev.type # "connect"
    BY <1>1, <1>2, <1>4, QuietInv DEF Quiet, Idle
  <1>5. ASSUME NEW c \in CallsOf(ev.sess), ev.type = "hangup", peerHungupCall(c),
               ev' = Idle, UNCHANGED missed
        PROVE  LinkInv'
    <2>1. c \in CallIds /\ InMap(c) /\ calls[c].sess = ev.sess
      BY DEF CallsOf
    <2>2. bound' = bound \ {c} /\ calls' = [calls EXCEPT ![c] = Absent] /\ ev'.at = "idle"
      BY <1>5 DEF peerHungupCall, Idle
    <2>3. /\ ~InMap(c)'
          /\ \A d \in CallIds \ {c} : calls'[d] = calls[d] /\ (InMap(d)' <=> InMap(d))
      BY <1>1, <2>1, <2>2, RemovedCall
    <2>4. /\ \A t : Arriving(t)' <=> Arriving(t)
          /\ \A t, e : ~Handles(t, e)'
          /\ \A t \in Sessions : NoRing(t) => NoRing(t)'
      BY <1>2, <1>5, <2>2 DEF Arriving, Handles, NoRing
    <2>5. /\ \A d \in CallIds : (HasSent(d)' <=> HasSent(d)) /\ (Ending(d)' <=> Ending(d))
          /\ \A t : HasCall(t)' => HasCall(t)
          /\ \A t : HasCall(t) => HasCall(t)' \/ t = ev.sess
      BY <1>1, <1>2, <2>1, <2>2, <2>3 DEF HasCall, HasSent, Ending
    <2>6. ev.sess \notin sessions
      BY <1>1, <1>2, <1>5 DEF Queues
    <2>7. Queues' /\ Referents' /\ Served'
      BY <1>1, <1>2, <1>5, <2>2, <2>3, <2>4, <2>5 DEF Queues, Referents, Served
    <2>8. Additions' /\ Handled'
      BY <1>1, <1>2, <1>5, <2>2, <2>3, <2>4, <2>5, TypeParts, OpFields
         DEF Additions, Handled, InMap
    <2>9. Owned'
      BY <1>1, <1>2, <2>4, <2>5, <2>6 DEF Owned
    <2>10. Silence'
      <3>1. HeldIsSilent'
        BY <1>1, <1>2, <2>2, <2>3 DEF Silence, HeldIsSilent, CallsTyped
      <3>2. \A d \in CallIds : InMap(d) => calls[d].sess \in Sessions
        BY <1>1, CallFields
      <3> QED BY <1>1, <1>2, <2>2, <2>3, <2>4, <3>1, <3>2, TypeParts, OpFields
              DEF Silence, Does, InMap
    <2> QED BY <2>7, <2>8, <2>9, <2>10 DEF LinkInv
  <1> QED BY <1>3, <1>4, <1>5 DEF iaxHandlePrecallEvent

LEMMA IncomingAddInv ==
    ASSUME LinkInv, IncomingAdd, TypeOK'
    PROVE  LinkInv'
  <1>1. Queues /\ Referents /\ Additions /\ Handled /\ Owned /\ Served /\ Silence
        /\ TypeOK /\ CallsTyped
    BY TypeParts DEF LinkInv
  <1>2. PICK c \in CallIds, s \in Sessions : c = ev.call /\ s = ev.sess
    BY <1>1, TypeParts, EvFields DEF IncomingAdd
  <1>3. /\ ev.at = "ring" /\ ev'.at = "idle"
        /\ UNCHANGED <<sessions, inbox, finals, peer, bound, missed, op, regSession>>
    BY DEF IncomingAdd, libvars, regvars, Idle
  <1>4. calls' = [calls EXCEPT ![c] = [sess |-> s, conn |-> "progressing", state |-> "inactive"]]
    BY <1>2 DEF IncomingAdd
  <1>5. /\ InMap(c)'
        /\ calls'[c].sess = s /\ calls'[c].conn = "progressing"
        /\ calls'[c].state = "inactive"
        /\ \A d \in CallIds \ {c} : calls'[d] = calls[d] /\ (InMap(d)' <=> InMap(d))
    BY <1>1, <1>4, AddedCall
  <1>6. /\ Arriving(s) /\ ~Arriving(s)'
        /\ \A t : t # s => (Arriving(t)' <=> Arriving(t))
        /\ \A t, e : ~Handles(t, e) /\ ~Handles(t, e)'
        /\ \A t : NoRing(t)' <=> NoRing(t)
    BY <1>1, <1>2, <1>3 DEF Queues, Arriving, Handles, NoRing
  <1>7. /\ ~InMap(c) /\ s \in sessions \ finals /\ s # regSession /\ NoRing(s)
        /\ op.at \in {"placed", "found", "sent"} => op.call # c
        /\ op.at = "placed" => op.sess # s
        /\ \A d \in CallIds : InMap(d) => calls[d].sess # s
    <2>1. \A d \in CallIds : InMap(d) => calls[d].sess # s
      BY <1>1, <1>6 DEF Referents
    <2> QED BY <1>1, <1>2, <1>3, <1>6, <2>1 DEF Referents, Additions, Silence
  <1>8. /\ \A d \in CallIds : (HasSent(d)' <=> HasSent(d)) /\ (Ending(d)' <=> Ending(d))
        /\ ~HasSent(c)
        /\ \A t : HasCall(t)' <=> HasCall(t) \/ t = s
    BY <1>3, <1>5, <1>7 DEF HasCall, HasSent, Ending
  <1>9. Queues'
    BY <1>1, <1>3 DEF Queues
  <1>10. Referents' /\ Served'
    BY <1>1, <1>3, <1>5, <1>6, <1>7, <1>8 DEF Referents, Served
  <1>11. Additions' /\ Handled'
    BY <1>1, <1>3, <1>5, <1>6, <1>7, <1>8, TypeParts, OpFields DEF Additions, Handled, InMap
  <1>12. Owned'
    BY <1>1, <1>3, <1>6, <1>8 DEF Owned
  <1>13. Silence'
    <2>1. HeldIsSilent'
      BY <1>1, <1>3, <1>5 DEF Silence, HeldIsSilent, InMap, CallsTyped
    <2> QED BY <1>1, <1>3, <1>5, <1>6, <1>7, <2>1, TypeParts, OpFields
            DEF Silence, Does, InMap
  <1> QED BY <1>9, <1>10, <1>11, <1>12, <1>13 DEF LinkInv

LEMMA PeerActsInv ==
    ASSUME LinkInv, PeerActs, TypeOK'
    PROVE  LinkInv'
  <1>1. Queues /\ Referents /\ Additions /\ Handled /\ Owned /\ Served /\ Silence
        /\ TypeOK /\ CallsTyped /\ LibTypeOK
    BY TypeParts DEF LinkInv
  <1>2. PICK s \in sessions : \E say \in Says(peer[s]) :
             /\ inbox' = [inbox EXCEPT ![s] = Append(@, say[1])]
             /\ peer' = [peer EXCEPT ![s] = say[2]]
    BY DEF PeerActs, PeerSays
  <1>17. PICK say \in Says(peer[s]) :
             /\ inbox' = [inbox EXCEPT ![s] = Append(@, say[1])]
             /\ peer' = [peer EXCEPT ![s] = say[2]]
    BY <1>2
  <1>3. PICK e, doing : e = say[1] /\ doing = say[2]
    OBVIOUS
  <1>4. UNCHANGED <<sessions, finals, calls, bound, missed, ev, op, regSession>>
    BY DEF PeerActs, PeerSays, linkvars, regvars
  <1>5. s \in Sessions /\ peer[s] \in PeerStates /\ inbox[s] \in Seq(EventTypes)
        /\ Ordered(inbox[s])
    BY <1>1 DEF LibTypeOK, Queues
  <1>6. /\ e \in EventTypes \ {"connect"}
        /\ e = "ringa" => peer[s] = "calling"
        /\ peer[s] = "calling" \/ doing # "calling"
        /\ e = "answer" => doing # "calling"
        /\ e = "busy" => doing = "busy"
        /\ peer[s] = "busy" => doing = "busy"
    BY <1>3, <1>5, <1>17, SaysWhat
  <1>7. /\ Ordered(Append(inbox[s], e))
        /\ \A t : In(Append(inbox[s], e), t) <=> In(inbox[s], t) \/ t = e
    <2>1. e = "ringa" => ~In(inbox[s], "answer")
      BY <1>1, <1>5, <1>6 DEF Queues
    <2> QED BY <1>5, <1>6, <2>1, QueueAppend
  <1>8. /\ inbox'[s] = Append(inbox[s], e) /\ peer'[s] = doing
        /\ \A t \in Sessions \ {s} : inbox'[t] = inbox[t] /\ peer'[t] = peer[t]
    BY <1>1, <1>3, <1>5, <1>17 DEF LibTypeOK
  <1>9. /\ \A t, type : Handles(t, type)' <=> Handles(t, type)
        /\ \A t \in Sessions : Arriving(t)' <=> Arriving(t)
        /\ \A t \in Sessions : NoRing(t) => NoRing(t)'
        /\ \A t \in Sessions : peer[t] = "busy" => peer'[t] = "busy"
    BY <1>4, <1>6, <1>7, <1>8 DEF Handles, Arriving, NoRing
  <1>10. /\ \A d \in CallIds : (InMap(d)' <=> InMap(d)) /\ (HasSent(d)' <=> HasSent(d))
                               /\ (Ending(d)' <=> Ending(d))
         /\ \A t : HasCall(t)' <=> HasCall(t)
    BY <1>4 DEF InMap, HasCall, HasSent, Ending
  <1>11. \A d \in CallIds : InMap(d) => calls[d].sess \in Sessions
    BY <1>1, CallFields
  <1>12. Queues'
    <2>1. \A t \in Sessions :
            /\ Ordered(inbox'[t])
            /\ t \notin sessions' => inbox'[t] = <<>>
            /\ In(inbox'[t], "busy") => peer'[t] = "busy"
            /\ In(inbox'[t], "answer") => peer'[t] # "calling"
      BY <1>1, <1>4, <1>6, <1>7, <1>8 DEF Queues
    <2>2. ev.at = "ring" \/ (ev.at = "handle" /\ ev.type = "connect")
            => ~In(inbox'[ev.sess], "connect")
      BY <1>1, <1>6, <1>7, <1>8, TypeParts, EvFields DEF Queues
    <2> QED BY <1>1, <1>4, <1>9, <2>1, <2>2, TypeParts, EvFields DEF Queues
  <1>13. Referents' /\ Served'
    <2>1. regSession \in Sessions => peer'[regSession] # "calling"
      BY <1>1, <1>6, <1>8 DEF Referents
    <2> QED BY <1>1, <1>4, <1>9, <1>10, <1>11, <2>1 DEF Referents, Served
  <1>14. Additions' /\ Handled'
    BY <1>1, <1>4, <1>9, <1>10, TypeParts, OpFields DEF Additions, Handled, InMap
  <1>15. Owned'
    BY <1>1, <1>4, <1>9, <1>10 DEF Owned, LibTypeOK
  <1>16. Silence'
    <2>1. HeldIsSilent'
      BY <1>1, <1>4 DEF Silence, HeldIsSilent, InMap
    <2> QED BY <1>1, <1>4, <1>9, <1>10, <1>11, <2>1, TypeParts, OpFields
            DEF Silence, Does, InMap
  <1> QED BY <1>12, <1>13, <1>14, <1>15, <1>16 DEF LinkInv

LEMMA RegistrationInv ==
    ASSUME LinkInv, TypeOK',
           Unregister \/ UnregisterStamp \/ UnregisterState
           \/ iaxHandleRegReply \/ RegistrationAcked \/ RefreshDue
    PROVE  LinkInv'
  <1>1. TypeOK /\ Referents /\ NoSession \notin Sessions /\ LibTypeOK /\ OpTyped
        /\ NoCall \notin CallIds /\ regSession \notin finals
        /\ regSession \in Sessions \cup {NoSession}
    BY TypeParts, LibIAXAssumption, IAXLinkAssumption DEF LinkInv, Referents, RegTyped
  <1>2. CASE Unregister
    <2>1. /\ op.at = "idle" /\ op'.at = "unregister" /\ regSession' = NoSession
          /\ UNCHANGED <<calls, bound, missed, ev>> /\ MutexFree
      BY <1>2 DEF Unregister, NoOp
    <2>2. CASE regSession = NoSession
      BY <1>2, <2>1, <2>2, QuietInv DEF Unregister, Quiet
    <2>3. CASE regSession # NoSession
      <3>1. DestroySession(regSession) /\ UNCHANGED finals
        BY <1>2, <2>3 DEF Unregister
      <3>2. PICK s : s = regSession
        OBVIOUS
      <3>3. finals' = finals \ {s}
        BY <1>1, <3>1, <3>2
      <3>4. ev.at \notin {"handle", "ring"} /\ ev'.at \notin {"handle", "ring"}
        BY <2>1, NoEvent
      <3> QED BY <2>1, <3>1, <3>2, <3>3, <3>4, DroppedInv
    <2> QED BY <2>2, <2>3
  <1>3. CASE UnregisterStamp \/ UnregisterState
    BY <1>3, QuietInv DEF UnregisterStamp, UnregisterState, Quiet, NoOp
  <1>4. CASE iaxHandleRegReply
    <2>1. /\ ev.at = "handle" /\ ev.call = NoCall /\ ev.sess = regSession
          /\ UNCHANGED <<calls, bound, missed, op>> /\ ev.sess \in Sessions
      BY <1>1, <1>4, TypeParts, EvFields DEF iaxHandleRegReply
    <2>2. ev.type # "connect"
      BY <1>1, <2>1 DEF Referents, Arriving, Handles
    <2>3. CASE ev.type \in {"regack", "regrej"}
      <3>1. DestroySession(regSession) /\ UNCHANGED finals /\ regSession' = NoSession
            /\ ev'.at \notin {"handle", "ring"}
        BY <1>4, <2>3 DEF iaxHandleRegReply, Idle
      <3>2. PICK s : s = regSession
        OBVIOUS
      <3>3. finals' = finals \ {s}
        BY <1>1, <3>1, <3>2
      <3> QED BY <2>1, <2>2, <3>1, <3>2, <3>3, DroppedInv
    <2>4. CASE ev.type \notin {"regack", "regrej"}
      BY <1>1, <1>4, <2>1, <2>2, <2>4, QuietInv DEF iaxHandleRegReply, Quiet, Idle
    <2> QED BY <2>3, <2>4
  <1>5. CASE RegistrationAcked \/ RefreshDue
    BY <1>5, QuietInv DEF RegistrationAcked, RefreshDue, Quiet, Idle
  <1> QED BY <1>2, <1>3, <1>4, <1>5

LEMMA FinalFrameInv ==
    ASSUME LinkInv, FinalFrame, TypeOK'
    PROVE  LinkInv'
  <1>1. PICK s \in finals : finals' = finals \ {s} /\ DestroySession(s)
    BY DEF FinalFrame, FinalDue
  <1>2. s # regSession
    BY DEF LinkInv, Referents
  <1>3. /\ UNCHANGED <<calls, bound, missed, op, ev, regSession>> /\ ev.at = "idle"
    BY DEF FinalFrame, linkvars, regvars, Idle
  <1> QED BY <1>1, <1>2, <1>3, DroppedInv

LEMMA AcceptRefusedInv ==
    ASSUME LinkInv, AcceptRefused, TypeOK'
    PROVE  LinkInv'
  <1>1. Queues /\ Referents /\ Additions /\ Handled /\ Owned /\ Served /\ Silence
        /\ LibTypeOK /\ TypeOK /\ CallsTyped /\ OpTyped
    BY TypeParts DEF LinkInv
  <1>2. PICK s \in Sessions :
           /\ RefuseAccept(s)
           /\ missed' = missed \cup CallsOf(s)
                        \cup IF op.at = "placed" /\ op.sess = s THEN {op.call} ELSE {}
    BY DEF AcceptRefused
  <1>3. /\ UNCHANGED <<calls, bound, ev, op, regSession>>
        /\ ev.at = "idle"
    BY DEF AcceptRefused, regvars, Idle
  <1>4. /\ s \in sessions /\ peer[s] = "calling" /\ finals' = finals \cup {s}
        /\ sessions' \subseteq sessions /\ sessions \ {s} \subseteq sessions'
        /\ s \notin sessions' => inbox'[s] = <<>>
        /\ inbox'[s] \in {<<>>, Append(inbox[s], "reject")}
        /\ peer'[s] \in {"none", "over"}
        /\ \A t \in Sessions \ {s} : inbox'[t] = inbox[t] /\ peer'[t] = peer[t]
    <2>1. CASE DestroySession(s)
      BY <1>1, <1>2, <2>1 DEF RefuseAccept, DestroySession, LibTypeOK
    <2>2. CASE /\ inbox' = [inbox EXCEPT ![s] = Append(@, "reject")]
               /\ peer' = [peer EXCEPT ![s] = "over"]
               /\ UNCHANGED sessions
      BY <1>1, <1>2, <2>2 DEF RefuseAccept, LibTypeOK
    <2> QED BY <1>2, <2>1, <2>2 DEF RefuseAccept
  <1>5. Ordered(inbox'[s]) /\ \A t : In(inbox'[s], t) => In(inbox[s], t) \/ t = "reject"
    <2>1. inbox[s] \in Seq(EventTypes) /\ Ordered(inbox[s]) /\ "reject" \in EventTypes
      BY <1>1 DEF LibTypeOK, Queues, EventTypes
    <2>2. /\ Ordered(Append(inbox[s], "reject"))
          /\ \A t : In(Append(inbox[s], "reject"), t) <=> In(inbox[s], t) \/ t = "reject"
      BY <2>1, QueueAppend
    <2> QED BY <1>4, <2>2, QueueEmpty
  <1>6. /\ ~Arriving(s) /\ s # regSession
        /\ ~In(inbox[s], "answer") /\ ~In(inbox[s], "busy")
    <2>1. Arriving(s) => NoRing(s)
      BY <1>1 DEF Silence
    <2> QED BY <1>1, <1>4, <2>1 DEF NoRing, Referents, Queues
  <1>7. /\ \A t \in Sessions : Arriving(t)' <=> Arriving(t)
        /\ \A t, e : ~Handles(t, e) /\ ~Handles(t, e)'
    <2>1. ~In(inbox[s], "connect") /\ ~In(inbox'[s], "connect")
      BY <1>5, <1>6 DEF Arriving
    <2> QED BY <1>3, <1>4, <2>1 DEF Arriving, Handles
  <1>8. /\ \A d \in CallIds : (InMap(d)' <=> InMap(d)) /\ (HasSent(d)' <=> HasSent(d))
                              /\ (Ending(d)' <=> Ending(d))
        /\ \A t : HasCall(t)' <=> HasCall(t)
    BY <1>3 DEF InMap, HasCall, HasSent, Ending
  <1>9. \A d \in CallIds : InMap(d) =>
           calls[d].sess \in Sessions /\ (calls[d].sess = s => d \in missed')
    BY <1>1, <1>2, CallFields DEF CallsOf
  <1>10. op.at = "placed" =>
           op.sess \in Sessions /\ (op.sess = s => op.call \in missed')
    BY <1>1, <1>2, OpFields
  <1>11. missed \subseteq missed'
    BY <1>2
  <1>12. Queues'
    BY <1>1, <1>3, <1>4, <1>5, <1>6 DEF Queues
  <1>13. Referents'
    BY <1>1, <1>3, <1>4, <1>6, <1>7, <1>8, <1>9, <1>11 DEF Referents
  <1>14. Additions' /\ Handled'
    BY <1>1, <1>3, <1>4, <1>7, <1>8, <1>10, <1>11 DEF Additions, Handled, InMap
  <1>15. Owned'
    BY <1>1, <1>3, <1>4, <1>7, <1>8 DEF Owned, LibTypeOK
  <1>16. Served'
    BY <1>1, <1>3, <1>4, <1>8, <1>9, <1>11 DEF Served
  <1>17. Silence'
    <2>1. \A t \in Sessions : NoRing(t) => NoRing(t)'
      BY <1>4, <1>5, <1>7 DEF NoRing
    <2>2. HeldIsSilent'
      BY <1>1, <1>3 DEF Silence, HeldIsSilent, InMap
    <2> QED BY <1>1, <1>3, <1>7, <1>8, <1>9, <2>1, <2>2, OpFields
            DEF Silence, Does, InMap
  <1> QED BY <1>12, <1>13, <1>14, <1>15, <1>16, <1>17 DEF LinkInv

LEMMA LinkStep ==
    ASSUME Reuse = FALSE, LinkInv, [Next]_vars
    PROVE  LinkInv'
  <1>1. TypeOK'
    BY TypeStep DEF LinkInv
  <1>2. CASE DBus
    BY <1>1, <1>2, PlaceCallInv, PlaceCallAddInv, FindInv, SendInv, FinishInv,
       RegisterInv, RegistrationInv
       DEF DBus
  <1>3. CASE EventThread
    BY <1>1, <1>3, GetEventInv, HandleCallEventInv, RegistrationInv, PrecallEventInv,
       IncomingAddInv, FinalFrameInv, AcceptRefusedInv, RegisterInv
       DEF EventThread
  <1>4. CASE PeerActs \/ PeerCalls
    BY <1>1, <1>4, PeerActsInv, PeerCallsInv
  <1>5. CASE UNCHANGED vars
    <2>1. Quiet
      BY <1>5 DEF Quiet, vars, libvars, linkvars, regvars
    <2> QED BY <1>1, <2>1, QuietInv
  <1> QED BY <1>2, <1>3, <1>4, <1>5 DEF Next, Crashed

-----------------------------------------------------------------------------
(* What the invariant says of the link.                                    *)

\* A CONNECT that waits is at the head of its session's queue.
LEMMA ConnectFirst ==
    ASSUME NEW q \in Seq(EventTypes), Ordered(q), In(q, "connect")
    PROVE  q # <<>> /\ q[1] = "connect"
  <1>1. PICK i \in 1 .. Len(q) : q[i] = "connect" /\ i = 1
    BY DEF Ordered, In
  <1> QED BY <1>1

\* No session of libiax2 is forgotten (iaxvoiplink.cpp and iax.c agree on who
\* destroys each), whatever calls, registers, refreshes and hangs up meanwhile.
THEOREM IAXSessionsOwned == ASSUME Reuse = FALSE PROVE Spec => []SessionsOwned
  <1>1. LinkInv => SessionsOwned
    <2> SUFFICES ASSUME LinkInv, NEW s \in sessions, ~HasCall(s), s # regSession,
                        ~(op.at = "placed" /\ op.sess = s), s \notin finals,
                        peer[s] # "busy",
                        ~(ev.at \in {"handle", "ring"} /\ ev.sess = s)
                 PROVE  s \in IncomingNews
      BY DEF SessionsOwned, HasCall, CallsOf
    <2>1. s \in Sessions /\ inbox[s] \in Seq(EventTypes) /\ Ordered(inbox[s])
      BY TypeParts DEF LinkInv, LibTypeOK, Queues
    <2>2. In(inbox[s], "connect")
      BY DEF LinkInv, Owned, Arriving, Handles
    <2> QED BY <2>1, <2>2, ConnectFirst DEF IncomingNews
  <1>2. LinkInv /\ [Next]_vars => LinkInv'
    BY LinkStep
  <1> QED BY <1>1, <1>2, InitInv, PTL DEF Spec

\* A call of the map has a session that libiax2 still has and that no other
\* call has, until its end begins: an event, the audio and a hang-up reach the
\* right call and its peer.
THEOREM IAXEachCallItsSession ==
    ASSUME Reuse = FALSE PROVE Spec => []EachCallItsSession
  <1>1. LinkInv => EachCallItsSession
    BY DEF LinkInv, EachCallItsSession, Served, Referents, CallsOf
  <1>2. LinkInv /\ [Next]_vars => LinkInv'
    BY LinkStep
  <1> QED BY <1>1, <1>2, InitInv, PTL DEF Spec

\* A call on hold has no stream in the main buffer unless offhold is taking it
\* back: no event, however late, binds it again.
THEOREM IAXHeldIsSilent == ASSUME Reuse = FALSE PROVE Spec => []HeldIsSilent
  <1>1. LinkInv => HeldIsSilent
    BY DEF LinkInv, Silence
  <1>2. LinkInv /\ [Next]_vars => LinkInv'
    BY LinkStep
  <1> QED BY <1>1, <1>2, InitInv, PTL DEF Spec

-----------------------------------------------------------------------------
(* An account that the user unregistered.                                  *)

\* The event thread is done with the registration: it has neither a refresh to
\* send nor the end of a REGACK to write.
Settled == ev.at \notin {"refresh", "acked"}

\* UnregisteredStays, while sendUnregister is under way as well: the session is
\* gone with its first step, so that no reply finds one; the stamp with the
\* second, the state with the third.  A refresh that falls between the first
\* two is what `overtaken' records.
Leaving ==
    wanted = "unregistered" /\ ~overtaken =>
        /\ regSession = NoSession /\ Settled
        /\ op.at # "unregister" => stamp = "off"
        /\ op.at \notin {"unregister", "unstamped"} => regState = "Unregistered"

\* The steps that read or write the registration.
Registers ==
    \/ Register \/ Unregister \/ UnregisterStamp \/ UnregisterState
    \/ iaxHandleRegReply \/ RegistrationAcked \/ RefreshDue \/ Refresh

\* A step that is none of them leaves the registration, and does not bring the
\* event thread or the D-Bus thread to it.
LEMMA OthersLeave ==
    ASSUME TypeOK, [Next]_vars, ~Registers
    PROVE  /\ UNCHANGED regvars
           /\ Settled => Settled'
           /\ op' = op \/ (op.at \notin {"unregister", "unstamped"}
                           /\ op'.at \notin {"unregister", "unstamped"})
  <1>0. OpTyped /\ EvTyped
    BY TypeParts
  <1>a. NoOp.at = "idle" /\ Idle.at = "idle"
    BY DEF NoOp, Idle
  <1>1. CASE PlaceCall
    BY <1>0, <1>1, <1>a DEF PlaceCall, Settled
  <1>2. CASE PlaceCallAdd
    BY <1>2, <1>a DEF PlaceCallAdd, Settled
  <1>3. CASE \E name \in Operations : Find(name)
    <2>1. PICK name \in Operations : Find(name)
      BY <1>3
    <2>2. UNCHANGED regvars /\ ev' = ev /\ op.at = "idle"
      BY <1>a, <2>1 DEF Find
    <2>3. op' = op \/ \E c \in CallIds : op' = [at |-> "found", call |-> c, name |-> name]
      BY <2>1 DEF Find
    <2>4. op' = op \/ op'.at = "found"
      BY <2>3
    <2> QED BY <2>2, <2>4 DEF Settled
  <1>4. CASE Send
    <2>1. UNCHANGED regvars /\ ev' = ev /\ op.at = "found"
      <3>1. UNCHANGED <<calls, known, bound, missed, ev, regvars>> /\ op.at = "found"
        BY <1>4, SendCases
      <3> QED BY <3>1
    <2>2. op' = op \/ op' = NoOp \/ op' = [op EXCEPT !.at = "sent"]
      BY <1>4, SendCases
    <2>3. op' = op \/ op'.at \in {"idle", "sent"}
      BY <1>0, <1>a, <2>1, <2>2, OpSent
    <2> QED BY <2>1, <2>3 DEF Settled
  <1>5. CASE Finish
    <2>1. /\ op.at = "sent" /\ UNCHANGED <<libvars, bound, missed, ev, regvars>>
          /\ op' = op \/ op' = NoOp
      BY <1>5, FinishCases
    <2> QED BY <1>a, <2>1 DEF Settled
  <1>6. CASE GetEvent \/ iaxHandlePrecallEvent \/ IncomingAdd \/ FinalFrame
             \/ AcceptRefused
    <2>1. UNCHANGED regvars /\ op' = op
      BY <1>6
         DEF GetEvent, iaxHandlePrecallEvent, IncomingAdd, FinalFrame, AcceptRefused,
             linkvars
    <2>2. ev' = ev \/ ev'.at \in {"idle", "handle", "ring"}
      <3>1. CASE GetEvent
        <4>1. \E s \in Sessions, type \in EventTypes, c \in CallIds \cup {NoCall} :
                ev' = [at |-> "handle", sess |-> s, type |-> type, call |-> c]
          BY <3>1 DEF GetEvent, CallsOf
        <4> QED BY <4>1
      <3>2. CASE iaxHandlePrecallEvent
        <4>1. \/ ev' = ev \/ ev' = Idle
              \/ \E c \in UnusedIds : ev' = [at |-> "ring", sess |-> ev.sess, call |-> c]
          BY <3>2 DEF iaxHandlePrecallEvent
        <4> QED BY <1>a, <4>1
      <3>3. CASE IncomingAdd \/ FinalFrame \/ AcceptRefused
        BY <1>a, <3>3 DEF IncomingAdd, FinalFrame, AcceptRefused, linkvars
      <3> QED BY <1>6, <3>1, <3>2, <3>3
    <2> QED BY <2>1, <2>2 DEF Settled
  <1>7. CASE iaxHandleCallEvent
    <2>1. /\ UNCHANGED <<libvars, missed, op, regvars>>
          /\ ev' = ev \/ ev' = Idle
      BY <1>7, EventCases
    <2> QED BY <1>a, <2>1 DEF Settled
  <1>8. CASE PeerActs \/ PeerCalls \/ UNCHANGED vars
    BY <1>8 DEF PeerActs, PeerCalls, vars, linkvars, Settled
  <1> QED
    BY <1>1, <1>2, <1>3, <1>4, <1>5, <1>6, <1>7, <1>8
    DEF Next, DBus, EventThread, Registers, Crashed

LEMMA LeavingStep == TypeOK /\ Leaving /\ [Next]_vars => Leaving'
  <1> SUFFICES ASSUME TypeOK, Leaving, [Next]_vars PROVE Leaving'
    OBVIOUS
  <1>0. OpTyped /\ EvTyped /\ RegTyped
    BY TypeParts
  <1>1. CASE ~Registers
    BY <1>1, OthersLeave DEF Leaving, regvars
  <1>2. CASE Register
    BY <1>2 DEF Register, Leaving
  <1>3. CASE Unregister
    <2>1. op.at = "idle" /\ op'.at = "unregister" /\ ev' = ev /\ regSession' = NoSession
      BY <1>0, <1>3, OpFields DEF Unregister
    <2>2. ev.at \in {"idle", "refresh"} /\ (~overtaken' => ev.at # "refresh")
      BY <1>3 DEF Unregister, MutexFree
    <2> QED BY <2>1, <2>2 DEF Leaving, Settled
  <1>4. CASE UnregisterStamp \/ UnregisterState
    <2>1. UNCHANGED <<ev, regSession, wanted, overtaken>>
      BY <1>4 DEF UnregisterStamp, UnregisterState
    <2>2. CASE UnregisterStamp
      <3>1. op'.at = "unstamped" /\ stamp' = "off"
        BY <2>2 DEF UnregisterStamp
      <3> QED BY <2>1, <3>1 DEF Leaving, Settled
    <2>3. CASE UnregisterState
      <3>1. op.at = "unstamped" /\ op'.at = "idle" /\ UNCHANGED stamp
            /\ regState' = "Unregistered"
        BY <2>3 DEF UnregisterState, NoOp
      <3> QED BY <2>1, <3>1 DEF Leaving, Settled
    <2> QED BY <1>4, <2>2, <2>3
  <1>5. CASE iaxHandleRegReply
    <2>1. ev.sess \in Sessions /\ ev.sess = regSession /\ NoSession \notin Sessions
      BY <1>0, <1>5, EvFields, LibIAXAssumption DEF iaxHandleRegReply
    <2>2. UNCHANGED <<wanted, overtaken>>
      BY <1>5 DEF iaxHandleRegReply
    <2> QED BY <2>1, <2>2 DEF Leaving
  <1>6. CASE RegistrationAcked \/ Refresh
    <2>1. ~Settled /\ UNCHANGED <<wanted, overtaken>>
      BY <1>6 DEF RegistrationAcked, Refresh, Settled
    <2> QED BY <2>1 DEF Leaving
  <1>7. CASE RefreshDue
    <2>1. /\ stamp # "off" /\ UNCHANGED wanted
          /\ overtaken' = (overtaken \/ op.at = "unregister")
      BY <1>7 DEF RefreshDue
    <2>2. ~overtaken' => ~overtaken /\ op.at # "unregister"
      BY <1>0, <2>1
    <2> QED BY <2>1, <2>2 DEF Leaving
  <1> QED BY <1>1, <1>2, <1>3, <1>4, <1>5, <1>6, <1>7 DEF Registers

\* Once sendUnregister is done, no refresh is due, no reply is waited for and
\* nothing changes the state of the account until the user registers it, for
\* any allocator: except for the refresh that getEvent had decided on without
\* _mutexIAX.
THEOREM IAXUnregisteredStays == Spec => []UnregisteredStays
  <1>1. Init => TypeOK /\ Leaving
    BY InitTyped DEF Init, Leaving, Settled, Idle, NoOp
  <1>2. TypeOK /\ Leaving /\ [Next]_vars => (TypeOK /\ Leaving)'
    BY TypeStep, LeavingStep
  <1>3. TypeOK /\ Leaving => UnregisteredStays
    <2>1. TypeOK /\ op = NoOp => op.at = "idle"
      BY TypeParts, OpFields
    <2> QED BY <2>1 DEF Leaving, UnregisteredStays
  <1> QED BY <1>1, <1>2, <1>3, PTL DEF Spec
=============================================================================
