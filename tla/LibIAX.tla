------------------------------- MODULE LibIAX -------------------------------
(***************************************************************************)
(* The library libiax2 (daemon/libs/iax2/iax.c) as the IAX link uses it:   *)
(* its list of sessions, the events queued for the application, and the    *)
(* final frames (HANGUP, REJECT) still in its schedule.                    *)
(*                                                                         *)
(* A session is its address.  destroy_session frees it, and the allocator  *)
(* may return the same address for the next session: iax.c compares        *)
(* addresses only, so that a frame or a call that still holds an old       *)
(* address then means the new session.                                     *)
(*                                                                         *)
(* The peer is the server, or a caller behind it: it answers what it was   *)
(* asked, or not at all, and may hang up at any time.                      *)
(***************************************************************************)
EXTENDS Integers, Sequences, FiniteSets

CONSTANTS Sessions,   \* the addresses the allocator hands out
          MaxQueue    \* bound on the events queued for one session

VARIABLES sessions,   \* the list `sessions`: what is allocated
          inbox,      \* inbox[s]: events delivered in the order of their timestamps
          finals,     \* sessions of the final frames in `schedq`
          peer        \* peer[s]: what the other side of the session is doing

libvars == <<sessions, inbox, finals, peer>>

NoSession == "no session"

ASSUME LibIAXAssumption == MaxQueue \in Nat \ {0} /\ NoSession \notin Sessions

EventTypes == {"connect", "ringa", "answer", "busy", "reject", "hangup",
               "regack", "regrej"}
\* VOICE, TEXT, URL, PONG, TIMEOUT and an ACCEPT whose format was offered change
\* no state that is modelled (RefuseAccept has the other ACCEPT).

PeerStates == {"none", "calling", "called", "talking", "busy", "register", "over"}

LibTypeOK ==
    /\ sessions \subseteq Sessions
    /\ inbox \in [Sessions -> Seq(EventTypes)]
    /\ finals \subseteq Sessions
    /\ peer \in [Sessions -> PeerStates]

LibInit ==
    /\ sessions = {}
    /\ inbox = [s \in Sessions |-> <<>>]
    /\ finals = {}
    /\ peer = [s \in Sessions |-> "none"]

-----------------------------------------------------------------------------
(* What the functions of the library do to a session.                      *)

\* iax_session_new, and what the session is for.  `first' is what is queued
\* for it: nothing, or the CONNECT of the NEW that made iax_find_session
\* create it.
OpenSession(s, doing, first) ==
    /\ s \notin sessions
    /\ sessions' = sessions \cup {s}
    /\ peer' = [peer EXCEPT ![s] = doing]
    /\ inbox' = [inbox EXCEPT ![s] = first]

\* destroy_session on the list: nothing when the address is not in it.
DestroySession(s) ==
    /\ sessions' = sessions \ {s}
    /\ peer' = [peer EXCEPT ![s] = "none"]
    /\ inbox' = [inbox EXCEPT ![s] = <<>>]

\* iax_destroy followed by iax_session_new, as sendRegister does: the new
\* session may get the address of the old.
ReplaceSession(old, s, doing) ==
    /\ s \notin sessions \ {old}
    /\ sessions' = (sessions \ {old}) \cup {s}
    /\ peer' = [t \in Sessions |-> IF t = s THEN doing
                                   ELSE IF t = old THEN "none" ELSE peer[t]]
    /\ inbox' = [t \in Sessions |-> IF t \in {s, old} THEN <<>> ELSE inbox[t]]

\* A mutant: the final frame is sent, the session is left to the peer.
SendFinalKeepsSession(s) ==
    UNCHANGED libvars

\* send_command_final: the frame is scheduled for retransmission; the session
\* is destroyed at once when the first transmission went out, else when the
\* frame's time comes.
SendFinal(s) ==
    /\ finals' = finals \cup {s}
    /\ \/ DestroySession(s)
       \/ UNCHANGED <<sessions, inbox, peer>>

\* iax_get_event, the part that walks `schedq': a final frame that was
\* acknowledged or given up destroys `frame->session', whatever is now there.
FinalDue ==
    \E s \in finals :
        /\ finals' = finals \ {s}
        /\ DestroySession(s)

\* The event at the head of a session's queue; handle_event destroys the
\* session of a HANGUP or a REJECT before the application sees the event.
TakeEvent(s, type) ==
    /\ inbox[s] # <<>>
    /\ type = Head(inbox[s])
    /\ IF type \in {"hangup", "reject"}
       THEN DestroySession(s)
       ELSE /\ inbox' = [inbox EXCEPT ![s] = Tail(@)]
            /\ UNCHANGED <<sessions, peer>>
    /\ UNCHANGED finals

\* iax_net_process on an ACCEPT whose format is outside session->capability: a
\* final REJECT goes to the peer, and a REJECT is scheduled for the application.
\* When the frame went out, send_command_final has destroyed the session, and
\* the event is put into a jitter buffer that was freed with it: nobody gets it.
RefuseAccept(s) ==
    /\ s \in sessions /\ peer[s] = "calling" /\ Len(inbox[s]) < MaxQueue
    /\ finals' = finals \cup {s}
    /\ \/ DestroySession(s)
       \/ /\ inbox' = [inbox EXCEPT ![s] = Append(@, "reject")]
          /\ peer' = [peer EXCEPT ![s] = "over"]
          /\ UNCHANGED sessions

-----------------------------------------------------------------------------
(* The peer.                                                               *)

\* What it may say next, and what it does after that.  INVAL, with which a
\* server answers what it knows nothing of, is delivered as a HANGUP.
Says(doing) ==
    CASE doing = "calling"  -> {<<"ringa", "calling">>, <<"answer", "talking">>,
                                <<"busy", "busy">>, <<"reject", "over">>,
                                <<"hangup", "over">>}
      [] doing = "called"   -> {<<"hangup", "over">>}
      [] doing = "talking"  -> {<<"answer", "talking">>, <<"hangup", "over">>}
      [] doing = "busy"     -> {<<"hangup", "busy">>}
      [] doing = "register" -> {<<"regack", "over">>, <<"regrej", "over">>,
                                <<"hangup", "over">>}
      [] OTHER              -> {}

PeerSays ==
    \E s \in sessions : \E say \in Says(peer[s]) :
        /\ Len(inbox[s]) < MaxQueue
        /\ "hangup" \notin {inbox[s][i] : i \in 1..Len(inbox[s])}
        /\ inbox' = [inbox EXCEPT ![s] = Append(@, say[1])]
        /\ peer' = [peer EXCEPT ![s] = say[2]]
        /\ UNCHANGED <<sessions, finals>>

\* The server grants or refuses a registration (the part of PeerSays that
\* fairness is about).
ServerAnswers ==
    /\ PeerSays
    /\ \E s \in sessions : /\ peer[s] = "register" /\ peer'[s] = "over"
                           /\ Head(inbox'[s]) # "hangup"
=============================================================================
