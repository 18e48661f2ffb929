---------------------------- MODULE BroadcastFifo ----------------------------
(***************************************************************************)
(* What a ring buffer with several readers promises: every reader gets, in *)
(* order and once each, the items written since it was added, except those *)
(* it asked to skip.                                                       *)
(*                                                                         *)
(* An item is a serial number modulo Serials, so that a lost, repeated or  *)
(* overwritten item shows as a wrong number.                               *)
(***************************************************************************)
EXTENDS Integers, Sequences

CONSTANTS Ids,        \* the possible readers
          Serials,    \* serial numbers are 0 .. Serials - 1
          MaxChunk    \* bound: items moved by one call

VARIABLES queue,      \* for each present reader the items it has not read
          serial,     \* the number of the next item written
          out         \* the items the last Get returned

vars == <<queue, serial, out>>

Numbered(first, n) == [i \in 1 .. n |-> (first + i - 1) % Serials]

Init == queue = [r \in {} |-> <<>>] /\ serial = 0 /\ out = <<>>

Subscribe(r) ==
    /\ queue' = [x \in DOMAIN queue \cup {r} |->
                    IF x \in DOMAIN queue THEN queue[x] ELSE <<>>]
    /\ out' = <<>>
    /\ UNCHANGED serial

Unsubscribe(r) ==
    /\ queue' = [x \in DOMAIN queue \ {r} |-> queue[x]]
    /\ out' = <<>>
    /\ UNCHANGED serial

Write(n) ==
    /\ queue' = [x \in DOMAIN queue |-> queue[x] \o Numbered(serial, n)]
    /\ serial' = (serial + n) % Serials
    /\ out' = <<>>

\* Reading takes the oldest items; skipping drops them.
Read(r, n) ==
    /\ r \in DOMAIN queue
    /\ n <= Len(queue[r])
    /\ queue' = [queue EXCEPT ![r] = SubSeq(@, n + 1, Len(@))]
    /\ out' \in {<<>>, SubSeq(queue[r], 1, n)}
    /\ UNCHANGED serial

SkipAll == queue' = [x \in DOMAIN queue |-> <<>>] /\ out' = <<>> /\ UNCHANGED serial

Quiet == out' = <<>> /\ UNCHANGED <<queue, serial>>

Next ==
    \/ \E r \in Ids : Subscribe(r) \/ Unsubscribe(r)
    \/ \E n \in 0 .. MaxChunk : Write(n)
    \/ \E r \in DOMAIN queue : \E n \in 0 .. Len(queue[r]) : Read(r, n)
    \/ SkipAll
    \/ Quiet

Spec == Init /\ [][Next]_vars
==============================================================================
