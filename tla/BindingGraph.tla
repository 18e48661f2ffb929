----------------------------- MODULE BindingGraph -----------------------------
(***************************************************************************)
(* What class MainBuffer promises its clients: a relation "reads" between  *)
(* audio streams.  A call and the audio layer (Default), or two calls of a *)
(* conference, read each other; a recorder (a process) reads without being *)
(* read.  A stream carries data while somebody reads it.                   *)
(***************************************************************************)
CONSTANTS Calls, Default, Processes

VARIABLE link       \* <<a, b>> \in link: a reads what b writes

Streams == Calls \cup {Default}
Ids == Streams \cup Processes

Init == link = {}

Alive(b) == \E a \in Ids : <<a, b>> \in link

Bind(a, b) == link' = link \cup {<<a, b>>, <<b, a>>}

\* A recorder can follow only a stream that is alive.
BindHalfDuplexOut(p, b) == Alive(b) /\ link' = link \cup {<<p, b>>}

UnBind(a, b) == link' = link \ {<<a, b>>, <<b, a>>}

UnBindHalfDuplexOut(p, b) == link' = link \ {<<p, b>>}

Next ==
    \/ \E a \in Calls, b \in Streams : a # b /\ Bind(a, b)
    \/ \E a, b \in Ids : UnBind(a, b)
    \/ \E p \in Processes, b \in Streams :
          BindHalfDuplexOut(p, b) \/ UnBindHalfDuplexOut(p, b)

Spec == Init /\ [][Next]_link
===============================================================================
