--------------------------- MODULE MessageStream ---------------------------
(***************************************************************************)
(* What a connection promises the program at its end: the messages of the  *)
(* peer are handed over one at a time, in the order in which they were     *)
(* sent and none of them twice.  A message is                              *)
(*   "ok"     handed over in the end, while the connection is up,          *)
(*   "maybe"  handed over or left out, without harm to the others,         *)
(*   "bad"    never handed over; messages behind it may be lost, or        *)
(*   "odd"    handed over or left out; messages behind it may be lost.     *)
(***************************************************************************)
EXTENDS Naturals, Sequences

VARIABLES
    stream,     \* the kinds of the messages the peer sends, in order
    delivered,  \* the positions in stream handed over so far
    up          \* is the connection up?

vars == <<stream, delivered, up>>

Last == IF delivered = <<>> THEN 0 ELSE delivered[Len(delivered)]

\* Is message i, or one before it, harmful to what is behind it?
Harmed(i) == \E k \in 1..i : stream[k] \in {"bad", "odd"}

Init == delivered = <<>> /\ up = TRUE

Deliver(i) ==
    /\ i > Last /\ stream[i] # "bad"
    /\ \A k \in Last+1 .. i-1 : stream[k] = "maybe" \/ Harmed(k)
    /\ delivered' = Append(delivered, i)
    /\ UNCHANGED <<stream, up>>

Break == up /\ up' = FALSE /\ UNCHANGED <<stream, delivered>>

Next == Break \/ \E i \in DOMAIN stream : Deliver(i)

AllDelivered ==
    \A i \in DOMAIN stream :
        (stream[i] = "ok" /\ ~Harmed(i)) => \E k \in DOMAIN delivered : delivered[k] = i

\* Messages are handed over in order ...
Safety == Init /\ [][Next]_vars

\* ... and in the end all of them are, up to the first harmful one.
Liveness == <>(up => AllDelivered)

Spec == Safety /\ Liveness
=============================================================================
