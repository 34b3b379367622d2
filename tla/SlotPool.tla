------------------------------ MODULE SlotPool ------------------------------
(***************************************************************************)
(* What the upload queue promises of its slots, whatever it does inside:   *)
(* a user holds at most one slot, a slot is given only while one is free,  *)
(* and the limit may be changed at any time without taking slots back.     *)
(***************************************************************************)
EXTENDS Naturals, FiniteSets

CONSTANTS Clients, Limits

VARIABLES busy, limit

Init == busy = {} /\ limit \in Limits

Free == limit = 0 \/ Cardinality(busy) < limit

Acquire(x) == x \notin busy /\ Free /\ busy' = busy \union {x} /\ UNCHANGED limit

Yield(x) == x \in busy /\ busy' = busy \ {x} /\ UNCHANGED limit

Resize(n) == n # limit /\ limit' = n /\ UNCHANGED busy

Next == (\E x \in Clients : Acquire(x) \/ Yield(x)) \/ (\E n \in Limits : Resize(n))

Spec == Init /\ [][Next]_<<busy, limit>>
=============================================================================
