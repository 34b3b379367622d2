------------------------- MODULE MCDownloadManager -------------------------
(* Instances of DownloadManager for TLC: a1 and a2 come from alice. *)
EXTENDS DownloadManager

CONSTANTS alice, a1, a2

MCUserOf == [d \in Downloads |-> alice]

MCOptionsOn  == {[autoClear |-> TRUE, autoRetry |-> TRUE]}
MCOptionsOff == {[autoClear |-> FALSE, autoRetry |-> FALSE]}

\* Two downloads from one user are interchangeable: only their order in the list counts.
MCSymmetry == Permutations({a1, a2})
=============================================================================
