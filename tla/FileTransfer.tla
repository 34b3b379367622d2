----------------------------- MODULE FileTransfer -----------------------------
(***************************************************************************)
(* What a transfer of a file promises: the downloader's copy is at all     *)
(* times the beginning of the file, block after block; it may lose its     *)
(* tail in a crash; it is put in the download directory only when whole,   *)
(* and is final from then on.                                              *)
(***************************************************************************)
EXTENDS Naturals, Sequences

CONSTANT Sizes   \* the sizes of the file, in blocks

VARIABLES size, file, delivered

Init ==
  /\ size \in Sizes
  /\ file = <<>>
  /\ delivered = FALSE

Write ==
  /\ ~delivered
  /\ \E n \in Len(file) + 1 .. size :
       /\ file' = file \o [i \in 1 .. n - Len(file) |-> Len(file) + i]
       /\ delivered' \in {FALSE, n = size}
  /\ UNCHANGED size

LoseTail ==
  /\ ~delivered
  /\ \E n \in 0 .. Len(file) : file' = SubSeq(file, 1, n)
  /\ UNCHANGED <<size, delivered>>

Next == Write \/ LoseTail

Spec == Init /\ [][Next]_<<size, file, delivered>>
=============================================================================
