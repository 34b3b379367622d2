-------------------------- MODULE MCUploadManager --------------------------
(* Instances of UploadManager for TLC: a1 and a2 go to alice, b1 to bob and c1 to carol. *)
EXTENDS UploadManager

CONSTANTS alice, bob, carol, a1, a2, b1, c1

MCUserOf == [u \in Uploads |-> CASE u \in {a1, a2} -> alice [] u = b1 -> bob [] u = c1 -> carol]

\* Two uploads to one user are interchangeable: only the order they arrive in counts.
MCSymmetry == Permutations({a1, a2})

\* So are two users with one upload each.
MCUserSymmetry ==
  {p \in Permutations({alice, bob, a1, b1}) :
     p[alice] \in {alice, bob} /\ p[bob] \in {alice, bob} /\ (p[a1] = a1 <=> p[alice] = alice)}
=============================================================================
