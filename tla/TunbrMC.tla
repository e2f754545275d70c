------------------------------ MODULE TunbrMC ------------------------------
(* Three invocations, and the MAC addresses they draw.                     *)
EXTENDS TunbrProps, TLC

CONSTANTS p1, p2, p3, m1, m2, m3

AllOwn == (p1 :> {m1} @@ p2 :> {m2} @@ p3 :> {m3})
OwnMacs == [p \in Procs |-> AllOwn[p]]
SharedMacs == [p \in Procs |-> Macs]
Symmetry == Permutations(Procs) \cup Permutations(Macs)
=============================================================================
