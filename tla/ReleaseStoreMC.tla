--------------------------- MODULE ReleaseStoreMC ---------------------------
(* Instances and properties of ReleaseStore for TLC. *)
EXTENDS ReleaseStoreProps, TLC

CONSTANTS pkgA1, pkgA2, pkgB, pkgC, main, i386, amd64, arm, stable, sid, p1, p2

\* pkgB is binary-independent, pkgC is for an architecture that is not
\* published.
MCComponentOf == [x \in Packages |-> main]
MCArchOf == [x \in Packages |->
  CASE x = pkgB -> All
    [] x = pkgC -> arm
    [] OTHER -> i386]
MCNewer == {<<pkgA2, pkgA1>>} \cap (Packages \X Packages)
=============================================================================
