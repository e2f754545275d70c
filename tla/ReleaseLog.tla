----------------------------- MODULE ReleaseLog -----------------------------
(***************************************************************************)
(* What the release side of a debmarshal repository promises, without its  *)
(* tables, files and processes: an append-only log of releases per track.  *)
(* A release is a non-empty set of indexed packages, it takes the next     *)
(* free number of its track, and neither it nor the index it was           *)
(* validated against is ever taken back.                                   *)
(***************************************************************************)
EXTENDS Naturals

CONSTANTS
  Packages,    \* binary packages (name_version_architecture)
  Tracks,      \* maintenance tracks
  MaxRelease   \* bound: releases of a track are numbered 0 .. MaxRelease

VARIABLES
  indexed,     \* packages that may be put in a release
  log          \* log[<<t, v>>]: packages of release v of track t, {} if there is none

lvars == <<indexed, log>>

Init ==
  /\ indexed = {}
  /\ log = [r \in Tracks \X (0 .. MaxRelease) |-> {}]

IndexPackages ==
  /\ indexed \subseteq indexed'
  /\ indexed' \subseteq Packages
  /\ UNCHANGED log

Publish(t, v, S) ==
  /\ log[<<t, v>>] = {}
  /\ \A u \in 0 .. (v - 1) : log[<<t, u>>] # {}
  /\ S # {}
  /\ S \subseteq indexed
  /\ log' = [log EXCEPT ![<<t, v>>] = S]
  /\ UNCHANGED indexed

Next ==
  \/ IndexPackages
  \/ \E t \in Tracks, v \in 0 .. MaxRelease, S \in SUBSET Packages : Publish(t, v, S)

Spec == Init /\ [][Next]_lvars
=============================================================================
