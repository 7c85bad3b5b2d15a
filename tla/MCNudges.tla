------------------------------ MODULE MCNudges ------------------------------
(***************************************************************************)
(* Instances of Nudges for TLC.                                            *)
(***************************************************************************)
EXTENDS Nudges, TLC

CONSTANTS ahmed, mohammed, root, p1, note

\* One payment.
OneDebtor   == p1 :> mohammed
OneCreditor == p1 :> ahmed

\* Requests are interchangeable, and so are the runs.
Alike == Permutations(Request) \cup Permutations(Runner)
=============================================================================
