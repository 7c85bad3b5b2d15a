------------------------------- MODULE MCTrip -------------------------------
(***************************************************************************)
(* Instances of Trip for TLC.                                              *)
(***************************************************************************)
EXTENDS Trip, TLC

\* An equal split, and one that names a single participant.
EqualOrNamed == {<< >>} \cup {u :> 1 : u \in User}

\* A trip of a day, or of two.
OneDay == {<<1, 1>>}

ShortOrLong == {<<1, 1>>, <<1, 2>>}

\* Requests are interchangeable.
Requests == Permutations(Request)
=============================================================================
