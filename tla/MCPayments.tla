----------------------------- MODULE MCPayments -----------------------------
(***************************************************************************)
(* Instances of Payments for TLC.                                          *)
(***************************************************************************)
EXTENDS Payments, TLC

CONSTANTS ahmed, omar, mohammed, root, p1, p2, note, photo

\* One payment; the global admin is no party to it.
OneDebtor   == p1 :> mohammed
OneCreditor == p1 :> ahmed

\* Two payments of one plan: mohammed owes two members, as in the README.
TwoDebtors   == p1 :> mohammed @@ p2 :> mohammed
TwoCreditors == p1 :> ahmed @@ p2 :> omar

\* Requests are interchangeable.
Requests == Permutations(Request)
=============================================================================
