----------------------------- MODULE MCAccounts -----------------------------
(***************************************************************************)
(* The instance of Accounts for TLC.                                       *)
(***************************************************************************)
EXTENDS Accounts, TLC

\* Every expense names one participant.
Singles == {{u} : u \in UserId}

\* Ids are interchangeable, and so are requests.
Ids == Permutations(Subject) \cup Permutations(UserId) \cup Permutations(Request)
=============================================================================
