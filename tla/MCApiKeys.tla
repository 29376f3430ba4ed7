----------------------------- MODULE MCApiKeys -----------------------------
(***************************************************************************)
(* Values for the constants of ApiKeys, for TLC.                           *)
(***************************************************************************)
EXTENDS ApiKeys, TLC

\* Disable the key, enable it, change its tier.
MCUpdates == {[tier |-> None, enabled |-> "false"], [tier |-> None, enabled |-> "true"],
              [tier |-> "pro", enabled |-> None]}

SlotSymmetry == Permutations(Clients) \cup Permutations(Admins)
=============================================================================
