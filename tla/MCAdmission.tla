---------------------------- MODULE MCAdmission ----------------------------
(***************************************************************************)
(* Values for the constants of Admission, for TLC.                         *)
(***************************************************************************)
EXTENDS Admission, TLC

RequestSymmetry == Permutations(Requests)

\* The default cap of anonymous clients, and a larger one for keys.
MCCap == [i \in Identities |-> IF i = Anonymous THEN 1 ELSE 2]
=============================================================================
