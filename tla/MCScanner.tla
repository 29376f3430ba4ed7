----------------------------- MODULE MCScanner -----------------------------
(***************************************************************************)
(* Values for the constants of Scanner, for TLC.                           *)
(***************************************************************************)
EXTENDS Scanner, TLC

RequestSymmetry == Permutations(Requests)

\* An anonymous caller and a free key: the two cache profiles.
MCTwoProfiles == {Anonymous, Keyed("free", FALSE)}

MCOneCaller == {Anonymous}
=============================================================================
