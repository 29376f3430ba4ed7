--------------------------- MODULE MCCheckerRun ---------------------------
(***************************************************************************)
(* Values for the constants of CheckerRun, for TLC.                        *)
(***************************************************************************)
EXTENDS CheckerRun

MCQuestions == {[tier |-> "free", ml |-> FALSE], [tier |-> "free", ml |-> TRUE],
                [tier |-> "pro", ml |-> TRUE]}

\* Scores on both sides of every threshold, alone or added up.
MCPoints == [c \in Names \ {"ml"} |->
               CASE c = "heuristics" -> {9, 10}
                 [] c = "openphish" -> {80}
                 [] c = "virustotal" -> {30}
                 [] OTHER -> {}]
MCMlScores == {-1, 39, 100}
=============================================================================
