---------------------------- MODULE MCAggressivity ----------------------------
(***************************************************************************)
(* Values of the constants of Aggressivity for TLC.                        *)
(***************************************************************************)
EXTENDS Aggressivity

\* Errors, nothing special, something special, a success.
MCScores == {-60, -10, 0, 30, 60}
MCOptions == {1, 50, -20}
=============================================================================
