------------------------------- MODULE MCFusil -------------------------------
(***************************************************************************)
(* Model-checking instances of Fusil.  A target scores 0 when it exits     *)
(* normally and 100% when it crashes, an input it rejects -50%; the        *)
(* success and error scores are the defaults of fusil/config.py.           *)
(***************************************************************************)
EXTENDS Fusil

CONSTANTS p1, p2
OneProbe == <<p1>>
TwoProbes == <<p1, p2>>

MCErrorScore == -50
CrashOrNot == {0, 100}
AllScores == {-50, 0, 50, 100}
=============================================================================
