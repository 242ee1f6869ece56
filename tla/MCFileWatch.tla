----------------------------- MODULE MCFileWatch -----------------------------
(***************************************************************************)
(* A model-checking instance of FileWatch: a warning, a fatal error, a     *)
(* word that reassures and one that is ignored, written in pieces that do  *)
(* not end where lines end.                                                *)
(***************************************************************************)
EXTENDS FileWatch

AllKinds == {"log", "tail", "stdout"}
SomeWords == {"warning", "fatal", "skip"}
WordWeight == [w \in SomeWords |-> CASE w = "warning" -> 40 [] w = "fatal" -> 100 [] OTHER -> 0]
IgnoredWords == {"skip"}
SomeWrites == {<<"warning">>, <<"fatal", "LF">>, <<"CR", "LF">>, <<"skip", "LF">>}
Penalty == -20
=============================================================================
