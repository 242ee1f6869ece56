------------------------------ MODULE MCProcess ------------------------------
(***************************************************************************)
(* Model-checking instances of Process: a target that exits normally, with *)
(* an error or with 127 (the shell did not find it), and that is sent      *)
(* SIGSEGV or SIGTERM.                                                     *)
(***************************************************************************)
EXTENDS Process

Codes == {0, 1, 127}
Fatal == {-11}
Other == {-15}
=============================================================================
