------------------------------ MODULE FuzzLoop ------------------------------
(***************************************************************************)
(* What a Fusil run promises to its user (the docstrings of Project and    *)
(* Application, doc/usage.rst), without the agents and their messages:     *)
(* sessions run one after the other, each is concluded once, with a        *)
(* success or without, and the run goes on until a limit is reached or it  *)
(* is stopped.  Fusil implements this specification.                       *)
(***************************************************************************)
EXTENDS Naturals

CONSTANTS MaxSession,   \* wanted number of sessions, 0 is unlimited
          MaxSuccess    \* wanted number of successes, 0 is unlimited

VARIABLES run,          \* "starting", "fuzzing", "stopping" or "over"
          opened,       \* number of sessions opened so far
          inSession,    \* the last of them is not closed
          successes     \* number of successes

vars == <<run, opened, inSession, successes>>

Init ==
    /\ run = "starting"
    /\ opened = 0
    /\ inSession = FALSE
    /\ successes = 0

\* The first session.
Begin ==
    /\ run = "starting"
    /\ run' = "fuzzing"
    /\ opened' = 1
    /\ inSession' = TRUE
    /\ UNCHANGED successes

Enough(n, s) ==
    \/ 0 < MaxSession /\ MaxSession <= n
    \/ 0 < MaxSuccess /\ MaxSuccess <= s

\* The session gets its verdict and is closed; the next one may be opened at
\* once, but only as long as it is wanted.
Conclude ==
    /\ run = "fuzzing" /\ inSession
    /\ successes' \in {successes, successes + 1}
    /\ \/ inSession' = FALSE /\ opened' = opened
          /\ run' \in {"fuzzing", "stopping"}
       \/ ~Enough(opened, successes') /\ opened' = opened + 1
          /\ UNCHANGED <<inSession, run>>

\* A session is closed without a verdict.
Abandon ==
    /\ run = "fuzzing" /\ inSession
    /\ inSession' = FALSE
    /\ UNCHANGED <<run, opened, successes>>

\* The end of the run is asked for, or forced by an error.
Stop ==
    /\ run \in {"starting", "fuzzing"}
    /\ run' = "stopping"
    /\ UNCHANGED <<opened, inSession, successes>>

Finish ==
    /\ run = "stopping"
    /\ run' = "over"
    /\ inSession' = FALSE
    /\ UNCHANGED <<opened, successes>>

Next == Begin \/ Conclude \/ Abandon \/ Stop \/ Finish

Spec == Init /\ [][Next]_vars
=============================================================================
