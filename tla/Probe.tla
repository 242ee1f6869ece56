-------------------------------- MODULE Probe --------------------------------
(***************************************************************************)
(* What the project takes for granted about the agents that run a target   *)
(* (the actions ProbeOnSessionStart, ProbeTargetDone and TargetsStopped of *)
(* Fusil): in one session a target is started at most once; when it has    *)
(* ended the probe gives its score and asks for the end of the session,    *)
(* once; and no session is closed with a target that still runs.  Process  *)
(* implements this specification.                                          *)
(***************************************************************************)
CONSTANTS Score, None       \* the scores of a target that has ended

VARIABLES life,     \* "closed" or "open" session, "broken" or "over" run
          target,   \* "idle" or "running"
          score,    \* the score of the probe
          asked     \* the probe has asked for the end of the session

vars == <<life, target, score, asked>>

Init ==
    /\ life = "closed"
    /\ target = "idle"
    /\ score = None
    /\ asked = FALSE

Open ==
    /\ life = "closed"
    /\ life' = "open"
    /\ score' = None
    /\ asked' = FALSE
    /\ UNCHANGED target

Start ==
    /\ life = "open" /\ target = "idle" /\ ~asked
    /\ target' = "running"
    /\ UNCHANGED <<life, score, asked>>

Done ==
    /\ life = "open" /\ target = "running"
    /\ target' = "idle"
    /\ score' \in Score
    /\ asked' = TRUE
    /\ UNCHANGED life

Close ==
    /\ life = "open"
    /\ life' = "closed"
    /\ target' = "idle"
    /\ UNCHANGED <<score, asked>>

\* An error or an interrupt: the run is given up in the middle of a session,
\* perhaps while the target was being started or closed.
Break ==
    /\ life \in {"closed", "open"}
    /\ life' = "broken"
    /\ target' \in {"idle", "running"}
    /\ UNCHANGED <<score, asked>>

\* The agents are closed as far as they can be, and the run is over.
End ==
    /\ life = "broken"
    /\ life' \in {"broken", "over"}
    /\ target' \in {"idle", target}
    /\ UNCHANGED <<score, asked>>

Next == Open \/ Start \/ Done \/ Close \/ Break \/ End

Spec == Init /\ [][Next]_vars
=============================================================================
