-------------------------------- MODULE MCMas --------------------------------
(***************************************************************************)
(* Model-checking instance of Mas: the counters of the history are bounded *)
(* in the guard of every step, so the loop stops after MaxStep steps.      *)
(***************************************************************************)
EXTENDS Mas

CONSTANTS MaxSent,    \* bound on the messages sent in one behaviour
          MaxStep     \* bound on the steps of Univers.execute

MCAgents == 1..N
\* Everybody listens to the first event, only agent 1 to the second.
MCSubscribers == [e \in Event |-> IF e = "stop" THEN {1} ELSE MCAgents]

MCNext == Next /\ sent' <= MaxSent /\ step' <= MaxStep
MCSpec == Init /\ [][MCNext]_vars
=============================================================================
