------------------------------ MODULE Mailboxes ------------------------------
(***************************************************************************)
(* The message transfer agent (fusil/mas/mta.py), the mailboxes it fills   *)
(* (fusil/mas/mailbox.py) and the part of an agent that both of them look  *)
(* at: whether it is active (fusil/mas/agent.py).                          *)
(*                                                                         *)
(* A message is a record with at least the field "event".  Subscribers[e]  *)
(* is the mailing list of event e: the agents whose class has a method     *)
(* on_<e>.  The operators below describe what the code does to this state; *)
(* Mas and Fusil build their actions from them.                            *)
(***************************************************************************)
EXTENDS Naturals, Sequences

CONSTANTS Agents,       \* every agent that has a mailbox
          Subscribers   \* [event |-> set of the agents listening to it]

VARIABLES queue,        \* MTA.queue: messages sent and not yet delivered
          mailbox,      \* Mailbox.messages of every agent
          active,       \* the agents whose is_active is True
          inbox         \* messages popped by the agent being executed and
                        \* not yet handled (a local of Agent.readMailbox)

mailVars == <<queue, mailbox, active, inbox>>

\* Mailbox.deliver: an inactive agent never receives a message (mutant: the
\* new message goes in front of those that wait).
DeliveredFirst(m) ==
    [a \in Agents |-> IF a \in active /\ a \in Subscribers[m.event]
                      THEN <<m>> \o mailbox[a]
                      ELSE mailbox[a]]
Delivered(m) ==
    [a \in Agents |-> IF a \in active /\ a \in Subscribers[m.event]
                      THEN Append(mailbox[a], m)
                      ELSE mailbox[a]]

\* One turn of the loop of MTA.live; the queue is cleared once all its
\* messages have been copied, and nothing is sent meanwhile.
DeliverNext ==
    /\ queue # << >>
    /\ mailbox' = Delivered(Head(queue))
    /\ queue' = Tail(queue)
    /\ UNCHANGED <<active, inbox>>

\* Mailbox.popMessages, called by Agent.readMailbox.
PopMessages(a) ==
    /\ inbox' = mailbox[a]
    /\ mailbox' = [mailbox EXCEPT ![a] = << >>]
    /\ UNCHANGED <<queue, active>>

\* Mailbox.clear of every agent of S.
Emptied(S) == [a \in Agents |-> IF a \in S THEN << >> ELSE mailbox[a]]

\* Agent.activate of every agent of S: activating an inactive agent empties
\* its mailbox first.  (Activating an active one raises; no caller does.)
\* (Mutant: the mailbox keeps what it held when the agent was deactivated.)
ActivateOnly(S) ==
    /\ active' = active \cup S
    /\ UNCHANGED mailbox
Activate(S) ==
    /\ active' = active \cup S
    /\ mailbox' = Emptied(S)

=============================================================================
