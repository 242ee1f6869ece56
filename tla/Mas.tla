--------------------------------- MODULE Mas ---------------------------------
(***************************************************************************)
(* The multi-agent loop (fusil/mas/univers.py) over arbitrary agents.  In  *)
(* each step the MTA runs first and delivers every queued message, then    *)
(* every agent, in the order of project.agents, pops its mailbox, handles  *)
(* the messages one by one and lives.  What a handler does is left open:   *)
(* it may send a message, activate or deactivate agents, or drop all the   *)
(* waiting messages as Project.destroySession does.                        *)
(*                                                                         *)
(* "id" and "step" in a message are history: the position of the message   *)
(* in the order of all sends, and the step in which it was sent.           *)
(***************************************************************************)
EXTENDS Mailboxes

CONSTANTS N,          \* number of agents behind the MTA; agent i is i-th
          Event       \* the events

ASSUME NAssumption == N \in Nat
ASSUME AgentsAssumption == Agents = 1..N
ASSUME SubscribersAssumption == Subscribers \in [Event -> SUBSET Agents]

VARIABLES turn,       \* whose turn it is: 0 is the MTA, N + 1 the end
          popped,     \* the agent at turn has read its mailbox
          sent,       \* number of messages sent so far
          step        \* number of the current step of Univers.execute

vars == <<queue, mailbox, active, inbox, turn, popped, sent, step>>

Message == [event : Event, id : Nat, step : Nat]

Init ==
    /\ queue = << >>
    /\ mailbox = [a \in Agents |-> << >>]
    /\ active = Agents
    /\ inbox = << >>
    /\ turn = 0
    /\ popped = FALSE
    /\ sent = 0
    /\ step = 1

-----------------------------------------------------------------------------
\* MTA.live: one message after the other, in the order they were sent.
MtaDeliver ==
    /\ turn = 0
    /\ DeliverNext
    /\ UNCHANGED <<turn, popped, sent, step>>

MtaDone ==
    /\ turn = 0
    /\ queue = << >>
    /\ turn' = 1
    /\ popped' = FALSE
    /\ UNCHANGED <<mailVars, sent, step>>

\* Univers.executeAgent returns at once for an inactive agent.
SkipAgent ==
    /\ turn \in Agents
    /\ ~popped
    /\ turn \notin active
    /\ turn' = turn + 1
    /\ UNCHANGED <<mailVars, popped, sent, step>>

ReadMailbox ==
    /\ turn \in Agents
    /\ ~popped
    /\ turn \in active
    /\ PopMessages(turn)
    /\ popped' = TRUE
    /\ UNCHANGED <<turn, sent, step>>

\* Agent.send: only an active agent may send (an inactive one raises).
Send(e) ==
    /\ turn \in active
    /\ queue' = Append(queue, [event |-> e, id |-> sent + 1, step |-> step])
    /\ sent' = sent + 1
    /\ UNCHANGED <<mailbox, active>>

\* What one call made by a handler or by live() may do to the system.
Effect ==
    \/ \E e \in Event : Send(e)
    \/ \E a \in Agents \ active : Activate({a}) /\ UNCHANGED <<queue, sent>>
    \/ \E a \in active : /\ active' = active \ {a}
                         /\ UNCHANGED <<queue, mailbox, sent>>
    \/ \E S \in SUBSET Agents : /\ queue' = << >>
                                /\ mailbox' = Emptied(S)
                                /\ UNCHANGED <<active, sent>>

\* A call made while the agent at turn handles its messages or lives.
Act ==
    /\ turn \in Agents
    /\ popped
    /\ Effect
    /\ UNCHANGED <<inbox, turn, popped, step>>

\* The handler of the first popped message returns.
HandleNext ==
    /\ turn \in Agents
    /\ popped
    /\ inbox # << >>
    /\ inbox' = Tail(inbox)
    /\ UNCHANGED <<queue, mailbox, active, turn, popped, sent, step>>

\* live() returns and the loop goes on to the next agent of the list.
EndTurn ==
    /\ turn \in Agents
    /\ popped
    /\ inbox = << >>
    /\ turn' = turn + 1
    /\ popped' = FALSE
    /\ UNCHANGED <<mailVars, sent, step>>

\* The end of one step: the loop starts again with the MTA.
NextStep ==
    /\ turn = N + 1
    /\ turn' = 0
    /\ step' = step + 1
    /\ UNCHANGED <<mailVars, popped, sent>>

Next ==
    \/ MtaDeliver
    \/ MtaDone
    \/ SkipAgent
    \/ ReadMailbox
    \/ Act
    \/ HandleNext
    \/ EndTurn
    \/ NextStep

Spec == Init /\ [][Next]_vars

-----------------------------------------------------------------------------
MsgSeq == Seq(Message)

TypeOK ==
    /\ queue \in MsgSeq
    /\ mailbox \in [Agents -> MsgSeq]
    /\ active \in SUBSET Agents
    /\ inbox \in MsgSeq
    /\ turn \in 0..(N + 1)
    /\ popped \in BOOLEAN
    /\ sent \in Nat
    /\ step \in Nat \ {0}

\* Every message an agent is about to handle was sent in the step before,
\* whatever agents were deactivated and activated again in between: the
\* loop never hands an agent a message left over from an earlier life
\* (Mailbox.clear in Agent.activate, the is_active test of
\* Mailbox.deliver, MTA.clear at the end of MTA.live).
HandledFresh ==
    \A i \in DOMAIN inbox : inbox[i].step + 1 = step

\* An agent handles messages in the order in which they were sent, none of
\* them twice: the ids it pops, and those still to come, only increase.
Increasing(s) == \A i, j \in DOMAIN s : i < j => s[i].id < s[j].id
Before(s, t) == \A i \in DOMAIN s : \A j \in DOMAIN t : s[i].id < t[j].id

HandledInOrder == Increasing(inbox) /\ Before(inbox, queue)

-----------------------------------------------------------------------------
\* The strengthening of these properties that every step preserves.

\* The agent a has not read its mailbox yet in this step.
ToRead(a) == a > turn \/ (a = turn /\ ~popped)

AllFrom(s, k) == \A i \in DOMAIN s : s[i].step = k
Known(s, n) == \A i \in DOMAIN s : s[i].id <= n

\* Messages wait in the queue from their sending to the next turn of the MTA.
QueueInv ==
    /\ AllFrom(queue, IF turn = 0 THEN step - 1 ELSE step)
    /\ Increasing(queue)
    /\ Known(queue, sent)

\* A message waits in the mailbox of an active agent between the turn of the
\* MTA and that of the agent; what is left to an inactive agent is older.
MailboxInv ==
    \A a \in Agents :
        /\ a \in active /\ mailbox[a] # << >> =>
              AllFrom(mailbox[a], step - 1) /\ ToRead(a)
        /\ Increasing(mailbox[a])
        /\ Before(mailbox[a], queue)
        /\ Known(mailbox[a], sent)

InboxInv ==
    /\ popped => turn \in Agents
    /\ inbox # << >> => popped
    /\ Known(inbox, sent)

Inv == TypeOK /\ QueueInv /\ MailboxInv /\ InboxInv /\ HandledFresh /\ HandledInOrder

=============================================================================
