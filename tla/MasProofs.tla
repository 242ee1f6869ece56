------------------------------ MODULE MasProofs ------------------------------
(***************************************************************************)
(* Proofs about Mas, for any number of agents, any events and any mailing  *)
(* lists: the invariant Inv is inductive, hence every message is handled   *)
(* in the step after the one it was sent in, and in the order of sending.  *)
(***************************************************************************)
EXTENDS Mas, SequenceTheorems, TLAPS

-----------------------------------------------------------------------------
(* Sequences of messages.                                                  *)

\* The empty sequence satisfies every predicate of the invariant.
LEMMA EmptyMessages ==
    /\ << >> \in MsgSeq
    /\ \A k : AllFrom(<< >>, k)
    /\ Increasing(<< >>) /\ \A n : Known(<< >>, n)
    /\ \A t : Before(<< >>, t) /\ Before(t, << >>)
BY DEF MsgSeq, AllFrom, Increasing, Known, Before

\* The elements of a sequence of messages are messages.
LEMMA MessageFields ==
    ASSUME NEW s \in MsgSeq, NEW i \in DOMAIN s
    PROVE  s[i].id \in Nat /\ s[i].step \in Nat
<1>1. s \in [1..Len(s) -> Message] /\ DOMAIN s = 1..Len(s)
  BY LenProperties DEF MsgSeq
<1>2. s[i] \in Message
  BY <1>1
<1> QED
  BY <1>2 DEF Message

\* Removing the first message keeps the predicates, and what is left comes
\* after the message removed.
LEMMA TailMessages ==
    ASSUME NEW s \in MsgSeq, s # << >>
    PROVE  /\ Head(s) \in Message /\ Tail(s) \in MsgSeq
           /\ \A k : AllFrom(s, k) => AllFrom(Tail(s), k) /\ Head(s).step = k
           /\ Increasing(s) =>
                 /\ Increasing(Tail(s))
                 /\ \A i \in DOMAIN Tail(s) : Head(s).id < Tail(s)[i].id
           /\ \A n : Known(s, n) => Known(Tail(s), n) /\ Head(s).id <= n
           /\ \A t : Before(s, t) => Before(Tail(s), t)
           /\ \A t : Before(t, s) =>
                 /\ Before(t, Tail(s))
                 /\ \A i \in DOMAIN t : t[i].id < Head(s).id
<1>1. /\ Head(s) \in Message /\ Tail(s) \in MsgSeq
      /\ Len(s) \in Nat /\ Len(Tail(s)) = Len(s) - 1
      /\ DOMAIN s = 1..Len(s) /\ DOMAIN Tail(s) = 1..(Len(s) - 1)
      /\ \A i \in 1..(Len(s) - 1) : Tail(s)[i] = s[i + 1]
      /\ Head(s) = s[1] /\ 1 \in DOMAIN s
  BY HeadTailProperties, LenProperties, EmptySeq DEF MsgSeq
<1>2. \A i \in DOMAIN Tail(s) : i + 1 \in DOMAIN s /\ Tail(s)[i] = s[i + 1]
  BY <1>1
<1>3. \A k : AllFrom(s, k) => AllFrom(Tail(s), k) /\ Head(s).step = k
  BY <1>1, <1>2 DEF AllFrom
<1>4. ASSUME Increasing(s)
      PROVE  /\ Increasing(Tail(s))
             /\ \A i \in DOMAIN Tail(s) : Head(s).id < Tail(s)[i].id
  <2>1. ASSUME NEW i \in DOMAIN Tail(s), NEW j \in DOMAIN Tail(s), i < j
        PROVE  Tail(s)[i].id < Tail(s)[j].id
    <3>1. i + 1 < j + 1
      BY <1>1, <2>1
    <3> QED
      BY <1>2, <1>4, <3>1 DEF Increasing
  <2>2. ASSUME NEW i \in DOMAIN Tail(s)
        PROVE  Head(s).id < Tail(s)[i].id
    <3>1. 1 < i + 1
      BY <1>1
    <3> QED
      BY <1>1, <1>2, <1>4, <3>1 DEF Increasing
  <2> QED
    BY <2>1, <2>2 DEF Increasing
<1>5. \A n : Known(s, n) => Known(Tail(s), n) /\ Head(s).id <= n
  BY <1>1, <1>2 DEF Known
<1>6. \A t : Before(s, t) => Before(Tail(s), t)
  BY <1>2 DEF Before
<1>7. ASSUME NEW t, Before(t, s)
      PROVE  /\ Before(t, Tail(s))
             /\ \A i \in DOMAIN t : t[i].id < Head(s).id
  BY <1>1, <1>2, <1>7 DEF Before
<1> QED
  BY <1>1, <1>3, <1>4, <1>5, <1>6, <1>7

\* Appending a message that is at least as recent as the sequence.
LEMMA AppendMessages ==
    ASSUME NEW s \in MsgSeq, NEW m \in Message
    PROVE  /\ Append(s, m) \in MsgSeq /\ Append(s, m) # << >>
           /\ \A k : AllFrom(s, k) /\ m.step = k => AllFrom(Append(s, m), k)
           /\ Increasing(s) /\ (\A i \in DOMAIN s : s[i].id < m.id) =>
                 Increasing(Append(s, m))
           /\ \A n : Known(s, n) /\ m.id <= n => Known(Append(s, m), n)
           /\ \A t : Before(s, t) /\ (\A i \in DOMAIN t : m.id < t[i].id) =>
                 Before(Append(s, m), t)
           /\ \A t : Before(t, s) /\ (\A i \in DOMAIN t : t[i].id < m.id) =>
                 Before(t, Append(s, m))
<1> DEFINE a == Append(s, m)
<1>1. /\ a \in MsgSeq /\ a # << >>
      /\ Len(s) \in Nat /\ DOMAIN s = 1..Len(s)
      /\ Len(a) = Len(s) + 1 /\ DOMAIN a = 1..(Len(s) + 1)
      /\ \A i \in 1..Len(s) : a[i] = s[i]
      /\ a[Len(s) + 1] = m
  BY AppendProperties, LenProperties DEF MsgSeq
<1>2. \A i \in DOMAIN a : \/ i \in DOMAIN s /\ a[i] = s[i]
                          \/ i = Len(s) + 1 /\ a[i] = m
  BY <1>1
<1> HIDE DEF a
<1>3. \A k : AllFrom(s, k) /\ m.step = k => AllFrom(a, k)
  BY <1>2 DEF AllFrom
<1>4. ASSUME Increasing(s), \A i \in DOMAIN s : s[i].id < m.id
      PROVE  Increasing(a)
  <2> SUFFICES ASSUME NEW i \in DOMAIN a, NEW j \in DOMAIN a, i < j
               PROVE  a[i].id < a[j].id
    BY DEF Increasing
  <2>1. i \in DOMAIN s /\ a[i] = s[i]
    BY <1>1
  <2>2. CASE j \in DOMAIN s
    BY <1>1, <1>4, <2>1, <2>2 DEF Increasing
  <2>3. CASE j = Len(s) + 1
    BY <1>1, <1>4, <2>1, <2>3
  <2> QED
    BY <1>2, <2>2, <2>3
<1>5. \A n : Known(s, n) /\ m.id <= n => Known(a, n)
  BY <1>2 DEF Known
<1>6. ASSUME NEW t, Before(s, t), \A i \in DOMAIN t : m.id < t[i].id
      PROVE  Before(a, t)
  BY <1>2, <1>6 DEF Before
<1>7. ASSUME NEW t, Before(t, s), \A i \in DOMAIN t : t[i].id < m.id
      PROVE  Before(t, a)
  BY <1>2, <1>7 DEF Before
<1> QED
  BY <1>1, <1>3, <1>4, <1>5, <1>6, <1>7 DEF a

-----------------------------------------------------------------------------
(* The steps.  Each lemma is about the actions that share what they change. *)

\* The invariant holds before the first step of Univers.execute.
LEMMA InitInv == Init => Inv
<1> SUFFICES ASSUME Init PROVE Inv
  OBVIOUS
<1>1. TypeOK
  <2>1. << >> \in MsgSeq
    BY EmptyMessages
  <2>2. turn \in 0..(N + 1) /\ sent \in Nat /\ step \in Nat \ {0}
    BY NAssumption DEF Init
  <2>3. popped \in BOOLEAN
    BY DEF Init
  <2> QED
    BY <2>1, <2>2, <2>3 DEF Init, TypeOK
<1>2. QueueInv /\ MailboxInv /\ InboxInv
  BY EmptyMessages DEF Init, QueueInv, MailboxInv, InboxInv
<1>3. HandledFresh /\ HandledInOrder
  BY EmptyMessages DEF Init, HandledFresh, HandledInOrder
<1> QED
  BY <1>1, <1>2, <1>3 DEF Inv

\* The MTA appends the first message of the queue, which was sent in the
\* step before and after all those that wait in the mailboxes.
LEMMA MtaDeliverInv == Inv /\ MtaDeliver => Inv'
<1> SUFFICES ASSUME Inv, MtaDeliver PROVE Inv'
  OBVIOUS
<1> USE DEF Inv
<1> DEFINE m == Head(queue)
<1>1. /\ queue \in MsgSeq /\ queue # << >> /\ queue' = Tail(queue)
      /\ mailbox' = Delivered(m)
      /\ turn = 0 /\ turn' = 0
      /\ UNCHANGED <<active, inbox, popped, sent, step>>
  BY DEF TypeOK, MtaDeliver, DeliverNext
<1>2. /\ m \in Message /\ queue' \in MsgSeq
      /\ m.step = step - 1 /\ AllFrom(queue', step - 1)
      /\ Increasing(queue') /\ Known(queue', sent) /\ m.id <= sent
      /\ \A i \in DOMAIN queue' : m.id < queue'[i].id
  BY <1>1, TailMessages DEF QueueInv
<1>3. ASSUME NEW a \in Agents
      PROVE  /\ mailbox'[a] \in MsgSeq
             /\ a \in active => AllFrom(mailbox'[a], step - 1)
             /\ Increasing(mailbox'[a]) /\ Known(mailbox'[a], sent)
             /\ Before(mailbox'[a], queue')
  <2>1. /\ mailbox[a] \in MsgSeq /\ Increasing(mailbox[a]) /\ Known(mailbox[a], sent)
        /\ Before(mailbox[a], queue)
        /\ a \in active => AllFrom(mailbox[a], step - 1)
    BY EmptyMessages DEF TypeOK, MailboxInv
  <2>2. /\ Before(mailbox[a], queue')
        /\ \A i \in DOMAIN mailbox[a] : mailbox[a][i].id < m.id
    BY <1>1, <2>1, TailMessages
  <2>3. CASE mailbox'[a] = mailbox[a]
    BY <2>1, <2>2, <2>3
  <2>4. CASE mailbox'[a] = Append(mailbox[a], m)
    BY <1>2, <2>1, <2>2, <2>4, AppendMessages
  <2> QED
    BY <1>1, <2>3, <2>4 DEF Delivered
<1> HIDE DEF m
<1>4. TypeOK'
  <2>1. mailbox' \in [Agents -> MsgSeq]
    BY <1>1, <1>3 DEF Delivered
  <2> QED
    BY <1>1, <1>2, <2>1 DEF TypeOK
<1>5. QueueInv'
  BY <1>1, <1>2 DEF QueueInv, AllFrom, Known
<1>6. MailboxInv'
  <2>1. \A a \in Agents : ToRead(a)'
    BY <1>1, AgentsAssumption, NAssumption DEF ToRead
  <2> QED
    BY <1>1, <1>3, <2>1 DEF MailboxInv
<1>7. InboxInv' /\ HandledFresh' /\ HandledInOrder'
  <2>1. Before(inbox, queue')
    BY <1>1, TailMessages DEF HandledInOrder
  <2> QED
    BY <1>1, <2>1 DEF InboxInv, HandledFresh, HandledInOrder, Known, Increasing, Before
<1> QED
  BY <1>4, <1>5, <1>6, <1>7

\* The queue is empty when the turn of the MTA ends.
LEMMA MtaDoneInv == Inv /\ MtaDone => Inv'
<1> SUFFICES ASSUME Inv, MtaDone PROVE Inv'
  OBVIOUS
<1> USE DEF Inv
<1>1. /\ turn = 0 /\ queue = << >> /\ turn' = 1 /\ popped' = FALSE
      /\ UNCHANGED <<queue, mailbox, active, inbox, sent, step>>
  BY DEF MtaDone, mailVars
<1>2. TypeOK'
  <2>1. turn' \in 0..(N + 1)
    BY <1>1, NAssumption
  <2>2. popped' \in BOOLEAN
    BY <1>1
  <2> QED
    BY <1>1, <2>1, <2>2 DEF TypeOK
<1>3. QueueInv'
  BY <1>1, EmptyMessages DEF QueueInv
<1>4. MailboxInv'
  <2>1. \A a \in Agents : ToRead(a)'
    BY <1>1, AgentsAssumption, NAssumption DEF ToRead
  <2> QED
    BY <1>1, <2>1 DEF MailboxInv
<1>5. inbox = << >>
  BY <1>1, AgentsAssumption, NAssumption DEF InboxInv
<1>6. InboxInv' /\ HandledFresh' /\ HandledInOrder'
  BY <1>1, <1>5, EmptyMessages DEF InboxInv, HandledFresh, HandledInOrder
<1> QED
  BY <1>2, <1>3, <1>4, <1>6

\* Steps that end the turn of an agent: its mailbox is empty if it is active.
LEMMA TurnInv ==
    ASSUME Inv, turn \in Agents, turn' = turn + 1, popped' = FALSE,
           inbox = << >>, turn \in active => popped,
           UNCHANGED <<mailVars, sent, step>>
    PROVE  Inv'
<1> USE DEF Inv
<1>1. UNCHANGED <<queue, mailbox, active, inbox, sent, step>>
  BY DEF mailVars
<1>2. TypeOK'
  <2>1. turn' \in 0..(N + 1)
    BY NAssumption, AgentsAssumption
  <2> QED
    BY <1>1, <2>1 DEF TypeOK
<1>3. QueueInv'
  BY <1>1, AgentsAssumption, NAssumption DEF QueueInv
<1>4. MailboxInv'
  <2> SUFFICES ASSUME NEW a \in Agents, a \in active, mailbox[a] # << >>
               PROVE  ToRead(a)'
    BY <1>1 DEF MailboxInv
  <2>1. ToRead(a) /\ a \in Nat /\ turn \in Nat
    BY AgentsAssumption, NAssumption DEF MailboxInv
  <2>2. a # turn
    BY <2>1 DEF ToRead
  <2> QED
    BY <2>1, <2>2 DEF ToRead
<1>5. InboxInv' /\ HandledFresh' /\ HandledInOrder'
  BY <1>1 DEF InboxInv, HandledFresh, HandledInOrder
<1> QED
  BY <1>2, <1>3, <1>4, <1>5

\* The agent takes the messages that were waiting for it.
LEMMA ReadMailboxInv == Inv /\ ReadMailbox => Inv'
<1> SUFFICES ASSUME Inv, ReadMailbox PROVE Inv'
  OBVIOUS
<1> USE DEF Inv
<1>1. /\ turn \in Agents /\ turn \in active /\ ~popped /\ popped'
      /\ inbox' = mailbox[turn]
      /\ mailbox' = [mailbox EXCEPT ![turn] = << >>]
      /\ UNCHANGED <<queue, active, turn, sent, step>>
  BY DEF ReadMailbox, PopMessages
<1>2. /\ mailbox[turn] \in MsgSeq
      /\ mailbox[turn] # << >> => AllFrom(mailbox[turn], step - 1)
      /\ Increasing(mailbox[turn]) /\ Known(mailbox[turn], sent)
      /\ Before(mailbox[turn], queue)
  BY <1>1 DEF TypeOK, MailboxInv
<1>3. TypeOK'
  <2>1. popped' \in BOOLEAN
    BY DEF ReadMailbox
  <2>2. mailbox' \in [Agents -> MsgSeq]
    BY <1>1, EmptyMessages DEF TypeOK
  <2> QED
    BY <1>1, <1>2, <2>1, <2>2 DEF TypeOK
<1>4. QueueInv'
  BY <1>1 DEF QueueInv
<1>5. MailboxInv'
  <2>1. ASSUME NEW a \in Agents
        PROVE  \/ mailbox'[a] = << >>
               \/ mailbox'[a] = mailbox[a] /\ (ToRead(a) => ToRead(a)')
    BY <1>1 DEF ToRead, TypeOK
  <2> QED
    BY <1>1, <2>1, EmptyMessages DEF MailboxInv
<1>6. InboxInv' /\ HandledInOrder'
  BY <1>1, <1>2 DEF InboxInv, HandledInOrder
<1>7. HandledFresh'
  BY <1>1, <1>2 DEF HandledFresh, AllFrom, TypeOK
<1> QED
  BY <1>3, <1>4, <1>5, <1>6, <1>7

\* A message is sent after all those that are under way.
LEMMA SendInv ==
    ASSUME Inv, NEW e \in Event, Send(e), turn \in Agents, popped,
           UNCHANGED <<inbox, turn, popped, step>>
    PROVE  Inv'
<1> USE DEF Inv
<1> DEFINE m == [event |-> e, id |-> sent + 1, step |-> step]
<1>1. /\ queue' = Append(queue, m) /\ sent' = sent + 1
      /\ UNCHANGED <<mailbox, active>>
  BY DEF Send
<1>2. /\ m \in Message /\ m.id = sent + 1 /\ m.step = step
      /\ sent \in Nat /\ turn # 0 /\ queue \in MsgSeq
  BY AgentsAssumption, NAssumption DEF TypeOK, Message
<1> HIDE DEF m
<1>3. ASSUME NEW s \in MsgSeq, Known(s, sent)
      PROVE  /\ \A i \in DOMAIN s : s[i].id < m.id
             /\ Known(s, sent')
             /\ Before(s, queue) => Before(s, queue')
  <2>1. \A i \in DOMAIN s : s[i].id \in Nat
    BY MessageFields
  <2>2. /\ \A i \in DOMAIN s : s[i].id < m.id
        /\ Known(s, sent')
    BY <1>1, <1>2, <2>1, <1>3 DEF Known
  <2> QED
    BY <1>1, <1>2, <2>2, AppendMessages
<1>4. TypeOK'
  BY <1>1, <1>2, AppendMessages DEF TypeOK
<1>5. QueueInv'
  <2>1. AllFrom(queue', step) /\ Increasing(queue')
    BY <1>1, <1>2, <1>3, AppendMessages DEF QueueInv
  <2>2. Known(queue', sent')
    BY <1>1, <1>2, <1>3, AppendMessages DEF QueueInv
  <2> QED
    BY <1>2, <2>1, <2>2 DEF QueueInv
<1>6. MailboxInv'
  <2>1. \A a \in Agents : mailbox[a] \in MsgSeq /\ Known(mailbox[a], sent)
    BY DEF TypeOK, MailboxInv
  <2> QED
    BY <1>1, <1>3, <2>1 DEF MailboxInv, ToRead
<1>7. InboxInv' /\ HandledFresh' /\ HandledInOrder'
  BY <1>1, <1>3 DEF TypeOK, InboxInv, HandledFresh, HandledInOrder
<1> QED
  BY <1>4, <1>5, <1>6, <1>7

\* Activating an agent empties its mailbox, deactivating it leaves old
\* messages behind, clear() drops messages: what remains keeps its order.
LEMMA OtherEffectInv ==
    ASSUME Inv,
           UNCHANGED <<inbox, turn, popped, step, sent>>,
           active' \subseteq Agents,
           \A a \in Agents : \/ mailbox'[a] = << >>
                             \/ mailbox'[a] = mailbox[a] /\ (a \in active' => a \in active),
           mailbox' \in [Agents -> MsgSeq],
           queue' = queue \/ queue' = << >>
    PROVE  Inv'
<1> USE DEF Inv
<1>1. TypeOK'
  BY EmptyMessages DEF TypeOK
<1>2. QueueInv'
  BY EmptyMessages DEF QueueInv
<1>3. MailboxInv'
  BY EmptyMessages DEF MailboxInv, ToRead
<1>4. InboxInv' /\ HandledFresh' /\ HandledInOrder'
  BY EmptyMessages DEF InboxInv, HandledFresh, HandledInOrder
<1> QED
  BY <1>1, <1>2, <1>3, <1>4

\* Whatever a handler or live() does, the invariant is preserved.
LEMMA ActInv == Inv /\ Act => Inv'
<1> SUFFICES ASSUME Inv, Act PROVE Inv'
  OBVIOUS
<1>1. /\ turn \in Agents /\ popped /\ Effect
      /\ UNCHANGED <<inbox, turn, popped, step>>
  BY DEF Act
<1>2. /\ active \subseteq Agents /\ mailbox \in [Agents -> MsgSeq]
      /\ << >> \in MsgSeq
  BY EmptyMessages DEF Inv, TypeOK
<1>3. CASE \E e \in Event : Send(e)
  BY <1>1, <1>3, SendInv
<1>4. ASSUME NEW a \in Agents \ active, Activate({a}), UNCHANGED <<queue, sent>>
      PROVE  Inv'
  <2>1. active' = active \cup {a} /\ mailbox' = Emptied({a})
    BY <1>4 DEF Activate
  <2> QED
    BY <1>1, <1>2, <1>4, <2>1, OtherEffectInv DEF Emptied
<1>5. ASSUME NEW a \in active, active' = active \ {a},
             UNCHANGED <<queue, mailbox, sent>>
      PROVE  Inv'
  BY <1>1, <1>2, <1>5, OtherEffectInv
<1>6. ASSUME NEW S \in SUBSET Agents, queue' = << >>, mailbox' = Emptied(S),
             UNCHANGED <<active, sent>>
      PROVE  Inv'
  BY <1>1, <1>2, <1>6, OtherEffectInv DEF Emptied
<1> QED
  BY <1>1, <1>3, <1>4, <1>5, <1>6 DEF Effect

\* Handling a message leaves the later ones in the inbox.
LEMMA HandleNextInv == Inv /\ HandleNext => Inv'
<1> SUFFICES ASSUME Inv, HandleNext PROVE Inv'
  OBVIOUS
<1> USE DEF Inv
<1>1. /\ inbox # << >> /\ inbox' = Tail(inbox) /\ inbox \in MsgSeq
      /\ UNCHANGED <<queue, mailbox, active, turn, popped, sent, step>>
      /\ popped /\ turn \in Agents
  BY DEF HandleNext, TypeOK
<1>2. TypeOK'
  BY <1>1, TailMessages DEF TypeOK
<1>3. QueueInv' /\ MailboxInv'
  BY <1>1 DEF QueueInv, MailboxInv, ToRead
<1>4. InboxInv' /\ HandledInOrder'
  BY <1>1, TailMessages DEF InboxInv, HandledInOrder
<1>5. HandledFresh'
  <2>1. AllFrom(inbox, step - 1)
    <3>1. \A i \in DOMAIN inbox : inbox[i].step \in Nat
      BY <1>1, MessageFields
    <3> QED
      BY <3>1 DEF HandledFresh, AllFrom, TypeOK
  <2>2. AllFrom(inbox', step - 1)
    BY <1>1, <2>1, TailMessages
  <2> QED
    BY <1>1, <2>2 DEF HandledFresh, AllFrom, TypeOK
<1> QED
  BY <1>2, <1>3, <1>4, <1>5

\* Every active agent has read its mailbox by the end of the step.
LEMMA NextStepInv == Inv /\ NextStep => Inv'
<1> SUFFICES ASSUME Inv, NextStep PROVE Inv'
  OBVIOUS
<1> USE DEF Inv
<1>1. /\ turn = N + 1 /\ turn' = 0 /\ step' = step + 1 /\ step \in Nat \ {0}
      /\ UNCHANGED <<queue, mailbox, active, inbox, popped, sent>>
  BY DEF NextStep, mailVars, TypeOK
<1>2. turn \notin Agents /\ turn # 0
  BY <1>1, AgentsAssumption, NAssumption
<1>3. ~popped /\ inbox = << >>
  BY <1>2 DEF InboxInv
<1>4. TypeOK'
  <2>1. turn' \in 0..(N + 1) /\ step' \in Nat \ {0}
    BY <1>1, NAssumption
  <2> QED
    BY <1>1, <2>1 DEF TypeOK
<1>5. QueueInv'
  <2>1. step' - 1 = step
    BY <1>1
  <2> QED
    BY <1>1, <1>2, <2>1 DEF QueueInv
<1>6. MailboxInv'
  <2>1. \A a \in Agents : ~ToRead(a)
    BY <1>1, <1>2, AgentsAssumption, NAssumption DEF ToRead
  <2> QED
    BY <1>1, <2>1 DEF MailboxInv
<1>7. InboxInv' /\ HandledFresh' /\ HandledInOrder'
  BY <1>1, <1>3, EmptyMessages DEF InboxInv, HandledFresh, HandledInOrder
<1> QED
  BY <1>4, <1>5, <1>6, <1>7

\* The invariant only speaks of the variables of the specification.
LEMMA StutterInv == Inv /\ UNCHANGED vars => Inv'
BY DEF vars, Inv, TypeOK, QueueInv, MailboxInv, InboxInv, ToRead, HandledFresh,
       HandledInOrder

\* Every step of the loop preserves the invariant.
LEMMA StepInv == Inv /\ [Next]_vars => Inv'
<1> SUFFICES ASSUME Inv, [Next]_vars PROVE Inv'
  OBVIOUS
<1>1. CASE SkipAgent
  <2>1. inbox = << >>
    BY <1>1 DEF SkipAgent, Inv, InboxInv
  <2>2. popped' = FALSE
    BY <1>1 DEF SkipAgent, Inv, TypeOK
  <2> QED
    BY <1>1, <2>1, <2>2, TurnInv DEF SkipAgent
<1>2. CASE EndTurn
  BY <1>2, TurnInv DEF EndTurn
<1> QED
  BY <1>1, <1>2, MtaDeliverInv, MtaDoneInv, ReadMailboxInv, ActInv,
     HandleNextInv, NextStepInv, StutterInv DEF Next

-----------------------------------------------------------------------------
(* The theorems.                                                           *)

\* Inv is an invariant of the loop.
THEOREM Invariance == Spec => []Inv
BY InitInv, StepInv, PTL DEF Spec

\* Every variable keeps its type, whatever the agents do.
THEOREM TypeCorrect == Spec => []TypeOK
<1>1. Inv => TypeOK
  BY DEF Inv
<1> QED
  BY <1>1, Invariance, PTL

\* An agent only handles messages sent in the step before, also when it was
\* deactivated and activated again in between (Mailbox.deliver, Agent.activate).
THEOREM Fresh == Spec => []HandledFresh
<1>1. Inv => HandledFresh
  BY DEF Inv
<1> QED
  BY <1>1, Invariance, PTL

\* An agent handles messages in the order of sending and none of them twice
\* (MTA.live, Mailbox.popMessages).
THEOREM InOrder == Spec => []HandledInOrder
<1>1. Inv => HandledInOrder
  BY DEF Inv
<1> QED
  BY <1>1, Invariance, PTL

=============================================================================
