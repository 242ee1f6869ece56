------------------------------ MODULE AgentProofs ------------------------------
(***************************************************************************)
(* Proofs about two agents of the project that know nothing of each other: *)
(* Aggressivity, for every set of scores, every range of the aggressivity  *)
(* and every age, and NetServer, for any number of connections             *)
(* and sessions.                                                           *)
(***************************************************************************)
EXTENDS Aggressivity, NetServer, TLAPS

-----------------------------------------------------------------------------
(* The aggressivity.                                                       *)

\* Both records are set by the first score, and ordered.
RecordsOrdered ==
    min_score # NoScore => min_score <= max_score

\* What the session is fuzzed with is the current value, and a success does
\* not change it.
GivenInv ==
    /\ open => given = aggressivity
    /\ ~open /\ score # NoScore /\ SuccessScore <= score
           => given = aggressivity

Inv == TypeOK /\ Envelope /\ RecordsOrdered /\ GivenInv

-----------------------------------------------------------------------------
\* setValue returns a value of the range, and leaves those of the range alone.
LEMMA ClampedInRange ==
    ASSUME NEW v \in Int
    PROVE  /\ Clamped(v) \in AggressivityMin..AggressivityMax
           /\ v \in AggressivityMin..AggressivityMax => Clamped(v) = v
BY RangeAssumption DEF Clamped

\* The increment of any state is an integer, that of a success is zero.
LEMMA Increments ==
    ASSUME NEW new
    PROVE  Increment(new) \in Int /\ Increment("success") = 0
BY DEF Increment, IncrementOf

\* updateState returns a state, or nothing.
LEMMA UpdatedStates ==
    ASSUME NEW s, NEW age
    PROVE  UpdatedState(s, age) \in States \cup {"none"}
BY DEF UpdatedState, States

\* The invariant holds when the agent is created.
LEMMA InitInv == Init => Inv
<1> SUFFICES ASSUME Init PROVE Inv
  OBVIOUS
<1>1. aggressivity \in AggressivityMin..AggressivityMax
  BY ClampedInRange, RangeAssumption DEF Init
<1>2. /\ state = "init" /\ state_age = 1 /\ min_score = NoScore
      /\ max_score = NoScore /\ given = aggressivity /\ score = NoScore
      /\ seen = {} /\ open = FALSE
  BY DEF Init
<1>3. state_age \in 1..AgeBound
  BY <1>2, AgesAssumption
<1>4. TypeOK
  BY <1>1, <1>2, <1>3 DEF TypeOK, States
<1>5. Envelope /\ RecordsOrdered /\ GivenInv
  BY <1>2 DEF Envelope, RecordsOrdered, GivenInv
<1> QED
  BY <1>4, <1>5 DEF Inv

\* Sending the value changes nothing else.
LEMMA SessionStartInv == Inv /\ SessionStart => Inv'
BY DEF Inv, SessionStart, TypeOK, Envelope, RecordsOrdered, GivenInv

\* The records after a session of score s.
LEMMA Records ==
    ASSUME TypeOK, Envelope, RecordsOrdered, NEW s \in Scores
    PROVE  /\ NewMin(s) \in Scores /\ NewMax(s) \in Scores
           /\ NewMin(s) <= NewMax(s)
           /\ s < SuccessScore => NewMin(s) <= s /\ s <= NewMax(s)
           /\ \A x \in seen : NewMin(s) <= x /\ x <= NewMax(s)
<1> USE ScoresAssumption DEF NewMin, NewMax, Improves, Worsens, Lowest, Highest
<1>1. CASE min_score = NoScore
  <2>1. max_score = NoScore
    BY <1>1 DEF Envelope
  <2>2. seen = {}
    <3> SUFFICES ASSUME NEW x \in seen PROVE FALSE
      OBVIOUS
    <3>1. x \in Int /\ min_score <= x /\ x <= max_score
      BY DEF TypeOK, Envelope
    <3> QED
      BY <3>1, <1>1, <2>1 DEF Envelope, TypeOK
  <2> QED
    BY <1>1, <2>1, <2>2
<1>2. CASE min_score # NoScore
  <2>1. min_score \in Int /\ max_score \in Int /\ min_score <= max_score
    BY <1>2 DEF TypeOK, Envelope, RecordsOrdered
  <2>2. min_score \in Scores /\ max_score \in Scores /\ s \in Int
    BY <1>2, <2>1 DEF TypeOK
  <2>3. \A x \in seen : x \in Int /\ min_score <= x /\ x <= max_score
    BY DEF TypeOK, Envelope
  <2> QED
    BY <1>2, <2>1, <2>2, <2>3
<1> QED
  BY <1>1, <1>2

\* What a session of score s does.
Concluded(s) ==
    LET new == UpdatedState(s, OlderAge)
    IN  /\ score' = s
        /\ seen' = seen \cup (IF s < SuccessScore THEN {s} ELSE {})
        /\ state' = IF new = "none" THEN state ELSE new
        /\ state_age' = Age(new, OlderAge)
        /\ aggressivity' = Clamped(aggressivity + Increment(new))
        /\ min_score' = NewMin(s)
        /\ max_score' = NewMax(s)

\* A session that ends has some score.
LEMMA SessionDoneScore ==
    ASSUME SessionDone
    PROVE  /\ open /\ open' = FALSE /\ given' = given
           /\ \E s \in Scores : Concluded(s)
BY DEF SessionDone, Concluded

\* A session that ends preserves the invariant.
LEMMA SessionDoneInv == Inv /\ SessionDone => Inv'
<1> SUFFICES ASSUME Inv, SessionDone PROVE Inv'
  OBVIOUS
<1>1. PICK s \in Scores : Concluded(s)
  BY SessionDoneScore
<1>2. /\ score' = s
      /\ seen' = seen \cup (IF s < SuccessScore THEN {s} ELSE {})
      /\ min_score' = NewMin(s) /\ max_score' = NewMax(s)
      /\ open /\ open' = FALSE /\ given' = given
  BY <1>1, SessionDoneScore DEF Concluded
<1>3. aggressivity \in AggressivityMin..AggressivityMax /\ aggressivity \in Int
  BY RangeAssumption DEF Inv, TypeOK
<1>4. /\ aggressivity' \in AggressivityMin..AggressivityMax
      /\ SuccessScore <= s => aggressivity' = aggressivity
  <2> DEFINE new == UpdatedState(s, OlderAge)
  <2>1. aggressivity' = Clamped(aggressivity + Increment(new))
    BY <1>1 DEF Concluded
  <2>2. aggressivity + Increment(new) \in Int
    BY <1>3, Increments
  <2>3. SuccessScore <= s => new = "success"
    BY DEF UpdatedState
  <2>4. SuccessScore <= s => aggressivity + Increment(new) = aggressivity
    BY <1>3, <2>3, Increments
  <2> HIDE DEF new
  <2> QED
    BY <1>3, <2>1, <2>2, <2>4, ClampedInRange
<1>5. state' \in States
  BY <1>1, UpdatedStates DEF Concluded, Inv, TypeOK
<1>6. state_age' \in 1..AgeBound
  BY <1>1, AgesAssumption DEF Concluded, Age, OlderAge, Inv, TypeOK
<1>7. TypeOK'
  BY <1>2, <1>4, <1>5, <1>6, Records DEF Inv, TypeOK
<1>8. Envelope' /\ RecordsOrdered'
  <2>1. NewMin(s) # NoScore /\ NewMax(s) # NoScore
    BY Records, ScoresAssumption DEF Inv
  <2>2. \A x \in seen' : min_score' <= x /\ x <= max_score'
    BY <1>2, Records DEF Inv
  <2>3. min_score' <= max_score'
    BY <1>2, Records DEF Inv
  <2> QED
    BY <1>2, <2>1, <2>2, <2>3 DEF Envelope, RecordsOrdered
<1>9. GivenInv'
  BY <1>2, <1>4 DEF Inv, GivenInv
<1> QED
  BY <1>7, <1>8, <1>9 DEF Inv

\* Inv is an invariant of the state machine.
THEOREM Invariance == Spec => []Inv
<1>1. Inv /\ UNCHANGED vars => Inv'
  BY DEF Inv, vars, TypeOK, Envelope, RecordsOrdered, GivenInv
<1>2. Inv /\ [Next]_vars => Inv'
  BY <1>1, SessionStartInv, SessionDoneInv DEF Next
<1> QED
  BY InitInv, <1>2, PTL DEF Spec

\* The aggressivity never leaves its range (AggressivityAgent.setValue).
THEOREM TypeCorrect == Spec => []TypeOK
<1>1. Inv => TypeOK
  BY DEF Inv
<1> QED
  BY <1>1, Invariance, PTL

\* No score escapes the records of updateState.
THEOREM RecordsEnvelope == Spec => []Envelope
<1>1. Inv => Envelope
  BY DEF Inv
<1> QED
  BY <1>1, Invariance, PTL

\* A success does not change the aggressivity of the next session
\* (AggressivityAgent.update, on_session_start).
THEOREM SuccessIsKept == Spec => SuccessKept
<1>1. Inv /\ [Next]_vars =>
        [~open /\ open' /\ score # NoScore /\ SuccessScore <= score
            => given' = given]_vars
  <2> SUFFICES ASSUME Inv, [Next]_vars, ~open, open', score # NoScore,
                      SuccessScore <= score
               PROVE  given' = given
    OBVIOUS
  <2>1. CASE SessionStart
    BY <2>1 DEF SessionStart, Inv, GivenInv
  <2>2. CASE SessionDone
    BY <2>2 DEF SessionDone
  <2>3. CASE UNCHANGED vars
    BY <2>3 DEF vars
  <2> QED
    BY <2>1, <2>2, <2>3 DEF Next
<1> QED
  BY <1>1, Invariance, PTL DEF Spec, SuccessKept

\* A session that ends at a limit leaves the state that pushes against it.
LEMMA LimitLeftAfter ==
    ASSUME Inv, NEW s \in Scores, Concluded(s)
    PROVE  /\ aggressivity = AggressivityMax /\ state \in Growing
                 => state' \notin Growing
           /\ aggressivity = AggressivityMin /\ state \in Reducing
                 => state' \notin Reducing \/ min_score' < min_score
<1> DEFINE new == UpdatedState(s, OlderAge)
<1>1. state' = IF new = "none" THEN state ELSE new
  BY DEF Concluded
<1>2. aggressivity = AggressivityMax /\ state \in Growing
        => new \in {"success", "0", "-", "--"}
  BY RangeAssumption DEF UpdatedState, AtLimit, Bored, Accelerating, Growing
<1>3. ASSUME aggressivity = AggressivityMin, state \in Reducing
      PROVE  new \in {"success", "0"} \/ min_score' < min_score
  <2>1. CASE s < SuccessScore /\ ~Improves(s) /\ Worsens(s)
    <3>1. min_score # NoScore
      BY <2>1, ScoresAssumption DEF Worsens, Lowest
    <3>2. min_score' = s
      BY <2>1 DEF Concluded, NewMin
    <3> QED
      BY <2>1, <3>1, <3>2 DEF Worsens, Lowest
  <2>2. CASE ~(s < SuccessScore /\ ~Improves(s) /\ Worsens(s))
    <3>1. ~(AggressivityMin < aggressivity) /\ AtLimit
      BY <1>3, RangeAssumption DEF AtLimit
    <3>2. s \in Int
      BY ScoresAssumption
    <3>3. ~Bored(OlderAge) /\ ~Accelerating(OlderAge) /\ state # "init"
      BY <1>3 DEF Bored, Accelerating, Reducing
    <3>4. ~(s < SuccessScore) <=> SuccessScore <= s
      BY <3>2, ScoresAssumption
    <3> QED
      BY <2>2, <3>1, <3>3, <3>4 DEF UpdatedState
  <2> QED
    BY <2>1, <2>2
<1> HIDE DEF new
<1> QED
  BY <1>1, <1>2, <1>3 DEF Growing, Reducing

\* A state that pushes against an end of the range is left
\* (AggressivityAgent.updateState).
THEOREM LimitIsLeft == Spec => LimitLeft
<1>1. Inv /\ [Next]_vars =>
        [open /\ ~open' =>
           /\ aggressivity = AggressivityMax /\ state \in Growing
                 => state' \notin Growing
           /\ aggressivity = AggressivityMin /\ state \in Reducing
                 => state' \notin Reducing \/ min_score' < min_score]_vars
  <2> SUFFICES ASSUME Inv, [Next]_vars, open, ~open'
               PROVE  /\ aggressivity = AggressivityMax /\ state \in Growing
                            => state' \notin Growing
                      /\ aggressivity = AggressivityMin /\ state \in Reducing
                            => state' \notin Reducing \/ min_score' < min_score
    OBVIOUS
  <2>1. SessionDone
    BY DEF Next, SessionStart, vars
  <2> QED
    BY <2>1, SessionDoneScore, LimitLeftAfter
<1> QED
  BY <1>1, Invariance, PTL DEF Spec, LimitLeft

-----------------------------------------------------------------------------
(* The server.                                                             *)

\* What a connection is tells how far it got: one that was never made is nowhere,
\* one in the backlog was not accepted, one with a socket was.  What was not read is
\* all that was sent, or what followed.
StagesOK ==
    \A p \in Peers :
        /\ peer[p] = "idle" => p \notin backlog /\ accepted[p] = 0
        /\ p \in backlog => accepted[p] = 0
        /\ p \in socket => accepted[p] # 0
        /\ answers[p] # 0 => accepted[p] # 0
        /\ input[p] \in {"none", sent[p]} \/ sent[p] = "joined"

\* live() is busy with one client at most, which is no longer among those to be read.
BusyOK ==
    /\ answering \cup closing \subseteq socket
    /\ answering \cup closing # {} => living
    /\ answering \cap closing = {} /\ readable \cap (answering \cup closing) = {}
    /\ \A p, q \in answering \cup closing : p = q
    /\ \A p \in answering : "good" \in Parses(sent[p])

ServerInv ==
    /\ ServerTypeOK /\ ClientsAgree /\ AnsweredOnce
    /\ StagesOK /\ BusyOK

\* No connection is made before the server is.
LEMMA InitServer == ASSUME ServerInit PROVE ServerInv
<1> USE DEF ServerInit
<1>1. ServerTypeOK
  <2>1. 1 \in 1..SessionBound /\ 0 \in 0..SessionBound
    BY NetAssumption
  <2> QED
    BY <2>1 DEF ServerTypeOK, Requests, Inputs
<1>2. ClientsAgree /\ AnsweredOnce /\ StagesOK /\ BusyOK
  BY DEF ClientsAgree, AnsweredOnce, StagesOK, BusyOK
<1> QED
  BY <1>1, <1>2 DEF ServerInv

\* A connection that waits for accept() is none of the server yet.
LEMMA ServerConnect == ServerInv /\ (\E p \in Peers : Connect(p)) => ServerInv'
BY NetAssumption DEF ServerInv, ServerTypeOK, ClientsAgree, AnsweredOnce,
   StagesOK, BusyOK, Connect, clientVars, liveVars, busyVars

\* More input may be taken for what it was taken for before.
LEMMA Joined ==
    ASSUME NEW data \in Inputs, NEW request \in Requests
    PROVE  /\ Join(data, request) \in Inputs \ {"none"}
           /\ Parses(data) \subseteq Parses(Join(data, request))
           /\ data # "none" => Join(data, request) = "joined"
           /\ data = "none" => Join(data, request) = request
BY DEF Inputs, Requests, Join, Parses

\* What is sent is added to what was not read.
LEMMA ServerSend ==
    ServerInv /\ (\E p \in Peers, request \in Requests : SendRequest(p, request))
        => ServerInv'
<1> SUFFICES ASSUME ServerInv, NEW p \in Peers, NEW request \in Requests, SendRequest(p, request)
             PROVE  ServerInv'
  OBVIOUS
<1>1. /\ peer[p] = "open"
      /\ input' = [input EXCEPT ![p] = Join(input[p], request)]
      /\ sent' = [sent EXCEPT ![p] = Join(sent[p], request)]
      /\ UNCHANGED <<listening, run, session, peer, backlog, clients, socket, agents, accepted,
                     heard, answers, readable, accepting, living, answering, closing>>
  BY DEF SendRequest, clientVars, liveVars, busyVars
<1>2. input[p] \in Inputs /\ sent[p] \in Inputs
  BY DEF ServerInv, ServerTypeOK
<1>3. \A q \in Peers : Parses(sent[q]) \subseteq Parses(sent'[q])
  BY <1>1, <1>2, Joined DEF ServerInv, ServerTypeOK
<1>4. ServerTypeOK'
  BY <1>1, <1>2, Joined DEF ServerInv, ServerTypeOK
<1>5. ClientsAgree' /\ AnsweredOnce' /\ BusyOK'
  BY <1>1, <1>3 DEF ServerInv, ServerTypeOK, ClientsAgree, AnsweredOnce, BusyOK
<1>6. StagesOK'
  <2>1. input'[p] \in {"none", sent'[p]} \/ sent'[p] = "joined"
    BY <1>1, <1>2, Joined DEF ServerInv, ServerTypeOK, StagesOK
  <2> QED
    BY <1>1, <2>1 DEF ServerInv, ServerTypeOK, StagesOK
<1> QED
  BY <1>4, <1>5, <1>6 DEF ServerInv

\* A peer that leaves changes nothing for the server before a read.
LEMMA ServerLeave ==
    ServerInv /\ (\E p \in Peers, how \in {"closed", "reset"} : Leave(p, how))
        => ServerInv'
BY NetAssumption DEF ServerInv, ServerTypeOK, ClientsAgree, AnsweredOnce,
   StagesOK, BusyOK, Leave, clientVars, liveVars, busyVars

\* select() returns clients, when live() is not busy with any.
LEMMA ServerSelect == ServerInv /\ Select => ServerInv'
BY NetAssumption DEF ServerInv, ServerTypeOK, ClientsAgree, AnsweredOnce,
   StagesOK, BusyOK, Select, peerVars, clientVars, busyVars

\* A client is accepted in the session that is open.
LEMMA ServerAccept == ServerInv /\ (\E p \in Peers : Accept(p)) => ServerInv'
<1> SUFFICES ASSUME ServerInv, NEW p \in Peers, Accept(p) PROVE ServerInv'
  OBVIOUS
<1> USE NetAssumption DEF ServerInv, ServerTypeOK, Accept, busyVars
<1>1. ServerTypeOK'
  <2>1. session \in 0..SessionBound
    OBVIOUS
  <2> QED
    BY <2>1
<1>2. ClientsAgree'
  BY DEF ClientsAgree, StagesOK
<1>3. AnsweredOnce'
  BY DEF AnsweredOnce, StagesOK
<1>4. StagesOK' /\ BusyOK'
  BY DEF StagesOK, BusyOK
<1> QED
  BY <1>1, <1>2, <1>3, <1>4

\* What was read and may be a request may be one of those that were sent.
LEMMA ReadWasSent ==
    ASSUME ServerInv, NEW p \in Peers, NEW request \in Parses(input[p])
    PROVE  request \in Parses(sent[p])
BY DEF ServerInv, ServerTypeOK, StagesOK, Parses, Requests

\* A read changes neither the clients nor the answers, and the client was accepted.
LEMMA ReadStep ==
    ASSUME ServerInv, NEW p \in Peers, Reads(p)
    PROVE  /\ run = "on" /\ living /\ answering = {} /\ closing = {} /\ p \in socket
           /\ accepted[p] # 0 /\ p \notin readable' /\ readable' \subseteq readable
           /\ UNCHANGED <<session, peer, backlog, sent, clients, socket, agents, accepted, answers,
                          living>>
           /\ StagesOK'
           /\ input' \in [Peers -> Inputs] /\ heard' \subseteq Peers
<1>1. /\ run = "on" /\ living /\ answering \cup closing = {} /\ p \in readable
      /\ readable' = readable \ {p} /\ input' = [input EXCEPT ![p] = "none"]
      /\ heard' \subseteq heard \cup {p}
      /\ UNCHANGED <<session, peer, backlog, sent, clients, socket, agents, accepted, answers,
                     living>>
  BY DEF Reads
<1>2. p \in socket /\ accepted[p] # 0
  BY <1>1 DEF ServerInv, ClientsAgree, StagesOK
<1>3. input' \in [Peers -> Inputs] /\ heard' \subseteq Peers
  BY <1>1 DEF ServerInv, ServerTypeOK, Inputs
<1>4. StagesOK'
  BY <1>1 DEF ServerInv, ServerTypeOK, StagesOK
<1> QED
  BY <1>1, <1>2, <1>3, <1>4

\* An empty read is the way to a close.
LEMMA ServerReadNothing ==
    ServerInv /\ (\E p \in Peers : ReadNothing(p)) => ServerInv'
<1> SUFFICES ASSUME ServerInv, NEW p \in Peers, ReadNothing(p) PROVE ServerInv'
  OBVIOUS
<1>1. Reads(p) /\ closing' = {p} /\ run' = run /\ answering' = answering
  BY DEF ReadNothing
<1>2. ServerTypeOK'
  BY <1>1, ReadStep DEF ServerInv, ServerTypeOK, Reads
<1>3. ClientsAgree' /\ AnsweredOnce' /\ BusyOK'
  BY <1>1, ReadStep DEF ServerInv, ClientsAgree, AnsweredOnce, BusyOK
<1> QED
  BY <1>1, <1>2, <1>3, ReadStep DEF ServerInv

\* A request that cannot be parsed ends the run.
LEMMA ServerReadBadRequest ==
    ServerInv /\ (\E p \in Peers : ReadBadRequest(p)) => ServerInv'
<1> SUFFICES ASSUME ServerInv, NEW p \in Peers, ReadBadRequest(p) PROVE ServerInv'
  OBVIOUS
<1>1. /\ Reads(p) /\ run' = "failed" /\ UNCHANGED <<answering, closing>>
      /\ "bad" \in Parses(input[p])
  BY DEF ReadBadRequest, busyVars
<1>2. "bad" \in Parses(sent[p])
  BY <1>1, ReadWasSent
<1>3. ServerTypeOK'
  BY <1>1, ReadStep DEF ServerInv, ServerTypeOK, Reads
<1>4. ClientsAgree' /\ AnsweredOnce' /\ BusyOK'
  BY <1>1, <1>2, ReadStep DEF ServerInv, ClientsAgree, AnsweredOnce, BusyOK
<1> QED
  BY <1>1, <1>3, <1>4, ReadStep DEF ServerInv

\* A good request was sent, and is answered next.
LEMMA ServerReadGoodRequest ==
    ServerInv /\ (\E p \in Peers : ReadGoodRequest(p)) => ServerInv'
<1> SUFFICES ASSUME ServerInv, NEW p \in Peers, ReadGoodRequest(p) PROVE ServerInv'
  OBVIOUS
<1>1. /\ Reads(p) /\ answering' = {p} /\ UNCHANGED <<run, closing>>
      /\ "good" \in Parses(input[p])
  BY DEF ReadGoodRequest
<1>2. "good" \in Parses(sent[p])
  BY <1>1, ReadWasSent
<1>3. ServerTypeOK'
  BY <1>1, ReadStep DEF ServerInv, ServerTypeOK, Reads
<1>4. ClientsAgree' /\ AnsweredOnce' /\ BusyOK'
  BY <1>1, <1>2, ReadStep DEF ServerInv, ClientsAgree, AnsweredOnce, BusyOK
<1> QED
  BY <1>1, <1>3, <1>4, ReadStep DEF ServerInv

\* The client that is answered was not answered before, and is closed next.
LEMMA ServerAnswer == ServerInv /\ (\E p \in Peers : Answer(p)) => ServerInv'
<1> SUFFICES ASSUME ServerInv, NEW p \in Peers, Answer(p) PROVE ServerInv'
  OBVIOUS
<1>1. /\ run = "on" /\ p \in answering /\ answering' = {} /\ closing' = {p}
      /\ answers' = [answers EXCEPT ![p] = @ + 1] \/ answers' = answers
      /\ UNCHANGED <<listening, run, session, peer, backlog, input, sent, clients, socket, agents,
                     accepted, heard, readable, accepting, living>>
  BY DEF Answer, peerVars
<1>2. /\ p \in socket /\ closing = {} /\ living /\ p \notin readable
      /\ "good" \in Parses(sent[p]) /\ accepted[p] # 0
  BY <1>1 DEF ServerInv, BusyOK, StagesOK
<1>3. answers[p] = 0
  BY <1>1, <1>2 DEF ServerInv, ServerTypeOK, AnsweredOnce
<1>4. answers'[p] \in {0, 1} /\ \A q \in Peers \ {p} : answers'[q] = answers[q]
  BY <1>1, <1>3 DEF ServerInv, ServerTypeOK
<1>5. ServerTypeOK'
  BY <1>1 DEF ServerInv, ServerTypeOK
<1>6. ClientsAgree' /\ BusyOK'
  BY <1>1, <1>2 DEF ServerInv, ClientsAgree, BusyOK
<1>7. AnsweredOnce'
  BY <1>1, <1>2, <1>4 DEF ServerInv, AnsweredOnce
<1>8. StagesOK'
  BY <1>1, <1>2, <1>4 DEF ServerInv, StagesOK
<1> QED
  BY <1>5, <1>6, <1>7, <1>8 DEF ServerInv

\* A close ends the connection, or the run when shutdown() raises.
LEMMA ServerClose == ServerInv /\ (\E p \in Peers : Close(p)) => ServerInv'
<1> SUFFICES ASSUME ServerInv, NEW p \in Peers, Close(p) PROVE ServerInv'
  OBVIOUS
<1>1. /\ run = "on" /\ p \in closing /\ closing' = {}
      /\ UNCHANGED <<listening, session, peer, backlog, sent, agents, accepted, heard, answers,
                     readable, accepting, living, answering>>
  BY DEF Close
<1>2. p \in socket /\ accepted[p] # 0 /\ closing = {p} /\ answering = {} /\ p \notin readable
  BY <1>1 DEF ServerInv, BusyOK, StagesOK
<1>3. CASE peer[p] = "reset"
  <2>1. run' = "failed" /\ UNCHANGED <<clients, socket, input>>
    BY <1>3 DEF Close, Closes
  <2>2. ServerTypeOK' /\ StagesOK'
    BY <1>1, <2>1 DEF ServerInv, ServerTypeOK, StagesOK
  <2>3. ClientsAgree' /\ AnsweredOnce' /\ BusyOK'
    BY <1>1, <1>2, <1>3, <2>1 DEF ServerInv, ClientsAgree, AnsweredOnce, BusyOK
  <2> QED
    BY <2>2, <2>3 DEF ServerInv
<1>4. CASE peer[p] # "reset"
  <2>1. /\ clients' = clients \ {p} /\ socket' = socket \ {p} /\ run' = run
        /\ input' = [input EXCEPT ![p] = "none"]
    BY <1>4 DEF Close, Closes
  <2>2. ServerTypeOK' /\ StagesOK'
    BY <1>1, <2>1 DEF ServerInv, ServerTypeOK, StagesOK, Inputs
  <2>3. ClientsAgree' /\ AnsweredOnce' /\ BusyOK'
    BY <1>1, <1>2, <2>1 DEF ServerInv, ClientsAgree, AnsweredOnce, BusyOK
  <2> QED
    BY <2>2, <2>3 DEF ServerInv
<1> QED
  BY <1>3, <1>4

\* live() returns.
LEMMA ServerEndLive == ServerInv /\ EndLive => ServerInv'
BY NetAssumption DEF ServerInv, ServerTypeOK, ClientsAgree, AnsweredOnce,
   StagesOK, BusyOK, EndLive, peerVars, clientVars, busyVars

\* The connections go on into the next session, their agents do not.
LEMMA ServerNewSession == ServerInv /\ NewSession => ServerInv'
<1> SUFFICES ASSUME ServerInv, NewSession PROVE ServerInv'
  OBVIOUS
<1> USE NetAssumption DEF ServerInv, ServerTypeOK, NewSession, peerVars,
   liveVars, busyVars
<1>1. ServerTypeOK'
  <2>1. session' \in 1..SessionBound
    OBVIOUS
  <2> QED
    BY <2>1
<1>2. ClientsAgree'
  BY DEF ClientsAgree
<1>3. AnsweredOnce' /\ StagesOK' /\ BusyOK'
  BY DEF AnsweredOnce, StagesOK, BusyOK
<1> QED
  BY <1>1, <1>2, <1>3

\* Nothing happens.
LEMMA ServerStutter == ServerInv /\ UNCHANGED serverVars => ServerInv'
BY NetAssumption DEF ServerInv, ServerTypeOK, ClientsAgree, AnsweredOnce,
   StagesOK, BusyOK, serverVars

\* Every step of the server, its sessions and the peers.
LEMMA NextServer == ServerInv /\ [ServerNext]_serverVars => ServerInv'
BY ServerConnect, ServerSend, ServerLeave, ServerSelect, ServerAccept, ServerReadNothing,
   ServerReadBadRequest, ServerReadGoodRequest, ServerAnswer, ServerClose, ServerEndLive,
   ServerNewSession, ServerStutter DEF ServerNext, Live, Serve

\* The invariant of the server.
LEMMA ServerInvariance == ServerSpec => []ServerInv
<1>1. ServerInit => ServerInv
  BY InitServer
<1> QED
  BY <1>1, NextServer, PTL DEF ServerSpec

\* The clients of the server are its open connections, and only a reset connection
\* or a request that cannot be parsed ends the run.  (NetworkServer.live)
THEOREM ClientsAlwaysAgree == ServerSpec => []ClientsAgree
<1>1. ServerInv => ClientsAgree
  BY DEF ServerInv
<1> QED
  BY <1>1, ServerInvariance, PTL

\* One answer to a connection, to what may be a good request; then it is closed, about to
\* be, or was reset before shutdown(), which has ended the run.  (HttpServer.serveData)
THEOREM AnsweredAtMostOnce == ServerSpec => []AnsweredOnce
<1>1. ServerInv => AnsweredOnce
  BY DEF ServerInv
<1> QED
  BY <1>1, ServerInvariance, PTL

\* The state of the server and of its connections has its type.
THEOREM ServerTypeCorrect == ServerSpec => []ServerTypeOK
<1>1. ServerInv => ServerTypeOK
  BY DEF ServerInv
<1> QED
  BY <1>1, ServerInvariance, PTL

===============================================================================
