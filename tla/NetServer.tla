------------------------------ MODULE NetServer ------------------------------
(***************************************************************************)
(* The HTTP server of a project (fusil/network/server.py, http_server.py,  *)
(* server_client.py) and the programs that connect to it.                  *)
(*                                                                         *)
(* The server is an agent of the project and keeps its sockets from one    *)
(* session to the next; the agent of a connection belongs to the session   *)
(* that accepted it.  live() asks select() once and then handles what was  *)
(* readable, the listening socket first: a client is read, answered and    *)
(* closed, and peers act between any two of these calls.                   *)
(* An exception that leaves live() ends the run (Application).             *)
(* ServerInit, ServerNext and so on are named for the proofs, which extend *)
(* this module together with that of another agent.                        *)
(***************************************************************************)
EXTENDS Naturals, FiniteSets

CONSTANTS
    Peers,          \* connections that may be made
    SessionBound    \* bound on the number of sessions

ASSUME NetAssumption == SessionBound \in Nat \ {0}

VARIABLES
    listening,      \* NetworkServer.socket is set
    run,            \* "on", or "failed": an exception has left live()
    session,        \* number of the session
    peer,           \* of a peer: "idle", "open", "closed" (it has sent FIN), "reset"
    backlog,        \* connections that the kernel holds for accept()
    input,          \* sent to the server and not read: see Join
    clients,        \* NetworkServer.clients
    socket,         \* the peers whose ServerClient.socket is set
    agents,         \* the peers whose ServerClient is an agent of the project
    readable,       \* what select() returned and live() has not handled
    accepting,      \* select() returned the listening socket, too
    living,         \* live() is running
    answering,      \* the client whose request was read and not answered, or none
    closing,        \* the client that is to be closed, or none
    accepted,       \* history: the session that accepted the peer, or 0
    sent,           \* history: all that a peer has sent
    heard,          \* history: the peers from whom something was read
    answers         \* history: answers sent to a peer

serverVars == <<listening, run, session, peer, backlog, input, clients, socket, agents,
                readable, accepting, living, answering, closing, accepted, sent, heard, answers>>
peerVars == <<peer, backlog, input, sent>>
clientVars == <<clients, socket, agents, accepted, heard, answers>>
busyVars == <<answering, closing>>
liveVars == <<readable, accepting, living, busyVars>>

Requests == {"good", "bad"}

\* What was sent and not read: pieces run into each other, and may be parts of a request.
Inputs == Requests \cup {"none", "joined"}
Join(data, request) == IF data = "none" THEN request ELSE "joined"

\* What HttpRequest may take it for.
Parses(data) == {request \in Requests : data \in {request, "joined"}}

ServerInit ==
    /\ listening \in BOOLEAN        \* bind() may fail
    /\ run = "on" /\ session = 1
    /\ peer = [p \in Peers |-> "idle"] /\ backlog = {}
    /\ input = [p \in Peers |-> "none"]
    /\ clients = {} /\ socket = {} /\ agents = {}
    /\ readable = {} /\ accepting = FALSE /\ living = FALSE /\ answering = {} /\ closing = {}
    /\ accepted = [p \in Peers |-> 0] /\ answers = [p \in Peers |-> 0]
    /\ sent = [p \in Peers |-> "none"] /\ heard = {}

-----------------------------------------------------------------------------
\* The peers.

Connect(p) ==
    /\ listening /\ peer[p] = "idle"
    /\ peer' = [peer EXCEPT ![p] = "open"]
    /\ backlog' = backlog \cup {p}
    /\ UNCHANGED <<listening, run, session, input, sent, clientVars, liveVars>>

\* A request or a part of one arrives, before the server has closed its end: after that
\* the kernel resets the peer.
SendRequest(p, request) ==
    /\ peer[p] = "open"
    /\ accepted[p] = 0 \/ p \in socket
    /\ input' = [input EXCEPT ![p] = Join(@, request)]
    /\ sent' = [sent EXCEPT ![p] = Join(@, request)]
    /\ UNCHANGED <<listening, run, session, peer, backlog, clientVars, liveVars>>

\* The peer closes its end of the connection, or resets it: also one that has closed its
\* end does, when it is sent data then.
Leave(p, how) ==
    /\ peer[p] = "open" \/ (peer[p] = "closed" /\ how = "reset")
    /\ peer' = [peer EXCEPT ![p] = how]
    /\ UNCHANGED <<listening, run, session, backlog, input, sent, clientVars, liveVars>>

-----------------------------------------------------------------------------
\* The server.

\* live() begins: fileno() of every client, and select() with a timeout of 0.
HasData(p) == input[p] # "none" \/ peer[p] \in {"closed", "reset"}
Select ==
    /\ run = "on" /\ listening /\ ~living
    /\ living' = TRUE
    /\ readable' = {p \in clients : HasData(p)}
    /\ accepting' = (backlog # {})
    /\ UNCHANGED <<listening, run, session, peerVars, clientVars, busyVars>>

\* acceptClient: a ServerClient registers with the project and with the session.
Accept(p) ==
    /\ run = "on" /\ living /\ accepting /\ p \in backlog
    /\ backlog' = backlog \ {p}
    /\ clients' = clients \cup {p}
    /\ socket' = socket \cup {p}
    /\ agents' = agents \cup {p}
    /\ accepted' = [accepted EXCEPT ![p] = session]
    /\ accepting' = FALSE
    /\ UNCHANGED <<listening, run, session, peer, input, sent, readable, living, busyVars,
                   heard, answers>>

\* clientRead of the next readable client: recvBytes takes all its input.
Reads(p) ==
    /\ run = "on" /\ living /\ ~accepting /\ answering \cup closing = {} /\ p \in readable
    /\ readable' = readable \ {p}
    /\ input' = [input EXCEPT ![p] = "none"]
    /\ heard' = IF input[p] = "none" THEN heard ELSE heard \cup {p}
    /\ UNCHANGED <<listening, session, peer, backlog, sent, clients, socket, agents, accepting,
                   living, accepted, answers>>

\* recvBytes finds no data, or an error: it closes.
ReadNothing(p) ==
    /\ Reads(p)
    /\ input[p] = "none" \/ peer[p] = "reset"
    /\ closing' = {p}
    /\ UNCHANGED <<run, answering>>

\* HttpRequest raises SyntaxError.
ReadBadRequest(p) ==
    /\ Reads(p)
    /\ "bad" \in Parses(input[p]) /\ peer[p] # "reset"
    /\ run' = "failed"
    /\ UNCHANGED busyVars

ReadGoodRequest(p) ==
    /\ Reads(p)
    /\ "good" \in Parses(input[p]) /\ peer[p] # "reset"
    /\ answering' = {p}
    /\ UNCHANGED <<run, closing>>

\* serveData: sendBytes sends the answer, or closes when send() is over its timeout or
\* finds the connection reset; the client is closed in any case.
Answer(p) ==
    /\ run = "on" /\ p \in answering
    /\ answering' = {} /\ closing' = {p}
    /\ \/ peer[p] # "reset" /\ answers' = [answers EXCEPT ![p] = @ + 1]
       \/ UNCHANGED answers
    /\ UNCHANGED <<listening, run, session, peerVars, clients, socket, agents, accepted, heard,
                   readable, accepting, living>>

\* Mutant of Closes: the socket is closed and the client stays in the list.
ClosesSocketOnly(p) ==
    IF peer[p] = "reset"
    THEN run' = "failed" /\ UNCHANGED <<clients, socket, input>>
    ELSE /\ socket' = socket \ {p} /\ input' = [input EXCEPT ![p] = "none"]
         /\ UNCHANGED <<clients, run>>

\* Mutant of Closes: the connection is kept for another request.
KeepsAlive(p) ==
    IF peer[p] = "reset"
    THEN run' = "failed" /\ UNCHANGED <<clients, socket, input>>
    ELSE UNCHANGED <<clients, socket, input, run>>

\* shutdown() raises on a connection that was reset, also after the answer: then the socket
\* stays set and listed, and the exception leaves live().  Otherwise the socket and the
\* client go, and what was not read goes with them.
Closes(p) ==
    IF peer[p] = "reset"
    THEN run' = "failed" /\ UNCHANGED <<clients, socket, input>>
    ELSE /\ clients' = clients \ {p} /\ socket' = socket \ {p}
         /\ input' = [input EXCEPT ![p] = "none"]
         /\ UNCHANGED run

\* ServerClient.close, and clientDisconnection for its ServerClientDisconnect.
Close(p) ==
    /\ run = "on" /\ p \in closing
    /\ closing' = {}
    /\ Closes(p)
    /\ UNCHANGED <<listening, session, peer, backlog, sent, agents, accepted, heard, answers,
                   readable, accepting, living, answering>>

EndLive ==
    /\ run = "on" /\ living /\ ~accepting /\ readable = {} /\ answering \cup closing = {}
    /\ living' = FALSE
    /\ UNCHANGED <<listening, run, session, peerVars, clientVars, readable, accepting, busyVars>>

\* Mutant: the clients of the closed session are forgotten.
ForgetsClients ==
    /\ run = "on" /\ ~living /\ session < SessionBound
    /\ session' = session + 1
    /\ agents' = {} /\ clients' = {}
    /\ listening' \in IF listening THEN {TRUE} ELSE BOOLEAN
    /\ UNCHANGED <<run, peerVars, socket, accepted, heard, answers, liveVars>>

\* destroySession and createSession, in the turn of the project: the agents of the
\* session are unregistered, those in clients live on; init() binds again if need be.
NewSession ==
    /\ run = "on" /\ ~living /\ session < SessionBound
    /\ session' = session + 1
    /\ agents' = {}
    /\ listening' \in IF listening THEN {TRUE} ELSE BOOLEAN
    /\ UNCHANGED <<run, peerVars, clients, socket, accepted, heard, answers,
                   liveVars>>

Serve(p) ==
    \/ Accept(p) \/ ReadNothing(p) \/ ReadBadRequest(p) \/ ReadGoodRequest(p)
    \/ Answer(p) \/ Close(p)
Live == Select \/ EndLive \/ \E p \in Peers : Serve(p)

ServerNext ==
    \/ Live \/ NewSession
    \/ \E p \in Peers :
          \/ Connect(p) \/ Leave(p, "closed") \/ Leave(p, "reset")
          \/ \E request \in Requests : SendRequest(p, request)

\* Univers calls live() again and again; peers do what they like.
ServerSpec == ServerInit /\ [][ServerNext]_serverVars
FairServerSpec == ServerSpec /\ WF_serverVars(Live)

-----------------------------------------------------------------------------
\* The type of every variable.
ServerTypeOK ==
    /\ listening \in BOOLEAN /\ run \in {"on", "failed"} /\ session \in 1..SessionBound
    /\ peer \in [Peers -> {"idle", "open", "closed", "reset"}]
    /\ backlog \subseteq Peers
    /\ input \in [Peers -> Inputs] /\ sent \in [Peers -> Inputs]
    /\ clients \subseteq Peers /\ socket \subseteq Peers /\ agents \subseteq Peers
    /\ readable \subseteq Peers /\ accepting \in BOOLEAN /\ living \in BOOLEAN
    /\ answering \subseteq Peers /\ closing \subseteq Peers /\ heard \subseteq Peers
    /\ accepted \in [Peers -> 0..SessionBound] /\ answers \in [Peers -> Nat]

\* As long as live() runs, the clients of the server are the open connections, or
\* fileno() would fail; those that are agents were accepted in this session; and
\* what ends the run is a reset connection or a request that cannot be parsed.
\* (NetworkServer.live, clientDisconnection, ServerClient.close, Session.deinit)
ClientsAgree ==
    /\ run = "on" => clients = socket
    /\ readable \subseteq socket
    /\ \A p \in agents : accepted[p] = session
    /\ run = "failed" =>
          \E p \in Peers : accepted[p] # 0 /\ (peer[p] = "reset" \/ "bad" \in Parses(sent[p]))

\* A connection gets one answer at most, to what may be a good request, whatever the peer
\* sends before, during and after the answer and whatever session it was accepted in.  Then
\* the connection is gone, or close() is its next step, or the peer has reset it before
\* shutdown() and that has ended the run.  (HttpServer.clientRead, serveData)
AnsweredOnce ==
    \A p \in Peers :
        /\ answers[p] <= 1
        /\ answers[p] = 1 =>
              /\ "good" \in Parses(sent[p])
              /\ \/ p \notin socket \cup clients
                 \/ p \in closing
                 \/ run = "failed" /\ peer[p] = "reset"

\* What is sent on a connection is read at last, also in a later session, unless the run
\* fails; only what follows it may be thrown away.  (NetworkServer.live, acceptClient)
RequestsRead ==
    \A p \in Peers : (input[p] # "none") ~> (p \in heard \/ run = "failed")
=============================================================================
