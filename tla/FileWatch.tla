------------------------------ MODULE FileWatch ------------------------------
(***************************************************************************)
(* FileWatch reads a file that grows while it is read, cuts it into lines  *)
(* and scores them (fusil/file_watch.py); WatchStdout does it with the     *)
(* output of a process (fusil/process/stdout.py).                          *)
(*                                                                         *)
(* The file is a sequence of symbols: a symbol is a word, or one of the    *)
(* two characters that end a line.  One turn of Univers is: the messages   *)
(* of the watch ("mail"), its live(), the session, which is the last agent *)
(* ("session"), and the other agents ("step").  "exit" is live() called by *)
(* on_process_exit.  Scores are percents.                                  *)
(***************************************************************************)
EXTENDS Integers, Sequences, FiniteSetsExt

CONSTANTS
    Kinds,          \* of the watches: "log" (start = zero), "tail" (end), "stdout"
    Words,          \* symbols that are words
    NewLine, Return,
    Weight,         \* the score of a word
    Ignored,        \* words that make ignoreRegex match
    Writes,         \* what the target may write at once
    ReadSize,       \* FileWatch.read_size
    MinLines, MinScore,     \* FileWatch.min_nb_line
    MaxLines, MaxScore,     \* FileWatch.max_nb_line
    NoScore,        \* Python's None
    FileBound, StopBound, SessionBound  \* symbols of a file, penalties in a
                                        \* session, sessions

Ends == {NewLine, Return}

ASSUME FileAssumption ==
    /\ Kinds \subseteq {"log", "tail", "stdout"}
    /\ Ends \cap Words = {}
    /\ Writes \subseteq Seq(Words \cup Ends)
    /\ ReadSize \in Nat \ {0}
    /\ FileBound \in Nat /\ StopBound \in Nat /\ SessionBound \in Nat \ {0}

ASSUME LineScoreAssumption ==
    /\ Weight \in [Words -> Int]
    /\ \A v, w \in Words : Weight[v] = -Weight[w] => Weight[v] = 0
    /\ MinLines \in Nat /\ MaxLines \in Nat /\ MinScore \in Int /\ MaxScore \in Int
    /\ NoScore \notin Int

VARIABLES
    kind,           \* of Kinds
    file, writer,   \* the file, and the target: "idle", "running", "ended"
    due,            \* "stdout", "exit": sent and not yet delivered
    turn, inbox,
    file_obj,       \* whether FileWatch.file_obj is set
    file_seed,      \* number of symbols read from the file
    buffer,
    pieces, first,  \* of the suspended generator splitlines(): what is left
                    \* of its lines, and whether the next one has index 0
    total_line, nb_line, score,
    max_nb_line,    \* whether FileWatch.max_nb_line is still set
    sessions,       \* sessions begun
    stopping,       \* the session has a session_stop in its mailbox
    judged,         \* the score of session_done
    origin,         \* history: where the output of this session begins
    lost,           \* history: why output was given up: "score", "slow", "failed"
    penalties       \* history: times that min_nb_line was added

fileVars == <<file, writer>>
readVars == <<file_seed, buffer, pieces, first>>
scoreVars == <<total_line, nb_line, score, max_nb_line>>
sessionVars == <<sessions, stopping, judged>>
historyVars == <<origin, lost, penalties>>
vars == <<kind, file, writer, due, turn, inbox, file_obj, file_seed, buffer, pieces,
          first, total_line, nb_line, score, max_nb_line, sessions, stopping, judged,
          origin, lost, penalties>>

Messages == {"stdout", "exit", "stop"}

Magnitude(n) == IF n < 0 THEN -n ELSE n

-----------------------------------------------------------------------------
\* Lines.

\* str.splitlines(1): the text after every end of a line; \r\n is one end.
LineEnds(text) ==
    {i \in DOMAIN text :
        \/ text[i] = NewLine
        \/ text[i] = Return /\ (i = Len(text) \/ text[i + 1] # NewLine)}
Cuts(text) == {0, Len(text)} \cup LineEnds(text)
Split(text) ==
    LET cuts == Cuts(text)
        cutAt(k) == CHOOSE c \in cuts : Cardinality({d \in cuts : d < c}) = k
    IN  [k \in 1..(Cardinality(cuts) - 1) |-> SubSeq(text, cutAt(k - 1) + 1, cutAt(k))]

Complete(piece) == piece # <<>> /\ piece[Len(piece)] \in Ends

\* str.rstrip(): the ends of a line are the only white space.
Strip(piece) == SubSeq(piece, 1, Max({0} \cup {i \in DOMAIN piece : piece[i] \in Words}))

\* Among the words that a line matches, the score of the greatest magnitude.
WordsOf(line) == {line[i] : i \in DOMAIN line}
LineScore(line) ==
    LET scores == {Weight[w] : w \in WordsOf(line)} IN
    CHOOSE s \in scores : \A other \in scores : Magnitude(other) <= Magnitude(s)
IsIgnored(line) == line = <<>> \/ WordsOf(line) \cap Ignored # {}

-----------------------------------------------------------------------------
\* processLine, in its two halves: the count of all lines, then the patterns.

LongOutput(total) == max_nb_line /\ MaxLines <= total

ProcessLine(line) ==
    LET total == total_line + 1 IN
    /\ total_line' = total
    /\ max_nb_line' = (max_nb_line /\ ~LongOutput(total))
    /\ nb_line' = nb_line + (IF IsIgnored(line) THEN 0 ELSE 1)
    /\ score' = score + (IF LongOutput(total) THEN MaxScore ELSE 0)
                      + (IF IsIgnored(line) THEN 0 ELSE LineScore(line))

\* prepareFile: the position of the file object itself stays 0.
Prepared(content) == IF kind = "tail" THEN Len(content) ELSE 0

-----------------------------------------------------------------------------
Init ==
    /\ kind \in Kinds
    /\ file = <<>>
    /\ writer = IF kind = "stdout" THEN "idle" ELSE "running"
    /\ due = {} /\ turn = "step" /\ inbox = <<>>
    /\ file_obj = (kind # "stdout")
    /\ file_seed = 0 /\ buffer = <<>> /\ pieces = <<>> /\ first = TRUE
    /\ total_line = 0 /\ nb_line = 0 /\ score = 0 /\ max_nb_line = TRUE
    /\ sessions = 1 /\ stopping = FALSE /\ judged = NoScore
    /\ origin = 0 /\ lost = {} /\ penalties = 0

\* The target writes at any time; only a read looks at the file, so nothing is
\* lost by not letting it write between two lines of the same read.
Write(text) ==
    /\ writer = "running" /\ pieces = <<>>
    /\ Len(file) + Len(text) <= FileBound
    /\ file' = file \o text
    /\ UNCHANGED <<kind, writer, due, turn, inbox, file_obj, readVars, scoreVars,
                   sessionVars, historyVars>>

\* createProcess opens a new file for the output and sends process_stdout.
TargetStarts ==
    /\ kind = "stdout" /\ writer = "idle" /\ turn = "step" /\ judged = NoScore
    /\ file' = <<>> /\ writer' = "running" /\ due' = {"stdout"}
    /\ UNCHANGED <<kind, turn, inbox, file_obj, readVars, scoreVars, sessionVars,
                   historyVars>>

\* The target ends; process_exit is sent for it, unless it was killed.
TargetEnds ==
    /\ kind = "stdout" /\ writer = "running" /\ turn = "step"
    /\ writer' = "ended"
    /\ \E announced \in SUBSET {"exit"} : due' = due \cup announced
    /\ UNCHANGED <<kind, file, turn, inbox, file_obj, readVars, scoreVars, sessionVars,
                   historyVars>>

\* The MTA delivers what was sent: the stops of the probes come before or after
\* the end of the target.
Stops(n) == [i \in 1..n |-> "stop"]
Deliver ==
    /\ turn = "step"
    /\ \E before \in 0..(StopBound - penalties) :
       \E after \in 0..(StopBound - penalties - before) :
          /\ inbox' = Stops(before)
                      \o (IF "stdout" \in due THEN <<"stdout">> ELSE <<>>)
                      \o (IF "exit" \in due THEN <<"exit">> ELSE <<>>)
                      \o Stops(after)
          /\ stopping' = (before + after > 0)
    /\ due' = {}
    /\ turn' = "mail"
    /\ UNCHANGED <<kind, fileVars, file_obj, readVars, scoreVars, sessions, judged,
                   historyVars>>

-----------------------------------------------------------------------------
\* The messages of the watch.

NextMessage(event) == turn = "mail" /\ inbox # <<>> /\ Head(inbox) = event

OnSessionStop ==
    /\ NextMessage("stop")
    /\ inbox' = Tail(inbox)
    /\ IF total_line < MinLines
       THEN score' = score + MinScore /\ penalties' = penalties + 1
       ELSE UNCHANGED <<score, penalties>>
    /\ UNCHANGED <<kind, fileVars, due, turn, file_obj, readVars, total_line, nb_line,
                   max_nb_line, sessionVars, origin, lost>>

OnProcessStdout ==
    /\ NextMessage("stdout")
    /\ inbox' = Tail(inbox)
    /\ file_obj' = TRUE /\ file_seed' = Prepared(file)
    /\ origin' = 0
    /\ UNCHANGED <<kind, fileVars, due, turn, buffer, pieces, first, scoreVars,
                   sessionVars, lost, penalties>>

\* Mutant: the file is closed without a last live().
ClosedAtExit ==
    /\ NextMessage("exit")
    /\ inbox' = Tail(inbox) /\ file_obj' = FALSE
    /\ UNCHANGED <<kind, fileVars, due, turn, readVars, scoreVars, sessionVars, historyVars>>

\* on_process_exit calls live() and close(), which do nothing without a file.
OnProcessExit ==
    /\ NextMessage("exit")
    /\ IF file_obj
       THEN turn' = "exit" /\ first' = TRUE /\ UNCHANGED inbox
       ELSE inbox' = Tail(inbox) /\ UNCHANGED <<turn, first>>
    /\ UNCHANGED <<kind, fileVars, due, file_obj, file_seed, buffer, pieces, scoreVars,
                   sessionVars, historyVars>>

\* Mutant: live() only runs in a step with a session_stop.
ReadOnlyAtStop ==
    /\ turn = "mail" /\ inbox = <<>>
    /\ turn' = IF file_obj /\ stopping THEN "live" ELSE "session"
    /\ first' = TRUE
    /\ UNCHANGED <<kind, fileVars, due, inbox, file_obj, file_seed, buffer, pieces,
                   scoreVars, sessionVars, historyVars>>

MailboxRead ==
    /\ turn = "mail" /\ inbox = <<>>
    /\ turn' = IF file_obj THEN "live" ELSE "session"
    /\ first' = TRUE
    /\ UNCHANGED <<kind, fileVars, due, inbox, file_obj, file_seed, buffer, pieces,
                   scoreVars, sessionVars, historyVars>>

-----------------------------------------------------------------------------
\* live(), which runs the generators readlines() and splitlines().

Reading == turn \in {"live", "exit"}

\* live() returns: to on_process_exit, which closes the file, or to Univers.
Returns ==
    IF turn = "exit"
    THEN turn' = "mail" /\ inbox' = Tail(inbox) /\ file_obj' = FALSE
    ELSE turn' = "session" /\ UNCHANGED <<inbox, file_obj>>

Data == SubSeq(file, file_seed + 1, Min({file_seed + ReadSize, Len(file)}))

ReadData ==
    /\ Reading /\ pieces = <<>> /\ Data # <<>>
    /\ pieces' = Split(Data) /\ first' = TRUE
    /\ file_seed' = file_seed + Len(Data)
    /\ UNCHANGED <<kind, fileVars, due, turn, inbox, file_obj, buffer, scoreVars,
                   sessionVars, historyVars>>

EndOfFile ==
    /\ Reading /\ pieces = <<>> /\ Data = <<>>
    /\ Returns
    /\ UNCHANGED <<kind, fileVars, due, readVars, scoreVars, sessionVars, historyVars>>

\* max_process_time is over; it is not before the first read.
TooSlow ==
    /\ Reading /\ pieces = <<>> /\ ~first
    /\ Returns
    /\ lost' = IF turn = "exit" /\ Data # <<>> THEN lost \cup {"slow"} ELSE lost
    /\ UNCHANGED <<kind, fileVars, due, readVars, scoreVars, sessionVars, origin,
                   penalties>>

\* EBADF: somebody has closed the descriptor.
ReadFails ==
    /\ Reading /\ pieces = <<>>
    /\ file_obj' = FALSE
    /\ lost' = lost \cup {"failed"}
    /\ IF turn = "exit"
       THEN turn' = "mail" /\ inbox' = Tail(inbox)
       ELSE turn' = "session" /\ UNCHANGED inbox
    /\ UNCHANGED <<kind, fileVars, due, readVars, scoreVars, sessionVars, origin,
                   penalties>>

\* The last line of the data is not complete.
Incomplete == Len(pieces) = 1 /\ ~Complete(Head(pieces))
KeepTail ==
    /\ Reading /\ pieces # <<>> /\ Incomplete
    /\ buffer' = buffer \o Head(pieces)
    /\ pieces' = <<>> /\ first' = FALSE
    /\ UNCHANGED <<kind, fileVars, due, turn, inbox, file_obj, file_seed, scoreVars,
                   sessionVars, historyVars>>

\* Mutant: the buffer is not joined with the next line.
NeverJoined == FALSE

\* The line that splitlines() yields next, and what it leaves in the buffer.
Joined == first /\ buffer # <<>>
NextLine == Strip(IF Joined THEN buffer \o Head(pieces) ELSE Head(pieces))
BufferTaken == buffer' = IF Joined THEN <<>> ELSE buffer

Yield ==
    /\ Reading /\ pieces # <<>> /\ ~Incomplete
    /\ Magnitude(score) < 100
    /\ ProcessLine(NextLine)
    /\ BufferTaken
    /\ pieces' = Tail(pieces) /\ first' = FALSE
    /\ UNCHANGED <<kind, fileVars, due, turn, inbox, file_obj, file_seed, sessionVars,
                   historyVars>>

\* The score is 1: live() breaks, and the rest of the data is forgotten.
Break ==
    /\ Reading /\ pieces # <<>> /\ ~Incomplete
    /\ Magnitude(score) >= 100
    /\ BufferTaken
    /\ pieces' = <<>> /\ first' = FALSE
    /\ Returns
    /\ lost' = lost \cup {"score"}
    /\ UNCHANGED <<kind, fileVars, due, file_seed, scoreVars, sessionVars, origin,
                   penalties>>

-----------------------------------------------------------------------------
\* The session is the last agent: it is judged with the scores of this step.
SessionTurn ==
    /\ turn = "session"
    /\ judged' = IF stopping /\ judged = NoScore THEN score ELSE judged
    /\ stopping' = FALSE
    /\ turn' = "step"
    /\ UNCHANGED <<kind, fileVars, due, inbox, file_obj, readVars, scoreVars, sessions,
                   historyVars>>

\* destroySession and createSession: deinit() of WatchStdout, init() of FileWatch.
NewSession ==
    /\ turn = "step" /\ judged # NoScore /\ sessions < SessionBound
    /\ sessions' = sessions + 1 /\ judged' = NoScore
    /\ writer' = IF kind = "stdout" THEN "idle" ELSE writer
    /\ due' = {}
    /\ file_obj' = (file_obj /\ kind # "stdout")
    /\ file_seed' = IF file_obj' THEN Prepared(file) ELSE file_seed
    /\ buffer' = <<>>
    /\ total_line' = 0 /\ nb_line' = 0 /\ score' = 0
    /\ origin' = IF ~file_obj' THEN file_seed ELSE IF kind = "tail" THEN Len(file) ELSE 0
    /\ lost' = IF kind = "stdout" THEN {} ELSE lost \cap {"failed"}
    /\ penalties' = 0
    /\ UNCHANGED <<kind, file, turn, inbox, pieces, first, max_nb_line, stopping>>

Loop ==
    \/ Deliver \/ OnSessionStop \/ OnProcessStdout \/ OnProcessExit \/ MailboxRead
    \/ ReadData \/ EndOfFile \/ TooSlow \/ ReadFails \/ KeepTail \/ Yield \/ Break
    \/ SessionTurn

Next ==
    \/ Loop
    \/ \E text \in Writes : Write(text)
    \/ TargetStarts \/ TargetEnds \/ NewSession

\* Univers.execute calls the agents in turn, for ever.
Spec == Init /\ [][Next]_vars
FairSpec == Spec /\ WF_vars(Loop)

-----------------------------------------------------------------------------
\* The type of every variable.
TypeOK ==
    /\ kind \in Kinds
    /\ file \in Seq(Words \cup Ends) /\ writer \in {"idle", "running", "ended"}
    /\ due \subseteq {"stdout", "exit"}
    /\ turn \in {"mail", "live", "exit", "session", "step"}
    /\ inbox \in Seq(Messages)
    /\ file_obj \in BOOLEAN /\ file_seed \in Nat
    /\ buffer \in Seq(Words) /\ pieces \in Seq(Seq(Words \cup Ends)) /\ first \in BOOLEAN
    /\ total_line \in Nat /\ nb_line \in Nat /\ score \in Int /\ max_nb_line \in BOOLEAN
    /\ sessions \in 1..SessionBound /\ stopping \in BOOLEAN
    /\ judged \in Int \cup {NoScore}
    /\ origin \in Nat /\ penalties \in Nat
    /\ lost \subseteq {"score", "slow", "failed"}

\* What the session has read and taken from the generators, cut into lines.
Pending == IF pieces = <<>> THEN 0
           ELSE MapThenSumSet(LAMBDA i : Len(pieces[i]), DOMAIN pieces)
LinesRead == Split(SubSeq(file, origin + 1, file_seed - Pending))
CompleteLines == {i \in DOMAIN LinesRead : Complete(LinesRead[i])}
ScoredLines == {i \in CompleteLines : ~IsIgnored(Strip(LinesRead[i]))}

\* Unless lines were given up, the lines counted and scored are those of the file
\* in this session, each once, however the reads have cut it: a line read in two
\* parts is one line, and only a \r\n cut in two counts as two.  The rest of the
\* score is the penalties and at most one bonus.  (splitlines, readlines,
\* prepareFile, processLine, on_session_stop, init)
LinesScored ==
    /\ TypeOK
    /\ lost = {} =>
          /\ nb_line = Cardinality(ScoredLines)
          /\ total_line >= Cardinality(CompleteLines)
          /\ (\A i \in DOMAIN file : file[i] # Return) =>
                 total_line = Cardinality(CompleteLines)
          /\ score - penalties * MinScore
                 - MapThenSumSet(LAMBDA i : LineScore(Strip(LinesRead[i])), ScoredLines)
               \in IF MaxLines <= total_line THEN {0, MaxScore} ELSE {0}

\* A session whose target has ended, and whose process_exit was handled, is judged
\* on the whole output.  (WatchStdout.on_process_exit, Session.on_session_stop)
JudgedOnOutput ==
    [][judged' \notin {judged, NoScore} /\ kind = "stdout" /\ writer = "ended"
         /\ ~file_obj /\ lost = {} => file_seed = Len(file) /\ pieces = <<>>]_vars

\* What is written to an open file is read at last, unless the session ends or
\* something was given up.  (live, readlines)
ReadsAll ==
    \A n \in 1..FileBound :
        (file_obj /\ Len(file) = n) ~> (file_seed >= n \/ judged # NoScore \/ lost # {})
=============================================================================
