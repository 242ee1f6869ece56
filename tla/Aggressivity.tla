----------------------------- MODULE Aggressivity -----------------------------
(***************************************************************************)
(* The aggressivity of the fuzzer (fusil/aggressivity.py): a state machine *)
(* that looks at the score of every session and makes the next session     *)
(* more or less aggressive.  Scores and aggressivity are percents; the     *)
(* code rounds to percents (setValue, normalizeScore).                     *)
(***************************************************************************)
EXTENDS Integers

CONSTANTS
    Scores,             \* scores a session may get, in percents
    SuccessScore,       \* project.success_score
    Options,            \* values of --aggressivity; AggressivityMin if absent
    AggressivityMin, AggressivityMax,
    AddAfter, FasterAfter, SlowerAfter,     \* ages, in sessions
    NoScore,            \* the score of a session not scored (None)
    AgeBound            \* bound on state_age, beyond all the ages above

VARIABLES
    aggressivity,       \* AggressivityAgent.aggressivity
    state,              \* its state
    state_age,          \* sessions since the state was set
    min_score, max_score,
    given,              \* the value sent to the agents in this session
    score,              \* history: the score of the last session
    seen,               \* history: the scores that were no success
    open                \* a session is running

vars == <<aggressivity, state, state_age, min_score, max_score, given, score,
          seen, open>>

States == {"init", "success", "0", "+", "++", "-", "--"}
Growing == {"+", "++"}
Reducing == {"-", "--"}

ASSUME ScoresAssumption ==
    Scores \subseteq Int /\ SuccessScore \in Int /\ NoScore \notin Int

ASSUME RangeAssumption ==
    /\ AggressivityMin \in Int /\ AggressivityMax \in Int
    /\ AggressivityMin < AggressivityMax
    /\ Options \subseteq Int

ASSUME AgesAssumption ==
    /\ AddAfter \in Nat /\ FasterAfter \in Nat /\ SlowerAfter \in Nat
    /\ AgeBound \in Nat
    /\ AddAfter < AgeBound /\ FasterAfter < AgeBound /\ SlowerAfter < AgeBound

-----------------------------------------------------------------------------
\* setValue: restrict a value to the range.
Clamped(v) ==
    IF v < AggressivityMin THEN AggressivityMin
    ELSE IF AggressivityMax < v THEN AggressivityMax
    ELSE v

\* AggressivityAgent.__init__, and the option --aggressivity.
Init ==
    /\ aggressivity \in {Clamped(v) : v \in Options}
    /\ state = "init"
    /\ state_age = 1
    /\ min_score = NoScore
    /\ max_score = NoScore
    /\ given = aggressivity
    /\ score = NoScore
    /\ seen = {}
    /\ open = FALSE

\* on_session_start: the value is sent to the agents that generate data.
SessionStart ==
    /\ ~open
    /\ open' = TRUE
    /\ given' = aggressivity
    /\ UNCHANGED <<aggressivity, state, state_age, min_score, max_score, score,
                   seen>>

\* The first score is the smallest and the greatest so far, even if it is
\* that of a success.
Lowest(s) == IF min_score = NoScore THEN s ELSE min_score
Highest(s) == IF max_score = NoScore THEN s ELSE max_score

\* (Mutant: a score as good as the best one counts as better.)
ImprovesOrEquals(s) == Highest(s) <= s
Improves(s) == Highest(s) < s
Worsens(s) == s < Lowest(s)

\* Nothing interesting since many sessions, in state "0" or "+".
Bored(age) == state = "0" /\ AddAfter < age
Accelerating(age) == state = "+" /\ FasterAfter < age
Slowing(age) == state = "-" /\ SlowerAfter < age

\* The state pushes against the end of the range.
AtLimit ==
    \/ aggressivity = AggressivityMin /\ state \in Reducing
    \/ aggressivity = AggressivityMax /\ state \in Growing

\* updateState: the first test that applies gives the state.
UpdatedState(s, age) ==
    IF SuccessScore <= s THEN "success"
    ELSE IF Improves(s) THEN "0"
    ELSE IF Worsens(s) THEN "-"
    ELSE IF state = "init" THEN "+"
    ELSE IF state = "success" THEN "0"
    ELSE IF aggressivity < AggressivityMax /\ Bored(age) THEN "+"
    ELSE IF aggressivity < AggressivityMax /\ Accelerating(age) THEN "++"
    ELSE IF AggressivityMin < aggressivity /\ s < 0 /\ state \notin Reducing
    THEN "-"
    ELSE IF AggressivityMin < aggressivity /\ Slowing(age) THEN "--"
    ELSE IF state \in Reducing /\ 0 <= s THEN "0"
    ELSE IF AtLimit THEN "0"
    ELSE "none"

\* A state that is set again starts a new age.
Age(new, age) == IF new = "none" THEN age ELSE 1

\* state_increment of the state just chosen (mutant: of the one before).
IncrementOf(x) ==
    CASE x = "+" -> 1 [] x = "++" -> 4 [] x = "-" -> -1 [] x = "--" -> -4
      [] OTHER -> 0
LateIncrement(new) == IncrementOf(state)
Increment(new) == IncrementOf(IF new = "none" THEN state ELSE new)

\* updateState records a score that is no success.
NewMax(s) == IF s < SuccessScore /\ Improves(s) THEN s ELSE Highest(s)
NewMin(s) == IF s < SuccessScore /\ ~Improves(s) /\ Worsens(s)
             THEN s ELSE Lowest(s)

OlderAge == IF state_age < AgeBound THEN state_age + 1 ELSE AgeBound

\* on_session_done: the graph line is left out.
SessionDone ==
    /\ open
    /\ open' = FALSE
    /\ \E s \in Scores :
          LET new == UpdatedState(s, OlderAge)
          IN  /\ score' = s
              /\ seen' = seen \cup (IF s < SuccessScore THEN {s} ELSE {})
              /\ state' = IF new = "none" THEN state ELSE new
              /\ state_age' = Age(new, OlderAge)
              /\ aggressivity' = Clamped(aggressivity + Increment(new))
              /\ min_score' = NewMin(s)
              /\ max_score' = NewMax(s)
    /\ UNCHANGED given

Next == SessionStart \/ SessionDone

Spec == Init /\ [][Next]_vars

\* One session follows the other.
FairSpec == Spec /\ WF_vars(Next)

-----------------------------------------------------------------------------
TypeOK ==
    /\ aggressivity \in AggressivityMin..AggressivityMax
    /\ given \in AggressivityMin..AggressivityMax
    /\ state \in States
    /\ state_age \in 1..AgeBound
    /\ min_score \in Scores \cup {NoScore}
    /\ max_score \in Scores \cup {NoScore}
    /\ score \in Scores \cup {NoScore}
    /\ seen \subseteq Scores
    /\ open \in BOOLEAN

\* Every score that was no success lies between min_score and max_score,
\* although updateState returns before it compares: the branches that are
\* skipped never hide a record (updateState, lines 98-104).
Envelope ==
    /\ (min_score = NoScore) <=> (max_score = NoScore)
    /\ \A s \in seen : min_score <= s /\ s <= max_score

\* "If we reach a success, try to keep aggressivity constant to get more
\* success": after a success the next session is as aggressive as the one
\* that succeeded.
SuccessKept ==
    [][~open /\ open' /\ score # NoScore /\ SuccessScore <= score
          => given' = given]_vars

\* A state that pushes against the end of the range is left in the next
\* session, unless the target reaches a new lowest score.
LimitLeft ==
    [][open /\ ~open' =>
          /\ aggressivity = AggressivityMax /\ state \in Growing
                => state' \notin Growing
          /\ aggressivity = AggressivityMin /\ state \in Reducing
                => state' \notin Reducing \/ min_score' < min_score]_vars

\* "Augment to make the system react": a target that is calm for good is fuzzed with
\* the greatest aggressivity in the end.  "Target error: reduce aggressivity": one that
\* fails for good is fuzzed with the least aggressivity again and again.
FollowsScores ==
    /\ <>[](score # NoScore /\ 0 <= score /\ score < SuccessScore)
          => <>[](aggressivity = AggressivityMax)
    /\ <>[](score # NoScore /\ score < 0) => []<>(aggressivity = AggressivityMin)
=============================================================================
