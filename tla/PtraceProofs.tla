---------------------------- MODULE PtraceProofs ----------------------------
(***************************************************************************)
(* Proofs of SyscallsPaired and NobodyLeft for any number of processes.    *)
(*                                                                         *)
(* The debugger only sees the stops that waitpid() has returned, in an     *)
(* order of its own.  PtInv relates what it believes of each process to    *)
(* what the kernel did with it: the stop that is not answered yet (Pend)   *)
(* is the difference between the two.                                      *)
(***************************************************************************)
EXTENDS Ptrace, SequenceTheorems, TLAPS

\* The stop or the death of p that the debugger has not answered yet.
Pend(p) == IF report[p] # "none" THEN report[p]
           ELSE IF event.pid = p THEN event.what ELSE "none"

Dead(p) == state[p] \in {"zombie", "reaped"}

\* What the kernel holds back is true of the process.
KernelOK ==
    /\ state[First] # "none"
    /\ \A p \in Pids :
          /\ pc # "done" => /\ report[p] = "death" => state[p] = "zombie"
                            /\ report[p] \notin {"none", "death"} => state[p] = "stopped"
          /\ state[p] = "none" => at[p] = "user"
          /\ at[p] = "forked" => state[p] \in {"running", "free"}
          /\ state[p] = "free" => pc \in {"quit", "waitexit", "done"}

\* What the debugger was told is true of the process, unless it was killed since.
EventOK ==
    /\ (event.what = "none") <=> (event.pid = None)
    /\ pc \in {"quit", "done"} => event.what = "none"
    /\ event.what # "none" => event.pid \in Known
    /\ event.what # "none" /\ pc \in {"attach", "exectrap", "waitexit"} => event.pid = waited
    /\ event.what = "death" => state[event.pid] = "reaped"
    /\ event.what \notin {"none", "death"} =>
          \/ state[event.pid] = "stopped" /\ report[event.pid] = "none"
          \/ state[event.pid] = "zombie" /\ killed # {}

\* A child that was born and not yet added is the child of one process, and the
\* debugger has never heard of it.
Forking(p) == at[p] = "forked" \/ report[p] = "fork" \/ (event.pid = p /\ event.what = "fork")
ChildrenOK ==
    /\ \A p \in Pids :
          /\ newborn[p] \in Pids => state[newborn[p]] # "none" /\ newborn[p] \notin {First, p}
          /\ Forking(p) => newborn[p] \in Pids \ (met \cup Known)
    /\ \A p, q \in Pids : Forking(p) /\ Forking(q) /\ newborn[p] = newborn[q] => p = q

\* The program that is traced stays the first of the list; the process whose first
\* stop is awaited is in the list.
FirstLeads == \A i \in 2..Len(list) : list[i] # First
ListOK ==
    /\ FirstLeads
    /\ \A p \in Known \cup met : state[p] # "none"
    /\ pc = "attach" => waited \in Known \ met

\* quit() finds every process that it owns, and believes the right ones dead.
MetOK ==
    \A p \in met :
        /\ isStopped[p] => \/ state[p] \in {"stopped", "zombie", "reaped"}
                           \/ state[p] = "free" /\ (pc = "done" \/ ~Owned(p))
        /\ Owned(p) => Dead(p) \/ (p \in Known /\ pc # "done")

\* As long as no fault has happened, the debugger and the kernel agree where a
\* process that lives is: between two system calls, in one, or behind an execve.
Tracing == fault = "none" /\ pc \in {"trace", "attach", "exectrap"}
Between(p) ==
    \/ at[p] = "user" /\ Pend(p) \in Signals \cup {"none"}
    \/ at[p] = "body" /\ Pend(p) = "enter"
AwaitsTrap(p) ==
    /\ pc = "exectrap" /\ waited = p /\ at[p] = "user" /\ next[p] = "exit"
    /\ \/ "trap" \in pending[p] /\ Pend(p) = "none"
       \/ Pend(p) = "trap"
Inside(p) ==
    \/ at[p] \in {"body", "forked", "tail"} /\ Pend(p) \in {"none", "fork", "exec"}
    \/ at[p] = "user" /\ Pend(p) = "exit"
    \/ AwaitsTrap(p)
Unmet(p) ==
    /\ at[p] = "user" /\ next[p] = "enter"
    /\ \/ Pend(p) \in Signals
       \/ Pend(p) = "none" /\ pending[p] # {}
Sync(p) ==
    ~Dead(p) =>
        /\ next[p] = "enter" => Between(p)
        /\ next[p] = "exit" => name[p] = call[p] /\ Inside(p)
        /\ pc = "exectrap" /\ p = waited => AwaitsTrap(p)
        /\ p \notin met /\ state[p] # "none" => Unmet(p)
EventExpected == event.what \in CallStops => Expected(event.pid, event.what)
InStep ==
    Tracing =>
        /\ \A p \in Pids : Sync(p)
        /\ EventExpected
        /\ pc = "exectrap" => waited \in met /\ event.what \in {"none", "trap", "death"}
        /\ Known \subseteq met \cup (IF pc = "attach" THEN {waited} ELSE {})

\* The parent of the child that is awaited is stopped for its fork.
ParentWaits ==
    Tracing /\ pc = "attach" /\ parent[waited] \in Pids =>
        LET q == parent[waited]
        IN /\ q # waited
           /\ \/ state[q] = "stopped" /\ report[q] = "none"
              \/ Dead(q) /\ killed # {}

ErrorOK == ended = "error" /\ fault = "none" => killed # {}

PtInv ==
    TypeOK /\ KernelOK /\ EventOK /\ ChildrenOK /\ ListOK /\ MetOK /\ InStep /\ ParentWaits
        /\ ErrorOK

-----------------------------------------------------------------------------
(* The list of the debugger.                                               *)

\* What Remove leaves.
LEMMA RemoveFacts ==
    ASSUME list \in Seq(Pids), NEW p, Remove(p)
    PROVE  /\ list' \in Seq(Pids)
           /\ Known' \subseteq Known /\ \A q \in Known : q # p => q \in Known'
           /\ FirstLeads => FirstLeads'
<1>1. CASE p \notin Known
  BY <1>1 DEF Remove, Known, FirstLeads
<1>2. CASE p \in Known
  <2> DEFINE n == Len(list)
             i == CHOOSE k \in 1..n : list[k] = p
             rest == [k \in 1..(n - 1) |-> IF k < i THEN list[k] ELSE list[k + 1]]
  <2>1. n \in Nat /\ \A k \in 1..n : list[k] \in Pids
    BY DEF Known
  <2>2. i \in 1..n /\ list[i] = p
    BY <1>2 DEF Known
  <2>3. list' = rest
    BY <1>2 DEF Remove
  <2> HIDE DEF i, n
  <2>4. n - 1 \in Nat /\ rest \in [1..(n - 1) -> Pids]
    BY <2>1, <2>2
  <2>5. rest \in Seq(Pids) /\ Len(rest) = n - 1
    BY <2>4, SeqDef, LenProperties
  <2>6. Known = {list[k] : k \in 1..n}
    BY DEF Known, n
  <2>7. Known' = {rest[k] : k \in 1..(n - 1)}
    BY <2>3, <2>5 DEF Known
  <2>8. Known' \subseteq Known
    BY <2>1, <2>2, <2>4, <2>6, <2>7
  <2>9. ASSUME NEW q \in Known, q # p PROVE q \in Known'
    <3>1. PICK k \in 1..n : list[k] = q
      BY <2>6
    <3>2. CASE k < i
      <4>1. k \in 1..(n - 1) /\ rest[k] = q
        BY <2>1, <2>2, <3>1, <3>2
      <4> QED
        BY <2>7, <4>1
    <3>3. CASE i < k
      <4>1. k - 1 \in 1..(n - 1) /\ rest[k - 1] = q
        BY <2>1, <2>2, <3>1, <3>3
      <4> QED
        BY <2>7, <4>1
    <3>4. k # i
      BY <2>2, <2>9, <3>1
    <3> QED
      BY <2>1, <2>2, <3>2, <3>3, <3>4
  <2>10. ASSUME FirstLeads PROVE FirstLeads'
    <3> SUFFICES ASSUME NEW k \in 2..(n - 1) PROVE rest[k] # First
      BY <2>3, <2>5 DEF FirstLeads
    <3>1. k \in 2..n /\ k + 1 \in 2..n /\ rest[k] \in {list[k], list[k + 1]}
      BY <2>1, <2>2
    <3> QED
      BY <2>10, <3>1 DEF FirstLeads, n
  <2> QED
    BY <2>3, <2>5, <2>8, <2>9, <2>10
<1> QED
  BY <1>1, <1>2

\* What the debugger adds.
LEMMA AppendedFacts ==
    ASSUME list \in Seq(Pids), NEW p \in Pids, list' = Append(list, p)
    PROVE  /\ list' \in Seq(Pids)
           /\ Known' = Known \cup {p}
           /\ FirstLeads /\ p # First => FirstLeads'
<1>1. /\ list' \in Seq(Pids) /\ Len(list') = Len(list) + 1 /\ Len(list) \in Nat
      /\ \A k \in 1..Len(list) : list'[k] = list[k]
      /\ list'[Len(list) + 1] = p
  BY AppendProperties
<1>2. Known' = Known \cup {p}
  BY <1>1 DEF Known
<1>3. ASSUME FirstLeads, p # First PROVE FirstLeads'
  <2> SUFFICES ASSUME NEW k \in 2..(Len(list) + 1) PROVE list'[k] # First
    BY <1>1 DEF FirstLeads
  <2>1. k \in 2..Len(list) \/ k = Len(list) + 1
    BY <1>1
  <2> QED
    BY <1>1, <1>3, <2>1 DEF FirstLeads
<1> QED
  BY <1>1, <1>2, <1>3

\* The same list.
LEMMA SameList == UNCHANGED list => Known' = Known /\ (FirstLeads => FirstLeads')
BY DEF Known, FirstLeads

\* What the event of a process is about.
LEMMA EventFacts ==
    ASSUME TypeOK, EventOK
    PROVE  Known \subseteq Pids /\ (event.what # "none" => event.pid \in Pids)
<1>1. list \in Seq(Pids)
  BY DEF TypeOK
<1>2. \A i \in 1..Len(list) : list[i] \in Pids
  BY <1>1, ElementOfSeq
<1>3. Known \subseteq Pids
  BY <1>2 DEF Known
<1> QED
  BY <1>3 DEF EventOK

\* A step in which no child is born and the debugger hears of none.
LEMMA ChildrenKept ==
    ASSUME ChildrenOK, newborn' = newborn, Known' \subseteq Known, met' \subseteq met \cup Known,
           \A q \in Pids : Forking(q)' => Forking(q),
           \A q \in Pids : state[q] # "none" => state'[q] # "none"
    PROVE  ChildrenOK'
<1>1. ASSUME NEW q \in Pids
      PROVE  /\ newborn'[q] \in Pids => state'[newborn'[q]] # "none" /\ newborn'[q] \notin {First, q}
             /\ Forking(q)' => newborn'[q] \in Pids \ (met' \cup Known')
  BY DEF ChildrenOK
<1>2. \A q, r \in Pids : Forking(q)' /\ Forking(r)' /\ newborn'[q] = newborn'[r] => q = r
  BY DEF ChildrenOK
<1> QED
  BY <1>1, <1>2 DEF ChildrenOK

-----------------------------------------------------------------------------
(* The kernel and the programs.                                            *)

\* Members of the sets of strings.
LEMMA Types ==
    /\ "running" \in States /\ "stopped" \in States /\ "zombie" \in States
    /\ "user" \in Places /\ "body" \in Places /\ "forked" \in Places /\ "tail" \in Places
    /\ "enter" \in Reports /\ "exit" \in Reports /\ "fork" \in Reports /\ "exec" \in Reports
    /\ "death" \in Reports /\ Signals \subseteq Reports /\ "stop" \in Signals /\ "signal" \in Signals
BY DEF States, Places, Reports, Signals, CallStops

\* A process that stops was running, so that the debugger has no event of it.
LEMMA StopsOK ==
    ASSUME PtInv, NEW p \in Pids, state[p] = "running", NEW what \in Reports \ {"death", "none"},
           Stops(p, what), NEW where, where # "forked", at' = [at EXCEPT ![p] = where],
           UNCHANGED <<list, pc, event, waited, killed>>
    PROVE  KernelOK' /\ EventOK'
<1>1. /\ \A q \in Pids \ {p} : state'[q] = state[q] /\ report'[q] = report[q] /\ at'[q] = at[q]
      /\ state'[p] = "stopped" /\ report'[p] = what /\ at'[p] = where
  BY DEF Stops, PtInv, TypeOK
<1>2. KernelOK'
  <2>1. KernelOK /\ First \in Pids
    BY PtraceAssumption DEF PtInv
  <2> QED
    BY ONLY <1>1, <2>1, UNCHANGED pc, where # "forked", what # "death" DEF KernelOK
<1>3. EventOK'
  <2>1. event.what # "none" => event.pid # p
    BY DEF PtInv, EventOK
  <2>2. EventOK /\ Known \subseteq Pids /\ Known' = Known
    BY EventFacts, SameList DEF PtInv
  <2> QED
    BY ONLY <1>1, <2>1, <2>2, UNCHANGED <<pc, event, waited, killed>> DEF EventOK
<1> QED
  BY <1>2, <1>3

\* A program that calls the system lives between two calls.
LEMMA EnterCallInv == ASSUME PtInv, NEW p \in Pids, NEW c \in Calls, EnterCall(p, c) PROVE PtInv'
<1> USE PtraceAssumption DEF PtInv, EnterCall, Stops, ProgramKeeps, vars, debugVars, historyVars
<1>1. TypeOK'
  BY ONLY TypeOK, Types, p \in Pids, c \in Calls, EnterCall(p, c)
     DEF EnterCall, Stops, ProgramKeeps, debugVars, historyVars, TypeOK
<1>2. Known' = Known /\ (FirstLeads => FirstLeads')
  BY SameList
<1>3. KernelOK' /\ EventOK'
  BY StopsOK, "enter" \in Reports \ {"death", "none"}, "body" # "forked" DEF Reports, CallStops
<1>4. ChildrenOK'
  <2>1. \A q \in Pids : Forking(q)' => Forking(q)
    BY DEF Forking, TypeOK, Signals
  <2>2. \A q \in Pids : state[q] # "none" => state'[q] # "none"
    BY DEF TypeOK
  <2> QED
    BY <1>2, <2>1, <2>2, ChildrenKept
<1>5. ListOK'
  BY <1>2, EventFacts DEF ListOK, TypeOK
<1>6. MetOK'
  BY <1>2 DEF MetOK, Dead, Owned, TypeOK, ListOK
<1>7. InStep'
  <2> SUFFICES ASSUME Tracing' PROVE InStep'
    BY DEF InStep
  <2>1. Tracing
    BY DEF Tracing
  <2>2. ASSUME NEW q \in Pids PROVE Sync(q)'
    BY <2>1, <2>2 DEF InStep, Sync, Dead, Between, Inside, AwaitsTrap, Unmet, Pend, TypeOK,
       KernelOK, EventOK, ListOK, Signals, CallStops, Calls, Tracing
  <2>3. EventExpected'
    BY <2>1 DEF InStep, EventExpected, Expected, EventOK, TypeOK, CallStops
  <2> QED
    BY <1>2, <2>1, <2>2, <2>3 DEF InStep
<1>8. ParentWaits'
  BY DEF ParentWaits, Tracing, Dead, TypeOK, KernelOK
<1>9. ErrorOK'
  BY DEF ErrorOK
<1> QED
  BY <1>1, <1>3, <1>4, <1>5, <1>6, <1>7, <1>8, <1>9

\* A call that returns was shown when it was entered.
LEMMA ExitCallInv == ASSUME PtInv, NEW p \in Pids, ExitCall(p) PROVE PtInv'
<1> USE PtraceAssumption DEF PtInv, ExitCall, Stops, ProgramKeeps, vars, debugVars, historyVars
<1>1. TypeOK'
  <2>1. pending' \in [Pids -> SUBSET Signals]
    <3>1. CASE pending' = pending
      BY <3>1 DEF TypeOK
    <3>2. CASE pending' = [pending EXCEPT ![p] = @ \cup {"trap"}]
      BY <3>2 DEF TypeOK, Signals
    <3> QED
      BY <3>1, <3>2
  <2> QED
    BY ONLY <2>1, TypeOK, Types, p \in Pids, ExitCall(p)
       DEF ExitCall, Stops, ProgramKeeps, debugVars, historyVars, TypeOK
<1>2. Known' = Known /\ (FirstLeads => FirstLeads')
  BY SameList
<1>3. KernelOK' /\ EventOK'
  BY StopsOK, "exit" \in Reports \ {"death", "none"}, "user" # "forked" DEF Reports, CallStops
<1>4. ChildrenOK'
  <2>1. \A q \in Pids : Forking(q)' => Forking(q)
    BY DEF Forking, TypeOK, Signals
  <2>2. \A q \in Pids : state[q] # "none" => state'[q] # "none"
    BY DEF TypeOK
  <2> QED
    BY <1>2, <2>1, <2>2, ChildrenKept
<1>5. ListOK'
  BY <1>2, EventFacts DEF ListOK, TypeOK
<1>6. MetOK'
  BY <1>2 DEF MetOK, Dead, Owned, TypeOK, ListOK
<1>7. InStep'
  <2> SUFFICES ASSUME Tracing' PROVE InStep'
    BY DEF InStep
  <2>1. Tracing
    BY DEF Tracing
  <2>2. ASSUME NEW q \in Pids PROVE Sync(q)'
    BY <2>1, <2>2 DEF InStep, Sync, Dead, Between, Inside, AwaitsTrap, Unmet, Pend, TypeOK,
       KernelOK, EventOK, ListOK, Signals, CallStops, Calls, Tracing
  <2>3. EventExpected'
    BY <2>1 DEF InStep, EventExpected, Expected, EventOK, TypeOK, CallStops
  <2> QED
    BY <1>2, <2>1, <2>2, <2>3 DEF InStep
<1>8. ParentWaits'
  BY DEF ParentWaits, Tracing, Dead, TypeOK, KernelOK
<1>9. ErrorOK'
  BY DEF ErrorOK
<1> QED
  BY <1>1, <1>3, <1>4, <1>5, <1>6, <1>7, <1>8, <1>9

\* The event of an execve happens in the call.
LEMMA ExecEventInv == ASSUME PtInv, NEW p \in Pids, ExecEvent(p) PROVE PtInv'
<1> USE PtraceAssumption DEF PtInv, ExecEvent, Stops, ProgramKeeps, vars, debugVars, historyVars
<1>1. TypeOK'
  BY ONLY TypeOK, Types, p \in Pids, ExecEvent(p)
     DEF ExecEvent, Stops, ProgramKeeps, debugVars, historyVars, TypeOK
<1>2. Known' = Known /\ (FirstLeads => FirstLeads')
  BY SameList
<1>3. KernelOK' /\ EventOK'
  BY StopsOK, "exec" \in Reports \ {"death", "none"}, "tail" # "forked" DEF Reports, CallStops
<1>4. ChildrenOK'
  <2>1. \A q \in Pids : Forking(q)' => Forking(q)
    BY DEF Forking, TypeOK, Signals
  <2>2. \A q \in Pids : state[q] # "none" => state'[q] # "none"
    BY DEF TypeOK
  <2> QED
    BY <1>2, <2>1, <2>2, ChildrenKept
<1>5. ListOK'
  BY <1>2, EventFacts DEF ListOK, TypeOK
<1>6. MetOK'
  BY <1>2 DEF MetOK, Dead, Owned, TypeOK, ListOK
<1>7. InStep'
  <2> SUFFICES ASSUME Tracing' PROVE InStep'
    BY DEF InStep
  <2>1. Tracing
    BY DEF Tracing
  <2>2. ASSUME NEW q \in Pids PROVE Sync(q)'
    BY <2>1, <2>2 DEF InStep, Sync, Dead, Between, Inside, AwaitsTrap, Unmet, Pend, TypeOK,
       KernelOK, EventOK, ListOK, Signals, CallStops, Calls, Tracing
  <2>3. EventExpected'
    BY <2>1 DEF InStep, EventExpected, Expected, EventOK, TypeOK, CallStops
  <2> QED
    BY <1>2, <2>1, <2>2, <2>3 DEF InStep
<1>8. ParentWaits'
  BY DEF ParentWaits, Tracing, Dead, TypeOK, KernelOK
<1>9. ErrorOK'
  BY DEF ErrorOK
<1> QED
  BY <1>1, <1>3, <1>4, <1>5, <1>6, <1>7, <1>8, <1>9

\* A child that is born is new to everybody.
LEMMA ForkInv == ASSUME PtInv, NEW p \in Pids, NEW child \in Pids, Fork(p, child) PROVE PtInv'
<1> USE PtraceAssumption DEF PtInv, Fork, ProgramKeeps, vars, debugVars, historyVars
<1>1. TypeOK'
  BY ONLY TypeOK, Types, p \in Pids, child \in Pids, Fork(p, child)
     DEF Fork, ProgramKeeps, debugVars, historyVars, TypeOK
<1>2. Known' = Known /\ (FirstLeads => FirstLeads')
  BY SameList
<1>3. KernelOK'
  <2>1. child # p /\ child # First
    BY DEF KernelOK
  <2>2. /\ \A q \in Pids \ {child} : state'[q] = state[q]
        /\ \A q \in Pids \ {p} : at'[q] = at[q]
        /\ state'[child] = "running" /\ at'[p] = "forked" /\ state[p] = "running"
        /\ report' = report /\ pc' = pc
    BY DEF TypeOK
  <2>3. KernelOK /\ state[child] = "none" /\ p \in Pids /\ child \in Pids /\ First \in Pids
    OBVIOUS
  <2> QED
    BY ONLY <2>1, <2>2, <2>3 DEF KernelOK
<1>4. EventOK'
  BY ONLY <1>2, EventFacts, TypeOK, KernelOK, EventOK, p \in Pids, child \in Pids, Fork(p, child)
     DEF Fork, ProgramKeeps, debugVars, historyVars, TypeOK, KernelOK, EventOK
<1>5. ChildrenOK'
  <2>1. state[child] = "none" /\ child \notin met \cup Known \cup {First, p}
    BY EventFacts DEF ListOK, KernelOK, TypeOK
  <2>2. /\ \A q \in Pids \ {p} : newborn'[q] = newborn[q] /\ (Forking(q)' => Forking(q))
        /\ newborn'[p] = child
    BY DEF Forking, TypeOK
  <2>3. \A q \in Pids : state[q] # "none" \/ q = child => state'[q] # "none"
    BY DEF TypeOK
  <2>4. \A q \in Pids : newborn[q] # child
    BY <2>1 DEF ChildrenOK
  <2>5. ASSUME NEW q \in Pids
        PROVE  /\ newborn'[q] \in Pids => state'[newborn'[q]] # "none" /\ newborn'[q] \notin {First, q}
               /\ Forking(q)' => newborn'[q] \in Pids \ (met' \cup Known')
    BY <1>2, <2>1, <2>2, <2>3 DEF ChildrenOK
  <2>6. ASSUME NEW q \in Pids, NEW r \in Pids, Forking(q)', Forking(r)', newborn'[q] = newborn'[r]
        PROVE  q = r
    BY <2>2, <2>4, <2>6 DEF ChildrenOK
  <2> QED
    BY <2>5, <2>6 DEF ChildrenOK
<1>6. ListOK'
  BY <1>2, EventFacts DEF ListOK, TypeOK
<1>7. MetOK'
  BY <1>2 DEF MetOK, Dead, Owned, TypeOK, ListOK
<1>8. InStep'
  <2> SUFFICES ASSUME Tracing' PROVE InStep'
    BY DEF InStep
  <2>1. Tracing
    BY DEF Tracing
  <2>2. ASSUME NEW q \in Pids PROVE Sync(q)'
    <3>1. child \notin Known \cup met /\ child # p /\ report[child] = "none" /\ event.pid # child
      BY <2>1, EventFacts DEF ListOK, KernelOK, EventOK, TypeOK, Tracing
    <3> USE DEF InStep, Sync, Dead, Between, Inside, AwaitsTrap, Unmet, Pend, TypeOK, KernelOK,
            EventOK, Signals, CallStops, Tracing
    <3>2. CASE q = child
      BY <2>1, <3>1, <3>2
    <3>3. CASE q # child
      BY <2>1, <3>1, <3>3
    <3> QED
      BY <3>2, <3>3
  <2>3. EventExpected'
    BY <2>1 DEF InStep, EventExpected, Expected, EventOK, TypeOK, CallStops
  <2> QED
    BY <1>2, <2>1, <2>2, <2>3 DEF InStep
<1>9. ParentWaits'
  BY DEF ParentWaits, Tracing, Dead, TypeOK, KernelOK
<1>10. ErrorOK'
  BY DEF ErrorOK
<1> QED
  BY <1>1, <1>3, <1>4, <1>5, <1>6, <1>7, <1>8, <1>9, <1>10

\* The event of a fork happens in the call.
LEMMA ForkEventInv == ASSUME PtInv, NEW p \in Pids, ForkEvent(p) PROVE PtInv'
<1> USE PtraceAssumption DEF PtInv, ForkEvent, Stops, ProgramKeeps, vars, debugVars, historyVars
<1>1. TypeOK'
  BY ONLY TypeOK, Types, p \in Pids, ForkEvent(p)
     DEF ForkEvent, Stops, ProgramKeeps, debugVars, historyVars, TypeOK
<1>2. Known' = Known /\ (FirstLeads => FirstLeads')
  BY SameList
<1>3. KernelOK' /\ EventOK'
  BY StopsOK, "fork" \in Reports \ {"death", "none"}, "tail" # "forked" DEF Reports, CallStops
<1>4. ChildrenOK'
  <2>1. \A q \in Pids : Forking(q)' => Forking(q)
    BY DEF Forking, TypeOK, Signals
  <2>2. \A q \in Pids : state[q] # "none" => state'[q] # "none"
    BY DEF TypeOK
  <2> QED
    BY <1>2, <2>1, <2>2, ChildrenKept
<1>5. ListOK'
  BY <1>2, EventFacts DEF ListOK, TypeOK
<1>6. MetOK'
  BY <1>2 DEF MetOK, Dead, Owned, TypeOK, ListOK
<1>7. InStep'
  <2> SUFFICES ASSUME Tracing' PROVE InStep'
    BY DEF InStep
  <2>1. Tracing
    BY DEF Tracing
  <2>2. ASSUME NEW q \in Pids PROVE Sync(q)'
    BY <2>1, <2>2 DEF InStep, Sync, Dead, Between, Inside, AwaitsTrap, Unmet, Pend, TypeOK,
       KernelOK, EventOK, ListOK, Signals, CallStops, Calls, Tracing
  <2>3. EventExpected'
    BY <2>1 DEF InStep, EventExpected, Expected, EventOK, TypeOK, CallStops
  <2> QED
    BY <1>2, <2>1, <2>2, <2>3 DEF InStep
<1>8. ParentWaits'
  BY DEF ParentWaits, Tracing, Dead, TypeOK, KernelOK
<1>9. ErrorOK'
  BY DEF ErrorOK
<1> QED
  BY <1>1, <1>3, <1>4, <1>5, <1>6, <1>7, <1>8, <1>9

\* A process that exits ran.
LEMMA ExitProcessInv == ASSUME PtInv, NEW p \in Pids, ExitProcess(p) PROVE PtInv'
<1> USE PtraceAssumption DEF PtInv, ExitProcess, Dies, ProgramKeeps, vars, debugVars, historyVars
<1>1. TypeOK'
  BY ONLY TypeOK, Types, p \in Pids, ExitProcess(p)
     DEF ExitProcess, Dies, ProgramKeeps, debugVars, historyVars, TypeOK
<1>2. Known' = Known /\ (FirstLeads => FirstLeads')
  BY SameList
<1>3. KernelOK'
  <2>1. /\ \A q \in Pids \ {p} : state'[q] = state[q] /\ report'[q] = report[q] /\ at'[q] = at[q]
        /\ state'[p] = "zombie" /\ report'[p] = "death" /\ at'[p] = "user"
    BY DEF TypeOK
  <2>2. KernelOK /\ First \in Pids /\ UNCHANGED pc
    OBVIOUS
  <2> QED
    BY ONLY <2>1, <2>2 DEF KernelOK
<1>4. EventOK'
  BY ONLY <1>2, EventFacts, TypeOK, KernelOK, EventOK, p \in Pids, ExitProcess(p)
     DEF ExitProcess, Dies, ProgramKeeps, debugVars, historyVars, TypeOK, KernelOK, EventOK
<1>5. ChildrenOK'
  <2>1. \A q \in Pids : Forking(q)' => Forking(q)
    BY DEF Forking, TypeOK, Signals
  <2>2. \A q \in Pids : state[q] # "none" => state'[q] # "none"
    BY DEF TypeOK
  <2> QED
    BY <1>2, <2>1, <2>2, ChildrenKept
<1>6. ListOK'
  BY <1>2, EventFacts DEF ListOK, TypeOK
<1>7. MetOK'
  BY <1>2 DEF MetOK, Dead, Owned, TypeOK, ListOK
<1>8. InStep'
  <2> SUFFICES ASSUME Tracing' PROVE InStep'
    BY DEF InStep
  <2>1. Tracing
    BY DEF Tracing
  <2>2. ASSUME NEW q \in Pids PROVE Sync(q)'
    BY <2>1, <2>2 DEF InStep, Sync, Dead, Between, Inside, AwaitsTrap, Unmet, Pend, TypeOK,
       KernelOK, EventOK, ListOK, Signals, CallStops, Calls, Tracing
  <2>3. EventExpected'
    BY <2>1 DEF InStep, EventExpected, Expected, EventOK, TypeOK, CallStops
  <2> QED
    BY <1>2, <2>1, <2>2, <2>3 DEF InStep
<1>9. ParentWaits'
  BY DEF ParentWaits, Tracing, Dead, TypeOK, KernelOK
<1>10. ErrorOK'
  BY DEF ErrorOK
<1> QED
  BY <1>1, <1>3, <1>4, <1>5, <1>6, <1>7, <1>8, <1>9, <1>10

\* Signals stop a process between two calls, SIGTRAP first.
LEMMA SignalStopInv == ASSUME PtInv, NEW p \in Pids, NEW s \in Signals, SignalStop(p, s) PROVE PtInv'
<1> USE PtraceAssumption DEF PtInv, SignalStop, Stops, ProgramKeeps, vars, debugVars, historyVars
<1>1. TypeOK'
  BY ONLY TypeOK, Types, p \in Pids, s \in Signals, SignalStop(p, s)
     DEF SignalStop, Stops, ProgramKeeps, debugVars, historyVars, TypeOK
<1>2. Known' = Known /\ (FirstLeads => FirstLeads')
  BY SameList
<1>3. KernelOK'
  BY ONLY TypeOK, KernelOK, PtraceAssumption, p \in Pids, s \in Signals, SignalStop(p, s)
     DEF SignalStop, Stops, ProgramKeeps, debugVars, historyVars, TypeOK, KernelOK, Signals
<1>4. EventOK'
  BY ONLY <1>2, EventFacts, TypeOK, KernelOK, EventOK, p \in Pids, s \in Signals, SignalStop(p, s)
     DEF SignalStop, Stops, ProgramKeeps, debugVars, historyVars, TypeOK, KernelOK, EventOK
<1>5. ChildrenOK'
  <2>1. \A q \in Pids : Forking(q)' => Forking(q)
    BY DEF Forking, TypeOK, Signals
  <2>2. \A q \in Pids : state[q] # "none" => state'[q] # "none"
    BY DEF TypeOK
  <2> QED
    BY <1>2, <2>1, <2>2, ChildrenKept
<1>6. ListOK'
  BY <1>2, EventFacts DEF ListOK, TypeOK
<1>7. MetOK'
  BY <1>2 DEF MetOK, Dead, Owned, TypeOK, ListOK
<1>8. InStep'
  <2> SUFFICES ASSUME Tracing' PROVE InStep'
    BY DEF InStep
  <2>1. Tracing
    BY DEF Tracing
  <2>2. ASSUME NEW q \in Pids PROVE Sync(q)'
    BY <2>1, <2>2 DEF InStep, Sync, Dead, Between, Inside, AwaitsTrap, Unmet, Pend, TypeOK,
       KernelOK, EventOK, ListOK, Signals, CallStops, Calls, Tracing
  <2>3. EventExpected'
    BY <2>1 DEF InStep, EventExpected, Expected, EventOK, TypeOK, CallStops
  <2> QED
    BY <1>2, <2>1, <2>2, <2>3 DEF InStep
<1>9. ParentWaits'
  BY DEF ParentWaits, Tracing, Dead, TypeOK, KernelOK
<1>10. ErrorOK'
  BY DEF ErrorOK
<1> QED
  BY <1>1, <1>3, <1>4, <1>5, <1>6, <1>7, <1>8, <1>9, <1>10

\* A signal that is sent waits.
LEMMA SendSignalInv == ASSUME PtInv, NEW p \in Pids, SendSignal(p) PROVE PtInv'
<1> USE PtraceAssumption DEF PtInv, SendSignal, Alive, ProgramKeeps, vars, debugVars, historyVars
<1>1. TypeOK'
  BY ONLY TypeOK, Types, p \in Pids, SendSignal(p)
     DEF SendSignal, Alive, ProgramKeeps, debugVars, historyVars, TypeOK
<1>2. Known' = Known /\ (FirstLeads => FirstLeads')
  BY SameList
<1>3. KernelOK'
  BY ONLY TypeOK, KernelOK, PtraceAssumption, p \in Pids, SendSignal(p)
     DEF SendSignal, Alive, ProgramKeeps, debugVars, historyVars, TypeOK, KernelOK, Signals
<1>4. EventOK'
  BY ONLY <1>2, EventFacts, TypeOK, KernelOK, EventOK, p \in Pids, SendSignal(p)
     DEF SendSignal, Alive, ProgramKeeps, debugVars, historyVars, TypeOK, KernelOK, EventOK
<1>5. ChildrenOK'
  <2>1. \A q \in Pids : Forking(q)' => Forking(q)
    BY DEF Forking, TypeOK, Signals
  <2>2. \A q \in Pids : state[q] # "none" => state'[q] # "none"
    BY DEF TypeOK
  <2> QED
    BY <1>2, <2>1, <2>2, ChildrenKept
<1>6. ListOK'
  BY <1>2, EventFacts DEF ListOK, TypeOK
<1>7. MetOK'
  BY <1>2 DEF MetOK, Dead, Owned, TypeOK, ListOK
<1>8. InStep'
  <2> SUFFICES ASSUME Tracing' PROVE InStep'
    BY DEF InStep
  <2>1. Tracing
    BY DEF Tracing
  <2>2. ASSUME NEW q \in Pids PROVE Sync(q)'
    BY <2>1, <2>2 DEF InStep, Sync, Dead, Between, Inside, AwaitsTrap, Unmet, Pend, TypeOK,
       KernelOK, EventOK, ListOK, Signals, CallStops, Calls, Tracing
  <2>3. EventExpected'
    BY <2>1 DEF InStep, EventExpected, Expected, EventOK, TypeOK, CallStops
  <2> QED
    BY <1>2, <2>1, <2>2, <2>3 DEF InStep
<1>9. ParentWaits'
  BY DEF ParentWaits, Tracing, Dead, TypeOK, KernelOK
<1>10. ErrorOK'
  BY DEF ErrorOK
<1> QED
  BY <1>1, <1>3, <1>4, <1>5, <1>6, <1>7, <1>8, <1>9, <1>10

\* A process may be killed at any moment.
LEMMA KillInv == ASSUME PtInv, NEW p \in Pids, Kill(p) PROVE PtInv'
<1> USE PtraceAssumption DEF PtInv, Kill, Dies, Alive, vars, debugVars, historyVars
<1>1. TypeOK'
  BY ONLY TypeOK, Types, p \in Pids, Kill(p)
     DEF Kill, Dies, Alive, debugVars, historyVars, TypeOK
<1>2. Known' = Known /\ (FirstLeads => FirstLeads')
  BY SameList
<1>3. KernelOK'
  <2>1. /\ \A q \in Pids \ {p} : state'[q] = state[q] /\ report'[q] = report[q] /\ at'[q] = at[q]
        /\ state'[p] = "zombie" /\ report'[p] = "death" /\ at'[p] = "user"
    BY DEF TypeOK
  <2>2. KernelOK /\ First \in Pids /\ UNCHANGED pc
    OBVIOUS
  <2> QED
    BY ONLY <2>1, <2>2 DEF KernelOK
<1>4. EventOK'
  BY ONLY <1>2, EventFacts, TypeOK, KernelOK, EventOK, p \in Pids, Kill(p)
     DEF Kill, Dies, Alive, debugVars, historyVars, TypeOK, KernelOK, EventOK
<1>5. ChildrenOK'
  <2>1. \A q \in Pids : Forking(q)' => Forking(q)
    BY DEF Forking, TypeOK, Signals
  <2>2. \A q \in Pids : state[q] # "none" => state'[q] # "none"
    BY DEF TypeOK
  <2> QED
    BY <1>2, <2>1, <2>2, ChildrenKept
<1>6. ListOK'
  BY <1>2, EventFacts DEF ListOK, TypeOK
<1>7. MetOK'
  BY <1>2 DEF MetOK, Dead, Owned, TypeOK, ListOK
<1>8. InStep'
  <2> SUFFICES ASSUME Tracing' PROVE InStep'
    BY DEF InStep
  <2>1. Tracing
    BY DEF Tracing
  <2>2. ASSUME NEW q \in Pids PROVE Sync(q)'
    BY <2>1, <2>2 DEF InStep, Sync, Dead, Between, Inside, AwaitsTrap, Unmet, Pend, TypeOK,
       KernelOK, EventOK, ListOK, Signals, CallStops, Calls, Tracing
  <2>3. EventExpected'
    BY <2>1 DEF InStep, EventExpected, Expected, EventOK, TypeOK, CallStops
  <2> QED
    BY <1>2, <2>1, <2>2, <2>3 DEF InStep
<1>9. ParentWaits'
  BY DEF ParentWaits, Tracing, Dead, TypeOK, KernelOK
<1>10. ErrorOK'
  BY DEF ErrorOK
<1> QED
  BY <1>1, <1>3, <1>4, <1>5, <1>6, <1>7, <1>8, <1>9, <1>10

-----------------------------------------------------------------------------
(* Steps of the debugger that have much in common.                         *)

Faults == {"child first", "child died", "execve failed", "signal misdirected"}

\* The tracer gives up; a process that is removed from the list is dead, if it was traced.
LEMMA QuitsInv ==
    ASSUME PtInv, pc # "done", pc' = "quit", event' = NoEvent,
           UNCHANGED <<traceExec, created, kernelVars, parent, isStopped, next, name, waited,
                       met, killed>>,
           process' \in Pids, ended' \in {"no", "exit", "error", "interrupt"},
           fault' = fault \/ fault' \in Faults,
           UNCHANGED list \/ \E p \in Pids : Remove(p) /\ (p \in met => Dead(p)),
           ended' = "error" /\ fault' = "none" => killed # {}
    PROVE  PtInv'
<1> USE PtraceAssumption DEF PtInv, kernelVars
<1>1. /\ list' \in Seq(Pids) /\ Known' \subseteq Known /\ (FirstLeads => FirstLeads')
      /\ \A q \in Pids : q \in (Known \ Known') \cap met => Dead(q)
  <2>1. CASE UNCHANGED list
    BY <2>1, SameList DEF TypeOK
  <2>2. CASE \E p \in Pids : Remove(p) /\ (p \in met => Dead(p))
    BY <2>2, RemoveFacts DEF TypeOK
  <2> QED
    BY <2>1, <2>2
<1>2. TypeOK'
  BY <1>1 DEF TypeOK, Waits, NoEvent, Faults
<1>3. KernelOK'
  BY DEF KernelOK
<1>4. EventOK'
  BY DEF EventOK, NoEvent
<1>5. ChildrenOK'
  <2>1. \A q \in Pids : Forking(q)' => Forking(q)
    BY DEF Forking, NoEvent
  <2> QED
    BY <1>1, <2>1, ChildrenKept
<1>6. ListOK'
  BY <1>1 DEF ListOK
<1>7. MetOK'
  BY <1>1 DEF MetOK, Dead, Owned, TypeOK
<1>8. InStep' /\ ParentWaits'
  BY DEF InStep, ParentWaits, Tracing
<1>9. ErrorOK'
  BY DEF ErrorOK
<1> QED
  BY <1>2, <1>3, <1>4, <1>5, <1>6, <1>7, <1>8, <1>9

\* The processes ps go on, some of them for the first time.
LEMMA ResumeInv ==
    ASSUME PtInv, NEW ps \in SUBSET Pids, \A q \in ps : state[q] = "stopped", Resume(ps),
           event' = NoEvent, pc \in {"trace", "attach", "exectrap"},
           pc' \in {"trace", "exectrap", "quit"},
           UNCHANGED <<created, at, call, pending, newborn, list, killed>>,
           met \subseteq met', met' \subseteq met \cup (ps \cap Known)
    PROVE  KernelOK' /\ EventOK' /\ ChildrenOK' /\ ListOK' /\ MetOK' /\ ParentWaits'
<1> USE PtraceAssumption DEF PtInv, Resume
<1>1. Known' = Known /\ (FirstLeads => FirstLeads') /\ Known \subseteq Pids
  BY SameList, EventFacts
<1>2. KernelOK'
  BY DEF KernelOK
<1>3. EventOK'
  BY DEF EventOK, NoEvent
<1>4. ChildrenOK'
  <2>1. \A q \in Pids : Forking(q)' => Forking(q)
    BY DEF Forking, NoEvent
  <2>2. \A q \in Pids : state[q] # "none" => state'[q] # "none"
    OBVIOUS
  <2> QED
    BY <1>1, <2>1, <2>2, ChildrenKept
<1>5. ListOK'
  BY <1>1 DEF ListOK, TypeOK
<1>6. MetOK'
  BY <1>1 DEF MetOK, Dead, Owned, TypeOK
<1>7. ParentWaits'
  BY DEF ParentWaits, Tracing
<1> QED
  BY <1>2, <1>3, <1>4, <1>5, <1>6, <1>7

\* The agreement about a process that is not resumed and that no event was about.
LEMMA OthersInStep ==
    ASSUME PtInv, Tracing, Tracing', NEW ps, Resume(ps), event' = NoEvent,
           UNCHANGED <<at, call, pending>>, met \subseteq met',
           NEW q \in Pids, q \notin ps, q # event.pid,
           next'[q] = next[q], name'[q] = name[q],
           pc' = "exectrap" => q # waited',
           pc = "exectrap" => q # waited
    PROVE  Sync(q)'
BY PtraceAssumption DEF PtInv, InStep, Sync, Dead, Between, Inside, AwaitsTrap, Unmet, Pend, Resume, TypeOK,
   NoEvent


-----------------------------------------------------------------------------
(* Events.                                                                 *)

\* An event that was read instead of being held back; that of an unknown process
\* is a fault.
LEMMA WaitInv == ASSUME PtInv, NEW p \in Pids, Wait(p) PROVE PtInv'
<1> USE PtraceAssumption DEF PtInv, Wait, Blames
<1>1. Known' = Known /\ (FirstLeads => FirstLeads') /\ Known \subseteq Pids
  BY SameList, EventFacts
<1>2. TypeOK'
  <2>1. event' \in [pid : Pids \cup {None}, what : Reports \cup {"none"}]
    BY DEF TypeOK, NoEvent
  <2>2. /\ state' \in [Pids -> States] /\ report' \in [Pids -> Reports \cup {"none"}]
        /\ isStopped' \in [Pids -> BOOLEAN]
    BY DEF TypeOK, States
  <2> QED
    BY <2>1, <2>2 DEF TypeOK
<1>3. KernelOK'
  BY DEF KernelOK, TypeOK
<1>4. EventOK'
  BY ONLY <1>1, TypeOK, KernelOK, EventOK, PtraceAssumption, p \in Pids, Wait(p)
     DEF Wait, EventOK, KernelOK, TypeOK, NoEvent
<1>5. ChildrenOK'
  <2>1. \A q \in Pids : Forking(q)' => Forking(q)
    BY DEF Forking, TypeOK, NoEvent
  <2>2. \A q \in Pids : state[q] # "none" => state'[q] # "none"
    BY DEF TypeOK
  <2> QED
    BY <1>1, <2>1, <2>2, ChildrenKept
<1>6. ListOK'
  BY <1>1 DEF ListOK, TypeOK
<1>7. MetOK'
  <2>1. /\ \A q \in Pids \ {p} : state'[q] = state[q] /\ isStopped'[q] = isStopped[q]
        /\ \/ state[p] = "zombie" /\ state'[p] = "reaped"
           \/ state[p] = "stopped" /\ state'[p] = "stopped"
        /\ met' = met /\ met \subseteq Pids /\ UNCHANGED <<pc, created>>
    BY DEF TypeOK, KernelOK
  <2> QED
    BY ONLY <1>1, <2>1, MetOK, PtraceAssumption DEF MetOK, Dead, Owned
<1>8. InStep'
  <2> SUFFICES ASSUME Tracing' PROVE InStep'
    BY DEF InStep
  <2>1. Tracing /\ p \in Known
    BY DEF Tracing
  <2>2. event' = [pid |-> p, what |-> report[p]]
    BY <2>1
  <2>3. event'.pid = p /\ event'.what = report[p]
    BY ONLY <2>2
  <2>4. \A q \in Pids : Pend(q)' = Pend(q)
    <3>1. event = NoEvent /\ report[p] # "none" /\ report' = [report EXCEPT ![p] = "none"]
      OBVIOUS
    <3>2. /\ report'[p] = "none"
          /\ \A q \in Pids : q # p => report'[q] = report[q]
      BY ONLY <3>1, TypeOK, p \in Pids DEF TypeOK
    <3>3. \A q \in Pids : q # None
      OBVIOUS
    <3> QED
      BY ONLY <2>3, <3>1, <3>2, <3>3, p \in Pids DEF Pend, NoEvent
  <2>5. \A q \in Pids : (Dead(q)' <=> Dead(q)) /\ (state[q] = "none" <=> state'[q] = "none")
    BY DEF Dead, TypeOK, KernelOK, Tracing
  <2>6. ASSUME NEW q \in Pids PROVE Sync(q)'
    BY <2>1, <2>4, <2>5 DEF InStep, Sync, Between, Inside, AwaitsTrap, Unmet
  <2>7. Dead(p) => report[p] = "death"
    BY DEF Dead, KernelOK
  <2>8. Sync(p) /\ Pend(p) = report[p] /\ next[p] \in CallStops
    BY <2>1 DEF InStep, Pend, TypeOK
  <2>9. ASSUME report[p] \in CallStops PROVE Expected(p, report[p])
    BY <2>7, <2>8, <2>9 DEF Expected, Sync, Between, Inside, AwaitsTrap, CallStops, Signals
  <2>10. EventExpected'
    BY <2>3, <2>9 DEF EventExpected, Expected
  <2>11. pc = "exectrap" => event'.what \in {"trap", "death"}
    <3>1. report[p] # "none" /\ (pc = "exectrap" => p = waited)
      OBVIOUS
    <3> QED
      BY ONLY <2>3, <2>7, <2>8, <3>1 DEF Sync, AwaitsTrap
  <2> QED
    BY <1>1, <2>1, <2>6, <2>10, <2>11 DEF InStep
<1>9. ParentWaits'
  <2> SUFFICES ASSUME Tracing', pc = "attach", parent[waited] \in Pids PROVE ParentWaits'
    BY DEF ParentWaits
  <2>1. Tracing
    BY DEF Tracing
  <2>2. PICK q \in Pids : /\ q = parent[waited] /\ q # waited
                          /\ \/ state[q] = "stopped" /\ report[q] = "none"
                             \/ Dead(q) /\ killed # {}
    BY <2>1, ParentWaits DEF ParentWaits
  <2>3. q # p /\ state'[q] = state[q] /\ report'[q] = report[q]
    BY <2>2 DEF TypeOK
  <2> QED
    BY <2>2, <2>3 DEF ParentWaits, Dead
<1>10. ErrorOK'
  BY DEF ErrorOK
<1> QED
  BY <1>2, <1>3, <1>4, <1>5, <1>6, <1>7, <1>8, <1>9, <1>10

\* The death that nobody reported is true as well.
LEMMA WaitFailsInv == ASSUME PtInv, WaitFails PROVE PtInv'
<1> USE PtraceAssumption DEF PtInv, WaitFails, kernelVars, historyVars
<1>1. Known' = Known /\ (FirstLeads => FirstLeads') /\ Known \subseteq Pids
  BY SameList, EventFacts
<1>2. TypeOK'
  BY DEF TypeOK, Reports
<1>3. KernelOK'
  BY DEF KernelOK
<1>4. EventOK'
  BY <1>1 DEF EventOK, ListOK, TypeOK
<1>5. ChildrenOK'
  <2>1. \A q \in Pids : Forking(q)' => Forking(q)
    BY DEF Forking
  <2> QED
    BY <1>1, <2>1, ChildrenKept
<1>6. ListOK'
  BY <1>1 DEF ListOK
<1>7. MetOK'
  BY <1>1 DEF MetOK, Dead, Owned
<1>8. InStep'
  <2> SUFFICES ASSUME Tracing' PROVE InStep'
    BY DEF InStep
  <2>1. Tracing
    BY DEF Tracing
  <2>2. ASSUME NEW q \in Pids PROVE Sync(q)'
    BY <2>1 DEF InStep, Sync, Dead, Between, Inside, AwaitsTrap, Unmet, Pend, NoEvent, TypeOK
  <2>3. EventExpected'
    BY DEF EventExpected, CallStops
  <2> QED
    BY <1>1, <2>1, <2>2, <2>3 DEF InStep
<1>9. ParentWaits'
  BY DEF ParentWaits, Tracing, Dead
<1>10. ErrorOK'
  BY DEF ErrorOK
<1> QED
  BY <1>2, <1>3, <1>4, <1>5, <1>6, <1>7, <1>8, <1>9, <1>10

\* A request fails only if the process was killed after its stop was read.
LEMMA RequestFailed ==
    ASSUME PtInv, NEW what \in SUBSET (Reports \ {"death"}),
           event.what \in what, state[event.pid] # "stopped"
    PROVE  killed # {}
BY DEF PtInv, EventOK, Reports, Signals, CallStops

\* The debugger gives up.
LEMMA FailsInv ==
    ASSUME PtInv,
           \/ SyscallFails \/ ExecTrapFails \/ AddChildFails \/ ProcessExecutionFails
           \/ AttachFails \/ NoMoreProcess \/ ForwardFails
    PROVE  PtInv'
<1> USE PtraceAssumption DEF PtInv
<1>1. event.what = "death" => event.pid \in Pids /\ Dead(event.pid)
  BY EventFacts DEF EventOK, Dead
<1>2. process \in Pids /\ Known \subseteq Pids
  BY EventFacts DEF TypeOK
<1>3. CASE SyscallFails
  <2>1. killed # {}
    BY <1>3, RequestFailed DEF SyscallFails, RequestFails, Handles, CallStops, Reports
  <2> QED
    BY <1>3, <2>1, QuitsInv DEF SyscallFails, RequestFails, Handles, GiveUp, kernelVars
<1>4. CASE ExecTrapFails
  <2>1. CASE RequestFails("exectrap", {"trap"}, event.pid)
    <3>1. killed # {}
      BY <2>1, RequestFailed DEF RequestFails, Handles, Signals, Reports
    <3> QED
      BY <1>2, <1>4, <2>1, <3>1, QuitsInv DEF ExecTrapFails, RequestFails, Handles, GiveUp, kernelVars
  <2>2. CASE Handles("exectrap", Reports \ {"trap", "death"}) /\ GiveUp("error")
    <3>1. fault # "none"
      BY <2>2 DEF InStep, Tracing, Handles, Reports, Signals, CallStops
    <3> QED
      BY <1>2, <1>4, <2>2, <3>1, QuitsInv DEF ExecTrapFails, RequestFails, Handles, GiveUp, kernelVars
  <2>3. CASE Handles("exectrap", {"death"})
    BY <1>1, <1>2, <1>4, <2>3, QuitsInv DEF ExecTrapFails, RequestFails, Handles, GiveUp, kernelVars
  <2> QED
    BY <1>4, <2>1, <2>2, <2>3 DEF ExecTrapFails
<1>5. CASE AddChildFails
  <2>1. killed # {}
    BY <1>5, RequestFailed DEF AddChildFails, RequestFails, Handles, Reports
  <2> QED
    BY <1>2, <1>5, <2>1, QuitsInv DEF AddChildFails, RequestFails, Handles, GiveUp, kernelVars
<1>6. CASE ProcessExecutionFails
  <2>1. killed # {}
    BY <1>6, RequestFailed DEF ProcessExecutionFails, RequestFails, Handles, Reports
  <2> QED
    BY <1>2, <1>6, <2>1, QuitsInv DEF ProcessExecutionFails, RequestFails, Handles, GiveUp, kernelVars
<1>7. CASE AttachFails
  <2>1. killed # {}
    BY <1>7, RequestFailed DEF AttachFails, RequestFails, Handles
  <2> QED
    BY <1>2, <1>7, <2>1, QuitsInv DEF AttachFails, RequestFails, Handles, GiveUp, kernelVars
<1>8. CASE NoMoreProcess
  BY <1>2, <1>8, QuitsInv DEF NoMoreProcess, GiveUp, kernelVars
<1>9. CASE ForwardFails
  <2>1. fault' = "none" => killed # {}
    <3>1. ASSUME process = event.pid PROVE killed # {}
      BY <1>9, <3>1, RequestFailed DEF ForwardFails, RequestFails, Handles, Signals, Reports
    <3> QED
      BY <1>9, <3>1 DEF ForwardFails, Blames
  <2>2. fault' = fault \/ fault' \in Faults
    BY <1>9 DEF ForwardFails, Blames, Faults
  <2> QED
    BY <1>2, <1>9, <2>1, <2>2, QuitsInv DEF ForwardFails, RequestFails, Handles, GiveUp, kernelVars
<1> QED
  BY <1>3, <1>4, <1>5, <1>6, <1>7, <1>8, <1>9

\* A process that has died is forgotten, and the loop goes on.
LEMMA ForgetsInv ==
    ASSUME PtInv, event.what = "death", Remove(event.pid), event' = NoEvent,
           pc \in {"trace", "attach"}, pc' = "trace",
           UNCHANGED <<traceExec, created, kernelVars, parent, isStopped, next, name, process,
                       waited, ended, met, killed>>,
           \/ fault' \in Faults
           \/ pc = "trace" /\ UNCHANGED fault
    PROVE  PtInv'
<1> USE PtraceAssumption DEF PtInv, kernelVars
<1> DEFINE p == event.pid
<1>1. p \in Pids /\ state[p] = "reaped" /\ Dead(p)
  BY EventFacts DEF EventOK, Dead
<1>2. /\ list' \in Seq(Pids) /\ Known' \subseteq Known /\ (FirstLeads => FirstLeads')
      /\ \A q \in Known : q # p => q \in Known'
  BY RemoveFacts DEF TypeOK
<1>3. TypeOK'
  BY <1>2 DEF TypeOK, Waits, NoEvent, Faults
<1>4. KernelOK'
  BY DEF KernelOK
<1>5. EventOK'
  BY DEF EventOK, NoEvent
<1>6. ChildrenOK'
  <2>1. \A q \in Pids : Forking(q)' => Forking(q)
    BY DEF Forking, NoEvent
  <2> QED
    BY <1>2, <2>1, ChildrenKept
<1>7. ListOK'
  BY <1>2 DEF ListOK
<1>8. MetOK'
  BY <1>1, <1>2 DEF MetOK, Dead, Owned, TypeOK
<1>9. InStep'
  <2> SUFFICES ASSUME Tracing' PROVE InStep'
    BY DEF InStep
  <2>1. Tracing /\ pc = "trace"
    BY DEF Tracing, Faults
  <2>2. ASSUME NEW q \in Pids PROVE Sync(q)'
    <3>1. CASE q = p
      BY <1>1, <3>1 DEF Sync, Dead
    <3>2. CASE q # p
      BY <2>1, <3>2 DEF InStep, Sync, Dead, Between, Inside, AwaitsTrap, Unmet, Pend, NoEvent
    <3> QED
      BY <3>1, <3>2
  <2>3. EventExpected'
    BY DEF EventExpected, NoEvent, CallStops
  <2> QED
    BY <1>2, <2>1, <2>2, <2>3 DEF InStep, NoEvent
<1>10. ParentWaits'
  BY DEF ParentWaits
<1>11. ErrorOK'
  BY DEF ErrorOK, Faults
<1> QED
  BY <1>3, <1>4, <1>5, <1>6, <1>7, <1>8, <1>9, <1>10, <1>11

LEMMA ProcessExitsInv == ASSUME PtInv, ProcessExits PROVE PtInv'
BY ForgetsInv DEF ProcessExits, Handles, kernelVars

LEMMA AttachedDiesInv == ASSUME PtInv, AttachedDies PROVE PtInv'
<1> USE DEF AttachedDies, Handles, kernelVars
<1>1. CASE event.pid = First
  <2>1. event.pid \in Pids /\ Dead(event.pid)
    BY EventFacts DEF PtInv, EventOK, Dead
  <2> QED
    BY <1>1, <2>1, QuitsInv DEF GiveUp, PtInv, TypeOK
<1>2. CASE event.pid # First
  <2>1. fault' \in Faults
    BY <1>2 DEF Blames, Faults, PtInv, TypeOK
  <2> QED
    BY <1>2, <2>1, ForgetsInv
<1> QED
  BY <1>1, <1>2

-----------------------------------------------------------------------------
(* The end.                                                                *)

\* The last of several is not the first.
LEMMA ManyHaveLast == ASSUME NEW n \in Nat, n # 0, n # 1 PROVE n \in 2..n
OBVIOUS

\* While the tracer quits, no event is left.
LEMMA QuitFacts ==
    ASSUME PtInv, NEW p, QuitsAt(p)
    PROVE  /\ event = NoEvent /\ p \in Pids /\ p \in Known
           /\ p = First => \A q \in Known : q = First
<1> USE DEF PtInv, QuitsAt
<1>1. event.what = "none" /\ event.pid = None
  BY DEF EventOK
<1>2. event = NoEvent
  BY <1>1 DEF NoEvent, TypeOK
<1>3. Len(list) \in Nat /\ Len(list) # 0 /\ \A i \in 1..Len(list) : list[i] \in Pids
  BY EmptySeq, ElementOfSeq, LenProperties DEF TypeOK
<1>4. p \in Pids /\ p \in Known
  BY <1>3 DEF Known
<1>5. ASSUME p = First, NEW q \in Known PROVE q = First
  <2>1. list[Len(list)] = First /\ FirstLeads
    BY <1>5 DEF ListOK
  <2>2. Len(list) = 1
    <3>1. Len(list) # 1 => Len(list) \in 2..Len(list)
      BY <1>3, ManyHaveLast
    <3> QED
      BY ONLY <1>3, <2>1, <3>1 DEF FirstLeads
  <2> QED
    BY ONLY <1>5, <2>1, <2>2 DEF Known
<1> QED
  BY <1>2, <1>4, <1>5

\* The process that is killed stays in the list until it is dead.
LEMMA TerminateInv == ASSUME PtInv, NEW p \in Pids, Terminate(p) PROVE PtInv'
<1> USE PtraceAssumption DEF PtInv, Terminate, QuitKeeps, kernelVars
<1>1. event = NoEvent /\ p \in Known
  BY QuitFacts
<1>2. Known' = Known /\ (FirstLeads => FirstLeads')
  BY SameList
<1>3. /\ UNCHANGED <<call, newborn>>
      /\ state' \in [Pids -> States] /\ report' \in [Pids -> Reports \cup {"none"}]
      /\ at' \in [Pids -> Places] /\ pending' \in [Pids -> SUBSET Signals]
      /\ \A q \in Pids \ {p} : state'[q] = state[q] /\ report'[q] = report[q] /\ at'[q] = at[q]
      /\ \/ state'[p] = state[p] /\ report'[p] = report[p] /\ at'[p] = at[p]
         \/ state'[p] = "zombie" /\ report'[p] = "death" /\ at'[p] = "user"
  <2>1. CASE Alive(p)
    <3>1. Dies(p) /\ TypeOK
      BY <2>1
    <3> QED
      BY ONLY <3>1, p \in Pids DEF Dies, TypeOK, States, Reports, Places
  <2>2. CASE ~Alive(p)
    BY <2>2 DEF TypeOK
  <2> QED
    BY <2>1, <2>2
<1>4. pc = "quit" /\ pc' = "waitexit" /\ waited' = p
  BY DEF QuitsAt
<1>5. TypeOK'
  BY <1>3, <1>4 DEF TypeOK, Waits
<1>6. KernelOK'
  <2>1. KernelOK /\ First \in Pids /\ p \in Pids
    OBVIOUS
  <2> QED
    BY ONLY <1>3, <1>4, <2>1 DEF KernelOK
<1>7. EventOK'
  BY <1>1 DEF EventOK, NoEvent
<1>8. ChildrenOK'
  <2>1. \A q \in Pids : Forking(q)' => Forking(q)
    BY <1>3 DEF Forking, TypeOK
  <2>2. \A q \in Pids : state[q] # "none" => state'[q] # "none"
    BY <1>3 DEF TypeOK
  <2> QED
    BY <1>2, <1>3, <2>1, <2>2, ChildrenKept
<1>9. ListOK'
  <2>1. Known \cup met \subseteq Pids /\ ListOK /\ met' = met
    BY EventFacts DEF TypeOK
  <2> QED
    BY ONLY <1>2, <1>3, <1>4, <2>1 DEF ListOK
<1>10. MetOK'
  <2>1. MetOK /\ met \subseteq Pids /\ UNCHANGED <<created, isStopped, met>>
    BY DEF TypeOK
  <2> QED
    BY ONLY <1>2, <1>3, <1>4, <2>1 DEF MetOK, Dead, Owned
<1>11. InStep' /\ ParentWaits'
  BY <1>4 DEF InStep, ParentWaits, Tracing
<1>12. ErrorOK'
  BY DEF ErrorOK
<1> QED
  BY <1>5, <1>6, <1>7, <1>8, <1>9, <1>10, <1>11, <1>12

LEMMA TerminateEndsInv == ASSUME PtInv, TerminateEnds PROVE PtInv'
<1>1. event.pid \in Pids /\ Dead(event.pid)
  BY EventFacts DEF PtInv, EventOK, Dead, TerminateEnds
<1> QED
  BY <1>1, QuitsInv DEF TerminateEnds, historyVars, PtInv, TypeOK, ErrorOK, kernelVars

\* ESRCH: a process that is believed to be stopped and is not is dead.
LEMMA TerminateFailsInv == ASSUME PtInv, NEW p \in Pids, TerminateFails(p) PROVE PtInv'
<1>1. event = NoEvent
  BY QuitFacts DEF TerminateFails
<1>2. p \in met => Dead(p)
  BY DEF PtInv, MetOK, Dead, TerminateFails, QuitsAt
<1> QED
  BY <1>1, <1>2, QuitsInv DEF TerminateFails, QuitsAt, QuitKeeps, PtInv, TypeOK, ErrorOK, kernelVars

\* The process that ran before the tracer came is the last one in the list.
LEMMA DetachInv == ASSUME PtInv, NEW p \in Pids, Detach(p) PROVE PtInv'
<1> USE PtraceAssumption DEF PtInv, Detach, QuitKeeps
<1>1. event = NoEvent /\ p = First /\ ~created /\ \A q \in Known : q = First
  BY QuitFacts DEF Owned
<1>2. /\ list' \in Seq(Pids) /\ Known' \subseteq Known /\ (FirstLeads => FirstLeads')
      /\ \A q \in Known : q # p => q \in Known'
  <2>1. CASE UNCHANGED list
    BY <2>1, SameList DEF TypeOK
  <2>2. CASE Remove(p)
    BY <2>2, RemoveFacts DEF TypeOK
  <2> QED
    BY <2>1, <2>2
<1>3. pc = "quit" /\ pc' \in {"quit", "done"} /\ event.what = "none"
  BY <1>1 DEF QuitsAt, NoEvent
<1>4. /\ state' \in [Pids -> States] /\ report' \in [Pids -> Reports \cup {"none"}]
      /\ \A q \in Pids \ {p} : state'[q] = state[q] /\ report'[q] = report[q]
      /\ \/ state'[p] = state[p] /\ report'[p] = report[p]
         \/ isStopped[p] /\ pc' = "quit" /\ state'[p] = "free" /\ report'[p] = "none"
  <2>1. TypeOK
    OBVIOUS
  <2> QED
    BY ONLY <1>3, <2>1, Detach(p), p \in Pids DEF Detach, TypeOK, States
<1>5. TypeOK'
  BY <1>2, <1>3, <1>4 DEF TypeOK, Waits
<1>6. KernelOK'
  <2>1. KernelOK /\ First \in Pids /\ p \in Pids /\ UNCHANGED at
    OBVIOUS
  <2> QED
    BY ONLY <1>3, <1>4, <2>1 DEF KernelOK
<1>7. EventOK'
  BY <1>1 DEF EventOK, NoEvent
<1>8. ChildrenOK'
  <2>1. \A q \in Pids : Forking(q)' => Forking(q)
    BY <1>4 DEF Forking, TypeOK
  <2>2. \A q \in Pids : state[q] # "none" => state'[q] # "none"
    BY <1>4 DEF TypeOK
  <2> QED
    BY <1>2, <2>1, <2>2, ChildrenKept
<1>9. ListOK'
  <2>1. Known \cup met \subseteq Pids /\ ListOK /\ met' = met
    BY EventFacts DEF TypeOK
  <2> QED
    BY ONLY <1>2, <1>3, <1>4, <2>1 DEF ListOK
<1>10. MetOK'
  <2> SUFFICES ASSUME NEW q \in met
               PROVE  /\ isStopped'[q] => \/ state'[q] \in {"stopped", "zombie", "reaped"}
                                          \/ state'[q] = "free" /\ (pc' = "done" \/ ~Owned(q)')
                      /\ Owned(q)' => Dead(q)' \/ (q \in Known' /\ pc' # "done")
    BY DEF MetOK
  <2>1. q \in Pids /\ (Owned(q) <=> q # First) /\ (Owned(q)' <=> q # First)
    BY <1>1 DEF Owned, TypeOK
  <2>2. CASE q = First
    BY <1>1, <1>3, <1>4, <2>1, <2>2 DEF MetOK, TypeOK
  <2>3. CASE q # First
    <3>1. state'[q] = state[q] /\ q \notin Known
      BY <1>1, <1>4, <2>1, <2>3 DEF TypeOK
    <3> QED
      BY <1>3, <2>1, <2>3, <3>1 DEF MetOK, Dead
  <2> QED
    BY <2>2, <2>3
<1>11. InStep' /\ ParentWaits'
  BY <1>3 DEF InStep, ParentWaits, Tracing
<1>12. ErrorOK'
  BY DEF ErrorOK
<1> QED
  BY <1>5, <1>6, <1>7, <1>8, <1>9, <1>10, <1>11, <1>12

\* Nobody that the tracer owns is left when it leaves.
LEMMA LeaveInv == ASSUME PtInv, Leave PROVE PtInv'
<1> USE PtraceAssumption DEF PtInv, Leave, QuitKeeps
<1>1. event.what = "none" /\ Known = {}
  BY EmptySeq DEF EventOK, Known
<1>2. Known' = Known /\ (FirstLeads => FirstLeads')
  BY SameList
<1>3. \A q \in Pids : state'[q] = IF Alive(q) THEN "free" ELSE state[q]
  OBVIOUS
<1>4. TypeOK'
  BY DEF TypeOK, States, Waits
<1>5. KernelOK'
  BY <1>3 DEF KernelOK, Alive
<1>6. EventOK'
  BY <1>1 DEF EventOK
<1>7. ChildrenOK'
  <2>1. \A q \in Pids : Forking(q)' => Forking(q)
    BY DEF Forking
  <2>2. \A q \in Pids : state[q] # "none" => state'[q] # "none"
    BY <1>3
  <2> QED
    BY <1>2, <2>1, <2>2, ChildrenKept
<1>8. ListOK'
  BY <1>1, <1>2, <1>3 DEF ListOK, TypeOK
<1>9. MetOK'
  BY <1>1, <1>2, <1>3 DEF MetOK, Dead, Owned, TypeOK, Alive
<1>10. InStep' /\ ParentWaits'
  BY DEF InStep, ParentWaits, Tracing
<1>11. ErrorOK'
  BY DEF ErrorOK
<1> QED
  BY <1>4, <1>5, <1>6, <1>7, <1>8, <1>9, <1>10, <1>11

-----------------------------------------------------------------------------
(* Steps that resume processes.                                            *)

\* What is known of a process whose stop is handled.
LEMMA StopFacts ==
    ASSUME PtInv, event.what \notin {"none", "death"}, state[event.pid] = "stopped"
    PROVE  /\ event.pid \in Pids /\ event.pid \in Known /\ ~Dead(event.pid)
           /\ Pend(event.pid) = event.what /\ report[event.pid] = "none"
           /\ Tracing => Sync(event.pid)
BY EventFacts DEF PtInv, EventOK, Dead, Pend, InStep

\* The debugger and the kernel stay in step when one process is resumed.
LEMMA ResumedInStep ==
    ASSUME PtInv, NEW p \in Pids, p = event.pid, event.what # "none", Resume({p}), event' = NoEvent,
           UNCHANGED <<at, call, pending, list, met>>,
           pc \in {"trace", "exectrap"}, pc' \in {"trace", "exectrap"},
           pc = "exectrap" => waited = p, pc' = "exectrap" => waited' = p,
           \A q \in Pids : q # p => next'[q] = next[q] /\ name'[q] = name[q],
           Tracing' => Tracing /\ Sync(p)'
    PROVE  InStep'
<1> SUFFICES ASSUME Tracing' PROVE InStep'
  BY DEF InStep
<1>1. Tracing /\ Sync(p)'
  OBVIOUS
<1>2. ASSUME NEW q \in Pids PROVE Sync(q)'
  BY <1>1, OthersInStep
<1>3. EventExpected' /\ event'.what = "none"
  BY DEF EventExpected, NoEvent, CallStops
<1>4. Known' = Known /\ Known \subseteq met /\ p \in Known
  BY <1>1, SameList DEF InStep, PtInv, EventOK
<1> QED
  BY <1>2, <1>3, <1>4 DEF InStep

\* A call is entered.
LEMMA SyscallEnterInv == ASSUME PtInv, NEW p \in Pids, SyscallEnter(p) PROVE PtInv'
<1> USE DEF SyscallEnter, Handles
<1>1. TypeOK'
  BY DEF PtInv, TypeOK, Resume, NoEvent, States, CallStops
<1>2. KernelOK' /\ EventOK' /\ ChildrenOK' /\ ListOK' /\ MetOK' /\ ParentWaits'
  BY ResumeInv, p \in Pids
<1>3. InStep'
  <2>1. ASSUME Tracing' PROVE Tracing /\ Sync(p)'
    <3>1. Tracing
      BY <2>1 DEF Tracing
    <3>2. Sync(p) /\ ~Dead(p) /\ Pend(p) = event.what /\ p \in Known
      BY <3>1, StopFacts DEF CallStops
    <3>3. at[p] = "body" /\ p \in met
      BY <3>1, <3>2 DEF Sync, Between, CallStops, Signals, InStep, PtInv
    <3>4. next'[p] = "exit" /\ name'[p] = call[p] /\ Pend(p)' = "none"
      BY DEF Pend, Resume, NoEvent, PtInv, TypeOK
    <3> QED
      BY <3>1, <3>3, <3>4 DEF Sync, Inside
  <2>2. \A q \in Pids : q # p => next'[q] = next[q] /\ name'[q] = name[q]
    BY DEF PtInv, TypeOK
  <2> QED
    BY <2>1, <2>2, ResumedInStep DEF CallStops
<1>4. ErrorOK'
  BY DEF PtInv, ErrorOK
<1> QED
  BY <1>1, <1>2, <1>3, <1>4 DEF PtInv

\* A call returns.
LEMMA SyscallExitInv == ASSUME PtInv, NEW p \in Pids, SyscallExit(p) PROVE PtInv'
<1> USE DEF SyscallExit, Handles
<1>1. TypeOK'
  BY DEF PtInv, TypeOK, Resume, NoEvent, States, CallStops
<1>2. KernelOK' /\ EventOK' /\ ChildrenOK' /\ ListOK' /\ MetOK' /\ ParentWaits'
  BY ResumeInv, p \in Pids
<1>3. InStep'
  <2>1. ASSUME Tracing' PROVE Tracing /\ Sync(p)'
    <3>1. Tracing
      BY <2>1 DEF Tracing
    <3>2. Sync(p) /\ ~Dead(p) /\ Pend(p) = event.what /\ p \in Known
      BY <3>1, StopFacts DEF CallStops
    <3>3. at[p] = "user" /\ p \in met
      BY <3>1, <3>2 DEF Sync, Inside, AwaitsTrap, CallStops, InStep, PtInv
    <3>4. next'[p] = "enter" /\ Pend(p)' = "none"
      BY DEF Pend, Resume, NoEvent, PtInv, TypeOK
    <3> QED
      BY <3>1, <3>3, <3>4 DEF Sync, Between
  <2>2. \A q \in Pids : q # p => next'[q] = next[q] /\ name'[q] = name[q]
    BY DEF PtInv, TypeOK
  <2> QED
    BY <2>1, <2>2, ResumedInStep DEF CallStops
<1>4. ErrorOK'
  BY DEF PtInv, ErrorOK
<1> QED
  BY <1>1, <1>2, <1>3, <1>4 DEF PtInv

\* An execve returns, and its SIGTRAP is awaited; without one it is a fault.
LEMMA ExecExitInv == ASSUME PtInv, NEW p \in Pids, ExecExit(p) PROVE PtInv'
<1> USE DEF ExecExit, Handles, Blames
<1>1. TypeOK'
  BY DEF PtInv, TypeOK, Resume, NoEvent, States, Waits
<1>2. KernelOK' /\ EventOK' /\ ChildrenOK' /\ ListOK' /\ MetOK' /\ ParentWaits'
  BY ResumeInv, p \in Pids
<1>3. InStep'
  <2>1. ASSUME Tracing' PROVE Tracing /\ Sync(p)'
    <3>1. Tracing /\ "trap" \in pending[p]
      BY <2>1 DEF Tracing
    <3>2. Sync(p) /\ ~Dead(p) /\ Pend(p) = event.what /\ p \in Known
      BY <3>1, StopFacts DEF CallStops
    <3>3. at[p] = "user" /\ p \in met /\ name[p] = call[p]
      BY <3>1, <3>2 DEF Sync, Inside, AwaitsTrap, CallStops, InStep, PtInv
    <3>4. Pend(p)' = "none"
      BY DEF Pend, Resume, NoEvent, PtInv, TypeOK
    <3> QED
      BY <3>1, <3>3, <3>4 DEF Sync, Inside, AwaitsTrap
  <2> QED
    BY <2>1, ResumedInStep DEF CallStops
<1>4. ErrorOK'
  BY DEF PtInv, ErrorOK
<1> QED
  BY <1>1, <1>2, <1>3, <1>4 DEF PtInv

\* The SIGTRAP after an execve.
LEMMA ExecTrapInv == ASSUME PtInv, NEW p \in Pids, ExecTrap(p) PROVE PtInv'
<1> USE DEF ExecTrap, Handles
<1>1. TypeOK'
  BY DEF PtInv, TypeOK, Resume, NoEvent, States, CallStops, Waits
<1>2. KernelOK' /\ EventOK' /\ ChildrenOK' /\ ListOK' /\ MetOK' /\ ParentWaits'
  BY ResumeInv, p \in Pids
<1>3. p = waited
  BY DEF PtInv, EventOK
<1>4. InStep'
  <2>1. ASSUME Tracing' PROVE Tracing /\ Sync(p)'
    <3>1. Tracing
      BY <2>1 DEF Tracing
    <3>2. Sync(p) /\ ~Dead(p) /\ p \in Known
      BY <3>1, StopFacts
    <3>3. at[p] = "user" /\ p \in met
      BY <1>3, <3>1, <3>2 DEF Sync, AwaitsTrap, InStep, PtInv
    <3>4. next'[p] = "enter" /\ Pend(p)' = "none"
      BY DEF Pend, Resume, NoEvent, PtInv, TypeOK
    <3> QED
      BY <3>1, <3>3, <3>4 DEF Sync, Between
  <2>2. \A q \in Pids : q # p => next'[q] = next[q] /\ name'[q] = name[q]
    BY DEF PtInv, TypeOK
  <2> QED
    BY <1>3, <2>1, <2>2, ResumedInStep
<1>5. ErrorOK'
  BY DEF PtInv, ErrorOK
<1> QED
  BY <1>1, <1>2, <1>4, <1>5 DEF PtInv

\* A signal that goes to another process than it came from is a fault.
LEMMA ForwardSignalInv == ASSUME PtInv, ForwardSignal PROVE PtInv'
<1> USE DEF ForwardSignal, Handles, Blames
<1> DEFINE p == process
<1>1. p \in Pids
  BY DEF PtInv, TypeOK
<1>2. TypeOK'
  BY DEF PtInv, TypeOK, Resume, NoEvent, States
<1>3. KernelOK' /\ EventOK' /\ ChildrenOK' /\ ListOK' /\ MetOK' /\ ParentWaits'
  BY <1>1, ResumeInv
<1>4. InStep'
  <2> SUFFICES ASSUME Tracing' PROVE InStep'
    BY DEF InStep
  <2>1. Tracing /\ p = event.pid
    BY DEF Tracing
  <2>2. event.what \notin {"none", "death"}
    BY DEF Signals
  <2>3. Sync(p)'
    <3>1. Sync(p) /\ ~Dead(p) /\ Pend(p) = event.what /\ p \in Known /\ next[p] \in CallStops
      BY <2>1, <2>2, StopFacts DEF PtInv, TypeOK
    <3>2. next[p] = "enter" /\ at[p] = "user" /\ p \in met
      BY <2>1, <3>1 DEF Sync, Between, Inside, AwaitsTrap, CallStops, Signals, InStep, PtInv
    <3>3. Pend(p)' = "none"
      BY <1>1 DEF Pend, Resume, NoEvent, PtInv, TypeOK
    <3> QED
      BY <3>2, <3>3 DEF Sync, Between
  <2> QED
    BY <1>1, <2>1, <2>2, <2>3, ResumedInStep
<1>5. ErrorOK'
  BY DEF PtInv, ErrorOK
<1> QED
  BY <1>2, <1>3, <1>4, <1>5 DEF PtInv

\* The event of an execve lies inside the call.
LEMMA ProcessExecutionInv == ASSUME PtInv, NEW p \in Pids, ProcessExecution(p) PROVE PtInv'
<1> USE DEF ProcessExecution, Handles
<1>1. TypeOK'
  BY DEF PtInv, TypeOK, Resume, NoEvent, States
<1>2. KernelOK' /\ EventOK' /\ ChildrenOK' /\ ListOK' /\ MetOK' /\ ParentWaits'
  BY ResumeInv, p \in Pids
<1>3. InStep'
  <2>1. ASSUME Tracing' PROVE Tracing /\ Sync(p)'
    <3>1. Tracing
      BY <2>1 DEF Tracing
    <3>2. /\ Sync(p) /\ ~Dead(p) /\ Pend(p) = "exec" /\ p \in Known /\ next[p] \in CallStops
      BY <3>1, StopFacts DEF PtInv, TypeOK
    <3>3. /\ next[p] = "exit" /\ name[p] = call[p] /\ at[p] \in {"body", "forked", "tail"}
          /\ p \in met
      BY <3>1, <3>2 DEF Sync, Between, Inside, AwaitsTrap, CallStops, Signals, InStep, PtInv
    <3>4. Pend(p)' = "none"
      BY DEF Pend, Resume, NoEvent, PtInv, TypeOK
    <3> QED
      BY <3>1, <3>3, <3>4 DEF Sync, Inside
  <2> QED
    BY <2>1, ResumedInStep
<1>4. ErrorOK'
  BY DEF PtInv, ErrorOK
<1> QED
  BY <1>1, <1>2, <1>3, <1>4 DEF PtInv

\* The parent of the child that is awaited, if it is stopped, is resumed together with it.
LEMMA StartsTracingInv ==
    ASSUME PtInv, pc = "attach", StartsTracing(waited), event' = NoEvent,
           event.what # "death", event.what # "none" => state[waited] = "stopped",
           UNCHANGED <<traceExec, created, at, call, pending, newborn, killed>>
    PROVE  PtInv'
<1> USE PtraceAssumption DEF StartsTracing
<1> DEFINE p == waited
           parents == {q \in {parent[p]} \cap Pids : state[q] = "stopped"}
           ps == {p} \cup parents
<1>1. /\ p \in Pids /\ p \in Known \ met /\ ps \in SUBSET Pids
      /\ state[p] = "stopped" /\ \A q \in ps : state[q] = "stopped"
  BY DEF PtInv, TypeOK, ListOK
<1>2. Resume(ps) /\ met' = met \cup {p} /\ pc' \in {"trace", "quit"}
  BY DEF GiveUp
<1>3. TypeOK'
  <2>1. /\ state' \in [Pids -> States] /\ report' \in [Pids -> Reports \cup {"none"}]
        /\ isStopped' \in [Pids -> BOOLEAN]
    <3> HIDE DEF ps
    <3>1. TypeOK
      BY DEF PtInv
    <3> QED
      BY ONLY <1>2, <3>1 DEF TypeOK, Resume, States
  <2> QED
    BY <1>1, <1>2, <2>1 DEF PtInv, TypeOK, NoEvent, GiveUp, Waits
<1>4. KernelOK' /\ EventOK' /\ ChildrenOK' /\ ListOK' /\ MetOK' /\ ParentWaits'
  <2> HIDE DEF ps
  <2> QED
    BY <1>1, <1>2, ResumeInv
<1>5. InStep'
  <2> SUFFICES ASSUME Tracing' PROVE InStep'
    BY DEF InStep
  <2>1. Tracing /\ pc' = "trace"
    BY <1>2 DEF Tracing
  <2>2. Sync(p) /\ ~Dead(p) /\ (event.what # "none" => event.pid = p)
    BY <1>1, <2>1 DEF PtInv, InStep, EventOK, Dead
  <2>3. Sync(p)'
    <3>1. Unmet(p)
      BY <1>1, <2>2 DEF Sync
    <3>2. Pend(p)' = "none"
      <4>1. report'[p] = "none" /\ event'.pid = None
        BY <1>1, <1>2 DEF Resume, NoEvent
      <4> QED
        BY <1>1, <4>1 DEF Pend
    <3> QED
      BY ONLY <1>1, <1>2, <2>1, <3>1, <3>2, UNCHANGED <<at, next, waited>> DEF Sync, Unmet, Between
  <2>4. ASSUME NEW q \in parents, q # p PROVE Sync(q)'
    <3>1. q = parent[p] /\ q \in Pids /\ state[q] = "stopped"
      OBVIOUS
    <3>2. report[q] = "none"
      BY <2>1, <3>1 DEF PtInv, ParentWaits, Dead
    <3>3. q # event.pid
      BY <2>2, <2>4, <3>1 DEF PtInv, EventOK
    <3>4. Sync(q) /\ ~Dead(q) /\ Pend(q) = "none"
      BY <2>1, <3>1, <3>2, <3>3 DEF PtInv, InStep, Dead, Pend
    <3>5. Pend(q)' = "none" /\ state'[q] = "running"
      BY <1>2, <3>1 DEF Pend, Resume, NoEvent, PtInv, TypeOK
    <3> QED
      BY <1>2, <2>1, <3>1, <3>4, <3>5 DEF Sync, Unmet, Between, Inside, AwaitsTrap
  <2>5. ASSUME NEW q \in Pids PROVE Sync(q)'
    <3>1. CASE q \in ps
      BY <2>3, <2>4, <3>1
    <3>2. CASE q \notin ps
      <4>1. q # event.pid
        BY <2>2, <3>2 DEF PtInv, EventOK
      <4> QED
        BY <1>2, <2>1, <3>2, <4>1, OthersInStep
    <3> QED
      BY <3>1, <3>2
  <2>6. EventExpected' /\ Known' = Known
    BY SameList DEF EventExpected, NoEvent, CallStops
  <2> QED
    BY <1>2, <2>1, <2>5, <2>6 DEF PtInv, InStep
<1>6. ErrorOK'
  <2> SUFFICES ASSUME ended' = "error", fault = "none" PROVE killed # {}
    BY DEF ErrorOK
  <2>1. CASE ended = "error"
    BY <2>1 DEF PtInv, ErrorOK
  <2>2. CASE parent[p] \in Pids /\ state[parent[p]] # "stopped"
    BY <2>2 DEF PtInv, ParentWaits, Tracing
  <2> QED
    BY <2>1, <2>2
<1> QED
  BY <1>3, <1>4, <1>5, <1>6 DEF PtInv

\* The first stop of a process.
LEMMA AttachInv == ASSUME PtInv, NEW p \in Pids, Attach(p) PROVE PtInv'
<1>1. /\ event.what \notin {"none", "death"} /\ p = waited /\ pc = "attach" /\ event' = NoEvent
      /\ UNCHANGED <<traceExec, created, at, call, pending, newborn, killed>>
      /\ StartsTracing(p)
  BY DEF Attach, Handles, PtInv, EventOK, Reports, Signals, CallStops
<1>2. state[p] = "stopped"
  BY <1>1 DEF StartsTracing
<1> QED
  BY <1>1, <1>2, StartsTracingInv

\* The user interrupts.
LEMMA InterruptInv == ASSUME PtInv, Interrupt PROVE PtInv'
<1> USE DEF Interrupt
<1>1. event' = NoEvent /\ event.what = "none"
  BY DEF NoEvent
<1>2. CASE pc = "attach" /\ StartsTracing(waited)
  BY <1>1, <1>2, StartsTracingInv
<1>3. CASE /\ pc \in {"trace", "exectrap", "attach"} /\ GiveUp("interrupt")
           /\ UNCHANGED <<state, report, list, parent, isStopped, next, name, process,
                          waited, met, fault>>
  <2>1. process' \in Pids
    BY <1>3 DEF PtInv, TypeOK
  <2> QED
    BY <1>1, <1>3, <2>1, QuitsInv DEF GiveUp, kernelVars
<1> QED
  BY <1>2, <1>3

\* A child joins the list while its parent stays stopped.
LEMMA AddChildInv == ASSUME PtInv, NEW p \in Pids, AddChild(p) PROVE PtInv'
<1> USE PtraceAssumption DEF AddChild, Handles
<1> DEFINE c == newborn[p]
<1>1. /\ p \in Known /\ Pend(p) = "fork" /\ report[p] = "none" /\ Forking(p)
      /\ event.what = "fork" /\ state[p] = "stopped"
  BY StopFacts DEF Forking
<1>2. /\ c \in Pids \ (met \cup Known) /\ state[c] # "none" /\ c # First /\ c # p
      /\ \A q \in Pids : Forking(q) /\ newborn[q] = c => q = p
  BY <1>1 DEF PtInv, ChildrenOK
<1>3. /\ list' \in Seq(Pids) /\ Known' = Known \cup {c} /\ FirstLeads'
  BY <1>2, AppendedFacts DEF PtInv, TypeOK, ListOK
<1>4. TypeOK'
  BY <1>2, <1>3 DEF PtInv, TypeOK, NoEvent, Waits
<1>5. KernelOK'
  BY DEF PtInv, KernelOK
<1>6. EventOK'
  BY DEF EventOK, NoEvent
<1>7. ChildrenOK'
  <2>1. ~Forking(p)'
    <3>1. at[p] # "forked"
      BY <1>1 DEF PtInv, KernelOK
    <3> QED
      BY <1>1, <3>1 DEF Forking, NoEvent
  <2>2. \A q \in Pids : Forking(q)' => Forking(q) /\ q # p
    BY <2>1 DEF Forking, NoEvent
  <2>3. UNCHANGED <<newborn, state, met>>
    OBVIOUS
  <2>4. ChildrenOK
    BY DEF PtInv
  <2>5. ASSUME NEW q \in Pids, Forking(q)' PROVE newborn'[q] \in Pids \ (met' \cup Known')
    BY <1>2, <1>3, <2>2, <2>3, <2>4, <2>5 DEF ChildrenOK
  <2> QED
    BY <2>2, <2>3, <2>4, <2>5 DEF ChildrenOK
<1>8. ListOK'
  BY <1>2, <1>3 DEF PtInv, ListOK
<1>9. MetOK'
  BY <1>3 DEF PtInv, MetOK, Dead, Owned
<1>10. InStep'
  <2> SUFFICES ASSUME Tracing' PROVE InStep'
    BY DEF InStep
  <2>1. Tracing /\ pc = "trace" /\ pc' = "attach" /\ waited' = c
    BY DEF Tracing
  <2>2. Sync(p)'
    <3>1. Sync(p) /\ ~Dead(p) /\ next[p] \in CallStops
      BY <1>1, <2>1 DEF PtInv, InStep, Dead, TypeOK
    <3>2. next[p] = "exit" /\ name[p] = call[p] /\ at[p] \in {"body", "forked", "tail"} /\ p \in met
      BY <1>1, <2>1, <3>1 DEF PtInv, InStep, Sync, Between, Inside, AwaitsTrap, CallStops, Signals
    <3>3. Pend(p)' = "none"
      BY <1>1 DEF Pend, NoEvent
    <3> QED
      BY <2>1, <3>2, <3>3 DEF Sync, Inside
  <2>3. ASSUME NEW q \in Pids, q # p PROVE Sync(q)'
    <3>1. Sync(q) /\ Pend(q)' = Pend(q)
      BY <2>1, <2>3 DEF PtInv, InStep, Pend, NoEvent
    <3> QED
      BY <2>1, <3>1 DEF Sync, Dead, Between, Inside, AwaitsTrap, Unmet
  <2>4. EventExpected'
    BY DEF EventExpected, NoEvent, CallStops
  <2> QED
    BY <1>3, <2>1, <2>2, <2>3, <2>4 DEF PtInv, InStep
<1>11. ParentWaits'
  <2>1. parent'[c] = p /\ waited' = c
    BY <1>2 DEF PtInv, TypeOK
  <2> QED
    BY <1>1, <1>2, <2>1 DEF ParentWaits
<1>12. ErrorOK'
  BY DEF PtInv, ErrorOK
<1> QED
  BY <1>4, <1>5, <1>6, <1>7, <1>8, <1>9, <1>10, <1>11, <1>12 DEF PtInv

-----------------------------------------------------------------------------
(* The invariant.                                                          *)

\* The debugger and a process that was just created or attached are in step.
LEMMA InitInv == Init => PtInv
<1> SUFFICES ASSUME Init PROVE PtInv
  OBVIOUS
<1> USE PtraceAssumption DEF Init
<1>1. list = <<First>> /\ Len(list) = 1 /\ list[1] = First /\ Known = {First}
  BY DEF Known
<1>2. \A p \in Pids : /\ Pend(p) \in {"none", "trap"} /\ at[p] = "user" /\ next[p] = "enter"
                      /\ p # None
                      /\ state[p] # "none" => p = First
                      /\ Pend(p) = "none" /\ state[p] # "none" => pending[p] # {}
  BY DEF Pend, NoEvent
<1>3. TypeOK
  <2>1. /\ state \in [Pids -> States] /\ report \in [Pids -> Reports \cup {"none"}]
        /\ pending \in [Pids -> SUBSET Signals]
    BY DEF States, Reports, Signals
  <2>2. list \in Seq(Pids)
    OBVIOUS
  <2> QED
    BY <2>1, <2>2 DEF TypeOK, Places, Calls, CallStops, Waits, NoEvent
<1>4. KernelOK
  BY DEF KernelOK
<1>5. EventOK
  BY DEF EventOK, NoEvent
<1>6. ChildrenOK
  BY DEF ChildrenOK, Forking, NoEvent
<1>7. ListOK
  BY <1>1 DEF ListOK, FirstLeads
<1>8. MetOK /\ ErrorOK
  BY DEF MetOK, ErrorOK
<1>9. InStep
  <2>1. \A p \in Pids : Sync(p)
    BY <1>2 DEF Sync, Between, Unmet, Signals
  <2>2. EventExpected
    BY DEF EventExpected, NoEvent, CallStops
  <2> QED
    BY <1>1, <2>1, <2>2 DEF InStep
<1>10. ParentWaits
  BY DEF ParentWaits
<1> QED
  BY <1>3, <1>4, <1>5, <1>6, <1>7, <1>8, <1>9, <1>10 DEF PtInv

\* A step in which nothing happens.
LEMMA StutterInv == ASSUME PtInv, UNCHANGED vars PROVE PtInv'
<1> USE DEF PtInv, vars, kernelVars, debugVars, historyVars
<1>1. Known' = Known
  BY DEF Known
<1>2. \A q \in Pids : Pend(q)' = Pend(q) /\ (Sync(q) => Sync(q)')
  BY DEF Pend, Sync, Dead, Between, Inside, AwaitsTrap, Unmet
<1>3. TypeOK' /\ KernelOK' /\ ErrorOK'
  BY DEF TypeOK, KernelOK, ErrorOK
<1>4. EventOK' /\ ListOK' /\ MetOK'
  BY <1>1 DEF EventOK, ListOK, FirstLeads, MetOK, Dead, Owned
<1>5. ChildrenOK'
  BY <1>1 DEF ChildrenOK, Forking
<1>6. InStep' /\ ParentWaits'
  BY <1>1, <1>2 DEF InStep, ParentWaits, Tracing, EventExpected, Expected, Dead
<1> QED
  BY <1>3, <1>4, <1>5, <1>6

\* Every step of the kernel, of the programs and of the debugger preserves the invariant.
LEMMA StepInv == PtInv /\ [Next]_vars => PtInv'
<1> SUFFICES ASSUME PtInv, [Next]_vars PROVE PtInv'
  OBVIOUS
<1>1. ASSUME NEW p \in Pids, KernelStep(p) PROVE PtInv'
  BY <1>1, ExitCallInv, ExecEventInv, ForkEventInv, ExitProcessInv, SignalStopInv, ForkInv
     DEF KernelStep
<1>2. ASSUME NEW p \in Pids, ProgramStep(p) PROVE PtInv'
  BY <1>2, EnterCallInv, SendSignalInv, KillInv DEF ProgramStep
<1>3. CASE Debugger
  <2>1. ASSUME NEW p \in Pids,
               \/ Wait(p) \/ SyscallEnter(p) \/ SyscallExit(p) \/ ExecExit(p) \/ ExecTrap(p)
               \/ AddChild(p) \/ ProcessExecution(p) \/ Attach(p)
               \/ Terminate(p) \/ TerminateFails(p) \/ Detach(p)
        PROVE  PtInv'
    BY <2>1, WaitInv, SyscallEnterInv, SyscallExitInv, ExecExitInv, ExecTrapInv, AddChildInv,
       ProcessExecutionInv, AttachInv, TerminateInv, TerminateFailsInv, DetachInv
  <2> QED
    BY <1>3, <2>1, WaitFailsInv, FailsInv, ProcessExitsInv, ForwardSignalInv, AttachedDiesInv,
       TerminateEndsInv, LeaveInv DEF Debugger
<1>4. CASE Interrupt
  BY <1>4, InterruptInv
<1>5. CASE UNCHANGED vars
  BY <1>5, StutterInv
<1> QED
  BY <1>1, <1>2, <1>3, <1>4, <1>5 DEF Next

\* What the debugger believes of a process and what the kernel did with it agree, up to
\* the stop that is not answered yet.  (debugger.py, process.py, syscall_state.py)
THEOREM PtraceInvariance == Spec => []PtInv
<1>1. Init => PtInv
  BY InitInv
<1>2. PtInv /\ [Next]_vars => PtInv'
  BY StepInv
<1> QED
  BY <1>1, <1>2, PTL DEF Spec

\* The enters and exits that the tracer is told of alternate, and an exit is that of the
\* call it has shown.  (SyscallState.event)
THEOREM SyscallsArePaired == Spec => []SyscallsPaired
<1>1. PtInv => SyscallsPaired
  <2> SUFFICES ASSUME PtInv, fault = "none", pc = "trace", event.what \in CallStops
               PROVE  Expected(event.pid, event.what)
    BY DEF PtInv, SyscallsPaired
  <2> QED
    BY DEF PtInv, InStep, Tracing, EventExpected
<1> QED
  BY <1>1, PtraceInvariance, PTL

\* An error of the tracer is somebody's kill, and nobody that it owns outlives it.
\* (PtraceDebugger.quit, PtraceProcess.terminate)
THEOREM NobodyIsLeft == Spec => []NobodyLeft
<1>1. PtInv => NobodyLeft
  <2>1. ASSUME PtInv, pc = "done", NEW p \in met, p # First \/ created
        PROVE  state[p] \in {"zombie", "reaped"}
    BY <2>1 DEF PtInv, MetOK, Owned, Dead
  <2>2. PtInv /\ ended = "error" /\ fault = "none" => killed # {}
    BY DEF PtInv, ErrorOK
  <2> QED
    BY <2>1, <2>2 DEF NobodyLeft
<1> QED
  BY <1>1, PtraceInvariance, PTL
=============================================================================
