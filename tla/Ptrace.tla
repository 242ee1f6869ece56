------------------------------- MODULE Ptrace -------------------------------
(***************************************************************************)
(* The debugger of python-ptrace (debugger.py, process.py,                 *)
(* syscall_state.py) as the system call tracer uses it (strace.py).        *)
(*                                                                         *)
(* A traced process runs until it stops, the kernel reports the stop to    *)
(* waitpid(), and the debugger resumes it with PTRACE_SYSCALL.  Stops of   *)
(* several processes are reported in any order; a process may die at any   *)
(* moment, also between its stop and its resumption, and a request to a    *)
(* process that is not stopped fails with ESRCH (PtraceError).             *)
(*                                                                         *)
(* fault names the first thing that happened for which the code has no     *)
(* answer: what it then does is in the model, what it promises is not.     *)
(***************************************************************************)
EXTENDS Naturals, Sequences, FiniteSets

CONSTANTS
    Pids,           \* the processes
    First,          \* the program that is traced
    None,           \* no process
    KillBound       \* bound on the processes that are killed from outside

ASSUME PtraceAssumption == First \in Pids /\ None \notin Pids /\ KillBound \in Nat

VARIABLES
    traceExec,      \* PtraceDebugger.trace_exec
    created,        \* was_attached of First: it was created, or it was running before
    \* The kernel.
    state,          \* of a process: see States
    report,         \* the stop or the death that waitpid() has not returned yet
    at,             \* where the process is: see Places
    call,           \* its last system call
    pending,        \* signals that it will stop for
    newborn,        \* PTRACE_GETEVENTMSG: the last child of the process
    \* The debugger.
    list,           \* PtraceDebugger.list, and the keys of dict
    parent,         \* PtraceProcess.parent
    isStopped,      \* PtraceProcess.is_stopped
    next,           \* SyscallState.next_event
    name,           \* SyscallState.name
    process,        \* the variable of syscallTrace
    pc,             \* where the debugger is: see Waits
    waited,         \* the process that it waits for
    event,          \* what waitpid() has returned and is not handled
    \* History.
    ended,          \* why the tracer gave up
    met,            \* processes whose first stop was handled
    killed,         \* processes that were killed from outside
    fault

kernelVars == <<state, report, at, call, pending, newborn>>
debugVars == <<list, parent, isStopped, next, name, process, pc, waited, event>>
historyVars == <<ended, met, killed, fault>>
vars == <<traceExec, created, kernelVars, debugVars, historyVars>>

States == {"none", "running", "stopped", "zombie", "reaped", "free"}
Places == {"user", "body", "forked", "tail"}
Calls == {"other", "fork", "execve", "exit"}
Signals == {"trap", "stop", "signal"}
CallStops == {"enter", "exit"}
Reports == Signals \cup CallStops \cup {"fork", "exec", "death"}
Waits == {"trace", "attach", "exectrap", "quit", "waitexit", "done"}
NoEvent == [pid |-> None, what |-> "none"]

Known == {list[i] : i \in 1..Len(list)}
Alive(p) == state[p] \in {"running", "stopped"}

\* createChild returns after execve, when the child is stopped by its SIGTRAP;
\* attach() sends SIGSTOP to a process that runs.
Init ==
    /\ traceExec \in BOOLEAN /\ created \in BOOLEAN
    /\ state = [p \in Pids |-> IF p # First THEN "none"
                               ELSE IF created THEN "stopped" ELSE "running"]
    /\ report = [p \in Pids |-> IF p = First /\ created THEN "trap" ELSE "none"]
    /\ at = [p \in Pids |-> "user"]
    /\ call = [p \in Pids |-> "other"]
    /\ pending = [p \in Pids |-> IF p = First /\ ~created THEN {"stop"} ELSE {}]
    /\ newborn = [p \in Pids |-> None]
    /\ list = <<First>> /\ parent = [p \in Pids |-> None]
    /\ isStopped = [p \in Pids |-> TRUE]
    /\ next = [p \in Pids |-> "enter"] /\ name = [p \in Pids |-> "none"]
    /\ process = First /\ pc = "attach" /\ waited = First /\ event = NoEvent
    /\ ended = "no" /\ met = {} /\ killed = {} /\ fault = "none"

-----------------------------------------------------------------------------
\* The kernel and the programs.

Stops(p, what) ==
    /\ state' = [state EXCEPT ![p] = "stopped"]
    /\ report' = [report EXCEPT ![p] = what]

Dies(p) ==
    /\ state' = [state EXCEPT ![p] = "zombie"]
    /\ report' = [report EXCEPT ![p] = "death"]
    /\ at' = [at EXCEPT ![p] = "user"] /\ pending' = [pending EXCEPT ![p] = {}]
    /\ UNCHANGED <<call, newborn>>

ProgramKeeps == UNCHANGED <<traceExec, created, debugVars, historyVars>>

\* The program calls the system; signals are delivered first.
EnterCall(p, c) ==
    /\ state[p] = "running" /\ at[p] = "user" /\ pending[p] = {}
    /\ at' = [at EXCEPT ![p] = "body"] /\ call' = [call EXCEPT ![p] = c]
    /\ Stops(p, "enter")
    /\ UNCHANGED <<pending, newborn>> /\ ProgramKeeps

\* The call returns; a successful execve without PTRACE_O_TRACEEXEC leaves a SIGTRAP.
ExitCall(p) ==
    /\ state[p] = "running"
    /\ at[p] = "tail" \/ (at[p] = "body" /\ call[p] # "exit")
    /\ at' = [at EXCEPT ![p] = "user"]
    /\ pending' \in {pending} \cup
         IF at[p] = "body" /\ call[p] = "execve" /\ ~traceExec
         THEN {[pending EXCEPT ![p] = @ \cup {"trap"}]} ELSE {}
    /\ Stops(p, "exit")
    /\ UNCHANGED <<call, newborn>> /\ ProgramKeeps

ExecEvent(p) ==
    /\ state[p] = "running" /\ at[p] = "body" /\ call[p] = "execve" /\ traceExec
    /\ at' = [at EXCEPT ![p] = "tail"]
    /\ Stops(p, "exec")
    /\ UNCHANGED <<call, pending, newborn>> /\ ProgramKeeps

\* The child runs, until it stops for its SIGSTOP, before its parent stops.
Fork(p, child) ==
    /\ state[p] = "running" /\ at[p] = "body" /\ call[p] = "fork" /\ state[child] = "none"
    /\ at' = [at EXCEPT ![p] = "forked"]
    /\ newborn' = [newborn EXCEPT ![p] = child]
    /\ state' = [state EXCEPT ![child] = "running"]
    /\ pending' = [pending EXCEPT ![child] = {"stop"}]
    /\ UNCHANGED <<report, call>> /\ ProgramKeeps

ForkEvent(p) ==
    /\ state[p] = "running" /\ at[p] = "forked"
    /\ at' = [at EXCEPT ![p] = "tail"]
    /\ Stops(p, "fork")
    /\ UNCHANGED <<call, pending, newborn>> /\ ProgramKeeps

ExitProcess(p) ==
    /\ state[p] = "running" /\ at[p] = "body" /\ call[p] = "exit"
    /\ Dies(p)
    /\ ProgramKeeps

\* A SIGTRAP is delivered before other signals.
SignalStop(p, s) ==
    /\ state[p] = "running" /\ at[p] = "user" /\ s \in pending[p]
    /\ "trap" \in pending[p] => s = "trap"
    /\ pending' = [pending EXCEPT ![p] = @ \ {s}]
    /\ Stops(p, s)
    /\ UNCHANGED <<at, call, newborn>> /\ ProgramKeeps

SendSignal(p) ==
    /\ Alive(p) /\ "signal" \notin pending[p]
    /\ pending' = [pending EXCEPT ![p] = @ \cup {"signal"}]
    /\ UNCHANGED <<state, report, at, call, newborn>> /\ ProgramKeeps

Kill(p) ==
    /\ Alive(p) /\ Cardinality(killed) < KillBound
    /\ Dies(p)
    /\ killed' = killed \cup {p}
    /\ UNCHANGED <<traceExec, created, debugVars, ended, met, fault>>

KernelStep(p) ==
    \/ ExitCall(p) \/ ExecEvent(p) \/ ForkEvent(p) \/ ExitProcess(p)
    \/ \E s \in Signals : SignalStop(p, s)
    \/ \E child \in Pids : Fork(p, child)
ProgramStep(p) ==
    \/ \E c \in Calls : EnterCall(p, c)
    \/ SendSignal(p) \/ Kill(p)

-----------------------------------------------------------------------------
\* The debugger.

\* Mutant: a child is attached like a process that was running before.
ChildrenReleased(p) == p = First /\ created

\* PtraceProcess.was_attached
Owned(p) == p # First \/ created

\* list.remove: no process is twice in the list, and nothing happens if p is not.
Remove(p) ==
    IF p \in Known
    THEN LET i == CHOOSE i \in 1..Len(list) : list[i] = p
         IN list' = [k \in 1..(Len(list) - 1) |-> IF k < i THEN list[k] ELSE list[k + 1]]
    ELSE UNCHANGED list

\* The first of the faults is kept.
Blames(what) == fault' = IF fault = "none" THEN what ELSE fault

\* ptrace(PTRACE_SYSCALL) or another request that resumes the stopped processes ps.
Resume(ps) ==
    /\ state' = [p \in Pids |-> IF p \in ps THEN "running" ELSE state[p]]
    /\ report' = [p \in Pids |-> IF p \in ps THEN "none" ELSE report[p]]
    /\ isStopped' = [p \in Pids |-> IF p \in ps THEN FALSE ELSE isStopped[p]]

\* An exception ends the loop of the tracer, and _main calls quit().
GiveUp(why) == pc' = "quit" /\ ended' = why

\* _waitpid, _wait and processSignal: an event of any process, or of the one that is waited for.
\* The event of a process that is not in the dictionary is dropped.
Wait(p) ==
    /\ event = NoEvent /\ report[p] # "none"
    /\ pc \in {"attach", "exectrap", "waitexit"} => p = waited
    /\ pc = "trace" => list # <<>>
    /\ pc \notin {"quit", "done"}
    /\ report' = [report EXCEPT ![p] = "none"]
    /\ state' = [state EXCEPT ![p] = IF report[p] = "death" THEN "reaped" ELSE @]
    /\ event' = IF p \in Known THEN [pid |-> p, what |-> report[p]] ELSE NoEvent
    /\ IF p \in Known THEN UNCHANGED fault ELSE Blames("child first")
    /\ isStopped' = [isStopped EXCEPT ![p] = @ \/ report[p] \in Signals \cup CallStops]
    /\ UNCHANGED <<traceExec, created, at, call, pending, newborn, list, parent, next, name, process, pc, waited, ended, met, killed>>

\* waitpid() fails with ECHILD, and processTerminated answers for it.
WaitFails ==
    /\ event = NoEvent /\ pc = "attach" /\ state[waited] = "reaped"
    /\ event' = [pid |-> waited, what |-> "death"]
    /\ UNCHANGED <<traceExec, created, kernelVars, list, parent, isStopped, next, name,
                   process, pc, waited, historyVars>>

Handles(where, what) ==
    /\ pc = where /\ event.what \in what
    /\ event' = NoEvent
    /\ UNCHANGED <<traceExec, created, at, call, pending, newborn, killed>>

\* A request to a process that is not stopped raises PtraceError.
RequestFails(where, what, p) ==
    /\ Handles(where, what)
    /\ state[p] # "stopped"
    /\ GiveUp("error")
    /\ UNCHANGED <<state, report, list, parent, isStopped, next, name, waited, met>>

\* SyscallState.enter
SyscallEnter(p) ==
    /\ Handles("trace", CallStops) /\ p = event.pid /\ state[p] = "stopped"
    /\ next[p] = "enter"
    /\ process' = p
    /\ next' = [next EXCEPT ![p] = "exit"] /\ name' = [name EXCEPT ![p] = call[p]]
    /\ Resume({p})
    /\ UNCHANGED <<list, parent, pc, waited, ended, met, fault>>

\* Mutant: the state is not cleared.
StaysInSyscall(p) ==
    /\ Handles("trace", CallStops) /\ p = event.pid /\ state[p] = "stopped"
    /\ next[p] = "exit"
    /\ process' = p
    /\ Resume({p})
    /\ UNCHANGED <<list, parent, next, name, pc, waited, ended, met, fault>>

AwaitsExecTrap(p) == name[p] = "execve" /\ ~traceExec

\* SyscallState.exit and clear
SyscallExit(p) ==
    /\ Handles("trace", CallStops) /\ p = event.pid /\ state[p] = "stopped"
    /\ next[p] = "exit" /\ ~AwaitsExecTrap(p)
    /\ process' = p
    /\ next' = [next EXCEPT ![p] = "enter"] /\ name' = [name EXCEPT ![p] = "none"]
    /\ Resume({p})
    /\ UNCHANGED <<list, parent, pc, waited, ended, met, fault>>

\* SyscallState.exit of an execve: the process is resumed and its SIGTRAP awaited,
\* also when the execve has failed.
ExecExit(p) ==
    /\ Handles("trace", CallStops) /\ p = event.pid /\ state[p] = "stopped"
    /\ next[p] = "exit" /\ AwaitsExecTrap(p)
    /\ process' = p
    /\ Resume({p})
    /\ pc' = "exectrap" /\ waited' = p
    /\ IF "trap" \in pending[p] THEN UNCHANGED fault ELSE Blames("execve failed")
    /\ UNCHANGED <<list, parent, next, name, ended, met>>

SyscallFails ==
    \E p \in Pids :
        /\ p = event.pid
        /\ RequestFails("trace", CallStops, p)
        /\ process' = p /\ UNCHANGED fault

ExecTrap(p) ==
    /\ Handles("exectrap", {"trap"}) /\ p = event.pid /\ state[p] = "stopped"
    /\ next' = [next EXCEPT ![p] = "enter"] /\ name' = [name EXCEPT ![p] = "none"]
    /\ Resume({p})
    /\ pc' = "trace"
    /\ UNCHANGED <<list, parent, process, waited, ended, met, fault>>

\* waitSignals raises any other event, and nobody expects it there.
ExecTrapFails ==
    /\ \/ RequestFails("exectrap", {"trap"}, event.pid)
       \/ /\ Handles("exectrap", Reports \ {"trap", "death"})
          /\ GiveUp("error")
          /\ UNCHANGED <<state, report, list, parent, isStopped, next, name, waited, met>>
       \/ /\ Handles("exectrap", {"death"})
          /\ Remove(event.pid)
          /\ GiveUp("exit")
          /\ UNCHANGED <<state, report, parent, isStopped, next, name, waited, met>>
    /\ UNCHANGED <<process, fault>>

\* except ProcessExit: the loop goes on with the others.
ProcessExits ==
    /\ Handles("trace", {"death"})
    /\ Remove(event.pid)
    /\ UNCHANGED <<state, report, parent, isStopped, next, name, process, pc, waited,
                   ended, met, fault>>

\* except ProcessSignal: the signal goes to the process of the last system call.
ForwardSignal ==
    /\ Handles("trace", Signals)
    /\ state[process] = "stopped"
    /\ Resume({process})
    /\ IF process = event.pid THEN UNCHANGED fault ELSE Blames("signal misdirected")
    /\ UNCHANGED <<list, parent, next, name, process, pc, waited, ended, met>>

ForwardFails ==
    /\ RequestFails("trace", Signals, process)
    /\ IF process = event.pid THEN UNCHANGED fault ELSE Blames("signal misdirected")
    /\ UNCHANGED process

\* ptraceEvent and addProcess: the child is registered and its first stop awaited.
AddChild(p) ==
    /\ Handles("trace", {"fork"}) /\ p = event.pid /\ state[p] = "stopped"
    /\ list' = Append(list, newborn[p])
    /\ parent' = [parent EXCEPT ![newborn[p]] = p]
    /\ pc' = "attach" /\ waited' = newborn[p]
    /\ UNCHANGED <<state, report, isStopped, next, name, process, ended, met, fault>>

AddChildFails ==
    /\ RequestFails("trace", {"fork"}, event.pid)
    /\ UNCHANGED <<process, fault>>

\* processExecution
ProcessExecution(p) ==
    /\ Handles("trace", {"exec"}) /\ p = event.pid /\ state[p] = "stopped"
    /\ Resume({p})
    /\ UNCHANGED <<list, parent, next, name, process, pc, waited, ended, met, fault>>

ProcessExecutionFails ==
    /\ RequestFails("trace", {"exec"}, event.pid)
    /\ UNCHANGED <<process, fault>>

\* Mutant: the parent is not resumed.
ForgetsParent(p) ==
    /\ state[p] = "stopped"
    /\ met' = met \cup {p}
    /\ Resume({p})
    /\ pc' = "trace"
    /\ UNCHANGED <<list, parent, next, name, process, waited, ended, fault>>

\* The end of addProcess, and prepareProcess or newProcess: the new process is
\* resumed, and then its parent.
StartsTracing(p) ==
    /\ state[p] = "stopped"
    /\ met' = met \cup {p}
    /\ Resume({p} \cup {q \in {parent[p]} \cap Pids : state[q] = "stopped"})
    /\ IF \A q \in {parent[p]} \cap Pids : state[q] = "stopped"
       THEN pc' = "trace" /\ UNCHANGED ended
       ELSE GiveUp("error")
    /\ UNCHANGED <<list, parent, next, name, process, waited, fault>>

Attach(p) ==
    /\ Handles("attach", Reports \ {"death"}) /\ p = event.pid
    /\ StartsTracing(p)

AttachFails ==
    /\ RequestFails("attach", Reports \ {"death"}, event.pid)
    /\ UNCHANGED <<process, fault>>

\* addProcess raises ProcessExit.  For a child, syscallTrace goes on and nobody
\* resumes its parent.
AttachedDies ==
    /\ Handles("attach", {"death"})
    /\ Remove(event.pid)
    /\ IF event.pid = First
       THEN GiveUp("exit") /\ UNCHANGED fault
       ELSE pc' = "trace" /\ Blames("child died") /\ UNCHANGED ended
    /\ UNCHANGED <<state, report, parent, isStopped, next, name, process, waited, met>>

\* KeyboardInterrupt in waitpid().  addProcess does not wait any longer then;
\* anywhere else the loop ends.
Interrupt ==
    /\ event = NoEvent /\ UNCHANGED event
    /\ UNCHANGED <<traceExec, created, at, call, pending, newborn, killed>>
    /\ \/ /\ pc \in {"trace", "exectrap"}
          /\ GiveUp("interrupt")
          /\ UNCHANGED <<state, report, list, parent, isStopped, next, name, process,
                         waited, met, fault>>
       \/ /\ pc = "attach"
          /\ StartsTracing(waited)
       \/ /\ pc = "attach" /\ state[waited] # "stopped"
          /\ GiveUp("interrupt")
          /\ UNCHANGED <<state, report, list, parent, isStopped, next, name, process,
                         waited, met, fault>>

NoMoreProcess ==
    /\ pc = "trace" /\ event = NoEvent /\ list = <<>>
    /\ GiveUp("exit")
    /\ UNCHANGED <<traceExec, created, kernelVars, list, parent, isStopped, next, name,
                   process, waited, event, met, killed, fault>>

\* quit: the processes are terminated and detached, the last one first.
QuitsAt(p) == pc = "quit" /\ list # <<>> /\ p = list[Len(list)]
QuitKeeps == UNCHANGED <<traceExec, created, parent, isStopped, next, name, process, event,
                         met, killed, fault>>

\* terminate: SIGKILL, with cont() if the process is believed to be stopped.
Terminate(p) ==
    /\ QuitsAt(p) /\ Owned(p)
    /\ ~isStopped[p] \/ state[p] = "stopped"
    /\ IF Alive(p) THEN Dies(p) ELSE UNCHANGED kernelVars
    /\ pc' = "waitexit" /\ waited' = p
    /\ UNCHANGED <<list, ended>> /\ QuitKeeps

\* waitExit
TerminateEnds ==
    /\ pc = "waitexit" /\ event.what = "death"
    /\ event' = NoEvent
    /\ Remove(event.pid)
    /\ pc' = "quit"
    /\ UNCHANGED <<traceExec, created, kernelVars, parent, isStopped, next, name, process,
                   waited, historyVars>>

\* terminate: ESRCH, the process is believed to be dead.
TerminateFails(p) ==
    /\ QuitsAt(p) /\ Owned(p)
    /\ isStopped[p] /\ state[p] # "stopped"
    /\ Remove(p)
    /\ UNCHANGED <<kernelVars, pc, waited, ended>> /\ QuitKeeps

\* detach of a process that was running before the tracer came.
Detach(p) ==
    /\ QuitsAt(p) /\ ~Owned(p)
    /\ IF isStopped[p] /\ state[p] # "stopped"
       THEN pc' = "done" /\ UNCHANGED <<list, state, report>>
       ELSE /\ Remove(p) /\ UNCHANGED pc
            /\ state' = [state EXCEPT ![p] = IF isStopped[p] THEN "free" ELSE @]
            /\ report' = [report EXCEPT ![p] = IF isStopped[p] THEN "none" ELSE @]
    /\ UNCHANGED <<at, call, pending, newborn, ended, waited>> /\ QuitKeeps

\* The tracer exits, and the kernel releases what it still traces.
Leave ==
    /\ pc = "quit" /\ list = <<>>
    /\ pc' = "done"
    /\ state' = [p \in Pids |-> IF Alive(p) THEN "free" ELSE state[p]]
    /\ UNCHANGED <<report, at, call, pending, newborn, list, waited, ended>> /\ QuitKeeps

Debugger ==
    \/ WaitFails \/ SyscallFails \/ ExecTrapFails \/ ProcessExits
    \/ ForwardSignal \/ ForwardFails \/ AddChildFails \/ ProcessExecutionFails
    \/ AttachFails \/ AttachedDies \/ NoMoreProcess \/ TerminateEnds \/ Leave
    \/ \E p \in Pids :
          \/ Wait(p) \/ SyscallEnter(p) \/ SyscallExit(p) \/ ExecExit(p) \/ ExecTrap(p)
          \/ AddChild(p) \/ ProcessExecution(p) \/ Attach(p)
          \/ Terminate(p) \/ TerminateFails(p) \/ Detach(p)

Next ==
    \/ Debugger \/ Interrupt
    \/ \E p \in Pids : KernelStep(p) \/ ProgramStep(p)

\* The tracer and the kernel go on; a program need not call the system again.
Spec == Init /\ [][Next]_vars
FairSpec ==
    /\ Spec /\ WF_vars(Debugger)
    /\ \A p \in Pids : WF_vars(KernelStep(p))

-----------------------------------------------------------------------------
\* The type of every variable.
TypeOK ==
    /\ traceExec \in BOOLEAN /\ created \in BOOLEAN
    /\ state \in [Pids -> States] /\ report \in [Pids -> Reports \cup {"none"}]
    /\ at \in [Pids -> Places] /\ call \in [Pids -> Calls]
    /\ pending \in [Pids -> SUBSET Signals] /\ newborn \in [Pids -> Pids \cup {None}]
    /\ list \in Seq(Pids) /\ parent \in [Pids -> Pids \cup {None}]
    /\ isStopped \in [Pids -> BOOLEAN]
    /\ next \in [Pids -> CallStops] /\ name \in [Pids -> Calls \cup {"none"}]
    /\ process \in Pids /\ pc \in Waits /\ waited \in Pids
    /\ event \in [pid : Pids \cup {None}, what : Reports \cup {"none"}]
    /\ ended \in {"no", "exit", "error", "interrupt"}
    /\ met \subseteq Pids /\ killed \subseteq Pids
    /\ fault \in {"none", "child first", "child died", "execve failed", "signal misdirected"}

\* The stop of a system call that the tracer is told of is the one that it expects,
\* and the exit is that of the call it has shown: the enters and exits of a process
\* alternate, over execve, fork and signals.  (SyscallState.event)
Expected(p, stop) ==
    /\ next[p] = stop
    /\ stop = "exit" => name[p] = call[p]
SyscallsPaired ==
    /\ TypeOK
    /\ fault = "none" /\ pc = "trace" /\ event.what \in CallStops => Expected(event.pid, event.what)

\* The tracer gives up with an error only if a process was killed under its hands,
\* and when it has quit, every process that it had started to trace and that it
\* owns is dead: killed children do not outlive it.  (PtraceDebugger.quit, terminate)
NobodyLeft ==
    /\ ended = "error" /\ fault = "none" => killed # {}
    /\ pc = "done" => \A p \in met : p # First \/ created => state[p] \in {"zombie", "reaped"}

\* A process whose stop was read is resumed or dies, or the tracer quits.
\* (SyscallTracer.syscallTrace)
Resumed ==
    \A p \in Pids :
        (state[p] = "stopped" /\ report[p] = "none")
        ~> (state[p] # "stopped" \/ pc = "done" \/ fault # "none")
=============================================================================
