------------------------------ MODULE Program -------------------------------
(***************************************************************************)
(* One program run by the harness (class Program): its process tree, the   *)
(* coroutine that collects its output and its exit code (process_end), the *)
(* tasks that send it signals (send_kill_signals), the task that looks for *)
(* its control group, and the test that enters, awaits, kills and exits it.*)
(*                                                                         *)
(* Everything but the process tree runs on one event loop: an action of    *)
(* the test or of a task is the code between two points where it gives way *)
(* to the loop.  The process tree and the child watcher take their steps   *)
(* at any time in between.  Time is not modelled: a sleep may end at any   *)
(* moment after it began.                                                  *)
(***************************************************************************)
EXTENDS Cgroup

CONSTANTS
    MaxTasks,          \* bound: tasks created by wait() for one program
    ChildKinds,        \* the kinds of descendant the program may fork
    CanCancel          \* the test may be cancelled while it awaits the program

ASSUME MaxTasksAssumption == MaxTasks \in Nat \ {0}
ASSUME ChildKindsAssumption == ChildKinds \subseteq {"grouped", "detached", "escaped"}
ASSUME CanCancelAssumption == CanCancel \in BOOLEAN

VARIABLES
    leader,            \* the process itself: "zero" and "nonzero" once it has exited
    child,             \* a descendant: "grouped" is in the process group and holds
                       \* stdout, "detached" has closed stdout, "escaped" has called setsid
    sig,               \* the strongest signal sent to the process group
    returncode,        \* process.returncode, as the event loop knows it
    process_end,       \* the coroutine communicate(): not created, not started,
                       \* awaited, or finished (it cannot be awaited again)
    ntasks,            \* tasks created so far; send_signals_task is the last of them
    tasks,             \* the state of each of them
    sigkill_sent,
    pc,                \* where the test is: before, in or past its async with block,
                       \* or suspended in one of the program's methods
    call,              \* the method it is suspended in
    outcome,           \* how the last method ended
    cancelled          \* history: an await of process_end has been cancelled

processVars == <<leader, child, sig>>
signalVars == <<ntasks, tasks, sigkill_sent>>
callerVars == <<pc, call, outcome, cancelled>>
vars == <<leader, child, sig, returncode, process_end, ntasks, tasks,
          sigkill_sent, pc, call, outcome, cancelled, cgroup, attempts, scoped>>

TaskIds == 1..MaxTasks
Exited == {"zero", "nonzero"}
Pending == {"starting", "startingNow", "delay", "grace", "final"}
TaskStates == Pending \cup {"none", "cancelled", "crashed", "failed"}
Outcomes == {"none", "ok", "exitCode", "refused", "AssertionError",
             "RuntimeError", "OSError", "CancelledError"}

TypeOK ==
    /\ CgroupTypeOK
    /\ leader \in {"none", "running"} \cup Exited
    /\ child \in {"none"} \cup ChildKinds
    /\ sig \in {"none", "TERM", "KILL"}
    /\ returncode \in {"None"} \cup Exited
    /\ process_end \in {"None", "unawaited", "awaited", "spent"}
    /\ ntasks \in 0..MaxTasks
    /\ tasks \in [TaskIds -> TaskStates]
    /\ sigkill_sent \in BOOLEAN
    /\ pc \in {"outside", "body", "suspended", "left"}
    /\ call \in {"none", "wait", "kill", "exitKill", "reap"}
    /\ outcome \in Outcomes
    /\ cancelled \in BOOLEAN

Init ==
    /\ CgroupInit
    /\ leader = "none" /\ child = "none" /\ sig = "none"
    /\ returncode = "None" /\ process_end = "None"
    /\ ntasks = 0 /\ tasks = [t \in TaskIds |-> "none"]
    /\ sigkill_sent = FALSE
    /\ pc = "outside" /\ call = "none" /\ outcome = "none"
    /\ cancelled = FALSE

-----------------------------------------------------------------------------
is_running == leader # "none" /\ returncode = "None"

\* A member of the process group that a signal can still act on.
GroupAlive == leader = "running" \/ child \in {"grouped", "detached"}

\* Nobody holds the writing end of the pipe that communicate() reads.  (Variant:
\* the exit code alone is waited for.)
LeaderExited == leader \in Exited
StdoutClosed == leader \in Exited /\ child \notin {"grouped", "escaped"}

\* The child watcher reaps the process before it tells the event loop, so once
\* the process has exited and until the loop knows, its pid may be gone or not.
MayBeReaped == leader # "running"
MayBeUnreaped == returncode = "None"

\* send_signals_task.cancel(), unless the task is done.  (Variant: communicate()
\* leaves the task alone.)
KeepSignals == tasks
CancelSignals == [t \in TaskIds |-> IF t = ntasks /\ tasks[t] \in Pending
                                    THEN "cancelled" ELSE tasks[t]]

-----------------------------------------------------------------------------
(* The test. *)

\* __aenter__: the process is created and communicate() is, but nothing of it
\* runs before it is awaited.  The control group task exists where the host has
\* cgroup v2.
Enter ==
    /\ pc = "outside"
    /\ leader' = "running"
    /\ process_end' = "unawaited"
    /\ cgroup' \in {"created", "none"}
    /\ pc' = "body"
    /\ UNCHANGED <<child, sig, returncode, signalVars, call, outcome, cancelled,
                   attempts, scoped>>

\* create_subprocess_exec raises: the command does not exist.
EnterFails ==
    /\ pc = "outside"
    /\ pc' = "left" /\ outcome' = "OSError"
    /\ UNCHANGED <<processVars, returncode, process_end, signalVars, call,
                   cancelled, cgroupVars>>

\* Whether wait() creates a task.  (Variant: it does not ask.)
GetsTaskAlways == TRUE
GetsTask == is_running

\* wait(): a program that runs gets a task that will signal it, then its end is
\* awaited.  How the call goes on depends on process_end.
Await(first, name, next) ==
    /\ IF GetsTask
       THEN /\ ntasks < MaxTasks
            /\ ntasks' = ntasks + 1
            /\ tasks' = [tasks EXCEPT ![ntasks + 1] = first]
       ELSE UNCHANGED <<ntasks, tasks>>
    /\ \/ /\ process_end = "None"
          /\ pc' = next /\ outcome' = "ok"
          /\ UNCHANGED <<process_end, call>>
       \/ /\ process_end = "unawaited"
          /\ process_end' = "awaited"
          /\ pc' = "suspended" /\ call' = name
          /\ UNCHANGED outcome
       \/ /\ process_end = "spent"        \* cannot reuse already awaited coroutine
          /\ pc' = next /\ outcome' = "RuntimeError"
          /\ UNCHANGED <<process_end, call>>
    /\ UNCHANGED <<processVars, returncode, sigkill_sent, cancelled>>

\* wait(timeout) with a delay before SIGTERM; with timeout = 0 it goes at once,
\* as it does in kill().
Wait == /\ pc = "body"
        /\ \E first \in {"starting", "startingNow"} : Await(first, "wait", "body")
        /\ UNCHANGED cgroupVars

Kill == /\ pc = "body"
        /\ Await("startingNow", "kill", "body")
        /\ UNCHANGED cgroupVars

\* __aexit__ has nothing to wait for.  (Variant: the exit code is enough.)
EndedWhenDead == ~is_running
Ended == process_end = "None"

\* __aexit__ of a program that was not awaited to its end and has not been seen
\* to exit: it is killed.
ExitKill ==
    /\ pc = "body"
    /\ ~Ended /\ is_running
    /\ Await("startingNow", "exitKill", "left")
    /\ cgroup' = CancelledCgroup
    /\ UNCHANGED <<attempts, scoped>>

\* __aexit__ of a program that was not awaited and has been seen to exit: its
\* output is collected, with no task to end the await.
ExitReap ==
    /\ pc = "body"
    /\ ~Ended /\ ~is_running
    /\ IF process_end = "unawaited"
       THEN /\ process_end' = "awaited"
            /\ pc' = "suspended" /\ call' = "reap"
            /\ UNCHANGED outcome
       ELSE /\ pc' = "left" /\ outcome' = "RuntimeError"
            /\ UNCHANGED <<process_end, call>>
    /\ cgroup' = CancelledCgroup
    /\ UNCHANGED <<processVars, returncode, signalVars, cancelled, attempts, scoped>>

\* __aexit__ of a program whose end was awaited.
ExitEnded ==
    /\ pc = "body"
    /\ Ended
    /\ pc' = "left" /\ outcome' = "ok"
    /\ cgroup' = CancelledCgroup
    /\ UNCHANGED <<processVars, returncode, process_end, signalVars, call,
                   cancelled, attempts, scoped>>

\* What wait() raises once the program has ended.
WaitOutcome == IF returncode = "zero" THEN "ok"
               ELSE IF sigkill_sent THEN "refused" ELSE "exitCode"

\* process_end once its await is over: wait() resets it, __aexit__ does not.
\* (Variant: neither does.)
NeverReset == "spent"
AfterEnd == IF call = "reap" THEN "spent" ELSE "None"

\* What __aexit__ raises for a program that nobody waited for.  (Variant: only if
\* it failed.)
DeathOfFailed == IF returncode = "zero" THEN "ok" ELSE "AssertionError"
DeathUnawaited == "AssertionError"

\* communicate() has read end of file and the loop knows the exit code: the
\* signals task is cancelled and the call that awaited ends.  Nothing here
\* gives way to the loop.
Resume ==
    /\ process_end = "awaited"
    /\ returncode # "None" /\ StdoutClosed
    /\ tasks' = CancelSignals
    /\ process_end' = AfterEnd
    /\ outcome' = CASE call = "wait" -> WaitOutcome
                    [] call = "reap" -> DeathUnawaited
                    [] OTHER -> "ok"                  \* kill() drops a ProgramError
    /\ pc' = IF call \in {"exitKill", "reap"} THEN "left" ELSE "body"
    /\ call' = "none"
    /\ UNCHANGED <<processVars, returncode, ntasks, sigkill_sent, cancelled, cgroupVars>>

\* What a cancelled await leaves of the signals task.  (Variant: it is cancelled
\* with it.)
CancelledSignals == CancelSignals
SignalsAfterCancel == tasks

\* The test's own task is cancelled, as asyncio.wait_for does at its timeout:
\* the coroutine that was awaited is gone, the signals task is not.
Cancel ==
    /\ CanCancel
    /\ pc = "suspended"
    /\ process_end' = "spent"
    /\ tasks' = SignalsAfterCancel
    /\ outcome' = "CancelledError" /\ cancelled' = TRUE
    /\ pc' = IF call \in {"exitKill", "reap"} THEN "left" ELSE "body"
    /\ call' = "none"
    /\ UNCHANGED <<processVars, returncode, ntasks, sigkill_sent, cgroupVars>>

-----------------------------------------------------------------------------
(* A signals task. *)

\* os.killpg: without a live member it fails, or reaches a process that has
\* exited and is not reaped yet.  A task whose killpg fails ends there.
KillPg(t, s, next) ==
    \/ /\ GroupAlive
       /\ sig' = IF sig = "KILL" THEN sig ELSE s
       /\ tasks' = [tasks EXCEPT ![t] = next]
    \/ /\ ~GroupAlive /\ MayBeUnreaped
       /\ tasks' = [tasks EXCEPT ![t] = next]
       /\ UNCHANGED sig
    \/ /\ ~GroupAlive /\ MayBeReaped
       /\ tasks' = [tasks EXCEPT ![t] = "crashed"]
       /\ UNCHANGED sig

taskFrame == UNCHANGED <<leader, child, returncode, process_end, ntasks,
                         callerVars, cgroupVars>>

\* The first step of the task, up to its first sleep.
Start(t) ==
    /\ tasks[t] \in {"starting", "startingNow"}
    /\ \/ /\ ~is_running                              \* the assertion fails
          /\ tasks' = [tasks EXCEPT ![t] = "crashed"]
          /\ UNCHANGED sig
       \/ /\ is_running /\ tasks[t] = "starting"
          /\ tasks' = [tasks EXCEPT ![t] = "delay"]
          /\ UNCHANGED sig
       \/ /\ is_running /\ tasks[t] = "startingNow"
          /\ KillPg(t, "TERM", "grace")
    /\ UNCHANGED sigkill_sent
    /\ taskFrame

\* (Variant: the wait's own timeout kills at once.)
DelayEndsKill(t) ==
    /\ tasks[t] = "delay"
    /\ KillPg(t, "KILL", "final")
    /\ UNCHANGED sigkill_sent
    /\ taskFrame

DelayEnds(t) ==
    /\ tasks[t] = "delay"
    /\ KillPg(t, "TERM", "grace")
    /\ UNCHANGED sigkill_sent
    /\ taskFrame

\* (Variant: the second signal is SIGTERM again.)
GraceEndsTerm(t) ==
    /\ tasks[t] = "grace"
    /\ sigkill_sent' = TRUE
    /\ KillPg(t, "TERM", "final")
    /\ taskFrame

\* sigkill_sent is set whether or not the signal reaches anyone.
GraceEnds(t) ==
    /\ tasks[t] = "grace"
    /\ sigkill_sent' = TRUE
    /\ KillPg(t, "KILL", "final")
    /\ taskFrame

\* "failed to kill", raised in a task that nobody awaits.
GiveUp(t) ==
    /\ tasks[t] = "final"
    /\ tasks' = [tasks EXCEPT ![t] = "failed"]
    /\ UNCHANGED <<sig, sigkill_sent>>
    /\ taskFrame

TaskStep(t) == Start(t) \/ DelayEnds(t) \/ GraceEnds(t) \/ GiveUp(t)

-----------------------------------------------------------------------------
(* The process tree and the child watcher. *)

processFrame == UNCHANGED <<sig, process_end, signalVars, callerVars>>

\* The program exits by itself or because of a signal it was sent.
LeaderExits ==
    /\ leader = "running"
    /\ leader' \in IF sig = "KILL" THEN {"nonzero"} ELSE Exited
    /\ UNCHANGED <<child, returncode, cgroupVars>>
    /\ processFrame

Fork ==
    /\ leader = "running" /\ child = "none" /\ sig # "KILL"
    /\ child' \in ChildKinds
    /\ UNCHANGED <<leader, returncode, cgroupVars>>
    /\ processFrame

ChildExits ==
    /\ child # "none"
    /\ child' = "none"
    /\ UNCHANGED <<leader, returncode, cgroupVars>>
    /\ processFrame

\* The child watcher's callback runs on the event loop.
ChildWatcher ==
    /\ leader \in Exited /\ returncode = "None"
    /\ returncode' = leader
    /\ UNCHANGED <<leader, child, cgroupVars>>
    /\ processFrame

Scope ==
    /\ leader = "running"
    /\ MoveToScope
    /\ UNCHANGED <<leader, child, returncode>>
    /\ processFrame

FindCgroup ==
    /\ \/ MayBeReaped /\ CgroupStep(TRUE)
       \/ MayBeUnreaped /\ CgroupStep(FALSE)
    /\ UNCHANGED <<leader, child, returncode>>
    /\ processFrame

-----------------------------------------------------------------------------
Caller == Enter \/ EnterFails \/ Wait \/ Kill \/ ExitKill \/ ExitReap \/ ExitEnded
              \/ Resume \/ Cancel
Tree == LeaderExits \/ Fork \/ ChildExits \/ ChildWatcher \/ Scope

Next == Caller \/ (\E t \in TaskIds : TaskStep(t)) \/ Tree \/ FindCgroup

Spec == Init /\ [][Next]_vars

(***************************************************************************)
(* The event loop runs what is ready and timers fire; SIGKILL ends every   *)
(* member of the group.  The program owes nothing else: it may ignore      *)
(* SIGTERM and never exit, and so may its descendants.                     *)
(***************************************************************************)
KilledLeaderDies == sig = "KILL" /\ LeaderExits
KilledChildDies == sig = "KILL" /\ child \in {"grouped", "detached"} /\ ChildExits

Fairness ==
    /\ WF_vars(Resume)
    /\ WF_vars(ChildWatcher)
    /\ WF_vars(FindCgroup)
    /\ \A t \in TaskIds : WF_vars(TaskStep(t))
    /\ WF_vars(KilledLeaderDies)
    /\ WF_vars(KilledChildDies)

FairSpec == Spec /\ Fairness

-----------------------------------------------------------------------------
(* Safety. *)

\* Once the async with block is left, whatever was raised, the program is dead,
\* the event loop knows it and no descendant holds its output: __aexit__ waits
\* for the end of file as well as for the exit code (l. 136).  A test whose
\* await was cancelled is not covered.
TreeGoneOnLeave ==
    pc = "left" /\ leader # "none" /\ ~cancelled
        => /\ leader \in Exited /\ returncode = leader
           /\ child \notin {"grouped", "escaped"}

\* No signals task outlives the call that created it, and neither that task nor
\* the control group task outlives the block: a straggler would signal a process
\* group whose number may have been reused.
NoStragglers ==
    ~cancelled =>
        /\ pc # "suspended" => \A t \in TaskIds : tasks[t] \notin Pending
        /\ pc = "left" => cgroup \notin CgroupPending

\* Unless an await was cancelled no coroutine is awaited twice; and a test is
\* told "died without being waited for or killed" only if it never called wait
\* or kill: nothing was ever sent to the program and no task was created.
DeservedErrors ==
    /\ outcome = "RuntimeError" => cancelled
    /\ outcome = "AssertionError" => ntasks = 0 /\ sig = "none" /\ ~sigkill_sent

\* SIGKILL reaches a live member of the group only after SIGTERM did, also when
\* cancelled waits have left several signals tasks behind.
TermBeforeKill == [][sig' = "KILL" /\ sig # "KILL" => sig = "TERM"]_vars

\* The strengthening of TreeGoneOnLeave and NoStragglers that is inductive: as
\* long as nothing was cancelled, process_end tells how far the one await of
\* the program's end has come.
Gone == leader \in Exited /\ returncode = leader /\ StdoutClosed

Lifecycle ==
    /\ cancelled => CanCancel
    /\ leader = "none" <=> pc = "outside" \/ (pc = "left" /\ outcome = "OSError")
    /\ leader = "none" => child = "none" /\ process_end = "None" /\ returncode = "None"
    /\ pc = "outside" => cgroup = "none" /\ attempts = 0
    /\ returncode # "None" => returncode = leader
    /\ cgroup = "created" => attempts = 0
    /\ cgroup = "polling" => attempts < MaxAttempts
    /\ pc = "suspended" <=> process_end = "awaited"
    /\ pc = "suspended" <=> call # "none"

Ownership ==
    ~cancelled =>
        /\ process_end = "None" => leader = "none" \/ Gone
        /\ process_end = "spent" => pc = "left" /\ Gone
        /\ process_end = "unawaited" => pc = "body"
        /\ pc # "suspended" => \A t \in TaskIds : tasks[t] \notin Pending
        /\ \A t \in TaskIds : tasks[t] \in Pending => t = ntasks
        /\ pc \in {"outside", "left"} => cgroup \notin CgroupPending
        /\ call \in {"exitKill", "reap"} => cgroup \notin CgroupPending

\* A program that was never waited for or killed was sent nothing.
Innocence ==
    /\ leader = "none" \/ process_end = "unawaited" \/ call = "reap" => ntasks = 0
    /\ ntasks = 0 => sig = "none" /\ ~sigkill_sent
    /\ \A t \in TaskIds : t > ntasks => tasks[t] = "none"
    /\ outcome = "AssertionError" => pc = "left"

\* A task past SIGTERM has sent it, unless it met an empty group; a group that is
\* empty stays empty.
Escalation == \A t \in TaskIds : tasks[t] = "grace" /\ GroupAlive => sig # "none"

IInv == TypeOK /\ Lifecycle /\ Ownership /\ Innocence /\ Escalation /\ DeservedErrors

-----------------------------------------------------------------------------
(* Liveness, under an assumption on the descendants where one is needed. *)

\* The one thing that keeps communicate() from its end of file once the program
\* itself is dead.
NobodyHoldsStdout == [](child \notin {"grouped", "escaped"})

\* A call that awaits a program whose descendants do not hold its output ends:
\* SIGTERM, then SIGKILL, then the child watcher, then communicate().  And once
\* the signals task has got past its assertion, descendants that hold it and
\* stay in the process group do not keep the call from ending, even if the
\* program itself exited long ago: the signals go to the group (l. 75 and 78).
WaitReturns ==
    /\ NobodyHoldsStdout => (pc = "suspended" ~> pc # "suspended")
    /\ [](child # "escaped") =>
         (pc = "suspended" /\ ntasks > 0 /\ tasks[ntasks] \in {"delay", "grace"}
             ~> pc # "suspended")

\* "{name} died without being waited for or killed" (l. 154): a test that leaves
\* the block of such a program is told so.  Not so if a descendant holds stdout:
\* then __aexit__, which has created no signals task, never ends.
DeathIsReported ==
    NobodyHoldsStdout => (call = "reap" ~> outcome = "AssertionError" \/ cancelled)

\* A test whose await was cancelled leaves the program to the signals task, which
\* still ends it as long as the event loop runs.
CancelledStillDies == cancelled ~> leader \in Exited

-----------------------------------------------------------------------------
(* What the repository says of the program and the code does not do. *)

\* "Assigned to self.send_signals_task, cancelled when process ends" (l. 70): when
\* the block has been left and the process is gone, no signals task is pending.
CancelledWhenProcessEnds ==
    pc = "left" /\ returncode # "None" => \A t \in TaskIds : tasks[t] \notin Pending

-----------------------------------------------------------------------------
(* Program implements Benchmarkable. *)

lifeMapping == CASE pc = "outside" -> "idle"
                 [] pc = "left" -> "left"
                 [] pc = "suspended" /\ call \in {"exitKill", "reap"} -> "leaving"
                 [] OTHER -> "entered"

aliveMapping == leader # "none" /\ ~Gone

Abstract == INSTANCE Benchmarkable WITH life <- lifeMapping, alive <- aliveMapping,
                                        abandoned <- cancelled

\* Every step of a program, of its tree, its tasks and its test, is a step of a
\* Benchmarkable or leaves it unchanged; a cancelled await abandons it.
ImplementsBenchmarkable == Abstract!Spec
=============================================================================
