--------------------------- MODULE ProgramProofs ----------------------------
(***************************************************************************)
(* Proofs about Program, for every number of tasks, every bound on polls,  *)
(* every set of kinds of descendant, with and without cancellation.        *)
(***************************************************************************)
EXTENDS Program, TLAPS

USE MaxAttemptsAssumption, MaxTasksAssumption, ChildKindsAssumption, CanCancelAssumption

\* The inductive invariant holds when the harness creates a program.
LEMMA InitInvariant == Init => IInv
<1> SUFFICES ASSUME Init PROVE IInv
  OBVIOUS
<1> USE DEF Init, CgroupInit
<1>1. TypeOK
  <2>1. cgroup \in CgroupStates
    BY DEF CgroupStates
  <2>2. attempts \in 0..MaxAttempts /\ ntasks \in 0..MaxTasks
    OBVIOUS
  <2>3. scoped \in BOOLEAN /\ sigkill_sent \in BOOLEAN /\ cancelled \in BOOLEAN
    OBVIOUS
  <2>4. CgroupTypeOK
    BY <2>1, <2>2, <2>3 DEF CgroupTypeOK
  <2>5. tasks \in [TaskIds -> TaskStates]
    BY DEF TaskStates
  <2>6. outcome \in Outcomes
    BY DEF Outcomes
  <2> QED
    BY <2>2, <2>3, <2>4, <2>5, <2>6 DEF TypeOK
<1>2. Lifecycle
  BY DEF Lifecycle
<1>3. Ownership
  BY DEF Ownership, Pending, CgroupPending
<1>4. Innocence
  BY DEF Innocence
<1>5. Escalation /\ DeservedErrors
  BY DEF Escalation, DeservedErrors
<1> QED
  BY <1>1, <1>2, <1>3, <1>4, <1>5 DEF IInv

\* Every step of the test, of a signals task, of the process tree and of the
\* control group task preserves it.
LEMMA StepInvariant == IInv /\ [Next]_vars => IInv'
<1> SUFFICES ASSUME IInv, [Next]_vars PROVE IInv'
  OBVIOUS
<1> USE DEF IInv, TypeOK, Lifecycle, Ownership, Innocence, Escalation, DeservedErrors, Gone,
            GroupAlive, CgroupTypeOK, CgroupStates, CgroupPending, TaskStates, Pending,
            TaskIds, Outcomes, Exited, StdoutClosed
<1>1. CASE Enter
  BY <1>1 DEF Enter, signalVars
<1>2. CASE EnterFails
  BY <1>2 DEF EnterFails, processVars, signalVars, cgroupVars
<1>3. CASE Wait
  BY <1>3 DEF Wait, Await, GetsTask, is_running, processVars, cgroupVars
<1>4. CASE Kill
  BY <1>4 DEF Kill, Await, GetsTask, is_running, processVars, cgroupVars
<1>5. CASE ExitKill
  BY <1>5 DEF ExitKill, Ended, Await, GetsTask, is_running, processVars, CancelledCgroup
<1>6. CASE ExitReap
  BY <1>6 DEF ExitReap, Ended, is_running, processVars, signalVars, CancelledCgroup
<1>7. CASE ExitEnded
  BY <1>7 DEF ExitEnded, Ended, processVars, signalVars, CancelledCgroup
<1>8. CASE Resume
  BY <1>8 DEF Resume, CancelSignals, AfterEnd, WaitOutcome, DeathUnawaited, processVars, cgroupVars
<1>9. CASE Cancel
  BY <1>9 DEF Cancel, SignalsAfterCancel, processVars, cgroupVars
<1>10. ASSUME NEW t \in TaskIds, TaskStep(t) PROVE IInv'
  <2> USE DEF KillPg, MayBeReaped, MayBeUnreaped, is_running, taskFrame, callerVars, cgroupVars
  <2>1. CASE Start(t)
    BY <2>1 DEF Start
  <2>2. CASE DelayEnds(t)
    BY <2>2 DEF DelayEnds
  <2>3. CASE GraceEnds(t)
    BY <2>3 DEF GraceEnds
  <2>4. CASE GiveUp(t)
    BY <2>4 DEF GiveUp
  <2> QED
    BY <1>10, <2>1, <2>2, <2>3, <2>4 DEF TaskStep
<1>11. CASE Tree
  <2> USE DEF processFrame, signalVars, callerVars, cgroupVars
  <2>1. CASE LeaderExits
    BY <2>1 DEF LeaderExits
  <2>2. CASE Fork
    BY <2>2 DEF Fork
  <2>3. CASE ChildExits
    BY <2>3 DEF ChildExits
  <2>4. CASE ChildWatcher
    BY <2>4 DEF ChildWatcher
  <2>5. CASE Scope
    BY <2>5 DEF Scope, MoveToScope
  <2> QED
    BY <1>11, <2>1, <2>2, <2>3, <2>4, <2>5 DEF Tree
<1>12. CASE FindCgroup
  <2>1. UNCHANGED <<leader, child, sig, returncode, process_end, ntasks, tasks,
                    sigkill_sent, pc, call, outcome, cancelled>>
    BY <1>12 DEF FindCgroup, processFrame, signalVars, callerVars
  <2>2. \/ FirstRead(TRUE) \/ FirstRead(FALSE)
        \/ Poll(TRUE) \/ Poll(FALSE)
    BY <1>12 DEF FindCgroup, CgroupStep
  <2>3. /\ cgroup \in CgroupPending
        /\ CgroupTypeOK'
        /\ cgroup' = "polling" => attempts' < MaxAttempts
        /\ cgroup' # "created"
    BY <2>2 DEF FirstRead, Poll, LastAttempt
  <2>4. TypeOK' /\ Lifecycle'
    BY <2>1, <2>3
  <2>5. Ownership'
    BY <2>1, <2>3
  <2>6. Innocence' /\ Escalation' /\ DeservedErrors'
    BY <2>1
  <2> QED
    BY <2>4, <2>5, <2>6
<1>13. CASE UNCHANGED vars
  BY <1>13 DEF vars
<1> QED
  BY <1>1, <1>2, <1>3, <1>4, <1>5, <1>6, <1>7, <1>8, <1>9, <1>10, <1>11, <1>12, <1>13
  DEF Next, Caller

\* The inductive invariant holds in every reachable state.
THEOREM InvariantHolds == Spec => []IInv
BY InitInvariant, StepInvariant, PTL DEF Spec

\* Every variable keeps its type: no task beyond MaxTasks, no poll beyond
\* MaxAttempts, and the caller is always in one of its places.
THEOREM TypeCorrect == Spec => []TypeOK
<1>1. IInv => TypeOK
  BY DEF IInv
<1> QED
  BY <1>1, InvariantHolds, PTL

\* __aexit__ never leaves a program alive or its output held, whatever the
\* program, its descendants and the timing of the signals (no cancelled await).
THEOREM TreeIsGone == Spec => []TreeGoneOnLeave
<1>1. IInv => TreeGoneOnLeave
  BY DEF IInv, TypeOK, Lifecycle, Ownership, Gone, StdoutClosed, TreeGoneOnLeave
<1> QED
  BY <1>1, InvariantHolds, PTL

\* No signals task is pending once the call that created it has ended, and no
\* task at all once the block is left (no cancelled await).
THEOREM NoTaskLeftBehind == Spec => []NoStragglers
<1>1. IInv => NoStragglers
  BY DEF IInv, Ownership, NoStragglers
<1> QED
  BY <1>1, InvariantHolds, PTL

\* "died without being waited for or killed" is only ever said of a program that
\* was not, and a coroutine is awaited twice only after a cancellation.
THEOREM ErrorsAreDeserved == Spec => []DeservedErrors
<1>1. IInv => DeservedErrors
  BY DEF IInv
<1> QED
  BY <1>1, InvariantHolds, PTL

\* Also with several signals tasks at work, SIGKILL follows SIGTERM.
THEOREM KillFollowsTerm == Spec => TermBeforeKill
<1>1. IInv /\ [Next]_vars => [sig' = "KILL" /\ sig # "KILL" => sig = "TERM"]_vars
  <2> SUFFICES ASSUME IInv, Next, sig' = "KILL", sig # "KILL"
               PROVE sig = "TERM"
    OBVIOUS
  <2> sig \in {"none", "TERM"}
    BY DEF IInv, TypeOK
  <2>1. PICK t \in TaskIds : TaskStep(t)
    BY DEF Next, Caller, Tree, Enter, EnterFails, Wait, Kill, Await, ExitKill, ExitReap,
           ExitEnded, Resume, Cancel, LeaderExits, Fork, ChildExits, ChildWatcher, Scope,
           FindCgroup, processFrame, processVars
  <2>2. GraceEnds(t) /\ GroupAlive
    BY <2>1 DEF TaskStep, Start, DelayEnds, GraceEnds, GiveUp, KillPg
  <2> QED
    BY <2>2 DEF GraceEnds, IInv, Escalation
<1> QED
  BY <1>1, InvariantHolds, PTL DEF Spec, TermBeforeKill

-----------------------------------------------------------------------------
\* Where the test is decides where the Benchmarkable is; Gone, that it is dead.
LEMMA StepSimulates ==
    ASSUME IInv, IInv', [Next]_vars
    PROVE [Abstract!Next]_(Abstract!vars)
<1> USE DEF Abstract!Next, Abstract!vars, lifeMapping, aliveMapping
<1> USE DEF IInv, TypeOK, Lifecycle, Ownership, Gone, StdoutClosed, Exited
<1>1. CASE Enter
  <2>1. Abstract!Enter
    BY <1>1 DEF Enter, Abstract!Enter
  <2> QED
    BY <2>1
<1>2. CASE EnterFails
  <2>1. Abstract!EnterFails
    BY <1>2 DEF EnterFails, processVars, Abstract!EnterFails
  <2> QED
    BY <2>1
<1>3. CASE Wait \/ Kill
  <2>1. UNCHANGED <<lifeMapping, aliveMapping, cancelled>>
    BY <1>3 DEF Wait, Kill, Await, processVars
  <2> QED
    BY <2>1
<1>4. CASE ExitKill
  \* A program whose await was cancelled is left at once, with a RuntimeError.
  <2>1. Abstract!Leave \/ Abstract!Left
    BY <1>4 DEF ExitKill, Await, Ended, processVars, Abstract!Leave, Abstract!Left
  <2> QED
    BY <2>1
<1>5. CASE ExitReap
  <2>1. Abstract!Leave \/ Abstract!Left
    BY <1>5 DEF ExitReap, Ended, processVars, Abstract!Leave, Abstract!Left
  <2> QED
    BY <2>1
<1>6. CASE ExitEnded
  <2>1. Abstract!Left
    BY <1>6 DEF ExitEnded, Ended, processVars, Abstract!Left
  <2> QED
    BY <2>1
<1>7. CASE Resume
  <2>1. Abstract!Left \/ UNCHANGED <<lifeMapping, aliveMapping, cancelled>>
    BY <1>7 DEF Resume, AfterEnd, processVars, Abstract!Left
  <2> QED
    BY <2>1
<1>8. CASE Cancel
  <2>1. Abstract!Abandon
    BY <1>8 DEF Cancel, processVars, Abstract!Abandon
  <2> QED
    BY <2>1
<1>9. ASSUME NEW t \in TaskIds, TaskStep(t)
      PROVE UNCHANGED <<lifeMapping, aliveMapping, cancelled>>
  BY <1>9 DEF TaskStep, Start, DelayEnds, GraceEnds, GiveUp, taskFrame, callerVars
<1>10. CASE Tree
  <2>1. UNCHANGED <<lifeMapping, cancelled>>
    BY <1>10 DEF Tree, LeaderExits, Fork, ChildExits, ChildWatcher, Scope,
                 processFrame, callerVars
  <2>2. aliveMapping' => aliveMapping
    BY <1>10 DEF Tree, LeaderExits, Fork, ChildExits, ChildWatcher, Scope, processFrame
  <2> QED
    BY <2>1, <2>2 DEF Abstract!Die
<1>11. CASE FindCgroup
  <2>1. UNCHANGED <<lifeMapping, aliveMapping, cancelled>>
    BY <1>11 DEF FindCgroup, processFrame, callerVars
  <2> QED
    BY <2>1
<1>12. CASE UNCHANGED vars
  BY <1>12 DEF vars
<1> QED
  BY <1>1, <1>2, <1>3, <1>4, <1>5, <1>6, <1>7, <1>8, <1>9, <1>10, <1>11, <1>12
  DEF Next, Caller

\* A program is a Benchmarkable, whoever kills it and whenever its test is
\* cancelled.
THEOREM ProgramIsBenchmarkable == Spec => ImplementsBenchmarkable
<1>1. Init => Abstract!Init
  BY DEF Init, Abstract!Init, lifeMapping, aliveMapping
<1>2. IInv /\ IInv' /\ [Next]_vars => [Abstract!Next]_(Abstract!vars)
  BY StepSimulates
<1> QED
  BY <1>1, <1>2, InvariantHolds, PTL DEF Spec, ImplementsBenchmarkable, Abstract!Spec
=============================================================================
