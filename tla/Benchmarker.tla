---------------------------- MODULE Benchmarker -----------------------------
(***************************************************************************)
(* The Benchmarker (lib/benchmarker.py): it enters a sequence of programs, *)
(* polls their control groups from a task of its own while the test body   *)
(* runs, and exits them in reverse.  The programs are Benchmarkables: they *)
(* may refuse to be entered, their exit may raise, and after it they are   *)
(* dead.  The test may nest the block, enter it again once it was left, or *)
(* be cancelled.                                                           *)
(*                                                                         *)
(* An action is the code between two awaits that may suspend.  A poll that *)
(* finds the control groups it needs does not suspend.                     *)
(***************************************************************************)
EXTENDS Naturals, Sequences

CONSTANTS
    N,                       \* the programs are 1..N, in the order of the dict
    WarningsAreErrors,       \* warnings.warn raises, as pytest.ini asks for
    CanCancel,               \* the test may be cancelled in __aenter__ and __aexit__
    MaxUses,                 \* bound: calls of __aenter__
    MaxDepth                 \* bound: nested blocks

ASSUME NAssumption == N \in Nat \ {0}
ASSUME FlagsAssumption == WarningsAreErrors \in BOOLEAN /\ CanCancel \in BOOLEAN
ASSUME BoundsAssumption == MaxUses \in Nat \ {0} /\ MaxDepth \in Nat \ {0}

VARIABLES
    pc,                      \* where the test is
    depth, uses,             \* blocks it is in, calls of __aenter__ so far
    next,                    \* the program to enter, the position in running_programs
    outcome,                 \* how the last __aenter__ or __aexit__ ended
    exs,                     \* a program's exit raised during this __aexit__
    taskError,               \* the poll task's exception is on its way
    running, running_programs,
    task,                    \* the poll task
    target,                  \* the program whose cgroup it awaits
    added,                   \* the backend's data_records holds 1..added
    life,                    \* of each program: "idle", "in", "out"
    cgroups,                 \* of each program: its cgroups_task
    trouble,                 \* history: something failed since the last enter
    enterFailed,             \* history: an __aenter__ raised
    cancelled                \* history: the test was cancelled in one of the calls

callerVars == <<pc, depth, uses, next, outcome, exs, taskError>>
pollVars == <<task, target>>
vars == <<pc, depth, uses, next, outcome, exs, taskError, running, running_programs,
          task, target, added, life, cgroups, trouble, enterFailed, cancelled>>

Programs == 1..N
TaskDone == {"cancelled", "crashed", "finished"}
TaskLive == {"created", "reading", "sleeping", "cancelling"}

TypeOK ==
    /\ pc \in {"outside", "entering", "unwinding", "body", "stopping", "exiting"}
    /\ depth \in 0..MaxDepth /\ uses \in 0..MaxUses
    /\ next \in Nat
    /\ outcome \in {"none", "ok", "enterError", "unwindError", "taskError",
                    "exitError", "CancelledError"}
    /\ exs \in BOOLEAN /\ taskError \in BOOLEAN /\ running \in BOOLEAN
    /\ running_programs \in Seq(Programs)
    /\ task \in {"none"} \cup TaskLive \cup TaskDone
    /\ target \in Programs
    /\ added \in 0..N
    /\ life \in [Programs -> {"idle", "in", "out"}]
    /\ cgroups \in [Programs -> {"none", "pending", "found", "timedOut", "gone", "cancelled"}]
    /\ trouble \in BOOLEAN /\ enterFailed \in BOOLEAN /\ cancelled \in BOOLEAN

Init ==
    /\ pc = "outside" /\ depth = 0 /\ uses = 0 /\ next = 1 /\ outcome = "none"
    /\ exs = FALSE /\ taskError = FALSE
    /\ running = FALSE /\ running_programs = <<>>
    /\ task = "none" /\ target = 1 /\ added = 0
    /\ life = [p \in Programs |-> "idle"]
    /\ cgroups = [p \in Programs |-> "none"]
    /\ trouble = FALSE /\ enterFailed = FALSE /\ cancelled = FALSE

-----------------------------------------------------------------------------
(* __aenter__ *)

\* Only a benchmarker that is not running enters its programs.  (Variant: it does not
\* ask.)
NeverIn == FALSE
AlreadyIn == running

Enter ==
    /\ pc \in {"outside", "body"}
    /\ uses < MaxUses /\ depth < MaxDepth
    /\ uses' = uses + 1
    /\ \/ /\ AlreadyIn
          /\ pc' = "body" /\ depth' = depth + 1 /\ outcome' = "ok"
          /\ UNCHANGED <<running, next, trouble>>
       \/ /\ ~AlreadyIn
          /\ running' = TRUE
          /\ pc' = "entering" /\ next' = 1 /\ trouble' = FALSE
          /\ UNCHANGED <<depth, outcome>>
    /\ UNCHANGED <<exs, taskError, running_programs, pollVars, added, life,
                   cgroups, enterFailed, cancelled>>

\* (Variant: programs are exited in the order they were entered.)
Appended(p) == Append(running_programs, p)
Inserted(p) == <<p>> \o running_programs

\* One iteration of the loop: the program enters, and its control group task with
\* it where the host has one; add() starts its record afresh.
EnterProgram ==
    /\ pc = "entering" /\ next <= N
    /\ life' = [life EXCEPT ![next] = "in"]
    /\ \E c \in {"pending", "none"} : cgroups' = [cgroups EXCEPT ![next] = c]
    /\ running_programs' = Inserted(next)
    /\ added' = IF next > added THEN next ELSE added
    /\ next' = next + 1
    /\ UNCHANGED <<pc, depth, uses, outcome, exs, taskError, running, task, target,
                   trouble, enterFailed, cancelled>>

EnterProgramFails ==
    /\ pc = "entering" /\ next <= N
    /\ pc' = "unwinding" /\ next' = 1
    /\ trouble' = TRUE /\ enterFailed' = TRUE
    /\ UNCHANGED <<depth, uses, outcome, exs, taskError, running, running_programs,
                   pollVars, added, life, cgroups, cancelled>>

\* Where __aexit__ goes when it has cancelled the task.  (Variant: it does not
\* await the task.)
NotAwaited == "exiting"
AfterTaskCancel == "stopping"

\* __aexit__ of a benchmarker that is running, up to its first await.
BeginExit ==
    /\ running' = FALSE
    /\ next' = 1 /\ exs' = FALSE /\ taskError' = FALSE
    /\ pc' = IF task = "none" THEN "exiting" ELSE AfterTaskCancel

\* An exception of __aexit__ leaves every block the test is in: the __aexit__ of the
\* outer ones finds the benchmarker not running.
LeaveAll(how) == pc' = "outside" /\ depth' = 0 /\ outcome' = how

\* An exception of __aenter__ leaves the benchmarker running: if there is an outer
\* block, its __aexit__ goes through running_programs with the exception on its way.
\* The poll task is over by then.
Raise(how) ==
    /\ outcome' = how /\ UNCHANGED depth
    /\ \/ depth = 0 /\ pc' = "outside" /\ UNCHANGED <<running, next, exs, taskError>>
       \/ depth > 0 /\ BeginExit

\* __aexit__ of one program.  Its control group task is cancelled with it.
ExitOf(p) ==
    /\ life' = [life EXCEPT ![p] = "out"]
    /\ cgroups' = [cgroups EXCEPT ![p] = IF @ = "pending" THEN "cancelled" ELSE @]

\* The handler that exits the programs entered so far.  The exception of a
\* program's exit ends it and takes the place of the first one.
Unwind ==
    /\ pc = "unwinding" /\ next <= Len(running_programs)
    /\ ExitOf(running_programs[next])
    /\ \/ next' = next + 1 /\ UNCHANGED <<pc, depth, outcome, exs, taskError, running>>
       \/ Raise("unwindError")
    /\ UNCHANGED <<uses, running_programs, pollVars, added, trouble, enterFailed, cancelled>>

Unwound ==
    /\ pc = "unwinding" /\ next > Len(running_programs)
    /\ Raise("enterError")
    /\ UNCHANGED <<uses, running_programs, pollVars, added, life, cgroups, trouble,
                   enterFailed, cancelled>>

\* All programs are entered: the poll task is created.
Entered ==
    /\ pc = "entering" /\ next > N
    /\ task' = "created"
    /\ pc' = "body" /\ depth' = depth + 1 /\ outcome' = "ok"
    /\ UNCHANGED <<uses, next, exs, taskError, running, running_programs, target,
                   added, life, cgroups, trouble, enterFailed, cancelled>>

-----------------------------------------------------------------------------
(* __aexit__ *)

\* Cancelling the task while it awaits a program's control group cancels that
\* task too.
CancelTask ==
    /\ task' = IF task \in TaskLive THEN "cancelling" ELSE task
    /\ cgroups' = IF task = "reading" /\ cgroups[target] = "pending"
                  THEN [cgroups EXCEPT ![target] = "cancelled"] ELSE cgroups

Exit ==
    /\ pc = "body"
    /\ \/ /\ ~running
          /\ depth' = depth - 1 /\ outcome' = "ok"
          /\ pc' = IF depth' = 0 THEN "outside" ELSE "body"
          /\ UNCHANGED <<next, exs, taskError, running, task, cgroups>>
       \/ /\ running
          /\ BeginExit /\ CancelTask
          /\ UNCHANGED <<depth, outcome>>
    /\ UNCHANGED <<uses, running_programs, target, added, life, trouble,
                   enterFailed, cancelled>>

\* The cancelled task is over: its CancelledError is dropped, any other exception
\* is raised once the programs have been exited.
Stopped ==
    /\ pc = "stopping" /\ task \in TaskDone
    /\ pc' = "exiting"
    /\ taskError' = (task = "crashed")
    /\ UNCHANGED <<depth, uses, next, outcome, exs, running, running_programs, pollVars,
                   added, life, cgroups, trouble, enterFailed, cancelled>>

\* What a program's exit leaves in exs.  (Variant: the list is reset for each.)
LastOnly(raises) == raises
Collected(raises) == exs \/ raises

\* The loop goes on with the next program.  (Variant: an exit that raised is tried
\* again, and raises again.)
RetryFailed(raises) == IF exs \/ raises THEN next ELSE next + 1
NextProgram(raises) == next + 1

\* The loop is over.  (Variant: the first exit that raises ends it.)
StopsAtFailure == exs \/ next > Len(running_programs)
AllTried == next > Len(running_programs)

\* One iteration of the loop in the finally clause.
ExitProgram ==
    /\ pc = "exiting" /\ next <= Len(running_programs)
    /\ ExitOf(running_programs[next])
    /\ \E raises \in BOOLEAN :
          /\ exs' = Collected(raises)
          /\ trouble' = (trouble \/ raises)
          /\ next' = NextProgram(raises)
    /\ UNCHANGED <<pc, depth, uses, outcome, taskError, running, running_programs,
                   pollVars, added, enterFailed, cancelled>>

\* The exceptions of the programs take the place of the task's, and both of the one
\* that was on its way.
Exited ==
    /\ pc = "exiting" /\ AllTried
    /\ \/ exs /\ LeaveAll("exitError")
       \/ ~exs /\ taskError /\ LeaveAll("taskError")
       \/ ~exs /\ ~taskError /\ outcome # "ok" /\ LeaveAll(outcome)
       \/ /\ ~exs /\ ~taskError /\ outcome = "ok"
          /\ depth' = depth - 1 /\ UNCHANGED outcome
          /\ pc' = IF depth' = 0 THEN "outside" ELSE "body"
    /\ UNCHANGED <<uses, next, exs, taskError, running, running_programs, pollVars,
                   added, life, cgroups, trouble, enterFailed, cancelled>>

\* The test is cancelled while it awaits a program: the handlers name Exception,
\* which a CancelledError is not.  (A cancellation while it awaits the task is
\* dropped with the task's own.)
Cancel ==
    /\ CanCancel /\ cancelled' = TRUE
    /\ \/ /\ (pc = "entering" /\ next <= N) \/ (pc = "unwinding" /\ next <= Len(running_programs))
          /\ Raise("CancelledError")
       \/ /\ pc = "exiting" /\ next <= Len(running_programs)
          /\ LeaveAll("CancelledError")
          /\ UNCHANGED <<next, exs, taskError, running>>
    /\ UNCHANGED <<uses, running_programs, pollVars, added, life, cgroups, trouble,
                   enterFailed>>

-----------------------------------------------------------------------------
(* The poll task. *)

\* A failure of get_cgroup or of a read that poll() does not skip: one that is no
\* RuntimeError, or whose warning raises.
FailureEnds(p, unreadable) ==
    \/ cgroups[p] \in {"gone", "none", "cancelled"}
    \/ WarningsAreErrors /\ p \in unreadable

\* poll() goes on at program k.  It gets to the first one whose control group task
\* is still pending, where it suspends, or where it fails: with an exception that
\* is no RuntimeError (no cgroup v2, or the process was gone before its group was
\* found), a cancelled task, or a warning that raises.  The other failures are
\* skipped with a warning.
PollFrom(k) ==
    \E stop \in k..(added + 1), failing \in SUBSET {p \in Programs : cgroups[p] = "found"} :
        LET unreadable == failing \cup {p \in Programs : cgroups[p] = "timedOut"}
            Ends(p) == cgroups[p] = "pending" \/ FailureEnds(p, unreadable)
        IN  /\ \A p \in k..(stop - 1) : ~Ends(p)
            /\ stop <= added => Ends(stop)
            /\ task' = IF stop > added THEN "sleeping"
                       ELSE CASE cgroups[stop] = "pending" -> "reading"
                              [] cgroups[stop] = "cancelled" -> "cancelled"
                              [] OTHER -> "crashed"
            /\ target' = IF task' = "reading" THEN stop ELSE target
            /\ trouble' = (trouble \/ task' = "crashed")

pollFrame == UNCHANGED <<callerVars, running, running_programs, added, life, cgroups,
                         enterFailed, cancelled>>

\* The task starts, or its sleep ends.
PollWakes ==
    /\ task \in {"created", "sleeping"}
    /\ IF running
       THEN PollFrom(1)
       ELSE task' = "finished" /\ UNCHANGED <<target, trouble>>
    /\ pollFrame

\* The control group task it awaits is done.
IsDone(p) == cgroups[p] # "pending"

PollResumes ==
    /\ task = "reading" /\ IsDone(target)
    /\ PollFrom(target)
    /\ pollFrame

\* CancelledError is raised in the task, or keeps it from starting.
TaskCancelled ==
    /\ task = "cancelling"
    /\ task' = "cancelled"
    /\ UNCHANGED <<target, trouble>>
    /\ pollFrame

\* A control group task ends (see Cgroup).
CgroupSettles(p) ==
    /\ cgroups[p] = "pending"
    /\ \E c \in {"found", "timedOut", "gone"} : cgroups' = [cgroups EXCEPT ![p] = c]
    /\ UNCHANGED <<callerVars, running, running_programs, pollVars, added, life, trouble,
                   enterFailed, cancelled>>

-----------------------------------------------------------------------------
InEnter == EnterProgram \/ EnterProgramFails \/ Unwind \/ Unwound \/ Entered
InExit == Stopped \/ ExitProgram \/ Exited
Poll == PollWakes \/ PollResumes \/ TaskCancelled

Next == Enter \/ InEnter \/ Exit \/ InExit \/ Cancel \/ Poll
            \/ \E p \in Programs : CgroupSettles(p)

Spec == Init /\ [][Next]_vars

(***************************************************************************)
(* The event loop runs what is ready, the programs' own __aenter__ and     *)
(* __aexit__ end, and so do their control group tasks.  The test may stay  *)
(* in its block for ever.                                                  *)
(***************************************************************************)
Fairness ==
    /\ WF_vars(InEnter)
    /\ WF_vars(InExit)
    /\ WF_vars(Poll)
    /\ \A p \in Programs : WF_vars(CgroupSettles(p))

FairSpec == Spec /\ Fairness

-----------------------------------------------------------------------------
(* Safety. *)

\* Once the test is out of the block every program is dead, whichever exits raised
\* and whatever the poll task did; also when an enter failed and the programs
\* before it were unwound.  Not so if a program's exit raised in that unwinding, or
\* if the test was cancelled.
AllUnwound ==
    pc = "outside" /\ outcome \notin {"unwindError", "CancelledError"}
        => \A p \in Programs : life[p] # "in"

\* A program is only alive while those before it are (the compositor outlives its
\* client): exits go in the reverse order of enters, in __aexit__, in the handler of
\* a failed enter, and when the list still holds the programs of an earlier use.
\* A test that was cancelled and enters the same programs again is not covered.
ExitsInReverse ==
    ~cancelled => \A p, q \in Programs : p < q /\ life[q] = "in" => life[p] = "in"

\* The poll task never outlives a program it may read: it is created when all are
\* entered and over before the first is exited, also after a cancellation.
PollOnlyWhileEntered ==
    task \in TaskLive => \A p \in Programs : life[p] = "in"

\* A block that ends without an exception had no trouble: no exit raised and the
\* poll task did not crash.
NothingSilent ==
    pc = "outside" /\ outcome = "ok" /\ ~enterFailed => ~trouble

\* The inductive invariant behind AllUnwound and PollOnlyWhileEntered: where the
\* poll task can be alive, what is still to be exited, and what is entered so far.
PollOwned ==
    task \in TaskLive => /\ pc = "stopping" \/ (pc = "body" /\ running)
                         /\ \A p \in Programs : life[p] = "in"

StillToExit(from) ==
    \A p \in Programs : life[p] = "in" =>
        \E i \in from..Len(running_programs) : running_programs[i] = p

Progress ==
    /\ next \in Nat \ {0}
    /\ pc \in {"body", "stopping", "exiting"} => depth > 0
    /\ pc = "body" => outcome = "ok"
    /\ pc \in {"entering", "unwinding"} => depth < MaxDepth /\ running
    /\ pc = "stopping" => next = 1
    /\ pc = "entering" => \A p \in Programs : p < next => life[p] = "in"
    /\ StillToExit(1)
    /\ pc \in {"unwinding", "exiting"} => StillToExit(next)
    /\ pc = "body" /\ ~running => StillToExit(Len(running_programs) + 1)

UnwindInv == TypeOK /\ PollOwned /\ Progress /\ AllUnwound

\* What keeps ExitsInReverse: in the list, from where it is exited, a program stands behind
\* those that were entered after it and are still to be exited.
InReverse(from) ==
    \A i \in from..Len(running_programs), q \in Programs :
        q > running_programs[i] /\ life[q] = "in" /\ life[running_programs[i]] = "in"
            => \E k \in from..(i - 1) : running_programs[k] = q

Order ==
    ~cancelled =>
        /\ InReverse(1)
        /\ pc \in {"unwinding", "exiting"} => InReverse(next)
        /\ pc \in {"outside", "body"} /\ ~running => \A p \in Programs : life[p] # "in"
        /\ pc = "entering" => \A p \in Programs : p >= next => life[p] # "in"

\* What keeps NothingSilent: where the trouble is remembered until it is raised.
TroubleKept ==
    ~enterFailed =>
        /\ pc # "unwinding" /\ (pc = "entering" => ~trouble)
        /\ pc \in {"stopping", "exiting"} => ~running
        /\ pc = "body" /\ ~running => ~trouble
        /\ (pc = "body" /\ running) \/ pc = "stopping" => (trouble => task = "crashed")
        /\ pc = "exiting" => (trouble => exs \/ taskError)
        /\ pc = "outside" /\ running => ~trouble

BenchmarkerInv == UnwindInv /\ Order /\ ExitsInReverse /\ TroubleKept /\ NothingSilent

\* "Ignoring cgroup read failure" (l. 101): a failure to read one program's control
\* group does not end the polling of all of them.
ReadFailuresIgnored ==
    [][task' = "crashed" /\ task # "crashed"
        => \E p \in Programs : cgroups[p] \in {"gone", "none"}]_vars

\* test_benchmarker_unwinds_programs_on_enter_failure: when an enter fails the
\* programs entered before it are exited, as they are when an exit fails.
UnwindsOnEnterFailure ==
    pc = "outside" /\ outcome \in {"enterError", "unwindError"}
        => \A p \in Programs : life[p] # "in"

-----------------------------------------------------------------------------
(* Liveness. *)

\* __aexit__ ends: cancelling the poll task reaches it wherever it is.
ExitEnds == pc \in {"stopping", "exiting"} ~> pc \in {"body", "outside"}
=============================================================================
