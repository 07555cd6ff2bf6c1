------------------------------- MODULE Cgroup -------------------------------
(***************************************************************************)
(* The task that looks for the control group of a freshly started program  *)
(* (Cgroup.create and Cgroup.get_cgroup_dir).  The program is started in   *)
(* the group of the test process; systemd-run (or snap run) moves it to a  *)
(* scope of its own some time later.  The task polls /proc/<pid>/cgroup    *)
(* until the path is no longer that of the test process.                   *)
(*                                                                         *)
(* The module has no specification of its own: the program's process       *)
(* decides when the file can be read, so Program composes these actions    *)
(* with the process.                                                       *)
(***************************************************************************)
EXTENDS Naturals

CONSTANT MaxAttempts         \* MAX_ATTEMPTS, 10 * (SLOWDOWN + 1) in the code
ASSUME MaxAttemptsAssumption == MaxAttempts \in Nat \ {0}

VARIABLES
    cgroup,                  \* the state of cgroups_task
    attempts,                \* polls that still saw the test process's group
    scoped                   \* the process has been moved to its own scope

cgroupVars == <<cgroup, attempts, scoped>>

CgroupPending == {"created", "polling"}
CgroupStates == CgroupPending \cup {"none", "found", "timedOut", "crashed", "cancelled"}

CgroupTypeOK ==
    /\ cgroup \in CgroupStates
    /\ attempts \in 0..MaxAttempts
    /\ scoped \in BOOLEAN

CgroupInit ==
    /\ cgroup = "none"
    /\ attempts = 0
    /\ scoped = FALSE

-----------------------------------------------------------------------------
\* The first two reads, of the test process's path and of the program's.  The
\* second only fails if the process is gone; what it returns is not used.
FirstRead(reaped) ==
    /\ cgroup = "created"
    /\ cgroup' = IF reaped THEN "crashed" ELSE "polling"
    /\ UNCHANGED <<attempts, scoped>>

\* (Variant: the bound is one too far.)
LastAttemptMissed == attempts' > MaxAttempts
LastAttempt == attempts' = MaxAttempts

\* One iteration of the loop: the path is the program's own once it differs
\* from the test process's.
Poll(reaped) ==
    /\ cgroup = "polling"
    /\ \/ /\ reaped
          /\ cgroup' = "crashed"
          /\ UNCHANGED attempts
       \/ /\ ~reaped /\ scoped
          /\ cgroup' = "found"
          /\ UNCHANGED attempts
       \/ /\ ~reaped /\ ~scoped
          /\ attempts' = attempts + 1
          /\ cgroup' = IF LastAttempt THEN "timedOut" ELSE "polling"
    /\ UNCHANGED scoped

CgroupStep(reaped) == FirstRead(reaped) \/ Poll(reaped)

\* systemd moves the process; nothing orders this with the task.
MoveToScope ==
    /\ ~scoped
    /\ scoped' = TRUE
    /\ UNCHANGED <<cgroup, attempts>>

\* cgroups_task.cancel(): a task that has ended stays as it is.
CancelledCgroup == IF cgroup \in CgroupPending THEN "cancelled" ELSE cgroup
=============================================================================
