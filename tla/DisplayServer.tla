--------------------------- MODULE DisplayServer ----------------------------
(***************************************************************************)
(* A display server run for a test (program/display_server.py): a Program, *)
(* the socket it creates in the runtime directory, and the wait for that   *)
(* socket.  The wait is synchronous: from the start of the process to the  *)
(* end of the wait the event loop does not run, while the server and       *)
(* everybody else who writes to the directory do.                          *)
(*                                                                         *)
(* The server is entered through Program's Enter but left through kill(),  *)
(* never through its __aexit__.                                            *)
(***************************************************************************)
EXTENDS Naturals, Sequences

CONSTANTS MaxAttempts, MaxTasks, ChildKinds, CanCancel,     \* see Program
          MaxOther           \* bound: other files created in the directory

ASSUME DisplayAssumption ==
    /\ MaxAttempts \in Nat \ {0} /\ MaxTasks \in Nat \ {0} /\ MaxOther \in Nat
    /\ ChildKinds \subseteq {"grouped", "detached", "escaped"} /\ CanCancel \in BOOLEAN

VARIABLES leader, child, sig, returncode, process_end, ntasks, tasks, sigkill_sent,
          pc, call, outcome, cancelled, cgroup, attempts, scoped

VARIABLES
    dpc,                     \* where the test is in the server's methods
    display,                 \* the socket: absent, left by an earlier server, or new
    watching,                \* the inotify watch exists
    events,                  \* what it has seen and nobody has read
    other,                   \* other files created so far
    young,                   \* min_mir_run_time has not passed since start_time
    made,                    \* history: this server has created its socket
    abandoned                \* history: the test was cancelled in a method of the server

Server == INSTANCE Program

programVars == <<leader, child, sig, returncode, process_end, ntasks, tasks, sigkill_sent,
                 pc, call, outcome, cancelled, cgroup, attempts, scoped>>
directoryVars == <<display, watching, events, other, made>>
vars == <<leader, child, sig, returncode, process_end, ntasks, tasks, sigkill_sent,
          pc, call, outcome, cancelled, cgroup, attempts, scoped,
          dpc, display, watching, events, other, young, made, abandoned>>

Blocking == {"watch", "check", "waiting"}

DisplayTypeOK ==
    /\ Server!TypeOK
    /\ dpc \in Blocking \cup {"idle", "cleared", "failing", "failed", "body", "settling",
                              "stopping", "left"}
    /\ display \in {"absent", "stale", "new"}
    /\ watching \in BOOLEAN /\ young \in BOOLEAN /\ made \in BOOLEAN
    /\ abandoned \in BOOLEAN
    /\ events \in Seq({"display", "other"})
    /\ other \in 0..MaxOther

Init ==
    /\ Server!Init
    /\ dpc = "idle" /\ display \in {"absent", "stale"}
    /\ watching = FALSE /\ events = <<>> /\ other = 0
    /\ young = FALSE /\ made = FALSE /\ abandoned = FALSE

-----------------------------------------------------------------------------
(* __aenter__ *)

\* clear_wayland_display.  (Variant: only the lock file is removed.)
LeftAlone == display
Cleared == "absent"

Clear ==
    /\ dpc = "idle"
    /\ display' = Cleared
    /\ dpc' = "cleared"
    /\ UNCHANGED <<programVars, watching, events, other, young, made, abandoned>>

Start ==
    /\ dpc = "cleared"
    /\ \/ Server!Enter /\ dpc' = "watch"
       \/ Server!EnterFails /\ dpc' = "failed"
    /\ UNCHANGED <<directoryVars, young, abandoned>>

\* wait_for_wayland_display: first the watch, then the check.
Watch ==
    /\ dpc = "watch"
    /\ watching' = TRUE
    /\ dpc' = "check"
    /\ UNCHANGED <<programVars, display, events, other, young, made, abandoned>>

Check ==
    /\ dpc = "check"
    /\ \/ display # "absent" /\ dpc' = "body" /\ young' = TRUE
       \/ display = "absent" /\ dpc' = "waiting" /\ UNCHANGED young
    /\ UNCHANGED <<programVars, directoryVars, abandoned>>

\* One event: of the display, or of some other file.  (Variant: the first of those that
\* have come is looked at.)
ReadFirst ==
    /\ dpc = "waiting" /\ events # <<>>
    /\ events' = <<>>
    /\ \/ Head(events) = "display" /\ dpc' = "body" /\ young' = TRUE
       \/ Head(events) # "display" /\ UNCHANGED <<dpc, young>>
    /\ UNCHANGED <<programVars, display, watching, other, made, abandoned>>

ReadEvent ==
    /\ dpc = "waiting" /\ events # <<>>
    /\ events' = Tail(events)
    /\ \/ Head(events) = "display" /\ dpc' = "body" /\ young' = TRUE
       \/ Head(events) # "display" /\ UNCHANGED <<dpc, young>>
    /\ UNCHANGED <<programVars, display, watching, other, made, abandoned>>

\* No event in time.  The handler kills the server before it raises.  (Variant:
\* it just raises.)
TimesOutOnly ==
    /\ dpc = "waiting" /\ events = <<>>
    /\ dpc' = "failed"
    /\ UNCHANGED <<programVars, directoryVars, young, abandoned>>

TimesOut ==
    /\ dpc = "waiting" /\ events = <<>>
    /\ Server!Kill /\ dpc' = "failing"
    /\ UNCHANGED <<directoryVars, young, abandoned>>

-----------------------------------------------------------------------------
(* __aexit__ *)

\* asyncio.sleep, before the server is killed: the event loop runs.
MustSettle == young

Exit ==
    /\ dpc = "body"
    /\ \/ MustSettle /\ dpc' = "settling" /\ UNCHANGED programVars
       \/ ~MustSettle /\ Server!Kill /\ dpc' = "stopping"
    /\ UNCHANGED <<directoryVars, young, abandoned>>

Settled ==
    /\ dpc = "settling" /\ ~young
    /\ Server!Kill /\ dpc' = "stopping"
    /\ UNCHANGED <<directoryVars, young, abandoned>>

\* Time passes.
Age ==
    /\ dpc \in {"body", "settling"} /\ young
    /\ young' = FALSE
    /\ UNCHANGED <<programVars, dpc, directoryVars, abandoned>>

\* Where the test gets to from its last await, returned or cancelled.
Ended == IF dpc = "failing" THEN "failed" ELSE "left"

\* kill() returns, in the handler of the failed wait or in __aexit__.
Resume ==
    /\ Server!Resume
    /\ dpc' = Ended
    /\ UNCHANGED <<directoryVars, young, abandoned>>

\* The test is cancelled in one of the awaits: in the sleep, and nobody has sent the
\* server a signal; or in kill(), whose task is left to send them.
CancelSleep == CanCancel /\ dpc = "settling" /\ UNCHANGED programVars

Cancel ==
    /\ CancelSleep \/ Server!Cancel
    /\ abandoned' = TRUE
    /\ dpc' = Ended
    /\ UNCHANGED <<directoryVars, young>>

-----------------------------------------------------------------------------
(* The directory. *)

\* What the watch adds to the queue.
Notified(name) == IF watching THEN Append(events, name) ELSE events

CreateDisplay ==
    /\ leader = "running" /\ display # "new"
    /\ display' = "new" /\ made' = TRUE
    /\ events' = Notified("display")
    /\ UNCHANGED <<programVars, dpc, watching, other, young, abandoned>>

\* A server that exits may remove its socket, or leave it behind.
ServerExits ==
    /\ Server!LeaderExits
    /\ display' \in {display, "absent"}
    /\ UNCHANGED <<dpc, watching, events, other, young, made, abandoned>>

OtherFile ==
    /\ dpc \in Blocking /\ other < MaxOther
    /\ other' = other + 1
    /\ events' = Notified("other")
    /\ UNCHANGED <<programVars, dpc, display, watching, young, made, abandoned>>

-----------------------------------------------------------------------------
(* The rest of the program, and what of it needs the event loop. *)

serverFrame == UNCHANGED <<dpc, directoryVars, young, abandoned>>

LoopRuns == dpc \notin Blocking

Tree == (Server!Fork \/ Server!ChildExits \/ Server!Scope) /\ serverFrame
ChildWatcher == LoopRuns /\ Server!ChildWatcher /\ serverFrame
FindCgroup == LoopRuns /\ Server!FindCgroup /\ serverFrame
SignalTask(t) == LoopRuns /\ Server!TaskStep(t) /\ serverFrame

InEnter == Clear \/ Start \/ Watch \/ Check \/ ReadEvent \/ TimesOut

Next == \/ InEnter \/ Exit \/ Settled \/ Age \/ Resume \/ Cancel
        \/ CreateDisplay \/ ServerExits \/ OtherFile
        \/ Tree \/ ChildWatcher \/ FindCgroup
        \/ \E t \in Server!TaskIds : SignalTask(t)

Spec == Init /\ [][Next]_vars

(***************************************************************************)
(* The fairness of Program, of the code in __aenter__ and __aexit__, and   *)
(* of time.  The server need not create its socket, nor exit before it is  *)
(* killed; the test need not leave the block.                              *)
(***************************************************************************)
Fairness ==
    /\ WF_vars(InEnter)
    /\ WF_vars(Settled) /\ WF_vars(Age) /\ WF_vars(Resume)
    /\ WF_vars(ChildWatcher) /\ WF_vars(FindCgroup)
    /\ \A t \in Server!TaskIds : WF_vars(SignalTask(t))
    /\ WF_vars(sig = "KILL" /\ ServerExits)

FairSpec == Spec /\ Fairness

-----------------------------------------------------------------------------
(* Safety. *)

\* "It might be seen by both this check and inotify, but there's no way it's seen
\* by neither" (l. 35): a test that waits while the display is there has an event
\* of it to read.
SeenByOneOfThem ==
    dpc = "waiting" /\ display = "new" => \E i \in DOMAIN events : events[i] = "display"

\* A server that was entered has created the display itself; one left behind by an
\* earlier server of the same test process is not taken for it.
EnteredMeansMade == dpc \in {"body", "settling", "stopping", "left"} => made

\* Neither a failed __aenter__ nor __aexit__ leaves the server alive or its output
\* held, although Program's __aexit__ is never called and the server may have died
\* at any moment, with the event loop blocked or not.  Except where the test was
\* cancelled in the sleep or in a kill(): __aexit__ has no try, so a test cancelled in
\* the sleep (l. 92) leaves a server that nobody has signalled.
ServerIsGone ==
    dpc \in {"failed", "left"} /\ leader # "none" /\ ~abandoned
        => /\ leader \in {"zero", "nonzero"} /\ returncode = leader
           /\ child \notin {"grouped", "escaped"}
           /\ \A t \in Server!TaskIds : tasks[t] \notin Server!Pending

\* Where the test is in the server's methods tells where it is in Program's.
Places ==
    /\ dpc \in {"idle", "cleared"} <=> pc = "outside"
    /\ dpc \in Blocking \cup {"body", "settling"} => pc = "body" /\ process_end = "unawaited"
    /\ dpc \in {"failing", "stopping"} => pc = "suspended" /\ call = "kill"
    /\ dpc \in {"failed", "left"} =>
         \/ pc = "body" /\ (process_end = "None" \/ abandoned)
         \/ dpc = "failed" /\ pc = "left" /\ leader = "none"
    /\ cancelled => abandoned
    /\ abandoned => dpc \in {"failed", "left"}

\* A display that is there, or that an event tells of, is this server's, and there is a watch
\* before anybody relies on it.
Directory ==
    /\ dpc # "idle" => display # "stale"
    /\ display = "new" \/ (\E i \in DOMAIN events : events[i] = "display") => made
    /\ dpc \in {"check", "waiting"} => watching

\* The inductive invariant: Program's, as seen from the methods of the server.
DisplayInv == DisplayTypeOK /\ Server!IInv /\ Places /\ Directory
              /\ SeenByOneOfThem /\ EnteredMeansMade /\ ServerIsGone

\* A display server is a Benchmarkable.  It counts as entered from the start of
\* its process on, and as leaving while it is killed, also in a failed __aenter__.
lifeMapping == CASE dpc \in {"idle", "cleared"} -> "idle"
                 [] dpc \in {"left", "failed"} -> "left"
                 [] dpc \in {"settling", "stopping", "failing"} -> "leaving"
                 [] OTHER -> "entered"

aliveMapping == leader # "none" /\ ~Server!Gone

Abstract == INSTANCE Benchmarkable WITH life <- lifeMapping, alive <- aliveMapping

\* Every step of the server, its socket and its directory is a step of a
\* Benchmarkable or leaves it unchanged (l. 75-94).
ImplementsBenchmarkable == Abstract!Spec

-----------------------------------------------------------------------------
(* Liveness, for a server whose descendants do not hold its output. *)

\* __aenter__ ends: the display appears, or the wait times out and the server is
\* killed, also when it has died while the event loop was blocked.  And so does
\* __aexit__, for a server that is too young to be killed as for one that has died.
\* If the test is cancelled in kill(), the server dies all the same.
CallsEnd ==
    /\ Server!NobodyHoldsStdout =>
         /\ dpc # "idle" ~> dpc \in {"body", "settling", "stopping", "failed", "left"}
         /\ dpc \in {"settling", "stopping"} ~> dpc = "left"
    /\ cancelled ~> leader \in {"zero", "nonzero"}
=============================================================================
