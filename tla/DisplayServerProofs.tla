------------------------ MODULE DisplayServerProofs -------------------------
(***************************************************************************)
(* Proofs about the display server: it is entered with a display of its    *)
(* own, it is gone when it has been left, and it is a Benchmarkable.  What *)
(* Program promises is not proved again: a step of the server is a step of *)
(* Program, whose proofs are instantiated here.                            *)
(***************************************************************************)
EXTENDS DisplayServer, SequenceTheorems, TLAPS

Facts == INSTANCE ProgramProofs

-----------------------------------------------------------------------------
(* Program, as the display server knows it and as it was proved *)

\* The program of a display server has the states of the program that Facts is about.
LEMMA SameStates ==
    /\ Server!Init <=> Facts!Init
    /\ Server!IInv <=> Facts!IInv
    /\ Server!vars = Facts!vars
<1> USE DEF Server!TaskIds, Facts!TaskIds, Server!Exited, Facts!Exited, Server!Pending, Facts!Pending,
        Server!TaskStates, Facts!TaskStates, Server!Outcomes, Facts!Outcomes,
        Server!CgroupPending, Facts!CgroupPending, Server!CgroupStates, Facts!CgroupStates
<1>1. Server!Init <=> Facts!Init
  BY DEF Server!Init, Facts!Init, Server!CgroupInit, Facts!CgroupInit
<1>2. Server!TypeOK <=> Facts!TypeOK
  BY DEF Server!TypeOK, Facts!TypeOK, Server!CgroupTypeOK, Facts!CgroupTypeOK
<1>3. Server!Gone <=> Facts!Gone
  BY DEF Server!Gone, Facts!Gone, Server!StdoutClosed, Facts!StdoutClosed
<1>4. Server!Lifecycle <=> Facts!Lifecycle
  BY DEF Server!Lifecycle, Facts!Lifecycle
<1>5. Server!Ownership <=> Facts!Ownership
  BY <1>3 DEF Server!Ownership, Facts!Ownership
<1>6. Server!Innocence <=> Facts!Innocence
  BY DEF Server!Innocence, Facts!Innocence
<1>7. Server!Escalation <=> Facts!Escalation
  BY DEF Server!Escalation, Facts!Escalation, Server!GroupAlive, Facts!GroupAlive
<1>8. Server!DeservedErrors <=> Facts!DeservedErrors
  BY DEF Server!DeservedErrors, Facts!DeservedErrors
<1>9. Server!vars = Facts!vars
  BY DEF Server!vars, Facts!vars
<1> QED
  BY <1>1, <1>2, <1>4, <1>5, <1>6, <1>7, <1>8, <1>9 DEF Server!IInv, Facts!IInv

\* And the same invariant in the next state.
LEMMA SameInvariant == Server!IInv' <=> Facts!IInv'
  BY SameStates, PTL

\* It enters like that one.
LEMMA SameEnter == /\ Server!Enter => Facts!Enter
                   /\ Server!EnterFails => Facts!EnterFails
  BY DEF Server!Enter, Facts!Enter, Server!EnterFails, Facts!EnterFails, Server!signalVars,
     Facts!signalVars, Server!processVars, Facts!processVars, Server!cgroupVars, Facts!cgroupVars

\* It is killed like that one.
LEMMA SameKill == Server!Kill => Facts!Kill
  BY DEF Server!Kill, Facts!Kill, Server!Await, Facts!Await, Server!GetsTask, Facts!GetsTask,
     Server!is_running, Facts!is_running, Server!processVars, Facts!processVars,
     Server!cgroupVars, Facts!cgroupVars

\* It goes on like that one.
LEMMA SameResume == Server!Resume => Facts!Resume
  BY DEF Server!Resume, Facts!Resume, Server!StdoutClosed, Facts!StdoutClosed,
     Server!CancelSignals, Facts!CancelSignals, Server!AfterEnd, Facts!AfterEnd,
     Server!WaitOutcome, Facts!WaitOutcome, Server!DeathUnawaited, Facts!DeathUnawaited,
     Server!processVars, Facts!processVars, Server!cgroupVars, Facts!cgroupVars,
     Server!Exited, Facts!Exited, Server!Pending, Facts!Pending, Server!TaskIds, Facts!TaskIds

\* It is cancelled like that one.
LEMMA SameCancel == Server!Cancel => Facts!Cancel
  BY DEF Server!Cancel, Facts!Cancel, Server!SignalsAfterCancel, Facts!SignalsAfterCancel,
     Server!processVars, Facts!processVars, Server!cgroupVars, Facts!cgroupVars

\* Its processes are those of that one.
LEMMA SameTree ==
    /\ Server!LeaderExits => Facts!LeaderExits
    /\ Server!Fork => Facts!Fork
    /\ Server!ChildExits => Facts!ChildExits
    /\ Server!Scope => Facts!Scope
    /\ Server!ChildWatcher => Facts!ChildWatcher
<1> USE DEF Server!processFrame, Facts!processFrame, Server!signalVars, Facts!signalVars,
            Server!callerVars, Facts!callerVars, Server!cgroupVars, Facts!cgroupVars,
            Server!Exited, Facts!Exited
<1>1. Server!LeaderExits => Facts!LeaderExits
  BY DEF Server!LeaderExits, Facts!LeaderExits
<1>2. Server!Fork => Facts!Fork
  BY DEF Server!Fork, Facts!Fork
<1>3. Server!ChildExits => Facts!ChildExits
  BY DEF Server!ChildExits, Facts!ChildExits
<1>4. Server!Scope => Facts!Scope
  BY DEF Server!Scope, Facts!Scope, Server!MoveToScope, Facts!MoveToScope
<1>5. Server!ChildWatcher => Facts!ChildWatcher
  BY DEF Server!ChildWatcher, Facts!ChildWatcher
<1> QED
  BY <1>1, <1>2, <1>3, <1>4, <1>5

\* Its cgroup is found like the one of that one.
LEMMA SameCgroup == Server!FindCgroup => Facts!FindCgroup
  BY DEF Server!FindCgroup, Facts!FindCgroup, Server!MayBeReaped, Facts!MayBeReaped,
     Server!MayBeUnreaped, Facts!MayBeUnreaped, Server!CgroupStep, Facts!CgroupStep,
     Server!FirstRead, Facts!FirstRead, Server!Poll, Facts!Poll, Server!LastAttempt,
     Facts!LastAttempt, Server!processFrame, Facts!processFrame, Server!signalVars,
     Facts!signalVars, Server!callerVars, Facts!callerVars

\* Its tasks are those of that one.
LEMMA SameTask == ASSUME NEW t \in Server!TaskIds PROVE Server!TaskStep(t) => Facts!TaskStep(t)
<1> USE DEF Server!taskFrame, Facts!taskFrame, Server!callerVars, Facts!callerVars,
            Server!cgroupVars, Facts!cgroupVars, Server!KillPg, Facts!KillPg,
            Server!GroupAlive, Facts!GroupAlive, Server!MayBeReaped, Facts!MayBeReaped,
            Server!MayBeUnreaped, Facts!MayBeUnreaped
<1>1. Server!Start(t) => Facts!Start(t)
  BY DEF Server!Start, Facts!Start, Server!is_running, Facts!is_running
<1>2. Server!DelayEnds(t) => Facts!DelayEnds(t)
  BY DEF Server!DelayEnds, Facts!DelayEnds
<1>3. Server!GraceEnds(t) => Facts!GraceEnds(t)
  BY DEF Server!GraceEnds, Facts!GraceEnds
<1>4. Server!GiveUp(t) => Facts!GiveUp(t)
  BY DEF Server!GiveUp, Facts!GiveUp
<1> QED
  BY <1>1, <1>2, <1>3, <1>4 DEF Server!TaskStep, Facts!TaskStep

\* Whatever the server, its socket and the directory do is a step of Program, or none.
LEMMA ServerSteps == [Next]_vars => [Facts!Next]_(Facts!vars)
<1> SUFFICES ASSUME [Next]_vars PROVE [Facts!Next]_(Facts!vars)
  OBVIOUS
<1>1. CASE UNCHANGED programVars
  BY <1>1 DEF programVars, Facts!vars
<1>2. CASE Start
  BY <1>2, SameEnter DEF Start, Facts!Next, Facts!Caller
<1>3. CASE Server!Kill \/ Server!Resume \/ Server!Cancel
  BY <1>3, SameKill, SameResume, SameCancel DEF Facts!Next, Facts!Caller
<1>4. CASE ServerExits \/ Tree \/ ChildWatcher
  BY <1>4, SameTree DEF ServerExits, Tree, ChildWatcher, Facts!Next, Facts!Tree
<1>5. CASE FindCgroup
  BY <1>5, SameCgroup DEF FindCgroup, Facts!Next
<1>6. ASSUME NEW t \in Server!TaskIds, SignalTask(t) PROVE Facts!Next
  BY <1>6, SameTask DEF SignalTask, Facts!Next, Server!TaskIds, Facts!TaskIds
<1>7. CASE UNCHANGED vars
  BY <1>1, <1>7 DEF vars, programVars
<1> QED
  BY <1>1, <1>2, <1>3, <1>4, <1>5, <1>6, <1>7
     DEF Next, InEnter, Clear, Watch, Check, ReadEvent, TimesOut, Exit, Settled, Age, Resume,
         Cancel, CancelSleep, CreateDisplay, OtherFile

\* Each step of a display server keeps the invariant of its program.
LEMMA ServerInvStep == Server!IInv /\ [Next]_vars => Server!IInv'
<1>1. Facts!IInv /\ [Facts!Next]_(Facts!vars) => Facts!IInv'
  BY DisplayAssumption, Facts!StepInvariant
<1> QED
  BY <1>1, ServerSteps, SameStates, SameInvariant
-----------------------------------------------------------------------------
(* What a step does to the places of the test *)

\* Where the test is in Program, and what it awaits there.
placeVars == <<pc, call, process_end, leader>>

\* What stays when a group of variables does.
LEMMA Frame ==
    /\ UNCHANGED programVars => UNCHANGED <<placeVars, cancelled>> /\ UNCHANGED Server!vars
    /\ UNCHANGED directoryVars <=> UNCHANGED <<display, watching, events, other, made>>
    /\ UNCHANGED vars <=> /\ UNCHANGED programVars /\ UNCHANGED directoryVars
                          /\ UNCHANGED <<dpc, young, abandoned>>
  BY DEF programVars, directoryVars, vars, placeVars, Server!vars

\* What happens to the processes behind the back of the test, and the tasks on the loop.
Background == ServerExits \/ Tree \/ ChildWatcher \/ FindCgroup
              \/ \E t \in Server!TaskIds : SignalTask(t)

\* What the processes and the tasks of the program leave to the display server.
LEMMA BackgroundKeeps ==
    ASSUME Server!IInv, Background
    PROVE  /\ UNCHANGED <<pc, call, process_end, cancelled, abandoned, dpc, watching, events, made>>
           /\ (leader = "none" <=> leader' = "none") /\ display' \in {display, "absent"}
<1>1. CASE ServerExits
  BY <1>1 DEF ServerExits, Server!LeaderExits, Server!processFrame, Server!callerVars, Server!Exited
<1>2. CASE Tree
  BY <1>2 DEF Tree, serverFrame, directoryVars, Server!Fork, Server!ChildExits, Server!Scope,
     Server!processFrame, Server!callerVars
<1>3. CASE ChildWatcher \/ FindCgroup
  BY <1>3 DEF ChildWatcher, FindCgroup, serverFrame, directoryVars, Server!ChildWatcher,
     Server!FindCgroup, Server!processFrame, Server!callerVars
<1>4. ASSUME NEW t \in Server!TaskIds, SignalTask(t)
      PROVE  UNCHANGED <<pc, call, process_end, cancelled, abandoned, dpc, watching, events, made, leader, display>>
  BY <1>4 DEF SignalTask, serverFrame, directoryVars, Server!TaskStep, Server!Start,
     Server!DelayEnds, Server!GraceEnds, Server!GiveUp, Server!taskFrame, Server!callerVars
<1> QED
  BY <1>1, <1>2, <1>3, <1>4 DEF Background

\* kill() of a server that nobody has awaited yet: the test is suspended in it.
LEMMA KillSuspends ==
    ASSUME Server!Kill, process_end = "unawaited"
    PROVE  /\ pc' = "suspended" /\ call' = "kill" /\ process_end' = "awaited" /\ pc = "body"
           /\ UNCHANGED <<leader, child, returncode, cancelled>>
  BY DEF Server!Kill, Server!Await, Server!processVars

\* The test is suspended nowhere but in one of the two calls of kill().
LEMMA SuspendedWhere ==
    ASSUME DisplayTypeOK, Server!IInv, Places, pc = "suspended"
    PROVE  dpc \in {"failing", "stopping"}
<1>1. pc # "body" /\ pc # "left" /\ pc # "outside"
  OBVIOUS
<1> QED
  BY <1>1 DEF Places, DisplayTypeOK, Blocking

\* What is so when the test has been cancelled in one of its awaits.
LEMMA CancelReturns ==
    ASSUME DisplayTypeOK, Server!IInv, Places, Cancel
    PROVE  /\ dpc \in {"failing", "settling", "stopping"} /\ dpc' = Ended /\ pc' = "body"
           /\ abandoned' /\ UNCHANGED <<leader, child, returncode>>
           /\ UNCHANGED <<display, watching, events, made>>
<1>1. UNCHANGED <<display, watching, events, made>> /\ dpc' = Ended /\ abandoned'
  BY Frame DEF Cancel
<1>2. CASE CancelSleep
  <2>1. dpc = "settling" /\ pc = "body" /\ UNCHANGED <<pc, leader, child, returncode>>
    BY <1>2 DEF CancelSleep, programVars, Places
  <2> QED
    BY <1>1, <2>1
<1>3. CASE Server!Cancel
  <2>1. pc = "suspended" /\ UNCHANGED <<leader, child, returncode>>
    BY <1>3 DEF Server!Cancel, Server!processVars
  <2>2. dpc \in {"failing", "stopping"}
    BY <2>1, SuspendedWhere
  <2>3. call = "kill"
    BY <2>2 DEF Places
  <2>4. pc' = "body"
    BY <1>3, <2>3 DEF Server!Cancel
  <2> QED
    BY <1>1, <2>1, <2>2, <2>4
<1> QED
  BY <1>2, <1>3 DEF Cancel

\* What is so when leaving the program returns.
LEMMA ResumeReturns ==
    ASSUME DisplayTypeOK, Server!IInv, Places, Server!Resume
    PROVE  /\ dpc \in {"failing", "stopping"} /\ pc' = "body" /\ process_end' = "None"
           /\ Server!Gone /\ UNCHANGED <<leader, child, returncode, cancelled>> /\ ~cancelled /\ ~abandoned
<1>1. process_end = "awaited" /\ pc = "suspended"
  BY DEF Server!Resume, Server!IInv, Server!Lifecycle
<1>2. dpc \in {"failing", "stopping"}
  BY <1>1, SuspendedWhere
<1>3. ~cancelled /\ ~abandoned
  BY <1>2 DEF Places
<1> QED
  BY <1>1, <1>2, <1>3 DEF Places, Server!Resume, Server!AfterEnd, Server!IInv, Server!Lifecycle, Server!Gone,
     Server!StdoutClosed, Server!processVars

\* Each step keeps the display server at the place of its program.
LEMMA PlacesStep ==
    DisplayTypeOK /\ Server!IInv /\ Places /\ [Next]_vars => Places'
<1> SUFFICES ASSUME DisplayTypeOK, Server!IInv, Places, [Next]_vars PROVE Places'
  OBVIOUS
<1>1. ASSUME UNCHANGED <<dpc, pc, call, process_end, cancelled, abandoned>>,
             leader = "none" <=> leader' = "none"
      PROVE  Places'
  BY <1>1 DEF Places
<1>2. CASE Background
  BY <1>1, <1>2, BackgroundKeeps
<1>3. CASE Clear \/ Watch \/ Check \/ ReadEvent \/ Age
  <2>1. /\ UNCHANGED <<pc, call, process_end, leader>>
        /\ \/ dpc \in {"idle", "cleared"} /\ dpc' \in {"idle", "cleared"}
           \/ dpc \in Blocking \cup {"body", "settling"} /\ dpc' \in Blocking \cup {"body", "settling"}
    BY <1>3, Frame DEF Clear, Watch, Check, ReadEvent, Age, Blocking, placeVars
  <2>2. UNCHANGED <<cancelled, abandoned>>
    BY <1>3, Frame DEF Clear, Watch, Check, ReadEvent, Age
  <2>3. ~cancelled' /\ ~abandoned'
    BY <2>1, <2>2 DEF Places, Blocking
  <2> QED
    BY <2>1, <2>3 DEF Places, Blocking
<1>4. CASE Start
  <2>1. ~cancelled /\ ~abandoned /\ UNCHANGED <<cancelled, abandoned>>
    BY <1>4 DEF Start, Places, Server!Enter, Server!EnterFails
  <2> QED
    BY <1>4, <2>1 DEF Start, Places, Blocking, Server!Enter, Server!EnterFails, Server!processVars,
       Server!IInv, Server!Lifecycle
<1>5. CASE TimesOut \/ Exit \/ Settled
  <2>1. /\ dpc \in {"waiting", "body", "settling"} /\ process_end = "unawaited" /\ pc = "body"
        /\ ~cancelled /\ ~abandoned /\ UNCHANGED abandoned
    BY <1>5 DEF TimesOut, Exit, Settled, Places, Blocking
  <2>2. CASE Server!Kill /\ dpc' \in {"failing", "stopping"}
    <3>1. /\ pc' = "suspended" /\ call' = "kill" /\ UNCHANGED leader
          /\ ~cancelled' /\ ~abandoned'
      BY <2>1, <2>2, KillSuspends
    <3> QED
      BY <2>2, <3>1 DEF Places, Blocking
  <2>3. CASE dpc' = "settling" /\ UNCHANGED programVars
    <3>1. UNCHANGED <<pc, call, process_end, leader>> /\ ~cancelled' /\ ~abandoned'
      BY <2>1, <2>3 DEF programVars
    <3> QED
      BY <2>1, <2>3, <3>1 DEF Places, Blocking
  <2> QED
    BY <1>5, <2>2, <2>3 DEF TimesOut, Exit, Settled
<1>6. CASE Resume
  <2>1. /\ dpc \in {"failing", "stopping"} /\ pc' = "body" /\ process_end' = "None"
        /\ dpc' = Ended /\ ~cancelled' /\ ~abandoned'
    BY <1>6, ResumeReturns DEF Resume
  <2> QED
    BY <2>1 DEF Places, Blocking, Ended
<1>7. CASE Cancel
  <2>1. dpc \in {"failing", "settling", "stopping"} /\ dpc' = Ended /\ pc' = "body" /\ abandoned'
    BY <1>7, CancelReturns
  <2> QED
    BY <2>1 DEF Places, Blocking, Ended
<1>8. CASE CreateDisplay \/ OtherFile \/ UNCHANGED vars
  BY <1>1, <1>8, Frame DEF CreateDisplay, OtherFile, placeVars
<1> QED
  BY <1>2, <1>3, <1>4, <1>5, <1>6, <1>7, <1>8 DEF Next, InEnter, Background

-----------------------------------------------------------------------------
(* The display and the wait for it *)

\* Each step keeps the types.
LEMMA DisplayTypeStep ==
    DisplayTypeOK /\ Server!IInv /\ [Next]_vars => DisplayTypeOK'
<1> SUFFICES ASSUME DisplayTypeOK, Server!IInv, [Next]_vars PROVE DisplayTypeOK'
  OBVIOUS
<1>1. Server!TypeOK'
  BY ServerInvStep DEF Server!IInv
<1>2. dpc' \in Blocking \cup {"idle", "cleared", "failing", "failed", "body", "settling",
                              "stopping", "left"}
  BY Frame DEF DisplayTypeOK, Blocking, Next, InEnter, Clear, Start, Watch, Check, ReadEvent, TimesOut,
     Exit, Settled, Age, Resume, Cancel, Ended, CreateDisplay, ServerExits, OtherFile, Tree, ChildWatcher,
     FindCgroup, SignalTask, serverFrame
<1>3. display' \in {"absent", "stale", "new"} /\ other' \in 0..MaxOther
  BY Frame, DisplayAssumption
     DEF DisplayTypeOK, Next, InEnter, Clear, Start, Watch, Check, ReadEvent, TimesOut,
         Exit, Settled, Age, Resume, Cancel, Ended, CreateDisplay, ServerExits, OtherFile, Tree, ChildWatcher,
         FindCgroup, SignalTask, serverFrame, Cleared
<1>4. watching' \in BOOLEAN /\ young' \in BOOLEAN /\ made' \in BOOLEAN /\ abandoned' \in BOOLEAN
  BY Frame DEF DisplayTypeOK, Next, InEnter, Clear, Start, Watch, Check, ReadEvent, TimesOut,
     Exit, Settled, Age, Resume, Cancel, Ended, CreateDisplay, ServerExits, OtherFile, Tree, ChildWatcher,
     FindCgroup, SignalTask, serverFrame
<1>5. events' \in Seq({"display", "other"})
  <2>1. \/ UNCHANGED events
        \/ events # <<>> /\ events' = Tail(events)
        \/ \E name \in {"display", "other"} : events' = Append(events, name)
    BY Frame DEF Next, InEnter, Clear, Start, Watch, Check, ReadEvent, TimesOut,
       Exit, Settled, Age, Resume, Cancel, Ended, CreateDisplay, ServerExits, OtherFile, Tree, ChildWatcher,
       FindCgroup, SignalTask, serverFrame, Notified
  <2> QED
    BY <2>1 DEF DisplayTypeOK
<1> QED
  BY <1>1, <1>2, <1>3, <1>4, <1>5 DEF DisplayTypeOK

\* There is an event of the display.
Announced(queue) == \E i \in DOMAIN queue : queue[i] = "display"

\* A name is announced that is queued, until it is handled.
LEMMA Queue ==
    ASSUME NEW queue \in Seq({"display", "other"}), NEW name
    PROVE  /\ Announced(queue) => Announced(Append(queue, name))
           /\ name = "display" => Announced(Append(queue, name))
           /\ Announced(Append(queue, name)) => Announced(queue) \/ name = "display"
           /\ queue # <<>> /\ Head(queue) = "display" => Announced(queue)
           /\ queue # <<>> /\ Announced(Tail(queue)) => Announced(queue)
           /\ queue # <<>> /\ Head(queue) # "display" /\ Announced(queue) => Announced(Tail(queue))
<1>1. Len(queue) \in Nat /\ DOMAIN queue = 1..Len(queue)
  OBVIOUS
<1>2. /\ DOMAIN Append(queue, name) = 1..(Len(queue) + 1)
      /\ Append(queue, name)[Len(queue) + 1] = name
      /\ \A i \in 1..Len(queue) : Append(queue, name)[i] = queue[i]
  OBVIOUS
<1>3. /\ Announced(queue) => Announced(Append(queue, name))
      /\ name = "display" => Announced(Append(queue, name))
      /\ Announced(Append(queue, name)) => Announced(queue) \/ name = "display"
  BY <1>1, <1>2 DEF Announced
<1>4. ASSUME queue # <<>>
      PROVE  /\ Len(queue) \in Nat \ {0} /\ Head(queue) = queue[1]
             /\ DOMAIN Tail(queue) = 1..(Len(queue) - 1)
             /\ \A i \in 1..(Len(queue) - 1) : Tail(queue)[i] = queue[i + 1]
  BY <1>4
<1>5. /\ queue # <<>> /\ Head(queue) = "display" => Announced(queue)
      /\ queue # <<>> /\ Announced(Tail(queue)) => Announced(queue)
  BY <1>1, <1>4 DEF Announced
<1>6. ASSUME queue # <<>>, Head(queue) # "display", NEW i \in 1..Len(queue), queue[i] = "display"
      PROVE  Announced(Tail(queue))
  <2>1. i # 1 /\ i - 1 \in 1..(Len(queue) - 1) /\ (i - 1) + 1 = i
    BY <1>1, <1>4, <1>6
  <2> QED
    BY <1>4, <1>6, <2>1 DEF Announced
<1> QED
  BY <1>1, <1>3, <1>5, <1>6 DEF Announced

\* Each step keeps what is known of the directory.
LEMMA DirectoryStep ==
    /\ DisplayTypeOK /\ Server!IInv /\ Places /\ Directory /\ SeenByOneOfThem /\ EnteredMeansMade
    /\ [Next]_vars
    => Directory' /\ SeenByOneOfThem' /\ EnteredMeansMade'
<1> SUFFICES ASSUME DisplayTypeOK, Server!IInv, Places, Directory, SeenByOneOfThem,
                    EnteredMeansMade, [Next]_vars
             PROVE  /\ dpc' # "idle" => display' # "stale"
                    /\ display' = "new" \/ Announced(events') => made'
                    /\ dpc' \in {"check", "waiting"} => watching'
                    /\ dpc' = "waiting" /\ display' = "new" => Announced(events')
                    /\ dpc' \in {"body", "settling", "stopping", "left"} => made'
  BY DEF Directory, SeenByOneOfThem, EnteredMeansMade, Announced
<1>1. /\ dpc # "idle" => display # "stale"
      /\ display = "new" \/ Announced(events) => made
      /\ dpc \in {"check", "waiting"} => watching
      /\ dpc = "waiting" /\ display = "new" => Announced(events)
      /\ dpc \in {"body", "settling", "stopping", "left"} => made
  BY DEF Directory, SeenByOneOfThem, EnteredMeansMade, Announced
<1>2. events \in Seq({"display", "other"}) /\ display \in {"absent", "stale", "new"}
  BY DEF DisplayTypeOK
<1>3. CASE Background
  BY <1>1, <1>3, BackgroundKeeps
<1>4. CASE Clear \/ Start
  BY <1>1, <1>4, Frame DEF Clear, Start, Cleared
<1>5. CASE Watch
  BY <1>1, <1>5 DEF Watch
<1>6. CASE Check
  <2>1. UNCHANGED <<display, watching, events, made>> /\ dpc = "check"
        /\ ((display # "absent" /\ dpc' = "body") \/ (display = "absent" /\ dpc' = "waiting"))
    <3>1. UNCHANGED <<display, watching, events, made>>
      BY <1>6, Frame DEF Check
    <3>2. dpc = "check" /\ ((display # "absent" /\ dpc' = "body") \/ (display = "absent" /\ dpc' = "waiting"))
      BY <1>6 DEF Check
    <3> QED
      BY <3>1, <3>2
  <2> QED
    BY <1>1, <1>2, <2>1
<1>7. CASE ReadEvent
  <2>1. /\ dpc = "waiting" /\ events # <<>> /\ events' = Tail(events)
        /\ UNCHANGED <<display, watching, made>>
        /\ ((Head(events) = "display" /\ dpc' = "body")
            \/ (Head(events) # "display" /\ dpc' = "waiting"))
    <3>1. UNCHANGED <<display, watching, made>>
      BY <1>7 DEF ReadEvent
    <3>2. /\ dpc = "waiting" /\ events # <<>> /\ events' = Tail(events)
          /\ ((Head(events) = "display" /\ dpc' = "body")
              \/ (Head(events) # "display" /\ dpc' = "waiting"))
      BY <1>7 DEF ReadEvent
    <3> QED
      BY <3>1, <3>2
  <2>2. Announced(events') => Announced(events)
    BY <1>2, <2>1, Queue
  <2>3. Head(events) = "display" => Announced(events)
    BY <1>2, <2>1, Queue
  <2>4. Head(events) # "display" /\ Announced(events) => Announced(events')
    BY <1>2, <2>1, Queue
  <2> QED
    BY <1>1, <2>1, <2>2, <2>3, <2>4
<1>8. CASE TimesOut \/ Exit \/ Settled \/ Age
  <2>1. UNCHANGED <<display, watching, events, made>>
    BY <1>8, Frame DEF TimesOut, Exit, Settled, Age
  <2>2. \/ dpc = "waiting" /\ dpc' = "failing"
        \/ /\ dpc \in {"body", "settling"}
           /\ dpc' \in {"body", "settling", "stopping"}
    BY <1>8 DEF TimesOut, Exit, Settled, Age
  <2> QED
    BY <1>1, <2>1, <2>2
<1>9. CASE Resume
  <2>1. UNCHANGED <<display, watching, events, made>> /\ dpc \in {"failing", "stopping"}
        /\ dpc' = IF dpc = "failing" THEN "failed" ELSE "left"
    BY <1>9, Frame, ResumeReturns DEF Resume, Ended
  <2> QED
    BY <1>1, <2>1
<1>10. CASE CreateDisplay
  <2>1. /\ leader = "running" /\ display' = "new" /\ made' /\ UNCHANGED <<dpc, watching>>
        /\ events' = IF watching THEN Append(events, "display") ELSE events
    BY <1>10 DEF CreateDisplay, Notified
  <2>2. watching => Announced(events')
    BY <1>2, <2>1, Queue
  <2> QED
    BY <1>1, <2>1, <2>2
<1>11. CASE OtherFile
  <2>1. /\ UNCHANGED <<dpc, watching, display, made>>
        /\ events' = IF watching THEN Append(events, "other") ELSE events
    BY <1>11 DEF OtherFile, Notified
  <2>2. Announced(events') <=> Announced(events)
    BY <1>2, <2>1, Queue
  <2> QED
    BY <1>1, <2>1, <2>2
<1>12. CASE UNCHANGED vars
  BY <1>1, <1>12, Frame
<1>13. CASE Cancel
  <2>1. /\ UNCHANGED <<display, watching, events, made>> /\ dpc \in {"failing", "settling", "stopping"}
        /\ dpc' = IF dpc = "failing" THEN "failed" ELSE "left"
    BY <1>13, CancelReturns DEF Ended
  <2> QED
    BY <1>1, <2>1
<1> QED
  BY <1>3, <1>4, <1>5, <1>6, <1>7, <1>8, <1>9, <1>10, <1>11, <1>12, <1>13 DEF Next, InEnter, Background

\* Both ways out of the server end an await of its end, if it was started at all.
LEMMA LeftMeansGone ==
    DisplayTypeOK /\ Server!IInv /\ Places => ServerIsGone
<1> SUFFICES ASSUME DisplayTypeOK, Server!IInv, Places, dpc \in {"failed", "left"},
                    leader # "none", ~abandoned
             PROVE  /\ leader \in {"zero", "nonzero"} /\ returncode = leader
                    /\ child \notin {"grouped", "escaped"}
                    /\ \A t \in Server!TaskIds : tasks[t] \notin Server!Pending
  BY DEF ServerIsGone
<1>1. pc = "body" /\ process_end = "None"
  BY DEF Places
<1>2. ~cancelled
  BY DEF Places
<1> QED
  BY <1>1, <1>2 DEF Server!IInv, Server!Ownership, Server!Gone, Server!StdoutClosed, Server!Exited

\* The invariant holds before the display server is entered.
LEMMA DisplayInit == Init => DisplayInv
<1> SUFFICES ASSUME Init PROVE DisplayInv
  OBVIOUS
<1>1. Server!IInv
  <2>1. Facts!Init => Facts!IInv
    BY DisplayAssumption, Facts!InitInvariant
  <2> QED
    BY <2>1, SameStates DEF Init
<1>2. pc = "outside" /\ leader = "none" /\ ~cancelled /\ ~abandoned
  BY DEF Init, Server!Init
<1>3. DisplayTypeOK
  <2>1. Server!TypeOK
    BY <1>1 DEF Server!IInv
  <2>2. watching \in BOOLEAN /\ young \in BOOLEAN /\ made \in BOOLEAN /\ abandoned \in BOOLEAN
    BY DEF Init
  <2>3. /\ dpc = "idle" /\ display \in {"absent", "stale"}
        /\ events = <<>> /\ other = 0
    BY DEF Init
  <2>4. events \in Seq({"display", "other"}) /\ other \in 0..MaxOther
    BY <2>3, DisplayAssumption
  <2> QED
    BY <2>1, <2>2, <2>3, <2>4 DEF DisplayTypeOK
<1>4. Places /\ Directory /\ SeenByOneOfThem /\ EnteredMeansMade /\ ServerIsGone
  BY <1>2 DEF Init, Places, Directory, SeenByOneOfThem, EnteredMeansMade, ServerIsGone, Blocking
<1> QED
  BY <1>1, <1>3, <1>4 DEF DisplayInv

\* Each step keeps the invariant.
LEMMA DisplayStep == DisplayInv /\ [Next]_vars => DisplayInv'
<1> SUFFICES ASSUME DisplayInv, [Next]_vars PROVE DisplayInv'
  OBVIOUS
<1>1. DisplayTypeOK' /\ Server!IInv' /\ Places' /\ Directory' /\ SeenByOneOfThem' /\ EnteredMeansMade'
  BY DisplayTypeStep, ServerInvStep, PlacesStep, DirectoryStep DEF DisplayInv
<1>2. ServerIsGone'
  BY <1>1, LeftMeansGone, PTL
<1> QED
  BY <1>1, <1>2 DEF DisplayInv

-----------------------------------------------------------------------------
(* The refinement *)

\* Every step is one of a Benchmarkable, or changes nothing that is seen of one.
LEMMA DisplaySimulates ==
    ASSUME DisplayInv, DisplayInv', [Next]_vars
    PROVE  [Abstract!Next]_(Abstract!vars)
<1> USE DEF Abstract!Next, Abstract!vars
<1>1. /\ leader \in {"none", "running", "zero", "nonzero"}
      /\ returncode \in {"None", "zero", "nonzero"} /\ (returncode # "None" => returncode = leader)
      /\ (leader = "none" => pc # "suspended")
  BY DEF DisplayInv, Server!IInv, Server!Lifecycle, Server!TypeOK, Server!Exited
<1>2. Cancel \/ UNCHANGED abandoned
  BY BackgroundKeeps DEF Next, InEnter, Clear, Start, Watch, Check, ReadEvent, TimesOut, Exit, Settled,
     Age, Resume, CreateDisplay, ServerExits, OtherFile, Tree, ChildWatcher, FindCgroup, SignalTask,
     serverFrame, vars
<1>3. CASE Cancel
  <2>1. /\ dpc \in {"failing", "settling", "stopping"} /\ dpc' \in {"failed", "left"}
        /\ abandoned' /\ UNCHANGED <<leader, child, returncode>>
    BY <1>3, CancelReturns DEF Ended, DisplayInv
  <2>2. UNCHANGED aliveMapping /\ lifeMapping = "leaving" /\ lifeMapping' = "left"
    BY <2>1 DEF lifeMapping, aliveMapping, Server!Gone, Server!StdoutClosed
  <2> QED
    BY <2>1, <2>2 DEF Abstract!Abandon
<1> SUFFICES ASSUME ~Cancel PROVE [Abstract!Next]_(Abstract!vars)
  BY <1>3
<1>4. UNCHANGED abandoned
  BY <1>2
<1>5. CASE Clear
  <2>1. dpc = "idle" /\ dpc' = "cleared" /\ UNCHANGED <<leader, child, returncode>>
    BY <1>5 DEF Clear, programVars
  <2>2. UNCHANGED <<lifeMapping, aliveMapping>>
    BY <2>1 DEF lifeMapping, aliveMapping, Server!Gone, Server!StdoutClosed
  <2> QED
    BY <1>4, <2>2
<1>6. CASE Start
  <2>1. dpc = "cleared" /\ leader = "none"
    BY <1>6 DEF Start, DisplayInv, Places, Server!IInv, Server!Lifecycle
  <2>2. CASE Server!Enter /\ dpc' = "watch"
    <3>1. leader' = "running"
      BY <2>2 DEF Server!Enter
    <3>2. lifeMapping = "idle" /\ lifeMapping' = "entered" /\ ~aliveMapping /\ aliveMapping'
      BY <2>1, <2>2, <3>1
         DEF lifeMapping, aliveMapping, Server!Gone, Server!Exited
    <3> QED
      BY <1>4, <3>2 DEF Abstract!Enter, aliveMapping
  <2>3. CASE Server!EnterFails /\ dpc' = "failed"
    <3>1. UNCHANGED <<leader, child, returncode>>
      BY <2>3 DEF Server!EnterFails, Server!processVars
    <3>2. lifeMapping = "idle" /\ lifeMapping' = "left" /\ UNCHANGED aliveMapping
      BY <2>1, <2>3, <3>1
         DEF lifeMapping, aliveMapping, Server!Gone, Server!StdoutClosed
    <3> QED
      BY <1>4, <3>2 DEF Abstract!EnterFails
  <2> QED
    BY <1>6, <2>2, <2>3 DEF Start
<1>7. CASE Watch \/ Check \/ ReadEvent \/ Age \/ CreateDisplay \/ OtherFile \/ UNCHANGED vars
  <2>1. UNCHANGED <<leader, child, returncode>>
    BY <1>7 DEF Watch, Check, ReadEvent, Age, CreateDisplay, OtherFile, programVars, vars
  <2>2. dpc' = dpc \/ (dpc \in Blocking /\ dpc' \in Blocking \cup {"body"})
    BY <1>7 DEF Watch, Check, ReadEvent, Age, CreateDisplay, OtherFile, vars, Blocking
  <2>3. UNCHANGED <<lifeMapping, aliveMapping>>
    BY <2>1, <2>2 DEF lifeMapping, aliveMapping, Server!Gone, Server!StdoutClosed, Blocking
  <2> QED
    BY <1>4, <2>3
<1>8. CASE TimesOut \/ Exit \/ Settled
  <2>1. dpc \in {"waiting", "body", "settling"} /\ process_end = "unawaited"
    BY <1>8 DEF TimesOut, Exit, Settled, DisplayInv, Places, Blocking
  <2>2. UNCHANGED <<leader, child, returncode>>
    BY <1>8, <2>1, KillSuspends DEF TimesOut, Exit, Settled, programVars
  <2>3. dpc' \in {"failing", "stopping", "settling"}
    BY <1>8 DEF TimesOut, Exit, Settled
  <2>4. UNCHANGED aliveMapping /\ lifeMapping' = "leaving" /\ lifeMapping \in {"entered", "leaving"}
    BY <2>1, <2>2, <2>3
       DEF lifeMapping, aliveMapping, Server!Gone, Server!StdoutClosed
  <2> QED
    BY <1>4, <2>4 DEF Abstract!Leave
<1>9. CASE Resume
  <2>1. /\ dpc \in {"failing", "stopping"} /\ Server!Gone /\ UNCHANGED <<leader, child, returncode>>
        /\ dpc' \in {"failed", "left"}
    BY <1>9, ResumeReturns DEF Resume, Ended, DisplayInv
  <2>2. UNCHANGED aliveMapping /\ ~aliveMapping /\ lifeMapping = "leaving" /\ lifeMapping' = "left"
    BY <2>1 DEF lifeMapping, aliveMapping, Server!Gone, Server!StdoutClosed
  <2> QED
    BY <1>4, <2>2 DEF Abstract!Left
<1>10. CASE Background
  <2>1. UNCHANGED dpc
    BY <1>10, BackgroundKeeps DEF DisplayInv
  <2>2. aliveMapping' => aliveMapping
    <3>1. CASE ServerExits
      BY <1>1, <3>1 DEF ServerExits, Server!LeaderExits, aliveMapping, Server!Gone
    <3>2. CASE Tree
      BY <1>1, <3>2 DEF Tree, Server!Fork, Server!ChildExits, Server!Scope, aliveMapping, Server!Gone,
         Server!StdoutClosed, Server!processFrame, Server!Exited
    <3>3. CASE ChildWatcher
      BY <3>3 DEF ChildWatcher, Server!ChildWatcher, aliveMapping, Server!Gone, Server!StdoutClosed
    <3>4. CASE FindCgroup
      BY <3>4 DEF FindCgroup, Server!FindCgroup, aliveMapping, Server!Gone, Server!StdoutClosed
    <3>5. ASSUME NEW t \in Server!TaskIds, SignalTask(t) PROVE aliveMapping' => aliveMapping
      <4>1. UNCHANGED <<leader, child, returncode>>
        BY <3>5 DEF SignalTask, Server!TaskStep, Server!Start, Server!DelayEnds, Server!GraceEnds,
           Server!GiveUp, Server!taskFrame
      <4> QED
        BY <4>1 DEF aliveMapping, Server!Gone, Server!StdoutClosed
    <3> QED
      BY <1>10, <3>1, <3>2, <3>3, <3>4, <3>5 DEF Background
  <2>3. UNCHANGED lifeMapping
    BY <2>1 DEF lifeMapping
  <2>4. aliveMapping \in BOOLEAN /\ aliveMapping' \in BOOLEAN
    BY DEF aliveMapping
  <2> QED
    BY <1>4, <2>2, <2>3, <2>4 DEF Abstract!Die
<1> QED
  BY <1>5, <1>6, <1>7, <1>8, <1>9, <1>10 DEF Next, InEnter, Background

-----------------------------------------------------------------------------
(* Theorems *)

\* Whatever the server, its descendants, the other writers of the directory and the event
\* loop do: the invariant of Program holds through the methods of the display server, which
\* enters it and never exits it, and a watch exists before the display is looked for
\* (display_server.py l. 29-94).
THEOREM DisplayInvHolds == Spec => []DisplayInv
  BY DisplayInit, DisplayStep, PTL DEF Spec

\* The display is seen by the check or by the watch, however many other files are created
\* and whenever the server creates its own (display_server.py l. 29-46).
THEOREM DisplayIsSeen == Spec => []SeenByOneOfThem
<1>1. DisplayInv => SeenByOneOfThem
  BY DEF DisplayInv
<1> QED
  BY <1>1, DisplayInvHolds, PTL

\* No server is entered by the display of an earlier one (display_server.py l. 25-46).
THEOREM EnteredByItsOwn == Spec => []EnteredMeansMade
<1>1. DisplayInv => EnteredMeansMade
  BY DEF DisplayInv
<1> QED
  BY <1>1, DisplayInvHolds, PTL

\* A server whose __aenter__ failed, or whose __aexit__ has ended, is dead, known to be, and
\* has no signals task, although __aexit__ of Program is never called, unless the test was
\* cancelled while the server settled or while it was killed (display_server.py l. 75-94).
THEOREM LeftServerIsGone == Spec => []ServerIsGone
<1>1. DisplayInv => ServerIsGone
  BY DEF DisplayInv
<1> QED
  BY <1>1, DisplayInvHolds, PTL

\* A display server keeps the promise of a Benchmarkable: every step of it is one of those,
\* or changes nothing that its user sees.
THEOREM DisplayServerIsBenchmarkable == Spec => ImplementsBenchmarkable
<1>1. Init => Abstract!Init
  BY DEF Init, Server!Init, Abstract!Init, lifeMapping, aliveMapping
<1>2. DisplayInv /\ DisplayInv' /\ [Next]_vars => [Abstract!Next]_(Abstract!vars)
  BY DisplaySimulates
<1> QED
  BY <1>1, <1>2, DisplayInvHolds, PTL DEF Spec, Abstract!Spec, ImplementsBenchmarkable
=============================================================================
