------------------------- MODULE BenchmarkerProofs --------------------------
(***************************************************************************)
(* Proofs about Benchmarker, for any number of programs, any number of     *)
(* uses and any nesting, with and without cancellation.                    *)
(***************************************************************************)
EXTENDS Benchmarker, TLAPS

USE NAssumption, FlagsAssumption, BoundsAssumption

\* The types, and what is still to be exited: they hold of a new Benchmarker.
LEMMA UnwindInit == Init => UnwindInv
<1> SUFFICES ASSUME Init PROVE UnwindInv
  OBVIOUS
<1> USE DEF Init, Programs
<1>1. TypeOK
  <2>1. running_programs \in Seq(Programs)
    OBVIOUS
  <2>2. life \in [Programs -> {"idle", "in", "out"}]
    OBVIOUS
  <2>3. cgroups \in [Programs -> {"none", "pending", "found", "timedOut", "gone", "cancelled"}]
    OBVIOUS
  <2>4. target \in Programs /\ added \in 0..N /\ depth \in 0..MaxDepth /\ uses \in 0..MaxUses
    OBVIOUS
  <2> QED
    BY <2>1, <2>2, <2>3, <2>4 DEF TypeOK
<1>2. PollOwned /\ Progress /\ AllUnwound
  BY DEF PollOwned, TaskLive, Progress, StillToExit, AllUnwound
<1> QED
  BY <1>1, <1>2 DEF UnwindInv

\* Where an exception of __aenter__ gets to: out of all blocks, or into the __aexit__ of
\* the outer one.
LEMMA RaiseKeeps ==
    ASSUME NEW how, Raise(how), TypeOK, Progress
    PROVE  /\ outcome' = how /\ UNCHANGED depth
           /\ exs' \in BOOLEAN /\ taskError' \in BOOLEAN /\ running' \in BOOLEAN /\ next' \in Nat \ {0}
           /\ \/ pc' = "outside" /\ depth = 0 /\ UNCHANGED <<running, next>>
              \/ pc' \in {"stopping", "exiting"} /\ depth > 0 /\ ~running' /\ next' = 1
<1>1. CASE depth = 0
  <2>1. /\ UNCHANGED <<running, next, exs, taskError, depth>> /\ pc' = "outside"
        /\ outcome' = how
    BY <1>1 DEF Raise
  <2> QED
    BY <1>1, <2>1 DEF TypeOK, Progress
<1>2. CASE depth > 0 /\ BeginExit
  <2>1. running' = FALSE /\ exs' = FALSE /\ taskError' = FALSE
    BY <1>2 DEF BeginExit
  <2>2. ~running' /\ running' \in BOOLEAN /\ exs' \in BOOLEAN /\ taskError' \in BOOLEAN
    BY <2>1
  <2>3. next' = 1 /\ pc' \in {"stopping", "exiting"}
    BY <1>2 DEF BeginExit, AfterTaskCancel
  <2>4. outcome' = how /\ UNCHANGED depth
    BY DEF Raise
  <2> QED
    BY <1>2, <2>2, <2>3, <2>4
<1>3. depth = 0 \/ (depth > 0 /\ BeginExit)
  BY DEF Raise
<1> QED
  BY <1>1, <1>2, <1>3

\* Every step of the test, of the poll task and of a control group task
\* preserves them.
LEMMA UnwindStep == UnwindInv /\ [Next]_vars => UnwindInv'
<1> SUFFICES ASSUME UnwindInv, [Next]_vars PROVE UnwindInv'
  OBVIOUS
<1> USE DEF UnwindInv, TypeOK, PollOwned, Progress, StillToExit, AllUnwound,
            Programs, TaskLive, TaskDone, callerVars, pollVars
<1>1. CASE Enter
  <2> USE DEF Enter, AlreadyIn
  <2>1. TypeOK'
    <3>1. depth' \in 0..MaxDepth /\ uses' \in 0..MaxUses /\ next' \in Nat
      BY <1>1
    <3>2. UNCHANGED <<exs, taskError, running_programs, task, target, added,
                      life, cgroups, enterFailed, cancelled>>
      BY <1>1
    <3>3. /\ pc' \in {"body", "entering"} /\ running' \in BOOLEAN /\ trouble' \in BOOLEAN
          /\ outcome' \in {outcome, "ok"}
      BY <1>1
    <3>4. /\ exs' \in BOOLEAN /\ taskError' \in BOOLEAN
          /\ enterFailed' \in BOOLEAN /\ cancelled' \in BOOLEAN
      BY <3>2
    <3>5. /\ running_programs' \in Seq(Programs)
          /\ task' \in {"none"} \cup TaskLive \cup TaskDone
          /\ target' \in Programs /\ added' \in 0..N
          /\ life' \in [Programs -> {"idle", "in", "out"}]
          /\ cgroups' \in [Programs -> {"none", "pending", "found", "timedOut", "gone",
                                       "cancelled"}]
      BY <3>2
    <3> HIDE DEF Enter, AlreadyIn, PollOwned, Progress, StillToExit, AllUnwound, TaskLive, TaskDone
    <3> QED
      BY <3>1, <3>3, <3>4, <3>5
  <2>2. PollOwned'
    <3>1. task' = task /\ life' = life
      BY <1>1
    <3>2. pc = "body" /\ running => pc' = "body" /\ running'
      BY <1>1
    <3>3. pc # "stopping"
      BY <1>1
    <3> QED
      BY <3>1, <3>2, <3>3
  <2>3. Progress'
    BY <1>1
  <2>4. AllUnwound'
    BY <1>1
  <2> QED
    BY <2>1, <2>2, <2>3, <2>4
<1>2. CASE EnterProgram
  <2> USE DEF EnterProgram, Inserted
  <2>1. TypeOK'
    BY <1>2
  <2>2. PollOwned'
    BY <1>2
  <2>3. Progress'
    BY <1>2
  <2>4. AllUnwound'
    BY <1>2
  <2> QED
    BY <2>1, <2>2, <2>3, <2>4
<1>3. CASE EnterProgramFails
  BY <1>3 DEF EnterProgramFails
<1>4. CASE Unwind
  <2> USE DEF Unwind, ExitOf
  <2>1. running /\ depth < MaxDepth /\ task \notin TaskLive
    BY <1>4
  <2>2. (UNCHANGED <<pc, depth, outcome, exs, taskError, running>> /\ next' = next + 1) \/ Raise("unwindError")
    BY <1>4
  <2>3. CASE UNCHANGED <<pc, depth, outcome, exs, taskError, running>> /\ next' = next + 1
    BY <1>4, <2>3
  <2>4. CASE Raise("unwindError")
    BY <1>4, <2>1, <2>4, RaiseKeeps
  <2> QED
    BY <2>2, <2>3, <2>4
<1>5. CASE Unwound
  <2> USE DEF Unwound
  <2>1. running /\ depth < MaxDepth /\ task \notin TaskLive
    BY <1>5
  <2>2. \A p \in Programs : life[p] # "in"
    BY <1>5
  <2>3. /\ outcome' = "enterError" /\ UNCHANGED depth
        /\ exs' \in BOOLEAN /\ taskError' \in BOOLEAN /\ running' \in BOOLEAN /\ next' \in Nat \ {0}
        /\ \/ pc' = "outside" /\ depth = 0 /\ UNCHANGED <<running, next>>
           \/ pc' \in {"stopping", "exiting"} /\ depth > 0 /\ ~running' /\ next' = 1
    BY <1>5, RaiseKeeps
  <2>4. UNCHANGED <<uses, running_programs, task, target, added, life, cgroups, trouble, enterFailed, cancelled>>
    BY <1>5
  <2>5. TypeOK' /\ PollOwned'
    BY <2>1, <2>3, <2>4
  <2>6. Progress' /\ AllUnwound'
    BY <2>1, <2>2, <2>3, <2>4
  <2> QED
    BY <2>5, <2>6
<1>6. CASE Entered
  <2> USE DEF Entered
  <2>1. TypeOK'
    BY <1>6
  <2>2. PollOwned'
    BY <1>6
  <2>3. Progress'
    BY <1>6
  <2>4. AllUnwound'
    BY <1>6
  <2> QED
    BY <2>1, <2>2, <2>3, <2>4
<1>7. CASE Exit
  <2> USE DEF Exit, CancelTask, BeginExit, AfterTaskCancel
  <2>1. TypeOK'
    <3>1. depth' \in 0..MaxDepth /\ next' \in Nat
      BY <1>7
    <3>2. UNCHANGED <<uses, running_programs, target, added, life, trouble,
                      enterFailed, cancelled>>
      BY <1>7
    <3>3. /\ pc' \in {"body", "outside", "stopping", "exiting"}
          /\ outcome' \in {outcome, "ok"} /\ task' \in {task, "cancelling"}
      BY <1>7
    <3>4. running' \in BOOLEAN /\ exs' \in BOOLEAN /\ taskError' \in BOOLEAN
      BY <1>7
    <3>5. cgroups' \in [Programs -> {"none", "pending", "found", "timedOut", "gone", "cancelled"}]
      BY <1>7
    <3> QED
      BY <3>1, <3>2, <3>3, <3>4, <3>5
  <2>2. PollOwned'
    BY <1>7
  <2>3. Progress'
    BY <1>7
  <2>4. AllUnwound'
    BY <1>7
  <2> QED
    BY <2>1, <2>2, <2>3, <2>4
<1>8. CASE Stopped
  <2> USE DEF Stopped
  <2>1. TypeOK'
    BY <1>8
  <2>2. PollOwned'
    BY <1>8
  <2>3. Progress'
    BY <1>8
  <2>4. AllUnwound'
    BY <1>8
  <2> QED
    BY <2>1, <2>2, <2>3, <2>4
<1>9. CASE ExitProgram
  BY <1>9 DEF ExitProgram, ExitOf, Collected, NextProgram
<1>10. CASE Exited
  <2> USE DEF Exited, AllTried, LeaveAll
  <2>1. TypeOK'
    BY <1>10
  <2>2. PollOwned'
    BY <1>10
  <2>3. Progress'
    BY <1>10
  <2>4. AllUnwound'
    BY <1>10
  <2> QED
    BY <2>1, <2>2, <2>3, <2>4
<1>11. CASE Cancel
  <2>1. /\ UNCHANGED <<uses, running_programs, task, target, added, life, cgroups, trouble, enterFailed>>
        /\ cancelled' \in BOOLEAN
    BY <1>11 DEF Cancel
  <2>2. CASE pc \in {"entering", "unwinding"} /\ Raise("CancelledError")
    <3>1. running /\ depth < MaxDepth /\ task \notin TaskLive
      BY <2>2
    <3> QED
      BY <2>1, <2>2, <3>1, RaiseKeeps
  <2>3. CASE pc = "exiting" /\ LeaveAll("CancelledError") /\ UNCHANGED <<next, exs, taskError, running>>
    BY <2>1, <2>3 DEF LeaveAll
  <2> QED
    BY <1>11, <2>2, <2>3 DEF Cancel
<1>12. CASE Poll
  <2>1. /\ task \in TaskLive
        /\ task' \in {"sleeping", "reading", "cancelled", "crashed", "finished"}
        /\ task' \in TaskLive => task # "cancelling"
    BY <1>12 DEF Poll, PollWakes, PollResumes, PollFrom, TaskCancelled
  <2>2. target' \in Programs
    <3>1. ASSUME NEW k \in Programs, PollFrom(k) PROVE target' \in Programs
      <4>1. PICK stop \in k..(added + 1) :
               /\ stop > added => task' = "sleeping"
               /\ target' = IF task' = "reading" THEN stop ELSE target
        BY <3>1 DEF PollFrom
      <4> QED
        BY <4>1
    <3>2. (\E k \in Programs : PollFrom(k)) \/ UNCHANGED target
      BY <1>12 DEF Poll, PollWakes, PollResumes, TaskCancelled
    <3> QED
      BY <3>1, <3>2
  <2>3. trouble' \in BOOLEAN
    BY <1>12 DEF Poll, PollWakes, PollResumes, PollFrom, TaskCancelled
  <2>4. UNCHANGED <<pc, depth, uses, next, outcome, exs, taskError, running,
                    running_programs, added, life, cgroups, enterFailed, cancelled>>
    BY <1>12 DEF Poll, PollWakes, PollResumes, TaskCancelled, pollFrame
  <2>5. TypeOK'
    BY <2>1, <2>2, <2>3, <2>4
  <2>6. PollOwned' /\ Progress' /\ AllUnwound'
    BY <2>1, <2>4
  <2> QED
    BY <2>5, <2>6
<1>13. ASSUME NEW p \in Programs, CgroupSettles(p) PROVE UnwindInv'
  BY <1>13 DEF CgroupSettles
<1>14. CASE UNCHANGED vars
  BY <1>14 DEF vars
<1> QED
  BY <1>1, <1>2, <1>3, <1>4, <1>5, <1>6, <1>7, <1>8, <1>9, <1>10, <1>11, <1>12, <1>13,
     <1>14 DEF Next, InEnter, InExit

-----------------------------------------------------------------------------
(* The order of the exits *)

\* What ExitsInReverse says of a test that was not cancelled.
Nested == \A p, q \in Programs : p < q /\ life[q] = "in" => life[p] = "in"

\* The types that this part rests on.
LEMMA ListTypes ==
    UnwindInv => /\ running_programs \in Seq(Programs) /\ next \in Nat \ {0}
                 /\ life \in [Programs -> {"idle", "in", "out"}]
  BY DEF UnwindInv, TypeOK, Progress

\* Exiting the program at a place of the list leaves the rest of the list in order, and those
\* that were entered before it.
LEMMA ExitInOrder ==
    ASSUME UnwindInv, Nested, InReverse(1), InReverse(next), next <= Len(running_programs),
           ExitOf(running_programs[next]), UNCHANGED running_programs
    PROVE  InReverse(1)' /\ Nested' /\ (next' \in {next, next + 1} => InReverse(next)')
<1> DEFINE out == running_programs[next]
<1>1. /\ running_programs \in Seq(Programs) /\ out \in Programs /\ next \in Nat \ {0}
      /\ life \in [Programs -> {"idle", "in", "out"}]
  BY ListTypes
<1>2. \A p \in Programs : life'[p] = IF p = out THEN "out" ELSE life[p]
  BY <1>1 DEF ExitOf
<1>3. \A q \in Programs : q > out => life[q] # "in" \/ life[out] # "in"
  BY <1>1 DEF InReverse
<1>4. InReverse(1)'
  BY <1>1, <1>2 DEF InReverse
<1>5. Nested'
  BY <1>1, <1>2, <1>3 DEF Nested, Programs
<1>6. ASSUME next' \in {next, next + 1} PROVE InReverse(next)'
  <2> SUFFICES ASSUME NEW i \in next'..Len(running_programs), NEW q \in Programs,
                      q > running_programs[i], life'[q] = "in",
                      life'[running_programs[i]] = "in"
               PROVE  \E k \in next'..(i - 1) : running_programs[k] = q
    BY DEF InReverse
  <2>1. /\ i \in next..Len(running_programs) /\ running_programs[i] \in Programs
        /\ life[q] = "in" /\ life[running_programs[i]] = "in" /\ q # out
    BY <1>1, <1>2, <1>6
  <2>2. PICK k \in next..(i - 1) : running_programs[k] = q
    BY <2>1 DEF InReverse
  <2> QED
    BY <1>1, <1>6, <2>1, <2>2
<1> QED
  BY <1>4, <1>5, <1>6

\* The next program is entered: it stands before all those that are still in.
LEMMA EnterInOrder ==
    ASSUME UnwindInv, Nested, InReverse(1), EnterProgram,
           \A p \in Programs : p >= next => life[p] # "in"
    PROVE  /\ InReverse(1)' /\ Nested'
           /\ \A p \in Programs : p >= next' => life'[p] # "in"
<1>1. /\ running_programs \in Seq(Programs) /\ next \in Programs
      /\ life \in [Programs -> {"idle", "in", "out"}] /\ next' = next + 1
  BY ListTypes DEF EnterProgram, Programs
<1>2. \A p \in Programs : life'[p] = IF p = next THEN "in" ELSE life[p]
  BY <1>1 DEF EnterProgram
<1>3. /\ Len(running_programs') = Len(running_programs) + 1
      /\ running_programs'[1] = next
      /\ \A i \in 1..Len(running_programs) : running_programs'[i + 1] = running_programs[i]
  BY <1>1 DEF EnterProgram, Inserted
<1>4. Nested'
  <2>1. \A p \in Programs : p < next => life[p] = "in"
    BY DEF UnwindInv, Progress, EnterProgram
  <2> QED
    BY <1>1, <1>2, <2>1 DEF Nested, Programs
<1>5. InReverse(1)'
  <2> SUFFICES ASSUME NEW i \in 1..(Len(running_programs) + 1), NEW q \in Programs,
                      q > running_programs'[i], life'[q] = "in",
                      life'[running_programs'[i]] = "in"
               PROVE  \E k \in 1..(i - 1) : running_programs'[k] = q
    BY <1>3 DEF InReverse
  <2>1. q <= next
    BY <1>1, <1>2 DEF Programs
  <2>2. i # 1 /\ i - 1 \in 1..Len(running_programs) /\ Len(running_programs) \in Nat
    BY <1>1, <1>3, <2>1 DEF Programs
  <2>3. CASE q = next
    BY <1>3, <2>2, <2>3
  <2>4. CASE q # next
    <3> DEFINE p == running_programs[i - 1]
    <3>1. p \in Programs /\ p = running_programs'[i] /\ p < q
      BY <1>1, <1>3, <2>2
    <3>2. life[q] = "in" /\ life[p] = "in"
      BY <1>1, <1>2, <2>1, <2>4, <3>1 DEF Programs
    <3>3. PICK k \in 1..(i - 2) : running_programs[k] = q
      BY <2>2, <3>1, <3>2 DEF InReverse
    <3>4. k + 1 \in 1..(i - 1) /\ running_programs'[k + 1] = q
      BY <1>3, <2>2, <3>3
    <3> QED
      BY <3>4
  <2> QED
    BY <2>3, <2>4
<1>6. \A p \in Programs : p >= next' => life'[p] # "in"
  BY <1>1, <1>2 DEF Programs
<1> QED
  BY <1>4, <1>5, <1>6

\* Whatever else happens leaves the list and the programs as they are.
LEMMA OrderStep ==
    UnwindInv /\ Order /\ ExitsInReverse /\ [Next]_vars => Order' /\ ExitsInReverse'
<1> SUFFICES ASSUME UnwindInv, Order, ExitsInReverse, [Next]_vars, ~cancelled'
             PROVE  /\ InReverse(1)' /\ Nested'
                    /\ pc' \in {"unwinding", "exiting"} => InReverse(next)'
                    /\ pc' \in {"outside", "body"} /\ ~running' => \A p \in Programs : life'[p] # "in"
                    /\ pc' = "entering" => \A p \in Programs : p >= next' => life'[p] # "in"
  BY DEF Order, ExitsInReverse, Nested
<1>1. ~cancelled
  BY DEF Next, Enter, InEnter, EnterProgram, EnterProgramFails, Unwind, Unwound, Entered, Exit,
     InExit, Stopped, ExitProgram, Exited, Cancel, Poll, PollWakes, PollResumes, TaskCancelled,
     pollFrame, CgroupSettles, UnwindInv, TypeOK, vars
<1>2. /\ InReverse(1) /\ Nested
      /\ pc \in {"unwinding", "exiting"} => InReverse(next)
      /\ pc \in {"outside", "body"} /\ ~running => \A p \in Programs : life[p] # "in"
      /\ pc = "entering" => \A p \in Programs : p >= next => life[p] # "in"
  BY <1>1 DEF Order, ExitsInReverse, Nested
<1>3. UNCHANGED <<running_programs, life>> =>
        InReverse(1)' /\ Nested' /\ (UNCHANGED next => InReverse(next)' = InReverse(next))
  BY <1>2 DEF InReverse, Nested
<1>4. CASE UNCHANGED <<running_programs, life, pc, next, running>>
  BY <1>2, <1>3, <1>4
<1>5. CASE Enter
  BY <1>2, <1>3, <1>5 DEF Enter, AlreadyIn
<1>6. CASE EnterProgram
  <2>1. pc = "entering" /\ UNCHANGED pc
    BY <1>6 DEF EnterProgram
  <2> QED
    BY <1>2, <1>6, <2>1, EnterInOrder
<1>7. CASE EnterProgramFails
  BY <1>2, <1>3, <1>7 DEF EnterProgramFails, InReverse
<1>8. CASE Unwind \/ ExitProgram
  <2>1. /\ next <= Len(running_programs) /\ ExitOf(running_programs[next])
        /\ UNCHANGED running_programs /\ InReverse(next)
    BY <1>2, <1>8 DEF Unwind, ExitProgram
  <2>2. InReverse(1)' /\ Nested' /\ (next' \in {next, next + 1} => InReverse(next)')
    BY <1>2, <2>1, ExitInOrder
  <2>3. CASE UNCHANGED pc /\ next' = next + 1
    BY <1>8, <2>2, <2>3 DEF Unwind, ExitProgram
  <2>4. CASE Unwind /\ Raise("unwindError")
    <3>1. running /\ (running' \/ next' = 1) /\ pc' \in {"outside", "stopping", "exiting"}
          /\ (pc' = "outside" => UNCHANGED running)
      BY <2>4, RaiseKeeps DEF Unwind, UnwindInv, Progress
    <3>2. CASE pc' = "outside"
      BY <3>1, <3>2, <2>2
    <3>3. CASE pc' \in {"stopping", "exiting"}
      <4>1. next' = 1
        BY <2>4, <3>3, RaiseKeeps DEF UnwindInv
      <4> QED
        BY <2>2, <3>3, <4>1 DEF InReverse
    <3> QED
      BY <3>1, <3>2, <3>3
  <2> QED
    BY <1>8, <2>3, <2>4 DEF Unwind, ExitProgram, NextProgram
<1>9. CASE Unwound \/ Entered
  <2>1. UNCHANGED <<running_programs, life>> /\ running
    BY <1>9 DEF Unwound, Entered, UnwindInv, Progress
  <2>2. CASE pc' \in {"outside", "body"} /\ running'
    BY <1>3, <2>1, <2>2
  <2>3. CASE pc' \in {"stopping", "exiting"} /\ next' = 1
    BY <1>3, <2>1, <2>3 DEF InReverse
  <2>4. (pc' \in {"outside", "body"} /\ running') \/ (pc' \in {"stopping", "exiting"} /\ next' = 1)
    BY <1>9, <2>1, RaiseKeeps DEF Unwound, Entered, UnwindInv
  <2> QED
    BY <2>2, <2>3, <2>4
<1>10. CASE Exit
  <2>1. UNCHANGED <<running_programs, life>> /\ pc = "body"
    BY <1>10 DEF Exit
  <2>2. CASE ~running
    BY <1>2, <1>3, <1>10, <2>1, <2>2 DEF Exit
  <2>3. CASE running
    <3>1. next' = 1 /\ pc' \in {"exiting", "stopping"}
      BY <1>10, <2>3 DEF Exit, BeginExit, AfterTaskCancel
    <3> QED
      BY <1>3, <2>1, <3>1 DEF InReverse
  <2> QED
    BY <2>2, <2>3
<1>11. CASE Stopped
  <2>1. UNCHANGED <<running_programs, life, next>> /\ next = 1 /\ pc' = "exiting"
    BY <1>11 DEF Stopped, UnwindInv, Progress
  <2> QED
    BY <1>2, <1>3, <2>1
<1>12. CASE Exited
  <2>1. UNCHANGED <<running_programs, life>> /\ pc' \in {"outside", "body"}
    BY <1>12 DEF Exited, LeaveAll
  <2>2. \A p \in Programs : life[p] # "in"
    BY <1>12, ListTypes DEF Exited, AllTried, UnwindInv, Progress, StillToExit
  <2> QED
    BY <1>3, <2>1, <2>2
<1>13. CASE Cancel
  BY <1>13 DEF Cancel
<1>14. CASE Poll \/ (\E p \in Programs : CgroupSettles(p)) \/ UNCHANGED vars
  BY <1>4, <1>14 DEF Poll, PollWakes, PollResumes, TaskCancelled, pollFrame, callerVars,
     CgroupSettles, vars
<1> QED
  BY <1>5, <1>6, <1>7, <1>8, <1>9, <1>10, <1>11, <1>12, <1>13, <1>14 DEF Next, InEnter, InExit

-----------------------------------------------------------------------------
(* Trouble *)

\* Trouble is remembered by the poll task, then by exs and taskError, until it is raised.
LEMMA TroubleStep ==
    UnwindInv /\ TroubleKept /\ NothingSilent /\ [Next]_vars => TroubleKept' /\ NothingSilent'
<1> SUFFICES ASSUME UnwindInv, TroubleKept, NothingSilent, [Next]_vars
             PROVE  TroubleKept' /\ NothingSilent'
  OBVIOUS
<1> USE DEF TroubleKept, NothingSilent
<1>1. CASE Enter
  BY <1>1 DEF Enter, AlreadyIn, pollVars
<1>2. CASE EnterProgram
  BY <1>2 DEF EnterProgram
<1>3. CASE EnterProgramFails
  BY <1>3 DEF EnterProgramFails
<1>4. CASE Unwind \/ Unwound
  BY <1>4 DEF Unwind, Unwound, UnwindInv, Progress
<1>5. CASE Entered
  BY <1>5 DEF Entered
<1>6. CASE Exit
  BY <1>6 DEF Exit, CancelTask, BeginExit, AfterTaskCancel, TaskLive
<1>7. CASE Stopped
  BY <1>7 DEF Stopped, pollVars
<1>8. CASE ExitProgram
  BY <1>8 DEF ExitProgram, Collected, pollVars
<1>9. CASE Exited
  BY <1>9 DEF Exited, LeaveAll, pollVars
<1>10. CASE Cancel
  <2>1. UNCHANGED <<task, trouble, enterFailed>> /\ outcome' = "CancelledError"
    BY <1>10, RaiseKeeps DEF Cancel, LeaveAll, pollVars, UnwindInv
  <2>2. CASE pc = "entering" /\ Raise("CancelledError")
    <3>1. ~enterFailed => ~trouble
      BY <2>2
    <3>2. pc' \in {"outside", "stopping", "exiting"} /\ (pc' \in {"stopping", "exiting"} => ~running')
      BY <2>2, RaiseKeeps DEF UnwindInv
    <3> QED
      BY <2>1, <3>1, <3>2
  <2>3. CASE pc = "unwinding"
    BY <2>1, <2>3
  <2>4. CASE pc = "exiting" /\ LeaveAll("CancelledError") /\ UNCHANGED running
    BY <2>1, <2>4 DEF LeaveAll
  <2> QED
    BY <1>10, <2>2, <2>3, <2>4 DEF Cancel
<1>11. CASE Poll
  <2>1. /\ task \in TaskLive
        /\ (\E k \in Programs \cup {1} : PollFrom(k)) \/ UNCHANGED trouble
    BY <1>11 DEF Poll, PollWakes, PollResumes, TaskCancelled, TaskLive, UnwindInv, TypeOK
  <2>2. trouble' => trouble \/ task' = "crashed"
    BY <2>1 DEF PollFrom
  <2>3. UNCHANGED <<pc, running, outcome, enterFailed, exs, taskError>>
    BY <1>11 DEF Poll, PollWakes, PollResumes, TaskCancelled, pollFrame, callerVars
  <2>4. pc = "stopping" \/ (pc = "body" /\ running)
    BY <2>1 DEF UnwindInv, PollOwned
  <2>5. task # "crashed"
    BY <2>1 DEF TaskLive
  <2> QED
    BY <2>1, <2>2, <2>3, <2>4, <2>5
<1>12. CASE (\E p \in Programs : CgroupSettles(p)) \/ UNCHANGED vars
  BY <1>12 DEF CgroupSettles, callerVars, pollVars, vars
<1> QED
  BY <1>1, <1>2, <1>3, <1>4, <1>5, <1>6, <1>7, <1>8, <1>9, <1>10, <1>11, <1>12
  DEF Next, InEnter, InExit

-----------------------------------------------------------------------------
(* Theorems *)

\* The invariant holds before the benchmarker is entered.
LEMMA BenchmarkerInit == Init => BenchmarkerInv
<1> SUFFICES ASSUME Init PROVE BenchmarkerInv
  OBVIOUS
<1>1. UnwindInv
  BY UnwindInit
<1>2. \A p \in Programs : life[p] = "idle"
  BY DEF Init
<1>3. Order /\ ExitsInReverse
  BY <1>2 DEF Init, Order, ExitsInReverse, InReverse
<1>4. TroubleKept /\ NothingSilent
  BY DEF Init, TroubleKept, NothingSilent
<1> QED
  BY <1>1, <1>3, <1>4 DEF BenchmarkerInv

\* Each step keeps the invariant.
LEMMA BenchmarkerStep == BenchmarkerInv /\ [Next]_vars => BenchmarkerInv'
  BY UnwindStep, OrderStep, TroubleStep DEF BenchmarkerInv

\* The inductive invariant holds in every reachable state.
THEOREM BenchmarkerInvHolds == Spec => []BenchmarkerInv
  BY BenchmarkerInit, BenchmarkerStep, PTL DEF Spec

\* However many programs, uses, nested blocks and cancellations: once the test is
\* out of the block every program has been exited, unless the unwinding of a
\* failed enter raised or the last call was cancelled.
THEOREM EveryProgramIsExited == Spec => []AllUnwound
<1>1. BenchmarkerInv => AllUnwound
  BY DEF BenchmarkerInv, UnwindInv
<1> QED
  BY <1>1, BenchmarkerInvHolds, PTL

\* The poll task is alive only while every program is entered.
THEOREM PollsOnlyEnteredPrograms == Spec => []PollOnlyWhileEntered
<1>1. BenchmarkerInv => PollOnlyWhileEntered
  BY DEF BenchmarkerInv, UnwindInv, PollOwned, PollOnlyWhileEntered
<1> QED
  BY <1>1, BenchmarkerInvHolds, PTL

\* Programs are exited in the reverse of the order in which they were entered, whichever of
\* them raise, in __aexit__ as in the handler of a failed enter, and whatever an earlier use
\* has left in the list (unless the test was cancelled).
THEOREM ProgramsExitInReverse == Spec => []ExitsInReverse
<1>1. BenchmarkerInv => ExitsInReverse
  BY DEF BenchmarkerInv
<1> QED
  BY <1>1, BenchmarkerInvHolds, PTL

\* A block that ends without an exception had none: no exit raised in it, and the poll task
\* did not crash (unless an enter has failed before).
THEOREM NoTroubleIsSilent == Spec => []NothingSilent
<1>1. BenchmarkerInv => NothingSilent
  BY DEF BenchmarkerInv
<1> QED
  BY <1>1, BenchmarkerInvHolds, PTL
=============================================================================
