----------------------------- MODULE OutputTests -----------------------------
(***************************************************************************)
(* The clients of one output: the watcher in the test's own process, and   *)
(* the pointer in the Robot Framework suite that the test starts.          *)
(***************************************************************************)
EXTENDS Pointer, Sequences

CONSTANTS
    Timeouts,
    MaxChanges               \* bound: sizes that a watcher has not handled

VARIABLES test, config, wpc, timeout, looks, wanted, bound, mode, done_event, calls,
          announced, queue, shown

Watcher == INSTANCE OutputWatcher
watcherVars == <<test, config, wpc, timeout, looks, wanted, bound, mode, done_event, calls,
                 announced, queue, shown>>
allVars == <<vars, watcherVars>>

\* The keywords for VNC are those of a suite that needs no watcher.
TestsInit == Init /\ Watcher!WatcherInit /\ (vnc => test = "robot")

\* test_osk starts its suite when the output has been described, the others at once.
Suite ==
    /\ test = "robot" \/ wpc = "robot"
    /\ Robot \/ Keyword \/ Dispatch
    /\ UNCHANGED watcherVars

Watch == Watcher!Step /\ UNCHANGED vars

ChangeScale(f) == Len(queue) < MaxChanges /\ Rescale(f) /\ Watcher!Scaled(f)

OutputAppears == Appear /\ Watcher!Appeared

TestsNext == Suite \/ Watch \/ (\E f \in Factors : ChangeScale(f)) \/ OutputAppears

TestsSpec == TestsInit /\ [][TestsNext]_allVars

-----------------------------------------------------------------------------
(* Properties *)

\* What a watcher knows it has been told of an output that is there, and the suite of test_osk
\* waits for it.
WatcherInv ==
    /\ test \in {"osk", "configuration", "robot"} /\ (vnc => test = "robot")
    /\ wanted \in Factors \cup {None}
    /\ bound \/ announced => present
    /\ mode = IF bound THEN Mode ELSE None
    /\ ~bound => queue = <<>> /\ calls = {} /\ ~done_event
    /\ wpc = "robot" => bound
    /\ queue \in Seq(shown) /\ calls \subseteq shown
    /\ test = "configuration" /\ present /\ wpc \notin {"passed", "failed"} => factor \in shown
    /\ wpc = "passed" /\ timeout > 0 => wanted \in calls
    /\ test = "osk" /\ wpc # "robot" => pc = "idle" /\ ~pointer
    /\ test = "osk" /\ (pointer \/ pc = "outputs") => listening

\* What the watcher tells the test is so: the mode once the output has been described
\* (test_osk.py:72), and a scale only when the output has had it
\* (test_display_configuration.py:33).  And a suite that is started after that hears of the
\* size of the output, which one that is started at once may not (virtual_pointer.py:47-51).
WatcherKnows ==
    /\ Watcher!DoneMeansMode /\ Watcher!PassMeansScaled
    /\ test = "osk" /\ pointer => listening

TestsInv == PointerInv /\ WatcherInv
=============================================================================
