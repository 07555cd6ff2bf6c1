---------------------------- MODULE OutputWatcher ----------------------------
(***************************************************************************)
(* OutputWatcher, await_call, and the tests that use them: test_osk waits  *)
(* until the output has been described and takes its assets by the mode;   *)
(* test_can_update_scale waits for any call of its mock, writes the        *)
(* configuration (DisplayServerWithDisplayConfig) and waits for a call     *)
(* with the scale it has written.  What the compositor sends is handled    *)
(* in the roundtrips of connect, and while the test sleeps or waits.       *)
(*                                                                         *)
(* External: the compositor, which has one output, in one mode, and reads  *)
(* the configuration some time after it was written.                       *)
(***************************************************************************)
EXTENDS Naturals, Sequences

CONSTANTS
    Mode, Factors,           \* of the output: its width, by what it may be scaled
    Timeouts,                \* int(5 * SLOWDOWN): how often await_call looks
    None

VARIABLES
    test,                    \* "osk", "configuration", or "robot": one without a watcher
    factor, present,         \* the output
    config,                  \* the factor that was written and not read yet
    wpc, timeout,            \* where the test is
    looks, wanted,           \* await_call: how often it has looked, for which factor (None: any)
    bound, mode, done_event, \* the watcher
    calls,                   \* of the mock: the factors on_scale was called with
    announced, queue,        \* not handled: the output itself, its factors
    shown                    \* history: the factors the output has had

on_scale == test = "configuration"     \* the watcher was given a mock
callVars == <<test, timeout, shown>>
handledVars == <<bound, mode, done_event, calls, announced, queue>>

WatcherInit ==
    /\ test \in {"osk", "configuration", "robot"}
    /\ timeout \in IF on_scale THEN Timeouts ELSE {0}
    /\ config = None /\ wpc = "connect" /\ looks = 0 /\ wanted = None
    /\ bound = FALSE /\ mode = None /\ done_event = FALSE /\ calls = {}
    /\ announced = FALSE /\ queue = <<>>
    /\ shown = IF present /\ on_scale THEN {factor} ELSE {}

-----------------------------------------------------------------------------
(* The watcher *)

\* registry_global, whose roundtrip is answered with all there is to say of the output:
\* geometry, mode, scale, name and done.  on_mode keeps the first mode.
Describe ==
    /\ bound' = TRUE /\ announced' = FALSE /\ queue' = <<>>
    /\ mode' = Mode /\ calls' = IF on_scale THEN calls \cup {factor} ELSE calls
    /\ done_event' = TRUE

Connect ==
    /\ test # "robot" /\ wpc = "connect" /\ wpc' = IF on_scale THEN "look" ELSE "wait_done"
    /\ \/ present /\ Describe
       \/ ~present /\ UNCHANGED handledVars
    /\ UNCHANGED <<config, looks, wanted, callVars>>

\* One of the events that _dispatch has read.
Dispatch ==
    /\ wpc \in {"wait_done", "asleep"}
    /\ \/ announced /\ Describe
       \/ /\ queue # <<>> /\ queue' = Tail(queue)
          /\ calls' = calls \cup {Head(queue)} /\ done_event' = TRUE
          /\ UNCHANGED <<bound, mode, announced>>
    /\ UNCHANGED <<config, wpc, looks, wanted, callVars>>

-----------------------------------------------------------------------------
(* The tests *)

Goto(place) == wpc' = place /\ UNCHANGED <<config, looks, wanted, callVars, handledVars>>

\* asyncio.wait_for(output_watcher.wait_done(), timeout=5.0)
WaitDone == wpc = "wait_done" /\ ((done_event /\ Goto("robot")) \/ Goto("failed"))

\* (Variant: without its arguments, any call will do.)
AnyCall == calls # {}
Called == IF wanted = None THEN calls # {} ELSE wanted \in calls

\* The first await_call: the test goes on to write the configuration.  The second: it is over.
Returned ==
    /\ looks' = 0
    /\ \/ /\ wanted = None /\ wanted' \in Factors /\ config' = wanted' /\ wpc' = "look"
       \/ wanted # None /\ wpc' = "passed" /\ UNCHANGED <<wanted, config>>

\* range(timeout) may be empty, and the last look raises.
Look ==
    /\ wpc = "look"
    /\ \/ (timeout = 0 \/ Called) /\ Returned
       \/ /\ timeout > 0 /\ ~Called
          /\ IF looks = timeout - 1 THEN wpc' = "failed" /\ UNCHANGED looks
                                    ELSE wpc' = "asleep" /\ looks' = looks + 1
          /\ UNCHANGED <<wanted, config>>
    /\ UNCHANGED <<callVars, handledVars>>

Wake == wpc = "asleep" /\ Goto("look")

Step == Connect \/ Dispatch \/ WaitDone \/ Look \/ Wake

-----------------------------------------------------------------------------
(* What the compositor sends.  What only the mock of a test that is over would see is left out. *)

Scaled(f) ==
    IF on_scale /\ wpc \notin {"passed", "failed"}
    THEN /\ shown' = IF present THEN shown \cup {f} ELSE shown
         /\ queue' = IF bound THEN Append(queue, f) ELSE queue
         /\ config' \in {config} \cup IF config = f THEN {None} ELSE {}
         /\ UNCHANGED <<test, wpc, timeout, looks, wanted, bound, mode, done_event, calls, announced>>
    ELSE UNCHANGED <<config, wpc, looks, wanted, callVars, handledVars>>

Appeared ==
    /\ announced' = (test # "robot" /\ wpc # "connect")
    /\ shown' = IF on_scale THEN {factor} ELSE {}
    /\ UNCHANGED <<test, config, wpc, timeout, looks, wanted, bound, mode, done_event, calls, queue>>

-----------------------------------------------------------------------------
(* Properties *)

\* The test goes on from wait_done with a mode to take its assets by (test_osk.py:72).
DoneMeansMode == wpc = "robot" => mode # None

\* await_call returns when the output has had the scale that was written, and its call was
\* made (test_display_configuration.py:33), unless there was no time to look.
PassMeansScaled == wpc = "passed" /\ timeout > 0 => wanted \in shown
=============================================================================
