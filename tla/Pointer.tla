------------------------------- MODULE Pointer -------------------------------
(***************************************************************************)
(* The pointer of the Robot Framework suites: VirtualPointer and its       *)
(* keyword library WaylandHid, and the keyword library Vnc, which walks    *)
(* the same way over another transport.  One axis: the other one may be    *)
(* longer to walk.  Positions and sizes are in pixels, output_scale in     *)
(* halves.  A keyword runs in the event loop, which handles what the       *)
(* compositor sent in the roundtrip after each request, and while a walk   *)
(* sleeps; between two keywords nothing is handled.                        *)
(*                                                                         *)
(* External: the compositor, which has one output; Robot Framework, which  *)
(* calls the keywords and makes a new library for each test.               *)
(***************************************************************************)
EXTENDS Integers

CONSTANTS
    Mode,                    \* width of the output in pixels
    Factors,                 \* that the compositor may scale it by
    Scales,                  \* that the tests may set, in halves
    Buttons,
    StepDistances,
    MaxSteps,                \* bound: steps of a walk
    None                     \* no position

ASSUME PointerAssumption ==
    /\ Mode \in Nat \ {0} /\ MaxSteps \in Nat \ {0}
    /\ Factors \subseteq 1..Mode
    /\ 2 \in Scales /\ Scales \subseteq Nat \ {0, 1}
    /\ StepDistances \subseteq Nat \ {0}
    /\ None \notin Int

VARIABLES
    factor, present,         \* the output: by what it is scaled, whether it is there yet
    vnc,                     \* which of the libraries it is
    pointer, listening,      \* connected; the size of its output is heard of
    output_width, output_scale, pointer_position,
    changed,                 \* the compositor has sent a size that is not handled
    keyword, arg, pc,        \* the keyword under way, and where it is
    step, steps, step_distance,
    sent,                    \* history: the last position sent by this library
    held,                    \* the buttons the compositor takes to be pressed
    astray,                  \* history: why sent need not be pointer_position
    rescaled                 \* history: the scale was set after the size was heard

outputVars == <<factor, present>>
connectionVars == <<pointer, listening, output_width, output_scale, changed, rescaled>>
motionVars == <<pointer_position, sent, astray>>
keywordVars == <<keyword, arg, pc, step, steps, step_distance>>
hidVars == <<vnc, connectionVars, motionVars, keywordVars, held>>
vars == <<factor, present, vnc, pointer, listening, output_width, output_scale, pointer_position,
          changed, keyword, arg, pc, step, steps, step_distance, sent, held, astray, rescaled>>

Proportions == 0..2              \* of the output, in halves
Logical(f) == Mode \div f
Cached(f) == (Logical(f) * output_scale) \div 2

Init ==
    /\ factor \in Factors /\ present \in BOOLEAN
    /\ vnc \in BOOLEAN
    /\ pointer = FALSE /\ listening = FALSE /\ output_width = 0 /\ output_scale = 2
    /\ changed = FALSE /\ rescaled = FALSE
    /\ pointer_position = None /\ sent = None /\ astray = FALSE
    /\ keyword = "none" /\ arg = 0 /\ pc = "idle" /\ step = 0 /\ steps = 0 /\ step_distance = 1
    /\ held = {}

-----------------------------------------------------------------------------
(* A keyword begins and ends *)

Finish == /\ pc' = "idle" /\ keyword' = "none" /\ arg' = 0
          /\ step' = 0 /\ steps' = 0 /\ step_distance' = 1
Goto(place) == pc' = place /\ UNCHANGED <<keyword, arg, step, steps, step_distance>>

\* An assertion fails: the caller may go on, as Run Keyword And Return Status does.
Fail == Finish /\ UNCHANGED <<pointer_position, sent>>

Arguments(k) ==
    CASE k \in {"move", "walk"} -> 0..Mode
      [] k \in {"move_proportional", "walk_proportional"} -> Proportions
      [] k \in {"press", "release", "click"} -> Buttons
      [] k = "release_all" -> {0}

Begin(k) ==
    /\ pc = "idle"
    /\ keyword' = k /\ arg' \in Arguments(k)
    /\ step_distance' \in IF k \in {"walk", "walk_proportional"} THEN StepDistances ELSE {1}
    /\ pc' = IF pointer THEN "run" ELSE "connect"
    /\ UNCHANGED <<vnc, outputVars, connectionVars, motionVars, step, steps, held>>

SetOutputScale(s) ==
    /\ pc = "idle" /\ ~vnc
    /\ output_scale' = s /\ rescaled' = (pointer /\ (rescaled \/ s # output_scale))
    /\ UNCHANGED <<vnc, outputVars, pointer, listening, output_width, changed, motionVars,
                   keywordVars, held>>

Refused ==
    /\ pc = "connect" /\ Fail
    /\ UNCHANGED <<vnc, outputVars, connectionVars, astray, held>>

\* The first roundtrip: the outputs there are.
Connect ==
    /\ pc = "connect" /\ ~vnc
    /\ listening' = present /\ Goto("outputs")
    /\ UNCHANGED <<vnc, outputVars, pointer, output_width, output_scale, changed, rescaled,
                   motionVars, held>>

\* The second: their sizes.  An output that has come in between gets a pointer, but nobody
\* listens to its size; where there is none, wl_outputs[0] fails.
Connected ==
    /\ pc = "outputs" /\ changed' = FALSE /\ rescaled' = FALSE
    /\ \/ present /\ pointer' = TRUE /\ Goto("run") /\ UNCHANGED <<pointer_position, sent>>
       \/ ~present /\ Fail /\ UNCHANGED pointer
    /\ output_width' = IF listening THEN Cached(factor) ELSE output_width
    /\ UNCHANGED <<vnc, outputVars, listening, output_scale, astray, held>>

ConnectVnc ==
    /\ pc = "connect" /\ vnc
    /\ pointer' = TRUE /\ output_width' = Mode /\ Goto("run")
    /\ UNCHANGED <<vnc, outputVars, listening, output_scale, changed, rescaled, motionVars, held>>

\* The test is over: the library is closed, and the next test has a new one.
Close ==
    /\ pc = "idle"
    /\ pointer' = FALSE /\ listening' = FALSE /\ output_width' = 0 /\ output_scale' = 2
    /\ changed' = FALSE /\ rescaled' = FALSE
    /\ pointer_position' = None /\ sent' = None /\ astray' = FALSE
    /\ held' = {} /\ UNCHANGED <<vnc, outputVars, keywordVars>>

-----------------------------------------------------------------------------
(* Requests *)

\* xdg_output_logical_size.
Heard == /\ output_width' = IF changed THEN Cached(factor) ELSE output_width
         /\ rescaled' = (rescaled /\ ~changed) /\ changed' = FALSE

\* The output may have changed before the motion is sent, and then the roundtrip handles it.
Roundtrip == Heard /\ UNCHANGED <<vnc, outputVars, pointer, listening, output_scale>>

InRange(x) == vnc \/ (output_width > 0 /\ 0 <= x /\ x <= output_width)
Send(x) == sent' = x /\ Roundtrip
MoveTo(x) == InRange(x) /\ Send(x)

OutOfRange == UNCHANGED <<vnc, outputVars, connectionVars>>

\* Not a roundtrip in the case of VNC, but nothing is changed then.
Move ==
    /\ pc = "run" /\ keyword = "move" /\ UNCHANGED held
    /\ \/ MoveTo(arg) /\ pointer_position' = arg /\ astray' = FALSE /\ Finish
       \/ ~InRange(arg) /\ Fail /\ OutOfRange /\ UNCHANGED astray

\* What is remembered is computed from the size that is known after the roundtrip.
MoveProportional ==
    /\ pc = "run" /\ keyword = "move_proportional" /\ UNCHANGED held
    /\ LET x == (arg * output_width) \div 2 IN
       \/ /\ MoveTo(x) /\ pointer_position' = (arg * output_width') \div 2
          /\ astray' = (output_width' # output_width) /\ Finish
       \/ ~InRange(x) /\ Fail /\ OutOfRange /\ UNCHANGED astray

WalkProportional ==
    /\ pc = "run" /\ keyword = "walk_proportional" /\ UNCHANGED <<motionVars, held>> /\ OutOfRange
    /\ \/ /\ output_width > 0 /\ keyword' = "walk" /\ arg' = (arg * output_width) \div 2
          /\ UNCHANGED <<pc, step, steps, step_distance>>
       \/ output_width = 0 /\ Finish

\* A library that does not know where the pointer is takes it to 0 first, and takes it to be
\* there even when that fails.
WalkFromNowhere ==
    /\ pc = "run" /\ keyword = "walk" /\ pointer_position = None
    /\ pointer_position' = 0 /\ UNCHANGED held
    /\ \/ MoveTo(0) /\ astray' = FALSE /\ Goto("run")
       \/ ~InRange(0) /\ astray' = TRUE /\ Finish /\ UNCHANGED sent /\ OutOfRange

Distance == IF arg < pointer_position THEN pointer_position - arg ELSE arg - pointer_position

\* (Variant: the last step may be longer.)
StepsDown(distance) == distance \div step_distance
Steps(distance) == (distance + step_distance - 1) \div step_distance

\* Along the other axis there may be more steps to take, or the only ones.
Walk ==
    /\ pc = "run" /\ keyword = "walk" /\ pointer_position # None
    /\ UNCHANGED <<motionVars, held>> /\ OutOfRange
    /\ \/ Distance = 0 /\ Finish
       \/ /\ steps' \in {n \in 1..MaxSteps : n >= Steps(Distance)} /\ step' = 0 /\ pc' = "walk"
          /\ UNCHANGED <<keyword, arg, step_distance>>

\* int((1 - t) * pointer_position + t * x) in floating point, for step n: on the way, a whole
\* number may come out just below itself.
WalkPosition(n) == ((steps - n) * pointer_position + n * arg) \div steps
Whole(n) == ((steps - n) * pointer_position + n * arg) % steps = 0
Rounded(n) == {WalkPosition(n)} \cup IF Whole(n) /\ n \in 1..(steps - 1) /\ WalkPosition(n) > 0
                                     THEN {WalkPosition(n) - 1} ELSE {}

\* Or just above: then a position on the edge of the output is off it.
OffTheEdge == /\ ~vnc /\ step \in 1..(steps - 1)
              /\ Whole(step) /\ WalkPosition(step) = output_width

\* The range is that of the position before it is truncated.
OnOutput(n) ==
    vnc \/ (output_width > 0 /\ (steps - n) * pointer_position + n * arg <= steps * output_width)

WalkStep ==
    /\ pc = "walk" /\ UNCHANGED held
    /\ \/ /\ OnOutput(step) /\ \E x \in Rounded(step) : Send(x)
          /\ Goto("sleep") /\ UNCHANGED <<pointer_position, astray>>
       \/ /\ ~OnOutput(step) \/ OffTheEdge
          /\ Fail /\ OutOfRange /\ astray' = (astray \/ step > 0)

\* (Variant: range(0, steps).)
LastStepMissed == step + 1 = steps
LastStep == step = steps

Sleep ==
    /\ pc = "sleep" /\ UNCHANGED <<sent, held>> /\ OutOfRange
    /\ \/ /\ LastStep /\ pointer_position' = arg /\ astray' = FALSE /\ Finish
       \/ /\ ~LastStep /\ pc' = "walk" /\ step' = step + 1
          /\ UNCHANGED <<keyword, arg, steps, step_distance, pointer_position, astray>>

\* The event loop, while the walk sleeps.
Dispatch ==
    /\ pc = "sleep" /\ changed /\ Heard
    /\ UNCHANGED <<vnc, outputVars, pointer, listening, output_scale, motionVars, keywordVars, held>>

\* click_pointer_button is a press and a release, with a roundtrip after each.
Button ==
    /\ pc = "run" /\ keyword \in {"press", "release", "click", "release_all"}
    /\ \/ keyword \in {"press", "click"} /\ held' = held \cup {arg}
       \/ keyword = "release" /\ held' = held \ {arg}
       \/ keyword = "release_all" /\ held' = {}
    /\ Roundtrip /\ UNCHANGED motionVars
    /\ \/ /\ keyword = "click" /\ keyword' = "release"
          /\ UNCHANGED <<arg, pc, step, steps, step_distance>>
       \/ keyword # "click" /\ Finish

Keyword ==
    \/ Refused \/ Connect \/ Connected \/ ConnectVnc \/ Move \/ MoveProportional
    \/ WalkProportional \/ WalkFromNowhere \/ Walk \/ WalkStep \/ Sleep \/ Button

Robot ==
    \/ \E k \in {"move", "move_proportional", "walk", "walk_proportional", "press", "release",
                 "click", "release_all"} : Begin(k)
    \/ \E s \in Scales : SetOutputScale(s)
    \/ Close

-----------------------------------------------------------------------------
(* The compositor *)

\* A size is sent to those who listen, when it is another one.
SizeSent(f) == changed' = (changed \/ (pointer /\ listening /\ Logical(f) # Logical(factor)))
SizeNotSent == UNCHANGED <<vnc, pointer, listening, output_width, output_scale, rescaled,
                           motionVars, keywordVars, held>>

Rescale(f) ==
    /\ f # factor /\ factor' = f /\ SizeSent(f) /\ SizeNotSent /\ UNCHANGED present

Appear == ~present /\ present' = TRUE /\ UNCHANGED <<factor, hidVars>>

Next ==
    \/ Robot \/ Keyword \/ Dispatch
    \/ \E f \in Factors : Rescale(f)
    \/ Appear

Spec == Init /\ [][Next]_vars

-----------------------------------------------------------------------------
(* Properties *)

TypeOK ==
    /\ factor \in Factors /\ present \in BOOLEAN /\ vnc \in BOOLEAN
    /\ pointer \in BOOLEAN /\ listening \in BOOLEAN /\ changed \in BOOLEAN
    /\ output_width \in Nat /\ output_scale \in Scales
    /\ pointer_position \in Nat \cup {None} /\ sent \in Nat \cup {None}
    /\ pc \in {"idle", "connect", "outputs", "run", "walk", "sleep"}
    /\ keyword \in {"none", "move", "move_proportional", "walk", "walk_proportional", "press",
                    "release", "click", "release_all"}
    /\ keyword \in {"move", "walk", "move_proportional", "walk_proportional"} => arg \in Nat
    /\ step \in 0..steps /\ steps \in 0..MaxSteps /\ step_distance \in Nat \ {0}
    /\ held \subseteq Buttons
    /\ astray \in BOOLEAN /\ rescaled \in BOOLEAN

\* "Whenever the logical size changes, we update the cached physical size"
\* (virtual_pointer.py:57): once what the compositor sent is handled, the size is that of
\* the output at the scale that was set.  Except where the output came while the client
\* connected, and where the scale was set after that: it applies to the next size only.
SizeFollows ==
    pointer /\ listening /\ ~changed /\ ~rescaled => output_width = Cached(factor)

\* But for a walk that is under way the library remembers the position it has sent last, so
\* the next walk starts where the last one ended (WaylandHid.py:37, :45, :68).  Except
\* (astray) after a walk that failed, on its way or going to 0 before it, and after a
\* proportional move during which the size changed.
Remembered ==
    pc \notin {"walk", "sleep"} /\ pointer_position # None /\ ~astray => sent = pointer_position

\* On its way a walk remembers where it started, and has sent its last step.
OnItsWay ==
    pc \in {"walk", "sleep"} =>
      /\ keyword = "walk" /\ pointer_position # None
      /\ steps >= Steps(Distance) /\ steps > 0
      /\ pc = "walk" /\ step = 0 => astray \/ sent = pointer_position
      /\ pc = "walk" /\ step > 0 => sent \in Rounded(step - 1)
      /\ pc = "sleep" => sent \in Rounded(step)

\* A keyword connects first, those of VNC hear of no output, and buttons are pressed.
Connection ==
    /\ pc \in {"connect", "outputs"} => ~pointer
    /\ pc \in {"run", "walk", "sleep"} => pointer
    /\ vnc => ~listening
    /\ keyword \in {"press", "release", "click"} => arg \in Buttons

PointerInv == TypeOK /\ SizeFollows /\ Remembered /\ OnItsWay /\ Connection

\* A walk moves the pointer in steps of step_distance, to within the pixel that is lost in
\* rounding (kvm.resource:131: "in incremental steps from the current pointer position"),
\* from where the last keyword left it, also while the output is rescaled.  The first step of
\* a walk is excluded, and may be a jump, where the position remembered is not the one sent
\* (astray): after a walk that failed on its way, after one that could not go to 0 first, and
\* after a proportional move during which the size changed (WaylandHid.py:42-44).  The move
\* to 0 of a library that knows no position is none of the steps.
WalkIsGradual ==
    [][ pc = "walk" /\ sent' # sent /\ (step > 0 \/ ~astray)
        => /\ sent' - sent <= step_distance + 1
           /\ sent - sent' <= step_distance + 1 ]_vars
=============================================================================
