----------------------------- MODULE Screencopy ------------------------------
(***************************************************************************)
(* The Robot Framework library that looks for a template on the screen     *)
(* (tests/robot/platforms/wayland/Screencopy.py), a ScreencopyTracker that *)
(* connects when the first keyword needs it.  Its keyword match takes a    *)
(* screenshot whenever another frame has been counted, and compares it,    *)
(* until the template is found or time is up.                              *)
(*                                                                         *)
(* The tracker's callbacks only run while the event loop does: when a      *)
(* keyword gives way to it.                                                *)
(***************************************************************************)
EXTENDS ScreencopyTracker

CONSTANTS
    WaitForYields,           \* asyncio.wait_for gives way to the loop even if what it
                             \* awaits does not suspend: true before Python 3.12
    TimesOut                 \* the time given to match may be too short

ASSUME ScreencopyAssumption == WaitForYields \in BOOLEAN /\ TimesOut \in BOOLEAN

VARIABLES
    keyword,                 \* where match is
    last_checked_frame_count,
    screenshot               \* the frame count it was taken with, and what it shows

matchVars == <<keyword, last_checked_frame_count, screenshot>>
vars == <<conn, draining, frame_count, frame_flags, total_damage, pending_flags,
          pending_damage, screen, ask, stage, inverted, owed, buffer, events, sent,
          keyword, last_checked_frame_count, screenshot>>

Over == {"idle", "matched", "notFound", "timeoutError"}

Init ==
    /\ TrackerInit
    /\ keyword = "idle" /\ last_checked_frame_count = 0
    /\ screenshot = [count |-> 0, picture |-> 0, whole |-> TRUE]

-----------------------------------------------------------------------------
\* match gives way to the loop while it waits for the first frame, and around
\* grab_screenshot if wait_for does.  Between two uses of match other keywords may
\* run the loop.
LoopRuns == keyword \in Over \cup {"first"} \cup
                        IF WaitForYields THEN {"grab", "compare"} ELSE {}

Match ==
    /\ keyword \in Over
    /\ keyword' = "grab" /\ last_checked_frame_count' = 0
    /\ UNCHANGED <<screenshot, trackerVars>>

\* grab_screenshot, when it is the first keyword: as long as there is no buffer the library
\* connects, so where that fails the next keyword tries it again.
Connects ==
    /\ keyword = "grab"
    /\ \/ Connect /\ keyword' = "first"
       \/ ConnectFails /\ conn' = "no" /\ keyword' = "idle"
    /\ UNCHANGED <<last_checked_frame_count, screenshot>>

\* grab_screenshot: before the first frame it gives way to the loop.
Waits ==
    /\ keyword = "grab" /\ conn = "connected" /\ frame_count = 0
    /\ keyword' = "first"
    /\ UNCHANGED <<last_checked_frame_count, screenshot, trackerVars>>

\* The count and the buffer are read without giving way to the loop.  The
\* compositor does not care: the buffer is taken as it is.
Grab ==
    /\ keyword \in {"grab", "first"} /\ conn = "connected" /\ frame_count > 0
    /\ screenshot' = [count |-> frame_count, picture |-> buffer.picture,
                      whole |-> buffer.whole]
    /\ keyword' = "compare"
    /\ UNCHANGED <<last_checked_frame_count, trackerVars>>

\* wait_for gives up on the first frame.
GiveUp ==
    /\ TimesOut /\ keyword = "first"
    /\ keyword' = "timeoutError"
    /\ UNCHANGED <<last_checked_frame_count, screenshot, trackerVars>>

\* The template shows the last picture.  It may or may not be found in a buffer
\* that is only half of it.
Found == screenshot.picture = MaxScreen
Missed == screenshot.picture # MaxScreen \/ ~screenshot.whole

\* When a screenshot is compared.  (Variant: only if its frame is the next one.)
IsNext == screenshot.count = last_checked_frame_count + 1
IsNew == screenshot.count # last_checked_frame_count

Compare ==
    /\ keyword = "compare"
    /\ \/ ~IsNew /\ keyword' = "again" /\ UNCHANGED last_checked_frame_count
       \/ /\ IsNew
          /\ last_checked_frame_count' = screenshot.count
          /\ \/ Found /\ keyword' = "matched"
             \/ Missed /\ keyword' = "again"
    /\ UNCHANGED <<screenshot, trackerVars>>

Again ==
    /\ keyword = "again"
    /\ \/ keyword' = "grab"
       \/ TimesOut /\ keyword' = "notFound"
    /\ UNCHANGED <<last_checked_frame_count, screenshot, trackerVars>>

\* _dispatch, while the loop runs; _close, once no keyword will follow.
Loop == LoopRuns /\ Dispatch /\ UNCHANGED matchVars
Closes == /\ keyword \in Over
          /\ Disconnect \/ (conn = "closing" /\ Close)
          /\ UNCHANGED matchVars
Server == Compositor /\ UNCHANGED matchVars

MatchStep == Connects \/ Waits \/ Grab \/ Compare \/ Again

Next ==
    \/ conn \in {"no", "connected"} /\ Match
    \/ MatchStep \/ GiveUp \/ Loop \/ Closes \/ Server

Spec == Init /\ [][Next]_vars

(***************************************************************************)
(* Each turn of the loop calls _dispatch (the socket is watched for being  *)
(* writable, which it always is), so a match that gives way again and      *)
(* again lets it run (strong fairness); if it never does, it does not.     *)
(* The compositor reports what it was asked for.                           *)
(***************************************************************************)
FairSpec ==
    /\ Spec
    /\ WF_vars(MatchStep) /\ SF_vars(Loop)
    /\ WF_vars(Copies /\ UNCHANGED matchVars)
    /\ WF_vars(SendDamage /\ UNCHANGED matchVars)

-----------------------------------------------------------------------------
\* What match compares under the number of a frame is that frame or a later one,
\* perhaps half of it, never an earlier one: the first screenshot waits for the
\* first frame, and the buffer is only overwritten with what is newer.
ScreenshotNotStale ==
    screenshot.count > 0 =>
        /\ screenshot.count <= Len(sent)
        /\ screenshot.picture >= sent[screenshot.count].picture

\* "Grab screenshots and compare until there's a match with the provided template"
\* (l. 46): if there is time and no frame fails, a template that is on the screen to
\* stay is found.
TimeSuffices == [](keyword \notin {"notFound", "timeoutError"})

MatchFindsTemplate ==
    NoFrameFails /\ TimeSuffices =>
        (keyword \notin Over /\ conn = "connected" /\ screen = MaxScreen
            ~> keyword = "matched")
=============================================================================
