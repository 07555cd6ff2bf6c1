------------------------- MODULE ScreencopyTracker --------------------------
(***************************************************************************)
(* A Wayland client that tracks every frame of an output                   *)
(* (wayland/screencopy_tracker.py on wayland/wayland_client.py), and the   *)
(* compositor it talks to.  The client owns one shared memory buffer and   *)
(* asks for one frame at a time; the compositor copies the screen into the *)
(* buffer and reports the frame by events: its flags, what was damaged,    *)
(* and that it is ready.  When it is, the client asks for the next frame,  *)
(* to be copied once something has changed, into the same buffer.          *)
(*                                                                         *)
(* The two run concurrently.  The client handles one event at a time, in   *)
(* the order in which they were sent.                                      *)
(***************************************************************************)
EXTENDS Naturals, Sequences

CONSTANTS
    MaxScreen,               \* bound: pictures shown, numbered from 1
    Area,                    \* buffer_width * buffer_height
    CanFail                  \* the compositor may fail a frame

ASSUME ScreenAssumption == MaxScreen \in Nat \ {0} /\ Area \in Nat \ {0}
ASSUME CanFailAssumption == CanFail \in BOOLEAN

VARIABLES
    conn,                    \* "no", "connected", "closing" (in disconnect), "closed"
    draining,                \* events the roundtrip in disconnect still waits for
    frame_count, frame_flags, total_damage, pending_flags, pending_damage

VARIABLES
    screen,                  \* the picture on the screen
    ask,                     \* the last request: to copy, or to copy with damage
    stage,                   \* how far the compositor is with it
    inverted, owed,          \* the flags and the damage it has reported for this frame
    buffer,                  \* the picture in the buffer, and if it is whole
    events,                  \* sent to the client and not yet handled
    sent                     \* history: the frames that were ready, each with its
                             \* picture, its flags and all the damage so far

clientVars == <<conn, draining, frame_count, frame_flags, total_damage,
                pending_flags, pending_damage>>
compositorVars == <<screen, ask, stage, inverted, owed, buffer, events, sent>>
trackerVars == <<conn, draining, frame_count, frame_flags, total_damage, pending_flags,
                 pending_damage, screen, ask, stage, inverted, owed, buffer, events, sent>>

Pictures == 1..MaxScreen
Events == [type : {"flags"}, invert : BOOLEAN] \cup [type : {"damage"}, size : 1..Area]
              \cup [type : {"ready", "failed"}]
Frames == [picture : Pictures, invert : BOOLEAN, damage : Nat]

TypeOK ==
    /\ conn \in {"no", "connected", "closing", "closed"}
    /\ draining \in Nat
    /\ frame_count \in Nat /\ total_damage \in Nat /\ pending_damage \in Nat
    /\ frame_flags \in BOOLEAN /\ pending_flags \in BOOLEAN
    /\ screen \in Pictures
    /\ ask \in {"none", "copy", "damage"}
    /\ stage \in {"none", "asked", "copying", "reporting", "sent", "failed"}
    /\ inverted \in BOOLEAN /\ owed \in 0..Area
    /\ buffer \in [picture : 0..MaxScreen, whole : BOOLEAN]
    /\ events \in Seq(Events)
    /\ sent \in Seq(Frames)

TrackerInit ==
    /\ conn = "no" /\ draining = 0
    /\ frame_count = 0 /\ total_damage = 0 /\ pending_damage = 0
    /\ frame_flags = FALSE /\ pending_flags = FALSE
    /\ screen = 1
    /\ ask = "none" /\ stage = "none" /\ inverted = FALSE /\ owed = 0
    /\ buffer = [picture |-> 0, whole |-> TRUE]
    /\ events = <<>> /\ sent = <<>>

-----------------------------------------------------------------------------
(* The client. *)

\* copy_frame: the previous frame is destroyed and another one asked for.
CopyFrame(is_initial) ==
    /\ ask' = IF is_initial THEN "copy" ELSE "damage"
    /\ stage' = "asked" /\ owed' = 0 /\ UNCHANGED inverted

\* (Variant: the first frame is counted when it is asked for.)
ConnectCounts ==
    /\ conn = "no"
    /\ conn' = "connected" /\ frame_count' = 1
    /\ CopyFrame(TRUE)
    /\ UNCHANGED <<draining, frame_flags, total_damage, pending_flags, pending_damage,
                   screen, buffer, events, sent>>

Connect ==
    /\ conn = "no"
    /\ conn' = "connected"
    /\ CopyFrame(TRUE)
    /\ UNCHANGED <<draining, frame_count, frame_flags, total_damage, pending_flags,
                   pending_damage, screen, buffer, events, sent>>

\* The compositor is not there, or does not support the extension.  There is no buffer then,
\* and connect may be tried again; a tracker that failed to be entered is done with.
ConnectFails ==
    /\ conn = "no"
    /\ conn' \in {"no", "closed"}
    /\ UNCHANGED <<draining, frame_count, frame_flags, total_damage, pending_flags,
                   pending_damage, compositorVars>>

\* The next event is handled: by _dispatch, or by the roundtrip in disconnect.
Handles(type) ==
    /\ conn = "connected" \/ (conn = "closing" /\ draining > 0)
    /\ events # <<>> /\ Head(events).type = type
    /\ events' = Tail(events)
    /\ draining' = IF conn = "closing" THEN draining - 1 ELSE draining
    /\ UNCHANGED <<conn, screen, buffer, sent>>

\* (Variant: the next frame is asked for as soon as this one is announced.)
FrameFlagsAsks ==
    /\ Handles("flags")
    /\ pending_flags' = Head(events).invert
    /\ IF stage = "sent" THEN CopyFrame(FALSE) ELSE UNCHANGED <<ask, stage, inverted, owed>>
    /\ UNCHANGED <<frame_count, frame_flags, total_damage, pending_damage>>

FrameFlags ==
    /\ Handles("flags")
    /\ pending_flags' = Head(events).invert
    /\ UNCHANGED <<frame_count, frame_flags, total_damage, pending_damage, ask, stage,
                   inverted, owed>>

FrameDamage ==
    /\ Handles("damage")
    /\ pending_damage' = pending_damage + Head(events).size
    /\ UNCHANGED <<frame_count, frame_flags, total_damage, pending_flags, ask, stage,
                   inverted, owed>>

\* What is left of pending_damage when a frame is ready.  (Variant: it is kept.)
KeptDamage == pending_damage
ClearedDamage == 0

\* What is asked for then.  (Variant: nothing.)
AskNothing == UNCHANGED <<ask, stage, inverted, owed>>
AskNext == CopyFrame(FALSE)

\* A frame without damage is new as a whole.
FrameReady ==
    /\ Handles("ready")
    /\ frame_count' = frame_count + 1
    /\ frame_flags' = pending_flags /\ pending_flags' = FALSE
    /\ total_damage' = total_damage + IF pending_damage > 0 THEN pending_damage ELSE Area
    /\ pending_damage' = ClearedDamage
    /\ AskNext

\* Nothing listens to this event.
FrameFailed ==
    /\ Handles("failed")
    /\ UNCHANGED <<frame_count, frame_flags, total_damage, pending_flags, pending_damage,
                   ask, stage, inverted, owed>>

\* disconnect: a roundtrip handles what was sent before it, then all is closed.
Disconnect ==
    /\ conn = "connected"
    /\ conn' = "closing" /\ draining' = Len(events)
    /\ UNCHANGED <<frame_count, frame_flags, total_damage, pending_flags, pending_damage,
                   compositorVars>>

Close ==
    /\ conn = "closing" /\ draining = 0
    /\ conn' = "closed"
    /\ ask' = "none" /\ stage' = "none" /\ owed' = 0 /\ events' = <<>>
    /\ UNCHANGED <<draining, frame_count, frame_flags, total_damage, pending_flags,
                   pending_damage, screen, inverted, buffer, sent>>

Dispatch == FrameFlags \/ FrameDamage \/ FrameReady \/ FrameFailed

-----------------------------------------------------------------------------
(* The compositor. *)

Change ==
    /\ screen < MaxScreen
    /\ screen' = screen + 1
    /\ UNCHANGED <<clientVars, ask, stage, inverted, owed, buffer, events, sent>>

BeginCopy ==
    /\ stage = "asked"
    /\ ask = "damage" => screen # buffer.picture
    /\ stage' = "copying"
    /\ buffer' = [picture |-> screen, whole |-> FALSE]
    /\ UNCHANGED <<clientVars, screen, ask, inverted, owed, events, sent>>

\* The copy is done and the frame's flags are sent.
EndCopy ==
    /\ stage = "copying"
    /\ stage' = "reporting"
    /\ buffer' = [buffer EXCEPT !.whole = TRUE]
    /\ inverted' \in BOOLEAN
    /\ events' = Append(events, [type |-> "flags", invert |-> inverted'])
    /\ UNCHANGED <<clientVars, screen, ask, owed, sent>>

SendDamage ==
    /\ stage = "reporting" /\ ask = "damage"
    /\ \E d \in 1..(Area - owed) :
          /\ owed' = owed + d
          /\ events' = Append(events, [type |-> "damage", size |-> d])
    /\ UNCHANGED <<clientVars, screen, ask, stage, inverted, buffer, sent>>

DamageSent == IF sent = <<>> THEN 0 ELSE sent[Len(sent)].damage

SendReady ==
    /\ stage = "reporting"
    /\ ask = "damage" => owed > 0
    /\ stage' = "sent"
    /\ events' = Append(events, [type |-> "ready"])
    /\ sent' = Append(sent, [picture |-> buffer.picture, invert |-> inverted,
                             damage |-> DamageSent + IF owed > 0 THEN owed ELSE Area])
    /\ UNCHANGED <<clientVars, screen, ask, inverted, owed, buffer>>

FailFrame ==
    /\ CanFail
    /\ stage \in {"asked", "copying"}
    /\ stage' = "failed"
    /\ events' = Append(events, [type |-> "failed"])
    /\ UNCHANGED <<clientVars, screen, ask, inverted, owed, buffer, sent>>

Copies == BeginCopy \/ EndCopy \/ SendReady
Compositor == Change \/ Copies \/ SendDamage \/ FailFrame

-----------------------------------------------------------------------------
TrackerNext == Connect \/ ConnectFails \/ Dispatch \/ Disconnect \/ Close \/ Compositor

TrackerSpec == TrackerInit /\ [][TrackerNext]_trackerVars

-----------------------------------------------------------------------------
\* Flags and damage are accounted to the frame they belong to, each exactly once:
\* after n frames frame_flags are those of frame n and total_damage is the damage
\* of the first n, whatever the compositor is doing by then.
AccountsEachFrame ==
    /\ frame_count <= Len(sent)
    /\ frame_count = 0 => total_damage = 0
    /\ frame_count \in DOMAIN sent => /\ frame_flags = sent[frame_count].invert
                                      /\ total_damage = sent[frame_count].damage

\* Until the client handles the ready event the buffer holds that frame, whole: the
\* client never asks for a copy into a buffer it has yet to be told of.
ReadyMeansWhole ==
    (\E i \in DOMAIN events : events[i].type = "ready")
        => buffer = [picture |-> sent[Len(sent)].picture, whole |-> TRUE]

\* What is on its way to the client belongs to one frame, and ends with it.
InTurn ==
    /\ stage \in {"none", "asked", "copying"} => events = <<>>
    /\ stage = "failed" => events \in {<<>>, <<[type |-> "failed"]>>}
    /\ stage = "reporting" => \A i \in DOMAIN events : events[i].type \in {"flags", "damage"}
    /\ stage = "sent" => events # <<>> /\ \A i \in DOMAIN events :
                           events[i].type = "ready" <=> i = Len(events)

\* A frame is announced when all before it have been counted.
Numbered ==
    /\ stage = "none" <=> conn \in {"no", "closed"}
    /\ conn = "no" => sent = <<>> /\ owed = 0
    /\ Len(sent) \in {frame_count, frame_count + 1}
    /\ conn # "closed" => (stage = "sent" <=> Len(sent) = frame_count + 1)

\* The flags of a frame come first, and are kept until it is ready.
FlagsArrive ==
    stage \in {"reporting", "sent"} =>
        /\ \A i \in DOMAIN events : events[i].type = "flags" => i = 1 /\ events[i].invert = inverted
        /\ events = <<>> \/ Head(events).type # "flags" => pending_flags = inverted

\* What the client has gathered of a frame's damage, and what is on its way to it, add up.
Size(e) == IF e.type = "damage" THEN e.size ELSE 0

DamageArrives ==
    /\ stage \in {"asked", "copying"} => owed = 0
    /\ conn # "closed" =>
         \E total \in [0..Len(events) -> 0..Area] :
            /\ total[0] = pending_damage /\ total[Len(events)] = owed
            /\ \A i \in DOMAIN events : total[i] = total[i - 1] + Size(events[i])

\* The last frame that was sent, until the client has counted it.
LastSent ==
    stage = "sent" =>
        sent[Len(sent)] = [picture |-> buffer.picture, invert |-> inverted,
                           damage |-> total_damage + IF owed > 0 THEN owed ELSE Area]

\* Only what is on the screen is copied, and it only gets newer.
NeverOlder ==
    /\ buffer.picture <= screen
    /\ stage \in {"copying", "reporting", "sent"} => buffer.picture > 0
    /\ stage \in {"reporting", "sent"} => buffer.whole
    /\ \A i \in DOMAIN sent : sent[i].picture <= buffer.picture

\* The inductive invariant: the two sides of the connection keep in turn.  The client asks
\* for a frame when it has handled all of the last one, the compositor owns the buffer until
\* it has reported the next, and nothing of a frame is lost or left on the way (l. 99-126).
TrackerInv == TypeOK /\ InTurn /\ ReadyMeansWhole /\ Numbered /\ FlagsArrive /\ DamageArrives
              /\ LastSent /\ NeverOlder /\ AccountsEachFrame

\* The picture of the last frame that was counted.
Tracked == IF frame_count = 0 THEN 0 ELSE sent[frame_count].picture

\* As long as no frame fails and the client stays connected, what is shown gets
\* counted: the chain of requests never breaks.  A frame that fails breaks it:
\* nothing listens to that event (l. 116-119), no other frame is asked for.
NoFrameFails == [](stage # "failed")

EveryChangeTracked ==
    NoFrameFails =>
        \A p \in Pictures : conn = "connected" /\ screen = p
            ~> conn # "connected" \/ Tracked >= p
=============================================================================
