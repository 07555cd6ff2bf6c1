-------------------------- MODULE ScreencopyProofs --------------------------
(***************************************************************************)
(* Proofs about the tracker of frames and the keyword that uses it: what   *)
(* the client has counted is what the compositor has sent, and a           *)
(* screenshot shows its frame or a later one.                              *)
(***************************************************************************)
EXTENDS Screencopy, SequenceTheorems, TLAPS

-----------------------------------------------------------------------------
(* Types *)

FlagTypes == frame_flags \in BOOLEAN /\ pending_flags \in BOOLEAN /\ inverted \in BOOLEAN
BufferType == buffer \in [picture : 0..MaxScreen, whole : BOOLEAN]
QueueTypes == events \in Seq(Events) /\ sent \in Seq(Frames)
PlainTypes ==
    /\ conn \in {"no", "connected", "closing", "closed"}
    /\ draining \in Nat
    /\ frame_count \in Nat /\ total_damage \in Nat /\ pending_damage \in Nat
    /\ screen \in Pictures
    /\ ask \in {"none", "copy", "damage"}
    /\ stage \in {"none", "asked", "copying", "reporting", "sent", "failed"}
    /\ owed \in 0..Area

\* TypeOK in four parts, which different provers handle.
LEMMA TypeParts == TypeOK <=> FlagTypes /\ BufferType /\ QueueTypes /\ PlainTypes
  BY DEF TypeOK, FlagTypes, BufferType, QueueTypes, PlainTypes

\* What stays when a group of variables does.
LEMMA Unchanged ==
    /\ UNCHANGED clientVars <=>
         /\ conn' = conn /\ draining' = draining /\ frame_count' = frame_count
         /\ frame_flags' = frame_flags /\ total_damage' = total_damage
         /\ pending_flags' = pending_flags /\ pending_damage' = pending_damage
    /\ UNCHANGED compositorVars <=>
         /\ screen' = screen /\ ask' = ask /\ stage' = stage /\ inverted' = inverted
         /\ owed' = owed /\ buffer' = buffer /\ events' = events /\ sent' = sent
    /\ UNCHANGED trackerVars <=> UNCHANGED clientVars /\ UNCHANGED compositorVars
  BY DEF clientVars, compositorVars, trackerVars

\* The types hold at first.
LEMMA TypeInit == TrackerInit => TypeOK
<1> SUFFICES ASSUME TrackerInit PROVE TypeOK
  OBVIOUS
<1>1. QueueTypes
  BY DEF TrackerInit, QueueTypes
<1>2. FlagTypes
  BY DEF TrackerInit, FlagTypes
<1>3. BufferType /\ PlainTypes
  BY ScreenAssumption DEF TrackerInit, BufferType, PlainTypes, Pictures
<1> QED
  BY <1>1, <1>2, <1>3, TypeParts

\* What it is to handle the event at the head of the queue.
LEMMA Handled ==
    ASSUME TypeOK, NEW type, Handles(type)
    PROVE  /\ events # <<>> /\ Head(events) \in Events /\ Head(events).type = type
           /\ events' = Tail(events) /\ events' \in Seq(Events) /\ draining' \in Nat
           /\ Len(events) \in Nat \ {0} /\ Len(events') = Len(events) - 1
           /\ Head(events) = events[1] /\ \A i \in 1..Len(events') : events'[i] = events[i + 1]
           /\ UNCHANGED <<conn, screen, buffer, sent>>
  BY DEF TypeOK, Handles

\* What an event carries.
LEMMA EventParts ==
    ASSUME NEW e \in Events
    PROVE  /\ e.type \in {"flags", "damage", "ready", "failed"}
           /\ e.type = "flags" => e.invert \in BOOLEAN
           /\ e.type = "damage" => e.size \in 1..Area
  BY DEF Events

\* What a frame was damaged by is a number of pixels.
LEMMA DamageSentType == TypeOK => DamageSent \in Nat
<1> SUFFICES ASSUME TypeOK PROVE DamageSent \in Nat
  OBVIOUS
<1>1. CASE sent = <<>>
  BY <1>1 DEF DamageSent
<1>2. CASE sent # <<>>
  <2>1. sent[Len(sent)] \in Frames
    BY <1>2 DEF TypeOK
  <2> QED
    BY <1>2, <2>1 DEF DamageSent, Frames
<1> QED
  BY <1>1, <1>2

\* Where the flags of a frame come from.
LEMMA FlagsStep == TypeOK /\ [TrackerNext]_trackerVars => FlagTypes'
<1> SUFFICES ASSUME TypeOK, [TrackerNext]_trackerVars PROVE FlagTypes'
  OBVIOUS
<1>1. FlagTypes
  BY TypeParts
<1>2. CASE Connect \/ ConnectFails \/ Disconnect \/ Close \/ UNCHANGED trackerVars
  BY <1>1, <1>2, Unchanged
     DEF FlagTypes, Connect, ConnectFails, Disconnect, Close, CopyFrame
<1>3. CASE FrameFlags
  <2>1. Head(events) \in Events /\ Head(events).type = "flags"
    BY <1>3, Handled DEF FrameFlags
  <2>2. Head(events).invert \in BOOLEAN
    BY <2>1, EventParts
  <2> QED
    BY <1>1, <1>3, <2>2 DEF FlagTypes, FrameFlags
<1>4. CASE FrameDamage \/ FrameReady \/ FrameFailed
  BY <1>1, <1>4 DEF FlagTypes, FrameDamage, FrameReady, FrameFailed, AskNext, CopyFrame
<1>5. CASE Compositor
  BY <1>1, <1>5, Unchanged DEF FlagTypes, Compositor, Copies, Change, BeginCopy, EndCopy, SendDamage,
     SendReady, FailFrame
<1> QED
  BY <1>2, <1>3, <1>4, <1>5 DEF TrackerNext, Dispatch

\* Each step keeps the types.
LEMMA TypeStep == TypeOK /\ NeverOlder /\ [TrackerNext]_trackerVars => TypeOK'
<1> SUFFICES ASSUME TypeOK, NeverOlder, [TrackerNext]_trackerVars PROVE TypeOK'
  OBVIOUS
<1>0. Area \in Nat \ {0} /\ MaxScreen \in Nat \ {0}
  BY ScreenAssumption
<1>1. FlagTypes'
  BY FlagsStep
<1>2. BufferType'
  <2>1. BufferType /\ screen \in 1..MaxScreen
    BY TypeParts DEF PlainTypes, Pictures
  <2>2. CASE UNCHANGED buffer
    BY <2>1, <2>2 DEF BufferType
  <2>3. CASE BeginCopy
    BY <2>1, <2>3 DEF BufferType, BeginCopy
  <2>4. CASE EndCopy
    BY <2>1, <2>4 DEF BufferType, EndCopy
  <2> QED
    BY <2>2, <2>3, <2>4, Unchanged
       DEF TrackerNext, Dispatch, Compositor, Copies, Connect, ConnectFails, Disconnect, Close,
           FrameFlags, FrameDamage, FrameReady, FrameFailed, Handles, Change, SendDamage,
           SendReady, FailFrame
<1>3. QueueTypes'
  <2>1. QueueTypes
    BY TypeParts
  <2>2. CASE Connect \/ ConnectFails \/ Disconnect \/ Close \/ Change \/ BeginCopy
             \/ UNCHANGED trackerVars
    <3>1. UNCHANGED sent /\ (UNCHANGED events \/ events' = <<>>)
      BY <2>2, Unchanged
         DEF Connect, ConnectFails, Disconnect, Close, Change, BeginCopy
    <3>2. sent' \in Seq(Frames)
      BY <2>1, <3>1 DEF QueueTypes
    <3>3. events' \in Seq(Events)
      <4>1. <<>> \in Seq(Events)
        OBVIOUS
      <4> QED
        BY <2>1, <3>1, <4>1 DEF QueueTypes
    <3> QED
      BY <3>2, <3>3 DEF QueueTypes
  <2>3. CASE Dispatch
    BY <2>1, <2>3, Handled
       DEF QueueTypes, Dispatch, FrameFlags, FrameDamage, FrameReady, FrameFailed
  <2>4. ASSUME NEW e \in Events, events' = Append(events, e)
        PROVE  events' \in Seq(Events)
    BY <2>1, <2>4 DEF QueueTypes
  <2>5. CASE EndCopy
    <3>1. [type |-> "flags", invert |-> inverted'] \in Events
      BY <2>5 DEF EndCopy, Events
    <3> QED
      BY <2>1, <2>4, <2>5, <3>1 DEF EndCopy, QueueTypes
  <2>6. CASE SendDamage
    <3>1. PICK d \in 1..(Area - owed) : events' = Append(events, [type |-> "damage", size |-> d])
      BY <2>6 DEF SendDamage
    <3>2. [type |-> "damage", size |-> d] \in Events
      BY <1>0, TypeParts DEF PlainTypes, Events
    <3> QED
      BY <2>1, <2>4, <2>6, <3>1, <3>2 DEF SendDamage, QueueTypes
  <2>7. CASE SendReady
    <3>1. DamageSent + (IF owed > 0 THEN owed ELSE Area) \in Nat
      BY <1>0, TypeParts, DamageSentType DEF PlainTypes
    <3>2. buffer.picture \in Pictures
      BY <1>0, <2>7, TypeParts DEF SendReady, BufferType, NeverOlder, Pictures
    <3>3. inverted \in BOOLEAN
      BY TypeParts DEF FlagTypes
    <3>4. [picture |-> buffer.picture, invert |-> inverted,
           damage |-> DamageSent + IF owed > 0 THEN owed ELSE Area] \in Frames
      BY <3>1, <3>2, <3>3 DEF Frames
    <3>5. sent' \in Seq(Frames)
      BY <2>1, <2>7, <3>4 DEF SendReady, QueueTypes
    <3>6. [type |-> "ready"] \in Events
      BY DEF Events
    <3> QED
      BY <2>4, <2>7, <3>5, <3>6 DEF SendReady, QueueTypes
  <2>8. CASE FailFrame
    <3>1. [type |-> "failed"] \in Events
      BY DEF Events
    <3> QED
      BY <2>1, <2>4, <2>8, <3>1 DEF FailFrame, QueueTypes
  <2> QED
    BY <2>2, <2>3, <2>5, <2>6, <2>7, <2>8 DEF TrackerNext, Compositor, Copies
<1>4. PlainTypes'
  <2>1. PlainTypes /\ Len(events) \in Nat
    BY TypeParts DEF QueueTypes
  <2>2. CASE Connect \/ ConnectFails \/ Disconnect \/ Close \/ UNCHANGED trackerVars
    BY <1>0, <2>1, <2>2, Unchanged
       DEF PlainTypes, Connect, ConnectFails, Disconnect, Close, CopyFrame
  <2>3. CASE FrameFlags \/ FrameFailed
    BY <2>1, <2>3, Handled DEF PlainTypes, FrameFlags, FrameFailed
  <2>4. CASE FrameDamage
    <3>1. Head(events).size \in 1..Area
      BY <2>4, Handled, EventParts DEF FrameDamage
    <3> QED
      BY <1>0, <2>1, <2>4, <3>1, Handled DEF PlainTypes, FrameDamage
  <2>5. CASE FrameReady
    BY <1>0, <2>1, <2>5, Handled DEF PlainTypes, FrameReady, ClearedDamage, AskNext, CopyFrame
  <2>6. CASE Compositor
    <3>1. UNCHANGED clientVars /\ UNCHANGED ask
      BY <2>6, Unchanged DEF Compositor, Copies, Change, BeginCopy, EndCopy, SendDamage, SendReady,
         FailFrame
    <3>2. screen' \in Pictures
      BY <1>0, <2>1, <2>6 DEF PlainTypes, Compositor, Copies, Change, BeginCopy, EndCopy,
         SendDamage, SendReady, FailFrame, Pictures
    <3>3. stage' \in {"none", "asked", "copying", "reporting", "sent", "failed"}
      BY <2>1, <2>6 DEF PlainTypes, Compositor, Copies, Change, BeginCopy, EndCopy, SendDamage,
         SendReady, FailFrame
    <3>4. owed' \in 0..Area
      <4>1. CASE SendDamage
        BY <1>0, <2>1, <4>1 DEF PlainTypes, SendDamage
      <4>2. CASE UNCHANGED owed
        BY <2>1, <4>2 DEF PlainTypes
      <4> QED
        BY <2>6, <4>1, <4>2 DEF Compositor, Copies, Change, BeginCopy, EndCopy, SendReady, FailFrame
    <3> QED
      BY <2>1, <3>1, <3>2, <3>3, <3>4, Unchanged DEF PlainTypes
  <2> QED
    BY <2>2, <2>3, <2>4, <2>5, <2>6 DEF TrackerNext, Dispatch
<1> QED
  BY <1>1, <1>2, <1>3, <1>4 DEF TypeOK, FlagTypes, BufferType, QueueTypes, PlainTypes

-----------------------------------------------------------------------------
(* The steps of the two sides *)

\* The client handles an event that does not end a frame.
Gathers ==
    /\ \E type \in {"flags", "damage", "failed"} : Handles(type)
    /\ UNCHANGED <<frame_count, frame_flags, total_damage, ask, stage, inverted, owed>>

\* An event is gathered, or it completes its frame.
LEMMA GathersOrReady == Dispatch => Gathers \/ FrameReady
  BY DEF Dispatch, FrameFlags, FrameDamage, FrameFailed, Gathers

\* The event that ends a frame is the last one on its way.
LEMMA ReadyLast ==
    ASSUME TypeOK, InTurn, FrameReady
    PROVE  /\ stage = "sent" /\ Len(events) = 1 /\ events[1].type = "ready" /\ events' = <<>>
           /\ stage' = "asked" /\ owed' = 0 /\ pending_damage' = 0
           /\ UNCHANGED <<conn, screen, buffer, sent, inverted>>
<1>1. /\ events # <<>> /\ events[1].type = "ready" /\ Len(events) \in Nat \ {0}
      /\ events' = Tail(events) /\ UNCHANGED <<conn, screen, buffer, sent>>
      /\ events' \in Seq(Events) /\ Len(events') = Len(events) - 1
  BY Handled DEF FrameReady
<1>2. 1 \in DOMAIN events
  BY <1>1 DEF TypeOK
<1>3. stage = "sent"
  BY <1>1, <1>2, TypeParts DEF InTurn, PlainTypes
<1>4. Len(events) = 1
  BY <1>1, <1>2, <1>3 DEF InTurn
<1>5. events' = <<>>
  BY <1>1, <1>4, EmptySeq
<1> QED
  BY <1>1, <1>3, <1>4, <1>5 DEF FrameReady, AskNext, CopyFrame, ClearedDamage

\* What is so when an event of a frame is gathered.
LEMMA GathersBefore ==
    ASSUME TypeOK, InTurn, Gathers
    PROVE  /\ stage \in {"reporting", "sent", "failed"} /\ (stage = "sent" => events' # <<>>)
           /\ events[1] \in Events /\ events[1].type \in {"flags", "damage", "failed"}
           /\ events # <<>> /\ Len(events) \in Nat \ {0} /\ Len(events') = Len(events) - 1
           /\ \A i \in DOMAIN events' : events'[i] = events[i + 1] /\ i + 1 \in DOMAIN events
           /\ 1 \in DOMAIN events /\ DOMAIN events = 1..Len(events)
           /\ DOMAIN events' = 1..Len(events') /\ events' \in Seq(Events)
           /\ UNCHANGED <<conn, screen, buffer, sent, frame_count, frame_flags, total_damage, ask,
                          stage, inverted, owed>>
<1>1. PICK type \in {"flags", "damage", "failed"} : Handles(type)
  BY DEF Gathers
<1>2. /\ events # <<>> /\ Head(events) \in Events /\ Head(events).type = type
      /\ events' = Tail(events) /\ events' \in Seq(Events)
      /\ Len(events) \in Nat \ {0} /\ Len(events') = Len(events) - 1
      /\ Head(events) = events[1] /\ \A i \in 1..Len(events') : events'[i] = events[i + 1]
      /\ UNCHANGED <<conn, screen, buffer, sent>>
  BY <1>1, Handled
<1>3. DOMAIN events = 1..Len(events) /\ DOMAIN events' = 1..Len(events')
  BY <1>2 DEF TypeOK
<1>4. stage \in {"reporting", "sent", "failed"}
  BY <1>2, TypeParts DEF InTurn, PlainTypes
<1>5. ASSUME stage = "sent" PROVE events' # <<>>
  <2>1. Len(events) # 1
    BY <1>1, <1>2, <1>3, <1>5 DEF InTurn
  <2>2. Len(events') # 0 /\ Len(<<>>) = 0
    BY <1>2, <2>1
  <2> QED
    BY <2>2
<1> QED
  BY <1>1, <1>2, <1>3, <1>4, <1>5 DEF Gathers

\* Each step keeps what is on its way to one frame at a time.
LEMMA InTurnStep == TypeOK /\ InTurn /\ Numbered /\ [TrackerNext]_trackerVars => InTurn'
<1> SUFFICES ASSUME TypeOK, InTurn, Numbered, [TrackerNext]_trackerVars PROVE InTurn'
  OBVIOUS
<1>1. DOMAIN events = 1..Len(events) /\ Len(events) \in Nat /\ events \in Seq(Events)
  BY DEF TypeOK
<1>2. CASE UNCHANGED <<stage, events>>
  BY <1>2 DEF InTurn
<1>3. CASE Connect
  BY <1>3 DEF Connect, CopyFrame, Numbered, InTurn
<1>4. CASE Gathers
  BY <1>4, GathersBefore DEF InTurn
<1>5. CASE FrameReady
  BY <1>5, ReadyLast DEF InTurn
<1>6. CASE Close
  BY <1>6 DEF Close, InTurn
<1>7. CASE BeginCopy
  BY <1>7 DEF BeginCopy, InTurn
<1>8. ASSUME NEW e, events' = Append(events, e)
      PROVE  /\ DOMAIN events' = 1..Len(events') /\ Len(events') = Len(events) + 1
             /\ events'[Len(events')] = e /\ \A i \in 1..Len(events) : events'[i] = events[i]
  BY <1>1, <1>8
<1>9. CASE EndCopy
  <2>1. events' = Append(events, [type |-> "flags", invert |-> inverted']) /\ events = <<>>
    BY <1>9 DEF EndCopy, InTurn
  <2> QED
    BY <1>1, <1>8, <1>9, <2>1 DEF EndCopy, InTurn
<1>10. CASE SendDamage
  <2>1. PICK d : events' = Append(events, [type |-> "damage", size |-> d])
    BY <1>10 DEF SendDamage
  <2> QED
    BY <1>1, <1>8, <1>10, <2>1 DEF SendDamage, InTurn
<1>11. CASE SendReady
  <2>1. events' = Append(events, [type |-> "ready"])
    BY <1>11 DEF SendReady
  <2>2. /\ DOMAIN events' = 1..Len(events') /\ Len(events') = Len(events) + 1
        /\ events'[Len(events')] = [type |-> "ready"]
        /\ \A i \in 1..Len(events) : events'[i] = events[i]
    BY <1>8, <2>1
  <2>3. stage = "reporting" /\ stage' = "sent"
    BY <1>11 DEF SendReady
  <2>4. \A i \in 1..Len(events) : events[i].type \in {"flags", "damage"}
    BY <1>1, <2>3 DEF InTurn
  <2> QED
    BY <1>1, <2>2, <2>3, <2>4 DEF InTurn
<1>12. CASE FailFrame
  <2>1. events = <<>> /\ events' = Append(events, [type |-> "failed"]) /\ stage' = "failed"
    BY <1>12 DEF FailFrame, InTurn
  <2>2. events' = <<[type |-> "failed"]>>
    BY <2>1
  <2> QED
    BY <2>1, <2>2 DEF InTurn
<1> QED
  BY <1>2, <1>3, <1>4, <1>5, <1>6, <1>7, <1>9, <1>10, <1>11, <1>12, GathersOrReady, Unchanged
     DEF TrackerNext, Compositor, Copies, ConnectFails, Disconnect, Change
\* Each step keeps the frames counted before the next one is announced.
LEMMA NumberedStep == TypeOK /\ InTurn /\ Numbered /\ [TrackerNext]_trackerVars => Numbered'
<1> SUFFICES ASSUME TypeOK, InTurn, Numbered, [TrackerNext]_trackerVars PROVE Numbered'
  OBVIOUS
<1>1. /\ frame_count \in Nat /\ Len(sent) \in Nat
      /\ stage \in {"none", "asked", "copying", "reporting", "sent", "failed"}
      /\ conn \in {"no", "connected", "closing", "closed"}
  BY DEF TypeOK
<1>2. CASE UNCHANGED <<stage, conn, sent, owed, frame_count>>
  BY <1>2 DEF Numbered
<1>3. CASE Connect \/ ConnectFails \/ Disconnect \/ Close
  BY <1>1, <1>3, Unchanged DEF Connect, ConnectFails, Disconnect, Close, CopyFrame, Numbered
<1>4. CASE Gathers
  BY <1>2, <1>4, GathersBefore
<1>5. CASE FrameReady
  <2>1. stage = "sent" /\ stage' = "asked" /\ UNCHANGED <<conn, sent>>
    BY <1>5, ReadyLast
  <2>2. frame_count' = frame_count + 1
    BY <1>5 DEF FrameReady
  <2> QED
    BY <1>1, <2>1, <2>2 DEF Numbered
<1>6. CASE BeginCopy \/ EndCopy \/ SendDamage \/ FailFrame
  <2>1. /\ UNCHANGED <<conn, sent, frame_count>> /\ stage # "none" /\ stage # "sent"
        /\ stage' # "none" /\ stage' # "sent"
    BY <1>6, Unchanged DEF BeginCopy, EndCopy, SendDamage, FailFrame
  <2> QED
    BY <1>1, <2>1 DEF Numbered
<1>7. CASE SendReady
  <2>1. /\ UNCHANGED <<conn, frame_count>> /\ stage = "reporting" /\ stage' = "sent"
        /\ Len(sent') = Len(sent) + 1
    BY <1>7, Unchanged DEF SendReady, TypeOK
  <2> QED
    BY <1>1, <2>1 DEF Numbered
<1> QED
  BY <1>2, <1>3, <1>4, <1>5, <1>6, <1>7, GathersOrReady, Unchanged
     DEF TrackerNext, Compositor, Copies, Change

\* Each step keeps the flags of the frame on their way.
LEMMA FlagsArriveStep ==
    TypeOK /\ InTurn /\ FlagsArrive /\ [TrackerNext]_trackerVars => FlagsArrive'
<1> SUFFICES ASSUME TypeOK, InTurn, FlagsArrive, [TrackerNext]_trackerVars,
                    stage' \in {"reporting", "sent"}
             PROVE  /\ \A i \in DOMAIN events' : events'[i].type = "flags"
                                                => i = 1 /\ events'[i].invert = inverted'
                    /\ events' = <<>> \/ Head(events').type # "flags"
                         => pending_flags' = inverted'
  BY DEF FlagsArrive
<1>1. DOMAIN events = 1..Len(events) /\ Len(events) \in Nat /\ events \in Seq(Events)
  BY DEF TypeOK
<1>2. CASE UNCHANGED <<stage, events, inverted, pending_flags>>
  BY <1>2 DEF FlagsArrive
<1>3. CASE Connect \/ ConnectFails \/ Disconnect \/ Close \/ BeginCopy \/ FailFrame
           \/ FrameReady
  BY <1>2, <1>3, ReadyLast, Unchanged
     DEF Connect, ConnectFails, Disconnect, Close, CopyFrame, BeginCopy, FailFrame
<1>4. CASE Gathers /\ Dispatch
  <2>1. \A i \in DOMAIN events' : events'[i].type # "flags"
    BY <1>4, GathersBefore DEF FlagsArrive
  <2>2. Handles("flags") => pending_flags' = events[1].invert
    BY <1>4, Handled DEF Dispatch, FrameFlags, FrameDamage, FrameReady, FrameFailed, Handles
  <2>3. pending_flags' = inverted'
    <3>1. CASE Handles("flags")
      BY <1>1, <1>4, <2>2, <3>1, GathersBefore, Handled DEF FlagsArrive
    <3>2. CASE ~Handles("flags")
      <4>1. events[1].type # "flags" /\ pending_flags' = pending_flags
        BY <1>4, <3>2, Handled, ReadyLast, GathersBefore
           DEF Dispatch, FrameFlags, FrameDamage, FrameReady, FrameFailed
      <4> QED
        BY <1>1, <1>4, <4>1, GathersBefore DEF FlagsArrive
    <3> QED
      BY <3>1, <3>2
  <2> QED
    BY <2>1, <2>3
<1>5. ASSUME NEW e, events' = Append(events, e)
      PROVE  /\ DOMAIN events' = 1..Len(events') /\ Len(events') = Len(events) + 1
             /\ events'[Len(events')] = e /\ \A i \in 1..Len(events) : events'[i] = events[i]
             /\ events' # <<>> /\ Head(events') = events'[1]
  BY <1>1, <1>5
<1>6. CASE EndCopy
  <2>1. events' = Append(events, [type |-> "flags", invert |-> inverted']) /\ events = <<>>
    BY <1>6 DEF EndCopy, InTurn
  <2> QED
    BY <1>1, <1>5, <2>1
<1>7. ASSUME NEW e, events' = Append(events, e), e.type # "flags", stage = "reporting",
             UNCHANGED <<inverted, pending_flags>>
      PROVE  /\ \A i \in DOMAIN events' : events'[i].type = "flags"
                                         => i = 1 /\ events'[i].invert = inverted'
             /\ events' = <<>> \/ Head(events').type # "flags" => pending_flags' = inverted'
  <2>1. CASE events = <<>>
    BY <1>1, <1>5, <1>7, <2>1 DEF FlagsArrive
  <2>2. CASE events # <<>>
    BY <1>1, <1>5, <1>7, <2>2 DEF FlagsArrive
  <2> QED
    BY <2>1, <2>2
<1>8. CASE SendDamage
  <2>1. PICK d : events' = Append(events, [type |-> "damage", size |-> d])
    BY <1>8 DEF SendDamage
  <2> QED
    BY <1>7, <1>8, <2>1, Unchanged DEF SendDamage
<1>9. CASE SendReady
  BY <1>7, <1>9, Unchanged DEF SendReady
<1> QED
  BY <1>2, <1>3, <1>4, <1>6, <1>8, <1>9, GathersOrReady, Unchanged
     DEF TrackerNext, Compositor, Copies, Change
\* The partial sums of the damage on its way, kept as the queue grows and shrinks.
Sums(total, gathered, queue, all) ==
    /\ total \in [0..Len(queue) -> 0..Area]
    /\ total[0] = gathered /\ total[Len(queue)] = all
    /\ \A i \in DOMAIN queue : total[i] = total[i - 1] + Size(queue[i])

\* While it is connected there are the sums of the damage on its way.
LEMMA SumsOf ==
    DamageArrives /\ conn # "closed" => \E total : Sums(total, pending_damage, events, owed)
  BY DEF DamageArrives, Sums

\* Of no events the sum is nothing.
LEMMA SumsEmpty ==
    \E total : Sums(total, 0, <<>>, 0)
<1> DEFINE total == [i \in 0..0 |-> 0]
<1>1. Len(<<>>) = 0 /\ DOMAIN <<>> = {} /\ Area \in Nat
  BY ScreenAssumption
<1>2. Sums(total, 0, <<>>, 0)
  BY <1>1 DEF Sums
<1> QED
  BY <1>2

\* An event that is sent adds its size to the sum.
LEMMA SumsAppend ==
    ASSUME NEW total, NEW gathered, NEW queue \in Seq(Events), NEW all, NEW e \in Events,
           Sums(total, gathered, queue, all), all + Size(e) \in 0..Area
    PROVE  \E sum : Sums(sum, gathered, Append(queue, e), all + Size(e))
<1> DEFINE n == Len(queue)
           longer == Append(queue, e)
           sum == [i \in 0..(n + 1) |-> IF i <= n THEN total[i] ELSE all + Size(e)]
<1>1. /\ n \in Nat /\ DOMAIN queue = 1..n /\ Len(longer) = n + 1 /\ DOMAIN longer = 1..(n + 1)
      /\ longer[n + 1] = e /\ \A i \in 1..n : longer[i] = queue[i]
  OBVIOUS
<1>2. sum \in [0..(n + 1) -> 0..Area] /\ sum[0] = gathered /\ sum[n + 1] = all + Size(e)
  BY <1>1 DEF Sums
<1>3. ASSUME NEW i \in 1..(n + 1) PROVE sum[i] = sum[i - 1] + Size(longer[i])
  <2>1. CASE i = n + 1
    BY <1>1, <2>1 DEF Sums
  <2>2. CASE i \in 1..n
    <3>1. total[i] = total[i - 1] + Size(queue[i])
      BY <1>1, <2>2 DEF Sums
    <3>2. sum[i] = total[i] /\ sum[i - 1] = total[i - 1] /\ longer[i] = queue[i]
      BY <1>1, <2>2
    <3> QED
      BY <3>1, <3>2
  <2> QED
    BY <1>1, <2>1, <2>2
<1>4. Sums(sum, gathered, longer, all + Size(e))
  BY <1>1, <1>2, <1>3 DEF Sums
<1> QED
  BY <1>4

\* An event that is handled takes its size from the queue to what was gathered.
LEMMA SumsTail ==
    ASSUME NEW total, NEW gathered, NEW queue \in Seq(Events), NEW all, queue # <<>>,
           Sums(total, gathered, queue, all)
    PROVE  \E sum : Sums(sum, gathered + Size(queue[1]), Tail(queue), all)
<1> DEFINE n == Len(queue)
           shorter == Tail(queue)
           sum == [i \in 0..(n - 1) |-> total[i + 1]]
<1>1. /\ n \in Nat \ {0} /\ DOMAIN queue = 1..n /\ Len(shorter) = n - 1
      /\ DOMAIN shorter = 1..(n - 1) /\ \A i \in 1..(n - 1) : shorter[i] = queue[i + 1]
  OBVIOUS
<1>2. sum \in [0..(n - 1) -> 0..Area]
  BY <1>1 DEF Sums
<1>3. total[1] = total[0] + Size(queue[1])
  BY <1>1 DEF Sums
<1>4. sum[0] = gathered + Size(queue[1]) /\ sum[n - 1] = all
  BY <1>1, <1>3 DEF Sums
<1>5. ASSUME NEW i \in 1..(n - 1) PROVE sum[i] = sum[i - 1] + Size(shorter[i])
  <2>1. i + 1 \in 1..n /\ i \in 0..(n - 1) /\ i - 1 \in 0..(n - 1) /\ (i + 1) - 1 = i
        /\ (i - 1) + 1 = i
    BY <1>1
  <2>2. total[i + 1] = total[i] + Size(queue[i + 1])
    BY <1>1, <2>1 DEF Sums
  <2> QED
    BY <1>1, <2>1, <2>2
<1>6. Sums(sum, gathered + Size(queue[1]), shorter, all)
  BY <1>1, <1>2, <1>4, <1>5 DEF Sums
<1> QED
  BY <1>6

\* Each step keeps the damage of the frame on its way.
LEMMA DamageArrivesStep ==
    TypeOK /\ InTurn /\ Numbered /\ DamageArrives /\ [TrackerNext]_trackerVars => DamageArrives'
<1> SUFFICES ASSUME TypeOK, InTurn, Numbered, DamageArrives, [TrackerNext]_trackerVars
             PROVE  /\ stage' \in {"asked", "copying"} => owed' = 0
                    /\ conn' # "closed" => \E total : Sums(total, pending_damage', events', owed')
  BY DEF DamageArrives, Sums
<1>1. events \in Seq(Events) /\ owed \in 0..Area /\ Area \in Nat
  BY TypeParts, ScreenAssumption DEF QueueTypes, PlainTypes
<1>2. CASE UNCHANGED <<stage, owed, conn, pending_damage, events>>
  BY <1>2, SumsOf DEF DamageArrives
<1>3. CASE Connect
  <2>1. conn = "no" /\ stage = "none" /\ owed = 0 /\ owed' = 0
    BY <1>3 DEF Connect, CopyFrame, Numbered
  <2> QED
    BY <1>3, <2>1, SumsOf DEF Connect
<1>4. CASE ConnectFails \/ Disconnect \/ Close
  BY <1>4, SumsOf, Unchanged DEF ConnectFails, Disconnect, Close, DamageArrives
<1>5. CASE Gathers /\ (FrameFlags \/ FrameDamage \/ FrameFailed)
  <2>1. stage' \in {"asked", "copying"} => owed' = 0
    <3>1. stage \in {"reporting", "sent", "failed"} /\ stage' = stage
      BY <1>5, GathersBefore
    <3> QED
      BY <3>1
  <2>2. pending_damage' = pending_damage + Size(events[1])
    BY <1>1, <1>5, Handled DEF TypeOK, FrameFlags, FrameDamage, FrameFailed, Size
  <2>3. events # <<>> /\ events' = Tail(events) /\ UNCHANGED <<conn, owed>>
    BY <1>5, Handled DEF FrameFlags, FrameDamage, FrameFailed
  <2>4. conn # "closed"
    BY <1>5 DEF FrameFlags, FrameDamage, FrameFailed, Handles
  <2>5. PICK total : Sums(total, pending_damage, events, owed)
    BY <2>4, SumsOf
  <2> QED
    BY <1>1, <2>1, <2>2, <2>3, <2>5, SumsTail
<1>6. CASE FrameReady
  BY <1>6, ReadyLast, SumsEmpty
<1>7. ASSUME stage \notin {"none"} PROVE \E total : Sums(total, pending_damage, events, owed)
  BY <1>7, SumsOf DEF Numbered
<1>8. CASE BeginCopy
  BY <1>8, <1>7, Unchanged DEF BeginCopy, DamageArrives
<1>9. ASSUME NEW e \in Events, events' = Append(events, e), owed' = owed + Size(e),
             owed' \in 0..Area, stage # "none", UNCHANGED pending_damage
      PROVE  \E total : Sums(total, pending_damage', events', owed')
  <2>1. PICK total : Sums(total, pending_damage, events, owed)
    BY <1>7, <1>9
  <2>2. \E sum : Sums(sum, pending_damage, Append(events, e), owed + Size(e))
    BY <1>1, <1>9, <2>1, SumsAppend
  <2> QED
    BY <1>9, <2>2
<1>10. CASE EndCopy
  <2> DEFINE e == [type |-> "flags", invert |-> inverted']
  <2>1. e \in Events /\ Size(e) = 0
    BY <1>10 DEF EndCopy, Events, Size
  <2>2. /\ events' = Append(events, e) /\ owed' = owed /\ stage # "none" /\ stage' = "reporting"
        /\ UNCHANGED pending_damage
    BY <1>10, Unchanged DEF EndCopy
  <2> HIDE DEF e
  <2> QED
    BY <1>1, <1>9, <2>1, <2>2
<1>11. CASE SendDamage
  <2>1. PICK d \in 1..(Area - owed) : /\ owed' = owed + d
                                     /\ events' = Append(events, [type |-> "damage", size |-> d])
    BY <1>11 DEF SendDamage
  <2> DEFINE e == [type |-> "damage", size |-> d]
  <2>2. e \in Events /\ Size(e) = d /\ owed + d \in 0..Area
    BY <1>1, <2>1 DEF Events, Size
  <2>3. stage = "reporting" /\ stage' = "reporting" /\ UNCHANGED pending_damage
    BY <1>11, Unchanged DEF SendDamage
  <2> HIDE DEF e
  <2> QED
    BY <1>1, <1>9, <2>1, <2>2, <2>3 DEF e
<1>12. CASE SendReady \/ FailFrame
  <2>1. PICK e : e \in {[type |-> "ready"], [type |-> "failed"]} /\ events' = Append(events, e)
    BY <1>12 DEF SendReady, FailFrame
  <2>2. e \in Events /\ Size(e) = 0
    BY <2>1 DEF Events, Size
  <2>3. owed' = owed /\ stage # "none" /\ stage' \in {"sent", "failed"} /\ UNCHANGED pending_damage
    BY <1>12, Unchanged DEF SendReady, FailFrame
  <2> QED
    BY <1>1, <1>9, <2>1, <2>2, <2>3
<1> QED
  BY <1>2, <1>3, <1>4, <1>5, <1>6, <1>8, <1>10, <1>11, <1>12, Unchanged
     DEF TrackerNext, Dispatch, Compositor, Copies, Change, FrameFlags, FrameDamage, FrameFailed,
         Gathers
\* Between two frames all the damage that was sent has been counted.
LEMMA AllCounted ==
    TypeOK /\ AccountsEachFrame /\ Len(sent) = frame_count => DamageSent = total_damage
<1> SUFFICES ASSUME TypeOK, AccountsEachFrame, Len(sent) = frame_count
             PROVE  DamageSent = total_damage
  OBVIOUS
<1>1. sent \in Seq(Frames) /\ Len(sent) \in Nat
  BY TypeParts DEF QueueTypes
<1>2. CASE sent = <<>>
  BY <1>1, <1>2 DEF DamageSent, AccountsEachFrame
<1>3. CASE sent # <<>>
  <2>1. frame_count \in DOMAIN sent
    BY <1>1, <1>3
  <2> QED
    BY <1>3, <2>1 DEF DamageSent, AccountsEachFrame
<1> QED
  BY <1>2, <1>3

\* Each step keeps the tracker at the last frame it was sent.
LEMMA LastSentStep ==
    /\ TypeOK /\ InTurn /\ Numbered /\ LastSent /\ AccountsEachFrame /\ [TrackerNext]_trackerVars
    => LastSent'
<1> SUFFICES ASSUME TypeOK, InTurn, Numbered, LastSent, AccountsEachFrame,
                    [TrackerNext]_trackerVars
             PROVE  LastSent'
  OBVIOUS
<1>1. CASE UNCHANGED <<stage, sent, buffer, inverted, total_damage, owed>>
  BY <1>1 DEF LastSent
<1>2. CASE stage' # "sent"
  BY <1>2 DEF LastSent
<1>3. CASE SendReady
  <2>1. stage = "reporting" /\ UNCHANGED <<conn, frame_count, total_damage, buffer, inverted, owed>>
    BY <1>3, Unchanged DEF SendReady
  <2>2. Len(sent) = frame_count
    BY <2>1, TypeParts DEF Numbered, PlainTypes
  <2>3. /\ sent \in Seq(Frames)
        /\ sent' = Append(sent, [picture |-> buffer.picture, invert |-> inverted,
                                 damage |-> DamageSent + IF owed > 0 THEN owed ELSE Area])
    BY <1>3, TypeParts DEF SendReady, QueueTypes
  <2>4. sent'[Len(sent')] = [picture |-> buffer.picture, invert |-> inverted,
                             damage |-> DamageSent + IF owed > 0 THEN owed ELSE Area]
    BY <2>3
  <2> QED
    BY <2>1, <2>2, <2>4, AllCounted DEF LastSent
<1> QED
  BY <1>1, <1>2, <1>3, GathersOrReady, GathersBefore, ReadyLast, Unchanged
     DEF TrackerNext, Compositor, Copies, Change, Connect, ConnectFails, Disconnect, Close,
         CopyFrame, BeginCopy, EndCopy, SendDamage, FailFrame

\* Each step keeps the buffer no older than what was sent.
LEMMA NeverOlderStep ==
    TypeOK /\ InTurn /\ NeverOlder /\ [TrackerNext]_trackerVars => NeverOlder'
<1> SUFFICES ASSUME TypeOK, InTurn, NeverOlder, [TrackerNext]_trackerVars PROVE NeverOlder'
  OBVIOUS
<1>1. /\ screen \in Nat \ {0} /\ buffer.picture \in Nat /\ sent \in Seq(Frames)
      /\ DOMAIN sent = 1..Len(sent) /\ \A i \in DOMAIN sent : sent[i].picture \in Nat
  <2>1. screen \in Nat \ {0} /\ buffer.picture \in Nat
    BY TypeParts, ScreenAssumption DEF BufferType, PlainTypes, Pictures
  <2>2. sent \in Seq(Frames) /\ DOMAIN sent = 1..Len(sent)
    BY TypeParts DEF QueueTypes
  <2>3. \A i \in DOMAIN sent : sent[i] \in Frames
    BY <2>2
  <2> QED
    BY <2>1, <2>2, <2>3, ScreenAssumption DEF Frames, Pictures
<1>2. ASSUME UNCHANGED <<screen, buffer, sent>>,
             stage' \in {"copying", "reporting", "sent"} => UNCHANGED stage
      PROVE  NeverOlder'
  BY <1>2 DEF NeverOlder
<1>3. CASE Change
  <2>1. screen' = screen + 1 /\ UNCHANGED <<buffer, sent, stage>>
    BY <1>3 DEF Change
  <2> QED
    BY <1>1, <2>1 DEF NeverOlder
<1>4. CASE BeginCopy
  <2>1. /\ buffer' = [picture |-> screen, whole |-> FALSE] /\ UNCHANGED <<screen, sent>>
        /\ stage' = "copying"
    BY <1>4 DEF BeginCopy
  <2>2. \A i \in DOMAIN sent : sent[i].picture <= screen
    BY <1>1 DEF NeverOlder
  <2> QED
    BY <1>1, <2>1, <2>2 DEF NeverOlder
<1>5. CASE EndCopy
  <2>1. /\ buffer'.picture = buffer.picture /\ buffer'.whole /\ UNCHANGED <<screen, sent>>
        /\ stage = "copying"
    BY <1>5, TypeParts DEF EndCopy, BufferType
  <2> QED
    BY <1>1, <2>1 DEF NeverOlder
<1>6. CASE SendReady
  <2>1. stage = "reporting" /\ UNCHANGED <<screen, buffer>>
    BY <1>6 DEF SendReady
  <2>2. \A i \in DOMAIN sent' : sent'[i].picture <= buffer.picture
    BY <1>1, <1>6 DEF SendReady, NeverOlder
  <2> QED
    BY <2>1, <2>2 DEF NeverOlder
<1> QED
  BY <1>2, <1>3, <1>4, <1>5, <1>6, GathersOrReady, GathersBefore, ReadyLast, Unchanged
     DEF TrackerNext, Compositor, Copies, Connect, ConnectFails, Disconnect, Close,
         CopyFrame, SendDamage, FailFrame

\* Once the ready event is on its way, so is the frame that it ends.
LEMMA WholeFrame ==
    TypeOK /\ InTurn /\ LastSent /\ NeverOlder => ReadyMeansWhole
<1> SUFFICES ASSUME TypeOK, InTurn, LastSent, NeverOlder,
                    NEW i \in DOMAIN events, events[i].type = "ready"
             PROVE  buffer = [picture |-> sent[Len(sent)].picture, whole |-> TRUE]
  BY DEF ReadyMeansWhole
<1>1. stage = "sent"
  <2>1. stage \in {"none", "asked", "copying", "reporting", "sent", "failed"} /\ events # <<>>
    BY TypeParts DEF PlainTypes
  <2>2. stage # "failed"
    <3>1. CASE events = <<[type |-> "failed"]>>
      BY <3>1
    <3> QED
      BY <2>1, <3>1 DEF InTurn
  <2> QED
    BY <2>1, <2>2 DEF InTurn
<1>2. sent[Len(sent)].picture = buffer.picture /\ buffer.whole
  BY <1>1 DEF LastSent, NeverOlder
<1> QED
  BY <1>2, TypeParts DEF BufferType

\* Each step keeps the account of the frames.
LEMMA AccountsStep == TrackerInv /\ [TrackerNext]_trackerVars => AccountsEachFrame'
<1> SUFFICES ASSUME TrackerInv, [TrackerNext]_trackerVars PROVE AccountsEachFrame'
  OBVIOUS
<1> USE DEF TrackerInv
<1>1. /\ sent \in Seq(Frames) /\ DOMAIN sent = 1..Len(sent) /\ Len(sent) \in Nat
      /\ frame_count \in Nat
  BY TypeParts DEF QueueTypes, PlainTypes
<1>2. CASE UNCHANGED <<frame_count, sent, total_damage, frame_flags>>
  BY <1>2 DEF AccountsEachFrame
<1>3. CASE FrameReady
  <2>1. /\ stage = "sent" /\ Len(events) = 1 /\ events[1].type = "ready" /\ UNCHANGED sent
        /\ events # <<>> /\ Head(events).type # "flags"
    BY <1>3, ReadyLast, Handled DEF FrameReady
  <2>2. Len(sent) = frame_count + 1 /\ frame_count' = frame_count + 1
    BY <1>3, <2>1 DEF FrameReady, Numbered, Handles
  <2>3. pending_flags = inverted
    BY <2>1 DEF FlagsArrive
  <2>4. pending_damage = owed
    <3>1. conn # "closed" /\ Size(events[1]) = 0 /\ 1 \in DOMAIN events
      BY <1>3, <2>1, TypeParts DEF FrameReady, Handles, Size, QueueTypes
    <3>2. PICK total : Sums(total, pending_damage, events, owed)
      BY <3>1, SumsOf
    <3>3. total[1] = total[0] + 0 /\ total[0] \in 0..Area
      BY <2>1, <3>1, <3>2, ScreenAssumption DEF Sums
    <3> QED
      BY <2>1, <3>2, <3>3, ScreenAssumption DEF Sums
  <2>5. sent[frame_count'] = [picture |-> buffer.picture, invert |-> inverted,
                              damage |-> total_damage + IF owed > 0 THEN owed ELSE Area]
    BY <2>1, <2>2 DEF LastSent
  <2>6. sent[frame_count'].invert = inverted /\ frame_flags' = inverted
    BY <1>3, <2>3, <2>5 DEF FrameReady
  <2>7. total_damage' = sent[frame_count'].damage
    BY <1>3, <2>4, <2>5 DEF FrameReady
  <2> QED
    BY <1>1, <2>1, <2>2, <2>6, <2>7 DEF AccountsEachFrame
<1>4. CASE SendReady
  <2>1. UNCHANGED <<frame_count, frame_flags, total_damage>> /\ stage = "reporting"
    BY <1>4, Unchanged DEF SendReady
  <2>2. Len(sent) = frame_count
    BY <2>1, TypeParts DEF Numbered, PlainTypes
  <2>3. /\ Len(sent') = Len(sent) + 1 /\ \A i \in 1..Len(sent) : sent'[i] = sent[i]
    BY <1>1, <1>4 DEF SendReady
  <2>4. frame_count > 0 => frame_count \in DOMAIN sent /\ sent'[frame_count] = sent[frame_count]
    BY <1>1, <2>2, <2>3
  <2>5. frame_count' = frame_count /\ frame_count <= Len(sent')
    BY <1>1, <2>1, <2>2, <2>3
  <2>6. frame_count' = 0 => total_damage' = 0
    BY <2>1 DEF AccountsEachFrame
  <2>7. ASSUME frame_count \in DOMAIN sent'
        PROVE  frame_flags' = sent'[frame_count].invert /\ total_damage' = sent'[frame_count].damage
    <3>1. frame_count \in DOMAIN sent /\ sent'[frame_count] = sent[frame_count]
      BY <1>1, <1>4, <2>4, <2>7 DEF SendReady
    <3> QED
      BY <2>1, <3>1 DEF AccountsEachFrame
  <2> QED
    BY <2>5, <2>6, <2>7 DEF AccountsEachFrame
<1> QED
  BY <1>2, <1>3, <1>4, GathersOrReady, GathersBefore, Unchanged
     DEF TrackerNext, Compositor, Copies, Change, Connect, ConnectFails, Disconnect, Close,
         CopyFrame, BeginCopy, EndCopy, SendDamage, FailFrame

\* A tracker that is not connected has accounted for nothing.
LEMMA TrackerInvInit == TrackerInit => TrackerInv
<1> SUFFICES ASSUME TrackerInit PROVE TrackerInv
  OBVIOUS
<1>1. TypeOK
  BY TypeInit
<1>2. InTurn /\ ReadyMeansWhole /\ Numbered /\ FlagsArrive /\ LastSent /\ AccountsEachFrame
  BY DEF TrackerInit, InTurn, ReadyMeansWhole, Numbered, FlagsArrive, LastSent, AccountsEachFrame
<1>3. DamageArrives
  BY SumsEmpty DEF TrackerInit, DamageArrives, Sums
<1>4. NeverOlder
  BY DEF TrackerInit, NeverOlder
<1> QED
  BY <1>1, <1>2, <1>3, <1>4 DEF TrackerInv

\* Each step of the tracker keeps its invariant.
LEMMA TrackerInvStep == TrackerInv /\ [TrackerNext]_trackerVars => TrackerInv'
<1> SUFFICES ASSUME TrackerInv, [TrackerNext]_trackerVars PROVE TrackerInv'
  OBVIOUS
<1>1. TypeOK' /\ InTurn' /\ Numbered' /\ FlagsArrive' /\ DamageArrives' /\ LastSent' /\ NeverOlder'
  BY TypeStep, InTurnStep, NumberedStep, FlagsArriveStep, DamageArrivesStep, LastSentStep,
     NeverOlderStep DEF TrackerInv
<1>2. AccountsEachFrame'
  BY AccountsStep
<1>3. ReadyMeansWhole'
  BY <1>1, WholeFrame, PTL
<1> QED
  BY <1>1, <1>2, <1>3 DEF TrackerInv
-----------------------------------------------------------------------------
(* The keyword that uses the tracker *)

\* What a keyword does to the tracker, the tracker does.
LEMMA KeywordSteps == [Next]_vars => [TrackerNext]_trackerVars
<1> SUFFICES ASSUME [Next]_vars PROVE [TrackerNext]_trackerVars
  OBVIOUS
<1>1. CASE Match \/ Waits \/ Grab \/ Compare \/ Again \/ GiveUp
  BY <1>1 DEF Match, Waits, Grab, Compare, Again, GiveUp
<1>2. CASE Connects \/ Loop \/ Closes \/ Server
  BY <1>2 DEF Connects, Loop, Closes, Server, TrackerNext
<1>3. CASE UNCHANGED vars
  BY <1>3 DEF vars, trackerVars
<1> QED
  BY <1>1, <1>2, <1>3 DEF Next, MatchStep

\* What was sent stays sent.
LEMMA SentGrows ==
    TypeOK /\ [TrackerNext]_trackerVars
      => Len(sent) <= Len(sent') /\ \A i \in 1..Len(sent) : sent'[i] = sent[i]
<1> SUFFICES ASSUME TypeOK, [TrackerNext]_trackerVars
             PROVE  Len(sent) <= Len(sent') /\ \A i \in 1..Len(sent) : sent'[i] = sent[i]
  OBVIOUS
<1>1. sent \in Seq(Frames) /\ Len(sent) \in Nat
  BY TypeParts DEF QueueTypes
<1>2. CASE UNCHANGED sent
  BY <1>1, <1>2
<1>3. CASE SendReady
  <2>1. PICK e : sent' = Append(sent, e)
    BY <1>3 DEF SendReady
  <2> QED
    BY <1>1, <2>1
<1> QED
  BY <1>2, <1>3, Unchanged
     DEF TrackerNext, Dispatch, Compositor, Copies, Connect, ConnectFails, Disconnect, Close,
         FrameFlags, FrameDamage, FrameReady, FrameFailed, Handles, Change, BeginCopy, EndCopy,
         SendDamage, FailFrame

\* A screenshot has the number that was counted last, and the buffer is never behind that.
ScreenshotInv == TrackerInv /\ screenshot.count \in Nat /\ ScreenshotNotStale

\* The invariant holds at first.
LEMMA ScreenshotInit == Init => ScreenshotInv
  BY TrackerInvInit DEF Init, ScreenshotInv, ScreenshotNotStale

\* Each step keeps the invariant.
LEMMA ScreenshotStep == ScreenshotInv /\ [Next]_vars => ScreenshotInv'
<1> SUFFICES ASSUME ScreenshotInv, [Next]_vars
             PROVE  TrackerInv' /\ screenshot'.count \in Nat /\ ScreenshotNotStale'
  BY DEF ScreenshotInv
<1> USE DEF ScreenshotInv
<1>1. TrackerInv' /\ [TrackerNext]_trackerVars
  BY TrackerInvStep, KeywordSteps
<1>2. TypeOK /\ NeverOlder /\ AccountsEachFrame
  BY DEF TrackerInv
<1>3. /\ sent \in Seq(Frames) /\ frame_count \in Nat /\ Len(sent) \in Nat /\ Len(sent') \in Nat
      /\ DOMAIN sent = 1..Len(sent)
  BY <1>1, <1>2 DEF TrackerInv, TypeOK
<1>4. CASE Grab
  <2>1. /\ frame_count > 0 /\ UNCHANGED sent
        /\ screenshot' = [count |-> frame_count, picture |-> buffer.picture,
                          whole |-> buffer.whole]
    BY <1>4 DEF Grab, trackerVars
  <2>2. frame_count \in 1..Len(sent)
    BY <1>2, <1>3, <2>1 DEF AccountsEachFrame
  <2>3. sent[frame_count].picture <= buffer.picture
    BY <1>2, <1>3, <2>2 DEF NeverOlder
  <2>4. screenshot'.count = frame_count /\ screenshot'.picture = buffer.picture
    BY <2>1
  <2> QED
    BY <1>1, <1>3, <2>1, <2>2, <2>3, <2>4 DEF ScreenshotNotStale
<1>5. CASE UNCHANGED screenshot
  <2>1. Len(sent) <= Len(sent') /\ \A i \in 1..Len(sent) : sent'[i] = sent[i]
    BY <1>1, <1>2, SentGrows
  <2> QED
    BY <1>1, <1>3, <1>5, <2>1 DEF ScreenshotNotStale
<1> QED
  BY <1>4, <1>5 DEF Next, MatchStep, Match, Connects, Waits, Compare, Again, GiveUp, Loop, Closes,
     Server, matchVars, vars

-----------------------------------------------------------------------------
(* Theorems *)

\* The library only does to its tracker what a tracker does: it connects once, when the first
\* keyword needs a frame, its callbacks run while a keyword gives way to the loop, and it
\* disconnects between two keywords (Screencopy.py l. 58-60, 87-97, 120-128).
THEOREM DrivesTracker == Spec => TrackerSpec
<1>1. Init => TrackerInit
  BY DEF Init
<1> QED
  BY <1>1, KeywordSteps, PTL DEF Spec, TrackerSpec

\* However the two run against each other, whenever the client disconnects and whatever fails:
\* the client asks for a frame when it has handled all of the last one, the compositor writes
\* to the buffer between the two, and nothing of a frame is lost or counted for another
\* (screencopy_tracker.py l. 93-126).
THEOREM TrackerInvHolds == TrackerSpec => []TrackerInv
  BY TrackerInvInit, TrackerInvStep, PTL DEF TrackerSpec

\* After n frames, frame_flags are those of frame n and total_damage is the damage of the
\* first n, for every size of the screen and every split of the damage into events
\* (screencopy_tracker.py l. 93-104).
THEOREM FramesAreAccounted == TrackerSpec => []AccountsEachFrame
<1>1. TrackerInv => AccountsEachFrame
  BY DEF TrackerInv
<1> QED
  BY <1>1, TrackerInvHolds, PTL

\* A screenshot never shows less than the frame by whose number match knows it
\* (Screencopy.py l. 58-61, 95-118).
THEOREM ScreenshotsAreNotStale == Spec => []ScreenshotNotStale
<1>1. ScreenshotInv => ScreenshotNotStale
  BY DEF ScreenshotInv
<1> QED
  BY <1>1, ScreenshotInit, ScreenshotStep, PTL DEF Spec
=============================================================================
