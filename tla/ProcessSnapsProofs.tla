------------------------ MODULE ProcessSnapsProofs --------------------------
(***************************************************************************)
(* Proofs about ProcessSnaps, for any snaps, channels and architectures    *)
(* and any number of uploads and failures.                                 *)
(***************************************************************************)
EXTENDS ProcessSnaps, WellFoundedInduction, TLAPS

States == {"Needs building", "Failed to build", "other", "Pending", "Published", "Superseded"}

\* Architecture p has upload u or a later one, or will never have u.
Out(u, p) == \/ build[u][p] = "other"
             \/ \E w \in Uploads : w >= u /\ build[w][p] = "Published"

\* What the script has found out about the upload, at each place, stays true.
SnapsInv ==
    /\ build \in [Uploads -> [Architectures -> States]]
    /\ channel \in 1..Channels
    /\ pc \in {"builds", "binaries"} => latest_source \in Uploads
    /\ pc = "binaries" => \A p \in This.processors :
         build[latest_source][p] \notin {"Needs building", "Failed to build"}
    /\ pc \in {"snap_builds", "store", "notices", "trigger"} /\ This.ppa =>
         latest_source \in Uploads /\ \A p \in This.processors : Out(latest_source, p)

-----------------------------------------------------------------------------
\* The bounds are numbers.
LEMMA BoundsAreNat == Channels \in Nat \ {0} /\ MaxUploads \in Nat
<1>1. Channels \in Nat \ {0}
  BY SnapsAssumption, Zenon
<1>2. MaxUploads \in Nat \ {0}
  BY SnapsAssumption, Zenon
<1> QED
  BY <1>1, <1>2

\* An upload is a number.
LEMMA UploadsAreNat == \A u \in Uploads : u \in Nat
<1>1. MaxUploads \in Nat
  BY BoundsAreNat
<1> QED
  BY <1>1 DEF Uploads

\* Of two uploads one is later, or they are the same.
LEMMA LaterOrNot == \A u, w \in Nat : u <= u /\ (~(w <= u) => u < w)
  OBVIOUS

\* A set of natural numbers has a least member.
LEMMA LeastMember ==
    ASSUME NEW T \in SUBSET Nat, T # {}
    PROVE \E x \in T : \A y \in T : x <= y
<1>1. \E x \in T : \A y \in T : <<y, x>> \notin OpToRel(<, Nat)
  BY NatLessThanWellFounded, WFMin, Zenon
<1>2. ASSUME NEW x \in T, NEW y \in T, <<y, x>> \notin OpToRel(<, Nat)
      PROVE x <= y
  <2>1. ~(y < x)
    BY <1>2, Zenon DEF OpToRel
  <2> QED
    BY <2>1
<1> QED
  BY <1>1, <1>2, Zenon

\* Among uploads there is a last one, so latest_source is one of those looked at.
LEMMA GreatestIsMember ==
    ASSUME NEW S \in SUBSET Uploads, S # {}
    PROVE Greatest(S) \in S /\ \A w \in S : w <= Greatest(S)
<1>0. MaxUploads \in Nat
  BY BoundsAreNat
<1> DEFINE Rest == {MaxUploads - u : u \in S}
<1>1. Rest \in SUBSET Nat /\ Rest # {}
  <2>1. ASSUME NEW u \in S PROVE MaxUploads - u \in Nat
    <3>1. u \in 1..MaxUploads
      BY DEF Uploads
    <3> QED
      BY <1>0, <3>1
  <2>2. Rest \in SUBSET Nat
    BY <2>1
  <2>3. Rest # {}
    OBVIOUS
  <2> QED
    BY <2>2, <2>3
<1>2. PICK x \in Rest : \A y \in Rest : x <= y
  <2> HIDE DEF Rest
  <2> QED
    BY <1>1, LeastMember
<1>3. PICK u \in S : x = MaxUploads - u
  OBVIOUS
<1>4. \A w \in S : w <= u
  BY <1>0, <1>2, <1>3 DEF Uploads
<1> QED
  BY <1>3, <1>4 DEF Greatest

\* There is only one last upload.
LEMMA GreatestIsUnique ==
    ASSUME NEW S \in SUBSET Uploads, NEW u \in S, \A w \in S : w <= u
    PROVE Greatest(S) = u
<1>1. Greatest(S) \in S /\ u <= Greatest(S)
  BY GreatestIsMember
<1>2. Greatest(S) \in Int /\ u \in Int
  BY <1>1, UploadsAreNat
<1> QED
  BY <1>1, <1>2

\* What an architecture has from the PPA, or never will have, stays so.
LEMMA OutStays ==
    ASSUME SnapsInv, NEW u \in Uploads, PpaStep(u),
           NEW w \in Uploads, NEW p \in Architectures
    PROVE /\ build' \in [Uploads -> [Architectures -> States]]
          /\ build[w][p] \notin {"Needs building", "Failed to build"}
               => build'[w][p] \notin {"Needs building", "Failed to build"}
          /\ Out(w, p) => Out(w, p)'
<1>0. build \in [Uploads -> [Architectures -> States]]
  BY DEF SnapsInv
<1>1. CASE Upload(u) \/ PublishSource(u) \/ Delete(u)
  BY <1>0, <1>1 DEF Upload, PublishSource, Delete, Out
<1>2. ASSUME NEW q \in Architectures, NEW r \in {"Pending", "Failed to build", "other"},
             BuildEnds(u, q, r)
      PROVE /\ build' \in [Uploads -> [Architectures -> States]]
            /\ build[w][p] \notin {"Needs building", "Failed to build"}
                 => build'[w][p] \notin {"Needs building", "Failed to build"}
            /\ Out(w, p) => Out(w, p)'
  BY <1>0, <1>2 DEF BuildEnds, Out, States
<1>3. ASSUME NEW q \in Architectures, Retry(u, q)
      PROVE /\ build' \in [Uploads -> [Architectures -> States]]
            /\ build[w][p] \notin {"Needs building", "Failed to build"}
                 => build'[w][p] \notin {"Needs building", "Failed to build"}
            /\ Out(w, p) => Out(w, p)'
  BY <1>0, <1>3 DEF Retry, Out, States
<1>4. ASSUME NEW q \in Architectures, PublishBinary(u, q)
      PROVE /\ build' \in [Uploads -> [Architectures -> States]]
            /\ build[w][p] \notin {"Needs building", "Failed to build"}
                 => build'[w][p] \notin {"Needs building", "Failed to build"}
            /\ Out(w, p) => Out(w, p)'
  <2>1. \A v \in Uploads :
          /\ \A r \in Architectures : r # q => build'[v][r] = build[v][r]
          /\ v = u => build'[v][q] \in {"Superseded", "Published"}
          /\ v = u /\ (\A x \in (u + 1)..MaxUploads : build[x][q] # "Published")
               => build'[v][q] = "Published"
          /\ v < u /\ build[v][q] = "Published" => build'[v][q] = "Superseded"
          /\ v # u /\ ~(v < u /\ build[v][q] = "Published") => build'[v][q] = build[v][q]
    BY <1>0, <1>4 DEF PublishBinary
  <2>2. build' \in [Uploads -> [Architectures -> States]]
    BY <1>0, <1>4 DEF PublishBinary, States
  <2>3. build[w][p] \notin {"Needs building", "Failed to build"}
          => build'[w][p] \notin {"Needs building", "Failed to build"}
    <3>1. CASE p # q
      BY <2>1, <3>1
    <3>2. CASE p = q
      BY <2>1, <3>2
    <3> QED
      BY <3>1, <3>2
  <2>4. ASSUME Out(w, p) PROVE Out(w, p)'
    <3>1. CASE build[w][p] = "other"
      BY <1>0, <1>4, <2>1, <3>1 DEF Out, PublishBinary
    <3>2. ASSUME NEW v \in Uploads, v >= w, build[v][p] = "Published"
          PROVE Out(w, p)'
      <4>1. CASE p # q \/ ~(v < u)
        BY <1>0, <1>4, <2>1, <3>2, <4>1 DEF Out, PublishBinary
      <4>2. CASE p = q /\ v < u /\ \E x \in (u + 1)..MaxUploads : build[x][q] = "Published"
        <5>1. PICK x \in (u + 1)..MaxUploads : build[x][q] = "Published"
          BY <4>2
        <5>2. x \in Uploads /\ x > u /\ x >= w
          BY <3>2, <4>2, <5>1, BoundsAreNat DEF Uploads
        <5>3. build'[x][q] = "Published"
          BY <2>1, <5>1, <5>2 DEF Uploads
        <5> QED
          BY <4>2, <5>2, <5>3 DEF Out, Uploads
      <4>3. CASE p = q /\ v < u /\ ~\E x \in (u + 1)..MaxUploads : build[x][q] = "Published"
        <5>1. build'[u][q] = "Published"
          BY <1>0, <2>1, <4>3
        <5>2. u >= w
          BY <3>2, <4>3 DEF Uploads
        <5> QED
          BY <4>3, <5>1, <5>2 DEF Out, Uploads
      <4> QED
        BY <4>1, <4>2, <4>3
    <3> QED
      BY <2>4, <3>1, <3>2 DEF Out
  <2> QED
    BY <2>2, <2>3, <2>4
<1> QED
  BY <1>1, <1>2, <1>3, <1>4 DEF PpaStep

-----------------------------------------------------------------------------
\* The invariant holds before the first round.
LEMMA SnapsInit == Init => SnapsInv
<1> SUFFICES ASSUME Init PROVE SnapsInv
  OBVIOUS
<1>1. build \in [Uploads -> [Architectures -> States]]
  BY DEF Init, States
<1>2. channel \in 1..Channels
  <2>1. channel = 1
    BY DEF Init
  <2> QED
    BY <2>1, BoundsAreNat
<1>3. pc = "idle"
  BY DEF Init
<1> QED
  BY <1>1, <1>2, <1>3 DEF SnapsInv

\* The next channel, and the next round, begin with no answers.
LEMMA ContinueForgets ==
    ASSUME SnapsInv, NEW error, Continue(error), UNCHANGED build
    PROVE SnapsInv'
<1>1. build' \in [Uploads -> [Architectures -> States]]
  BY DEF SnapsInv
<1>2. channel' \in 1..Channels
  <2>1. channel \in 1..Channels
    BY DEF SnapsInv
  <2>2. \/ channel < Channels /\ channel' = channel + 1
        \/ channel' = 1
    BY DEF Continue
  <2> QED
    BY <2>1, <2>2, BoundsAreNat
<1>3. pc' \in {"recipe", "idle"}
  BY DEF Continue
<1> QED
  BY <1>1, <1>2, <1>3 DEF SnapsInv

\* A round that is aborted forgets the build it looked at.
LEMMA AbortForgets ==
    ASSUME SnapsInv, Abort, UNCHANGED build
    PROVE SnapsInv'
<1>1. build' \in [Uploads -> [Architectures -> States]]
  BY DEF SnapsInv
<1>2. channel' \in 1..Channels
  BY BoundsAreNat DEF Abort
<1>3. pc' = "idle"
  BY DEF Abort
<1> QED
  BY <1>1, <1>2, <1>3 DEF SnapsInv

\* The script preserves the invariant: it goes on to the next place only with answers that
\* give it.
LEMMA ScriptKeeps ==
    ASSUME SnapsInv, Script
    PROVE SnapsInv'
<1> USE DEF SnapsInv, Goto, answers, This, Out, Uploads, States
<1>0. UNCHANGED build
  BY DEF Script
<1>1. CASE Start
  BY <1>0, <1>1 DEF Start
<1>2. CASE GetRecipe
  <2>1. CASE Continue(TRUE)
    BY <1>0, <2>1, ContinueForgets
  <2>2. CASE Goto(IF This.ppa THEN "sources" ELSE "snap_builds") /\ UNCHANGED answers
    BY <1>0, <2>2
  <2> QED
    BY <1>2, <2>1, <2>2 DEF GetRecipe
<1>3. CASE GetSources
  <2>1. CASE Continue(FALSE)
    BY <1>0, <2>1, ContinueForgets
  <2>2. CASE Usable /\ Goto("builds") /\ latest_source' = Greatest(Candidates)
    <3>1. Candidates \in SUBSET Uploads /\ Candidates # {}
      BY <2>2 DEF Usable, Candidates
    <3>2. Greatest(Candidates) \in Uploads
      BY <3>1, GreatestIsMember
    <3> QED
      BY <1>0, <2>2, <3>2
  <2> QED
    BY <1>3, <2>1, <2>2 DEF GetSources
<1>4. CASE GetBuilds
  <2>1. CASE \E error \in BOOLEAN : Continue(error)
    BY <1>0, <2>1, ContinueForgets
  <2>2. CASE /\ pc = "builds" /\ ~Failed(latest_source) /\ ~BuildPending(latest_source, channel)
             /\ Goto("binaries") /\ UNCHANGED answers
    BY <1>0, <2>2, SnapsAssumption DEF Failed, BuildPending
  <2> QED
    BY <1>4, <2>1, <2>2 DEF GetBuilds
<1>5. CASE GetBinaries
  <2>1. CASE Continue(FALSE)
    BY <1>0, <2>1, ContinueForgets
  <2>2. CASE /\ pc = "binaries" /\ ~BinaryPending(latest_source, channel)
             /\ Goto("snap_builds") /\ UNCHANGED answers
    <3>1. \A p \in This.processors : p \in Architectures
      BY SnapsAssumption
    <3>2. \A p \in This.processors : build[latest_source][p] \in States
      BY <2>2, <3>1
    <3>3. \A p \in This.processors : build[latest_source][p] \notin {"Pending", "Superseded"}
      BY <2>2 DEF BinaryPending
    <3>4. \A p \in This.processors : build[latest_source][p] \in {"other", "Published"}
      BY <2>2, <3>2, <3>3
    <3>5. latest_source \in Uploads /\ latest_source >= latest_source
      <4>1. latest_source \in Uploads
        BY <2>2
      <4> HIDE DEF SnapsInv
      <4> QED
        BY <4>1, BoundsAreNat
    <3>6. \A p \in This.processors : Out(latest_source, p)
      BY <3>4, <3>5
    <3> QED
      BY <1>0, <2>2, <3>5, <3>6
  <2> QED
    BY <1>5, <2>1, <2>2 DEF GetBinaries
<1>6. CASE PendingBuilds
  <2>1. CASE Continue(FALSE)
    BY <1>0, <2>1, ContinueForgets
  <2>2. CASE pc = "snap_builds" /\ Goto("store") /\ UNCHANGED answers
    BY <1>0, <2>2
  <2> QED
    BY <1>6, <2>1, <2>2 DEF PendingBuilds
<1>7. ASSUME NEW p \in Architectures, GetStoreSnap(p) PROVE SnapsInv'
  BY <1>0, <1>7 DEF GetStoreSnap
<1>8. CASE CheckStore
  <2>1. CASE \E error \in BOOLEAN : Continue(error)
    BY <1>0, <2>1, ContinueForgets
  <2>2. CASE pc = "store" /\ pc' \in {"notices", "trigger"} /\ UNCHANGED <<channel, answers>>
    BY <1>0, <2>2
  <2> QED
    BY <1>8, <2>1, <2>2 DEF CheckStore
<1>9. CASE CheckNotices
  <2>1. CASE Abort
    BY <1>0, <2>1, AbortForgets
  <2>2. CASE \E error \in BOOLEAN : Continue(error)
    BY <1>0, <2>2, ContinueForgets
  <2>3. CASE pc = "notices" /\ Goto("trigger") /\ UNCHANGED answers
    BY <1>0, <2>3
  <2> QED
    BY <1>9, <2>1, <2>2, <2>3 DEF CheckNotices
<1>10. CASE RequestBuilds
  BY <1>0, <1>10, ContinueForgets DEF RequestBuilds
<1> QED
  BY <1>1, <1>2, <1>3, <1>4, <1>5, <1>6, <1>7, <1>8, <1>9, <1>10 DEF Script, Ask

\* What goes on elsewhere between two answers takes nothing back.
LEMMA PpaKeeps ==
    ASSUME SnapsInv, NEW u \in Uploads, PpaStep(u)
    PROVE SnapsInv'
<1>1. UNCHANGED <<pc, channel, latest_source>>
  BY DEF PpaStep, Upload, PublishSource, Delete, BuildEnds, Retry, PublishBinary,
         PpaOnly, Elsewhere, scriptVars
<1>2. channel \in 1..Channels /\ \A p \in This.processors : p \in Architectures
  BY SnapsAssumption DEF SnapsInv, This
<1>3. build' \in [Uploads -> [Architectures -> States]]
  <2>1. CASE Architectures = {}
    BY <2>1 DEF SnapsInv, PpaStep, Upload, PublishSource, Delete
  <2>2. CASE Architectures # {}
    BY <2>2, OutStays
  <2> QED
    BY <2>1, <2>2
<1>4. pc = "binaries" => \A p \in This.processors :
        build'[latest_source][p] \notin {"Needs building", "Failed to build"}
  BY <1>2, OutStays DEF SnapsInv
<1>5. pc \in {"snap_builds", "store", "notices", "trigger"} /\ This.ppa
        => \A p \in This.processors : Out(latest_source, p)'
  <2> SUFFICES ASSUME pc \in {"snap_builds", "store", "notices", "trigger"}, This.ppa,
                      NEW p \in This.processors
               PROVE Out(latest_source, p)'
    OBVIOUS
  <2>1. latest_source \in Uploads /\ p \in Architectures /\ Out(latest_source, p)
    BY <1>2 DEF SnapsInv
  <2> QED
    BY <1>1, <2>1, OutStays DEF Out
<1> QED
  BY <1>1, <1>2, <1>3, <1>4, <1>5 DEF SnapsInv, This

\* What the store builds and releases is no matter of the PPA.
LEMMA SnapsElsewhere ==
    ASSUME SnapsInv, \/ \E c \in 1..Channels : SnapStep(c)
                     \/ UNCHANGED vars
    PROVE SnapsInv'
<1>1. UNCHANGED <<build, pc, channel, latest_source>>
  BY DEF SnapStep, Dispatch, JobBuilt, JobFails, Release, Usn, SnapOnly, Elsewhere,
         scriptVars, vars
<1> QED
  BY <1>1 DEF SnapsInv, This, Out

\* The inductive invariant of ProcessSnaps: what the script has found out about the PPA
\* when it is at a place of the loop is still so.
THEOREM SnapsInvHolds == Spec => []SnapsInv
<1>1. SnapsInv /\ [Next]_vars => SnapsInv'
  <2> SUFFICES ASSUME SnapsInv, [Next]_vars PROVE SnapsInv'
    OBVIOUS
  <2>1. CASE Script
    BY <2>1, ScriptKeeps
  <2>2. CASE Crash
    BY <2>2, AbortForgets DEF Crash
  <2>3. CASE \E u \in Uploads : PpaStep(u)
    BY <2>3, PpaKeeps
  <2>4. CASE (\E c \in 1..Channels : SnapStep(c)) \/ UNCHANGED vars
    BY <2>4, SnapsElsewhere
  <2> QED
    BY <2>1, <2>2, <2>3, <2>4 DEF Next
<1> QED
  BY <1>1, SnapsInit, PTL DEF Spec

\* No rebuild is requested while an architecture is still to come from the PPA (lines
\* 371-380), with any number of uploads going on meanwhile.
THEOREM RebuildsComplete == Spec => RebuildsWhatIsOut
<1>1. SnapsInv => [ pc = "trigger" /\ job' # job /\ latest_source' = 0 /\ This.ppa
                    => \A p \in This.processors :
                         \/ build[latest_source][p] = "other"
                         \/ \E u \in Archive(p) : u >= latest_source ]_vars
  BY DEF SnapsInv, Out, Archive
<1> QED
  BY <1>1, SnapsInvHolds, PTL DEF RebuildsWhatIsOut

-----------------------------------------------------------------------------
(* Types *)

Places == {"idle", "recipe", "sources", "builds", "binaries", "snap_builds", "store",
           "notices", "trigger"}
Jobs == [state : {"idle", "requested", "building"}, built : Versions \cup {0}]

\* The conjuncts of TypeOK about the script, and those about all the rest.
ScriptTypes ==
    /\ pc \in Places
    /\ channel \in 1..Channels /\ latest_source \in 0..MaxUploads
    /\ store_snaps \in [Architectures -> Versions \cup {0}] /\ asked \subseteq Architectures
    /\ errors \in BOOLEAN /\ exit \in {0, 1}

PpaTypes ==
    /\ status \in [Uploads -> {"none", "Pending", "Published", "Superseded", "Deleted"}]
    /\ mir_version \in [Uploads -> Versions]
    /\ build \in [Uploads -> [Architectures -> States]]

SnapTypes ==
    /\ recipes \subseteq 1..Channels
    /\ job \in [1..Channels -> [Architectures -> Jobs]]
    /\ store \in [1..Channels -> [Architectures -> Versions \cup {0}]]
    /\ notice \in [1..Channels -> [Architectures -> SUBSET Usns]]
    /\ trouble \in 0..MaxTrouble

StandingType == standing \subseteq (1..Channels) \X Reasons

\* TypeOK in four parts.
LEMMA Types == TypeOK <=> ScriptTypes /\ PpaTypes /\ SnapTypes /\ StandingType
  BY Zenon DEF TypeOK, ScriptTypes, PpaTypes, SnapTypes, StandingType, States, Places, Jobs

\* What a version can be.
LEMMA VersionsAre == 1 \in Versions /\ Unparsed \in Versions /\ Uploads \subseteq Versions
<1>1. MaxUploads \in Nat \ {0}
  BY SnapsAssumption, Zenon
<1> QED
  BY <1>1 DEF Versions, Unparsed, Uploads

\* The types hold at first.
LEMMA InitTypes == Init => TypeOK
<1> SUFFICES ASSUME Init PROVE TypeOK
  OBVIOUS
<1>1. /\ Channels \in Nat \ {0} /\ MaxUploads \in Nat /\ MaxTrouble \in Nat
      /\ Stores \subseteq [1..Channels -> [Architectures -> {0, 1}]]
      /\ Recipes \subseteq SUBSET (1..Channels)
  BY BoundsAreNat, SnapsAssumption, Zenon
<1>2. ScriptTypes
  <2>1. pc = "idle" /\ channel = 1 /\ latest_source = 0 /\ store_snaps = NoAnswer /\ asked = {}
    BY DEF Init
  <2>2. errors \in BOOLEAN /\ exit \in {0, 1}
    BY DEF Init
  <2>3. /\ channel \in 1..Channels /\ latest_source \in 0..MaxUploads
        /\ store_snaps \in [Architectures -> Versions \cup {0}]
    BY <1>1, <2>1 DEF NoAnswer
  <2> QED
    BY <2>1, <2>2, <2>3 DEF ScriptTypes, Places
<1>3. PpaTypes
  BY VersionsAre DEF Init, PpaTypes, States
<1>4. SnapTypes
  <2>1. job \in [1..Channels -> [Architectures -> Jobs]]
    BY DEF Init, NoJob, Jobs
  <2>2. store \in [1..Channels -> [Architectures -> Versions \cup {0}]]
    <3>1. store \in [1..Channels -> [Architectures -> {0, 1}]]
      BY <1>1 DEF Init
    <3> QED
      BY <3>1, VersionsAre
  <2>3. notice \in [1..Channels -> [Architectures -> SUBSET Usns]]
    BY Zenon DEF Init
  <2>4. trouble \in 0..MaxTrouble /\ recipes \subseteq 1..Channels
    <3>1. trouble = 0 /\ recipes \in Recipes
      BY Zenon DEF Init
    <3> QED
      BY <1>1, <3>1
  <2> QED
    BY <2>1, <2>2, <2>3, <2>4 DEF SnapTypes
<1>5. StandingType
  BY DEF Init, StandingType
<1> QED
  BY <1>2, <1>3, <1>4, <1>5, Types

\* To the next channel, or out of the round.
LEMMA ContinueTypes ==
    ASSUME ScriptTypes, NEW error \in BOOLEAN, Continue(error)
    PROVE  ScriptTypes'
<1>1. Channels \in Nat \ {0} /\ MaxUploads \in Nat
  BY BoundsAreNat
<1>2. pc' \in Places /\ channel' \in 1..Channels
  BY <1>1 DEF ScriptTypes, Continue, Places
<1>3. /\ latest_source' \in 0..MaxUploads /\ asked' \subseteq Architectures
      /\ store_snaps' \in [Architectures -> Versions \cup {0}]
  BY <1>1 DEF Continue, NoAnswer, NoVersion
<1>4. errors' \in BOOLEAN /\ exit' \in {0, 1}
  <2>1. CASE channel < Channels
    BY <2>1, Zenon DEF ScriptTypes, Continue
  <2>2. CASE ~(channel < Channels)
    BY <2>2, Zenon DEF ScriptTypes, Continue
  <2> QED
    BY <2>1, <2>2
<1> QED
  BY <1>2, <1>3, <1>4 DEF ScriptTypes

\* A round that is aborted keeps the types of the script.
LEMMA AbortTypes ==
    ASSUME ScriptTypes, Abort
    PROVE  ScriptTypes'
<1>1. Channels \in Nat \ {0} /\ MaxUploads \in Nat
  BY BoundsAreNat
<1>2. /\ pc' = "idle" /\ channel' \in 1..Channels
      /\ latest_source' \in 0..MaxUploads /\ asked' \subseteq Architectures
      /\ store_snaps' \in [Architectures -> Versions \cup {0}]
  BY <1>1 DEF Abort, NoAnswer
<1>3. errors' \in BOOLEAN /\ exit' \in {0, 1}
  BY DEF Abort
<1> QED
  BY <1>2, <1>3 DEF ScriptTypes, Places

\* From one place of the loop to another.
LEMMA GotoTypes ==
    ASSUME ScriptTypes, NEW place \in Places, Goto(place),
           latest_source' \in 0..MaxUploads, UNCHANGED <<store_snaps, asked>>
    PROVE  ScriptTypes'
<1>1. UNCHANGED errors
  BY Zenon DEF Goto
<1>2. pc' = place /\ UNCHANGED <<channel, exit>>
  BY Zenon DEF Goto
<1>3. errors' \in BOOLEAN
  BY <1>1, Zenon DEF ScriptTypes
<1> QED
  BY <1>2, <1>3, Zenon DEF ScriptTypes

\* What the script does with the store's answers, and that a difference in them is an error.
LEMMA ChecksStore ==
    ASSUME CheckStore
    PROVE  /\ pc = "store" /\ asked = This.processors
           /\ \E error \in BOOLEAN :
                /\ NonUniform(store_snaps) /\ ~This.non_uniform => error
                /\ \/ Continue(error)
                   \/ /\ pc' \in {"notices", "trigger"}
                      /\ errors' = (errors \/ error) /\ UNCHANGED <<channel, exit, answers>>
<1> DEFINE Error(differ) == differ \/ (NonUniform(store_snaps) /\ ~This.non_uniform)
<1>1. PICK differ \in BOOLEAN :
        \/ Continue(Error(differ))
        \/ /\ pc' \in {"notices", "trigger"}
           /\ errors' = (errors \/ Error(differ)) /\ UNCHANGED <<channel, exit, answers>>
  BY DEF CheckStore
<1>2. Error(differ) \in BOOLEAN
  OBVIOUS
<1>3. NonUniform(store_snaps) /\ ~This.non_uniform => Error(differ)
  OBVIOUS
<1> HIDE DEF Error
<1>4. pc = "store" /\ asked = This.processors
  BY DEF CheckStore
<1> QED
  BY <1>1, <1>2, <1>3, <1>4

\* A step of the script keeps the types.
LEMMA ScriptKeepsTypes ==
    ASSUME TypeOK, Script
    PROVE  TypeOK'
<1>1. ScriptTypes /\ PpaTypes /\ SnapTypes /\ StandingType
  BY Types
<1>2. UNCHANGED <<status, mir_version, build, recipes, store, notice, trouble>>
  BY DEF Script
<1>3. PpaTypes'
  BY <1>1, <1>2 DEF PpaTypes
<1>4. StandingType'
  BY <1>1 DEF Script, StandingType
<1>5. MaxUploads \in Nat /\ This.processors \subseteq Architectures
  BY <1>1, BoundsAreNat, SnapsAssumption DEF This, ScriptTypes
<1>6. job' \in [1..Channels -> [Architectures -> Jobs]]
  <2>1. job \in [1..Channels -> [Architectures -> Jobs]]
    BY <1>1 DEF SnapTypes
  <2>2. CASE RequestBuilds
    <3>1. job' = [job EXCEPT ![channel] = [p \in Architectures |->
                 IF p \in This.processors /\ job[channel][p].state = "idle"
                 THEN [job[channel][p] EXCEPT !.state = "requested"] ELSE job[channel][p]]]
      BY <2>2 DEF RequestBuilds
    <3>2. \A p \in Architectures : /\ job[channel][p] \in Jobs
                                   /\ [job[channel][p] EXCEPT !.state = "requested"] \in Jobs
      BY <1>1, <2>1 DEF Jobs, ScriptTypes
    <3>3. [p \in Architectures |->
             IF p \in This.processors /\ job[channel][p].state = "idle"
             THEN [job[channel][p] EXCEPT !.state = "requested"] ELSE job[channel][p]]
            \in [Architectures -> Jobs]
      BY <3>2
    <3> QED
      BY <2>1, <3>1, <3>3
  <2> QED
    BY <2>1, <2>2 DEF Script
<1>7. SnapTypes'
  <2>1. notice' \in [1..Channels -> [Architectures -> SUBSET Usns]]
    BY <1>1, <1>2, Zenon DEF SnapTypes
  <2> QED
    BY <1>1, <1>2, <1>6, <2>1 DEF SnapTypes
<1>8. ScriptTypes'
  <2>1. latest_source \in 0..MaxUploads
    BY <1>1 DEF ScriptTypes
  <2>2. ASSUME NEW place \in Places, Goto(place), UNCHANGED answers PROVE ScriptTypes'
    BY <1>1, <2>1, <2>2, GotoTypes DEF answers
  <2>3. CASE Start
    <3>1. UNCHANGED errors
      BY <2>3, Zenon DEF Start
    <3>2. pc' = "recipe" /\ exit' = 0 /\ UNCHANGED <<channel, latest_source, store_snaps, asked>>
      BY <2>3 DEF Start, answers
    <3>3. errors' \in BOOLEAN
      BY <1>1, <3>1, Zenon DEF ScriptTypes
    <3> QED
      BY <1>1, <3>2, <3>3 DEF ScriptTypes, Places
  <2>4. CASE GetRecipe
    BY <1>1, <2>2, <2>4, ContinueTypes DEF GetRecipe, Places
  <2>5. CASE GetSources
    <3>1. CASE Continue(FALSE)
      BY <1>1, <3>1, ContinueTypes
    <3>2. CASE Usable /\ Goto("builds") /\ latest_source' = Greatest(Candidates)
               /\ UNCHANGED <<store_snaps, asked>>
      <4>1. Candidates \in SUBSET Uploads /\ Candidates # {}
        BY <3>2 DEF Usable, Candidates
      <4>2. Greatest(Candidates) \in Uploads
        BY <4>1, GreatestIsMember
      <4> QED
        <5>1. "builds" \in Places
          BY DEF Places
        <5>2. latest_source' \in 0..MaxUploads
          BY <1>5, <3>2, <4>2 DEF Uploads
        <5> QED
          BY <1>1, <3>2, <5>1, <5>2, GotoTypes
    <3> QED
      BY <2>5, <3>1, <3>2 DEF GetSources
  <2>6. CASE GetBuilds
    BY <1>1, <2>2, <2>6, ContinueTypes DEF GetBuilds, Places
  <2>7. CASE GetBinaries
    BY <1>1, <2>2, <2>7, ContinueTypes DEF GetBinaries, Places
  <2>8. CASE PendingBuilds
    BY <1>1, <2>2, <2>8, ContinueTypes DEF PendingBuilds, Places
  <2>9. ASSUME NEW p \in Architectures, GetStoreSnap(p) PROVE ScriptTypes'
    <3>1. UNCHANGED errors
      BY <2>9, Zenon DEF GetStoreSnap
    <3>2. errors' \in BOOLEAN
      BY <1>1, <3>1, Zenon DEF ScriptTypes
    <3>3. store[channel][p] \in Versions \cup {0}
      BY <1>1 DEF ScriptTypes, SnapTypes
    <3>4. /\ store_snaps' = [store_snaps EXCEPT ![p] = store[channel][p]]
          /\ asked' = asked \cup {p}
          /\ UNCHANGED <<pc, channel, latest_source, exit>>
      BY <2>9 DEF GetStoreSnap
    <3> QED
      BY <1>1, <3>2, <3>3, <3>4 DEF ScriptTypes
  <2>10. CASE CheckStore
    <3>1. PICK error \in BOOLEAN :
            \/ Continue(error)
            \/ /\ pc' \in {"notices", "trigger"}
               /\ errors' = (errors \/ error) /\ UNCHANGED <<channel, exit, answers>>
      BY <2>10, ChecksStore, Zenon
    <3>2. CASE Continue(error)
      BY <1>1, <3>1, <3>2, ContinueTypes, Zenon
    <3>3. CASE /\ pc' \in {"notices", "trigger"}
               /\ errors' = (errors \/ error) /\ UNCHANGED <<channel, exit, answers>>
      <4>1. errors' \in BOOLEAN
        BY <3>3
      <4>2. /\ pc' \in {"notices", "trigger"}
            /\ UNCHANGED <<channel, exit, latest_source, store_snaps, asked>>
        BY <3>3 DEF answers
      <4> QED
        BY <1>1, <4>1, <4>2 DEF ScriptTypes, Places
    <3> QED
      BY <3>1, <3>2, <3>3
  <2>11. CASE CheckNotices
    BY <1>1, <2>2, <2>11, ContinueTypes, AbortTypes DEF CheckNotices, Places
  <2>12. CASE RequestBuilds
    BY <1>1, <2>12, ContinueTypes DEF RequestBuilds
  <2> QED
    BY <2>3, <2>4, <2>5, <2>6, <2>7, <2>8, <2>9, <2>10, <2>11, <2>12 DEF Script, Ask
<1> QED
  BY <1>3, <1>4, <1>7, <1>8, Types, PTL

\* What goes on elsewhere leaves the script where it is.
LEMMA ElsewhereKeeps ==
    ASSUME TypeOK, Elsewhere
    PROVE  ScriptTypes' /\ StandingType' /\ UNCHANGED scriptVars
<1>1. ScriptTypes /\ StandingType
  BY Types
<1>2. UNCHANGED scriptVars
  BY DEF Elsewhere
<1>3. UNCHANGED errors
  BY <1>2, Zenon DEF scriptVars
<1>4. errors' \in BOOLEAN
  BY <1>1, <1>3, Zenon DEF ScriptTypes
<1>5. UNCHANGED <<pc, channel, latest_source, store_snaps, asked, exit>>
  BY <1>2 DEF scriptVars
<1>6. standing' \subseteq standing
  BY DEF Elsewhere
<1> QED
  BY <1>1, <1>2, <1>4, <1>5, <1>6 DEF ScriptTypes, StandingType

\* A step of the PPA keeps the types.
LEMMA PpaKeepsTypes ==
    ASSUME TypeOK, InOrder, NEW u \in Uploads, PpaStep(u)
    PROVE  TypeOK'
<1>1. PpaTypes /\ SnapTypes /\ MaxUploads \in Nat
  BY Types, BoundsAreNat
<1>2. PpaOnly
  BY DEF PpaStep, Upload, PublishSource, Delete, BuildEnds, Retry, PublishBinary
<1>3. ScriptTypes' /\ StandingType'
  BY <1>2, ElsewhereKeeps DEF PpaOnly
<1>4. SnapTypes'
  <2>1. UNCHANGED <<recipes, job, store, notice, trouble>>
    BY <1>2 DEF PpaOnly
  <2>2. notice' \in [1..Channels -> [Architectures -> SUBSET Usns]]
    BY <1>1, <2>1, Zenon DEF SnapTypes
  <2> QED
    BY <1>1, <2>1, <2>2 DEF SnapTypes
<1>5. CASE Upload(u)
  <2>1. u # 1 /\ u - 1 \in Uploads
    BY <1>1, <1>5 DEF Upload, InOrder, Uploads
  <2>2. PICK v \in {mir_version[u - 1], u, Unparsed} : mir_version' = [mir_version EXCEPT ![u] = v]
    BY <1>5 DEF Upload
  <2>3. v \in Versions
    BY <1>1, <2>1, <2>2, VersionsAre DEF PpaTypes
  <2>4. PpaTypes'
    BY <1>1, <1>5, <2>2, <2>3 DEF PpaTypes, Upload
  <2> QED
    BY <1>3, <1>4, <2>4, Types, PTL
<1>6. CASE PublishSource(u) \/ Delete(u)
  <2>1. PpaTypes'
    BY <1>1, <1>6 DEF PpaTypes, PublishSource, Delete
  <2> QED
    BY <1>3, <1>4, <2>1, Types, PTL
<1>7. CASE ~(Upload(u) \/ PublishSource(u) \/ Delete(u))
  <2>1. PICK q \in Architectures :
          \/ \E r \in {"Pending", "Failed to build", "other"} : BuildEnds(u, q, r)
          \/ Retry(u, q) \/ PublishBinary(u, q)
    BY <1>7 DEF PpaStep
  <2>2. UNCHANGED <<status, mir_version>>
    BY <2>1 DEF BuildEnds, Retry, PublishBinary
  <2>3. build' \in [Uploads -> [Architectures -> States]]
    <3>1. build \in [Uploads -> [Architectures -> States]]
      BY <1>1 DEF PpaTypes
    <3>2. CASE Retry(u, q)
      BY <3>1, <3>2 DEF Retry, States
    <3>3. CASE PublishBinary(u, q)
      BY <3>1, <3>3 DEF PublishBinary, States
    <3>4. ASSUME NEW r \in {"Pending", "Failed to build", "other"}, BuildEnds(u, q, r)
          PROVE  build' \in [Uploads -> [Architectures -> States]]
      BY <3>1, <3>4 DEF BuildEnds, States
    <3> QED
      BY <2>1, <3>2, <3>3, <3>4
  <2>4. PpaTypes'
    BY <1>1, <2>2, <2>3 DEF PpaTypes
  <2> QED
    BY <1>3, <1>4, <2>4, Types, PTL
<1> QED
  BY <1>5, <1>6, <1>7

\* What a build of the snap can be given is a version.
LEMMA OfferedAreVersions ==
    ASSUME TypeOK, NEW c \in 1..Channels, NEW p \in Architectures
    PROVE  Offered(c, p) \subseteq Versions
<1>1. CASE SnapMap[c].ppa /\ Archive(p) # {}
  <2>1. Archive(p) \in SUBSET Uploads
    BY DEF Archive
  <2>2. Greatest(Archive(p)) \in Uploads
    BY <1>1, <2>1, GreatestIsMember
  <2>3. mir_version[Greatest(Archive(p))] \in Versions
    BY <2>2, Types DEF PpaTypes
  <2> QED
    BY <1>1, <2>3 DEF Offered
<1> QED
  BY <1>1 DEF Offered

\* A step of the snap store keeps the types.
LEMMA SnapKeepsTypes ==
    ASSUME TypeOK, NEW c \in 1..Channels, SnapStep(c)
    PROVE  TypeOK'
<1>1. PpaTypes /\ SnapTypes
  BY Types
<1>2. SnapOnly
  BY DEF SnapStep, Dispatch, JobBuilt, JobFails, Release, Usn
<1>3. ScriptTypes' /\ StandingType'
  BY <1>2, ElsewhereKeeps DEF SnapOnly
<1>4. PpaTypes' /\ UNCHANGED recipes
  BY <1>1, <1>2 DEF SnapOnly, PpaTypes
<1>5. MaxTrouble \in Nat
  BY SnapsAssumption, Zenon
<1>6. trouble' \in 0..MaxTrouble
  BY <1>1, <1>5 DEF SnapTypes, SnapStep, Dispatch, JobBuilt, JobFails, Release, Usn
<1>7. ASSUME NEW p \in Architectures,
             Dispatch(c, p) \/ JobBuilt(c, p) \/ JobFails(c, p) \/ Release(c, p)
      PROVE  /\ job' \in [1..Channels -> [Architectures -> Jobs]]
             /\ store' \in [1..Channels -> [Architectures -> Versions \cup {0}]]
             /\ notice' \in [1..Channels -> [Architectures -> SUBSET Usns]]
  <2>1. /\ job[c] \in [Architectures -> Jobs] /\ job[c][p] \in Jobs
        /\ job[c][p].built \in Versions \cup {0}
    BY <1>1 DEF SnapTypes, Jobs
  <2>2. \E j \in Jobs : job' = [job EXCEPT ![c] = [job[c] EXCEPT ![p] = j]]
    <3>1. CASE Dispatch(c, p)
      <4>1. [job[c][p] EXCEPT !.state = "building"] \in Jobs
        BY <2>1 DEF Jobs
      <4> QED
        BY <3>1, <4>1 DEF Dispatch
    <3>2. CASE JobBuilt(c, p)
      <4>1. PICK mir \in Offered(c, p) :
              job' = [job EXCEPT ![c][p] = [state |-> "idle", built |-> mir]]
        BY <3>2 DEF JobBuilt
      <4>2. [state |-> "idle", built |-> mir] \in Jobs
        BY <4>1, OfferedAreVersions DEF Jobs
      <4> QED
        BY <4>1, <4>2
    <3>3. CASE JobFails(c, p)
      <4>1. [job[c][p] EXCEPT !.state = "idle"] \in Jobs
        BY <2>1 DEF Jobs
      <4> QED
        BY <3>3, <4>1 DEF JobFails
    <3>4. CASE Release(c, p)
      <4>1. [job[c][p] EXCEPT !.built = 0] \in Jobs
        BY <2>1 DEF Jobs
      <4> QED
        BY <3>4, <4>1 DEF Release
    <3> QED
      BY <1>7, <3>1, <3>2, <3>3, <3>4
  <2>3. job' \in [1..Channels -> [Architectures -> Jobs]]
    BY <1>1, <2>1, <2>2 DEF SnapTypes
  <2>4. store' \in [1..Channels -> [Architectures -> Versions \cup {0}]]
    BY <1>1, <1>7, <2>1 DEF SnapTypes, Dispatch, JobBuilt, JobFails, Release
  <2>5. notice' \in [1..Channels -> [Architectures -> SUBSET Usns]]
    <3>1. CASE Release(c, p)
      <4>1. notice' = [notice EXCEPT ![c][p] = {}]
        BY <3>1 DEF Release
      <4> QED
        BY <1>1, <4>1 DEF SnapTypes
    <3>2. CASE Dispatch(c, p) \/ JobBuilt(c, p) \/ JobFails(c, p)
      <4>1. UNCHANGED notice
        BY <3>2 DEF Dispatch, JobBuilt, JobFails
      <4> QED
        BY <1>1, <4>1, Zenon DEF SnapTypes
    <3> QED
      BY <1>7, <3>1, <3>2
  <2> QED
    BY <2>3, <2>4, <2>5
<1>8. ASSUME NEW batch \in Batches, Usn(c, batch)
      PROVE  /\ job' \in [1..Channels -> [Architectures -> Jobs]]
             /\ store' \in [1..Channels -> [Architectures -> Versions \cup {0}]]
             /\ notice' \in [1..Channels -> [Architectures -> SUBSET Usns]]
  <2>1. /\ UNCHANGED <<job, store>>
        /\ notice' = [notice EXCEPT ![c] = [p \in Architectures |->
              IF p \in DOMAIN batch THEN notice[c][p] \cup {batch[p]} ELSE notice[c][p]]]
    BY <1>8 DEF Usn
  <2>2. \A p \in DOMAIN batch : batch[p] \in Usns
    <3>1. batch \in UNION {[P -> Usns] : P \in SUBSET Architectures}
      BY SnapsAssumption
    <3>2. PICK P \in SUBSET Architectures : batch \in [P -> Usns]
      BY <3>1
    <3> QED
      BY <3>2
  <2>3. notice' \in [1..Channels -> [Architectures -> SUBSET Usns]]
    <3>1. notice \in [1..Channels -> [Architectures -> SUBSET Usns]]
      BY <1>1, Zenon DEF SnapTypes
    <3>2. [p \in Architectures |->
              IF p \in DOMAIN batch THEN notice[c][p] \cup {batch[p]} ELSE notice[c][p]]
            \in [Architectures -> SUBSET Usns]
      BY <2>2, <3>1
    <3> QED
      BY <2>1, <3>1, <3>2
  <2> QED
    BY <1>1, <2>1, <2>3 DEF SnapTypes
<1>9. SnapTypes'
  BY <1>1, <1>4, <1>6, <1>7, <1>8 DEF SnapTypes, SnapStep
<1> QED
  BY <1>3, <1>4, <1>9, Types, PTL

\* A crash ends the round.
LEMMA CrashKeepsTypes ==
    ASSUME TypeOK, Crash
    PROVE  TypeOK'
<1>1. ScriptTypes /\ PpaTypes /\ SnapTypes /\ StandingType
  BY Types
<1>2. UNCHANGED <<status, mir_version, build, recipes, job, store, notice, standing>>
  BY DEF Crash
<1>3. ScriptTypes'
  BY <1>1, AbortTypes DEF Crash
<1>4. trouble' \in 0..MaxTrouble
  <2>1. MaxTrouble \in Nat
    BY SnapsAssumption, Zenon
  <2> QED
    BY <1>1, <2>1 DEF SnapTypes, Crash
<1>5. notice' \in [1..Channels -> [Architectures -> SUBSET Usns]]
  BY <1>1, <1>2, Zenon DEF SnapTypes
<1>6. SnapTypes' /\ PpaTypes' /\ StandingType'
  BY <1>1, <1>2, <1>4, <1>5 DEF SnapTypes, PpaTypes, StandingType
<1> QED
  BY <1>3, <1>6, Types, PTL

-----------------------------------------------------------------------------
(* What is wrong all the round *)

\* The latest source is one of the uploads, and the last of those that are not deleted.
LEMMA LatestSource ==
    ASSUME TypeOK, Usable
    PROVE  /\ Greatest(Candidates) \in Candidates /\ Candidates \subseteq Uploads
           /\ \A w \in Candidates : w <= Greatest(Candidates)
           /\ status[Greatest(Candidates)] = "Published"
<1>1. Candidates \in SUBSET Uploads /\ Candidates # {}
  BY DEF Usable, Candidates
<1> QED
  BY <1>1, GreatestIsMember DEF Usable

\* What is wrong with the builds or the versions of a snap from the PPA is about an upload
\* that something has been built of, so that it is not withdrawn.
LEMMA WrongIsBuilt ==
    ASSUME NEW c \in 1..Channels, NEW r \in {"build", "versions"}, Wrong(c, r), SnapMap[c].ppa
    PROVE  /\ Usable
           /\ \E p \in Architectures : build[Greatest(Candidates)][p] # "Needs building"
<1>1. CASE r = "build"
  BY <1>1 DEF Wrong, Failed
<1>2. CASE r = "versions"
  <2>1. Settled(c) /\ NonUniform(Asked(store[c], c))
    BY <1>2 DEF Wrong
  <2>2. PICK p \in InStore(Asked(store[c], c)) : TRUE
    BY <2>1 DEF NonUniform
  <2>3. p \in Architectures /\ p \in SnapMap[c].processors
    BY <2>2 DEF InStore, Asked
  <2>4. Usable /\ build[Greatest(Candidates)][p] = "Published"
    BY <2>1, <2>3 DEF Settled
  <2> QED
    BY <2>3, <2>4
<1> QED
  BY <1>1, <1>2

\* While there is something built of the latest source and it is usable, it is the same one.
LEMMA SameUpload ==
    ASSUME TypeOK, InOrder, NEW u \in Uploads, PpaStep(u), Usable, Usable',
           \E p \in Architectures : build[Greatest(Candidates)][p] # "Needs building"
    PROVE  Greatest(Candidates') = Greatest(Candidates)
<1> DEFINE g == Greatest(Candidates)
<1>1. /\ g \in Candidates /\ g \in Uploads /\ Candidates \subseteq Uploads
      /\ \A w \in Candidates : w <= g
  BY LatestSource
<1>2. PpaTypes /\ MaxUploads \in Nat
  BY Types, BoundsAreNat
<1> HIDE DEF g
<1>3. CASE Upload(u)
  <2>1. status[u] = "none" /\ status' = [status EXCEPT ![u] = "Pending"]
    BY <1>3 DEF Upload
  <2>2. Candidates' = Candidates \cup {u}
    BY <1>2, <2>1 DEF Candidates, PpaTypes
  <2>3. \A w \in Candidates : w <= u
    <3> SUFFICES ASSUME NEW w \in Candidates, ~(w <= u) PROVE FALSE
      OBVIOUS
    <3>1. w \in Uploads /\ u < w
      <4>1. w \in Uploads
        BY <1>1
      <4>2. w \in Nat /\ u \in Nat
        BY <4>1, UploadsAreNat
      <4> QED
        BY <4>1, <4>2, LaterOrNot, Zenon
    <3>2. status[w] = "none"
      BY <2>1, <3>1 DEF InOrder
    <3> QED
      BY <3>2 DEF Candidates
  <2>4. \A w \in Candidates' : w <= u
    <3>1. u \in Nat
      BY UploadsAreNat
    <3>2. u <= u
      BY <3>1, LaterOrNot, Zenon
    <3> QED
      BY <2>2, <2>3, <3>2
  <2>5. Greatest(Candidates') = u
    BY <1>1, <2>2, <2>4, GreatestIsUnique
  <2>6. status'[u] = "Pending"
    BY <1>2, <2>1 DEF PpaTypes
  <2>7. (status')[Greatest(Candidates')] = "Published"
    BY DEF Usable
  <2> QED
    BY <2>5, <2>6, <2>7
<1>4. CASE PublishSource(u)
  <2>1. Candidates' = Candidates
    <3>1. \A w \in Uploads : status'[w] \in {"none", "Deleted"} <=> status[w] \in {"none", "Deleted"}
      BY <1>2, <1>4 DEF PublishSource, PpaTypes
    <3> QED
      BY <3>1 DEF Candidates
  <2> QED
    BY <2>1
<1>5. CASE Delete(u)
  <2>1. /\ \A p \in Architectures : build[u][p] = "Needs building"
        /\ status' = [status EXCEPT ![u] = "Deleted"]
    BY <1>5 DEF Delete
  <2>2. u # g
    BY <2>1 DEF g
  <2>3. Candidates' = Candidates \ {u}
    BY <1>2, <2>1 DEF Candidates, PpaTypes
  <2>4. g \in Candidates' /\ Candidates' \subseteq Uploads /\ \A w \in Candidates' : w <= g
    BY <1>1, <2>2, <2>3
  <2>5. Greatest(Candidates') = g
    BY <2>4, GreatestIsUnique
  <2> QED
    BY <2>5 DEF g
<1>6. CASE ~(Upload(u) \/ PublishSource(u) \/ Delete(u))
  <2>1. UNCHANGED status
    BY <1>6 DEF PpaStep, BuildEnds, Retry, PublishBinary
  <2> QED
    BY <2>1 DEF Candidates
<1> QED
  BY <1>3, <1>4, <1>5, <1>6

\* The script itself puts nothing right.
LEMMA ScriptKeepsWrong ==
    ASSUME TypeOK, Script, NEW c \in 1..Channels, NEW r \in Reasons, Wrong(c, r)
    PROVE  Wrong(c, r)'
<1>1. UNCHANGED <<status, mir_version, build, recipes, store>>
  BY DEF Script
<1>2. SnapBuildPending(c)' => SnapBuildPending(c)
  <2>1. CASE UNCHANGED job
    BY <2>1 DEF SnapBuildPending
  <2>2. CASE RequestBuilds
    <3>1. /\ job \in [1..Channels -> [Architectures -> Jobs]] /\ channel \in 1..Channels
          /\ SnapMap[c].processors \subseteq Architectures
      BY Types, SnapsAssumption DEF SnapTypes, ScriptTypes
    <3>2. \A p \in Architectures : job'[c][p].state = "building" => job[c][p].state = "building"
      BY <2>2, <3>1 DEF RequestBuilds, Jobs
    <3> QED
      BY <3>1, <3>2 DEF SnapBuildPending
  <2> QED
    BY <2>1, <2>2 DEF Script
<1>3. (Usable' <=> Usable) /\ Candidates' = Candidates
  BY <1>1 DEF Usable, Candidates
<1>4. \A u : Failed(u)' <=> Failed(u)
  BY <1>1 DEF Failed
<1>5. Settled(c)' <=> Settled(c)
  BY <1>1, <1>3, <1>4 DEF Settled
<1>6. CASE r = "recipe"
  BY <1>1, <1>6 DEF Wrong
<1>7. CASE r = "build"
  BY <1>3, <1>4, <1>7 DEF Wrong
<1>8. CASE r = "versions"
  <2>1. NonUniform(Asked(store[c], c))' <=> NonUniform(Asked(store[c], c))
    BY <1>1 DEF NonUniform, Asked, InStore
  <2> QED
    BY <1>2, <1>5, <1>8, <2>1 DEF Wrong
<1> QED
  BY <1>6, <1>7, <1>8 DEF Reasons

\* What Counted says of one channel, at a place of the script.
Led(s, place) ==
    /\ place \in {"notices", "trigger"} => errors
    /\ s[2] = "recipe" => place = "recipe"
    /\ s[2] = "build" => place \in {"recipe", "sources", "builds"}
    /\ This.ppa /\ place \notin {"recipe", "sources"} => latest_source = Greatest(Candidates)
    /\ place = "store" => \A p \in asked : store_snaps[p] = store[channel][p]

\* Counted, one channel and reason at a time.
Followed(s) ==
    /\ Wrong(s[1], s[2])
    /\ s[1] < channel => errors
    /\ s[1] = channel => Led(s, pc)

AllFollowed == pc # "idle" => \A s \in standing : Followed(s)

\* Counted, under a name that temporal reasoning can prime.
LEMMA CountedIs == Counted <=> AllFollowed
  BY DEF Counted, AllFollowed, Followed, Led

\* What it is for a reason to stand.
LEMMA CountedMeans ==
    ASSUME Counted, pc # "idle", NEW s \in standing
    PROVE  /\ Wrong(s[1], s[2])
           /\ s[1] < channel => errors
           /\ s[1] = channel => Led(s, pc)
  BY DEF Counted, Led

\* A reason stands for a channel.
LEMMA StandingIs ==
    ASSUME TypeOK, NEW s \in standing
    PROVE  s[1] \in 1..Channels /\ s[2] \in Reasons
  BY Types DEF StandingType

\* The script takes nothing off the list of what is wrong.
LEMMA ScriptKeepsStanding ==
    ASSUME TypeOK, Counted, Script, pc # "idle"
    PROVE  /\ standing' = standing
           /\ \A s \in standing : Wrong(s[1], s[2]) /\ Wrong(s[1], s[2])'
<1>1. standing' = standing
  BY DEF Script
<1>2. ASSUME NEW s \in standing PROVE Wrong(s[1], s[2]) /\ Wrong(s[1], s[2])'
  <2>1. Wrong(s[1], s[2])
    BY CountedMeans
  <2> QED
    BY <2>1, StandingIs, ScriptKeepsWrong
<1> QED
  BY <1>1, <1>2

\* From one place of the loop to another, for the same channel.
LEMMA MoveCounts ==
    ASSUME TypeOK, Counted, Script, pc # "idle", pc' # "idle", UNCHANGED channel,
           errors => errors', \A s \in standing : s[1] = channel => Led(s, pc)'
    PROVE  Counted' /\ ErrorsTurnRed'
<1>1. /\ standing' = standing
      /\ \A s \in standing : Wrong(s[1], s[2])'
  BY ScriptKeepsStanding
<1>2. \A s \in standing : s[1] < channel => errors
  BY CountedMeans
<1>3. \A s \in standing' : Followed(s)'
  BY <1>1, <1>2 DEF Followed
<1>4. AllFollowed'
  BY <1>3 DEF AllFollowed
<1>5. Counted'
  BY <1>4, CountedIs, PTL
<1> QED
  BY <1>5 DEF ErrorsTurnRed

\* A channel is left with an error for what was wrong all the time, or with errors before it.
LEMMA ContinueCounts ==
    ASSUME TypeOK, Counted, Script, pc # "idle", NEW error \in BOOLEAN, Continue(error),
           \A s \in standing : s[1] = channel => errors \/ error
    PROVE  Counted' /\ ErrorsTurnRed'
<1>1. Channels \in Nat \ {0} /\ channel \in 1..Channels
  BY BoundsAreNat, Types DEF ScriptTypes
<1>2. ASSUME NEW s \in standing, s[1] <= channel PROVE errors \/ error
  <2>1. s[1] \in 1..Channels
    BY StandingIs
  <2>2. s[1] < channel \/ s[1] = channel
    BY <1>1, <1>2, <2>1
  <2>3. s[1] < channel => errors
    BY CountedMeans
  <2> QED
    BY <2>2, <2>3
<1>3. /\ standing' = standing
      /\ \A s \in standing : Wrong(s[1], s[2])'
  BY ScriptKeepsStanding
<1>4. CASE channel < Channels
  <2>1. pc' = "recipe" /\ channel' = channel + 1 /\ errors' = (errors \/ error)
    BY <1>4 DEF Continue
  <2>2. ASSUME NEW s \in standing'
        PROVE  /\ Wrong(s[1], s[2])'
               /\ s[1] < channel' => errors'
               /\ s[1] = channel' => Led(s, pc)'
    <3>1. Wrong(s[1], s[2])'
      BY <1>3
    <3>2. s[1] < channel' => errors'
      <4>1. s \in standing /\ s[1] \in 1..Channels
        BY <1>3, StandingIs
      <4>2. s[1] < channel' => s[1] <= channel
        BY <1>1, <2>1, <4>1
      <4> QED
        BY <1>2, <2>1, <4>1, <4>2
    <3>3. Led(s, pc)'
      BY <2>1 DEF Led
    <3> QED
      BY <3>1, <3>2, <3>3
  <2>3. AllFollowed'
    BY <2>2 DEF AllFollowed, Followed
  <2>4. Counted'
    BY <2>3, CountedIs, PTL
  <2> QED
    BY <2>1, <2>4 DEF ErrorsTurnRed
<1>5. CASE ~(channel < Channels)
  <2>1. pc' = "idle" /\ exit' = IF errors \/ error THEN 1 ELSE 0
    BY <1>5 DEF Continue
  <2>2. channel = Channels
    BY <1>1, <1>5
  <2>3. standing # {} => errors \/ error
    <3> SUFFICES ASSUME NEW s \in standing PROVE errors \/ error
      OBVIOUS
    <3>1. s[1] \in 1..Channels
      BY StandingIs
    <3>2. s[1] <= channel
      BY <1>1, <2>2, <3>1
    <3> QED
      BY <1>2, <3>2
  <2>4. Counted'
    BY <2>1 DEF Counted
  <2> QED
    BY <1>3, <2>1, <2>3, <2>4 DEF ErrorsTurnRed
<1> QED
  BY <1>4, <1>5

\* A round begins with nothing behind it.
LEMMA StartCounts ==
    ASSUME TypeOK, InOrder, Script, Start
    PROVE  Counted' /\ ErrorsTurnRed'
<1>1. pc = "idle" /\ pc' = "recipe" /\ channel' = 1
  BY DEF Start, InOrder
<1>2. standing' = {s \in (1..Channels) \X Reasons : Wrong(s[1], s[2])}
  BY <1>1 DEF Script
<1>3. ASSUME NEW s \in standing'
      PROVE  /\ Wrong(s[1], s[2])'
             /\ s[1] < channel' => errors'
             /\ s[1] = channel' => Led(s, pc)'
  <2>1. s[1] \in 1..Channels /\ s[2] \in Reasons /\ Wrong(s[1], s[2])
    BY <1>2
  <2>2. Wrong(s[1], s[2])'
    BY <2>1, ScriptKeepsWrong
  <2>3. ~(s[1] < channel')
    BY <1>1, <2>1, BoundsAreNat
  <2>4. Led(s, pc)'
    BY <1>1 DEF Led
  <2> QED
    BY <2>2, <2>3, <2>4
<1>4. AllFollowed'
  BY <1>3 DEF AllFollowed, Followed
<1>5. Counted'
  BY <1>4, CountedIs, PTL
<1> QED
  BY <1>1, <1>5 DEF ErrorsTurnRed

\* The script and the order: a round begins with the first channel, and a channel with no answers.
LEMMA ScriptKeepsOrder ==
    ASSUME TypeOK, InOrder, Script
    PROVE  InOrder'
<1>1. UNCHANGED status
  BY DEF Script
<1> SUFFICES /\ pc' = "idle" => channel' = 1
             /\ pc' \in {"sources", "builds", "binaries"} => This.ppa'
             /\ ~This.ppa' => latest_source' = 0
             /\ pc' \notin {"store", "notices", "trigger"} => asked' = {}
  BY <1>1 DEF InOrder
<1>2. ASSUME NEW error \in BOOLEAN, Continue(error)
      PROVE  /\ pc' \in {"recipe", "idle"} /\ asked' = {} /\ latest_source' = 0
             /\ pc' = "idle" => channel' = 1
  BY <1>2 DEF Continue, NoVersion
<1>3. CASE Abort
  BY <1>3 DEF Abort
<1>0. ~This.ppa => latest_source = 0
  BY DEF InOrder
<1>4. ASSUME NEW place \in Places \ {"idle"}, Goto(place), UNCHANGED answers,
             place \in {"sources", "builds", "binaries"} => This.ppa, asked = {}
      PROVE  /\ pc' # "idle" /\ asked' = {}
             /\ pc' \in {"sources", "builds", "binaries"} => This.ppa'
             /\ ~This.ppa' => latest_source' = 0
  BY <1>0, <1>4 DEF Goto, answers, This
<1>5. CASE Start
  <2>1. pc = "idle" /\ pc' = "recipe" /\ UNCHANGED <<channel, latest_source, asked>>
    BY <1>5 DEF Start, answers
  <2> QED
    BY <2>1 DEF InOrder, This
<1>6. CASE GetRecipe
  <2>1. CASE Continue(TRUE)
    BY <1>2, <2>1
  <2>2. CASE Goto(IF This.ppa THEN "sources" ELSE "snap_builds") /\ UNCHANGED answers
    <3>1. asked = {}
      BY <1>6 DEF GetRecipe, InOrder
    <3> QED
      BY <1>4, <2>2, <3>1 DEF Places
  <2> QED
    BY <1>6, <2>1, <2>2 DEF GetRecipe
<1>7. CASE GetSources
  <2>1. CASE Continue(FALSE)
    BY <1>2, <2>1
  <2>2. CASE Goto("builds") /\ UNCHANGED asked
    BY <1>7, <2>2 DEF GetSources, Goto, InOrder, This
  <2> QED
    BY <1>7, <2>1, <2>2 DEF GetSources
<1>8. CASE GetBuilds \/ GetBinaries \/ PendingBuilds
  <2>1. CASE \E error \in BOOLEAN : Continue(error)
    BY <1>2, <2>1
  <2>2. CASE /\ UNCHANGED answers
             /\ \/ pc = "builds" /\ Goto("binaries")
                \/ pc = "binaries" /\ Goto("snap_builds")
    <3>1. asked = {} /\ This.ppa
      BY <2>2 DEF InOrder
    <3> QED
      BY <1>4, <2>2, <3>1 DEF Places
  <2>3. CASE /\ UNCHANGED answers
             /\ pc = "snap_builds" /\ Goto("store")
    BY <1>0, <2>3 DEF Goto, answers, This
  <2> QED
    BY <1>8, <2>1, <2>2, <2>3 DEF GetBuilds, GetBinaries, PendingBuilds
<1>9. CASE \E p \in Architectures : GetStoreSnap(p)
  BY <1>0, <1>9 DEF GetStoreSnap, This
<1>10. CASE CheckStore
  <2>1. PICK error \in BOOLEAN : \/ Continue(error)
                                 \/ /\ pc' \in {"notices", "trigger"}
                                    /\ UNCHANGED <<channel, answers>>
    BY <1>10, ChecksStore
  <2> QED
    BY <1>0, <1>2, <2>1 DEF answers, This
<1>11. CASE CheckNotices
  <2>1. CASE \E error \in BOOLEAN : Continue(error)
    BY <1>2, <2>1
  <2>2. CASE Goto("trigger") /\ UNCHANGED answers
    BY <1>0, <2>2 DEF Goto, answers, This
  <2> QED
    BY <1>3, <1>11, <2>1, <2>2 DEF CheckNotices
<1>12. CASE RequestBuilds
  BY <1>2, <1>12 DEF RequestBuilds
<1> QED
  BY <1>5, <1>6, <1>7, <1>8, <1>9, <1>10, <1>11, <1>12 DEF Script, Ask

\* The script counts what is wrong with each channel before it goes on to the next.
LEMMA ScriptCounts ==
    ASSUME TypeOK, InOrder, Counted, Script
    PROVE  Counted' /\ ErrorsTurnRed'
<1>1. CASE Start
  BY <1>1, StartCounts
<1>2. ASSUME pc # "idle", NEW s \in standing, s[1] = channel
      PROVE  /\ s[2] \in Reasons /\ channel \in 1..Channels
             /\ Wrong(channel, s[2]) /\ Led(s, pc)
  BY <1>2, CountedMeans, StandingIs
<1>3. UNCHANGED <<status, mir_version, build, recipes, store>>
  BY DEF Script
<1>4. Candidates' = Candidates
  BY <1>3 DEF Candidates
<1>5. CASE GetRecipe
  <2>1. pc = "recipe"
    BY <1>5 DEF GetRecipe
  <2>2. CASE Continue(TRUE)
    BY <2>1, <2>2, ContinueCounts
  <2>3. CASE /\ channel \in recipes /\ UNCHANGED answers
             /\ Goto(IF This.ppa THEN "sources" ELSE "snap_builds")
    <3>1. /\ pc' = IF This.ppa THEN "sources" ELSE "snap_builds"
          /\ UNCHANGED <<channel, errors>>
      BY <2>3 DEF Goto
    <3>2. ASSUME NEW s \in standing, s[1] = channel PROVE Led(s, pc)'
      <4>1. Wrong(channel, s[2])
        BY <1>2, <2>1, <3>2
      <4>2. s[2] # "recipe" /\ (s[2] = "build" => This.ppa)
        BY <2>3, <4>1 DEF Wrong, This
      <4> QED
        BY <3>1, <4>2 DEF Led, This
    <3> QED
      BY <2>1, <3>1, <3>2, MoveCounts
  <2> QED
    BY <1>5, <2>2, <2>3 DEF GetRecipe
<1>6. CASE GetSources
  <2>1. pc = "sources" /\ This.ppa
    BY <1>6 DEF GetSources, InOrder
  <2>2. ASSUME NEW s \in standing, s[1] = channel PROVE Usable /\ s[2] # "recipe"
    <3>1. Wrong(channel, s[2]) /\ Led(s, pc) /\ s[2] \in Reasons /\ channel \in 1..Channels
      BY <1>2, <2>1, <2>2
    <3>2. s[2] # "recipe"
      BY <2>1, <3>1 DEF Led
    <3> QED
      BY <2>1, <3>1, <3>2, WrongIsBuilt DEF Reasons, This
  <2>3. CASE ~Usable /\ Continue(FALSE)
    BY <2>1, <2>2, <2>3, ContinueCounts
  <2>4. CASE /\ Goto("builds") /\ latest_source' = Greatest(Candidates)
    <3>1. pc' = "builds" /\ UNCHANGED <<channel, errors>>
      BY <2>4 DEF Goto
    <3>2. ASSUME NEW s \in standing, s[1] = channel PROVE Led(s, pc)'
      BY <1>4, <2>2, <2>4, <3>1, <3>2 DEF Led
    <3> QED
      BY <2>1, <3>1, <3>2, MoveCounts
  <2> QED
    BY <1>6, <2>3, <2>4 DEF GetSources
<1>7. CASE GetBuilds
  <2>1. pc = "builds" /\ This.ppa
    BY <1>7 DEF GetBuilds, InOrder
  <2>2. ASSUME NEW s \in standing, s[1] = channel, ~Failed(latest_source)
        PROVE  /\ s[2] = "versions" /\ Settled(channel)
               /\ latest_source = Greatest(Candidates)
    <3>1. Wrong(channel, s[2]) /\ Led(s, pc) /\ s[2] \in Reasons
      BY <1>2, <2>1, <2>2
    <3>2. s[2] # "recipe" /\ latest_source = Greatest(Candidates)
      BY <2>1, <3>1 DEF Led
    <3>3. s[2] # "build"
      BY <2>2, <3>1, <3>2 DEF Wrong
    <3> QED
      BY <3>1, <3>2, <3>3 DEF Wrong, Reasons
  <2>3. CASE Failed(latest_source) /\ Continue(TRUE)
    BY <2>1, <2>3, ContinueCounts
  <2>4. CASE ~Failed(latest_source) /\ BuildPending(latest_source, channel) /\ Continue(FALSE)
    <3>1. ASSUME NEW s \in standing, s[1] = channel PROVE FALSE
      BY <2>1, <2>2, <2>4, <3>1 DEF Settled, BuildPending, This
    <3> QED
      BY <2>1, <2>4, <3>1, ContinueCounts
  <2>5. CASE ~Failed(latest_source) /\ Goto("binaries") /\ UNCHANGED answers
    <3>1. pc' = "binaries" /\ UNCHANGED <<channel, errors, latest_source>>
      BY <2>5 DEF Goto, answers
    <3>2. ASSUME NEW s \in standing, s[1] = channel PROVE Led(s, pc)'
      BY <1>4, <2>2, <2>5, <3>1, <3>2 DEF Led
    <3> QED
      BY <2>1, <3>1, <3>2, MoveCounts
  <2> QED
    BY <1>7, <2>3, <2>4, <2>5 DEF GetBuilds
<1>8. ASSUME pc \in {"binaries", "snap_builds", "store"}, NEW s \in standing, s[1] = channel
      PROVE  /\ s[2] = "versions" /\ Led(s, pc)
             /\ ~This.non_uniform /\ Settled(channel) /\ ~SnapBuildPending(channel)
             /\ NonUniform(Asked(store[channel], channel))
  <2>1. Wrong(channel, s[2]) /\ Led(s, pc) /\ s[2] \in Reasons
    BY <1>2, <1>8
  <2>2. s[2] = "versions"
    BY <1>8, <2>1 DEF Led, Reasons
  <2> QED
    BY <2>1, <2>2 DEF Wrong, This
<1>9. CASE GetBinaries
  <2>1. pc = "binaries" /\ This.ppa
    BY <1>9 DEF GetBinaries, InOrder
  <2>2. ASSUME NEW s \in standing, s[1] = channel
        PROVE  ~BinaryPending(latest_source, channel)
    <3>1. latest_source = Greatest(Candidates) /\ Settled(channel)
      BY <1>8, <2>1, <2>2 DEF Led
    <3> QED
      BY <2>1, <3>1 DEF Settled, BinaryPending, This
  <2>3. CASE BinaryPending(latest_source, channel) /\ Continue(FALSE)
    BY <2>1, <2>2, <2>3, ContinueCounts
  <2>4. CASE Goto("snap_builds") /\ UNCHANGED answers
    <3>1. pc' = "snap_builds" /\ UNCHANGED <<channel, errors, latest_source>>
      BY <2>4 DEF Goto, answers
    <3>2. ASSUME NEW s \in standing, s[1] = channel PROVE Led(s, pc)'
      <4>1. s[2] = "versions" /\ latest_source = Greatest(Candidates)
        BY <1>8, <2>1, <3>2 DEF Led
      <4> QED
        BY <1>4, <3>1, <4>1 DEF Led
    <3> QED
      BY <2>1, <3>1, <3>2, MoveCounts
  <2> QED
    BY <1>9, <2>3, <2>4 DEF GetBinaries
<1>10. CASE PendingBuilds
  <2>1. pc = "snap_builds" /\ asked = {}
    BY <1>10 DEF PendingBuilds, InOrder
  <2>2. CASE SnapBuildPending(channel) /\ Continue(FALSE)
    BY <1>8, <2>1, <2>2, ContinueCounts
  <2>3. CASE Goto("store") /\ UNCHANGED answers
    <3>1. pc' = "store" /\ asked' = {} /\ UNCHANGED <<channel, errors, latest_source>>
      BY <2>1, <2>3 DEF Goto, answers
    <3>2. ASSUME NEW s \in standing, s[1] = channel PROVE Led(s, pc)'
      <4>1. s[2] = "versions" /\ Led(s, pc)
        BY <1>8, <2>1, <3>2
      <4>2. This.ppa => latest_source = Greatest(Candidates)
        BY <2>1, <4>1 DEF Led
      <4> QED
        BY <1>4, <3>1, <4>1, <4>2 DEF Led, This
    <3> QED
      BY <2>1, <3>1, <3>2, MoveCounts
  <2> QED
    BY <1>10, <2>2, <2>3 DEF PendingBuilds
<1>11. ASSUME NEW p \in Architectures, GetStoreSnap(p) PROVE Counted' /\ ErrorsTurnRed'
  <2>1. /\ pc = "store" /\ UNCHANGED <<pc, channel, errors, latest_source>>
        /\ store_snaps' = [store_snaps EXCEPT ![p] = store[channel][p]]
        /\ asked' = asked \cup {p}
    BY <1>11 DEF GetStoreSnap
  <2>2. store_snaps \in [Architectures -> Versions \cup {0}] /\ asked \subseteq Architectures
    BY Types DEF ScriptTypes
  <2>3. ASSUME NEW s \in standing, s[1] = channel PROVE Led(s, pc)'
    <3>1. s[2] = "versions" /\ Led(s, pc)
      BY <1>8, <2>1, <2>3
    <3>2. /\ This.ppa => latest_source = Greatest(Candidates)
          /\ \A q \in asked : store_snaps[q] = store[channel][q]
      BY <2>1, <3>1 DEF Led
    <3>3. \A q \in asked' : store_snaps'[q] = store[channel][q]
      BY <2>1, <2>2, <3>2
    <3> QED
      BY <1>3, <1>4, <2>1, <3>1, <3>2, <3>3 DEF Led, This
  <2> QED
    BY <2>1, <2>3, MoveCounts
<1>12. CASE CheckStore
  <2>1. PICK error \in BOOLEAN :
          /\ NonUniform(store_snaps) /\ ~This.non_uniform => error
          /\ \/ Continue(error)
             \/ /\ pc' \in {"notices", "trigger"}
                /\ errors' = (errors \/ error) /\ UNCHANGED <<channel, exit, answers>>
    BY <1>12, ChecksStore
  <2>2. pc = "store" /\ asked = This.processors
    BY <1>12, ChecksStore
  <2>3. ASSUME NEW s \in standing, s[1] = channel PROVE error /\ s[2] = "versions" /\ Led(s, pc)
    <3>1. /\ s[2] = "versions" /\ Led(s, pc) /\ ~This.non_uniform
          /\ NonUniform(Asked(store[channel], channel))
      BY <1>8, <2>2, <2>3
    <3>2. \A p \in This.processors : store_snaps[p] = store[channel][p]
      BY <2>2, <3>1 DEF Led
    <3>3. NonUniform(store_snaps)
      BY <3>1, <3>2 DEF NonUniform, InStore, Asked, This
    <3> QED
      BY <2>1, <3>1, <3>3
  <2>4. CASE Continue(error)
    BY <2>2, <2>3, <2>4, ContinueCounts
  <2>5. CASE /\ pc' \in {"notices", "trigger"}
             /\ errors' = (errors \/ error) /\ UNCHANGED <<channel, exit, answers>>
    <3>1. UNCHANGED latest_source
      BY <2>5 DEF answers
    <3>2. ASSUME NEW s \in standing, s[1] = channel PROVE Led(s, pc)'
      <4>1. This.ppa => latest_source = Greatest(Candidates)
        BY <2>2, <2>3, <3>2 DEF Led
      <4> QED
        BY <1>4, <2>3, <2>5, <3>1, <3>2, <4>1 DEF Led, This
    <3> QED
      BY <2>2, <2>5, <3>2, MoveCounts
  <2> QED
    BY <2>1, <2>4, <2>5
<1>13. ASSUME pc \in {"notices", "trigger"}, NEW s \in standing, s[1] = channel
       PROVE  errors
  BY <1>2, <1>13 DEF Led
<1>14. CASE CheckNotices
  <2>1. pc = "notices"
    BY <1>14 DEF CheckNotices
  <2>2. CASE Abort
    BY <2>2 DEF Abort, Counted, ErrorsTurnRed
  <2>3. CASE \E error \in BOOLEAN : Continue(error)
    BY <1>13, <2>1, <2>3, ContinueCounts
  <2>4. CASE Goto("trigger") /\ UNCHANGED answers
    <3>1. pc' = "trigger" /\ UNCHANGED <<channel, errors, latest_source>>
      BY <2>4 DEF Goto, answers
    <3>2. ASSUME NEW s \in standing, s[1] = channel PROVE Led(s, pc)'
      <4>1. Led(s, pc) /\ errors
        BY <1>2, <1>13, <2>1, <3>2
      <4> QED
        BY <1>4, <2>1, <3>1, <4>1 DEF Led, This
    <3> QED
      BY <2>1, <3>1, <3>2, MoveCounts
  <2> QED
    BY <1>14, <2>2, <2>3, <2>4 DEF CheckNotices
<1>15. CASE RequestBuilds
  BY <1>13, <1>15, ContinueCounts DEF RequestBuilds
<1> QED
  BY <1>1, <1>5, <1>6, <1>7, <1>9, <1>10, <1>11, <1>12, <1>14, <1>15 DEF Script, Ask

\* What goes on elsewhere does not lead the script astray: what is wrong all the time with a
\* snap is about the upload that the script has found, and about what the store has told it.
LEMMA ElsewhereCounts ==
    ASSUME TypeOK, InOrder, Counted, ErrorsTurnRed, Elsewhere,
           \/ \E u \in Uploads : PpaStep(u) /\ UNCHANGED store
           \/ UNCHANGED <<status, mir_version, build>>
    PROVE  Counted' /\ ErrorsTurnRed'
<1>1. UNCHANGED <<pc, channel, latest_source, store_snaps, asked, exit>>
  BY DEF Elsewhere, scriptVars
<1>2. UNCHANGED errors
  BY DEF Elsewhere, scriptVars
<1>3. CASE pc = "idle"
  <2>1. UNCHANGED standing
    BY <1>3 DEF Elsewhere
  <2> QED
    BY <1>1, <1>3, <2>1 DEF Counted, ErrorsTurnRed
<1>4. CASE pc # "idle"
  <2>1. ASSUME NEW s \in standing'
        PROVE  /\ s \in standing /\ Wrong(s[1], s[2])'
               /\ s[2] = "versions" => store'[s[1]] = store[s[1]]
    BY <1>4, <2>1 DEF Elsewhere
  <2>2. ASSUME NEW s \in standing', s[1] = channel, Led(s, pc)
        PROVE  Led(s, pc)'
    <3>1. /\ s \in standing /\ Wrong(channel, s[2])' /\ Wrong(channel, s[2])
          /\ s[2] \in Reasons /\ channel \in 1..Channels
      BY <1>1, <1>4, <2>1, <2>2, CountedMeans, StandingIs
    <3>2. ASSUME This.ppa, pc \notin {"recipe", "sources"}
          PROVE  latest_source = Greatest(Candidates')
      <4>1. s[2] \in {"build", "versions"} /\ latest_source = Greatest(Candidates)
        BY <2>2, <3>1, <3>2 DEF Led, Reasons
      <4>2. CASE UNCHANGED <<status, mir_version, build>>
        BY <4>1, <4>2 DEF Candidates
      <4>3. ASSUME NEW u \in Uploads, PpaStep(u)
            PROVE  latest_source = Greatest(Candidates')
        <5>1. Usable /\ \E p \in Architectures : build[Greatest(Candidates)][p] # "Needs building"
          BY <3>1, <3>2, <4>1, WrongIsBuilt DEF This
        <5>2. Usable'
          <6>1. SnapMap[channel'].ppa
            BY <1>1, <3>2 DEF This
          <6>2. CASE s[2] = "build"
            BY <3>1, <6>2 DEF Wrong
          <6>3. CASE s[2] = "versions"
            BY <3>1, <6>1, <6>3 DEF Wrong, Settled
          <6> QED
            BY <4>1, <6>2, <6>3
        <5> QED
          BY <4>1, <4>3, <5>1, <5>2, SameUpload
      <4> QED
        BY <4>2, <4>3
    <3>3. ASSUME pc = "store"
          PROVE  \A p \in asked : store_snaps[p] = store'[channel][p]
      <4>1. s[2] = "versions" /\ \A p \in asked : store_snaps[p] = store[channel][p]
        BY <2>2, <3>1, <3>3 DEF Led, Reasons
      <4>2. store'[channel] = store[channel]
        BY <2>1, <2>2, <4>1
      <4> QED
        BY <4>1, <4>2
    <3> QED
      BY <1>1, <1>2, <2>2, <3>2, <3>3 DEF Led, This
  <2>3. ASSUME NEW s \in standing'
        PROVE  Followed(s)'
    <3>1. /\ s[1] < channel => errors
          /\ s[1] = channel => Led(s, pc)
      BY <1>4, <2>1, CountedMeans
    <3> QED
      BY <1>1, <1>2, <2>1, <2>2, <3>1 DEF Followed
  <2>4. AllFollowed'
    BY <2>3 DEF AllFollowed
  <2>5. Counted'
    BY <2>4, CountedIs, PTL
  <2> QED
    BY <1>1, <1>4, <2>5 DEF ErrorsTurnRed
<1> QED
  BY <1>3, <1>4

\* Uploads come in their order, and the first has come.
LEMMA ElsewhereKeepsOrder ==
    ASSUME TypeOK, InOrder, Elsewhere,
           (\E u \in Uploads : PpaStep(u)) \/ UNCHANGED status
    PROVE  InOrder'
<1>1. UNCHANGED <<pc, channel, latest_source, asked>>
  BY DEF Elsewhere, scriptVars
<1>2. CASE UNCHANGED status
  BY <1>1, <1>2 DEF InOrder, This
<1>3. ASSUME NEW u \in Uploads, PpaStep(u) PROVE InOrder'
  <2>1. PpaTypes /\ MaxUploads \in Nat \ {0}
    BY Types, SnapsAssumption, Zenon
  <2>2. 1 \in Uploads
    BY <2>1 DEF Uploads
  <2>3. CASE Upload(u)
    <3>1. /\ status[u] = "none" /\ \A w \in 1..(u - 1) : status[w] # "none"
          /\ status' = [status EXCEPT ![u] = "Pending"]
      BY <2>3 DEF Upload
    <3>2. status'[1] # "none"
      BY <2>1, <2>2, <3>1 DEF InOrder, PpaTypes
    <3>3. ASSUME NEW v \in Uploads, NEW w \in Uploads, v < w, status'[v] = "none"
          PROVE  status'[w] = "none"
      <4>1. v # u /\ status[v] = "none"
        BY <2>1, <3>1, <3>3 DEF PpaTypes
      <4>2. u < v
        BY <2>1, <3>1, <4>1 DEF Uploads
      <4>3. w # u /\ status[w] = "none"
        BY <2>1, <3>3, <4>1, <4>2 DEF Uploads, InOrder
      <4> QED
        BY <2>1, <3>1, <4>3 DEF PpaTypes
    <3> QED
      BY <1>1, <3>2, <3>3 DEF InOrder, This
  <2>4. CASE ~Upload(u)
    <3>1. \A w \in Uploads : status'[w] = "none" <=> status[w] = "none"
      BY <1>3, <2>1, <2>4
         DEF PpaStep, PublishSource, Delete, BuildEnds, Retry, PublishBinary, PpaTypes
    <3> QED
      BY <1>1, <2>2, <3>1 DEF InOrder, This
  <2> QED
    BY <2>3, <2>4
<1> QED
  BY <1>2, <1>3

\* Before the first round nothing stands.
LEMMA RoundInit == Init => RoundInv
<1> SUFFICES ASSUME Init PROVE RoundInv
  OBVIOUS
<1>1. TypeOK
  BY InitTypes
<1>2. /\ pc = "idle" /\ channel = 1 /\ asked = {} /\ latest_source = 0 /\ standing = {}
      /\ status = [u \in Uploads |-> IF u = 1 THEN "Published" ELSE "none"]
  BY DEF Init
<1>3. MaxUploads \in Nat \ {0}
  BY SnapsAssumption, Zenon
<1>4. InOrder
  <2>1. status[1] # "none"
    BY <1>2, <1>3 DEF Uploads
  <2>2. \A u, w \in Uploads : u < w /\ status[u] = "none" => status[w] = "none"
    BY <1>2, <1>3 DEF Uploads
  <2> QED
    BY <1>2, <2>1, <2>2 DEF InOrder
<1> QED
  BY <1>1, <1>2, <1>4 DEF RoundInv, Counted, ErrorsTurnRed

\* Each step keeps the invariant.
LEMMA RoundStep == RoundInv /\ [Next]_vars => RoundInv'
<1> SUFFICES ASSUME RoundInv, [Next]_vars PROVE RoundInv'
  OBVIOUS
<1>1. TypeOK /\ InOrder /\ Counted /\ ErrorsTurnRed
  BY DEF RoundInv
<1>2. CASE Script
  BY <1>1, <1>2, ScriptKeepsTypes, ScriptKeepsOrder, ScriptCounts DEF RoundInv
<1>3. CASE Crash
  <2>1. TypeOK'
    BY <1>1, <1>3, CrashKeepsTypes
  <2>2. /\ pc' = "idle" /\ channel' = 1 /\ asked' = {} /\ latest_source' = 0 /\ exit' = 1
        /\ UNCHANGED status
    BY <1>3 DEF Crash, Abort
  <2> QED
    BY <1>1, <2>1, <2>2 DEF RoundInv, InOrder, Counted, ErrorsTurnRed
<1>4. ASSUME NEW u \in Uploads, PpaStep(u) PROVE RoundInv'
  <2>1. PpaOnly
    BY <1>4 DEF PpaStep, Upload, PublishSource, Delete, BuildEnds, Retry, PublishBinary
  <2>2. Elsewhere /\ UNCHANGED store
    BY <2>1 DEF PpaOnly
  <2> QED
    BY <1>1, <1>4, <2>2, PpaKeepsTypes, ElsewhereKeepsOrder, ElsewhereCounts DEF RoundInv
<1>5. ASSUME NEW c \in 1..Channels, SnapStep(c) PROVE RoundInv'
  <2>1. SnapOnly
    BY <1>5 DEF SnapStep, Dispatch, JobBuilt, JobFails, Release, Usn
  <2>2. Elsewhere /\ UNCHANGED <<status, mir_version, build>>
    BY <2>1 DEF SnapOnly
  <2> QED
    BY <1>1, <1>5, <2>2, SnapKeepsTypes, ElsewhereKeepsOrder, ElsewhereCounts DEF RoundInv
<1>6. CASE UNCHANGED vars
  <2>1. /\ UNCHANGED <<status, mir_version, build, recipes, job, store, notice, trouble>>
        /\ UNCHANGED <<pc, channel, latest_source, store_snaps, asked, errors, exit, standing>>
    BY <1>6 DEF vars
  <2>2. TypeOK' <=> TypeOK
    BY <2>1 DEF TypeOK
  <2>3. InOrder'
    BY <1>1, <2>1 DEF InOrder, This
  <2>4. AllFollowed'
    <3>1. UNCHANGED errors
      BY <2>1
    <3>2. /\ Candidates' = Candidates /\ (Usable' <=> Usable)
          /\ \A u : Failed(u)' <=> Failed(u)
      BY <2>1 DEF Candidates, Usable, Failed
    <3>3. \A c, r : Wrong(c, r)' <=> Wrong(c, r)
      BY <2>1, <3>2 DEF Wrong, Settled, SnapBuildPending, NonUniform, Asked, InStore
    <3>4. AllFollowed
      BY <1>1, CountedIs
    <3> QED
      BY <2>1, <3>1, <3>2, <3>3, <3>4 DEF AllFollowed, Followed, Led, This
  <2>5. Counted'
    BY <2>4, CountedIs, PTL
  <2>6. ErrorsTurnRed'
    BY <1>1, <2>1 DEF ErrorsTurnRed
  <2> QED
    BY <1>1, <2>2, <2>3, <2>5, <2>6 DEF RoundInv
<1> QED
  BY <1>2, <1>3, <1>4, <1>5, <1>6 DEF Next

\* The inductive invariant of a round: whatever is uploaded, built, published and released
\* between two answers, what was wrong all the time is counted before the round is over, and
\* the script is where the answers it has had lead to it (lines 310-451).
THEOREM RoundInvHolds == Spec => []RoundInv
  BY RoundInit, RoundStep, PTL DEF Spec

\* A round that ends with status 0 has found nothing that was wrong from its start to its end,
\* with any number of channels, architectures, uploads and failures (lines 321, 368, 400 and 449).
THEOREM ErrorsAreReported == Spec => []ErrorsTurnRed
<1>1. RoundInv => ErrorsTurnRed
  BY DEF RoundInv
<1> QED
  BY <1>1, RoundInvHolds, PTL
=============================================================================
