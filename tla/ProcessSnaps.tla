---------------------------- MODULE ProcessSnaps ----------------------------
(***************************************************************************)
(* bin/process_snaps.py, run every hour: for each channel of each snap,    *)
(* ask the PPA, the recipe on Launchpad and the store, and request builds  *)
(* of what is out of date.  Each answer is a step of its own: Launchpad,   *)
(* the store and the people who upload go on between any two.  One PPA     *)
(* and series; an upload is its number, mir_version what is parsed of its  *)
(* version: the same for uploads that differ in packaging only.            *)
(***************************************************************************)
EXTENDS Naturals, FiniteSets

CONSTANTS
    Channels,                \* how many, in the order of SNAPS
    SnapMap,                 \* each: ppa, non_uniform, check_usns, check_paths, processors
    Architectures,           \* those the PPA builds for
    MaxUploads,              \* bound: uploads to the PPA
    Stores, Recipes,         \* what the store may have to begin with, whose recipes exist
    Usns, Batches,           \* USNs that affect a snap, each batch: architecture -> USN
    MaxTrouble               \* bound: builds and rounds that fail, and batches of USNs

ASSUME SnapsAssumption ==
    /\ Channels \in Nat \ {0} /\ MaxUploads \in Nat \ {0} /\ MaxTrouble \in Nat
    /\ Stores \subseteq [1..Channels -> [Architectures -> {0, 1}]]
    /\ Recipes \subseteq SUBSET (1..Channels)
    /\ \A c \in 1..Channels : SnapMap[c].processors \subseteq Architectures
    /\ Batches \subseteq UNION {[P -> Usns] : P \in SUBSET Architectures}

VARIABLES
    status,                  \* upload -> status of the source in the PPA
    mir_version,             \* upload -> upstream version
    build,                   \* upload, architecture -> its build, then its binaries
    recipes,                 \* the channels whose recipe exists
    job,                     \* channel, architecture -> the build of the snap, and the
                             \* version that was built and is not in the store yet
    store,                   \* channel, architecture -> version in the store, 0 for no snap
    notice,                  \* channel, architecture -> USNs that affect what is in the store
    trouble                  \* how often something failed

VARIABLES
    pc, channel,             \* where the script is
    latest_source,           \* the upload it looks at, 0 for none
    store_snaps,             \* architecture -> version the store answered, 0 for an error
    asked,                   \* the processors the store was asked for
    errors,                  \* the list is not empty
    exit,                    \* status of the round, once it has ended
    standing                 \* history: channel, what was wrong with it all this round

answers == <<latest_source, store_snaps, asked>>
scriptVars == <<pc, channel, latest_source, store_snaps, asked, errors, exit>>
vars == <<status, mir_version, build, recipes, job, store, notice, trouble,
          pc, channel, latest_source, store_snaps, asked, errors, exit, standing>>

Uploads == 1..MaxUploads
Unparsed == MaxUploads + 1       \* a version that MIR_VERSION_RE does not match
Versions == 1..Unparsed
NoJob == [state |-> "idle", built |-> 0]
NoAnswer == [p \in Architectures |-> 0]
Reasons == {"recipe", "build", "versions"}
This == SnapMap[channel]

TypeOK ==
    /\ status \in [Uploads -> {"none", "Pending", "Published", "Superseded", "Deleted"}]
    /\ mir_version \in [Uploads -> Versions]
    /\ build \in [Uploads -> [Architectures -> {"Needs building", "Failed to build",
                                  "other", "Pending", "Published", "Superseded"}]]
    /\ recipes \subseteq 1..Channels
    /\ job \in [1..Channels -> [Architectures ->
                  [state : {"idle", "requested", "building"}, built : Versions \cup {0}]]]
    /\ store \in [1..Channels -> [Architectures -> Versions \cup {0}]]
    /\ notice \in [1..Channels -> [Architectures -> SUBSET Usns]]
    /\ trouble \in 0..MaxTrouble
    /\ pc \in {"idle", "recipe", "sources", "builds", "binaries", "snap_builds", "store",
               "notices", "trigger"}
    /\ channel \in 1..Channels /\ latest_source \in 0..MaxUploads
    /\ store_snaps \in [Architectures -> Versions \cup {0}] /\ asked \subseteq Architectures
    /\ errors \in BOOLEAN /\ exit \in {0, 1} /\ standing \subseteq (1..Channels) \X Reasons

\* The PPA between two releases: the first upload is out.
Init ==
    /\ status = [u \in Uploads |-> IF u = 1 THEN "Published" ELSE "none"]
    /\ mir_version = [u \in Uploads |-> 1]
    /\ build = [u \in Uploads |-> [p \in Architectures |->
                  IF u = 1 THEN "Published" ELSE "Needs building"]]
    /\ recipes \in Recipes
    /\ job = [c \in 1..Channels |-> [p \in Architectures |-> NoJob]]
    /\ store \in Stores
    /\ notice = [c \in 1..Channels |-> [p \in Architectures |-> {}]]
    /\ trouble = 0
    /\ pc = "idle" /\ channel = 1 /\ latest_source = 0
    /\ store_snaps = NoAnswer /\ asked = {}
    /\ errors = FALSE /\ exit = 0 /\ standing = {}

-----------------------------------------------------------------------------
(* What the script makes of the answers *)

Greatest(S) == CHOOSE u \in S : \A w \in S : w <= u

\* The first source that is not among IGNORED_SOURCES, newest first.
Candidates == {u \in Uploads : status[u] \notin {"none", "Deleted"}}
Usable == /\ Candidates # {}
          /\ mir_version[Greatest(Candidates)] # Unparsed
          /\ status[Greatest(Candidates)] = "Published"

\* "Needs building" stands for every state of PENDING_BUILD.
Failed(u) == \E p \in Architectures : build[u][p] = "Failed to build"
BuildPending(u, c) == \E p \in SnapMap[c].processors : build[u][p] = "Needs building"

\* A build that is not done, or ended in a way the script does not name, has no binaries.
\* (Variant: nobody asks.)
BinariesIgnored(u, c) == FALSE
BinaryPending(u, c) ==
    \E p \in SnapMap[c].processors : build[u][p] \in {"Pending", "Superseded"}

SnapBuildPending(c) == \E p \in SnapMap[c].processors : job[c][p].state = "building"

InStore(snaps) == {p \in Architectures : snaps[p] # 0}
NonUniform(snaps) == \E p, q \in InStore(snaps) : snaps[p] # snaps[q]
Asked(snaps, c) == [p \in Architectures |-> IF p \in SnapMap[c].processors THEN snaps[p] ELSE 0]

\* No version of Mir to compare with, or all the snaps have it: so too where there are none.
\* (Variant: they are compared with one another.)
AllTheSame(snaps) == ~NonUniform(snaps)
Current(snaps) ==
    latest_source # 0 => \A p \in InStore(snaps) : snaps[p] = mir_version[latest_source]

\* What the tool finds for each of the snaps, and when it is a reason to build them: all are
\* affected, by the same USNs.
Notices(snaps, c) == {notice[c][p] : p \in InStore(snaps)}
Affected(snaps, c) == Notices(snaps, c) \notin {{}, {{}}} /\ Cardinality(Notices(snaps, c)) = 1

\* The answers about channel c are all there, and let the script pass to the store.
Settled(c) ==
    /\ c \in recipes
    /\ SnapMap[c].ppa => /\ Usable
                         /\ LET u == Greatest(Candidates) IN
                            /\ ~Failed(u)
                            /\ \A p \in SnapMap[c].processors : build[u][p] = "Published"

\* What a round must not end with unsaid.
Wrong(c, reason) ==
    \/ reason = "recipe" /\ c \notin recipes
    \/ reason = "build" /\ SnapMap[c].ppa /\ Usable /\ Failed(Greatest(Candidates))
    \/ /\ reason = "versions" /\ ~SnapMap[c].non_uniform
       /\ Settled(c) /\ ~SnapBuildPending(c) /\ NonUniform(Asked(store[c], c))

-----------------------------------------------------------------------------
(* The script *)

\* The version that the next channel is compared with, if it is not of the PPA.  (Variant:
\* that of the channel before.)
LeftOver == latest_source
NoVersion == 0

\* On to the next channel, or to the end of the round.
Continue(error) ==
    /\ latest_source' = NoVersion /\ store_snaps' = NoAnswer /\ asked' = {}
    /\ IF channel < Channels
       THEN /\ pc' = "recipe" /\ channel' = channel + 1
            /\ errors' = (errors \/ error) /\ UNCHANGED exit
       ELSE /\ pc' = "idle" /\ channel' = 1
            /\ errors' = FALSE /\ exit' = IF errors \/ error THEN 1 ELSE 0

Goto(place) == pc' = place /\ UNCHANGED <<channel, errors, exit>>

Start ==
    /\ pc = "idle" /\ pc' = "recipe" /\ exit' = 0 /\ UNCHANGED <<channel, errors, answers>>

\* An exception that nothing catches, or the workflow is cancelled.
Abort ==
    /\ latest_source' = 0 /\ store_snaps' = NoAnswer /\ asked' = {}
    /\ pc' = "idle" /\ channel' = 1 /\ errors' = FALSE /\ exit' = 1

GetRecipe ==
    /\ pc = "recipe"
    /\ \/ channel \notin recipes /\ Continue(TRUE)
       \/ /\ channel \in recipes /\ UNCHANGED answers
          /\ Goto(IF This.ppa THEN "sources" ELSE "snap_builds")

GetSources ==
    /\ pc = "sources"
    /\ \/ ~Usable /\ Continue(FALSE)
       \/ /\ Usable /\ Goto("builds")
          /\ latest_source' = Greatest(Candidates) /\ UNCHANGED <<store_snaps, asked>>

\* (Variant: the failure is logged and not counted, as that of a source that is not found.)
GetBuildsLogged ==
    /\ pc = "builds"
    /\ \/ /\ Failed(latest_source) \/ BuildPending(latest_source, channel)
          /\ Continue(FALSE)
       \/ /\ ~Failed(latest_source) /\ ~BuildPending(latest_source, channel)
          /\ Goto("binaries") /\ UNCHANGED answers
GetBuilds ==
    /\ pc = "builds"
    /\ \/ Failed(latest_source) /\ Continue(TRUE)
       \/ /\ ~Failed(latest_source) /\ BuildPending(latest_source, channel)
          /\ Continue(FALSE)
       \/ /\ ~Failed(latest_source) /\ ~BuildPending(latest_source, channel)
          /\ Goto("binaries") /\ UNCHANGED answers

GetBinaries ==
    /\ pc = "binaries"
    /\ \/ BinaryPending(latest_source, channel) /\ Continue(FALSE)
       \/ /\ ~BinaryPending(latest_source, channel)
          /\ Goto("snap_builds") /\ UNCHANGED answers

PendingBuilds ==
    /\ pc = "snap_builds"
    /\ \/ SnapBuildPending(channel) /\ Continue(FALSE)
       \/ ~SnapBuildPending(channel) /\ Goto("store") /\ UNCHANGED answers

GetStoreSnap(p) ==
    /\ pc = "store" /\ p \in This.processors \ asked
    /\ store_snaps' = [store_snaps EXCEPT ![p] = store[channel][p]]
    /\ asked' = asked \cup {p}
    /\ UNCHANGED <<pc, channel, latest_source, errors, exit>>

\* differ: what check_paths finds; what it compares with is not modelled.
CheckStore ==
    /\ pc = "store" /\ asked = This.processors
    /\ \E differ \in IF This.check_paths THEN BOOLEAN ELSE {FALSE} :
         LET error == differ \/ (NonUniform(store_snaps) /\ ~This.non_uniform) IN
         \/ Current(store_snaps) /\ ~This.check_usns /\ Continue(error)
         \/ /\ \/ Current(store_snaps) /\ This.check_usns /\ pc' = "notices"
               \/ ~Current(store_snaps) /\ pc' = "trigger"
            /\ errors' = (errors \/ error) /\ UNCHANGED <<channel, exit, answers>>

\* The revision the store answered is taken to be the one that it has now.  When there is no
\* snap to ask about, the answer has no entry for it and the lookup ends the script.
CheckNotices ==
    /\ pc = "notices"
    /\ LET notices == Notices(store_snaps, channel) IN
       \/ notices = {} /\ Abort
       \/ notices = {{}} /\ Continue(FALSE)
       \/ Cardinality(notices) > 1 /\ Continue(TRUE)      \* some are, or by different ones
       \/ Affected(store_snaps, channel) /\ Goto("trigger") /\ UNCHANGED answers

\* Launchpad keeps one build of a recipe and architecture that is not done.
RequestBuilds ==
    /\ pc = "trigger" /\ Continue(FALSE)
    /\ job' = [job EXCEPT ![channel] = [p \in Architectures |->
                 IF p \in This.processors /\ @[p].state = "idle"
                 THEN [@[p] EXCEPT !.state = "requested"] ELSE @[p]]]

Ask == \/ Start \/ GetRecipe \/ GetSources \/ GetBuilds \/ GetBinaries \/ PendingBuilds
       \/ \E p \in Architectures : GetStoreSnap(p)
       \/ CheckStore \/ CheckNotices

Script ==
    /\ (Ask /\ UNCHANGED job) \/ RequestBuilds
    /\ UNCHANGED <<status, mir_version, build, recipes, store, notice, trouble>>
    /\ standing' = IF pc = "idle" THEN {s \in (1..Channels) \X Reasons : Wrong(s[1], s[2])}
                   ELSE standing

-----------------------------------------------------------------------------
(* Launchpad, the store and the people: nothing of this is in the repository *)

Elsewhere ==
    /\ UNCHANGED scriptVars
    /\ standing' = IF pc = "idle" THEN standing
                   ELSE {s \in standing : /\ Wrong(s[1], s[2])'
                                          /\ s[2] = "versions" => store'[s[1]] = store[s[1]]}
PpaOnly == UNCHANGED <<recipes, job, store, notice, trouble>> /\ Elsewhere
SnapOnly == UNCHANGED <<status, mir_version, build, recipes>> /\ Elsewhere

Upload(u) ==
    /\ status[u] = "none" /\ \A w \in 1..(u - 1) : status[w] # "none"
    /\ status' = [status EXCEPT ![u] = "Pending"]
    /\ \E v \in {mir_version[u - 1], u, Unparsed} : mir_version' = [mir_version EXCEPT ![u] = v]
    /\ UNCHANGED build /\ PpaOnly

PublishSource(u) ==
    /\ status[u] = "Pending"
    /\ status' = [w \in Uploads |-> IF w = u THEN "Published"
                                    ELSE IF w < u /\ status[w] \in {"Pending", "Published"}
                                    THEN "Superseded" ELSE status[w]]
    /\ UNCHANGED <<mir_version, build>> /\ PpaOnly

\* Withdrawn before anything is built of it.
Delete(u) ==
    /\ status[u] \in {"Pending", "Published"}
    /\ \A p \in Architectures : build[u][p] = "Needs building"
    /\ status' = [status EXCEPT ![u] = "Deleted"] /\ UNCHANGED <<mir_version, build>> /\ PpaOnly

\* "other": ended in a state that is neither pending nor failed to the script, such as
\* cancelled or superseded, and stays there.
BuildEnds(u, p, result) ==
    /\ status[u] \in {"Pending", "Published"} /\ build[u][p] = "Needs building"
    /\ build' = [build EXCEPT ![u][p] = result] /\ UNCHANGED <<status, mir_version>> /\ PpaOnly

Retry(u, p) ==
    /\ build[u][p] = "Failed to build"
    /\ build' = [build EXCEPT ![u][p] = "Needs building"]
    /\ UNCHANGED <<status, mir_version>> /\ PpaOnly

PublishBinary(u, p) ==
    /\ build[u][p] = "Pending" /\ status[u] # "Deleted"
    /\ build' = [w \in Uploads |-> [build[w] EXCEPT ![p] =
                   IF w = u THEN IF \E v \in (u + 1)..MaxUploads : build[v][p] = "Published"
                                 THEN "Superseded" ELSE "Published"
                   ELSE IF w < u /\ @ = "Published" THEN "Superseded" ELSE @]]
    /\ UNCHANGED <<status, mir_version>> /\ PpaOnly

PpaStep(u) ==
    \/ Upload(u) \/ PublishSource(u) \/ Delete(u)
    \/ \E p \in Architectures :
         \/ \E r \in {"Pending", "Failed to build", "other"} : BuildEnds(u, p, r)
         \/ Retry(u, p) \/ PublishBinary(u, p)

\* What the archives offer a build of the snap.
Archive(p) == {u \in Uploads : build[u][p] = "Published"}
Offered(c, p) == IF SnapMap[c].ppa /\ Archive(p) # {}
                 THEN {mir_version[Greatest(Archive(p))]} ELSE Versions

Dispatch(c, p) ==
    /\ job[c][p].state = "requested"
    /\ job' = [job EXCEPT ![c][p].state = "building"]
    /\ UNCHANGED <<store, notice, trouble>> /\ SnapOnly

JobBuilt(c, p) ==
    /\ job[c][p].state = "building"
    /\ \E mir \in Offered(c, p) : job' = [job EXCEPT ![c][p] = [state |-> "idle", built |-> mir]]
    /\ UNCHANGED <<store, notice, trouble>> /\ SnapOnly

JobFails(c, p) ==
    /\ job[c][p].state = "building" /\ trouble < MaxTrouble /\ trouble' = trouble + 1
    /\ job' = [job EXCEPT ![c][p].state = "idle"]
    /\ UNCHANGED <<store, notice>> /\ SnapOnly

Release(c, p) ==
    /\ job[c][p].built # 0
    /\ store' = [store EXCEPT ![c][p] = job[c][p].built]
    /\ notice' = [notice EXCEPT ![c][p] = {}]
    /\ job' = [job EXCEPT ![c][p].built = 0]
    /\ UNCHANGED trouble /\ SnapOnly

\* USNs that affect what the store has, the same or different ones for each architecture.  Of
\* a snap that is checked: nobody asks about another.
Usn(c, batch) ==
    /\ SnapMap[c].check_usns /\ DOMAIN batch \subseteq InStore(store[c])
    /\ trouble < MaxTrouble /\ trouble' = trouble + 1
    /\ notice' = [notice EXCEPT ![c] = [p \in Architectures |->
                    IF p \in DOMAIN batch THEN @[p] \cup {batch[p]} ELSE @[p]]]
    /\ UNCHANGED <<job, store>> /\ SnapOnly

SnapStep(c) ==
    \/ \E p \in Architectures : Dispatch(c, p) \/ JobBuilt(c, p) \/ JobFails(c, p) \/ Release(c, p)
    \/ \E batch \in Batches : Usn(c, batch)

\* The next hour's run cancels this one, Launchpad fails, the answer of the store is not
\* JSON, the tool cannot tell the notices, the first list of paths cannot be fetched.
Crash ==
    /\ pc # "idle" /\ trouble < MaxTrouble /\ trouble' = trouble + 1 /\ Abort
    /\ UNCHANGED <<status, mir_version, build, recipes, job, store, notice, standing>>

Next ==
    \/ Script \/ Crash
    \/ \E u \in Uploads : PpaStep(u)
    \/ \E c \in 1..Channels : SnapStep(c)

Spec == Init /\ [][Next]_vars

\* The workflow runs every hour and each request is answered; Launchpad publishes what was
\* uploaded and built, builds what is asked for, and the store releases it.  Nobody need
\* upload, or see to a build that failed.
FairSpec ==
    /\ Spec /\ WF_vars(Script)
    /\ \A c \in 1..Channels : \A p \in SnapMap[c].processors :
         WF_vars(Dispatch(c, p) \/ JobBuilt(c, p)) /\ WF_vars(Release(c, p))

-----------------------------------------------------------------------------
(* Properties *)

\* When builds of a snap are requested, each of its architectures can already have the
\* upload they are for, or a later one, from the PPA: a build is never asked for while the
\* other architecture is still to come (lines 371-380).  Except for an architecture whose
\* build ended in a state that the script does not name.
RebuildsWhatIsOut ==
    [][ pc = "trigger" /\ job' # job /\ latest_source' = 0 /\ This.ppa
        => \A p \in This.processors :
             \/ build[latest_source][p] = "other"
             \/ \E u \in Archive(p) : u >= latest_source ]_vars

\* A round that ends well leaves nothing unsaid: no channel had, all the time that it took,
\* a recipe that is missing, a build that failed, or the same different versions in the store
\* (lines 321, 368 and 400), whatever came before or after it in the round, and whatever else
\* was uploaded, built and released meanwhile.
ErrorsTurnRed == pc = "idle" /\ exit = 0 => standing = {}

\* A round begins with the first channel, a channel with no answers, a snap that is not of the
\* PPA is compared with no version of Mir, and uploads come in their order.
InOrder ==
    /\ pc = "idle" => channel = 1
    /\ pc \in {"sources", "builds", "binaries"} => This.ppa
    /\ ~This.ppa => latest_source = 0
    /\ pc \notin {"store", "notices", "trigger"} => asked = {}
    /\ status[1] # "none"
    /\ \A u, w \in Uploads : u < w /\ status[u] = "none" => status[w] = "none"

\* Of what was wrong all the time, the script has counted that of the channels it is done with,
\* and what it has been answered about this one leads it to that which is wrong here.
Counted ==
    pc # "idle" => \A s \in standing :
      /\ Wrong(s[1], s[2])
      /\ s[1] < channel => errors
      /\ s[1] = channel =>
           /\ pc \in {"notices", "trigger"} => errors
           /\ s[2] = "recipe" => pc = "recipe"
           /\ s[2] = "build" => pc \in {"recipe", "sources", "builds"}
           /\ This.ppa /\ pc \notin {"recipe", "sources"} => latest_source = Greatest(Candidates)
           /\ pc = "store" => \A p \in asked : store_snaps[p] = store[channel][p]

\* The inductive invariant behind ErrorsTurnRed.
RoundInv == TypeOK /\ InOrder /\ Counted /\ ErrorsTurnRed

\* Once the PPA has settled and no channel lacks the snaps to check for USNs, the store gets
\* that version on all architectures, fresh builds answer the USNs, and then no more builds
\* are requested: the rounds neither miss an update (line 408) nor repeat one for ever.  USNs
\* that are not the same for all the architectures are only reported, however many of them
\* are affected (line 419): they stay until an upload has the snap built.
StoreSettles ==
    \A c \in 1..Channels :
      <>[](Settled(c) /\ \A d \in 1..Channels : SnapMap[d].check_usns => InStore(store[d]) # {})
      => <>[](/\ \A p \in SnapMap[c].processors : job[c][p] = NoJob
              /\ SnapMap[c].ppa => \A p \in InStore(store[c]) :
                                     store[c][p] = mir_version[Greatest(Candidates)]
              /\ SnapMap[c].check_usns => ~Affected(store[c], c))
=============================================================================
