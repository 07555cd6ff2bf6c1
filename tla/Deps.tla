-------------------------------- MODULE Deps --------------------------------
(***************************************************************************)
(* A pytest session and its fixtures (pytest_plugin.py).  With --deps the  *)
(* fixtures any_server and deps install what the test needs, and the last  *)
(* of them to be evaluated skips it; without, the test runs, in the        *)
(* environment that xdg and env make for it.  What has been installed is   *)
(* cached for the session.  Every command that is run may fail.            *)
(*                                                                         *)
(* External: pytest, which evaluates the fixtures of a test in an order of *)
(* its own and tears them down in reverse, caches what the session fixture *)
(* ppa returned or raised, and ends when it is interrupted; dpkg, apt,     *)
(* snapd and pip.                                                          *)
(***************************************************************************)
EXTENDS Naturals, Sequences

CONSTANTS
    Tests,                   \* how many
    Marks,                   \* test -> the specs of its deps marks, closest first
    Server,                  \* test -> <<the spec of any_server>>, <<>> if it does not use it
    XdgMarks, EnvMarks,      \* test -> the variables set by xdg, by the env marks, closest first
    Debs, Snaps, NoSnap, Pips, Vars, Values,
    MaxTrouble               \* bound: commands that fail, changes that are aborted, interrupts

\* The channel is left out: a snap that is there, or cached, is taken for it whatever its channel.
SpecType == [debs : SUBSET Debs, snap : Snaps \cup {NoSnap}, pip_pkgs : SUBSET Pips]

ASSUME DepsAssumption ==
    /\ Tests \in Nat \ {0} /\ MaxTrouble \in Nat /\ NoSnap \notin Snaps
    /\ {"host", "xdg"} \subseteq Values
    /\ \A t \in 1..Tests :
         /\ Marks[t] \in Seq(SpecType) /\ Server[t] \in Seq(SpecType)
         /\ XdgMarks[t] \subseteq Vars
         /\ EnvMarks[t] \in Seq(UNION {[S -> Values] : S \in SUBSET Vars})

VARIABLES
    option, tools, strict,   \* --deps; dpkg and apt-get exist; warnings are errors (pytest.ini)
    test, pc,                \* where the session is
    fixture, spec,           \* the fixture under way, and which of its specs
    depfixtures,             \* those that the test has been through, with --deps
    stack,                   \* the fixtures that are set up, and what they changed
    environ,                 \* os.environ
    outcome,                 \* of each test
    interrupted,             \* history: tests whose deps was interrupted
    checked_debs, checked_snaps, ppa,              \* what the session has cached
    dpkg, snapd, prepared, modules,                \* the host: debs, snaps, those whose
                             \* setup.sh has run, if they have one, and Python modules
    change,                  \* of each snap: how far snapd is with installing it
    trouble

configVars == <<option, tools, strict>>
hostVars == <<dpkg, snapd, change, prepared, modules>>
cacheVars == <<checked_debs, checked_snaps, ppa>>
testVars == <<test, depfixtures, stack, environ, outcome, interrupted>>
vars == <<option, tools, strict, test, pc, fixture, spec, depfixtures, stack, environ, outcome,
          interrupted, checked_debs, checked_snaps, ppa, dpkg, snapd, change, prepared,
          modules, trouble>>

DEP_FIXTURES == {"any_server", "deps"}
fixturenames(t) == {"deps", "xdg", "env"} \cup IF Server[t] = <<>> THEN {} ELSE {"any_server"}
Installing == {"debs", "ppa", "apt", "snap", "changes", "wire", "pips", "end"}
HostEnviron == [v \in Vars |-> "host"]

TypeOK ==
    /\ option \in BOOLEAN /\ tools \in BOOLEAN /\ strict \in BOOLEAN
    /\ test \in 1..Tests /\ spec \in Nat
    /\ pc \in Installing \cup {"choose", "teardown", "over"}
    /\ fixture \in DEP_FIXTURES \cup {"none"} /\ depfixtures \subseteq DEP_FIXTURES
    /\ stack \in Seq([fixture : {"any_server", "deps", "xdg", "env"}, vars : SUBSET Vars,
                     old : [Vars -> Values]])
    /\ environ \in [Vars -> Values]
    /\ outcome \in [1..Tests -> {"none", "skipped", "error", "ran"}]
    /\ interrupted \subseteq 1..Tests
    /\ checked_debs \subseteq Debs /\ checked_snaps \subseteq Snaps
    /\ ppa \in {"unset", "ok", "failed"}
    /\ dpkg \in [Debs -> {"absent", "config", "installed"}]
    /\ snapd \subseteq Snaps /\ prepared \subseteq Snaps /\ modules \subseteq Pips
    /\ change \in [Snaps -> {"none", "Doing", "Done", "Error", "Undone"}]
    /\ trouble \in 0..MaxTrouble

\* "config": the package was removed, its configuration is left.
Init ==
    /\ option \in BOOLEAN /\ tools \in BOOLEAN /\ strict \in BOOLEAN
    /\ test = 1 /\ pc = "choose" /\ fixture = "none" /\ spec = 0
    /\ depfixtures = {} /\ stack = <<>> /\ environ = HostEnviron
    /\ outcome = [t \in 1..Tests |-> "none"] /\ interrupted = {}
    /\ checked_debs = {} /\ checked_snaps = {} /\ ppa = "unset"
    /\ dpkg \in [Debs -> {"absent", "config", "installed"}]
    /\ snapd \in SUBSET Snaps /\ change = [s \in Snaps |-> "none"] /\ prepared = {} /\ modules = {}
    /\ trouble = 0

-----------------------------------------------------------------------------
(* Fixtures and tests *)

\* The other marks first, the closest one last.
Count(t, f) == IF f = "deps" THEN Len(Marks[t]) ELSE Len(Server[t])
SpecOf(t, f, i) == IF f = "deps" THEN Marks[t][IF i < Len(Marks[t]) THEN i + 1 ELSE 1]
                  ELSE Server[t][i]
This == SpecOf(test, fixture, spec)

IsSetUp(f) == \E i \in DOMAIN stack : stack[i].fixture = f
Entry(f, changed) == [fixture |-> f, vars |-> changed, old |-> environ]

End(result) == outcome' = [outcome EXCEPT ![test] = result] /\ pc' = "teardown"

\* A command fails, or a warning is an error: the exception ends the test.
Raise == End("error") /\ fixture' = "none"
         /\ UNCHANGED <<spec, test, depfixtures, stack, environ, interrupted>>
Trouble == trouble < MaxTrouble /\ trouble' = trouble + 1
Goto(place) == pc' = place /\ UNCHANGED <<fixture, spec, testVars>>

\* any_server and deps begin.  Without --deps they only return the command.
BeginDeps(f) ==
    /\ pc = "choose" /\ f \in DEP_FIXTURES \cap fixturenames(test) /\ ~IsSetUp(f)
    /\ \/ /\ option
          /\ fixture' = f /\ spec' = 1
          /\ pc' = IF Count(test, f) = 0 THEN "end" ELSE "debs"
          /\ UNCHANGED stack
       \/ /\ ~option /\ stack' = Append(stack, Entry(f, {}))
          /\ UNCHANGED <<pc, fixture, spec>>
    /\ UNCHANGED <<test, depfixtures, environ, outcome, interrupted, configVars, cacheVars,
                   hostVars, trouble>>

\* _deps_skip.
AllEvaluated == depfixtures \cup {fixture} = DEP_FIXTURES \cap fixturenames(test)

Skip ==
    /\ depfixtures' = depfixtures \cup {fixture}
    /\ \/ AllEvaluated /\ End("skipped") /\ UNCHANGED stack
       \/ /\ ~AllEvaluated /\ pc' = "choose" /\ UNCHANGED outcome
          /\ stack' = Append(stack, Entry(fixture, {}))
    /\ fixture' = "none" /\ UNCHANGED <<spec, test, environ>>

EndDeps ==
    /\ pc = "end" /\ Skip
    /\ UNCHANGED <<interrupted, configVars, cacheVars, hostVars, trouble>>

\* xdg sets nothing with --deps; making its directories may fail, which undoes what it set.
Xdg ==
    /\ pc = "choose" /\ ~IsSetUp("xdg")
    /\ LET changed == IF option THEN {} ELSE XdgMarks[test] IN
       \/ /\ stack' = Append(stack, Entry("xdg", changed))
          /\ environ' = [v \in Vars |-> IF v \in changed THEN "xdg" ELSE environ[v]]
          /\ UNCHANGED <<pc, outcome, trouble>>
       \/ changed # {} /\ Trouble /\ End("error") /\ UNCHANGED <<stack, environ>>
    /\ UNCHANGED <<test, fixture, spec, depfixtures, interrupted, configVars, cacheVars, hostVars>>

\* The marks are applied from the farthest to the closest.  (Variant: as they come.)
Farthest(marks, v) == marks[CHOOSE i \in DOMAIN marks :
                              /\ v \in DOMAIN marks[i]
                              /\ \A j \in DOMAIN marks : v \in DOMAIN marks[j] => j <= i][v]
Applied(marks, v) == marks[CHOOSE i \in DOMAIN marks :
                             /\ v \in DOMAIN marks[i]
                             /\ \A j \in DOMAIN marks : v \in DOMAIN marks[j] => j >= i][v]
Env ==
    /\ pc = "choose" /\ ~IsSetUp("env")
    /\ LET marks == EnvMarks[test]
           changed == UNION {DOMAIN marks[i] : i \in DOMAIN marks} IN
       /\ stack' = Append(stack, Entry("env", changed))
       /\ environ' \in [Vars -> Values]
       /\ \A v \in Vars :
            environ'[v] = IF v \in changed THEN Applied(marks, v) ELSE environ[v]
    /\ UNCHANGED <<test, pc, fixture, spec, depfixtures, outcome, interrupted, configVars,
                   cacheVars, hostVars, trouble>>

Body ==
    /\ pc = "choose" /\ \A f \in fixturenames(test) : IsSetUp(f)
    /\ End("ran")
    /\ UNCHANGED <<test, fixture, spec, depfixtures, stack, environ, interrupted, configVars,
                   cacheVars, hostVars, trouble>>

\* The fixtures are torn down one after the other, then the next test begins.
Teardown ==
    /\ pc = "teardown"
    /\ \/ /\ stack # <<>>
          /\ LET top == stack[Len(stack)] IN
             environ' = [v \in Vars |-> IF v \in top.vars THEN top.old[v] ELSE environ[v]]
          /\ stack' = SubSeq(stack, 1, Len(stack) - 1)
          /\ UNCHANGED <<pc, test, depfixtures>>
       \/ /\ stack = <<>> /\ depfixtures' = {}
          /\ \/ test < Tests /\ test' = test + 1 /\ pc' = "choose"
             \/ test = Tests /\ pc' = "over" /\ UNCHANGED test
          /\ UNCHANGED <<stack, environ>>
    /\ UNCHANGED <<fixture, spec, outcome, interrupted, configVars, cacheVars, hostVars, trouble>>

-----------------------------------------------------------------------------
(* _deps_install *)

\* What dpkg --status succeeds for: also where only the configuration is left.
KnownDebs == {d \in Debs : dpkg[d] # "absent"}
unchecked_debs == This.debs \ checked_debs

InstallDebs ==
    /\ pc = "debs"
    /\ \/ This.debs # {} /\ ~tools /\ strict /\ Raise /\ UNCHANGED checked_debs
       \/ /\ tools \/ ~strict \/ This.debs = {}
          /\ \/ /\ tools /\ ~(unchecked_debs \subseteq KnownDebs)
                /\ Goto("ppa") /\ UNCHANGED checked_debs
             \/ /\ ~tools \/ unchecked_debs \subseteq KnownDebs
                /\ checked_debs' = IF tools THEN checked_debs \cup This.debs ELSE checked_debs
                /\ Goto("snap")
    /\ UNCHANGED <<configVars, checked_snaps, ppa, hostVars, trouble>>

\* The session fixture: its result, or its exception, is what everybody gets after that.
GetPpa ==
    /\ pc = "ppa"
    /\ \/ ppa = "failed" /\ Raise /\ UNCHANGED <<ppa, trouble>>
       \/ ppa # "failed" /\ ppa' = "ok" /\ Goto("apt") /\ UNCHANGED trouble
       \/ ppa = "unset" /\ ppa' = "failed" /\ Trouble /\ Raise
    /\ UNCHANGED <<configVars, checked_debs, checked_snaps, hostVars>>

\* apt-get may fail with some of the packages installed.  (Variant: those it was asked for
\* count as checked whether it fails or not.)
CacheOnFailure == checked_debs \cup unchecked_debs
CachedOnFailure == checked_debs

AptInstall ==
    /\ pc = "apt"
    /\ \E done \in SUBSET unchecked_debs :
         /\ dpkg' = [d \in Debs |-> IF d \in done THEN "installed" ELSE dpkg[d]]
         /\ \/ /\ done = unchecked_debs
               /\ checked_debs' = checked_debs \cup unchecked_debs /\ Goto("snap")
               /\ UNCHANGED trouble
            \/ Trouble /\ Raise /\ checked_debs' = CachedOnFailure
    /\ UNCHANGED <<configVars, checked_snaps, ppa, snapd, change, prepared, modules>>

\* snap install --no-wait, which starts a change unless the snap is there, and fails while
\* another change installs it.
\* (Variant: the snap is cached before it is installed.)
CacheBefore == checked_snaps \cup {This.snap}
CachedBefore == checked_snaps

InstallSnap ==
    /\ pc = "snap"
    /\ \/ This.snap \in checked_snaps \cup {NoSnap} /\ Goto("pips")
          /\ UNCHANGED <<checked_snaps, change, trouble>>
       \/ /\ This.snap \notin checked_snaps \cup {NoSnap} /\ checked_snaps' = CachedBefore
          /\ \/ This.snap \in snapd /\ Goto("wire") /\ UNCHANGED <<change, trouble>>
             \/ This.snap \notin snapd /\ change[This.snap] # "Doing" /\ UNCHANGED trouble
                /\ change' = [change EXCEPT ![This.snap] = "Doing"] /\ Goto("changes")
             \/ /\ This.snap \notin snapd /\ Raise /\ UNCHANGED change
                /\ Trouble \/ (change[This.snap] = "Doing" /\ UNCHANGED trouble)
    /\ UNCHANGED <<configVars, checked_debs, ppa, dpkg, snapd, prepared, modules>>

\* One look at snap changes that ends the loop.  (Variant: it ends at a change that is done.)
LookForDone == change[This.snap] = "Done" /\ Goto("wire")
Look == \/ change[This.snap] = "Done" /\ Goto("wire")
        \/ change[This.snap] = "Error" /\ Raise

\* snap changes may fail like any command, while snapd goes on.
PollChanges ==
    /\ pc = "changes"
    /\ \/ Look /\ UNCHANGED trouble
       \/ Trouble /\ Raise
    /\ UNCHANGED <<configVars, cacheVars, hostVars>>

\* setup.sh, which the snap may have and which may fail, and the connections, which
\* nobody looks at.
WireSnap ==
    /\ pc = "wire"
    /\ \/ /\ prepared' = prepared \cup {This.snap} /\ checked_snaps' = checked_snaps \cup {This.snap}
          /\ Goto("pips") /\ UNCHANGED trouble
       \/ Trouble /\ Raise /\ UNCHANGED <<prepared, checked_snaps>>
    /\ UNCHANGED <<configVars, checked_debs, ppa, dpkg, snapd, change, modules>>

InstallPips ==
    /\ pc = "pips"
    /\ \/ /\ modules' = modules \cup This.pip_pkgs /\ spec' = spec + 1
          /\ pc' = IF spec < Count(test, fixture) THEN "debs" ELSE "end"
          /\ UNCHANGED <<fixture, testVars, trouble>>
       \/ /\ ~(This.pip_pkgs \subseteq modules) /\ Trouble /\ Raise /\ UNCHANGED modules
    /\ UNCHANGED <<configVars, cacheVars, dpkg, snapd, change, prepared>>

\* An interrupt is not an Exception: it ends the session, unless the finally of deps, the
\* last of the fixtures, raises the skip in its place.
Interrupt ==
    /\ pc \in Installing \ {"end"} /\ Trouble
    /\ \/ /\ fixture = "deps" /\ AllEvaluated /\ Skip /\ interrupted' = interrupted \cup {test}
       \/ /\ ~(fixture = "deps" /\ AllEvaluated)
          /\ pc' = "over" /\ fixture' = "none" /\ UNCHANGED <<spec, testVars>>
    /\ UNCHANGED <<configVars, cacheVars, hostVars>>

-----------------------------------------------------------------------------
(* snapd *)

ChangeEnds(s) ==
    /\ change[s] = "Doing"
    /\ \/ /\ change' = [change EXCEPT ![s] = "Done"] /\ snapd' = snapd \cup {s}
          /\ UNCHANGED trouble
       \/ /\ \E end \in {"Error", "Undone"} : change' = [change EXCEPT ![s] = end]
          /\ Trouble /\ UNCHANGED snapd
    /\ UNCHANGED <<configVars, cacheVars, testVars, pc, fixture, spec, dpkg, prepared, modules>>

Install == InstallDebs \/ GetPpa \/ AptInstall \/ InstallSnap \/ PollChanges \/ WireSnap \/ InstallPips
Session == (\E f \in DEP_FIXTURES : BeginDeps(f)) \/ EndDeps \/ Xdg \/ Env \/ Body \/ Teardown
           \/ Install

Next == Session \/ Interrupt \/ \E s \in Snaps : ChangeEnds(s)

Spec == Init /\ [][Next]_vars

\* Commands return, and snapd comes to the end of a change.
FairSpec == Spec /\ WF_vars(Session) /\ \A s \in Snaps : WF_vars(ChangeEnds(s))

-----------------------------------------------------------------------------
(* Properties *)

Needs(t) == {Marks[t][i] : i \in DOMAIN Marks[t]} \cup {Server[t][i] : i \in DOMAIN Server[t]}

\* A deb is there when it is installed.  Nobody looks at the debs where the tools are missing,
\* and those that were removed and left their configuration are not asked for again.
InstalledDebs == {d \in Debs : dpkg[d] = "installed"}
RemovedDebs == {d \in Debs : dpkg[d] = "config"}
HasDebs(s) == tools => s.debs \ RemovedDebs \subseteq InstalledDebs
HasSnap(s) == s.snap # NoSnap => s.snap \in snapd /\ s.snap \in prepared
Ready == {s \in SpecType : HasDebs(s) /\ HasSnap(s) /\ s.pip_pkgs \subseteq modules}

\* For a test that is skipped in a dependency-only run the debs, snaps and Python packages of
\* all its marks and of its server are installed, whatever failed before, in it or in a test
\* that shares some of them, and in whatever order its fixtures were evaluated (l. 46-56,
\* 109-148, 193-212).  Not so: a deb that was removed before the session and left its
\* configuration, which dpkg --status takes for installed (l. 118); any deb where dpkg or
\* apt-get is missing (l. 113); the channel of a snap; a test whose deps was interrupted.
SkipMeansReady ==
    \A t \in 1..Tests :
      outcome[t] = "skipped" /\ t \notin interrupted => Needs(t) \subseteq Ready

\* A dependency-only run runs no test, and any other run skips none.
BodyOrInstall ==
    \A t \in 1..Tests : /\ outcome[t] = "ran" => ~option
                        /\ outcome[t] = "skipped" => option

\* The variables that have the value of their closest env mark.
Marked(t, e) ==
    \A v \in Vars \ XdgMarks[t] : \A i \in DOMAIN EnvMarks[t] :
      /\ v \in DOMAIN EnvMarks[t][i]
      /\ \A j \in 1..(i - 1) : v \notin DOMAIN EnvMarks[t][j]
      => e[v] = EnvMarks[t][i][v]

\* Between two tests the environment is the host's; what a test has set up is on the stack,
\* and where all of it is, a variable has the value of the closest env mark, in whatever
\* order the fixtures came and wherever one of them failed (l. 228-251, 262-267).
EnvironmentKept ==
    /\ stack = <<>> => environ = HostEnviron
    /\ IsSetUp("env") => Marked(test, environ)

\* The session comes to an end, as long as nobody aborts a change: the loop of _snap_install
\* looks for Done and Error and would look for ever (l. 69-75).
SessionEnds == [](\A s \in Snaps : change[s] # "Undone") => <>(pc = "over")
-----------------------------------------------------------------------------
(* What keeps them: the installation has got as far as it says *)

\* The caches are never ahead of the host, of dpkg where debs are concerned.
CachesHold ==
    /\ checked_debs \subseteq KnownDebs
    /\ checked_snaps \subseteq snapd \cap prepared
    /\ \A s \in Snaps : change[s] = "Done" => s \in snapd

Place ==
    /\ pc \in Installing => option /\ fixture \in DEP_FIXTURES \cap fixturenames(test)
    /\ pc \in Installing \ {"end"} => spec \in 1..Count(test, fixture)
    /\ pc \in {"changes", "wire"} => This.snap # NoSnap

Progress ==
    /\ pc \in Installing =>
         \A i \in 1..(IF pc = "end" THEN Count(test, fixture) ELSE spec - 1) :
           SpecOf(test, fixture, i) \in Ready
    /\ pc \in {"snap", "changes", "wire", "pips"} => HasDebs(This)
    /\ pc = "wire" => This.snap \in snapd
    /\ pc = "pips" => HasSnap(This)

Evaluated ==
    /\ depfixtures # {} => option /\ depfixtures \subseteq fixturenames(test)
    /\ option => \A f \in DEP_FIXTURES : IsSetUp(f) => f \in depfixtures
    /\ option /\ pc = "choose" => depfixtures # DEP_FIXTURES \cap fixturenames(test)
    /\ test \notin interrupted => \A f \in depfixtures : \A i \in 1..Count(test, f) :
                                    SpecOf(test, f, i) \in Ready

\* The environment e as the i-th of the fixtures in s found it, or will.
Before(s, e, i) == IF i <= Len(s) THEN s[i].old ELSE e

\* Tearing down what has changed nothing else since leads back to it.
Restores ==
    /\ Before(stack, environ, 1) = HostEnviron
    /\ \A i \in DOMAIN stack : \A v \in Vars \ stack[i].vars :
         Before(stack, environ, i + 1)[v] = Before(stack, environ, i)[v]

\* What is set up after env leaves its variables alone, and so they are until it is torn down.
MarksApply ==
    \A n \in DOMAIN stack : \A i \in (n + 1)..(Len(stack) + 1) :
      stack[n].fixture = "env" => Marked(test, Before(stack, environ, i))

\* The inductive invariant: what the session takes for installed, or has passed on its way
\* through the specs of a test, is ready as far as Ready says, and only the last step of an installation may
\* put something in a cache (l. 124, 144); and each fixture knows the environment it found.
DepsInv == TypeOK /\ CachesHold /\ Place /\ Progress /\ Evaluated /\ SkipMeansReady /\ BodyOrInstall
           /\ Restores /\ MarksApply /\ EnvironmentKept
=============================================================================
