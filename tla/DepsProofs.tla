----------------------------- MODULE DepsProofs -----------------------------
(* Theorems about Deps, for any tests, marks and numbers of failures. *)
EXTENDS Deps, TLAPS

DepFixturesOf(t) == DEP_FIXTURES \cap fixturenames(t)

\* What a fixture installs is one of its specs.
LEMMA SpecTypes ==
    ASSUME NEW t \in 1..Tests, NEW f \in DepFixturesOf(t), NEW i \in 1..Count(t, f)
    PROVE  SpecOf(t, f, i) \in SpecType
<1>1. Marks[t] \in Seq(SpecType) /\ Server[t] \in Seq(SpecType)
  BY DepsAssumption
<1>2. CASE f = "deps"
  <2>1. (IF i < Len(Marks[t]) THEN i + 1 ELSE 1) \in 1..Len(Marks[t])
    BY <1>1, <1>2 DEF Count
  <2> QED
    BY <1>1, <1>2, <2>1 DEF SpecOf
<1>3. CASE f # "deps"
  BY <1>1, <1>3 DEF SpecOf, Count
<1> QED
  BY <1>2, <1>3

\* The fixtures between them install every spec of the test: the marks but the closest one
\* first, then the closest.
LEMMA AllSpecs ==
    ASSUME NEW t \in 1..Tests, NEW S,
           \A f \in DepFixturesOf(t) : \A i \in 1..Count(t, f) : SpecOf(t, f, i) \in S
    PROVE  Needs(t) \subseteq S
<1>1. Marks[t] \in Seq(SpecType) /\ Server[t] \in Seq(SpecType)
  BY DepsAssumption
<1>2. ASSUME NEW j \in DOMAIN Marks[t] PROVE Marks[t][j] \in S
  <2> DEFINE i == IF j = 1 THEN Len(Marks[t]) ELSE j - 1
  <2>1. "deps" \in DepFixturesOf(t)
    BY DEF DepFixturesOf, DEP_FIXTURES, fixturenames
  <2>2. i \in 1..Count(t, "deps") /\ SpecOf(t, "deps", i) = Marks[t][j]
    BY <1>1, <1>2 DEF Count, SpecOf
  <2> QED
    BY <2>1, <2>2
<1>3. ASSUME NEW j \in DOMAIN Server[t] PROVE Server[t][j] \in S
  <2>1. "any_server" \in DepFixturesOf(t)
    BY <1>1, <1>3 DEF DepFixturesOf, DEP_FIXTURES, fixturenames
  <2>2. j \in 1..Count(t, "any_server") /\ SpecOf(t, "any_server", j) = Server[t][j]
    BY <1>1, <1>3 DEF Count, SpecOf
  <2> QED
    BY <2>1, <2>2
<1> QED
  BY <1>2, <1>3 DEF Needs

-----------------------------------------------------------------------------
(* Types *)

\* While a fixture is set up it is told what to install for.
LEMMA ThisType == Place /\ test \in 1..Tests /\ pc \in Installing \ {"end"} => This \in SpecType
  BY SpecTypes DEF Place, This, DepFixturesOf

\* TypeOK in four parts, each over variables that change together.
Entries == [fixture : {"any_server", "deps", "xdg", "env"}, vars : SUBSET Vars,
            old : [Vars -> Values]]
StackType == stack \in Seq(Entries) /\ environ \in [Vars -> Values]
OutcomeType == outcome \in [1..Tests -> {"none", "skipped", "error", "ran"}]
HostType ==
    /\ dpkg \in [Debs -> {"absent", "config", "installed"}]
    /\ snapd \subseteq Snaps /\ prepared \subseteq Snaps /\ modules \subseteq Pips
    /\ change \in [Snaps -> {"none", "Doing", "Done", "Error", "Undone"}]
SessionType ==
    /\ option \in BOOLEAN /\ tools \in BOOLEAN /\ strict \in BOOLEAN
    /\ test \in 1..Tests /\ spec \in Nat
    /\ pc \in Installing \cup {"choose", "teardown", "over"}
    /\ fixture \in DEP_FIXTURES \cup {"none"} /\ depfixtures \subseteq DEP_FIXTURES
    /\ interrupted \subseteq 1..Tests
    /\ checked_debs \subseteq Debs /\ checked_snaps \subseteq Snaps
    /\ ppa \in {"unset", "ok", "failed"}
    /\ trouble \in 0..MaxTrouble

\* TypeOK in four parts.
LEMMA TypeParts == TypeOK <=> StackType /\ OutcomeType /\ HostType /\ SessionType
  BY DEF TypeOK, StackType, OutcomeType, HostType, SessionType, Entries

\* The types hold at first.
LEMMA TypeInit == Init => TypeOK
<1> SUFFICES ASSUME Init PROVE StackType /\ OutcomeType /\ HostType /\ SessionType
  BY TypeParts
<1>1. StackType
  BY DepsAssumption DEF Init, StackType, HostEnviron
<1>2. OutcomeType
  BY DEF Init, OutcomeType
<1>3. HostType
  BY DEF Init, HostType
<1>4. SessionType
  BY DepsAssumption DEF Init, SessionType, DEP_FIXTURES, Installing
<1> QED
  BY <1>1, <1>2, <1>3, <1>4

\* The frames, by name.
LEMMA Frames ==
    /\ UNCHANGED configVars => UNCHANGED <<option, tools, strict>>
    /\ UNCHANGED hostVars => UNCHANGED <<dpkg, snapd, change, prepared, modules>>
    /\ UNCHANGED cacheVars => UNCHANGED <<checked_debs, checked_snaps, ppa>>
    /\ UNCHANGED testVars =>
         UNCHANGED <<test, depfixtures, stack, environ, outcome, interrupted>>
  BY DEF configVars, hostVars, cacheVars, testVars

\* What the env marks set are variables.
LEMMA EnvChanges ==
    ASSUME NEW t \in 1..Tests
    PROVE  UNION {DOMAIN EnvMarks[t][i] : i \in DOMAIN EnvMarks[t]} \in SUBSET Vars
<1> DEFINE marks == EnvMarks[t]
<1>1. marks \in Seq(UNION {[S -> Values] : S \in SUBSET Vars})
  BY DepsAssumption
<1>2. ASSUME NEW i \in DOMAIN marks PROVE DOMAIN marks[i] \subseteq Vars
  <2> HIDE DEF marks
  <2>1. marks[i] \in UNION {[S -> Values] : S \in SUBSET Vars}
    BY <1>1
  <2> QED
    BY <2>1
<1> QED
  BY <1>2

\* Only setting a fixture up and tearing it down touch the stack and the environment.
LEMMA StackStep == TypeOK /\ Place /\ [Next]_vars => StackType'
<1> SUFFICES ASSUME TypeOK, Place, [Next]_vars PROVE StackType'
  OBVIOUS
<1>1. StackType
  BY TypeParts
<1>2. ASSUME NEW f \in {"any_server", "deps", "xdg", "env"}, NEW changed \in SUBSET Vars
      PROVE  Entry(f, changed) \in Entries
  BY <1>1 DEF Entry, Entries, StackType
<1>3. CASE UNCHANGED <<stack, environ>>
  BY <1>1, <1>3 DEF StackType
<1>4. ASSUME NEW f \in {"any_server", "deps", "xdg", "env"}, NEW changed \in SUBSET Vars,
             stack' = Append(stack, Entry(f, changed)), environ' \in [Vars -> Values]
      PROVE  StackType'
  BY <1>1, <1>2, <1>4 DEF StackType
<1>5. ASSUME NEW f \in DEP_FIXTURES, BeginDeps(f) PROVE StackType'
  <2>1. UNCHANGED environ /\ (UNCHANGED stack \/ stack' = Append(stack, Entry(f, {})))
    BY <1>5 DEF BeginDeps
  <2> QED
    BY <2>1, <1>1, <1>3, <1>4 DEF DEP_FIXTURES, StackType
<1>6. CASE Skip /\ fixture \in DEP_FIXTURES
  <2>1. UNCHANGED environ /\ (UNCHANGED stack \/ stack' = Append(stack, Entry(fixture, {})))
    BY <1>6 DEF Skip
  <2> QED
    BY <2>1, <1>1, <1>3, <1>4, <1>6 DEF DEP_FIXTURES, StackType
<1>7. pc \in Installing => fixture \in DEP_FIXTURES
  BY DEF Place
<1>8. CASE EndDeps
  BY <1>6, <1>7, <1>8 DEF EndDeps, Installing
<1>9. CASE Xdg
  <2> DEFINE changed == IF option THEN {} ELSE XdgMarks[test]
  <2>1. changed \in SUBSET Vars
    BY DepsAssumption DEF TypeOK
  <2>2. \/ UNCHANGED <<stack, environ>>
        \/ /\ stack' = Append(stack, Entry("xdg", changed))
           /\ environ' = [v \in Vars |-> IF v \in changed THEN "xdg" ELSE environ[v]]
    BY <1>9 DEF Xdg
  <2>3. [v \in Vars |-> IF v \in changed THEN "xdg" ELSE environ[v]] \in [Vars -> Values]
    BY <1>1, DepsAssumption DEF StackType
  <2> HIDE DEF changed
  <2> QED
    BY <2>1, <2>2, <2>3, <1>3, <1>4
<1>10. CASE Env
  <2> DEFINE marks == EnvMarks[test]
             changed == UNION {DOMAIN marks[i] : i \in DOMAIN marks}
  <2>1. changed \in SUBSET Vars
    BY EnvChanges DEF TypeOK
  <2>2. stack' = Append(stack, Entry("env", changed)) /\ environ' \in [Vars -> Values]
    BY <1>10 DEF Env
  <2> HIDE DEF changed
  <2> QED
    BY <2>1, <2>2, <1>4
<1>11. CASE Teardown
  <2>1. CASE UNCHANGED <<stack, environ>>
    BY <2>1, <1>3
  <2>2. CASE stack # <<>> /\ stack' = SubSeq(stack, 1, Len(stack) - 1)
             /\ LET top == stack[Len(stack)] IN
                environ' = [v \in Vars |-> IF v \in top.vars THEN top.old[v] ELSE environ[v]]
    <3>1. stack[Len(stack)] \in Entries
      BY <1>1, <2>2 DEF StackType
    <3>2. stack[Len(stack)].old \in [Vars -> Values]
      BY <3>1 DEF Entries
    <3>3. environ' \in [Vars -> Values]
      BY <1>1, <2>2, <3>2 DEF StackType
    <3>4. stack' \in Seq(Entries)
      BY <1>1, <2>2 DEF StackType
    <3> QED
      BY <3>3, <3>4 DEF StackType
  <2> QED
    BY <1>11, <2>1, <2>2 DEF Teardown
<1>12. CASE Interrupt
  BY <1>12, <1>3, <1>6, Frames DEF Interrupt, DEP_FIXTURES
<1>13. CASE Body \/ (\E s \in Snaps : ChangeEnds(s)) \/ UNCHANGED vars
  BY <1>13, <1>3, Frames DEF Body, ChangeEnds, vars
<1>14. CASE Install
  BY <1>14, <1>3, Frames DEF Install, InstallDebs, GetPpa, AptInstall, InstallSnap, PollChanges,
     Look, WireSnap, InstallPips, Goto, Raise
<1> QED
  BY <1>5, <1>8, <1>9, <1>10, <1>11, <1>12, <1>13, <1>14 DEF Next, Session

\* Each step keeps the types of the results.
LEMMA OutcomeStep == TypeOK /\ [Next]_vars => OutcomeType'
<1> SUFFICES ASSUME TypeOK, [Next]_vars PROVE OutcomeType'
  OBVIOUS
<1>1. OutcomeType /\ test \in 1..Tests
  BY TypeParts DEF SessionType
<1>2. CASE UNCHANGED outcome
  BY <1>1, <1>2 DEF OutcomeType
<1>3. ASSUME NEW result \in {"skipped", "error", "ran"}, End(result) PROVE OutcomeType'
  BY <1>1, <1>3 DEF OutcomeType, End
<1>4. CASE Raise
  BY <1>3, <1>4 DEF Raise
<1>5. CASE Skip
  BY <1>2, <1>3, <1>5 DEF Skip
<1>6. CASE Install
  BY <1>6, <1>2, <1>4, Frames DEF Install, InstallDebs, GetPpa, AptInstall, InstallSnap,
     PollChanges, Look, WireSnap, InstallPips, Goto
<1>7. CASE (\E f \in DEP_FIXTURES : BeginDeps(f)) \/ EndDeps \/ Xdg \/ Env \/ Body \/ Teardown
  BY <1>7, <1>2, <1>3, <1>5 DEF BeginDeps, EndDeps, Xdg, Env, Body, Teardown
<1>8. CASE Interrupt \/ (\E s \in Snaps : ChangeEnds(s)) \/ UNCHANGED vars
  BY <1>8, <1>2, <1>5, Frames DEF Interrupt, ChangeEnds, vars
<1> QED
  BY <1>6, <1>7, <1>8 DEF Next, Session

\* The host only ever gets more.
HostGains == /\ KnownDebs \subseteq KnownDebs' /\ snapd \subseteq snapd'
             /\ prepared \subseteq prepared' /\ modules \subseteq modules' /\ UNCHANGED tools

\* And a deb that dpkg knows is installed, or it was removed.
KnownOnes == KnownDebs = InstalledDebs \cup RemovedDebs
HostGrows == HostGains /\ KnownOnes /\ KnownOnes'

\* dpkg knows of nothing else.
LEMMA KnownAre == HostType => KnownOnes
  BY DEF HostType, KnownOnes, KnownDebs, InstalledDebs, RemovedDebs

\* Each step keeps the types of the host, which loses nothing that was installed.
LEMMA HostMoves == TypeOK /\ Place /\ [Next]_vars => HostType' /\ HostGains
<1> SUFFICES ASSUME TypeOK, Place, [Next]_vars PROVE HostType' /\ HostGains
  OBVIOUS
<1>1. HostType /\ test \in 1..Tests
  BY TypeParts DEF SessionType
<1>2. CASE UNCHANGED <<dpkg, snapd, change, prepared, modules, tools>>
  BY <1>1, <1>2 DEF HostType, HostGains, KnownDebs
<1>3. CASE AptInstall
  <2>1. PICK done \in SUBSET unchecked_debs :
          dpkg' = [d \in Debs |-> IF d \in done THEN "installed" ELSE dpkg[d]]
    BY <1>3 DEF AptInstall
  <2>2. UNCHANGED <<snapd, change, prepared, modules, tools>>
    BY <1>3, Frames DEF AptInstall
  <2> QED
    BY <1>1, <2>1, <2>2 DEF HostType, HostGains, KnownDebs
<1>4. CASE InstallSnap
  <2>1. UNCHANGED <<dpkg, snapd, prepared, modules, tools>>
    BY <1>4, Frames DEF InstallSnap
  <2>2. UNCHANGED change \/ change' = [change EXCEPT ![This.snap] = "Doing"]
    BY <1>4 DEF InstallSnap
  <2> QED
    BY <1>1, <2>1, <2>2 DEF HostType, HostGains, KnownDebs
<1>5. CASE WireSnap
  <2>1. UNCHANGED <<dpkg, snapd, change, modules, tools>>
    BY <1>5, Frames DEF WireSnap
  <2>2. prepared \subseteq prepared' /\ prepared' \subseteq prepared \cup {This.snap}
    BY <1>5 DEF WireSnap
  <2>3. This.snap \in Snaps
    BY <1>1, <1>5, ThisType DEF WireSnap, Installing, SpecType, Place
  <2> QED
    BY <1>1, <2>1, <2>2, <2>3 DEF HostType, HostGains, KnownDebs
<1>6. CASE InstallPips
  <2>1. UNCHANGED <<dpkg, snapd, change, prepared, tools>>
    BY <1>6, Frames DEF InstallPips
  <2>2. modules \subseteq modules' /\ modules' \subseteq modules \cup This.pip_pkgs
    BY <1>6 DEF InstallPips
  <2>3. This.pip_pkgs \subseteq Pips
    BY <1>1, <1>6, ThisType DEF InstallPips, Installing, SpecType
  <2> QED
    BY <1>1, <2>1, <2>2, <2>3 DEF HostType, HostGains, KnownDebs
<1>7. ASSUME NEW s \in Snaps, ChangeEnds(s) PROVE HostType' /\ HostGains
  <2>1. UNCHANGED <<dpkg, prepared, modules, tools>>
    BY <1>7, Frames DEF ChangeEnds
  <2>2. snapd \subseteq snapd' /\ snapd' \subseteq snapd \cup {s}
    BY <1>7 DEF ChangeEnds
  <2>3. \E end \in {"Done", "Error", "Undone"} : change' = [change EXCEPT ![s] = end]
    BY <1>7 DEF ChangeEnds
  <2> QED
    BY <1>1, <2>1, <2>2, <2>3 DEF HostType, HostGains, KnownDebs
<1>8. CASE (\E f \in DEP_FIXTURES : BeginDeps(f)) \/ EndDeps \/ Xdg \/ Env \/ Body \/ Teardown
  BY <1>8, <1>2, Frames DEF BeginDeps, EndDeps, Xdg, Env, Body, Teardown
<1>9. CASE InstallDebs \/ GetPpa \/ PollChanges \/ Interrupt \/ UNCHANGED vars
  BY <1>9, <1>2, Frames DEF InstallDebs, GetPpa, PollChanges, Interrupt, vars
<1> QED
  BY <1>3, <1>4, <1>5, <1>6, <1>7, <1>8, <1>9 DEF Next, Session, Install

\* Each step keeps what dpkg knows apart.
LEMMA HostStep == TypeOK /\ Place /\ [Next]_vars => HostType' /\ HostGrows
<1>1. TypeOK => HostType
  BY TypeParts
<1> QED
  BY <1>1, HostMoves, KnownAre, PTL DEF HostGrows

\* Each step keeps the types of the session.
LEMMA SessionStep == TypeOK /\ Place /\ [Next]_vars => SessionType'
<1> SUFFICES ASSUME TypeOK, Place, [Next]_vars PROVE SessionType'
  OBVIOUS
<1>1. SessionType
  BY TypeParts
<1>0. (Trouble \/ UNCHANGED trouble) => trouble' \in 0..MaxTrouble
  BY <1>1, DepsAssumption DEF Trouble, SessionType
<1>2. Installing \subseteq {"debs", "ppa", "apt", "snap", "changes", "wire", "pips", "end"}
      /\ {"debs", "ppa", "apt", "snap", "changes", "wire", "pips", "end"} \subseteq Installing
  BY DEF Installing
<1>3. ASSUME NEW f \in DEP_FIXTURES, BeginDeps(f) PROVE SessionType'
  BY <1>1, <1>2, <1>3, Frames DEF BeginDeps, SessionType
<1>4. CASE Skip /\ fixture \in DEP_FIXTURES /\ UNCHANGED <<configVars, cacheVars>>
           /\ trouble' \in 0..MaxTrouble /\ interrupted' \subseteq 1..Tests
  BY <1>1, <1>4, Frames DEF Skip, End, SessionType
<1>5. pc \in Installing => fixture \in DEP_FIXTURES
  BY DEF Place
<1>6. CASE EndDeps
  BY <1>1, <1>2, <1>4, <1>5, <1>6, Frames DEF EndDeps, SessionType
<1>7. CASE Interrupt
  <2>1. trouble' \in 0..MaxTrouble
    BY <1>0, <1>7 DEF Interrupt
  <2>2. UNCHANGED <<configVars, cacheVars>>
    BY <1>7 DEF Interrupt
  <2>3. CASE Skip /\ interrupted' = interrupted \cup {test}
    BY <1>1, <1>4, <1>5, <1>7, <2>1, <2>2, <2>3 DEF Interrupt, SessionType
  <2>4. CASE pc' = "over" /\ fixture' = "none" /\ UNCHANGED <<spec, testVars>>
    BY <1>1, <2>1, <2>2, <2>4, Frames DEF SessionType
  <2> QED
    BY <1>7, <2>3, <2>4 DEF Interrupt
<1>8. CASE Xdg \/ Env \/ Body
  <2>1. UNCHANGED <<option, tools, strict, test, spec, fixture, depfixtures, interrupted,
                    checked_debs, checked_snaps, ppa>>
    BY <1>8, Frames DEF Xdg, Env, Body
  <2>2. pc' \in {pc, "teardown"} /\ trouble' \in 0..MaxTrouble
    BY <1>0, <1>1, <1>8 DEF Xdg, Env, Body, End, SessionType
  <2> QED
    BY <1>1, <2>1, <2>2 DEF SessionType
<1>9. CASE Teardown
  <2>1. UNCHANGED <<option, tools, strict, spec, fixture, interrupted, checked_debs,
                    checked_snaps, ppa, trouble>>
    BY <1>9, Frames DEF Teardown
  <2>2. /\ pc' \in {pc, "choose", "over"} /\ depfixtures' \in {depfixtures, {}}
        /\ test' = test \/ (test < Tests /\ test' = test + 1)
    BY <1>9 DEF Teardown
  <2> QED
    BY <1>1, <2>1, <2>2, DepsAssumption DEF SessionType
<1>10. CASE Raise /\ UNCHANGED configVars /\ checked_debs' \subseteq Debs
            /\ checked_snaps' \subseteq Snaps /\ ppa' \in {"unset", "ok", "failed"}
            /\ trouble' \in 0..MaxTrouble
  BY <1>1, <1>10, Frames DEF Raise, End, SessionType
<1>11. ASSUME NEW place \in Installing, Goto(place), UNCHANGED configVars, checked_debs' \subseteq Debs,
              checked_snaps' \subseteq Snaps, ppa' \in {"unset", "ok", "failed"},
              trouble' \in 0..MaxTrouble
       PROVE  SessionType'
  BY <1>1, <1>11, Frames DEF Goto, SessionType
<1>12. pc \in Installing \ {"end"} => /\ This.debs \subseteq Debs /\ This.pip_pkgs \subseteq Pips
                                      /\ This.snap \in Snaps \cup {NoSnap}
  BY <1>1, ThisType DEF SpecType, SessionType
<1>13. CASE InstallDebs
  <2>1. Raise \/ \E place \in Installing : Goto(place)
    BY <1>2, <1>13 DEF InstallDebs
  <2>2. /\ UNCHANGED configVars
        /\ checked_debs' \subseteq Debs /\ checked_snaps' \subseteq Snaps
        /\ ppa' \in {"unset", "ok", "failed"} /\ trouble' \in 0..MaxTrouble
    BY <1>0, <1>1, <1>13, <1>2, <1>12, Frames DEF InstallDebs, SessionType
  <2> QED
    BY <2>1, <2>2, <1>10, <1>11
<1>14. CASE GetPpa
  <2>1. Raise \/ \E place \in Installing : Goto(place)
    BY <1>2, <1>14 DEF GetPpa
  <2>2. /\ UNCHANGED configVars
        /\ checked_debs' \subseteq Debs /\ checked_snaps' \subseteq Snaps
        /\ ppa' \in {"unset", "ok", "failed"} /\ trouble' \in 0..MaxTrouble
    BY <1>0, <1>1, <1>14, Frames DEF GetPpa, SessionType
  <2> QED
    BY <2>1, <2>2, <1>10, <1>11
<1>15. CASE AptInstall
  <2>1. Raise \/ \E place \in Installing : Goto(place)
    BY <1>2, <1>15 DEF AptInstall
  <2>2. /\ UNCHANGED configVars
        /\ checked_debs' \subseteq Debs /\ checked_snaps' \subseteq Snaps
        /\ ppa' \in {"unset", "ok", "failed"} /\ trouble' \in 0..MaxTrouble
    BY <1>0, <1>1, <1>15, <1>2, <1>12, Frames DEF AptInstall, SessionType, unchecked_debs, CachedOnFailure
  <2> QED
    BY <2>1, <2>2, <1>10, <1>11
<1>16. CASE InstallSnap
  <2>1. Raise \/ \E place \in Installing : Goto(place)
    BY <1>2, <1>16 DEF InstallSnap
  <2>2. /\ UNCHANGED configVars
        /\ checked_debs' \subseteq Debs /\ checked_snaps' \subseteq Snaps
        /\ ppa' \in {"unset", "ok", "failed"} /\ trouble' \in 0..MaxTrouble
    BY <1>0, <1>1, <1>16, Frames DEF InstallSnap, SessionType, CachedBefore
  <2> QED
    BY <2>1, <2>2, <1>10, <1>11
<1>17. CASE PollChanges
  <2>1. Raise \/ \E place \in Installing : Goto(place)
    BY <1>2, <1>17 DEF PollChanges, Look
  <2>2. /\ UNCHANGED configVars
        /\ checked_debs' \subseteq Debs /\ checked_snaps' \subseteq Snaps
        /\ ppa' \in {"unset", "ok", "failed"} /\ trouble' \in 0..MaxTrouble
    BY <1>0, <1>1, <1>17, Frames DEF PollChanges, SessionType
  <2> QED
    BY <2>1, <2>2, <1>10, <1>11
<1>18. CASE WireSnap
  <2>1. Raise \/ \E place \in Installing : Goto(place)
    BY <1>2, <1>18 DEF WireSnap
  <2>2. /\ UNCHANGED configVars
        /\ checked_debs' \subseteq Debs /\ checked_snaps' \subseteq Snaps
        /\ ppa' \in {"unset", "ok", "failed"} /\ trouble' \in 0..MaxTrouble
    BY <1>0, <1>1, <1>18, <1>2, <1>12, Frames DEF WireSnap, SessionType, Place
  <2> QED
    BY <2>1, <2>2, <1>10, <1>11
<1>19. CASE InstallPips
  <2>1. UNCHANGED <<option, tools, strict, checked_debs, checked_snaps, ppa>>
    BY <1>19, Frames DEF InstallPips
  <2>2. CASE Trouble /\ Raise
    BY <1>0, <1>1, <1>10, <2>1, <2>2 DEF configVars, SessionType
  <2>3. CASE /\ spec' = spec + 1 /\ pc' \in {"debs", "end"}
             /\ UNCHANGED <<fixture, testVars, trouble>>
    <3>1. UNCHANGED <<test, depfixtures, interrupted, fixture, trouble>>
      BY <2>3, Frames
    <3>2. spec' \in Nat /\ pc' \in Installing
      BY <1>1, <1>2, <2>3 DEF SessionType
    <3> QED
      BY <1>1, <2>1, <3>1, <3>2 DEF SessionType
  <2> QED
    BY <1>19, <2>2, <2>3 DEF InstallPips
<1>20. ASSUME NEW s \in Snaps, ChangeEnds(s) PROVE SessionType'
  BY <1>0, <1>1, <1>20, Frames DEF ChangeEnds, SessionType
<1>21. CASE UNCHANGED vars
  BY <1>1, <1>21 DEF vars, SessionType
<1> QED
  BY <1>3, <1>6, <1>7, <1>8, <1>9, <1>13, <1>14, <1>15, <1>16, <1>17, <1>18, <1>19, <1>20, <1>21
     DEF Next, Session, Install

\* Each step keeps the types.
LEMMA TypeStep == TypeOK /\ Place /\ [Next]_vars => TypeOK'
<1> SUFFICES ASSUME TypeOK, Place, [Next]_vars PROVE TypeOK'
  OBVIOUS
<1>1. StackType' /\ OutcomeType' /\ HostType' /\ SessionType'
  BY StackStep, OutcomeStep, HostStep, SessionStep
<1> QED
  BY <1>1 DEF TypeOK, StackType, OutcomeType, HostType, SessionType, Entries

-----------------------------------------------------------------------------
(* The installation *)

\* What is ready on a host stays so where nothing is removed.
LEMMA ReadyGrows == HostGrows => Ready \subseteq Ready'
  BY DEF HostGrows, HostGains, KnownOnes, Ready, HasDebs, HasSnap

\* A step of an installation ends the test with an error, or leaves it where it is; only
\* the last goes on to the next spec.
InstallMoves ==
    /\ pc \in Installing \ {"end"}
    /\ UNCHANGED <<test, depfixtures, stack, interrupted, option>>
    /\ \/ pc' = "teardown" /\ End("error")
       \/ /\ UNCHANGED <<fixture, outcome, spec>>
          /\ pc' \in {"ppa", "apt", "snap", "changes", "wire", "pips"}
          /\ pc' \in {"changes", "wire"} => pc \in {"snap", "changes"}
          /\ pc' = "pips" => pc \in {"snap", "wire"}
          /\ pc' = "snap" => pc \in {"debs", "apt"}
       \/ /\ UNCHANGED <<fixture, outcome>> /\ pc = "pips" /\ spec' = spec + 1
          /\ pc' = IF spec < Count(test, fixture) THEN "debs" ELSE "end"

\* What an installation may do to the test.
LEMMA InstallShape == Install => InstallMoves
<1> SUFFICES ASSUME Install PROVE InstallMoves
  OBVIOUS
<1> USE DEF InstallMoves
<1>1. pc \in Installing \ {"end"}
  BY DEF Install, InstallDebs, GetPpa, AptInstall, InstallSnap, PollChanges, WireSnap,
     InstallPips, Installing
<1>2. UNCHANGED option
  BY Frames DEF Install, InstallDebs, GetPpa, AptInstall, InstallSnap, PollChanges, WireSnap,
     InstallPips
<1>3. CASE Raise
  BY <1>1, <1>2, <1>3 DEF Raise, End
<1>4. ASSUME NEW place, Goto(place)
      PROVE  UNCHANGED <<test, depfixtures, stack, interrupted, fixture, outcome, spec>> /\ pc' = place
  BY <1>4, Frames DEF Goto
<1>5. CASE InstallDebs
  BY <1>1, <1>2, <1>3, <1>4, <1>5 DEF InstallDebs
<1>6. CASE GetPpa
  BY <1>1, <1>2, <1>3, <1>4, <1>6 DEF GetPpa
<1>7. CASE AptInstall
  BY <1>1, <1>2, <1>3, <1>4, <1>7 DEF AptInstall
<1>8. CASE InstallSnap
  BY <1>1, <1>2, <1>3, <1>4, <1>8 DEF InstallSnap
<1>9. CASE PollChanges
  BY <1>1, <1>2, <1>3, <1>4, <1>9 DEF PollChanges, Look
<1>10. CASE WireSnap
  BY <1>1, <1>2, <1>3, <1>4, <1>10 DEF WireSnap
<1>11. CASE InstallPips
  BY <1>1, <1>2, <1>3, <1>11, Frames DEF InstallPips
<1> QED
  BY <1>5, <1>6, <1>7, <1>8, <1>9, <1>10, <1>11 DEF Install

\* The caches hold what the host has.
LEMMA CachesStep ==
    TypeOK /\ CachesHold /\ Place /\ Progress /\ [Next]_vars => CachesHold'
<1> SUFFICES ASSUME TypeOK, CachesHold, Place, Progress, [Next]_vars PROVE CachesHold'
  OBVIOUS
<1>1. HostType /\ HostGrows /\ test \in 1..Tests
  BY TypeParts, HostStep DEF SessionType
<1>2. UNCHANGED checked_debs => checked_debs' \subseteq KnownDebs'
  BY <1>1 DEF CachesHold, HostGrows, HostGains
<1>3. UNCHANGED checked_snaps => checked_snaps' \subseteq snapd' \cap prepared'
  BY <1>1 DEF CachesHold, HostGrows, HostGains
<1>4. UNCHANGED change => \A s \in Snaps : change'[s] = "Done" => s \in snapd'
  BY <1>1 DEF CachesHold, HostGrows, HostGains
<1>5. CASE UNCHANGED <<checked_debs, checked_snaps, change>>
  BY <1>2, <1>3, <1>4, <1>5 DEF CachesHold
<1>6. CASE InstallDebs
  <2>1. UNCHANGED <<checked_snaps, change>>
    BY <1>6, Frames DEF InstallDebs
  <2>2. UNCHANGED checked_debs
        \/ (unchecked_debs \subseteq KnownDebs /\ checked_debs' = checked_debs \cup This.debs)
    BY <1>6 DEF InstallDebs
  <2>3. checked_debs' \subseteq KnownDebs'
    BY <1>1, <1>2, <2>2 DEF CachesHold, unchecked_debs, HostGrows, HostGains
  <2> QED
    BY <1>3, <1>4, <2>1, <2>3 DEF CachesHold
<1>7. CASE AptInstall
  <2>1. UNCHANGED <<checked_snaps, change>>
    BY <1>7, Frames DEF AptInstall
  <2>2. CASE UNCHANGED checked_debs
    BY <1>2, <1>3, <1>4, <2>1, <2>2 DEF CachesHold
  <2>3. CASE checked_debs' = checked_debs \cup unchecked_debs
             /\ dpkg' = [d \in Debs |-> IF d \in unchecked_debs THEN "installed" ELSE dpkg[d]]
    <3>1. unchecked_debs \subseteq Debs
      BY <1>1, <1>7, ThisType DEF unchecked_debs, AptInstall, Installing, SpecType
    <3>2. unchecked_debs \subseteq KnownDebs'
      BY <2>3, <3>1 DEF KnownDebs
    <3>3. checked_debs \subseteq KnownDebs'
      BY <1>1 DEF CachesHold, HostGrows, HostGains
    <3> QED
      BY <1>3, <1>4, <2>1, <2>3, <3>2, <3>3 DEF CachesHold
  <2> QED
    BY <1>7, <2>2, <2>3 DEF AptInstall, CachedOnFailure
<1>8. CASE InstallSnap
  <2>1. UNCHANGED <<checked_debs, checked_snaps>>
    BY <1>8 DEF InstallSnap, CachedBefore
  <2>2. UNCHANGED change \/ change' = [change EXCEPT ![This.snap] = "Doing"]
    BY <1>8 DEF InstallSnap
  <2>3. \A s \in Snaps : change'[s] = "Done" => s \in snapd'
    BY <1>1, <1>4, <2>2 DEF CachesHold, HostType, HostGrows, HostGains
  <2> QED
    BY <1>2, <1>3, <2>1, <2>3 DEF CachesHold
<1>9. CASE WireSnap
  <2>1. UNCHANGED <<checked_debs, change>> /\ This.snap \in snapd
    BY <1>9, Frames DEF WireSnap, Progress
  <2>2. UNCHANGED checked_snaps \/ (/\ checked_snaps' = checked_snaps \cup {This.snap}
                                   /\ prepared' = prepared \cup {This.snap})
    BY <1>9 DEF WireSnap
  <2>3. checked_snaps' \subseteq snapd' \cap prepared'
    BY <1>1, <1>3, <2>1, <2>2 DEF CachesHold, HostGrows, HostGains
  <2> QED
    BY <1>2, <1>4, <2>1, <2>3 DEF CachesHold
<1>10. ASSUME NEW s \in Snaps, ChangeEnds(s) PROVE CachesHold'
  <2>1. UNCHANGED <<checked_debs, checked_snaps>>
    BY <1>10, Frames DEF ChangeEnds
  <2>2. \/ change' = [change EXCEPT ![s] = "Done"] /\ snapd' = snapd \cup {s}
        \/ \E end \in {"Error", "Undone"} : change' = [change EXCEPT ![s] = end] /\ UNCHANGED snapd
    BY <1>10 DEF ChangeEnds
  <2>3. \A r \in Snaps : change'[r] = "Done" => r \in snapd'
    BY <1>1, <2>2 DEF CachesHold, HostType
  <2> QED
    BY <1>2, <1>3, <2>1, <2>3 DEF CachesHold
<1>11. CASE GetPpa \/ PollChanges \/ InstallPips \/ Interrupt \/ UNCHANGED vars
  BY <1>5, <1>11, Frames DEF GetPpa, PollChanges, InstallPips, Interrupt, vars
<1>12. CASE (\E f \in DEP_FIXTURES : BeginDeps(f)) \/ EndDeps \/ Xdg \/ Env \/ Body \/ Teardown
  BY <1>5, <1>12, Frames DEF BeginDeps, EndDeps, Xdg, Env, Body, Teardown
<1> QED
  BY <1>6, <1>7, <1>8, <1>9, <1>10, <1>11, <1>12 DEF Next, Session, Install

\* A test has a number of results of a kind.
LEMMA CountType == ASSUME NEW t \in 1..Tests, NEW f PROVE Count(t, f) \in Nat
  BY DepsAssumption DEF Count

\* An installation is that of a spec of a fixture of the test.
LEMMA PlaceStep == TypeOK /\ Place /\ [Next]_vars => Place'
<1> SUFFICES ASSUME TypeOK, Place, [Next]_vars PROVE Place'
  OBVIOUS
<1>1. test \in 1..Tests /\ spec \in Nat
  BY DEF TypeOK
<1>2. CASE pc' \notin Installing
  BY <1>2 DEF Place, Installing
<1>3. CASE Install
  <2>1. InstallMoves
    BY <1>3, InstallShape
  <2>2. CASE pc' = "teardown"
    BY <1>2, <2>2 DEF Installing
  <2>3. CASE UNCHANGED <<test, fixture, spec, option>>
             /\ pc' \in {"ppa", "apt", "snap", "changes", "wire", "pips"}
    <3>1. UNCHANGED This
      BY <2>3 DEF This
    <3>2. pc' \in {"changes", "wire"} => This.snap # NoSnap
      BY <1>3, <2>1, <2>3 DEF Place, InstallMoves, Install, InstallDebs, GetPpa, AptInstall,
         InstallSnap, PollChanges, WireSnap, InstallPips, Goto, Raise, End
    <3> QED
      BY <2>1, <2>3, <3>1, <3>2 DEF Place, InstallMoves, Installing
  <2>4. CASE /\ UNCHANGED <<test, fixture, option>> /\ spec' = spec + 1
             /\ pc' = IF spec < Count(test, fixture) THEN "debs" ELSE "end"
    BY <1>1, <2>1, <2>4, CountType DEF Place, InstallMoves, Installing
  <2> QED
    BY <2>1, <2>2, <2>3, <2>4 DEF InstallMoves
<1>4. ASSUME NEW f \in DEP_FIXTURES, BeginDeps(f) PROVE Place'
  <2>1. CASE UNCHANGED pc
    BY <1>2, <1>4, <2>1 DEF BeginDeps, Installing
  <2>2. CASE option /\ fixture' = f /\ spec' = 1
             /\ pc' = IF Count(test, f) = 0 THEN "end" ELSE "debs"
    BY <1>1, <1>4, <2>2, CountType, Frames DEF BeginDeps, Place
  <2> QED
    BY <1>4, <2>1, <2>2 DEF BeginDeps
<1>5. CASE Skip
  BY <1>2, <1>5 DEF Skip, End, Installing
<1>6. CASE EndDeps \/ Interrupt
  BY <1>2, <1>5, <1>6 DEF EndDeps, Interrupt, Installing
<1>7. CASE Xdg \/ Env \/ Body \/ Teardown
  BY <1>2, <1>7 DEF Xdg, Env, Body, Teardown, End, Installing
<1>8. CASE (\E s \in Snaps : ChangeEnds(s)) \/ UNCHANGED vars
  <2>1. UNCHANGED <<pc, fixture, spec, test, option>>
    BY <1>8, Frames DEF ChangeEnds, vars
  <2> QED
    BY <2>1 DEF Place, This
<1> QED
  BY <1>3, <1>4, <1>6, <1>7, <1>8 DEF Next, Session

\* The specs that lie behind are ready.
LEMMA ProgressStep == TypeOK /\ CachesHold /\ Place /\ Progress /\ [Next]_vars => Progress'
<1> SUFFICES ASSUME TypeOK, CachesHold, Place, Progress, [Next]_vars PROVE Progress'
  OBVIOUS
<1>1. HostGrows /\ Ready \subseteq Ready'
  BY HostStep, ReadyGrows
<1>2. test \in 1..Tests /\ spec \in Nat /\ HostType
  BY TypeParts DEF TypeOK
<1>3. CASE pc' \notin Installing
  BY <1>3 DEF Progress, Installing
<1>4. CASE UNCHANGED <<pc, fixture, spec, test>>
  <2>1. UNCHANGED This
    BY <1>4 DEF This
  <2> QED
    BY <1>1, <1>4, <2>1 DEF Progress, HasDebs, HasSnap, HostGrows, HostGains, KnownOnes
<1>5. CASE Install
  <2>1. InstallMoves
    BY <1>5, InstallShape
  <2>2. CASE pc' = "teardown"
    BY <1>3, <2>2 DEF Installing
  <2>3. CASE UNCHANGED <<test, fixture, spec>>
             /\ pc' \in {"ppa", "apt", "snap", "changes", "wire", "pips"}
    <3>1. UNCHANGED This
      BY <2>3 DEF This
    <3>2. \A i \in 1..(spec' - 1) : SpecOf(test', fixture', i) \in Ready'
      BY <1>1, <2>1, <2>3 DEF Progress, InstallMoves
    <3>3. pc' \in {"snap", "changes", "wire", "pips"} => HasDebs(This)'
      <4>1. CASE InstallDebs
        BY <1>1, <2>3, <3>1, <4>1 DEF InstallDebs, HasDebs, HostGrows, HostGains, KnownOnes,
           CachesHold, unchecked_debs, Raise, End, Goto
      <4>2. CASE AptInstall
        <5>1. dpkg' = [d \in Debs |-> IF d \in unchecked_debs THEN "installed" ELSE dpkg[d]]
          BY <2>3, <4>2 DEF AptInstall, Raise, End
        <5>2. This.debs \subseteq Debs
          BY <1>2, <4>2, ThisType DEF AptInstall, Installing, SpecType
        <5>3. unchecked_debs \subseteq KnownDebs'
          BY <5>1, <5>2 DEF KnownDebs, unchecked_debs
        <5> QED
          BY <1>1, <3>1, <5>3 DEF HasDebs, HostGrows, HostGains, KnownOnes, CachesHold, unchecked_debs
      <4>3. CASE pc \in {"snap", "changes", "wire", "pips"}
        BY <1>1, <3>1, <4>3 DEF Progress, HasDebs, HostGrows, HostGains, KnownOnes
      <4>4. CASE GetPpa
        BY <2>3, <4>4 DEF GetPpa, Raise, End, Goto
      <4> QED
        BY <1>5, <4>1, <4>2, <4>3, <4>4 DEF Install, InstallSnap, PollChanges, WireSnap, InstallPips
    <3>4. pc' = "wire" => This'.snap \in snapd'
      <4>1. pc' = "wire" => This.snap \in snapd
        BY <1>2, <1>5, <2>1, <2>3, ThisType DEF InstallMoves, Install, InstallDebs, GetPpa, AptInstall,
           InstallSnap, PollChanges, Look, WireSnap, InstallPips, Goto, Raise, End, CachesHold,
           Place, SpecType, Installing
      <4> QED
        BY <1>1, <3>1, <4>1 DEF HostGrows, HostGains
    <3>5. pc' = "pips" => HasSnap(This)'
      <4>1. CASE InstallSnap
        BY <1>1, <2>3, <3>1, <4>1 DEF InstallSnap, HasSnap, HostGrows, HostGains, CachesHold, Raise, End, Goto
      <4>2. CASE WireSnap
        BY <1>1, <2>3, <3>1, <4>2 DEF WireSnap, HasSnap, HostGrows, HostGains, Progress, Raise, End
      <4>3. CASE pc \notin {"snap", "wire"}
        BY <2>1, <2>3, <4>3 DEF InstallMoves
      <4> QED
        BY <1>5, <4>1, <4>2, <4>3 DEF Install, InstallDebs, GetPpa, AptInstall, PollChanges, InstallPips
    <3> QED
      BY <2>3, <3>2, <3>3, <3>4, <3>5 DEF Progress, Installing
  <2>4. CASE /\ UNCHANGED <<test, fixture>> /\ spec' = spec + 1 /\ pc = "pips"
             /\ pc' = IF spec < Count(test, fixture) THEN "debs" ELSE "end"
    <3>1. This \in SpecType
      BY <1>2, <2>4, ThisType DEF Installing
    <3>2. This.pip_pkgs \subseteq modules'
      BY <1>5, <2>4 DEF Install, InstallDebs, GetPpa, AptInstall, InstallSnap, PollChanges,
         WireSnap, InstallPips, Raise, End
    <3>3. HasDebs(This) /\ HasSnap(This)
      BY <2>4 DEF Progress
    <3>4. This \in Ready'
      BY <1>1, <3>1, <3>2, <3>3 DEF Ready, HasDebs, HasSnap, HostGrows, HostGains, KnownOnes
    <3>5. spec \in 1..Count(test, fixture) /\ Count(test, fixture) \in Nat
      BY <1>2, <2>4, CountType DEF Place, Installing
    <3>6. \A i \in 1..spec : SpecOf(test, fixture, i) \in Ready'
      BY <1>1, <1>2, <2>4, <3>4 DEF Progress, Installing, This
    <3>7. pc' = "end" => spec = Count(test, fixture)
      BY <2>4, <3>5
    <3> QED
      BY <1>2, <2>4, <3>5, <3>6, <3>7 DEF Progress
  <2> QED
    BY <2>1, <2>2, <2>3, <2>4 DEF InstallMoves
<1>6. ASSUME NEW f \in DEP_FIXTURES, BeginDeps(f) PROVE Progress'
  <2>1. CASE UNCHANGED pc
    BY <1>3, <1>6, <2>1 DEF BeginDeps, Installing
  <2>2. CASE fixture' = f /\ spec' = 1 /\ UNCHANGED test
             /\ pc' = IF Count(test, f) = 0 THEN "end" ELSE "debs"
    BY <2>2 DEF Progress
  <2> QED
    BY <1>6, <2>1, <2>2 DEF BeginDeps
<1>7. CASE Skip
  BY <1>3, <1>7 DEF Skip, End, Installing
<1>8. CASE EndDeps \/ Interrupt
  BY <1>3, <1>7, <1>8 DEF EndDeps, Interrupt, Installing
<1>9. CASE Xdg \/ Env \/ Body \/ Teardown
  BY <1>3, <1>9 DEF Xdg, Env, Body, Teardown, End, Installing
<1>10. CASE (\E s \in Snaps : ChangeEnds(s)) \/ UNCHANGED vars
  BY <1>4, <1>10, Frames DEF ChangeEnds, vars
<1> QED
  BY <1>5, <1>6, <1>8, <1>9, <1>10 DEF Next, Session

-----------------------------------------------------------------------------
(* The fixtures *)

\* A fixture is set up that is pushed, and no other one.
LEMMA SetUp ==
    ASSUME StackType, NEW f
    PROVE  /\ \A g \in {"any_server", "deps", "xdg", "env"}, changed \in SUBSET Vars :
                stack' = Append(stack, Entry(g, changed)) => (IsSetUp(f)' => IsSetUp(f) \/ f = g)
           /\ stack # <<>> /\ stack' = SubSeq(stack, 1, Len(stack) - 1) => (IsSetUp(f)' => IsSetUp(f))
           /\ UNCHANGED stack => (IsSetUp(f)' => IsSetUp(f))
<1>1. ASSUME NEW g \in {"any_server", "deps", "xdg", "env"}, NEW changed \in SUBSET Vars,
             stack' = Append(stack, Entry(g, changed)), IsSetUp(f)', f # g
      PROVE  IsSetUp(f)
  <2>1. Entry(g, changed) \in Entries /\ Entry(g, changed).fixture = g
    BY DEF Entry, Entries, StackType
  <2>2. PICK i \in DOMAIN stack' : stack'[i].fixture = f
    BY <1>1 DEF IsSetUp
  <2>3. i \in DOMAIN stack /\ stack'[i] = stack[i]
    BY <1>1, <2>1, <2>2 DEF StackType
  <2> QED
    BY <2>2, <2>3 DEF IsSetUp
<1>2. ASSUME stack # <<>>, stack' = SubSeq(stack, 1, Len(stack) - 1), IsSetUp(f)' PROVE IsSetUp(f)
  <2>1. PICK i \in DOMAIN stack' : stack'[i].fixture = f
    BY <1>2 DEF IsSetUp
  <2>2. i \in DOMAIN stack /\ stack'[i] = stack[i]
    BY <1>2, <2>1 DEF StackType
  <2> QED
    BY <2>1, <2>2 DEF IsSetUp
<1> QED
  BY <1>1, <1>2 DEF IsSetUp

\* The options of a session do not change.
LEMMA OptionStays == [Next]_vars => UNCHANGED option
  BY Frames, InstallShape DEF InstallMoves, Next, Session, BeginDeps, EndDeps, Xdg, Env, Body,
     Teardown, Interrupt, ChangeEnds, vars

\* What is ready stays so.
LEMMA ReadyStays == TypeOK /\ Place /\ [Next]_vars => Ready \subseteq Ready'
  BY HostStep, ReadyGrows

\* What the fixtures that a test has been through asked for is ready.
LEMMA EvaluatedStep ==
    TypeOK /\ Place /\ Progress /\ Evaluated /\ [Next]_vars => Evaluated'
<1> SUFFICES ASSUME TypeOK, Place, Progress, Evaluated, [Next]_vars PROVE Evaluated'
  OBVIOUS
<1>1. StackType /\ test \in 1..Tests /\ depfixtures \subseteq DEP_FIXTURES
  BY TypeParts DEF SessionType
<1>2. UNCHANGED option /\ Ready \subseteq Ready'
  BY OptionStays, ReadyStays
<1>3. CASE /\ UNCHANGED <<test, depfixtures, interrupted>> /\ (pc' # "choose" \/ pc = "choose")
           /\ \A f \in DEP_FIXTURES : option /\ IsSetUp(f)' => IsSetUp(f)
  BY <1>2, <1>3 DEF Evaluated
<1>4. UNCHANGED stack => \A f \in DEP_FIXTURES : IsSetUp(f)' => IsSetUp(f)
  BY DEF IsSetUp
<1>5. CASE Install
  <2>1. UNCHANGED <<test, depfixtures, interrupted, stack>> /\ pc' # "choose"
    BY <1>5, InstallShape DEF InstallMoves, End
  <2> QED
    BY <1>3, <1>4, <2>1
<1>6. ASSUME NEW f \in DEP_FIXTURES, BeginDeps(f) PROVE Evaluated'
  <2>1. /\ UNCHANGED <<test, depfixtures, interrupted>> /\ pc = "choose"
        /\ ~option \/ UNCHANGED stack
    BY <1>6 DEF BeginDeps
  <2> QED
    BY <1>3, <1>4, <2>1
<1>7. ASSUME Skip, fixture \in DepFixturesOf(test), option,
             \/ interrupted' = interrupted \cup {test}
             \/ /\ UNCHANGED interrupted
                /\ \A i \in 1..Count(test, fixture) : SpecOf(test, fixture, i) \in Ready
      PROVE  Evaluated'
  <2>1. UNCHANGED test /\ depfixtures' = depfixtures \cup {fixture}
    BY <1>7 DEF Skip
  <2>2. depfixtures' \subseteq fixturenames(test)
    BY <1>7, <2>1 DEF Evaluated, DepFixturesOf
  <2>3. ASSUME NEW f \in DEP_FIXTURES, IsSetUp(f)' PROVE f \in depfixtures'
    <3>1. UNCHANGED stack \/ stack' = Append(stack, Entry(fixture, {}))
      BY <1>7 DEF Skip
    <3>2. IsSetUp(f) \/ f = fixture
      BY <1>1, <1>7, <2>3, <3>1, SetUp DEF DepFixturesOf, DEP_FIXTURES
    <3> QED
      BY <1>7, <2>1, <3>2 DEF Evaluated
  <2>4. pc' = "choose" => depfixtures' # DEP_FIXTURES \cap fixturenames(test)
    BY <1>7, <2>1 DEF Skip, AllEvaluated, End
  <2>5. test \notin interrupted' => \A f \in depfixtures' : \A i \in 1..Count(test, f) :
                                      SpecOf(test, f, i) \in Ready'
    BY <1>2, <1>7, <2>1 DEF Evaluated
  <2> QED
    BY <1>2, <1>7, <2>1, <2>2, <2>3, <2>4, <2>5 DEF Evaluated
<1>8. pc \in Installing => option /\ fixture \in DepFixturesOf(test)
  BY DEF Place, DepFixturesOf
<1>9. CASE EndDeps
  <2>1. Skip /\ UNCHANGED interrupted
    BY <1>9 DEF EndDeps
  <2>2. \A i \in 1..Count(test, fixture) : SpecOf(test, fixture, i) \in Ready
    BY <1>9 DEF EndDeps, Progress, Installing
  <2> QED
    BY <1>7, <1>8, <1>9, <2>1, <2>2 DEF EndDeps, Installing
<1>10. CASE Interrupt
  <2>1. CASE Skip /\ interrupted' = interrupted \cup {test}
    BY <1>7, <1>8, <1>10, <2>1 DEF Interrupt
  <2>2. CASE pc' = "over" /\ UNCHANGED testVars
    BY <1>3, <1>4, <2>2, Frames
  <2> QED
    BY <1>10, <2>1, <2>2 DEF Interrupt
<1>11. CASE Xdg
  <2>1. UNCHANGED <<test, depfixtures, interrupted>> /\ pc = "choose"
    BY <1>11 DEF Xdg
  <2>2. (IF option THEN {} ELSE XdgMarks[test]) \in SUBSET Vars
    BY <1>1, DepsAssumption
  <2>3. UNCHANGED stack \/ stack' = Append(stack, Entry("xdg", IF option THEN {} ELSE XdgMarks[test]))
    BY <1>11 DEF Xdg
  <2>4. \A f \in DEP_FIXTURES : IsSetUp(f)' => IsSetUp(f)
    BY <1>1, <2>2, <2>3, SetUp DEF DEP_FIXTURES
  <2> QED
    BY <1>3, <2>1, <2>4
<1>12. CASE Env
  <2> DEFINE changed == UNION {DOMAIN EnvMarks[test][i] : i \in DOMAIN EnvMarks[test]}
  <2>1. UNCHANGED <<test, depfixtures, interrupted>> /\ pc = "choose"
    BY <1>12 DEF Env
  <2>2. changed \in SUBSET Vars
    BY <1>1, EnvChanges
  <2>3. stack' = Append(stack, Entry("env", changed))
    BY <1>12 DEF Env
  <2> HIDE DEF changed
  <2>4. \A f \in DEP_FIXTURES : IsSetUp(f)' => IsSetUp(f)
    BY <1>1, <2>2, <2>3, SetUp DEF DEP_FIXTURES
  <2> QED
    BY <1>3, <2>1, <2>4
<1>13. CASE Body
  BY <1>3, <1>4, <1>13 DEF Body, End
<1>14. CASE Teardown
  <2>1. CASE stack # <<>> /\ stack' = SubSeq(stack, 1, Len(stack) - 1)
             /\ UNCHANGED <<pc, test, depfixtures>>
    BY <1>1, <1>3, <1>14, <2>1, SetUp DEF Teardown
  <2>2. CASE stack = <<>> /\ UNCHANGED stack /\ depfixtures' = {}
    <3>1. \A f \in DEP_FIXTURES : ~IsSetUp(f)'
      BY <2>2 DEF IsSetUp
    <3>2. DEP_FIXTURES \cap fixturenames(test') # {}
      BY DEF DEP_FIXTURES, fixturenames
    <3> QED
      BY <2>2, <3>1, <3>2 DEF Evaluated
  <2> QED
    BY <1>14, <2>1, <2>2 DEF Teardown
<1>15. CASE (\E s \in Snaps : ChangeEnds(s)) \/ UNCHANGED vars
  <2>1. UNCHANGED <<test, depfixtures, interrupted, stack, pc>>
    BY <1>15, Frames DEF ChangeEnds, vars
  <2> QED
    BY <1>3, <1>4, <2>1
<1> QED
  BY <1>5, <1>6, <1>9, <1>10, <1>11, <1>12, <1>13, <1>14, <1>15 DEF Next, Session

-----------------------------------------------------------------------------
(* Outcomes *)

\* What a step makes of the outcomes: it gives the test one, or leaves them.
Results(result) == outcome' = [outcome EXCEPT ![test] = result]

\* A result is given once, and never taken back.
LEMMA OutcomeMoves ==
    TypeOK /\ [Next]_vars =>
      \/ UNCHANGED outcome
      \/ Results("error")
      \/ Body /\ Results("ran")
      \/ /\ pc \in Installing /\ Skip /\ AllEvaluated /\ Results("skipped") /\ UNCHANGED test
<1> SUFFICES ASSUME TypeOK, [Next]_vars
             PROVE  \/ UNCHANGED outcome
                    \/ Results("error")
                    \/ Body /\ Results("ran")
                    \/ /\ pc \in Installing /\ Skip /\ AllEvaluated /\ Results("skipped")
                       /\ UNCHANGED test
  OBVIOUS
<1>1. CASE Install
  BY <1>1, Frames DEF Install, InstallDebs, GetPpa, AptInstall, InstallSnap, PollChanges, Look,
     WireSnap, InstallPips, Goto, Raise, End, Results
<1>2. CASE Skip /\ pc \in Installing
  BY <1>2 DEF Skip, End, Results
<1>3. CASE EndDeps \/ Interrupt
  BY <1>2, <1>3, Frames DEF EndDeps, Interrupt, Installing
<1>4. CASE (\E f \in DEP_FIXTURES : BeginDeps(f)) \/ Xdg \/ Env \/ Body \/ Teardown
  BY <1>4 DEF BeginDeps, Xdg, Env, Body, Teardown, End, Results
<1>5. CASE (\E s \in Snaps : ChangeEnds(s)) \/ UNCHANGED vars
  BY <1>5, Frames DEF ChangeEnds, vars
<1> QED
  BY <1>1, <1>3, <1>4, <1>5 DEF Next, Session

\* What was interrupted stays so.
LEMMA InterruptedGrows == [Next]_vars => interrupted \subseteq interrupted'
<1> SUFFICES ASSUME [Next]_vars PROVE interrupted \subseteq interrupted'
  OBVIOUS
<1>1. CASE Install
  BY <1>1, InstallShape DEF InstallMoves
<1>2. CASE Interrupt
  BY <1>2, Frames DEF Interrupt
<1>3. CASE (\E f \in DEP_FIXTURES : BeginDeps(f)) \/ EndDeps \/ Xdg \/ Env \/ Body \/ Teardown
  BY <1>3 DEF BeginDeps, EndDeps, Xdg, Env, Body, Teardown
<1>4. CASE (\E s \in Snaps : ChangeEnds(s)) \/ UNCHANGED vars
  BY <1>4, Frames DEF ChangeEnds, vars
<1> QED
  BY <1>1, <1>2, <1>3, <1>4 DEF Next, Session

\* A test is skipped when it has been through all of its fixtures.
LEMMA SkipStep ==
    TypeOK /\ Place /\ Progress /\ Evaluated /\ SkipMeansReady /\ [Next]_vars => SkipMeansReady'
<1> SUFFICES ASSUME TypeOK, Place, Progress, Evaluated, SkipMeansReady, [Next]_vars,
                    NEW t \in 1..Tests, outcome'[t] = "skipped", t \notin interrupted'
             PROVE  Needs(t) \subseteq Ready'
  BY DEF SkipMeansReady, Needs
<1>1. Ready \subseteq Ready' /\ t \notin interrupted
  BY ReadyStays, InterruptedGrows
<1>2. OutcomeType /\ test \in 1..Tests
  BY TypeParts DEF SessionType
<1>3. CASE outcome[t] = "skipped"
  BY <1>1, <1>3 DEF SkipMeansReady
<1>4. CASE outcome[t] # "skipped"
  <2>1. t = test /\ Skip /\ AllEvaluated /\ UNCHANGED test
    BY <1>2, <1>4, OutcomeMoves DEF Results, OutcomeType
  <2>2. depfixtures' = DepFixturesOf(test)
    BY <2>1 DEF Skip, AllEvaluated, DepFixturesOf
  <2>3. Evaluated'
    BY EvaluatedStep
  <2>4. \A f \in DepFixturesOf(t) : \A i \in 1..Count(t, f) : SpecOf(t, f, i) \in Ready'
    BY <2>1, <2>2, <2>3 DEF Evaluated
  <2> QED
    BY <2>4, AllSpecs
<1> QED
  BY <1>3, <1>4

\* With --deps the body is never reached: when every fixture is set up, the test has been
\* through all of those that install, and the last of them has skipped it.
LEMMA BodyStep ==
    TypeOK /\ Place /\ Evaluated /\ BodyOrInstall /\ [Next]_vars => BodyOrInstall'
<1> SUFFICES ASSUME TypeOK, Place, Evaluated, BodyOrInstall, [Next]_vars, NEW t \in 1..Tests
             PROVE  /\ outcome'[t] = "ran" => ~option'
                    /\ outcome'[t] = "skipped" => option'
  BY DEF BodyOrInstall
<1>1. OutcomeType /\ test \in 1..Tests /\ UNCHANGED option
  BY TypeParts, OptionStays DEF SessionType
<1>2. Body => ~option
  <2> SUFFICES ASSUME Body, option PROVE FALSE
    OBVIOUS
  <2>1. pc = "choose" /\ \A f \in fixturenames(test) : IsSetUp(f)
    BY DEF Body
  <2>2. DEP_FIXTURES \cap fixturenames(test) \subseteq depfixtures
    BY <2>1 DEF Evaluated
  <2>3. depfixtures \subseteq DEP_FIXTURES \cap fixturenames(test)
    BY TypeParts DEF SessionType, Evaluated
  <2> QED
    BY <2>1, <2>2, <2>3 DEF Evaluated
<1>3. pc \in Installing => option
  BY DEF Place
<1>4. CASE UNCHANGED outcome
  BY <1>1, <1>4 DEF BodyOrInstall
<1>5. ASSUME NEW result \in {"error", "ran", "skipped"}, Results(result),
             result = "ran" => ~option, result = "skipped" => option
      PROVE  /\ outcome'[t] = "ran" => ~option'
             /\ outcome'[t] = "skipped" => option'
  <2>1. outcome'[t] = IF t = test THEN result ELSE outcome[t]
    BY <1>1, <1>5 DEF Results, OutcomeType
  <2> QED
    BY <1>1, <1>5, <2>1 DEF BodyOrInstall
<1> QED
  BY <1>2, <1>3, <1>4, <1>5, OutcomeMoves

-----------------------------------------------------------------------------
(* The environment *)

\* A fixture is set up, and has changed the variables that its entry names: env as its marks
\* say, xdg those of its own mark, the others none.
Pushed(f, changed) ==
    /\ f \in {"any_server", "deps", "xdg", "env"} /\ changed \in SUBSET Vars
    /\ stack' = Append(stack, Entry(f, changed)) /\ environ' \in [Vars -> Values]
    /\ \A v \in Vars \ changed : environ'[v] = environ[v]
    /\ IF f = "env" THEN Marked(test, environ') ELSE changed \subseteq XdgMarks[test]

Popped ==
    /\ stack # <<>> /\ stack' = SubSeq(stack, 1, Len(stack) - 1)
    /\ LET top == stack[Len(stack)] IN
       environ' = [v \in Vars |-> IF v \in top.vars THEN top.old[v] ELSE environ[v]]

\* The closest of the marks that set a variable is the one that is applied last.
LEMMA ClosestApplied ==
    ASSUME NEW marks, NEW v, NEW i \in DOMAIN marks, marks \in Seq(UNION {[S -> Values] : S \in SUBSET Vars}),
           v \in DOMAIN marks[i], \A j \in 1..(i - 1) : v \notin DOMAIN marks[j]
    PROVE  Applied(marks, v) = marks[i][v]
<1> DEFINE First(n) == /\ v \in DOMAIN marks[n]
                       /\ \A j \in DOMAIN marks : v \in DOMAIN marks[j] => j >= n
           first == CHOOSE n \in DOMAIN marks : First(n)
<1>1. DOMAIN marks = 1..Len(marks) /\ Len(marks) \in Nat
  OBVIOUS
<1>2. First(i)
  BY <1>1
<1>3. first \in DOMAIN marks /\ First(first)
  <2> HIDE DEF First
  <2> QED
    BY <1>2
<1>4. first = i
  BY <1>1, <1>2, <1>3
<1>5. Applied(marks, v) = marks[first][v]
  BY DEF Applied
<1> QED
  BY <1>4, <1>5

\* The env fixture sets the variables of all its marks.
LEMMA EnvMarksApply ==
    ASSUME TypeOK, Env, NEW changed,
           changed = UNION {DOMAIN EnvMarks[test][i] : i \in DOMAIN EnvMarks[test]}
    PROVE  Pushed("env", changed)
<1>1. test \in 1..Tests
  BY DEF TypeOK
<1>2. EnvMarks[test] \in Seq(UNION {[S -> Values] : S \in SUBSET Vars})
  BY <1>1, DepsAssumption
<1>3. changed \in SUBSET Vars
  BY <1>1, EnvChanges
<1>4. /\ stack' = Append(stack, Entry("env", changed)) /\ environ' \in [Vars -> Values]
      /\ \A v \in Vars : environ'[v] = IF v \in changed THEN Applied(EnvMarks[test], v)
                                                        ELSE environ[v]
  BY DEF Env
<1>5. ASSUME NEW v \in Vars, NEW i \in DOMAIN EnvMarks[test], v \in DOMAIN EnvMarks[test][i],
             \A j \in 1..(i - 1) : v \notin DOMAIN EnvMarks[test][j]
      PROVE  environ'[v] = EnvMarks[test][i][v]
  <2>1. Applied(EnvMarks[test], v) = EnvMarks[test][i][v]
    BY <1>2, <1>5, ClosestApplied
  <2>2. v \in changed
    BY <1>5
  <2> QED
    BY <1>4, <2>1, <2>2
<1>6. Marked(test, environ')
  BY <1>5 DEF Marked
<1> QED
  BY <1>3, <1>4, <1>6 DEF Pushed

\* The environment changes with the stack of fixtures only.
LEMMA EnvironmentMoves ==
    ASSUME TypeOK, Place, [Next]_vars
    PROVE  \/ UNCHANGED <<stack, environ, test>>
           \/ UNCHANGED <<stack, environ>> /\ stack = <<>>
           \/ UNCHANGED test /\ \E f, changed : Pushed(f, changed)
           \/ UNCHANGED test /\ Popped
<1>1. StackType /\ test \in 1..Tests
  BY TypeParts DEF SessionType
<1>2. ASSUME NEW f \in DEP_FIXTURES, stack' = Append(stack, Entry(f, {})), UNCHANGED environ
      PROVE  Pushed(f, {})
  BY <1>1, <1>2 DEF Pushed, StackType, DEP_FIXTURES
<1>3. pc \in Installing => fixture \in DEP_FIXTURES
  BY DEF Place
<1>4. ASSUME NEW f \in DEP_FIXTURES, BeginDeps(f)
      PROVE  UNCHANGED <<environ, test>> /\ (UNCHANGED stack \/ Pushed(f, {}))
  BY <1>2, <1>4 DEF BeginDeps
<1>5. ASSUME Skip, pc \in Installing
      PROVE  UNCHANGED <<environ, test>> /\ (UNCHANGED stack \/ Pushed(fixture, {}))
  BY <1>2, <1>3, <1>5 DEF Skip
<1>6. CASE EndDeps \/ Interrupt
  BY <1>5, <1>6, Frames DEF EndDeps, Interrupt, Installing
<1>7. CASE Xdg
  <2> DEFINE changed == IF option THEN {} ELSE XdgMarks[test]
  <2>1. changed \in SUBSET Vars /\ changed \subseteq XdgMarks[test]
    BY <1>1, DepsAssumption
  <2>2. UNCHANGED test
    BY <1>7 DEF Xdg
  <2>3. \/ UNCHANGED <<stack, environ>>
        \/ /\ stack' = Append(stack, Entry("xdg", changed))
           /\ environ' = [v \in Vars |-> IF v \in changed THEN "xdg" ELSE environ[v]]
    BY <1>7 DEF Xdg
  <2> HIDE DEF changed
  <2>4. ASSUME stack' = Append(stack, Entry("xdg", changed)),
               environ' = [v \in Vars |-> IF v \in changed THEN "xdg" ELSE environ[v]]
        PROVE  Pushed("xdg", changed)
    BY <1>1, <2>1, <2>4, DepsAssumption DEF Pushed, StackType
  <2> QED
    BY <2>2, <2>3, <2>4
<1>8. CASE Env
  BY <1>8, EnvMarksApply DEF Env
<1>9. CASE Teardown
  BY <1>9 DEF Teardown, Popped
<1>10. CASE Install
  BY <1>10, Frames DEF Install, InstallDebs, GetPpa, AptInstall, InstallSnap, PollChanges,
     Look, WireSnap, InstallPips, Goto, Raise
<1>11. CASE Body \/ (\E s \in Snaps : ChangeEnds(s)) \/ UNCHANGED vars
  BY <1>11, Frames DEF Body, ChangeEnds, vars
<1> QED
  BY <1>4, <1>6, <1>7, <1>8, <1>9, <1>10, <1>11 DEF Next, Session

\* Setting a fixture up adds the environment to the stack, and tearing it down goes back to it.
LEMMA EnvironmentStep ==
    TypeOK /\ Place /\ Restores /\ MarksApply /\ [Next]_vars
      => Restores' /\ MarksApply' /\ EnvironmentKept'
<1> SUFFICES ASSUME TypeOK, Place, Restores, MarksApply, [Next]_vars
             PROVE  Restores' /\ MarksApply' /\ EnvironmentKept'
  OBVIOUS
<1> DEFINE Was(i) == Before(stack, environ, i)
           Now(i) == Before(stack', environ', i)
<1>1. StackType /\ test \in 1..Tests
  BY TypeParts DEF SessionType
<1>2. StackType'
  BY StackStep
<1>3. Len(stack) \in Nat /\ DOMAIN stack = 1..Len(stack)
  BY <1>1 DEF StackType
<1>4. ASSUME UNCHANGED <<stack, environ, test>> PROVE Restores' /\ MarksApply'
  BY <1>4 DEF Restores, MarksApply, HostEnviron
<1>5. ASSUME UNCHANGED <<stack, environ>>, stack = <<>> PROVE Restores' /\ MarksApply'
  <2>1. Restores'
    BY <1>5 DEF Restores, HostEnviron
  <2>2. DOMAIN stack' = {}
    BY <1>5
  <2>3. MarksApply'
    BY <2>2 DEF MarksApply
  <2> QED
    BY <2>1, <2>3
<1>6. ASSUME UNCHANGED test, NEW f, NEW changed, Pushed(f, changed)
      PROVE  Restores' /\ MarksApply'
  <2> DEFINE top == Len(stack) + 1
  <2>1. /\ Len(stack') = top /\ DOMAIN stack' = 1..top /\ stack'[top] = Entry(f, changed)
        /\ \A i \in 1..Len(stack) : stack'[i] = stack[i]
    BY <1>1, <1>6 DEF Pushed, StackType
  <2>2. /\ Entry(f, changed).old = environ /\ Entry(f, changed).vars = changed
        /\ Entry(f, changed).fixture = f
    BY DEF Entry
  <2>3. \A i \in 1..top : Now(i) = Was(i)
    BY <1>3, <2>1, <2>2 DEF Before
  <2>4. Now(top + 1) = environ' /\ Was(top) = environ
    BY <1>3, <2>1 DEF Before
  <2>5. Restores'
    <3>1. Now(1) = HostEnviron
      BY <1>3, <2>3 DEF Restores
    <3>2. ASSUME NEW i \in DOMAIN stack', NEW v \in Vars \ stack'[i].vars
          PROVE  Now(i + 1)[v] = Now(i)[v]
      <4>1. CASE i = top
        <5>1. environ'[v] = environ[v]
          BY <1>6, <2>1, <2>2, <3>2, <4>1 DEF Pushed
        <5>2. Now(top) = environ
          BY <1>3, <2>3, <2>4
        <5> QED
          BY <2>4, <4>1, <5>1, <5>2
      <4>2. CASE i # top
        <5>1. i \in 1..Len(stack) /\ stack'[i] = stack[i]
          BY <1>3, <2>1, <3>2, <4>2
        <5>2. Was(i + 1)[v] = Was(i)[v]
          BY <1>3, <3>2, <5>1 DEF Restores
        <5>3. Now(i) = Was(i) /\ Now(i + 1) = Was(i + 1)
          BY <1>3, <2>3, <5>1
        <5> QED
          BY <5>2, <5>3
      <4> QED
        BY <4>1, <4>2
    <3> QED
      BY <3>1, <3>2 DEF Restores, HostEnviron
  <2>6. MarksApply'
    <3> SUFFICES ASSUME NEW n \in DOMAIN stack', NEW i \in (n + 1)..(Len(stack') + 1),
                        stack'[n].fixture = "env"
                 PROVE  Marked(test, Now(i))
      BY <1>6 DEF MarksApply
    <3>1. i \in Nat /\ n \in 1..top /\ i \in (n + 1)..(top + 1)
      BY <1>3, <2>1
    <3>2. CASE i = top + 1
      <4>1. f = "env" => Marked(test, environ')
        BY <1>6 DEF Pushed
      <4>2. ASSUME f # "env" PROVE Marked(test, environ')
        <5>1. n \in 1..Len(stack) /\ stack[n].fixture = "env"
          BY <1>3, <2>1, <2>2, <3>1, <4>2
        <5>2. Marked(test, environ)
          BY <1>3, <2>4, <5>1 DEF MarksApply
        <5>3. \A v \in Vars \ XdgMarks[test] : environ'[v] = environ[v]
          BY <1>6, <4>2 DEF Pushed
        <5> QED
          BY <5>2, <5>3 DEF Marked
      <4> QED
        BY <2>4, <3>2, <4>1, <4>2
    <3>3. CASE i # top + 1
      <4>1. n \in 1..Len(stack) /\ i \in (n + 1)..top /\ stack[n].fixture = "env"
        BY <1>3, <2>1, <3>1, <3>3
      <4>2. Marked(test, Was(i)) /\ Now(i) = Was(i)
        BY <1>3, <2>3, <4>1 DEF MarksApply
      <4> QED
        BY <4>2
    <3> QED
      BY <3>2, <3>3
  <2> QED
    BY <2>5, <2>6
<1>7. ASSUME UNCHANGED test, Popped PROVE Restores' /\ MarksApply'
  <2> DEFINE top == Len(stack)
  <2>1. /\ top \in Nat \ {0} /\ Len(stack') = top - 1 /\ DOMAIN stack' = 1..(top - 1)
        /\ \A i \in 1..(top - 1) : stack'[i] = stack[i]
    BY <1>1, <1>3, <1>7 DEF Popped, StackType
  <2>2. stack[top].old \in [Vars -> Values] /\ environ \in [Vars -> Values]
    <3>1. stack[top] \in Entries
      BY <1>1, <2>1 DEF StackType
    <3> QED
      BY <1>1, <3>1 DEF StackType, Entries
  <2>3. environ' = stack[top].old
    <3>1. Was(top + 1) = environ /\ Was(top) = stack[top].old
      BY <1>3 DEF Before
    <3>2. \A v \in Vars \ stack[top].vars : environ[v] = stack[top].old[v]
      BY <1>3, <2>1, <3>1 DEF Restores
    <3>3. environ' = [v \in Vars |-> IF v \in stack[top].vars THEN stack[top].old[v]
                                                             ELSE environ[v]]
      BY <1>7 DEF Popped
    <3> QED
      BY <2>2, <3>2, <3>3
  <2>4. \A i \in 1..top : Now(i) = Was(i)
    BY <1>3, <2>1, <2>3 DEF Before
  <2>5. Restores'
    <3>1. Now(1) = HostEnviron
      BY <2>1, <2>4 DEF Restores
    <3>2. ASSUME NEW i \in DOMAIN stack', NEW v \in Vars \ stack'[i].vars
          PROVE  Now(i + 1)[v] = Now(i)[v]
      <4>1. i \in 1..(top - 1) /\ stack'[i] = stack[i]
        BY <2>1
      <4>2. Was(i + 1)[v] = Was(i)[v]
        BY <1>3, <3>2, <4>1 DEF Restores
      <4>3. Now(i) = Was(i) /\ Now(i + 1) = Was(i + 1)
        BY <2>1, <2>4, <4>1
      <4> QED
        BY <4>2, <4>3
    <3> QED
      BY <3>1, <3>2 DEF Restores, HostEnviron
  <2>6. MarksApply'
    <3> SUFFICES ASSUME NEW n \in DOMAIN stack', NEW i \in (n + 1)..(Len(stack') + 1),
                        stack'[n].fixture = "env"
                 PROVE  Marked(test, Now(i))
      BY <1>7 DEF MarksApply
    <3>1. n \in 1..top /\ i \in (n + 1)..top /\ stack[n].fixture = "env"
      BY <2>1
    <3>2. Marked(test, Was(i)) /\ Now(i) = Was(i)
      BY <1>3, <2>1, <2>4, <3>1 DEF MarksApply
    <3> QED
      BY <3>2
  <2> QED
    BY <2>5, <2>6
<1>8. Restores' /\ MarksApply'
  BY <1>4, <1>5, <1>6, <1>7, EnvironmentMoves
<1>9. EnvironmentKept'
  <2>1. Now(Len(stack') + 1) = environ'
    BY <1>2 DEF StackType, Before
  <2>2. stack' = <<>> => environ' = HostEnviron
    BY <1>8, <2>1 DEF Restores, HostEnviron
  <2>3. IsSetUp("env")' => Marked(test', environ')
    BY <1>2, <1>8, <2>1 DEF StackType, MarksApply, IsSetUp
  <2> QED
    BY <2>2, <2>3 DEF EnvironmentKept, HostEnviron
<1> QED
  BY <1>8, <1>9

-----------------------------------------------------------------------------
(* Theorems *)

\* The invariant holds before the session.
LEMMA DepsInit == Init => DepsInv
<1> SUFFICES ASSUME Init PROVE DepsInv
  OBVIOUS
<1>1. TypeOK
  BY TypeInit
<1>2. CachesHold /\ Place /\ Progress
  BY DEF Init, CachesHold, Place, Progress, Installing
<1>3. Evaluated
  <2>1. "deps" \in DEP_FIXTURES \cap fixturenames(test)
    BY DEF DEP_FIXTURES, fixturenames
  <2> QED
    BY <2>1 DEF Init, Evaluated, IsSetUp
<1>4. SkipMeansReady /\ BodyOrInstall
  BY DEF Init, SkipMeansReady, BodyOrInstall
<1>5. Restores /\ MarksApply /\ EnvironmentKept
  BY DEF Init, Restores, MarksApply, EnvironmentKept, Before, IsSetUp
<1> QED
  BY <1>1, <1>2, <1>3, <1>4, <1>5 DEF DepsInv

\* Each step keeps the invariant.
LEMMA DepsStep == DepsInv /\ [Next]_vars => DepsInv'
  BY TypeStep, CachesStep, PlaceStep, ProgressStep, EvaluatedStep, SkipStep, BodyStep,
     EnvironmentStep DEF DepsInv

\* In every state of every session the caches hold only what the host knows, an installation
\* has got exactly as far as it says, and the fixtures that a test has been through have what
\* they asked for (pytest_plugin.py l. 46-56, 78-148).
THEOREM DepsInvHolds == Spec => []DepsInv
  BY DepsInit, DepsStep, PTL DEF Spec

\* Whatever the tests ask for, share and in whatever order, and however often a command
\* fails: for a test that a dependency-only run skips its debs, snaps and Python packages are
\* installed (pytest_plugin.py l. 46-56, 193-212).  Except for debs that had been removed and
\* left their configuration, for any debs where the tools are missing, for the channels of
\* the snaps, and for a test whose deps was interrupted.
THEOREM SkippedMeansReady == Spec => []SkipMeansReady
<1>1. DepsInv => SkipMeansReady
  BY DEF DepsInv
<1> QED
  BY <1>1, DepsInvHolds, PTL

\* A dependency-only run runs the body of no test, and no other run skips one, in whatever
\* order pytest evaluates the fixtures (pytest_plugin.py l. 46-56, 162-167).
THEOREM RunsOrInstalls == Spec => []BodyOrInstall
<1>1. DepsInv => BodyOrInstall
  BY DEF DepsInv
<1> QED
  BY <1>1, DepsInvHolds, PTL

\* In whatever order the fixtures of a test are set up and torn down, and wherever one of them
\* fails: between two tests the environment is the host's, and once env is set up a variable
\* has the value of its closest mark (pytest_plugin.py l. 228-251, 262-267).
THEOREM EnvironmentIsKept == Spec => []EnvironmentKept
<1>1. DepsInv => EnvironmentKept
  BY DEF DepsInv
<1> QED
  BY <1>1, DepsInvHolds, PTL
=============================================================================
