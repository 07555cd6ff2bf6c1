----------------------- MODULE CgroupsBackendProofs -------------------------
(***************************************************************************)
(* Proofs about CgroupsBackend, for any programs, any memory and any       *)
(* number of samples.                                                      *)
(***************************************************************************)
EXTENDS CgroupsBackend, TLAPS

\* Raising the maximum keeps n samples below n times the maximum.
LEMMA ScaleUp ==
    ASSUME NEW n \in Nat, NEW a \in Nat, NEW b \in Nat, a <= b
    PROVE n * a <= n * b
OBVIOUS

\* One more sample, no larger than the new maximum, keeps the bound.
LEMMA OneMore ==
    ASSUME NEW n \in Nat, NEW acc \in Nat, NEW old \in Nat, NEW new \in Nat, NEW m \in Nat,
           acc <= n * old, old <= new, m <= new
    PROVE acc + m <= (n + 1) * new
<1>1. n * old <= n * new
  BY ScaleUp
<1>2. (n + 1) * new = n * new + new
  OBVIOUS
<1>3. n * old \in Nat /\ n * new \in Nat
  OBVIOUS
<1> QED
  BY <1>1, <1>2, <1>3

\* The quotient of a bounded accumulator is bounded.
LEMMA Quotient ==
    ASSUME NEW n \in Nat \ {0}, NEW acc \in Nat, NEW max \in Nat, acc <= n * max
    PROVE acc \div n <= max
OBVIOUS

-----------------------------------------------------------------------------
USE BackendAssumption DEF BackendInv, TypeOK, Bounded, Current, ProcessInfo, Usage, Empty

\* The inductive invariant holds before the first poll.
LEMMA BackendInit == Init => BackendInv
BY DEF Init

\* The kernel, add() and every read preserve it.
LEMMA BackendStep == BackendInv /\ [Next]_vars => BackendInv'
<1> SUFFICES ASSUME BackendInv, [Next]_vars PROVE BackendInv'
  OBVIOUS
<1>1. ASSUME NEW n \in Names, KernelStep(n) PROVE BackendInv'
  BY <1>1 DEF KernelStep, Larger, sampleVars
<1>2. ASSUME NEW n \in Names, Add(n) PROVE BackendInv'
  BY <1>2 DEF Add, sampleVars
<1>3. ASSUME NEW n \in Names, Visit(n) PROVE BackendInv'
  BY <1>3 DEF Visit
<1>4. ASSUME NEW n \in Names, Skip(n) PROVE BackendInv'
  BY <1>4 DEF Skip
<1>5. CASE StartPoll
  BY <1>5 DEF StartPoll
<1>6. CASE ReadCpu
  BY <1>6 DEF ReadCpu
<1>7. CASE ReadCurrent
  BY <1>7 DEF ReadCurrent
<1>8. CASE ReadPeak
  <2>1. PICK new \in Nat : /\ data_records' = [data_records EXCEPT ![polled] = Sample(new)]
                           /\ data_records[polled].max <= new /\ mem_current <= new
                           /\ new <= kernel[polled].peak
    BY <1>8 DEF ReadPeak, MaxSoFar, Larger
  <2> DEFINE r == data_records[polled]
  <2>2. polled \in Names /\ r \in ProcessInfo /\ r.num < MaxPoints
    BY <1>8 DEF ReadPeak
  <2>3. r.acc + mem_current <= (r.num + 1) * new
    <3>1. r.acc <= r.num * r.max /\ r.max <= new /\ mem_current <= new
      BY <2>1, <2>2
    <3>2. r.num \in Nat /\ r.acc \in Nat /\ r.max \in Nat /\ mem_current \in Nat /\ new \in Nat
      BY <2>1, <2>2
    <3> HIDE DEF r
    <3> QED
      BY <3>1, <3>2, OneMore
  <2>4. Sample(new) \in ProcessInfo
    <3>1. r.acc + mem_current \in Nat /\ r.num + 1 \in 0..MaxPoints
      BY <2>2
    <3> QED
      BY <2>1, <3>1 DEF Sample
  <2>5. UNCHANGED <<polled, cpu_ms, mem_current, todo, kernel>> /\ stage' = "rest"
    BY <1>8 DEF ReadPeak
  <2>6. TypeOK'
    BY <2>1, <2>4, <2>5
  <2>7. Bounded'
    <3> SUFFICES ASSUME NEW n \in Names
                 PROVE /\ data_records'[n].acc <= data_records'[n].num * data_records'[n].max
                       /\ data_records'[n].max <= kernel[n].peak
                       /\ data_records'[n].cpu <= kernel[n].cpu
      BY <2>5
    <3>1. CASE n = polled
      <4>1. data_records'[n] = Sample(new)
        BY <2>1, <2>2, <3>1
      <4>2. cpu_ms <= kernel[polled].cpu
        BY <1>8 DEF ReadPeak
      <4> QED
        BY <4>1, <4>2, <2>1, <2>3, <3>1 DEF Sample
    <3>2. CASE n # polled
      BY <2>1, <2>2, <3>2
    <3> QED
      BY <3>1, <3>2
  <2> QED
    BY <2>5, <2>6, <2>7
<1>9. CASE ReadFails
  BY <1>9 DEF ReadFails
<1>10. CASE UNCHANGED vars
  BY <1>10 DEF vars
<1> QED
  BY <1>1, <1>2, <1>3, <1>4, <1>5, <1>6, <1>7, <1>8, <1>9, <1>10 DEF Next

\* What has been collected of a program stays within what it has used: the sum is at most the
\* number of samples times the maximum, and the maximum at most the kernel's peak
\* (cgroups_backend.py poll).
THEOREM BackendInvHolds == Spec => []BackendInv
  BY BackendInit, BackendStep, PTL DEF Spec

\* No report shows an average above the maximum, or a maximum above the memory the
\* program really used.
THEOREM ReportsAreSound == Spec => []ReportIsSound
<1>1. BackendInv => ReportIsSound
  <2> SUFFICES ASSUME BackendInv, NEW n \in Names, ~Incomplete(n)
               PROVE /\ Reported(n).avg <= Reported(n).max
                     /\ Reported(n).max <= kernel[n].peak
    BY DEF ReportIsSound
  <2>1. data_records[n].num \in Nat \ {0} /\ data_records[n].acc \in Nat
        /\ data_records[n].max \in Nat
    BY DEF Incomplete
  <2> QED
    BY <2>1, Quotient DEF Reported
<1> QED
  BY <1>1, BackendInit, BackendStep, PTL DEF Spec

\* A record changes by one whole sample, or is started afresh, however the reads of a sample
\* are interleaved with the kernel's steps and whichever of them fails.
THEOREM SamplesAreWhole == Spec => WholeSamples
<1>1. BackendInv /\ [Next]_vars => [\A n \in Names : WholeSample(n)]_vars
  <2> SUFFICES ASSUME BackendInv, [Next]_vars, NEW n \in Names,
                      data_records'[n] # data_records[n], data_records'[n] # Empty
               PROVE  /\ data_records'[n].num = data_records[n].num + 1
                      /\ data_records'[n].cpu >= data_records[n].cpu
                      /\ data_records'[n].acc >= data_records[n].acc
                      /\ data_records'[n].max >= data_records[n].max
    BY DEF WholeSample
  <2>1. ReadPeak
    <3>1. ASSUME NEW m \in Names, Add(m) PROVE FALSE
      BY <3>1 DEF Add
    <3> QED
      BY <3>1 DEF Next, KernelStep, Visit, Skip, StartPoll, ReadCpu, ReadCurrent, ReadFails, vars
  <2>2. PICK new \in Nat : /\ data_records' = [data_records EXCEPT ![polled] = Sample(new)]
                           /\ data_records[polled].max <= new
    BY <2>1 DEF ReadPeak, MaxSoFar, Larger
  <2>3. n = polled /\ data_records'[n] = Sample(new)
    BY <2>2
  <2> QED
    BY <2>1, <2>2, <2>3 DEF ReadPeak, Sample
<1> QED
  BY <1>1, BackendInvHolds, PTL DEF Spec, WholeSamples
=============================================================================
