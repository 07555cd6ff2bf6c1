--------------------------- MODULE CgroupsBackend ---------------------------
(***************************************************************************)
(* CgroupsBackend (lib/benchmarker.py) and the files it reads through      *)
(* Cgroup (lib/cgroups.py): one record per program, one sample per poll.   *)
(* A sample is three reads of files that the kernel keeps changing; any of *)
(* them may fail.  memory.peak is missing on older kernels, and then the   *)
(* largest value seen stands for it.                                       *)
(***************************************************************************)
EXTENDS Integers

CONSTANTS
    Names,                   \* the programs
    MaxMem,                  \* bound: memory in use
    MaxCpu,                  \* bound: cpu time
    MaxPoints                \* bound: samples per program

ASSUME BackendAssumption ==
    MaxMem \in Nat /\ MaxCpu \in Nat /\ MaxPoints \in Nat

VARIABLES
    data_records,            \* of each program, once added: its ProcessInfo
    polled,                  \* the program being sampled, or "nobody"
    stage,                   \* the file to read next
    cpu_ms, mem_current,     \* what has been read
    todo,                    \* programs this poll has yet to visit
    kernel                   \* of each program: cpu time, memory in use, its peak

vars == <<data_records, polled, stage, cpu_ms, mem_current, todo, kernel>>
sampleVars == <<polled, stage, cpu_ms, mem_current, todo>>

ProcessInfo == [cpu : Nat, acc : Nat, max : Nat, num : 0..MaxPoints]
Empty == [cpu |-> 0, acc |-> 0, max |-> 0, num |-> 0]
Usage == [cpu : 0..MaxCpu, mem : 0..MaxMem, peak : 0..MaxMem]

TypeOK ==
    /\ data_records \in [Names -> ProcessInfo]
    /\ polled \in Names \cup {"nobody"}
    /\ stage \in {"rest", "cpu", "current", "peak"}
    /\ stage # "rest" => polled \in Names
    /\ cpu_ms \in Nat /\ mem_current \in Nat
    /\ todo \subseteq Names
    /\ kernel \in [Names -> Usage]

Init ==
    /\ data_records = [n \in Names |-> Empty]
    /\ polled = "nobody" /\ stage = "rest" /\ cpu_ms = 0 /\ mem_current = 0
    /\ todo = {}
    /\ kernel = [n \in Names |-> [cpu |-> 0, mem |-> 0, peak |-> 0]]

-----------------------------------------------------------------------------
\* The larger of two numbers.
Larger(a, b) == IF a >= b THEN a ELSE b

\* The program runs.
KernelStep(n) ==
    \E c \in 0..MaxCpu, m \in 0..MaxMem :
        /\ c >= kernel[n].cpu
        /\ kernel' = [kernel EXCEPT ![n] =
                        [cpu |-> c, mem |-> m, peak |-> Larger(@.peak, m)]]
        /\ UNCHANGED <<data_records, sampleVars>>

\* add(): the program has just been entered, in a control group of its own.
\* (Variant: the record of an earlier use is kept.)
AddOnce(n) ==
    /\ stage = "rest" /\ todo = {}
    /\ kernel' = [kernel EXCEPT ![n] = [cpu |-> 0, mem |-> 0, peak |-> 0]]
    /\ UNCHANGED <<data_records, sampleVars>>

Add(n) ==
    /\ stage = "rest" /\ todo = {}
    /\ data_records' = [data_records EXCEPT ![n] = Empty]
    /\ kernel' = [kernel EXCEPT ![n] = [cpu |-> 0, mem |-> 0, peak |-> 0]]
    /\ UNCHANGED sampleVars

StartPoll ==
    /\ stage = "rest" /\ todo = {}
    /\ todo' = Names
    /\ UNCHANGED <<data_records, polled, stage, cpu_ms, mem_current, kernel>>

\* The next program: its control group is known.
Visit(n) ==
    /\ stage = "rest" /\ n \in todo /\ data_records[n].num < MaxPoints
    /\ todo' = todo \ {n}
    /\ polled' = n /\ stage' = "cpu"
    /\ UNCHANGED <<data_records, cpu_ms, mem_current, kernel>>

\* The next program: its control group was never found.
Skip(n) ==
    /\ stage = "rest" /\ n \in todo
    /\ todo' = todo \ {n}
    /\ UNCHANGED <<data_records, polled, stage, cpu_ms, mem_current, kernel>>

\* What a sample leaves in the record.
Sample(mem_max) ==
    [cpu |-> cpu_ms,
     acc |-> data_records[polled].acc + mem_current,
     max |-> mem_max,
     num |-> data_records[polled].num + 1]

\* The files in the order they are read.  (Variant: the peak is taken as the
\* memory that was in use when the cpu time was read.)
ReadCpuEarly ==
    /\ stage = "cpu"
    /\ cpu_ms' = kernel[polled].cpu
    /\ data_records' = [data_records EXCEPT ![polled].max = kernel[polled].peak]
    /\ stage' = "current"
    /\ UNCHANGED <<polled, mem_current, todo, kernel>>

ReadCpu ==
    /\ stage = "cpu"
    /\ cpu_ms' = kernel[polled].cpu
    /\ stage' = "current"
    /\ UNCHANGED <<data_records, polled, mem_current, todo, kernel>>

ReadCurrent ==
    /\ stage = "current"
    /\ mem_current' = kernel[polled].mem
    /\ stage' = "peak"
    /\ UNCHANGED <<data_records, polled, cpu_ms, todo, kernel>>

\* The fallback when memory.peak cannot be read.  (Variant: the memory in use.)
CurrentAsMax == mem_current
MaxSoFar == Larger(data_records[polled].max, mem_current)

ReadPeak ==
    /\ stage = "peak"
    /\ \/ data_records' = [data_records EXCEPT ![polled] = Sample(kernel[polled].peak)]
       \/ data_records' = [data_records EXCEPT ![polled] = Sample(MaxSoFar)]
    /\ stage' = "rest"
    /\ UNCHANGED <<polled, cpu_ms, mem_current, todo, kernel>>

\* One of the first two reads fails: the sample is dropped with a warning.
ReadFails ==
    /\ stage \in {"cpu", "current"}
    /\ stage' = "rest"
    /\ UNCHANGED <<data_records, polled, cpu_ms, mem_current, todo, kernel>>

Next ==
    \/ \E n \in Names : KernelStep(n) \/ Add(n) \/ Visit(n) \/ Skip(n)
    \/ StartPoll \/ ReadCpu \/ ReadCurrent \/ ReadPeak \/ ReadFails

Spec == Init /\ [][Next]_vars

-----------------------------------------------------------------------------
(* generate_report() *)

Incomplete(n) == LET r == data_records[n]
                 IN  r.cpu = 0 \/ r.max = 0 \/ r.acc = 0 \/ r.num = 0

Reported(n) == [max |-> data_records[n].max,
                avg |-> data_records[n].acc \div data_records[n].num]

-----------------------------------------------------------------------------
\* Whatever the kernel did between the reads, no report shows an average above the
\* maximum, nor a maximum the program never reached: memory.peak is read after
\* memory.current, and the fallback never goes back.
ReportIsSound ==
    \A n \in Names : ~Incomplete(n) =>
        /\ Reported(n).avg <= Reported(n).max
        /\ Reported(n).max <= kernel[n].peak

WholeSample(n) ==
    LET old == data_records[n]
        new == data_records'[n]
    IN  new # old /\ new # Empty =>
            /\ new.num = old.num + 1
            /\ new.cpu >= old.cpu /\ new.acc >= old.acc /\ new.max >= old.max

\* A record changes by whole samples, and never goes back while its program runs.
WholeSamples == [][\A n \in Names : WholeSample(n)]_vars

\* The inductive invariant behind ReportIsSound: the accumulator is bounded by the
\* maximum taken once per sample, and what was read is never ahead of the kernel.
Bounded ==
    \A n \in Names :
        /\ data_records[n].acc <= data_records[n].num * data_records[n].max
        /\ data_records[n].max <= kernel[n].peak
        /\ data_records[n].cpu <= kernel[n].cpu
        /\ kernel[n].mem <= kernel[n].peak

Current ==
    /\ stage # "rest" => data_records[polled].num < MaxPoints
    /\ stage \in {"current", "peak"} =>
           cpu_ms \in data_records[polled].cpu..kernel[polled].cpu
    /\ stage = "peak" => mem_current <= kernel[polled].peak

BackendInv == TypeOK /\ Bounded /\ Current
=============================================================================
