------------------------- MODULE ServerProcessProofs -------------------------
(***************************************************************************)
(* Proofs about what runs in the server's process: the children a command  *)
(* may run, for any output and any limit; the shutdown, for any number of  *)
(* triggers, calls and events and any grace period; and the job registry,  *)
(* for any number of jobs, any capacity and any time to live.              *)
(***************************************************************************)
EXTENDS JobRegistry, ChildProcess, McpShutdown, FiniteSetTheorems, SequenceTheorems,
        WellFoundedInduction, TLAPS

-----------------------------------------------------------------------------
(* Child processes.  What a reader keeps depends on how much it has read   *)
(* and not on how the reads fell.                                          *)

\* The bytes kept of the first n.
KeptOf(n) ==
    IF keepTail THEN Bytes(IF n <= MaxOutputBytes THEN 0 ELSE n - MaxOutputBytes, n)
    ELSE Bytes(0, IF n <= MaxOutputBytes THEN n ELSE MaxOutputBytes)

Callers == {"spawn", "poll", "check", "stop", "kill", "wait", "join_stdout", "join_stderr",
            "done", "failed"}

ChildTypeOK ==
    /\ host \in {"job", "group", "helper"} /\ keepTail \in BOOLEAN
    /\ want \in [Streams -> Nat]
    /\ pc \in Callers /\ stopped \in BOOLEAN
    /\ proc \in [Procs -> {"unborn", "alive", "doomed", "dead"}]
    /\ grouped \in [Procs -> BOOLEAN]
    /\ holds \in [Procs -> SUBSET Streams]
    /\ written \in [Streams -> Nat] /\ drained \in [Streams -> Nat]
    /\ reader \in [Streams -> {"none", "reading", "finished", "failed"}]
    /\ DOMAIN captured = Streams

Joining == pc \in {"join_stdout", "join_stderr", "done"}

\* The root is in the group from its birth, and on Windows so is whatever it
\* starts.  Once the caller waits for what it has killed nothing in the group
\* runs, and nothing can join it: only a running root starts a process.
GroupInv ==
    /\ pc = "spawn" => \A p \in Procs : proc[p] = "unborn"
    /\ Running("root") => grouped["root"]
    /\ Windows => \A p \in Procs : Running(p) => grouped[p]
    /\ stopped => pc \in {"kill", "wait", "failed"} \/ Joining
    /\ pc = "wait" \/ (Joining /\ stopped) => ~\E p \in Procs : grouped[p] /\ Running(p)
    /\ Joining => proc["root"] = "dead" /\ (Windows => ActiveProcesses = {})
    /\ pc = "failed" /\ Windows => ~\E p \in Procs : Running(p)

\* A reader that has finished has read everything, and nobody has the pipe open
\* to write more or to pass on.
PipeInv ==
    /\ pc = "spawn" => \A s \in Streams : reader[s] = "none"
    /\ \A s \in Streams :
         /\ drained[s] <= written[s]
         /\ captured[s] = KeptOf(drained[s])
         /\ reader[s] = "finished" => drained[s] = written[s] /\ \A p \in Procs : s \notin holds[p]
    /\ pc \in {"join_stderr", "done"} => reader["stdout"] = "finished"
    /\ pc = "done" => reader["stderr"] = "finished"

ChildInv == ChildTypeOK /\ GroupInv /\ PipeInv

-----------------------------------------------------------------------------
(* What is kept of the bytes read.                                         *)

\* A run of bytes as a sequence.
LEMMA BytesFacts ==
  ASSUME NEW a \in Nat, NEW b \in Nat, a <= b
  PROVE  /\ Bytes(a, b) \in Seq(Nat)
         /\ Len(Bytes(a, b)) = b - a
         /\ \A i \in 1 .. b - a : Bytes(a, b)[i] = a + i
<1>1. b - a \in Nat
  OBVIOUS
<1>2. Bytes(a, b) \in [1 .. b - a -> Nat]
  BY DEF Bytes
<1>3. Bytes(a, b) \in Seq(Nat)
  BY <1>1, <1>2
<1>4. DOMAIN Bytes(a, b) = 1 .. Len(Bytes(a, b)) /\ Len(Bytes(a, b)) \in Nat
  BY <1>3
<1> QED
  BY <1>1, <1>3, <1>4 DEF Bytes

\* Two adjacent runs of bytes are one.
LEMMA BytesConcat ==
  ASSUME NEW a \in Nat, NEW b \in Nat, NEW c \in Nat, a <= b, b <= c
  PROVE  Bytes(a, b) \o Bytes(b, c) = Bytes(a, c)
<1> DEFINE l == Bytes(a, b) \o Bytes(b, c)
           r == Bytes(a, c)
<1>a. /\ Bytes(a, b) \in Seq(Nat) /\ Len(Bytes(a, b)) = b - a
      /\ \A i \in 1 .. b - a : Bytes(a, b)[i] = a + i
  BY BytesFacts
<1>b. /\ Bytes(b, c) \in Seq(Nat) /\ Len(Bytes(b, c)) = c - b
      /\ \A i \in 1 .. c - b : Bytes(b, c)[i] = b + i
  BY BytesFacts
<1>1. l \in Seq(Nat) /\ Len(l) = (b - a) + (c - b)
  BY <1>a, <1>b, ConcatProperties
<1>2. r \in Seq(Nat) /\ Len(r) = c - a
  BY BytesFacts
<1>3. ASSUME NEW i \in 1 .. c - a PROVE l[i] = r[i]
  <2>1. CASE i <= b - a
    <3>1. l[i] = Bytes(a, b)[i]
      BY <1>a, <1>b, <2>1, ConcatProperties
    <3>2. i \in 1 .. b - a /\ i \in 1 .. c - a
      BY <2>1
    <3>3. Bytes(a, b)[i] = a + i
      BY <1>a, <3>2
    <3>4. a <= c
      OBVIOUS
    <3>5. r[i] = a + i
      BY <3>2, <3>4, BytesFacts
    <3> QED
      BY <3>1, <3>3, <3>5
  <2>2. CASE ~(i <= b - a)
    <3>1. i - (b - a) \in 1 .. c - b
      BY <2>2
    <3>2. i \in 1 .. (b - a) + (c - b)
      OBVIOUS
    <3>3. l[i] = Bytes(b, c)[i - (b - a)]
      BY <1>a, <1>b, <2>2, <3>2, ConcatProperties
    <3>4. i \in 1 .. c - a /\ b + (i - (b - a)) = a + i
      OBVIOUS
    <3>5. r[i] = a + i
      BY <3>4, BytesFacts
    <3> QED
      BY <1>b, <3>1, <3>3, <3>4, <3>5
  <2> QED
    BY <2>1, <2>2
<1> HIDE DEF l, r
<1>4. l = r
  BY <1>1, <1>2, <1>3, SeqEqual
<1> QED
  BY <1>4 DEF l, r

\* Part of a run of bytes.
LEMMA BytesSub ==
  ASSUME NEW a \in Nat, NEW b \in Nat, a <= b,
         NEW m \in 1 .. (b - a) + 1, NEW n \in Nat, m - 1 <= n, n <= b - a
  PROVE  SubSeq(Bytes(a, b), m, n) = Bytes(a + m - 1, a + n)
<1> DEFINE l == SubSeq(Bytes(a, b), m, n)
           r == Bytes(a + m - 1, a + n)
<1>a. \A i \in 1 .. b - a : Bytes(a, b)[i] = a + i
  BY BytesFacts
<1>1. \A i \in m .. n : Bytes(a, b)[i] \in Nat
  BY <1>a
<1>2. l \in Seq(Nat) /\ Len(l) = n - m + 1
  BY <1>1, SubSeqProperties
<1>3. r \in Seq(Nat) /\ Len(r) = n - m + 1 /\ \A i \in 1 .. n - m + 1 : r[i] = a + m - 1 + i
  <2>1. a + m - 1 \in Nat /\ a + n \in Nat /\ a + m - 1 <= a + n /\ (a + n) - (a + m - 1) = n - m + 1
    OBVIOUS
  <2> QED
    BY <2>1, BytesFacts
<1>4. ASSUME NEW i \in 1 .. n - m + 1 PROVE l[i] = r[i]
  <2>1. l[i] = Bytes(a, b)[m + i - 1]
    BY <1>1, SubSeqProperties
  <2>2. m + i - 1 \in 1 .. b - a
    OBVIOUS
  <2> QED
    BY <1>a, <1>3, <2>1, <2>2
<1> HIDE DEF l, r
<1>5. l = r
  BY <1>2, <1>3, <1>4, SeqEqual
<1> QED
  BY <1>5 DEF l, r

\* The last and the first bytes of a run.
LEMMA KeptEnds ==
  ASSUME NEW a \in Nat, NEW b \in Nat, a <= b, NEW m \in Nat
  PROVE  /\ Suffix(Bytes(a, b), m) = Bytes(IF b - a <= m THEN a ELSE b - m, b)
         /\ Prefix(Bytes(a, b), m) = Bytes(a, IF b - a <= m THEN b ELSE a + m)
<1>1. Len(Bytes(a, b)) = b - a
  BY BytesFacts
<1>2. CASE b - a <= m
  BY <1>1, <1>2 DEF Suffix, Prefix
<1>3. CASE ~(b - a <= m)
  <2>1. SubSeq(Bytes(a, b), b - a - m + 1, b - a) = Bytes(b - m, b)
    <3>1. /\ b - a - m + 1 \in 1 .. (b - a) + 1 /\ b - a \in Nat /\ b - a - m <= b - a
          /\ a + (b - a - m + 1) - 1 = b - m /\ a + (b - a) = b
          /\ (b - a - m + 1) - 1 <= b - a
      BY <1>3
    <3> DEFINE k == b - a - m + 1
               j == b - a
    <3>2. k \in 1 .. (b - a) + 1 /\ j \in Nat /\ k - 1 <= j /\ j <= b - a /\ a + k - 1 = b - m /\ a + j = b
      BY <3>1
    <3> HIDE DEF k, j
    <3>3. SubSeq(Bytes(a, b), k, j) = Bytes(a + k - 1, a + j)
      BY <3>2, BytesSub
    <3> QED
      BY <3>2, <3>3 DEF k, j
  <2>2. SubSeq(Bytes(a, b), 1, m) = Bytes(a, a + m)
    <3>1. SubSeq(Bytes(a, b), 1, m) = Bytes(a + 1 - 1, a + m)
      <4>1. 1 \in 1 .. (b - a) + 1 /\ 1 - 1 <= m /\ m <= b - a
        BY <1>3
      <4> QED
        BY <4>1, BytesSub
    <3> QED
      BY <3>1
  <2> QED
    BY <1>1, <1>3, <2>1, <2>2 DEF Suffix, Prefix
<1> QED
  BY <1>2, <1>3

\* What is kept is what a single read of everything would keep.
LEMMA KeptWhole ==
  ASSUME NEW n \in Nat
  PROVE  KeptOf(n) = IF keepTail THEN Suffix(Bytes(0, n), MaxOutputBytes)
                     ELSE Prefix(Bytes(0, n), MaxOutputBytes)
<1>1. MaxOutputBytes \in Nat /\ n - 0 = n /\ 0 + MaxOutputBytes = MaxOutputBytes
  BY OutputAssumption
<1> QED
  BY <1>1, KeptEnds DEF KeptOf

\* One more read: the part kept of the first d bytes and those after them.
LEMMA KeptRead ==
  ASSUME NEW d \in Nat, NEW n \in Nat, d <= n
  PROVE  Absorb(KeptOf(d), Bytes(d, n)) = KeptOf(n)
<1> DEFINE M == MaxOutputBytes
           lo == IF d <= M THEN 0 ELSE d - M
<1>0. M \in Nat \ {0}
  BY OutputAssumption
<1>1. CASE keepTail
  <2>1. lo \in Nat /\ lo <= d
    BY <1>0
  <2>2. Bytes(lo, d) \o Bytes(d, n) = Bytes(lo, n)
    BY <2>1, BytesConcat
  <2>3. Suffix(Bytes(lo, n), M) = Bytes(IF n - lo <= M THEN lo ELSE n - M, n)
    BY <1>0, <2>1, KeptEnds
  <2>4. (IF n - lo <= M THEN lo ELSE n - M) = IF n <= M THEN 0 ELSE n - M
    BY <1>0
  <2> QED
    BY <1>1, <2>2, <2>3, <2>4 DEF Absorb, KeptOf
<1>2. CASE ~keepTail /\ d <= M
  <2>1. 0 \in Nat /\ 0 <= d
    OBVIOUS
  <2>2. Bytes(0, d) \o Bytes(d, n) = Bytes(0, n)
    BY <2>1, BytesConcat
  <2> QED
    BY <1>2, <2>2, KeptWhole DEF Absorb, KeptOf
<1>3. CASE ~keepTail /\ ~(d <= M)
  <2> DEFINE q == Bytes(0, M) \o Bytes(d, n)
  <2>0. 0 \in Nat /\ M \in Nat /\ 0 <= M /\ M - 0 = M
    BY <1>0
  <2>a. Bytes(0, M) \in Seq(Nat) /\ Len(Bytes(0, M)) = M
    BY <2>0, BytesFacts
  <2>b. Bytes(d, n) \in Seq(Nat) /\ Len(Bytes(d, n)) = n - d
    BY BytesFacts
  <2>1. /\ Bytes(0, M) \in Seq(Nat) /\ Len(Bytes(0, M)) = M
        /\ Bytes(d, n) \in Seq(Nat) /\ Len(Bytes(d, n)) = n - d
    BY <2>a, <2>b
  <2>2. Len(q) = M + (n - d)
    BY <2>1, ConcatProperties
  <2>3. Prefix(q, M) = Bytes(0, M)
    <3>1. CASE n = d
      <4>1. Bytes(d, n) = << >>
        BY <2>1, <3>1, EmptySeq
      <4> QED
        BY <2>1, <2>2, <3>1, <4>1, ConcatEmptySeq DEF Prefix
    <3>2. CASE n # d
      <4>1. Prefix(q, M) = SubSeq(q, 1, M)
        BY <1>0, <2>2, <3>2 DEF Prefix
      <4>2. M \in 1 .. Len(Bytes(0, M)) /\ 1 \in 1 .. Len(Bytes(0, M))
        BY <1>0, <2>1
      <4>3. SubSeq(q, 1, M) = SubSeq(Bytes(0, M), 1, M)
        BY <2>1, <4>2, SubSeqOfConcat1
      <4>4. SubSeq(Bytes(0, M), 1, M) = Bytes(0, M)
        BY <2>1, SubSeqFull
      <4> QED
        BY <4>1, <4>3, <4>4
    <3> QED
      BY <3>1, <3>2
  <2> QED
    BY <1>0, <1>3, <2>3 DEF Absorb, KeptOf
<1> QED
  BY <1>1, <1>2, <1>3

\* Something is missing exactly when more than the limit was read.
LEMMA KeptTruncated ==
  ASSUME NEW n \in Nat
  PROVE  n > MaxOutputBytes <=> KeptOf(n) # Bytes(0, n)
<1>0. MaxOutputBytes \in Nat
  BY OutputAssumption
<1>1. CASE n <= MaxOutputBytes
  BY <1>0, <1>1 DEF KeptOf
<1>2. CASE n > MaxOutputBytes
  <2>1. Len(Bytes(0, n)) = n
    BY BytesFacts
  <2>2. Len(Bytes(0, MaxOutputBytes)) = MaxOutputBytes
    BY <1>0, BytesFacts
  <2>3. n - MaxOutputBytes \in Nat /\ n - MaxOutputBytes <= n /\ n - (n - MaxOutputBytes) = MaxOutputBytes
    BY <1>0, <1>2
  <2>4. Len(Bytes(n - MaxOutputBytes, n)) = MaxOutputBytes
    BY <2>3, BytesFacts
  <2> QED
    BY <1>0, <1>2, <2>1, <2>2, <2>4 DEF KeptOf
<1> QED
  BY <1>0, <1>1, <1>2

-----------------------------------------------------------------------------
(* Every step keeps the invariant.                                         *)

LEMMA ChildInitInv == ChildInit => ChildInv
<1> SUFFICES ASSUME ChildInit PROVE ChildInv
  OBVIOUS
<1>1. ChildTypeOK
  BY HostsAssumption, ChildBounds DEF ChildInit, ChildTypeOK, Callers, Streams, Procs
<1>2. GroupInv
  BY DEF ChildInit, GroupInv, Joining, Running, Procs, Streams
<1>3. Bytes(0, 0) = << >>
  BY DEF Bytes
<1>4. KeptOf(0) = << >>
  BY <1>3, OutputAssumption DEF KeptOf
<1>5. PipeInv
  BY <1>4 DEF ChildInit, PipeInv, Procs, Streams
<1> QED
  BY <1>1, <1>2, <1>5 DEF ChildInv

\* What is kept depends on nothing that changes.
LEMMA KeptSame == ASSUME UNCHANGED setup PROVE \A n \in Nat : KeptOf(n)' = KeptOf(n)
  BY DEF setup, KeptOf, Bytes

\* A caller that only moves on.
LEMMA MovesInv ==
  ASSUME ChildInv,
         PollExited \/ PollBackground \/ PollRunning \/ Check \/ Stop \/ Wait
  PROVE  ChildInv'
<1>0. UNCHANGED <<setup, grouped, holds, written, readVars, proc>>
  BY DEF PollExited, PollBackground, PollRunning, Check, Stop, Wait, Step
<1>1. ChildTypeOK'
  BY <1>0 DEF PollExited, PollBackground, PollRunning, Check, Stop, Wait, Step, ChildInv, ChildTypeOK,
              Callers, setup, readVars
<1>2. GroupInv'
  BY <1>0 DEF PollExited, PollBackground, PollRunning, Check, Stop, Wait, Step, ChildInv, ChildTypeOK,
              GroupInv, Joining, Running, Windows, ActiveProcesses, Gone, Callers, setup
<1>3. PipeInv'
  <2>1. pc' \notin {"spawn", "join_stderr", "done"}
    BY DEF PollExited, PollBackground, PollRunning, Check, Stop, Wait, Step
  <2>2. \A n \in Nat : KeptOf(n)' = KeptOf(n)
    BY <1>0, KeptSame
  <2> QED
    BY <1>0, <2>1, <2>2 DEF ChildInv, ChildTypeOK, PipeInv, readVars
<1> QED
  BY <1>1, <1>2, <1>3 DEF ChildInv

\* The root is born with the pipes, into its group.
LEMMA SpawnInv == ASSUME ChildInv, Spawn PROVE ChildInv'
<1>1. ChildTypeOK'
  BY DEF Spawn, ChildInv, ChildTypeOK, Callers, setup, Procs, Streams
<1>2. GroupInv'
  BY DEF Spawn, ChildInv, ChildTypeOK, GroupInv, Joining, Running, Windows, Procs, setup
<1>3. PipeInv'
  <2>1. \A n \in Nat : KeptOf(n)' = KeptOf(n)
    BY KeptSame DEF Spawn
  <2> QED
    BY <2>1 DEF Spawn, ChildInv, ChildTypeOK, PipeInv
<1> QED
  BY <1>1, <1>2, <1>3 DEF ChildInv

\* Termination leaves nothing in the group running.
LEMMA TerminatedFacts ==
  ASSUME ChildInv
  PROVE  /\ Terminated \in [Procs -> {"unborn", "alive", "doomed", "dead"}]
         /\ \A p \in Procs : /\ Terminated[p] = "alive" => proc[p] = "alive" /\ ~grouped[p]
                             /\ Terminated[p] # "doomed" => Terminated[p] = proc[p]
                             /\ proc[p] # "alive" => Terminated[p] = proc[p]
  BY DEF ChildInv, ChildTypeOK, Terminated, Running

\* The child is killed with its group, or the call fails.
LEMMA KillInv == ASSUME ChildInv, Kill \/ CallFails PROVE ChildInv'
<1>0. UNCHANGED <<setup, grouped, holds, written, readVars, stopped>>
  BY DEF Kill, CallFails, Fail, Step
<1>a. \/ pc' = "wait" /\ pc = "kill" /\ proc' = Terminated
      \/ /\ pc' = "failed" /\ pc \in {"spawn", "poll", "kill", "wait"}
         /\ proc' = IF Windows THEN Terminated ELSE proc
  BY DEF Kill, CallFails, Fail, Step
<1>b. proc' \in [Procs -> {"unborn", "alive", "doomed", "dead"}]
  BY <1>a, TerminatedFacts DEF ChildInv, ChildTypeOK
<1>1. ChildTypeOK'
  BY <1>0, <1>a, <1>b DEF ChildInv, ChildTypeOK, Callers, setup, readVars
<1>2. GroupInv'
  <2>1. \A p \in Procs : proc'[p] = "alive" => proc[p] = "alive"
    BY <1>a, TerminatedFacts
  <2>2. CASE pc' = "wait"
    <3>1. \A p \in Procs : proc'[p] = "alive" => ~grouped[p]
      BY <1>a, <2>2, TerminatedFacts
    <3> QED
      BY <1>0, <2>1, <2>2, <3>1 DEF ChildInv, GroupInv, Joining, Running, Windows, Procs, setup
  <2>3. CASE pc' = "failed"
    <3>1. Windows => \A p \in Procs : proc'[p] # "alive"
      <4> SUFFICES ASSUME Windows, NEW p \in Procs, proc'[p] = "alive" PROVE FALSE
        OBVIOUS
      <4>1. ~grouped[p]
        BY <1>a, <2>3, TerminatedFacts
      <4> QED
        BY <2>1, <4>1 DEF ChildInv, GroupInv, Running
    <3> QED
      BY <1>0, <2>1, <2>3, <3>1 DEF ChildInv, GroupInv, Joining, Running, Windows, Procs, setup
  <2> QED
    BY <1>a, <2>2, <2>3
<1>3. PipeInv'
  <2>1. \A n \in Nat : KeptOf(n)' = KeptOf(n)
    BY <1>0, KeptSame
  <2> QED
    BY <1>0, <1>a, <2>1 DEF ChildInv, ChildTypeOK, PipeInv, readVars
<1> QED
  BY <1>1, <1>2, <1>3 DEF ChildInv

\* The caller joins the readers, stdout first.
LEMMA JoinInv ==
  ASSUME ChildInv,
         Join("join_stdout", "stdout", "join_stderr") \/ Join("join_stderr", "stderr", "done")
  PROVE  ChildInv'
<1>0. UNCHANGED <<setup, grouped, holds, written, readVars, stopped, proc>>
  BY DEF Join, Step
<1>1. ChildTypeOK'
  BY <1>0 DEF Join, Step, ChildInv, ChildTypeOK, Callers, setup, readVars
<1>2. GroupInv'
  <2>1. Joining /\ pc' \in {"join_stderr", "done", "failed"}
    BY DEF Join, Step, Joining
  <2>2. Windows => \A p \in Procs : ~Running(p)
    BY <2>1 DEF ChildInv, GroupInv, ActiveProcesses, Gone, Running
  <2> QED
    BY <1>0, <2>1, <2>2 DEF ChildInv, GroupInv, Joining, Running, Windows, ActiveProcesses, Gone, setup
<1>3. PipeInv'
  <2>1. \A n \in Nat : KeptOf(n)' = KeptOf(n)
    BY <1>0, KeptSame
  <2>2. /\ pc' # "spawn"
        /\ pc' \in {"join_stderr", "done"} => reader["stdout"] = "finished"
        /\ pc' = "done" => reader["stderr"] = "finished"
    BY DEF Join, Step, ChildInv, PipeInv
  <2> QED
    BY <1>0, <2>1, <2>2 DEF ChildInv, ChildTypeOK, PipeInv, readVars
<1> QED
  BY <1>1, <1>2, <1>3 DEF ChildInv

\* A reader reads, sees the end of its pipe or fails.
LEMMA ReaderInv ==
  ASSUME ChildInv, NEW s \in Streams, ReaderStep(s) \/ ReaderFails(s)
  PROVE  ChildInv'
<1>0. UNCHANGED <<setup, pc, stopped, procVars>> /\ reader[s] = "reading"
  BY DEF ReaderStep, ReaderFails, Read, EndOfFile
<1>g. GroupInv'
  BY <1>0 DEF ChildInv, GroupInv, Joining, Running, Windows, ActiveProcesses, Gone, setup, procVars
<1>k. \A n \in Nat : KeptOf(n)' = KeptOf(n)
  BY <1>0, KeptSame
<1>p. pc # "spawn" /\ (pc \in {"join_stderr", "done"} => s # "stdout") /\ (pc = "done" => s # "stderr")
  BY <1>0 DEF ChildInv, PipeInv
<1>1. CASE Read(s)
  <2>1. PICK n \in drained[s] + 1 .. written[s] :
          /\ drained' = [drained EXCEPT ![s] = n]
          /\ captured' = [captured EXCEPT ![s] = Absorb(@, Bytes(drained[s], n))]
    BY <1>1 DEF Read
  <2>2. drained[s] \in Nat /\ n \in Nat /\ drained[s] <= n /\ n <= written[s] /\ reader' = reader
    BY <1>1, <2>1 DEF Read, ChildInv, ChildTypeOK
  <2>3. captured'[s] = KeptOf(n)
    <3>1. captured'[s] = Absorb(KeptOf(drained[s]), Bytes(drained[s], n))
      BY <2>1 DEF ChildInv, ChildTypeOK, PipeInv
    <3> QED
      BY <2>2, <3>1, KeptRead
  <2>4. ChildTypeOK'
    BY <1>0, <2>1, <2>2 DEF ChildInv, ChildTypeOK, setup, procVars
  <2>5. PipeInv'
    <3>1. \A t \in Streams : t # s => drained'[t] = drained[t] /\ captured'[t] = captured[t]
      BY <2>1 DEF ChildInv, ChildTypeOK
    <3>2. drained'[s] = n
      BY <2>1 DEF ChildInv, ChildTypeOK
    <3>3. ASSUME NEW t \in Streams
          PROVE  /\ drained'[t] <= written'[t]
                 /\ captured'[t] = KeptOf(drained'[t])
                 /\ reader'[t] = "finished" => drained'[t] = written'[t] /\ \A p \in Procs : t \notin holds'[p]
      BY <1>0, <2>2, <2>3, <3>1, <3>2 DEF ChildInv, PipeInv, procVars
    <3>4. \A t \in Streams : drained'[t] \in Nat
      BY <2>4 DEF ChildTypeOK
    <3> QED
      BY <1>0, <1>k, <1>p, <2>2, <3>3, <3>4 DEF ChildInv, PipeInv
  <2> QED
    BY <1>g, <2>4, <2>5 DEF ChildInv
<1>2. CASE EndOfFile(s) \/ ReaderFails(s)
  <2>1. UNCHANGED <<captured, drained>>
    BY <1>2 DEF EndOfFile, ReaderFails
  <2>2. \/ /\ reader' = [reader EXCEPT ![s] = "finished"]
           /\ drained[s] = written[s] /\ \A p \in Procs : s \notin holds[p]
        \/ reader' = [reader EXCEPT ![s] = "failed"]
    BY <1>2 DEF EndOfFile, ReaderFails
  <2>3. ChildTypeOK'
    BY <1>0, <2>1, <2>2 DEF ChildInv, ChildTypeOK, setup, procVars
  <2>4. PipeInv'
    <3>1. \A t \in Streams : t # s => reader'[t] = reader[t]
      BY <2>2 DEF ChildInv, ChildTypeOK
    <3>2. reader'[s] = "failed" \/ (drained[s] = written[s] /\ \A p \in Procs : s \notin holds[p])
      BY <2>2 DEF ChildInv, ChildTypeOK
    <3>3. \A t \in Streams : reader'[t] = "finished" => drained'[t] = written'[t] /\ \A p \in Procs : t \notin holds'[p]
      BY <1>0, <2>1, <3>1, <3>2 DEF ChildInv, PipeInv, procVars
    <3> QED
      BY <1>0, <1>k, <1>p, <2>1, <3>1, <3>3 DEF ChildInv, ChildTypeOK, PipeInv, procVars, Streams
  <2> QED
    BY <1>g, <2>3, <2>4 DEF ChildInv
<1> QED
  BY <1>1, <1>2 DEF ReaderStep

\* The processes write, fork, exit and die; only a running root changes who
\* holds a pipe in any way but by closing it.
LEMMA ProcessInv ==
  ASSUME ChildInv,
         ChildStep \/ RootForks \/ (\E p \in Procs : Dies(p)) \/ DeadlinePasses \/ ClientCancels
  PROVE  ChildInv'
<1>0. UNCHANGED <<setup, pc, stopped, readVars>>
  BY DEF ChildStep, RootWrites, RootExits, BackgroundExits, RootForks, Dies, DeadlinePasses, ClientCancels, CallerIdle
<1>k. \A n \in Nat : KeptOf(n)' = KeptOf(n)
  BY <1>0, KeptSame
<1>1. ASSUME NEW s \in Streams, RootWrites(s) PROVE ChildInv'
  <2>1. UNCHANGED <<proc, grouped, holds>> /\ written' = [written EXCEPT ![s] = @ + 1] /\ s \in holds["root"]
    BY <1>1 DEF RootWrites
  <2>2. ChildTypeOK'
    BY <1>0, <2>1 DEF ChildInv, ChildTypeOK, setup, readVars
  <2>3. GroupInv'
    BY <1>0, <2>1 DEF ChildInv, GroupInv, Joining, Running, Windows, ActiveProcesses, Gone, setup
  <2>4. reader[s] # "finished"
    BY <2>1 DEF ChildInv, PipeInv, Procs
  <2>5. \A t \in Streams : drained[t] <= written'[t] /\ (t # s => written'[t] = written[t])
    BY <2>1 DEF ChildInv, ChildTypeOK, PipeInv
  <2>6. PipeInv'
    BY <1>0, <1>k, <2>1, <2>4, <2>5 DEF ChildInv, ChildTypeOK, PipeInv, readVars
  <2> QED
    BY <2>2, <2>3, <2>6 DEF ChildInv
<1>2. CASE RootForks
  <2>1. PICK inherited \in SUBSET holds["root"] : holds' = [holds EXCEPT !["background"] = inherited]
    BY <1>2 DEF RootForks
  <2>2. PICK stays \in {TRUE, Windows} : grouped' = [grouped EXCEPT !["background"] = stays]
    BY <1>2 DEF RootForks
  <2>3. /\ proc["root"] = "alive" /\ proc["background"] = "unborn" /\ UNCHANGED written
        /\ proc' = [proc EXCEPT !["background"] = "alive"]
    BY <1>2 DEF RootForks, Running
  <2>4. stays \in BOOLEAN
    <3>1. Windows \in BOOLEAN
      BY DEF Windows
    <3>2. stays = TRUE \/ stays = Windows
      BY <2>2
    <3> QED
      BY <3>1, <3>2
  <2>5. ChildTypeOK'
    BY <1>0, <2>1, <2>2, <2>3, <2>4 DEF ChildInv, ChildTypeOK, setup, readVars, Procs
  <2>6. ~Joining /\ pc # "wait" /\ pc # "spawn" /\ ~(pc = "failed" /\ Windows)
    BY <2>3 DEF ChildInv, GroupInv, Running, Procs
  <2>7. GroupInv'
    <3>1. proc'["root"] = "alive" /\ grouped'["root"] = grouped["root"] /\ grouped["root"]
      BY <2>2, <2>3 DEF ChildInv, ChildTypeOK, GroupInv, Running, Procs
    <3>2. Windows => grouped'["background"]
      BY <2>2 DEF ChildInv, ChildTypeOK, Procs
    <3> QED
      BY <1>0, <2>6, <3>1, <3>2 DEF ChildInv, GroupInv, Joining, Running, Windows, Procs, setup
  <2>8. PipeInv'
    <3>1. \A s \in Streams : (\A p \in Procs : s \notin holds[p]) => \A p \in Procs : s \notin holds'[p]
      BY <2>1 DEF ChildInv, ChildTypeOK, Procs
    <3> QED
      BY <1>0, <1>k, <2>3, <3>1 DEF ChildInv, ChildTypeOK, PipeInv, readVars
  <2> QED
    BY <2>5, <2>7, <2>8 DEF ChildInv
<1>3. ASSUME NEW p \in Procs,
             proc[p] \in {"alive", "doomed"}, proc' = [proc EXCEPT ![p] = "dead"],
             holds' = [holds EXCEPT ![p] = {}], UNCHANGED <<grouped, written>>
      PROVE  ChildInv'
  <2>1. ChildTypeOK'
    BY <1>0, <1>3 DEF ChildInv, ChildTypeOK, setup, readVars
  <2>2. \A q \in Procs : /\ proc'[q] = "alive" => proc[q] = "alive"
                         /\ proc[q] \in {"unborn", "dead"} => proc'[q] = proc[q]
                         /\ holds'[q] \subseteq holds[q]
    BY <1>3 DEF ChildInv, ChildTypeOK
  <2>3. pc # "spawn"
    BY <1>3 DEF ChildInv, GroupInv
  <2>4. GroupInv'
    BY <1>0, <1>3, <2>2, <2>3 DEF ChildInv, GroupInv, Joining, Running, Windows, ActiveProcesses, Gone, setup, Procs
  <2>5. PipeInv'
    BY <1>0, <1>3, <1>k, <2>2, <2>3 DEF ChildInv, ChildTypeOK, PipeInv, readVars
  <2> QED
    BY <2>1, <2>4, <2>5 DEF ChildInv
<1>4. CASE RootExits
  BY <1>3, <1>4 DEF RootExits, Running, Procs
<1>5. CASE BackgroundExits
  BY <1>3, <1>5 DEF BackgroundExits, Running, Procs
<1>6. ASSUME NEW p \in Procs, Dies(p) PROVE ChildInv'
  BY <1>3, <1>6 DEF Dies
<1>7. CASE DeadlinePasses \/ ClientCancels
  <2>1. UNCHANGED procVars
    BY <1>7 DEF DeadlinePasses, ClientCancels
  <2>2. ChildTypeOK'
    BY <1>0, <2>1 DEF ChildInv, ChildTypeOK, setup, readVars, procVars
  <2>3. GroupInv'
    BY <1>0, <2>1 DEF ChildInv, GroupInv, Joining, Running, Windows, ActiveProcesses, Gone, setup, procVars
  <2>4. PipeInv'
    BY <1>0, <1>k, <2>1 DEF ChildInv, ChildTypeOK, PipeInv, readVars, procVars
  <2> QED
    BY <2>2, <2>3, <2>4 DEF ChildInv
<1> QED
  BY <1>1, <1>2, <1>4, <1>5, <1>6, <1>7 DEF ChildStep

\* Nothing moves.
LEMMA ChildStutterInv == ASSUME ChildInv, UNCHANGED childVars PROVE ChildInv'
<1>0. UNCHANGED <<setup, pc, stopped, procVars, readVars>>
  BY DEF childVars
<1>k. \A n \in Nat : KeptOf(n)' = KeptOf(n)
  BY <1>0, KeptSame
<1>2. ChildTypeOK'
  BY <1>0 DEF ChildInv, ChildTypeOK, setup, readVars, procVars
<1>3. GroupInv'
  BY <1>0 DEF ChildInv, GroupInv, Joining, Running, Windows, ActiveProcesses, Gone, setup, procVars
<1>4. PipeInv'
  BY <1>0, <1>k DEF ChildInv, ChildTypeOK, PipeInv, readVars, procVars
<1> QED
  BY <1>2, <1>3, <1>4 DEF ChildInv

LEMMA ChildInvariant == ChildSpec => []ChildInv
<1>1. ChildInv /\ [ChildNext]_childVars => ChildInv'
  <2> SUFFICES ASSUME ChildInv, [ChildNext]_childVars PROVE ChildInv'
    OBVIOUS
  <2>1. CASE Caller
    BY <2>1, MovesInv, SpawnInv, KillInv, JoinInv DEF Caller
  <2>2. CASE CallFails
    BY <2>2, KillInv
  <2>3. ASSUME NEW s \in Streams, ReaderStep(s) \/ ReaderFails(s) PROVE ChildInv'
    BY <2>3, ReaderInv
  <2>4. CASE ChildStep \/ RootForks \/ (\E p \in Procs : Dies(p)) \/ DeadlinePasses \/ ClientCancels
    BY <2>4, ProcessInv
  <2>5. CASE UNCHANGED childVars
    BY <2>5, ChildStutterInv
  <2> QED
    BY <2>1, <2>2, <2>3, <2>4, <2>5 DEF ChildNext
<1> QED
  BY <1>1, ChildInitInv, PTL DEF ChildSpec

\* However the deadline, the cancellation, the failures of system calls and a
\* root that forks while it is being stopped fall together: on Windows nothing
\* the command started outlives the call, and elsewhere nothing in its group
\* outlives a command that was stopped (run_program, bounded_process::run).
THEOREM NothingSurvives == ChildSpec => []NoSurvivors
<1>1. ChildInv => NoSurvivors
  BY DEF ChildInv, GroupInv, Joining, NoSurvivors
<1> QED
  BY <1>1, ChildInvariant, PTL

\* For every limit and every way the reads may fall, what the call returns is
\* the first or the last bytes of all that was written, and is marked as
\* truncated exactly when some are missing (the output reader threads).
THEOREM CaptureIsExact == ChildSpec => []CaptureExact
<1>1. ChildInv => CaptureExact
  <2> SUFFICES ASSUME ChildInv, pc = "done", NEW s \in Streams
               PROVE  LET all == Bytes(0, written[s])
                      IN  /\ captured[s] = IF keepTail THEN Suffix(all, MaxOutputBytes)
                                           ELSE Prefix(all, MaxOutputBytes)
                          /\ Truncated(s) <=> captured[s] # all
    BY DEF CaptureExact
  <2>1. reader[s] = "finished"
    BY DEF ChildInv, PipeInv, Streams
  <2>2. written[s] \in Nat /\ drained[s] = written[s] /\ captured[s] = KeptOf(written[s])
    BY <2>1 DEF ChildInv, ChildTypeOK, PipeInv
  <2> QED
    BY <2>2, KeptWhole, KeptTruncated DEF Truncated
<1> QED
  BY <1>1, ChildInvariant, PTL

-----------------------------------------------------------------------------
(* The shutdown of the server process.                                     *)

BeginSteps == {"no", "set", "notify", "close", "token", "done"}

ShutdownTypeOK ==
    /\ kind \in {"stdio", "http"} /\ clock \in Nat \ {0} /\ started \in Nat /\ until \in Nat
    /\ flag \in BOOLEAN
    /\ begin \in [Starters -> BeginSteps]
    /\ queue \in Seq(Calls \cup {Flush})
    /\ accepted \in Seq(Calls) /\ recorded \in Seq(Calls)

\* Whoever is past the start has set it; a controller that let nobody else
\* through waits for the one it let through; the executor is closed by
\* whoever has come that far.
StartedInv ==
    /\ \A t \in Starters :
         /\ begin[t] \in {"notify", "close", "token"} => started # NoTime
         /\ begin[t] = "token" => closed
         /\ begin[t] # "no" /\ kind = "http" => flag
         /\ begin[t] = "done" /\ kind # "http" => started # NoTime /\ closed
    /\ kind = "http" /\ flag /\ started = NoTime => \E t \in Starters : begin[t] = "set"
    /\ kind = "http" /\ flag /\ ~closed => \E t \in Starters : begin[t] \in {"set", "notify", "close"}
    /\ main \in {"bind", "serve"} => begin[Main] = "no"
    /\ main \notin {"bind", "serve", "begin"} => begin[Main] = "done"
    /\ main = "exited" => closed

\* The grace period: a waiter that sleeps or will be woken knows the start, and
\* no wait ends later than the period does.
GraceInv ==
    /\ started # NoTime => clock <= started + Grace
    /\ waiter \in {"new", "checked", "enabled", "waiting", "sleeping"}
    /\ waiter = "waiting" /\ started # NoTime => woken \/ \E t \in Starters : begin[t] = "notify"
    /\ main \in {"bind", "serve", "begin", "flush", "report", "drain", "exited"}
    /\ main \in {"flush", "drain"} =>
         IF started = NoTime THEN until = clock + Grace ELSE until <= started + Grace

\* The queue holds, in order, the accepted events that are not recorded yet,
\* and at most one flush, at position k (none: 0).
QueueAt(k) ==
    LET n == Len(recorded) IN
    /\ k \in 0 .. Len(queue)
    /\ \A i \in 1 .. Len(queue) : queue[i] = Flush <=> i = k
    /\ Len(accepted) = n + Len(queue) - (IF k = 0 THEN 0 ELSE 1)
    /\ \A i \in 1 .. Len(queue) : i < k \/ k = 0 => queue[i] = accepted[n + i]
    /\ \A i \in 1 .. Len(queue) : k # 0 /\ i > k => queue[i] = accepted[n + i - 1]

QueueInv ==
    /\ \A i \in 1 .. Len(recorded) : recorded[i] = accepted[i]
    /\ \E k \in Nat :
         /\ QueueAt(k)
         /\ main \in {"bind", "serve", "begin"} => k = 0
         /\ main = "flush" => /\ k # 0
                              /\ flushed \subseteq {accepted[i] : i \in 1 .. Len(recorded) + k - 1}
    /\ main \in {"report", "drain"} => flushed \subseteq {recorded[i] : i \in 1 .. Len(recorded)}

ShutdownInv == ShutdownTypeOK /\ StartedInv /\ GraceInv /\ QueueInv

LEMMA ShutdownInitInv == ShutdownInit => ShutdownInv
<1> SUFFICES ASSUME ShutdownInit PROVE ShutdownInv
  OBVIOUS
<1>1. ShutdownTypeOK
  <2>0. kind \in {"stdio", "http"} /\ flag \in BOOLEAN
    BY TransportsAssumption DEF ShutdownInit
  <2>1. clock \in Nat \ {0} /\ started \in Nat /\ until \in Nat
    BY DEF ShutdownInit, NoTime
  <2>2. begin \in [Starters -> BeginSteps]
    BY DEF ShutdownInit, BeginSteps
  <2>3. queue \in Seq(Calls \cup {Flush}) /\ accepted \in Seq(Calls) /\ recorded \in Seq(Calls)
    BY EmptySeq DEF ShutdownInit
  <2> QED
    BY <2>0, <2>1, <2>2, <2>3 DEF ShutdownTypeOK
<1>2. StartedInv
  BY DEF ShutdownInit, StartedInv, Starters
<1>3. GraceInv
  BY DEF ShutdownInit, GraceInv
<1>4. QueueInv
  <2>1. QueueAt(0)
    BY DEF ShutdownInit, QueueAt
  <2> QED
    BY <2>1 DEF ShutdownInit, QueueInv
<1> QED
  BY <1>1, <1>2, <1>3, <1>4 DEF ShutdownInv

\* What does not touch the events leaves them in order, as long as the serving
\* task neither begins nor ends a flush.
LEMMA QueueKept ==
  ASSUME ShutdownInv, UNCHANGED <<queue, accepted, recorded, flushed>>,
         \/ main' = main
         \/ main' = "begin" /\ main \in {"bind", "serve"}
         \/ main' = "serve" /\ main = "bind"
         \/ main' = "drain" /\ main = "report"
         \/ main' = "exited"
  PROVE  QueueInv'
<1>1. PICK k \in Nat :
         /\ QueueAt(k)
         /\ main \in {"bind", "serve", "begin"} => k = 0
         /\ main = "flush" => /\ k # 0
                              /\ flushed \subseteq {accepted[i] : i \in 1 .. Len(recorded) + k - 1}
  BY DEF ShutdownInv, QueueInv
<1>2. QueueAt(k)'
  BY <1>1 DEF QueueAt
<1>3. /\ main' \in {"bind", "serve", "begin"} => k = 0
      /\ main' = "flush" => /\ k # 0
                           /\ flushed' \subseteq {accepted'[i] : i \in 1 .. Len(recorded') + k - 1}
  BY <1>1
<1>4. main' \in {"report", "drain"} => flushed' \subseteq {recorded'[i] : i \in 1 .. Len(recorded')}
  BY DEF ShutdownInv, QueueInv
<1>5. \A i \in 1 .. Len(recorded') : recorded'[i] = accepted'[i]
  BY DEF ShutdownInv, QueueInv
<1> QED
  BY <1>2, <1>3, <1>4, <1>5 DEF QueueInv

\* Somebody enters begin_shutdown.
LEMMA EnterInv ==
  ASSUME ShutdownInv, NEW t \in Starters, begin[t] = "no", Enter(t), UNCHANGED <<kind, clock, wait, until>>,
         UNCHANGED events,
         IF t = Main THEN main \in {"bind", "serve"} /\ main' = "begin" ELSE main' = main
  PROVE  ShutdownInv'
<1>1. ShutdownTypeOK'
  BY DEF ShutdownInv, ShutdownTypeOK, Enter, BeginSteps, events
<1>b. /\ begin'[t] = IF kind = "http" /\ flag THEN "done" ELSE "set"
      /\ \A u \in Starters : u # t => begin'[u] = begin[u]
      /\ flag' = (flag \/ kind = "http") /\ UNCHANGED <<closed, started>>
  BY DEF ShutdownInv, ShutdownTypeOK, Enter
<1>2. StartedInv'
  <2>1. \A u \in Starters :
         /\ begin'[u] \in {"notify", "close", "token"} => started' # NoTime
         /\ begin'[u] = "token" => closed'
         /\ begin'[u] # "no" /\ kind = "http" => flag'
         /\ begin'[u] = "done" /\ kind # "http" => started' # NoTime /\ closed'
    BY <1>b DEF ShutdownInv, ShutdownTypeOK, StartedInv
  <2>2. kind = "http" /\ flag' /\ started' = NoTime => \E u \in Starters : begin'[u] = "set"
    BY <1>b DEF ShutdownInv, ShutdownTypeOK, StartedInv
  <2>3. kind = "http" /\ flag' /\ ~closed' => \E u \in Starters : begin'[u] \in {"set", "notify", "close"}
    BY <1>b DEF ShutdownInv, ShutdownTypeOK, StartedInv
  <2>4. /\ main' \in {"bind", "serve"} => begin'[Main] = "no"
        /\ main' \notin {"bind", "serve", "begin"} => begin'[Main] = "done"
        /\ main' = "exited" => closed'
    BY <1>b DEF ShutdownInv, StartedInv, Starters
  <2> QED
    BY <2>1, <2>2, <2>3, <2>4 DEF StartedInv
<1>3. GraceInv'
  <2>1. waiter' = waiter /\ woken' = woken
    BY DEF wait
  <2>2. (\E u \in Starters : begin[u] = "notify") => \E u \in Starters : begin'[u] = "notify"
    BY <1>b
  <2> QED
    BY <1>b, <2>1, <2>2 DEF ShutdownInv, GraceInv
<1>4. QueueInv'
  BY QueueKept DEF events
<1> QED
  BY <1>1, <1>2, <1>3, <1>4 DEF ShutdownInv

\* begin_shutdown after it was entered: no trigger is lost on the way.
LEMMA BeginInv ==
  ASSUME ShutdownInv, NEW t \in Starters, BeginShutdown(t)
  PROVE  ShutdownInv'
<1>0. UNCHANGED <<kind, clock, flag, serving, events, waiter>>
  BY DEF BeginShutdown, SetStarted, NotifyWaiters, CloseExecutor, CancelToken, wait
<1>a. UNCHANGED <<main, until, queue, accepted, recorded, flushed>>
  BY <1>0 DEF serving, events
<1>b. \A u \in Starters : u # t => begin'[u] = begin[u]
  BY DEF BeginShutdown, SetStarted, NotifyWaiters, CloseExecutor, CancelToken, ShutdownInv, ShutdownTypeOK
<1>1. ShutdownTypeOK'
  BY <1>0, <1>a DEF BeginShutdown, SetStarted, NotifyWaiters, CloseExecutor, CancelToken,
                    ShutdownInv, ShutdownTypeOK, BeginSteps
<1>2. CASE SetStarted(t)
  <2>1. /\ begin[t] = "set" /\ begin'[t] \in {"notify", "close"} /\ started' # NoTime
        /\ started # NoTime => started' = started
        /\ started = NoTime => started' = clock /\ begin'[t] = "notify"
        /\ UNCHANGED <<closed, woken>>
    BY <1>2 DEF SetStarted, ShutdownInv, ShutdownTypeOK, NoTime, wait
  <2>2. StartedInv'
    BY <1>0, <1>a, <1>b, <2>1 DEF ShutdownInv, ShutdownTypeOK, StartedInv, Starters
  <2>3. GraceInv'
    BY <1>0, <1>a, <1>b, <2>1, GraceAssumption DEF ShutdownInv, ShutdownTypeOK, StartedInv, GraceInv, NoTime
  <2> QED
    BY <1>1, <1>a, <2>2, <2>3, QueueKept DEF ShutdownInv
<1>3. CASE NotifyWaiters(t)
  <2>1. /\ begin[t] = "notify" /\ begin'[t] = "close" /\ UNCHANGED <<closed, started>>
        /\ woken \/ waiter = "waiting" => woken'
    BY <1>3 DEF NotifyWaiters, ShutdownInv, ShutdownTypeOK
  <2>2. StartedInv'
    BY <1>0, <1>a, <1>b, <2>1 DEF ShutdownInv, StartedInv, Starters
  <2>3. GraceInv'
    BY <1>0, <1>a, <1>b, <2>1 DEF ShutdownInv, GraceInv
  <2> QED
    BY <1>1, <1>a, <2>2, <2>3, QueueKept DEF ShutdownInv
<1>4. CASE CloseExecutor(t)
  <2>1. /\ begin[t] = "close" /\ begin'[t] = (IF kind = "http" THEN "token" ELSE "done")
        /\ closed' = TRUE /\ UNCHANGED <<started, woken>>
    BY <1>4 DEF CloseExecutor, ShutdownInv, ShutdownTypeOK, wait
  <2>2. StartedInv'
    BY <1>0, <1>a, <1>b, <2>1 DEF ShutdownInv, ShutdownTypeOK, StartedInv, Starters
  <2>3. GraceInv'
    BY <1>0, <1>a, <1>b, <2>1 DEF ShutdownInv, GraceInv
  <2> QED
    BY <1>1, <1>a, <2>2, <2>3, QueueKept DEF ShutdownInv
<1>5. CASE CancelToken(t)
  <2>1. begin[t] = "token" /\ begin'[t] = "done" /\ UNCHANGED <<closed, started, woken>>
    BY <1>5 DEF CancelToken, ShutdownInv, ShutdownTypeOK, wait
  <2>2. StartedInv'
    BY <1>0, <1>a, <1>b, <2>1 DEF ShutdownInv, ShutdownTypeOK, StartedInv, Starters
  <2>3. GraceInv'
    BY <1>0, <1>a, <1>b, <2>1 DEF ShutdownInv, GraceInv
  <2> QED
    BY <1>1, <1>a, <2>2, <2>3, QueueKept DEF ShutdownInv
<1> QED
  BY <1>2, <1>3, <1>4, <1>5 DEF BeginShutdown

\* Steps that touch neither a starter nor the events; where the serving task
\* may go and which deadline it may take.
LEMMA CalmInv ==
  ASSUME ShutdownInv, UNCHANGED <<kind, clock, flow, events>>,
         \/ UNCHANGED <<main, until>>
         \/ main = "bind" /\ main' = "serve" /\ UNCHANGED until
         \/ main = "report" /\ main' = "drain" /\ until' = Deadline
         \/ main = "drain" /\ main' = "exited" /\ UNCHANGED until /\ closed,
         waiter' \in {"new", "checked", "enabled", "waiting", "sleeping"},
         \/ waiter' = waiter /\ woken' = woken
         \/ waiter' # "waiting"
         \/ waiter' = "waiting" /\ started = NoTime
  PROVE  ShutdownInv'
<1>0. UNCHANGED <<flag, closed, token, begin, started, queue, accepted, recorded, flushed>>
  BY DEF flow, events
<1>d. Deadline \in Nat /\ Deadline = IF started = NoTime THEN clock + Grace ELSE started + Grace
  BY GraceAssumption DEF Deadline, ShutdownInv, ShutdownTypeOK
<1>1. ShutdownTypeOK'
  BY <1>0, <1>d DEF ShutdownInv, ShutdownTypeOK
<1>2. StartedInv'
  BY <1>0 DEF ShutdownInv, StartedInv
<1>3. GraceInv'
  BY <1>0, <1>d, GraceAssumption DEF ShutdownInv, ShutdownTypeOK, GraceInv
<1>4. QueueInv'
  BY <1>0, QueueKept
<1> QED
  BY <1>1, <1>2, <1>3, <1>4 DEF ShutdownInv

\* The serving task, up to the events it flushes.
LEMMA ServeInv ==
  ASSUME ShutdownInv, Bind \/ BindFails \/ TransportDone \/ Expired \/ ShutdownRuntime \/ Exit
  PROVE  ShutdownInv'
<1>m. Main \in Starters
  BY DEF Starters
<1>1. CASE Bind
  <2>1. waiter' = waiter /\ woken' = woken /\ UNCHANGED <<kind, clock, flow, events, until>>
        /\ main = "bind" /\ main' = "serve"
    BY <1>1 DEF Bind, wait
  <2> QED
    BY <2>1, CalmInv DEF ShutdownInv, GraceInv
<1>2. CASE BindFails \/ TransportDone \/ Expired
  <2>1. /\ Enter(Main) /\ UNCHANGED <<kind, clock, wait, until>> /\ UNCHANGED events
        /\ main \in {"bind", "serve"} /\ main' = "begin"
    BY <1>2 DEF BindFails, TransportDone, Expired
  <2>2. begin[Main] = "no"
    BY <2>1 DEF ShutdownInv, StartedInv
  <2> QED
    BY <1>m, <2>1, <2>2, EnterInv
<1>3. CASE ShutdownRuntime
  <2>1. waiter' = waiter /\ woken' = woken /\ UNCHANGED <<kind, clock, flow, events>>
        /\ main = "report" /\ main' = "drain" /\ until' = Deadline
    BY <1>3 DEF ShutdownRuntime, wait
  <2> QED
    BY <2>1, CalmInv DEF ShutdownInv, GraceInv
<1>4. CASE Exit
  <2>1. waiter' = waiter /\ woken' = woken /\ UNCHANGED <<kind, clock, flow, events, until>>
        /\ main = "drain" /\ main' = "exited"
    BY <1>4 DEF Exit, wait
  <2>2. closed
    <3>1. begin[Main] = "done" /\ \A t \in Triggers : begin[t] \in {"no", "done"}
      BY <1>4, <2>1 DEF Exit, ShutdownInv, StartedInv
    <3>2. \A t \in Starters : begin[t] \in {"no", "done"}
      BY <3>1 DEF Starters
    <3> QED
      BY <1>m, <3>1, <3>2 DEF ShutdownInv, ShutdownTypeOK, StartedInv
  <2> QED
    BY <2>1, <2>2, CalmInv DEF ShutdownInv, GraceInv
<1> QED
  BY <1>1, <1>2, <1>3, <1>4

\* The wait for the grace period, the connections and the calls that begin.
LEMMA OthersInv ==
  ASSUME ShutdownInv,
         \/ GraceWait \/ Connect \/ Disconnect \/ TransportEnds \/ TransportFails
         \/ \E c \in Calls : SubmitCall(c)
  PROVE  ShutdownInv'
<1>0. UNCHANGED <<kind, clock, flow, events, main, until>>
  BY DEF GraceWait, CheckStarted, EnableNotified, RecheckStarted, Notified, Connect, Disconnect,
         TransportEnds, TransportFails, SubmitCall, serving
<1>1. /\ waiter' \in {"new", "checked", "enabled", "waiting", "sleeping"}
      /\ \/ waiter' = waiter /\ woken' = woken
         \/ waiter' # "waiting"
         \/ waiter' = "waiting" /\ started = NoTime
  BY DEF GraceWait, CheckStarted, EnableNotified, RecheckStarted, Notified, Connect, Disconnect,
         TransportEnds, TransportFails, SubmitCall, wait, ShutdownInv, GraceInv
<1> QED
  BY <1>0, <1>1, CalmInv

\* Time passes only when everybody waits, and then the period is not over.
LEMMA ClockTickInv == ASSUME ShutdownInv, ClockTick PROVE ShutdownInv' /\ (started # NoTime => clock' <= started + Grace)
<1>0. UNCHANGED <<kind, flow, wait, serving, events>> /\ clock' = clock + 1 /\ ~Urgent /\ main # "exited"
  BY DEF ClockTick
<1>a. UNCHANGED <<flag, closed, token, begin, started, waiter, woken, main, until, queue, accepted, recorded, flushed>>
  BY <1>0 DEF flow, wait, serving, events
<1>b. \A t \in Starters : begin[t] \notin {"set", "notify", "close", "token"}
  BY <1>0 DEF Urgent
<1>1. ShutdownTypeOK'
  BY <1>0, <1>a DEF ShutdownInv, ShutdownTypeOK
<1>2. StartedInv'
  BY <1>0, <1>a DEF ShutdownInv, StartedInv
<1>3. started # NoTime => clock + 1 <= started + Grace
  <2> SUFFICES ASSUME started # NoTime PROVE clock + 1 <= started + Grace
    OBVIOUS
  <2>1. CASE main = "serve"
    <3>1. Polling
      BY <1>0, <2>1 DEF Urgent, Polling
    <3>2. waiter # "waiting"
      BY <1>0, <1>b, <3>1 DEF Urgent, ShutdownInv, GraceInv
    <3>3. ~(clock >= started + Grace)
      BY <1>0, <3>1, <3>2 DEF Urgent, ShutdownInv, GraceInv
    <3> QED
      BY <3>3, GraceAssumption DEF ShutdownInv, ShutdownTypeOK
  <2>2. CASE main \in {"flush", "drain"}
    <3>1. ~(clock >= until) /\ until <= started + Grace
      BY <1>0, <2>2 DEF Urgent, ShutdownInv, GraceInv
    <3> QED
      BY <3>1, GraceAssumption DEF ShutdownInv, ShutdownTypeOK
  <2> QED
    BY <1>0, <2>1, <2>2 DEF Urgent, ShutdownInv, GraceInv
<1>4. main \in {"flush", "drain"} => started # NoTime
  <2> SUFFICES ASSUME main \in {"flush", "drain"} PROVE started # NoTime
    OBVIOUS
  <2>1. begin[Main] = "done" /\ Main \in Starters
    BY DEF ShutdownInv, StartedInv, Starters
  <2> QED
    BY <1>b, <2>1 DEF ShutdownInv, ShutdownTypeOK, StartedInv
<1>5. GraceInv'
  BY <1>0, <1>a, <1>3, <1>4 DEF ShutdownInv, GraceInv
<1>6. QueueInv'
  BY <1>a, QueueKept
<1> QED
  BY <1>0, <1>1, <1>2, <1>3, <1>5, <1>6 DEF ShutdownInv

\* The parts of the invariant that do not speak of the events.
LEMMA EventsAside ==
  ASSUME ShutdownInv, UNCHANGED <<kind, clock, flow, wait>>,
         queue' \in Seq(Calls \cup {Flush}), accepted' \in Seq(Calls), recorded' \in Seq(Calls),
         \/ UNCHANGED <<main, until>>
         \/ main \in {"begin", "flush"} /\ main' \in {"flush", "report"} /\ begin[Main] = "done"
            /\ (until' = Deadline \/ (main' = "report" /\ until' = until))
  PROVE  ShutdownTypeOK' /\ StartedInv' /\ GraceInv'
<1>0. UNCHANGED <<flag, closed, token, begin, started, waiter, woken>>
  BY DEF flow, wait
<1>d. Deadline \in Nat /\ Deadline = IF started = NoTime THEN clock + Grace ELSE started + Grace
  BY GraceAssumption DEF Deadline, ShutdownInv, ShutdownTypeOK
<1>1. ShutdownTypeOK'
  BY <1>0, <1>d DEF ShutdownInv, ShutdownTypeOK
<1>2. StartedInv'
  BY <1>0 DEF ShutdownInv, StartedInv
<1>3. GraceInv'
  <2>1. main' \in {"flush", "drain"} => IF started = NoTime THEN until' = clock + Grace ELSE until' <= started + Grace
    <3>1. CASE UNCHANGED <<main, until>>
      BY <3>1 DEF ShutdownInv, GraceInv
    <3>2. CASE main' = "flush" /\ until' = Deadline
      BY <1>d, <3>2, GraceAssumption DEF ShutdownInv, ShutdownTypeOK
    <3> QED
      BY <3>1, <3>2
  <2>2. main' \in {"bind", "serve", "begin", "flush", "report", "drain", "exited"}
    BY DEF ShutdownInv, GraceInv
  <2> QED
    BY <1>0, <2>1, <2>2 DEF ShutdownInv, GraceInv
<1> QED
  BY <1>1, <1>2, <1>3

\* A call returns: its event goes to the end of the queue, or is dropped.
LEMMA ReturnInv == ASSUME ShutdownInv, NEW c \in Calls, Return(c) PROVE ShutdownInv'
<1>0. UNCHANGED <<kind, clock, flow, wait, main, until, recorded, flushed>>
  BY DEF Return, serving
<1>1. CASE UNCHANGED <<queue, accepted>>
  BY <1>0, <1>1, QueueKept, EventsAside DEF ShutdownInv, ShutdownTypeOK
<1>2. CASE queue' = Append(queue, c) /\ accepted' = Append(accepted, c)
  <2> DEFINE n == Len(recorded)
  <2>1. PICK k \in Nat :
          /\ QueueAt(k)
          /\ main \in {"bind", "serve", "begin"} => k = 0
          /\ main = "flush" => /\ k # 0
                               /\ flushed \subseteq {accepted[i] : i \in 1 .. n + k - 1}
    BY DEF ShutdownInv, QueueInv
  <2>2. /\ queue \in Seq(Calls \cup {Flush}) /\ accepted \in Seq(Calls) /\ recorded \in Seq(Calls)
        /\ c \in Calls \cup {Flush} /\ c # Flush /\ n \in Nat
        /\ Len(queue) \in Nat /\ Len(accepted) \in Nat
    BY NamesAssumption DEF ShutdownInv, ShutdownTypeOK
  <2>3. /\ queue' \in Seq(Calls \cup {Flush}) /\ Len(queue') = Len(queue) + 1
        /\ \A i \in 1 .. Len(queue) : queue'[i] = queue[i]
        /\ queue'[Len(queue) + 1] = c
    BY <1>2, <2>2, AppendProperties
  <2>4. /\ accepted' \in Seq(Calls) /\ Len(accepted') = Len(accepted) + 1
        /\ \A i \in 1 .. Len(accepted) : accepted'[i] = accepted[i]
        /\ accepted'[Len(accepted) + 1] = c
    BY <1>2, <2>2, AppendProperties
  <2>5. /\ k \in 0 .. Len(queue)
        /\ \A i \in 1 .. Len(queue) : queue[i] = Flush <=> i = k
        /\ Len(accepted) = n + Len(queue) - (IF k = 0 THEN 0 ELSE 1)
        /\ \A i \in 1 .. Len(queue) : i < k \/ k = 0 => queue[i] = accepted[n + i]
        /\ \A i \in 1 .. Len(queue) : k # 0 /\ i > k => queue[i] = accepted[n + i - 1]
    BY <2>1 DEF QueueAt
  <2>6. QueueAt(k)'
    <3>1. k \in 0 .. Len(queue')
      BY <2>2, <2>3, <2>5
    <3>2. ASSUME NEW i \in 1 .. Len(queue') PROVE queue'[i] = Flush <=> i = k
      BY <2>2, <2>3, <2>5
    <3>3. Len(accepted') = n + Len(queue') - (IF k = 0 THEN 0 ELSE 1)
      BY <2>2, <2>3, <2>4, <2>5
    <3>4. ASSUME NEW i \in 1 .. Len(queue'), i < k \/ k = 0 PROVE queue'[i] = accepted'[n + i]
      <4>1. CASE i <= Len(queue)
        <5>1. n + i \in 1 .. Len(accepted)
          BY <2>2, <2>3, <2>5, <3>4, <4>1
        <5>2. i \in 1 .. Len(queue)
          BY <2>2, <2>3, <4>1
        <5>3. queue'[i] = queue[i] /\ queue[i] = accepted[n + i]
          BY <2>3, <2>5, <3>4, <5>2
        <5> QED
          BY <2>4, <5>1, <5>3
      <4>2. CASE i = Len(queue) + 1
        <5>1. k = 0 /\ n + i = Len(accepted) + 1
          BY <2>2, <2>5, <3>4, <4>2
        <5> QED
          BY <2>3, <2>4, <4>2, <5>1
      <4> QED
        BY <2>2, <2>3, <4>1, <4>2
    <3>5. ASSUME NEW i \in 1 .. Len(queue'), k # 0, i > k PROVE queue'[i] = accepted'[n + i - 1]
      <4>1. CASE i <= Len(queue)
        <5>1. n + i - 1 \in 1 .. Len(accepted)
          BY <2>2, <2>3, <2>5, <3>5, <4>1
        <5>2. i \in 1 .. Len(queue)
          BY <2>2, <2>3, <4>1
        <5>3. queue'[i] = queue[i] /\ queue[i] = accepted[n + i - 1]
          BY <2>3, <2>5, <3>5, <5>2
        <5> QED
          BY <2>4, <5>1, <5>3
      <4>2. CASE i = Len(queue) + 1
        <5>1. n + i - 1 = Len(accepted) + 1
          BY <2>2, <2>5, <3>5, <4>2
        <5> QED
          BY <2>3, <2>4, <4>2, <5>1
      <4> QED
        BY <2>2, <2>3, <4>1, <4>2
    <3> QED
      BY <1>0, <3>1, <3>2, <3>3, <3>4, <3>5 DEF QueueAt
  <2>7. \A i \in 1 .. n + k - 1 : k # 0 => accepted'[i] = accepted[i]
    BY <2>2, <2>4, <2>5
  <2>8. \A i \in 1 .. Len(recorded') : recorded'[i] = accepted'[i]
    <3>1. \A i \in 1 .. n : i \in 1 .. Len(accepted)
      BY <2>2, <2>5
    <3> QED
      BY <1>0, <2>4, <3>1 DEF ShutdownInv, QueueInv
  <2>9. main' = "flush" => k # 0 /\ flushed' \subseteq {accepted'[i] : i \in 1 .. Len(recorded') + k - 1}
    BY <1>0, <2>1, <2>7
  <2>10. QueueInv'
    <3>1. main' \in {"report", "drain"} => flushed' \subseteq {recorded'[i] : i \in 1 .. Len(recorded')}
      BY <1>0 DEF ShutdownInv, QueueInv
    <3>2. main' \in {"bind", "serve", "begin"} => k = 0
      BY <1>0, <2>1
    <3> QED
      BY <2>6, <2>8, <2>9, <3>1, <3>2 DEF QueueInv
  <2>11. recorded' \in Seq(Calls)
    BY <1>0, <2>2
  <2>12. ShutdownTypeOK' /\ StartedInv' /\ GraceInv'
    BY <1>0, <2>3, <2>4, <2>11, EventsAside
  <2> QED
    BY <2>10, <2>12 DEF ShutdownInv
<1> QED
  BY <1>1, <1>2 DEF Return

\* The event thread takes the next message: the flush is answered only when
\* everything before it is recorded.
LEMMA RecordInv == ASSUME ShutdownInv, Record PROVE ShutdownInv'
<1>0. UNCHANGED <<kind, clock, flow, wait, until, accepted, flushed>>
  BY DEF Record
<1> DEFINE n == Len(recorded)
<1>1. PICK k \in Nat :
        /\ QueueAt(k)
        /\ main \in {"bind", "serve", "begin"} => k = 0
        /\ main = "flush" => /\ k # 0
                             /\ flushed \subseteq {accepted[i] : i \in 1 .. n + k - 1}
  BY DEF ShutdownInv, QueueInv
<1>2. /\ queue \in Seq(Calls \cup {Flush}) /\ accepted \in Seq(Calls) /\ recorded \in Seq(Calls)
      /\ n \in Nat /\ Len(queue) \in Nat \ {0} /\ Len(accepted) \in Nat /\ queue # << >>
      /\ Head(queue) = queue[1] /\ queue[1] \in Calls \cup {Flush}
  BY DEF Record, ShutdownInv, ShutdownTypeOK
<1>3. /\ queue' \in Seq(Calls \cup {Flush}) /\ Len(queue') = Len(queue) - 1
      /\ \A i \in 1 .. Len(queue) - 1 : queue'[i] = queue[i + 1]
  BY <1>2, HeadTailProperties DEF Record
<1>5. /\ k \in 0 .. Len(queue)
      /\ \A i \in 1 .. Len(queue) : queue[i] = Flush <=> i = k
      /\ Len(accepted) = n + Len(queue) - (IF k = 0 THEN 0 ELSE 1)
      /\ \A i \in 1 .. Len(queue) : i < k \/ k = 0 => queue[i] = accepted[n + i]
      /\ \A i \in 1 .. Len(queue) : k # 0 /\ i > k => queue[i] = accepted[n + i - 1]
  BY <1>1 DEF QueueAt
<1>r. \A i \in 1 .. n : recorded[i] = accepted[i]
  BY DEF ShutdownInv, QueueInv
<1>6. CASE k = 1
  <2>1. /\ recorded' = recorded
        /\ main' = (IF main = "flush" THEN "report" ELSE main)
    BY <1>2, <1>5, <1>6 DEF Record
  <2>2. QueueAt(0)'
    <3>1. \A i \in 1 .. Len(queue') : queue'[i] # Flush /\ queue'[i] = accepted[n + i]
      <4> SUFFICES ASSUME NEW i \in 1 .. Len(queue') PROVE queue'[i] # Flush /\ queue'[i] = accepted[n + i]
        OBVIOUS
      <4>1. i + 1 \in 1 .. Len(queue) /\ i + 1 > k /\ i + 1 # k /\ n + (i + 1) - 1 = n + i
        BY <1>2, <1>3, <1>6
      <4> QED
        BY <1>2, <1>3, <1>5, <1>6, <4>1
    <3>2. Len(accepted) = n + Len(queue') - 0 /\ 0 \in 0 .. Len(queue')
      BY <1>2, <1>3, <1>5, <1>6
    <3> QED
      BY <1>0, <2>1, <3>1, <3>2 DEF QueueAt
  <2>3. main' \in {"report", "drain"} => flushed' \subseteq {recorded'[i] : i \in 1 .. Len(recorded')}
    <3>1. CASE main = "flush"
      <4>1. flushed \subseteq {accepted[i] : i \in 1 .. n}
        BY <1>1, <1>2, <1>6, <3>1
      <4> QED
        BY <1>0, <1>r, <2>1, <4>1
    <3>2. CASE main # "flush"
      BY <1>0, <2>1, <3>2 DEF ShutdownInv, QueueInv
    <3> QED
      BY <3>1, <3>2
  <2>4. QueueInv'
    BY <1>0, <1>r, <2>1, <2>2, <2>3 DEF QueueInv
  <2>5. begin[Main] = "done" \/ main # "flush"
    BY DEF ShutdownInv, StartedInv
  <2>6. ShutdownTypeOK' /\ StartedInv' /\ GraceInv'
    BY <1>0, <1>2, <1>3, <2>1, <2>5, EventsAside
  <2> QED
    BY <2>4, <2>6 DEF ShutdownInv
<1>7. CASE k # 1
  <2>1. queue[1] # Flush /\ queue[1] \in Calls /\ queue[1] = accepted[n + 1]
    BY <1>2, <1>5, <1>7
  <2>2. recorded' = Append(recorded, queue[1]) /\ main' = main
    BY <1>2, <2>1 DEF Record
  <2>3. /\ recorded' \in Seq(Calls) /\ Len(recorded') = n + 1
        /\ \A i \in 1 .. n : recorded'[i] = recorded[i]
        /\ recorded'[n + 1] = queue[1]
    BY <1>2, <2>1, <2>2, AppendProperties
  <2> DEFINE j == IF k = 0 THEN 0 ELSE k - 1
  <2>4. j \in Nat /\ (j = 0 <=> k = 0)
    BY <1>7
  <2>5. QueueAt(j)'
    <3>1. j \in 0 .. Len(queue')
      BY <1>2, <1>3, <1>5, <1>7
    <3>2. ASSUME NEW i \in 1 .. Len(queue')
          PROVE  /\ queue'[i] = Flush <=> i = j
                 /\ i < j \/ j = 0 => queue'[i] = accepted[(n + 1) + i]
                 /\ j # 0 /\ i > j => queue'[i] = accepted[(n + 1) + i - 1]
      <4>1. /\ i + 1 \in 1 .. Len(queue) /\ n + (i + 1) = (n + 1) + i
            /\ n + (i + 1) - 1 = (n + 1) + i - 1 /\ queue'[i] = queue[i + 1]
        BY <1>2, <1>3
      <4>2. queue[i + 1] = Flush <=> i + 1 = k
        BY <1>5, <4>1
      <4>3. i < j \/ j = 0 => queue[i + 1] = accepted[n + (i + 1)]
        BY <1>5, <2>4, <4>1
      <4>4. j # 0 /\ i > j => queue[i + 1] = accepted[n + (i + 1) - 1]
        BY <1>5, <2>4, <4>1
      <4>5. i = j <=> i + 1 = k
        BY <1>7
      <4> QED
        BY <4>1, <4>2, <4>3, <4>4, <4>5
    <3>3. Len(accepted) = (n + 1) + Len(queue') - (IF j = 0 THEN 0 ELSE 1)
      BY <1>2, <1>3, <1>5, <2>4
    <3> HIDE DEF j
    <3> QED
      BY <1>0, <2>3, <3>1, <3>2, <3>3 DEF QueueAt
  <2>6. main' = "flush" => j # 0 /\ flushed' \subseteq {accepted'[i] : i \in 1 .. Len(recorded') + j - 1}
    <3>1. k # 0 => Len(recorded') + j - 1 = n + k - 1
      <4>1. n \in Nat /\ Len(recorded') = n + 1
        BY <1>2, <2>3
      <4> HIDE DEF n
      <4> QED
        BY <4>1
    <3> QED
      BY <1>0, <1>1, <2>2, <2>4, <3>1
  <2>7. \A i \in 1 .. Len(recorded') : recorded'[i] = accepted'[i]
    BY <1>0, <1>2, <1>r, <2>1, <2>3
  <2>8. main' \in {"report", "drain"} => flushed' \subseteq {recorded'[i] : i \in 1 .. Len(recorded')}
    <3> SUFFICES ASSUME main' \in {"report", "drain"}, NEW e \in flushed' PROVE e \in {recorded'[i] : i \in 1 .. Len(recorded')}
      OBVIOUS
    <3>1. PICK i \in 1 .. n : e = recorded[i]
      BY <1>0, <2>2 DEF ShutdownInv, QueueInv
    <3> QED
      BY <1>2, <2>3, <3>1
  <2>9. main' \in {"bind", "serve", "begin"} => j = 0
    BY <1>1, <2>2, <2>4
  <2>10. QueueInv'
    <3> HIDE DEF j
    <3> QED
      BY <2>4, <2>5, <2>6, <2>7, <2>8, <2>9 DEF QueueInv
  <2>11. ShutdownTypeOK' /\ StartedInv' /\ GraceInv'
    BY <1>0, <1>2, <1>3, <2>2, <2>3, EventsAside
  <2> QED
    BY <2>10, <2>11 DEF ShutdownInv
<1> QED
  BY <1>6, <1>7

\* The flush is put behind every accepted event, given up, or not begun.
LEMMA FlushInv == ASSUME ShutdownInv, StartFlush \/ FlushTimesOut PROVE ShutdownInv'
<1>0. UNCHANGED <<kind, clock, flow, wait, accepted, recorded>>
  BY DEF StartFlush, FlushTimesOut
<1> DEFINE n == Len(recorded)
<1>1. PICK k \in Nat :
        /\ QueueAt(k)
        /\ main \in {"bind", "serve", "begin"} => k = 0
  BY DEF ShutdownInv, QueueInv
<1>2. /\ queue \in Seq(Calls \cup {Flush}) /\ accepted \in Seq(Calls) /\ recorded \in Seq(Calls)
      /\ n \in Nat /\ Len(queue) \in Nat /\ Len(accepted) \in Nat
      /\ \A i \in 1 .. n : recorded[i] = accepted[i]
  BY DEF ShutdownInv, ShutdownTypeOK, QueueInv
<1>3. CASE queue' = queue /\ main' = "report" /\ flushed' = {}
  <2>1. begin[Main] = "done" /\ main \in {"begin", "flush"} /\ (until' = Deadline \/ until' = until)
    BY <1>3 DEF StartFlush, FlushTimesOut, ShutdownInv, StartedInv
  <2>2. QueueAt(k)'
    BY <1>0, <1>1, <1>3 DEF QueueAt
  <2>3. QueueInv'
    BY <1>0, <1>2, <1>3, <2>2 DEF QueueInv
  <2>4. ShutdownTypeOK' /\ StartedInv' /\ GraceInv'
    BY <1>0, <1>2, <1>3, <2>1, EventsAside
  <2> QED
    BY <2>3, <2>4 DEF ShutdownInv
<1>4. CASE /\ main = "begin" /\ main' = "flush" /\ queue' = Append(queue, Flush) /\ until' = Deadline
           /\ flushed' = {accepted[i] : i \in 1 .. Len(accepted)} /\ begin[Main] = "done"
  <2>1. QueueAt(0)
    BY <1>1, <1>4
  <2>2. /\ \A i \in 1 .. Len(queue) : queue[i] # Flush
        /\ Len(accepted) = n + Len(queue)
        /\ \A i \in 1 .. Len(queue) : queue[i] = accepted[n + i]
    <3>1. /\ \A i \in 1 .. Len(queue) : queue[i] = Flush <=> i = 0
          /\ Len(accepted) = n + Len(queue) - 0
          /\ \A i \in 1 .. Len(queue) : queue[i] = accepted[n + i]
      BY <2>1 DEF QueueAt
    <3>2. \A i \in 1 .. Len(queue) : queue[i] # Flush
      BY <1>2, <3>1
    <3>3. Len(accepted) = n + Len(queue)
      BY <1>2, <3>1
    <3> QED
      BY <3>1, <3>2, <3>3
  <2>3. /\ queue' \in Seq(Calls \cup {Flush}) /\ Len(queue') = Len(queue) + 1
        /\ \A i \in 1 .. Len(queue) : queue'[i] = queue[i]
        /\ queue'[Len(queue) + 1] = Flush
    BY <1>2, <1>4, AppendProperties
  <2>j. PICK j \in Nat : j = Len(queue) + 1
    BY <1>2
  <2>4. QueueAt(j)'
    <3>1. j \in 0 .. Len(queue') /\ j # 0 /\ Len(accepted) = n + Len(queue') - 1
      BY <1>2, <2>2, <2>3, <2>j
    <3>2. ASSUME NEW i \in 1 .. Len(queue')
          PROVE  /\ queue'[i] = Flush <=> i = j
                 /\ i < j => queue'[i] = accepted[n + i]
                 /\ ~(i > j)
      BY <1>2, <2>2, <2>3, <2>j
    <3> QED
      BY <1>0, <3>1, <3>2 DEF QueueAt
  <2>5. j \in Nat /\ j # 0 /\ Len(recorded') + j - 1 = Len(accepted) /\ accepted' = accepted
    BY <1>0, <1>2, <2>2, <2>j
  <2>6. QueueInv'
    BY <1>0, <1>2, <1>4, <2>4, <2>5 DEF QueueInv
  <2>7. ShutdownTypeOK' /\ StartedInv' /\ GraceInv'
    BY <1>0, <1>2, <1>4, <2>3, EventsAside
  <2> QED
    BY <2>6, <2>7 DEF ShutdownInv
<1> QED
  BY <1>3, <1>4 DEF StartFlush, FlushTimesOut

\* Every step keeps the invariant and the budget.
LEMMA ShutdownStepInv ==
  ASSUME ShutdownInv, [ShutdownNext]_shutdownVars
  PROVE  ShutdownInv' /\ (started # NoTime => started' = started /\ clock' <= started + Grace)
<1>1. ASSUME NEW t \in Starters, Trigger(t) PROVE ShutdownInv' /\ UNCHANGED <<started, clock>>
  <2>1. /\ t # Main /\ begin[t] = "no" /\ Enter(t) /\ main' = main /\ UNCHANGED events
        /\ UNCHANGED <<kind, clock, wait, until>> /\ UNCHANGED started
    BY <1>1, NamesAssumption DEF Trigger, Enter, serving
  <2> QED
    BY <2>1, EnterInv
<1>2. ASSUME NEW t \in Starters, BeginShutdown(t)
      PROVE  ShutdownInv' /\ clock' = clock /\ (started # NoTime => started' = started)
  BY <1>2, BeginInv DEF BeginShutdown, SetStarted, NotifyWaiters, CloseExecutor, CancelToken
<1>3. CASE Serve
  <2>1. ShutdownInv'
    BY <1>3, ServeInv, FlushInv DEF Serve
  <2>2. UNCHANGED <<started, clock>>
    BY <1>3 DEF Serve, Bind, BindFails, TransportDone, Expired, StartFlush, FlushTimesOut, ShutdownRuntime,
                Exit, Enter, flow
  <2> QED
    BY <2>1, <2>2 DEF ShutdownInv, GraceInv
<1>4. CASE GraceWait \/ Traffic
  <2>1. ShutdownInv'
    BY <1>4, OthersInv, RecordInv, ReturnInv DEF Traffic
  <2>2. UNCHANGED <<started, clock>>
    BY <1>4 DEF Traffic, GraceWait, CheckStarted, EnableNotified, RecheckStarted, Notified, Connect,
                Disconnect, TransportEnds, TransportFails, SubmitCall, Return, Record, flow
  <2> QED
    BY <2>1, <2>2 DEF ShutdownInv, GraceInv
<1>5. CASE ClockTick
  BY <1>5, ClockTickInv DEF ClockTick, flow
<1>6. CASE UNCHANGED shutdownVars
  <2>1. UNCHANGED <<kind, clock, flow, events, main, until, waiter, woken>>
    BY <1>6 DEF shutdownVars, serving, wait
  <2>2. ShutdownInv' /\ UNCHANGED <<started, clock>>
    BY <2>1, CalmInv DEF ShutdownInv, GraceInv, flow
  <2> QED
    BY <2>2 DEF ShutdownInv, GraceInv
<1> QED
  BY <1>1, <1>2, <1>3, <1>4, <1>5, <1>6 DEF ShutdownNext, ShutdownInv, GraceInv

\* For any number of triggers, calls and events and any grace period: whoever
\* starts the shutdown first, the process is given one grace period and no
\* more; it exits with the executor closed; and a flush that was answered
\* covers every event accepted before it, in order (ShutdownTracker,
\* begin_shutdown, EventDispatcher::flush, execute_mcp_serve).
THEOREM ShutdownIsClean == ShutdownSpec => ExitIsClean
<1>1. ShutdownInv /\ [ShutdownNext]_shutdownVars => ShutdownInv'
  BY ShutdownStepInv
<1>2. ShutdownInv /\ [ShutdownNext]_shutdownVars =>
        [started # NoTime => started' = started /\ clock' <= started + Grace]_shutdownVars
  BY ShutdownStepInv
<1>3. ShutdownInv => ClosedAtExit
  BY DEF ShutdownInv, StartedInv, ClosedAtExit
<1>4. ShutdownInv => FlushCovers
  <2> SUFFICES ASSUME ShutdownInv PROVE FlushCovers
    OBVIOUS
  <2>1. PICK k \in Nat : QueueAt(k)
    BY DEF ShutdownInv, QueueInv
  <2>2. /\ accepted \in Seq(Calls) /\ recorded \in Seq(Calls) /\ Len(recorded) \in Nat
        /\ Len(recorded) <= Len(accepted) /\ \A i \in 1 .. Len(recorded) : recorded[i] = accepted[i]
    BY <2>1 DEF ShutdownInv, ShutdownTypeOK, QueueInv, QueueAt
  <2>3. \A i \in 1 .. Len(recorded) : accepted[i] \in Calls
    BY <2>2, ElementOfSeq
  <2> DEFINE r == SubSeq(accepted, 1, Len(recorded))
  <2>4. r \in Seq(Calls) /\ Len(r) = Len(recorded) /\ \A i \in 1 .. Len(recorded) : r[i] = accepted[i]
    BY <2>2, <2>3, SubSeqProperties
  <2>5. r = recorded
    <3> HIDE DEF r
    <3> QED
      BY <2>2, <2>4, SeqEqual
  <2> QED
    BY <2>5 DEF FlushCovers, ShutdownInv, QueueInv
<1>5. ShutdownSpec => []ShutdownInv
  BY <1>1, ShutdownInitInv, PTL DEF ShutdownSpec
<1> QED
  BY <1>2, <1>3, <1>4, <1>5, PTL DEF ShutdownSpec, ExitIsClean, BudgetShared

-----------------------------------------------------------------------------
(* The job registry.                                                       *)

USE LifecycleAssumption, JobAssumption

JobRecord == [seq : Nat, status : Statuses, draining : BOOLEAN,
              attached : BOOLEAN, completedAt : 0..NotCompleted]

Starts == {"idle", "reserved", "rolling_back", "accepted", "attached",
           "started", "refused", "panicked"}
Tasks == {"none", "observing", "logical", "waiting", "done"}
Cancellers == {"none", "unattached", "attached", "won_unattached",
               "won_attached", "snapshot"}

\* Every variable has its type, sequence numbers unbounded.
JobShape ==
  /\ LifecycleTypeOK
  /\ Jobs \subseteq Exec
  /\ records \in [Jobs -> JobRecord]
  /\ now \in 0..MaxNow
  /\ nextSeq \in Nat
  /\ start \in [Exec -> Starts]
  /\ task \in [Exec -> Tasks]
  /\ observed \in [Exec -> [status : Statuses, draining : BOOLEAN]]
  /\ canceller \in [Exec -> Cancellers]

\* Where job_start, the completion task, job_cancel and the executor are with
\* one job, and whether its record must be there.
Progress(e) ==
  /\ start[e] = "idle" => e \notin Jobs /\ task[e] = "none" /\ phase[e] = "new"
  /\ start[e] = "reserved" => phase[e] = "new"
  /\ start[e] \in {"reserved", "rolling_back", "accepted", "attached"} =>
       e \in Jobs /\ task[e] = "none"
  /\ start[e] = "started" => task[e] # "none" /\ (task[e] # "done" => e \in Jobs)
  /\ start[e] = "refused" => e \notin Jobs /\ task[e] = "none"
  /\ start[e] # "panicked"
  /\ phase[e] \in {"new", "refused"} => answer[e] = "none"
  /\ task[e] = "logical" => answer[e] # "none" /\ observed[e].status = StatusOf(answer[e])
  /\ task[e] = "done" => phase[e] = "signalled"
  /\ canceller[e] \in {"won_unattached", "won_attached"} => answer[e] = "cancelled"

\* What one record says is what the executor decided, and it counts as
\* completed only when its task is done.
RecordOK(j) ==
  /\ records[j].status \in Terminal =>
       answer[j] # "none" /\ records[j].status = StatusOf(answer[j])
  /\ records[j].completedAt # NotCompleted => task[j] = "done" /\ ~records[j].draining
  /\ task[j] \in {"waiting", "done"} => records[j].status \in Terminal

JobInv ==
  /\ JobShape
  /\ \A e \in Exec : Progress(e)
  /\ \A j \in Jobs : RecordOK(j)
  /\ Cardinality(Jobs) <= MaxRecords

-----------------------------------------------------------------------------
(* The helpers on the records map.                                          *)

\* Q is R without some completed records.
Shrinks(R, Q) ==
  /\ DOMAIN Q \subseteq DOMAIN R
  /\ Q = [j \in DOMAIN Q |-> R[j]]
  /\ \A j \in DOMAIN R : R[j].completedAt = NotCompleted => j \in DOMAIN Q

\* Every nonempty set of natural numbers has a least element.
LEMMA LeastNat ==
  ASSUME NEW T \in SUBSET Nat, T # {}
  PROVE  \E m \in T : \A n \in T : m <= n
<1> DEFINE Less == {ss \in Nat \X Nat : ss[1] < ss[2]}
<1>1. IsWellFoundedOn(Less, Nat)
  BY NatLessThanWellFounded DEF OpToRel
<1>2. \E x \in T : \A y \in T : <<y, x>> \notin Less
  <2> HIDE DEF Less
  <2> QED
    BY <1>1, WFMin
<1>3. \A x, y \in Nat : y < x => <<y, x>> \in Less
  OBVIOUS
<1> HIDE DEF Less
<1>4. PICK x \in T : \A y \in T : <<y, x>> \notin Less
  BY <1>2
<1>5. \A y \in T : ~(y < x) /\ x \in Nat /\ y \in Nat
  BY <1>3, <1>4
<1>6. \A y \in T : x <= y
  BY <1>5
<1> QED
  BY <1>6

\* oldest_completed finds a completed record when there is one.
LEMMA OldestIsCompleted ==
  ASSUME NEW R, \A j \in Completed(R) : R[j].completedAt \in Nat /\ R[j].seq \in Nat,
         Completed(R) # {}
  PROVE  Oldest(R) \in Completed(R)
<1> DEFINE Times == {R[j].completedAt : j \in Completed(R)}
<1>1. PICK m \in Times : \A n \in Times : m <= n
  <2>1. Times \in SUBSET Nat /\ Times # {}
    OBVIOUS
  <2> HIDE DEF Times
  <2> QED
    BY <2>1, LeastNat
<1> DEFINE T == {j \in Completed(R) : R[j].completedAt = m}
<1> DEFINE Seqs == {R[j].seq : j \in T}
<1>2. PICK s \in Seqs : \A n \in Seqs : s <= n
  <2>1. Seqs \in SUBSET Nat /\ Seqs # {}
    BY <1>1
  <2> HIDE DEF Seqs
  <2> QED
    BY <2>1, LeastNat
<1>3. PICK j \in T : R[j].seq = s
  BY <1>2
<1>4. \A k \in Completed(R) :
        \/ R[j].completedAt < R[k].completedAt
        \/ R[j].completedAt = R[k].completedAt /\ R[j].seq <= R[k].seq
  <2> TAKE k \in Completed(R)
  <2>1. m <= R[k].completedAt /\ R[j].completedAt = m
    BY <1>1, <1>3
  <2>2. R[k].completedAt = m => s <= R[k].seq
    BY <1>2
  <2> QED
    BY <1>3, <2>1, <2>2
<1> QED
  BY <1>3, <1>4 DEF Oldest

\* cleanup_locked drops only completed records.
LEMMA CleanupShrinks == \A R : Shrinks(R, Cleanup(R))
  BY DEF Cleanup, Keep, Shrinks

\* ... and so do cleanup_locked and the eviction of reserve together.
LEMMA MakeRoomShrinks ==
  ASSUME JobShape
  PROVE  Shrinks(records, MakeRoom(Cleanup(records)))
<1> DEFINE C == Cleanup(records)
<1>1. Shrinks(records, C)
  BY CleanupShrinks
<1>2. \A j \in Completed(C) : C[j].completedAt \in Nat /\ C[j].seq \in Nat
  BY <1>1 DEF Shrinks, Completed, JobShape, JobRecord, NotCompleted
<1>3. Completed(C) # {} => Oldest(C) \in Completed(C)
  BY <1>2, OldestIsCompleted
<1>4. \A S : DOMAIN Keep(C, S) = S /\ Keep(C, S) = [j \in S |-> C[j]]
  BY DEF Keep
<1> HIDE DEF C
<1>5. CASE MakeRoom(C) = C
  BY <1>1, <1>5 DEF C
<1>6. CASE MakeRoom(C) = Keep(C, DOMAIN C \ {Oldest(C)}) /\ Completed(C) # {}
  BY <1>1, <1>3, <1>4, <1>6 DEF Shrinks, Completed, C
<1> QED
  BY <1>5, <1>6 DEF MakeRoom, C

-----------------------------------------------------------------------------
(* JobInv is inductive.                                                     *)

\* The invariant holds before the first job.
LEMMA JobInitInv == JobInit => JobInv
<1> SUFFICES ASSUME JobInit PROVE JobInv
  OBVIOUS
<1>1. Jobs = {} /\ Cardinality(Jobs) = 0
  BY FS_EmptySet DEF JobInit, Jobs
<1>2. records \in [Jobs -> JobRecord]
  BY <1>1 DEF JobInit, Jobs
<1> QED
  BY <1>1, <1>2 DEF JobInit, JobInv, JobShape, LifecycleInit, LifecycleTypeOK, Progress, Starts, Tasks,
                    Cancellers, Statuses

\* Fewer records are never more than the capacity allows.
LEMMA FewerJobs ==
  ASSUME JobInv, Jobs' \subseteq Jobs
  PROVE  Cardinality(Jobs') <= MaxRecords
<1>1. IsFiniteSet(Jobs)
  BY FS_Subset DEF JobInv, JobShape
<1>2. Cardinality(Jobs') <= Cardinality(Jobs) /\ Cardinality(Jobs') \in Nat /\ Cardinality(Jobs) \in Nat
  BY <1>1, FS_Subset, FS_CardinalityType
<1> QED
  BY <1>2 DEF JobInv

\* Dropping completed records disturbs nothing.
LEMMA ShrinkInv ==
  ASSUME JobInv, Shrinks(records, records'),
         UNCHANGED <<lifecycleVars, now, nextSeq, start, task, observed>>,
         canceller' \in [Exec -> Cancellers],
         \A e \in Exec : canceller'[e] \in {"won_unattached", "won_attached"} => canceller[e] = canceller'[e]
  PROVE  JobInv'
<1>1. Jobs' \subseteq Jobs /\ \A j \in Jobs' : records'[j] = records[j]
  BY DEF Shrinks, Jobs
<1>2. JobShape'
  BY <1>1 DEF JobInv, JobShape, Shrinks, Jobs, lifecycleVars, LifecycleTypeOK
<1>3. ASSUME NEW e \in Exec PROVE Progress(e)'
  <2>1. e \in Jobs /\ task[e] # "done" => e \in Jobs'
    BY DEF Shrinks, Jobs, JobInv, RecordOK
  <2> QED
    BY <1>1, <2>1 DEF JobInv, Progress, lifecycleVars
<1>4. ASSUME NEW j \in Jobs' PROVE RecordOK(j)'
  BY <1>1, <1>4 DEF JobInv, RecordOK, lifecycleVars
<1> QED
  BY <1>1, <1>2, <1>3, <1>4, FewerJobs DEF JobInv

\* A snapshot cleans up and changes nothing else.
LEMMA SnapshotInv == JobInv /\ Snapshot => JobInv'
  BY CleanupShrinks, ShrinkInv DEF Snapshot, JobInv, JobShape

\* A cancellation that reads a job's state removes at most expired records.
LEMMA CancelReadInv ==
  ASSUME JobInv, NEW e \in Exec, CancelRead(e) \/ CancelAnswer(e)
  PROVE  JobInv'
<1>1. Shrinks(records, records')
  BY CleanupShrinks DEF CancelRead, CancelAnswer
<1>2. \E c \in {"none", "unattached", "attached", "snapshot"} : canceller' = [canceller EXCEPT ![e] = c]
  BY DEF CancelRead, CancelAnswer, SetCanceller
<1>3. canceller \in [Exec -> Cancellers]
  BY DEF JobInv, JobShape
<1>4. /\ canceller' \in [Exec -> Cancellers]
      /\ \A f \in Exec : canceller'[f] \in {"won_unattached", "won_attached"} => canceller[f] = canceller'[f]
  BY <1>2, <1>3 DEF Cancellers
<1> QED
  BY <1>1, <1>4, ShrinkInv DEF CancelRead, CancelAnswer

\* Time alone keeps the invariant.
LEMMA TickInv == JobInv /\ Tick => JobInv'
  BY DEF Tick, JobInv, JobShape, LifecycleTypeOK, Progress, RecordOK, lifecycleVars, Jobs

\* reserve: the new record is the only one added, and there is room for it.
LEMMA ReserveInv ==
  ASSUME JobInv, NEW e \in Exec, Reserve(e)
  PROVE  JobInv'
<1> DEFINE R == MakeRoom(Cleanup(records))
<1>1. Shrinks(records, R)
  BY MakeRoomShrinks DEF JobInv
<1>2. PICK s \in {"reserved", "refused"} :
        /\ start' = [start EXCEPT ![e] = s]
        /\ s = "reserved" => HasRoom(R) /\ records' = Put(R, e, Fresh(nextSeq))
        /\ s = "refused" => records' = R
  BY DEF Reserve
<1> HIDE DEF R
<1>3. /\ start[e] = "idle" /\ nextSeq' = nextSeq + 1
      /\ UNCHANGED <<lifecycleVars, now, task, observed, canceller>>
  BY DEF Reserve
<1>4. e \notin Jobs /\ task[e] = "none" /\ phase[e] = "new"
  BY <1>3 DEF JobInv, Progress
<1>5. DOMAIN R \subseteq Jobs /\ e \notin DOMAIN R /\ \A j \in DOMAIN R : R[j] = records[j]
  BY <1>1, <1>4 DEF Shrinks, Jobs
<1>6. R \in [DOMAIN R -> JobRecord]
  BY <1>1, <1>5 DEF Shrinks, JobInv, JobShape
<1>7. ASSUME NEW f \in Exec, f \in Jobs, task[f] # "done" PROVE f \in DOMAIN R
  BY <1>1, <1>7 DEF Shrinks, Jobs, JobInv, RecordOK
<1>8. CASE s = "refused"
  <2>1. Jobs' = DOMAIN R /\ \A j \in Jobs' : records'[j] = records[j]
    BY <1>2, <1>5, <1>8 DEF Jobs
  <2>2. JobShape'
    BY <1>2, <1>3, <1>5, <1>6, <1>8, <2>1 DEF JobInv, JobShape, lifecycleVars, LifecycleTypeOK, Starts
  <2>3. ASSUME NEW f \in Exec PROVE Progress(f)'
    <3>1. CASE f = e
      BY <1>2, <1>3, <1>4, <1>5, <1>8, <2>1, <3>1 DEF JobInv, JobShape, Progress, lifecycleVars
    <3>2. CASE f # e
      BY <1>2, <1>3, <1>5, <1>7, <1>8, <2>1, <3>2 DEF JobInv, JobShape, Progress, lifecycleVars
    <3> QED
      BY <3>1, <3>2
  <2>4. ASSUME NEW j \in Jobs' PROVE RecordOK(j)'
    BY <1>3, <1>5, <2>1, <2>4 DEF JobInv, RecordOK, lifecycleVars
  <2> QED
    BY <1>5, <2>1, <2>2, <2>3, <2>4, FewerJobs DEF JobInv
<1>9. CASE s = "reserved"
  <2>0. records' = [j \in DOMAIN R \cup {e} |-> IF j = e THEN Fresh(nextSeq) ELSE R[j]]
    BY <1>2, <1>9 DEF Put
  <2>1. /\ Jobs' = DOMAIN R \cup {e} /\ records'[e] = Fresh(nextSeq)
        /\ \A j \in DOMAIN R : records'[j] = records[j]
    BY <2>0, <1>5 DEF Jobs
  <2>2. Fresh(nextSeq) \in JobRecord
    BY DEF Fresh, JobRecord, JobInv, JobShape, Statuses, NotCompleted
  <2>3. JobShape'
    <3>1. records' \in [Jobs' -> JobRecord] /\ Jobs' \subseteq Exec
      BY <1>5, <1>6, <2>0, <2>1, <2>2 DEF JobInv, JobShape
    <3> QED
      BY <1>2, <1>3, <1>9, <3>1 DEF JobInv, JobShape, lifecycleVars, LifecycleTypeOK, Starts
  <2>4. ASSUME NEW f \in Exec PROVE Progress(f)'
    <3>1. CASE f = e
      BY <1>2, <1>3, <1>4, <1>9, <2>1, <3>1 DEF JobInv, JobShape, Progress, lifecycleVars
    <3>2. CASE f # e
      BY <1>2, <1>3, <1>5, <1>7, <1>9, <2>1, <3>2 DEF JobInv, JobShape, Progress, lifecycleVars
    <3> QED
      BY <3>1, <3>2
  <2>5. ASSUME NEW j \in Jobs' PROVE RecordOK(j)'
    <3>1. CASE j = e
      BY <1>3, <1>4, <2>1, <3>1 DEF RecordOK, Fresh, Terminal
    <3>2. CASE j # e
      BY <1>3, <1>5, <2>1, <2>5, <3>2 DEF JobInv, RecordOK, lifecycleVars
    <3> QED
      BY <3>1, <3>2
  <2>6. Cardinality(Jobs') <= MaxRecords
    <3>1. IsFiniteSet(DOMAIN R)
      BY <1>5, FS_Subset DEF JobInv, JobShape
    <3>2. Cardinality(Jobs') = Cardinality(DOMAIN R) + 1 /\ Cardinality(DOMAIN R) \in Nat
      BY <1>5, <2>1, <3>1, FS_AddElement, FS_CardinalityType
    <3>3. Cardinality(DOMAIN R) < MaxRecords
      BY <1>2, <1>9 DEF HasRoom
    <3> QED
      BY <3>2, <3>3
  <2> QED
    BY <2>3, <2>4, <2>5, <2>6 DEF JobInv
<1> QED
  BY <1>2, <1>8, <1>9

\* try_submit, and the executor on its own: no answer is taken back.
LEMMA SubmitInv ==
  ASSUME JobInv, NEW e \in Exec, Submit(e)
  PROVE  JobInv'
<1>0. UNCHANGED <<Jobs, records, now, nextSeq, task, observed, canceller>>
  BY DEF Submit, Jobs
<1>1. JobShape'
  <2>1. LifecycleTypeOK'
    BY DEF Submit, Accept, Refuse, JobInv, JobShape, LifecycleTypeOK
  <2>2. start' \in [Exec -> Starts]
    BY DEF Submit, JobInv, JobShape, Starts
  <2> QED
    BY <1>0, <2>1, <2>2 DEF JobInv, JobShape
<1>2. ASSUME NEW f \in Exec PROVE Progress(f)'
  BY DEF Submit, Accept, Refuse, JobInv, JobShape, LifecycleTypeOK, Jobs, Progress
<1>3. ASSUME NEW j \in Jobs' PROVE RecordOK(j)'
  BY <1>3 DEF Submit, Accept, Refuse, JobInv, Jobs, RecordOK
<1> QED
  BY <1>1, <1>2, <1>3 DEF JobInv, Submit, Jobs

\* A step of the executor keeps the invariant.
LEMMA ExecutorStepInv == JobInv /\ ExecutorStep => JobInv'
<1> SUFFICES ASSUME JobInv, ExecutorStep PROVE JobInv'
  OBVIOUS
<1>0. UNCHANGED jobVars
  BY DEF ExecutorStep
<1>1. LifecycleTypeOK'
  BY ZenonT(60) DEF ExecutorStep, StopAdmitting, Advance, Decide, Release, Signal, JobInv, JobShape, LifecycleTypeOK
<1>2. /\ \A e \in Exec : answer[e] # "none" => answer'[e] = answer[e]
      /\ \A e \in Exec : phase[e] \in {"new", "refused", "signalled"} => phase'[e] = phase[e]
      /\ \A e \in Exec : phase'[e] \in {"new", "refused"} => phase[e] = phase'[e] /\ answer'[e] = answer[e]
  BY DEF ExecutorStep, StopAdmitting, Advance, Decide, Release, Signal, JobInv, JobShape, LifecycleTypeOK
<1>3. JobShape'
  BY <1>0, <1>1 DEF jobVars, JobInv, JobShape, Jobs
<1>4. ASSUME NEW f \in Exec PROVE Progress(f)'
  BY <1>0, <1>2 DEF jobVars, JobInv, Jobs, Progress
<1>5. ASSUME NEW j \in Jobs' PROVE RecordOK(j)'
  BY <1>0, <1>2, <1>5 DEF jobVars, JobInv, JobShape, Jobs, RecordOK
<1> QED
  BY <1>0, <1>3, <1>4, <1>5 DEF JobInv, jobVars, Jobs

\* rollback removes the reservation of a refused submission.
LEMMA RollbackInv ==
  ASSUME JobInv, NEW e \in Exec, Rollback(e)
  PROVE  JobInv'
<1>1. Jobs' = Jobs \ {e} /\ records' = [j \in Jobs \ {e} |-> records[j]]
  BY DEF Rollback, Without, Keep, Jobs
<1>2. JobShape'
  BY <1>1 DEF Rollback, JobInv, JobShape, LifecycleTypeOK, lifecycleVars, Starts
<1>3. ASSUME NEW f \in Exec PROVE Progress(f)'
  BY <1>1 DEF Rollback, JobInv, JobShape, Progress, lifecycleVars
<1>4. ASSUME NEW j \in Jobs' PROVE RecordOK(j)'
  BY <1>1, <1>4 DEF Rollback, JobInv, RecordOK, lifecycleVars
<1> QED
  BY <1>1, <1>2, <1>3, <1>4, FewerJobs DEF JobInv

\* The attachment of the executor's lifecycle keeps the invariant.
LEMMA AttachLifecycleInv ==
  ASSUME JobInv, NEW e \in Exec, AttachLifecycle(e)
  PROVE  JobInv'
<1>0. records \in [Jobs -> JobRecord] /\ e \in Jobs
  BY DEF AttachLifecycle, JobInv, JobShape, Progress
<1>1. /\ Jobs' = Jobs /\ records' \in [Jobs -> JobRecord]
      /\ \A j \in Jobs : /\ records'[j].status = records[j].status
                         /\ records'[j].draining = records[j].draining
                         /\ records'[j].completedAt = records[j].completedAt
  <2>1. records' = [records EXCEPT ![e] = [@ EXCEPT !.attached = TRUE]]
    BY <1>0 DEF AttachLifecycle
  <2>2. [records[e] EXCEPT !.attached = TRUE] \in JobRecord
    BY <1>0 DEF JobRecord
  <2> QED
    BY <1>0, <2>1, <2>2 DEF JobRecord, Jobs
<1>2. JobShape'
  BY <1>1 DEF AttachLifecycle, JobInv, JobShape, LifecycleTypeOK, lifecycleVars, Starts
<1>3. ASSUME NEW f \in Exec PROVE Progress(f)'
  BY <1>1 DEF AttachLifecycle, JobInv, JobShape, Progress, lifecycleVars
<1>4. ASSUME NEW j \in Jobs' PROVE RecordOK(j)'
  BY <1>1, <1>4 DEF AttachLifecycle, JobInv, RecordOK, lifecycleVars
<1> QED
  BY <1>1, <1>2, <1>3, <1>4 DEF JobInv

\* attach finds its reservation: a record that is not completed is not dropped.
LEMMA AttachSnapshotInv ==
  ASSUME JobInv, NEW e \in Exec, AttachSnapshot(e)
  PROVE  JobInv'
<1>1. Shrinks(records, records')
  BY CleanupShrinks DEF AttachSnapshot
<1>2. start[e] = "attached" /\ e \in Jobs /\ task[e] = "none"
  BY DEF AttachSnapshot, JobInv, Progress
<1>3. ASSUME NEW f \in Exec, f \in Jobs, task[f] # "done" PROVE f \in Jobs'
  BY <1>1, <1>3 DEF Shrinks, Jobs, JobInv, RecordOK
<1>4. /\ start' = [start EXCEPT ![e] = "started"] /\ task' = [task EXCEPT ![e] = "observing"]
      /\ UNCHANGED <<lifecycleVars, now, nextSeq, observed, canceller>>
  BY <1>2, <1>3 DEF AttachSnapshot, Jobs
<1>5. Jobs' \subseteq Jobs /\ \A j \in Jobs' : records'[j] = records[j]
  BY <1>1 DEF Shrinks, Jobs
<1>6. JobShape'
  BY <1>1, <1>4, <1>5 DEF JobInv, JobShape, Shrinks, Jobs, lifecycleVars, LifecycleTypeOK, Starts, Tasks
<1>7. ASSUME NEW f \in Exec PROVE Progress(f)'
  BY <1>2, <1>3, <1>4, <1>5 DEF JobInv, JobShape, Progress, lifecycleVars
<1>8. ASSUME NEW j \in Jobs' PROVE RecordOK(j)'
  BY <1>2, <1>4, <1>5, <1>8 DEF JobInv, JobShape, RecordOK, lifecycleVars
<1> QED
  BY <1>5, <1>6, <1>7, <1>8, FewerJobs DEF JobInv

\* The status of an answer is terminal.
LEMMA StatusOfTerminal == \A a \in Answers : StatusOf(a) \in Terminal
  BY DEF Answers, StatusOf, Terminal, Statuses

\* An observation of a terminal answer keeps the invariant.
LEMMA ObserveInv ==
  ASSUME JobInv, NEW e \in Exec, Observe(e)
  PROVE  JobInv'
<1>1. answer[e] \in Answers /\ StatusOf(answer[e]) \in Statuses
  BY StatusOfTerminal DEF Observe, JobInv, JobShape, LifecycleTypeOK, Terminal
<1>2. /\ observed' \in [Exec -> [status : Statuses, draining : BOOLEAN]]
      /\ observed'[e].status = StatusOf(answer[e])
      /\ \A f \in Exec : f # e => observed'[f] = observed[f]
  BY <1>1 DEF Observe, JobInv, JobShape
<1>3. /\ task[e] = "observing" /\ answer[e] # "none" /\ task' = [task EXCEPT ![e] = "logical"]
      /\ UNCHANGED <<lifecycleVars, records, Jobs, now, nextSeq, start, canceller>>
  BY DEF Observe, Jobs
<1>4. JobShape'
  BY <1>2, <1>3 DEF JobInv, JobShape, LifecycleTypeOK, lifecycleVars, Tasks
<1>5. ASSUME NEW f \in Exec PROVE Progress(f)'
  BY <1>2, <1>3 DEF JobInv, JobShape, Progress, lifecycleVars
<1>6. ASSUME NEW j \in Jobs' PROVE RecordOK(j)'
  BY <1>3, <1>6 DEF JobInv, JobShape, RecordOK, lifecycleVars
<1> QED
  BY <1>3, <1>4, <1>5, <1>6 DEF JobInv

\* complete_logical: a record still running takes what the task has observed.
LEMMA CompleteLogicalInv ==
  ASSUME JobInv, NEW e \in Exec, CompleteLogical(e)
  PROVE  JobInv'
<1>0. /\ records \in [Jobs -> JobRecord] /\ e \in Jobs /\ answer[e] \in Answers
      /\ task[e] = "logical" /\ start[e] = "started" /\ task' = [task EXCEPT ![e] = "waiting"]
      /\ observed[e].status = StatusOf(answer[e]) /\ observed[e].status \in Terminal
      /\ observed[e].status \in Statuses /\ observed[e].draining \in BOOLEAN
      /\ UNCHANGED <<lifecycleVars, now, nextSeq, start, observed, canceller>>
  BY StatusOfTerminal DEF CompleteLogical, JobInv, JobShape, Progress, LifecycleTypeOK, Starts
<1>1. /\ Jobs' = Jobs /\ records' \in [Jobs -> JobRecord]
      /\ \A j \in Jobs : j # e => records'[j] = records[j]
      /\ records'[e].completedAt = records[e].completedAt
      /\ records'[e].status \in Terminal
      /\ records[e].status # "running" => records'[e] = records[e]
      /\ records[e].status = "running" => records'[e].status = observed[e].status
  <2>1. CASE records[e].status = "running"
    <3>1. records' = [records EXCEPT ![e] = [@ EXCEPT !.status = observed[e].status,
                                                      !.draining = observed[e].draining]]
      BY <1>0, <2>1 DEF CompleteLogical
    <3>2. [records[e] EXCEPT !.status = observed[e].status, !.draining = observed[e].draining] \in JobRecord
      BY <1>0 DEF JobRecord
    <3> QED
      BY <1>0, <2>1, <3>1, <3>2 DEF Jobs, JobRecord
  <2>2. CASE records[e].status # "running"
    BY <1>0, <2>2 DEF CompleteLogical, Jobs, JobRecord, Terminal
  <2> QED
    BY <2>1, <2>2
<1>2. JobShape'
  BY <1>0, <1>1 DEF JobInv, JobShape, LifecycleTypeOK, lifecycleVars, Tasks
<1>3. ASSUME NEW f \in Exec PROVE Progress(f)'
  BY <1>0, <1>1 DEF JobInv, JobShape, Progress, lifecycleVars
<1>4. ASSUME NEW j \in Jobs' PROVE RecordOK(j)'
  <2>1. CASE j = e
    <3>1. records[e].completedAt = NotCompleted
      BY <1>0 DEF JobInv, RecordOK
    <3>2. answer'[e] = answer[e] /\ answer[e] # "none"
      BY <1>0 DEF lifecycleVars, Answers
    <3>3. records'[e].status = StatusOf(answer[e])
      <4>1. CASE records[e].status = "running"
        BY <1>0, <1>1, <4>1
      <4>2. CASE records[e].status # "running"
        BY <1>0, <1>1, <4>2 DEF JobInv, RecordOK
      <4> QED
        BY <4>1, <4>2
    <3> QED
      BY <1>0, <1>1, <2>1, <3>1, <3>2, <3>3 DEF RecordOK
  <2>2. CASE j # e
    BY <1>0, <1>1, <1>4, <2>2 DEF JobInv, JobShape, RecordOK, lifecycleVars
  <2> QED
    BY <2>1, <2>2
<1> QED
  BY <1>1, <1>2, <1>3, <1>4 DEF JobInv

\* complete_physical: the record may be dropped from now on.
LEMMA CompletePhysicalInv ==
  ASSUME JobInv, NEW e \in Exec, CompletePhysical(e)
  PROVE  JobInv'
<1> DEFINE R == [records EXCEPT ![e] = [@ EXCEPT !.draining = FALSE, !.completedAt = now]]
<1>0. /\ records \in [Jobs -> JobRecord] /\ e \in Jobs /\ now \in 0..MaxNow
      /\ task[e] = "waiting" /\ phase[e] = "signalled" /\ task' = [task EXCEPT ![e] = "done"]
      /\ start[e] = "started" /\ records[e].status \in Terminal
      /\ UNCHANGED <<lifecycleVars, now, nextSeq, start, observed, canceller>>
  BY DEF CompletePhysical, JobInv, JobShape, Progress, RecordOK, Starts
<1>1. Shrinks(R, records')
  <2>1. records' = Cleanup(R)
    BY <1>0 DEF CompletePhysical
  <2> QED
    BY <2>1, CleanupShrinks
<1>2. /\ R \in [Jobs -> JobRecord] /\ \A j \in Jobs : j # e => R[j] = records[j]
      /\ R[e].status = records[e].status /\ R[e].draining = FALSE
  <2>0. now \in 0..NotCompleted
    BY <1>0 DEF NotCompleted
  <2>1. [records[e] EXCEPT !.draining = FALSE, !.completedAt = now] \in JobRecord
    BY <1>0, <2>0 DEF JobRecord
  <2> QED
    BY <1>0, <2>1 DEF JobRecord
<1> HIDE DEF R
<1>3. /\ Jobs' \subseteq Jobs /\ \A j \in Jobs' : records'[j] = R[j]
      /\ records' \in [Jobs' -> JobRecord]
  BY <1>1, <1>2 DEF Shrinks, Jobs
<1>4. ASSUME NEW f \in Exec, f \in Jobs, f # e, task[f] # "done" PROVE f \in Jobs'
  <2>1. R[f].completedAt = NotCompleted
    BY <1>2, <1>4 DEF JobInv, RecordOK
  <2> QED
    BY <1>1, <1>2, <1>4, <2>1 DEF Shrinks, Jobs
<1>5. JobShape'
  BY <1>0, <1>3 DEF JobInv, JobShape, LifecycleTypeOK, lifecycleVars, Tasks
<1>6. ASSUME NEW f \in Exec PROVE Progress(f)'
  <2>1. CASE f = e
    BY <1>0, <1>3, <2>1 DEF JobInv, JobShape, Progress, lifecycleVars
  <2>2. CASE f # e
    BY <1>0, <1>3, <1>4, <2>2 DEF JobInv, JobShape, Progress, lifecycleVars
  <2> QED
    BY <2>1, <2>2
<1>7. ASSUME NEW j \in Jobs' PROVE RecordOK(j)'
  <2>1. CASE j = e
    BY <1>0, <1>2, <1>3, <1>7, <2>1 DEF JobInv, JobShape, RecordOK, lifecycleVars
  <2>2. CASE j # e
    BY <1>0, <1>2, <1>3, <1>7, <2>2 DEF JobInv, JobShape, RecordOK, lifecycleVars
  <2> QED
    BY <2>1, <2>2
<1> QED
  BY <1>3, <1>5, <1>6, <1>7, FewerJobs DEF JobInv

\* executor.cancel decides the answer only when nobody has.
LEMMA CancelExecutionInv ==
  ASSUME JobInv, NEW e \in Exec, CancelExecution(e)
  PROVE  JobInv'
<1>0. UNCHANGED <<Jobs, records, now, nextSeq, start, task, observed>>
  BY DEF CancelExecution, Jobs
<1>1. /\ LifecycleTypeOK' /\ phase' = phase /\ canceller' \in [Exec -> Cancellers]
      /\ \A f \in Exec : answer[f] # "none" => answer'[f] = answer[f]
      /\ \A f \in Exec : phase[f] # "live" => answer'[f] = answer[f]
      /\ \A f \in Exec : canceller'[f] \in {"won_unattached", "won_attached"} =>
           answer'[f] = "cancelled"
  BY ZenonT(60) DEF CancelExecution, SetCanceller, JobInv, JobShape, LifecycleTypeOK, Answers, Cancellers, lifecycleVars,
         Progress
<1>2. JobShape'
  BY <1>0, <1>1 DEF JobInv, JobShape
<1>3. ASSUME NEW f \in Exec PROVE Progress(f)'
  BY <1>0, <1>1 DEF JobInv, Progress
<1>4. ASSUME NEW j \in Jobs' PROVE RecordOK(j)'
  BY <1>0, <1>1, <1>4 DEF JobInv, JobShape, RecordOK
<1> QED
  BY <1>0, <1>2, <1>3, <1>4 DEF JobInv

\* job_cancel marks a record that is still running with the answer it has won.
LEMMA CancelApplyInv ==
  ASSUME JobInv, NEW e \in Exec, CancelApply(e)
  PROVE  JobInv'
<1>0. /\ records \in [Jobs -> JobRecord] /\ answer[e] = "cancelled"
      /\ canceller' = [canceller EXCEPT ![e] = "snapshot"]
      /\ UNCHANGED <<lifecycleVars, now, nextSeq, start, task, observed>>
  BY DEF CancelApply, JobInv, JobShape, Progress, SetCanceller
<1>1. CASE e \in Jobs /\ records[e].status = "running"
  <2> DEFINE d == canceller[e] = "won_attached" /\ IsDraining(e)
  <2>1. records' = [records EXCEPT ![e] = [@ EXCEPT !.status = "cancelled", !.draining = d]]
    BY <1>0, <1>1 DEF CancelApply
  <2>2. d \in BOOLEAN
    OBVIOUS
  <2>3. [records[e] EXCEPT !.status = "cancelled", !.draining = d] \in JobRecord
    BY <1>0, <1>1, <2>2 DEF JobRecord, Statuses
  <2> HIDE DEF d
  <2>4. /\ Jobs' = Jobs /\ records' \in [Jobs -> JobRecord]
        /\ \A j \in Jobs : j # e => records'[j] = records[j]
        /\ records'[e].completedAt = records[e].completedAt
        /\ records'[e].status = "cancelled"
    BY <1>0, <1>1, <2>1, <2>3 DEF Jobs, JobRecord
  <2>5. JobShape'
    BY <1>0, <2>4 DEF JobInv, JobShape, LifecycleTypeOK, lifecycleVars, Cancellers
  <2>6. ASSUME NEW f \in Exec PROVE Progress(f)'
    BY <1>0, <2>4 DEF JobInv, JobShape, Progress, lifecycleVars
  <2>7. ASSUME NEW j \in Jobs' PROVE RecordOK(j)'
    <3>1. CASE j = e
      <4>1. records[e].completedAt = NotCompleted
        BY <1>1 DEF JobInv, RecordOK, Terminal
      <4>2. "cancelled" = StatusOf("cancelled") /\ "cancelled" \in Terminal
        BY DEF StatusOf, Terminal, Statuses
      <4> QED
        BY <1>0, <2>4, <3>1, <4>1, <4>2 DEF RecordOK, lifecycleVars
    <3>2. CASE j # e
      BY <1>0, <2>4, <2>7, <3>2 DEF JobInv, RecordOK, lifecycleVars
    <3> QED
      BY <3>1, <3>2
  <2> QED
    BY <2>4, <2>5, <2>6, <2>7 DEF JobInv
<1>2. CASE ~(e \in Jobs /\ records[e].status = "running")
  <2>1. records' = records /\ Jobs' = Jobs
    BY <1>2 DEF CancelApply, Jobs
  <2>2. JobShape'
    BY <1>0, <2>1 DEF JobInv, JobShape, LifecycleTypeOK, lifecycleVars, Cancellers
  <2>3. ASSUME NEW f \in Exec PROVE Progress(f)'
    BY <1>0, <2>1 DEF JobInv, JobShape, Progress, lifecycleVars
  <2>4. ASSUME NEW j \in Jobs' PROVE RecordOK(j)'
    BY <1>0, <2>1, <2>4 DEF JobInv, RecordOK, lifecycleVars
  <2> QED
    BY <2>1, <2>2, <2>3, <2>4 DEF JobInv
<1> QED
  BY <1>1, <1>2

\* Every step keeps the invariant.
LEMMA JobStepInv == JobInv /\ [JobNext]_vars => JobInv'
<1> SUFFICES ASSUME JobInv, [JobNext]_vars PROVE JobInv'
  OBVIOUS
<1>1. CASE UNCHANGED vars
  BY <1>1 DEF vars, jobVars, lifecycleVars, JobInv, JobShape, LifecycleTypeOK, Jobs, Progress, RecordOK
<1>2. ASSUME NEW e \in Exec, StartStep(e) PROVE JobInv'
  BY <1>2, ReserveInv, SubmitInv, RollbackInv, AttachLifecycleInv, AttachSnapshotInv DEF StartStep
<1>3. ASSUME NEW e \in Exec, TaskStep(e) PROVE JobInv'
  BY <1>3, ObserveInv, CompleteLogicalInv, CompletePhysicalInv DEF TaskStep
<1>4. ASSUME NEW e \in Exec, CancelStep(e) PROVE JobInv'
  BY <1>4, CancelReadInv, CancelExecutionInv, CancelApplyInv DEF CancelStep
<1> QED
  BY <1>1, <1>2, <1>3, <1>4, SnapshotInv, TickInv, ExecutorStepInv DEF JobNext

-----------------------------------------------------------------------------

\* No live record is evicted and attach always finds its reservation, no
\* capacity is lost to a refused start, and no record contradicts the
\* executor (JobRegistry in jobs.rs), whatever job_start, job_status,
\* job_cancel, the completion tasks and the clock do in whatever order.
THEOREM RecordsKept == JobSpec => []RecordsSound
<1>1. JobInv => RecordsSound
  <2> SUFFICES ASSUME JobInv PROVE RecordsSound
    OBVIOUS
  <2>1. LiveNeverEvicted
    BY DEF JobInv, Progress, LiveNeverEvicted
  <2>2. CapacityKept
    BY DEF JobInv, Progress, CapacityKept
  <2>3. RecordTruthful
    BY DEF JobInv, JobShape, Progress, RecordOK, RecordTruthful, Completed, Jobs
  <2> QED
    BY <2>1, <2>2, <2>3 DEF RecordsSound
<1> QED
  BY <1>1, JobInitInv, JobStepInv, PTL DEF JobSpec

\* A finished job keeps its status and never starts to drain again, whichever
\* of the completion task and a racing job_cancel writes last.
THEOREM ResultsRepeatable == JobSpec => TerminalIsStable
<1> DEFINE Stable(j) == records[j].status \in Terminal /\ j \in Jobs'
                        => records'[j].status = records[j].status /\ (records'[j].draining => records[j].draining)
<1>1. ASSUME JobInv, [JobNext]_vars PROVE \A j \in Jobs : Stable(j)
  <2> SUFFICES ASSUME NEW j \in Jobs, records[j].status \in Terminal, j \in Jobs'
               PROVE  records'[j].status = records[j].status /\ (records'[j].draining => records[j].draining)
    OBVIOUS
  <2>0. records \in [Jobs -> JobRecord] /\ records[j].status # "running" /\ j \in Exec
    BY <1>1 DEF JobInv, JobShape, Terminal
  <2>1. CASE Shrinks(records, records')
    BY <2>1 DEF Shrinks, Jobs
  <2>2. CASE UNCHANGED records
    BY <2>2
  <2>3. ASSUME NEW e \in Exec, Reserve(e) PROVE records'[j] = records[j]
    <3> DEFINE R == MakeRoom(Cleanup(records))
    <3>1. Shrinks(records, R)
      BY <1>1, MakeRoomShrinks DEF JobInv
    <3>2. records' = R \/ records' = Put(R, e, Fresh(nextSeq))
      BY <2>3 DEF Reserve
    <3> HIDE DEF R
    <3>3. j # e
      BY <1>1, <2>3 DEF Reserve, JobInv, Progress
    <3> QED
      BY <3>1, <3>2, <3>3 DEF Shrinks, Put, Jobs
  <2>4. ASSUME NEW e \in Exec, Rollback(e) PROVE records'[j] = records[j]
    BY <2>4 DEF Rollback, Without, Keep, Jobs
  <2>5. ASSUME NEW e \in Exec, AttachLifecycle(e)
        PROVE  records'[j].status = records[j].status /\ records'[j].draining = records[j].draining
    BY <2>0, <2>5 DEF AttachLifecycle, Jobs, JobRecord
  <2>6. ASSUME NEW e \in Exec, CompleteLogical(e) \/ CancelApply(e) PROVE records'[j] = records[j]
    BY <2>0, <2>6 DEF CompleteLogical, CancelApply, Jobs
  <2>7. ASSUME NEW e \in Exec, CompletePhysical(e)
        PROVE  records'[j].status = records[j].status /\ (records'[j].draining => records[j].draining)
    <3> DEFINE R == IF e \in Jobs THEN [records EXCEPT ![e].draining = FALSE, ![e].completedAt = now] ELSE records
    <3>1. Shrinks(R, records')
      BY <2>7, CleanupShrinks DEF CompletePhysical
    <3>2. records'[j] = R[j]
      BY <3>1 DEF Shrinks, Jobs
    <3>3. j # e => R[j] = records[j]
      BY <2>0
    <3>4. j = e => R[j].status = records[j].status /\ R[j].draining = FALSE
      BY <2>0 DEF JobRecord
    <3> QED
      BY <3>2, <3>3, <3>4
  <2>8. ASSUME NEW e \in Exec, StartStep(e)
        PROVE  records'[j].status = records[j].status /\ (records'[j].draining => records[j].draining)
    <3>1. Submit(e) => UNCHANGED records
      BY DEF Submit
    <3>2. AttachSnapshot(e) => Shrinks(records, records')
      BY CleanupShrinks DEF AttachSnapshot
    <3> QED
      BY <2>1, <2>2, <2>3, <2>4, <2>5, <2>8, <3>1, <3>2 DEF StartStep
  <2>9. ASSUME NEW e \in Exec, TaskStep(e) \/ CancelStep(e)
        PROVE  records'[j].status = records[j].status /\ (records'[j].draining => records[j].draining)
    <3>1. Observe(e) \/ CancelExecution(e) => UNCHANGED records
      BY DEF Observe, CancelExecution
    <3>2. CancelRead(e) \/ CancelAnswer(e) => Shrinks(records, records')
      BY CleanupShrinks DEF CancelRead, CancelAnswer
    <3> QED
      BY <2>1, <2>2, <2>6, <2>7, <2>9, <3>1, <3>2 DEF TaskStep, CancelStep
  <2>10. Snapshot => Shrinks(records, records')
    BY CleanupShrinks DEF Snapshot
  <2>11. Tick \/ ExecutorStep \/ UNCHANGED vars => UNCHANGED records
    BY DEF Tick, ExecutorStep, vars, jobVars
  <2> QED
    BY <1>1, <2>1, <2>2, <2>8, <2>9, <2>10, <2>11 DEF JobNext
<1>2. JobInv /\ [JobNext]_vars =>
        [\A j \in Jobs : records[j].status \in Terminal /\ j \in DOMAIN records'
           => /\ records'[j].status = records[j].status
              /\ records'[j].draining => records[j].draining]_vars
  BY <1>1 DEF Jobs
<1> QED
  BY <1>2, JobInitInv, JobStepInv, PTL DEF JobSpec, TerminalIsStable

\* The registry uses the executor within its interface: what the server does
\* with jobs is a behaviour ExecutionLifecycle allows, so whatever Executor's
\* refinement promises its clients holds under the registry as well.
THEOREM WithinLifecycle == JobSpec => LifecycleSpec
<1>1. JobInit => LifecycleInit
  BY DEF JobInit
<1>2. ASSUME JobInv, [JobNext]_vars PROVE [LifecycleNext]_lifecycleVars
  <2>1. ASSUME NEW e \in Exec, StartStep(e) PROVE [LifecycleNext]_lifecycleVars
    BY <2>1 DEF StartStep, Reserve, Submit, Rollback, AttachLifecycle, AttachSnapshot, LifecycleNext
  <2>2. ASSUME NEW e \in Exec, TaskStep(e) PROVE [LifecycleNext]_lifecycleVars
    BY <2>2 DEF TaskStep, Observe, CompleteLogical, CompletePhysical
  <2>3. ASSUME NEW e \in Exec, CancelStep(e) PROVE [LifecycleNext]_lifecycleVars
    <3>1. CASE CancelExecution(e)
      <4>1. Decide(e) \/ UNCHANGED lifecycleVars
        BY <3>1 DEF CancelExecution, Decide, Answers
      <4> QED
        BY <4>1 DEF LifecycleNext, Advance
    <3> QED
      BY <2>3, <3>1 DEF CancelStep, CancelRead, CancelApply, CancelAnswer
  <2>4. CASE ExecutorStep
    BY <2>4 DEF ExecutorStep, LifecycleNext
  <2> QED
    BY <1>2, <2>1, <2>2, <2>3, <2>4 DEF JobNext, Snapshot, Tick, vars
<1> QED
  BY <1>1, <1>2, JobInitInv, JobStepInv, PTL DEF JobSpec, LifecycleSpec

==============================================================================
