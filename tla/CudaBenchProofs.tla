--------------------------- MODULE CudaBenchProofs ---------------------------
(***************************************************************************)
(* The CUDA benchmark, for every set of requests, every width of its       *)
(* counters, every interleaving of the host with the device and every      *)
(* failing call: memory safety, the random streams, the record and status  *)
(* it returns, the poisoned payload of a graph and what a sample covers.   *)
(*                                                                         *)
(* Four invariants, each inductive relative to the ones before it:         *)
(*   IInv  types, the words of every run, memory, the end;                 *)
(*   OInv  the order of calls and operations, by rank;                     *)
(*   DInv  what the buffers hold, given what is still pending;             *)
(*   TInv  what the log, the events and the samples hold.                  *)
(***************************************************************************)
EXTENDS CudaBench, RunInvocationProofs, SequenceTheorems

OtherCalls == {"create", "host_alloc", "malloc", "stream_sync", "device_sync", "poison",
               "begin_capture", "end_capture", "instantiate", "launch"}

\* The operations that draw only words of W.
Ops(W) ==
  [op : {"memset", "k3"}]
  \cup [op : {"record"}, event : Events]
  \cup [op : {"upload"}, to : {"values", "scale", "words"}]
  \cup [op : {"download"}, what : {"payload", "scale", "status", "flags"}]
  \cup [op : {"k1"}, to : {"k1Scale", "scale"}]
  \cup [op : {"k2"}, words : W]

\* The calls that a request may lead to, with such operations; only a graph
\* benchmark captures.
CallNames ==
  IF in.boundary = "resident_graph" THEN OtherCalls ELSE OtherCalls \ {"begin_capture"}
Calls(W) == [call : CallNames] \cup [call : {"enqueue"}, op : Ops(W)]

\* The words of run n; 0 is the preflight.
WordsOf(n) ==
  IF n = 0 THEN Words(in.base)
  ELSE Words(RunInvocationId(in.base, in.warmups, in.reps, n - 1, in.step))
\* Operations with the run they belong to, up to run n.
Entries(n) == UNION {[op : Ops({WordsOf(m)}), run : {m}] : m \in 0..n}

\* Calls that leave device memory alone.
QuietCalls == [call : CallNames \ {"poison"}]
NeedsMemory(c) == c.call \in {"enqueue", "poison"}
\* A sequence of calls that allocates before it uses device memory.
MallocFirst(s) ==
  \A i \in 1..Len(s) :
    NeedsMemory(s[i]) => \E j \in 1..(i - 1) : s[j].call = "malloc"

DeviceFields == {"values", "scale", "k1Scale", "words", "status", "flags", "codes", "payload"}
HostFields == {"payload", "scale", "status", "flags"}
DeviceStatuses == {"junk", "OK", "SCALE_OVERFLOW", "NONFINITE"}

-----------------------------------------------------------------------------
(* The inductive invariant *)

TypeOK ==
  /\ in \in Inputs
  /\ capturing \in BOOLEAN /\ allocated \in BOOLEAN
  /\ index \in Nat /\ index <= Total
  /\ DOMAIN dev = DeviceFields /\ dev.status \in DeviceStatuses
  /\ DOMAIN host = HostFields /\ host.status \in DeviceStatuses

\* Only an accepted request gets beyond the argument checks.
Accepted ==
  /\ (index # 0 \/ pc \notin {"start", "done"}) => Refusal = "OK"
  /\ pc \in {"start", "setup"} => index = 0
  /\ status = "ID_OVERFLOW" => Refusal = "ID_OVERFLOW"

\* What is still to be called, captured, queued or done uses the words of its
\* run.
WordsState ==
  /\ todo \in Seq(Calls({WordsOf(index)}))
  /\ graph \in Seq(Ops({Words(in.base)}))
  /\ stream \in Seq(Entries(index)) /\ log \in Seq(Entries(index))
  /\ capturing \/ graph # <<>> => in.boundary = "resident_graph" /\ Refusal = "OK"

\* Nothing reaches the device before its memory is there.
MemoryState ==
  /\ ~allocated => stream = <<>> /\ dma = {} /\ graph = <<>>
  /\ Empty => todo \in Seq(QuietCalls)
  /\ (~Empty /\ ~allocated /\ pc \notin {"start", "destroy", "done"}) =>
       MallocFirst(todo) /\ \E j \in 1..Len(todo) : todo[j].call = "malloc"

\* The end: no calls are left, and what is freed is not in use.
EndState ==
  /\ pc \in {"start", "destroy", "done"} => todo = <<>>
  /\ freed # {} => pc \in {"destroy", "done"} /\ Idle

IInv == TypeOK /\ Accepted /\ WordsState /\ MemoryState /\ EndState

-----------------------------------------------------------------------------
(* Sequences of calls *)

\* What is known of an operation of each kind.
LEMMA OpFacts ==
  ASSUME NEW W, NEW o \in Ops(W)
  PROVE  /\ o.op = "k2" => o.words \in W
         /\ o.op = "k1" => o.to \in {"k1Scale", "scale"}
         /\ o.op = "upload" => o.to \in {"values", "scale", "words"}
         /\ o.op = "download" => o.what \in HostFields
BY DEF Ops, HostFields

\* A call is an operation for the stream, or one of the others.
LEMMA CallFacts ==
  ASSUME NEW W, NEW c \in Calls(W)
  PROVE  /\ c.call \in CallNames \cup {"enqueue"}
         /\ c.call = "enqueue" => c.op \in Ops(W)
<1>1. "enqueue" \notin CallNames
  BY DEF CallNames, OtherCalls
<1> QED
  BY <1>1 DEF Calls

\* The constructors of calls.
LEMMA CallMembers ==
  ASSUME NEW W
  PROVE  /\ \A e \in Events : Record(e) \in Calls(W)
         /\ \A to \in {"values", "scale", "words"} : Upload(to) \in Calls(W)
         /\ \A what \in HostFields : Download(what) \in Calls(W)
         /\ \A to \in {"k1Scale", "scale"} : Enqueue([op |-> "k1", to |-> to]) \in Calls(W)
         /\ \A w \in W : Enqueue([op |-> "k2", words |-> w]) \in Calls(W)
         /\ Enqueue([op |-> "memset"]) \in Calls(W)
         /\ Enqueue([op |-> "k3"]) \in Calls(W)
         /\ \A n \in CallNames : Call(n) \in Calls(W)
<1>1. \A o \in Ops(W) : Enqueue(o) \in Calls(W)
  BY DEF Calls, Enqueue
<1>2. /\ \A e \in Events : [op |-> "record", event |-> e] \in Ops(W)
      /\ \A to \in {"values", "scale", "words"} : [op |-> "upload", to |-> to] \in Ops(W)
      /\ \A what \in HostFields : [op |-> "download", what |-> what] \in Ops(W)
      /\ \A to \in {"k1Scale", "scale"} : [op |-> "k1", to |-> to] \in Ops(W)
      /\ \A w \in W : [op |-> "k2", words |-> w] \in Ops(W)
      /\ [op |-> "memset"] \in Ops(W) /\ [op |-> "k3"] \in Ops(W)
  BY DEF Ops, HostFields
<1>3. \A n \in CallNames : Call(n) \in Calls(W)
  BY DEF Calls, Call
<1> QED
  BY <1>1, <1>2, <1>3 DEF Record, Upload, Download

\* A conditional piece stays within a set of calls.
LEMMA WhenSeq ==
  ASSUME NEW S, NEW s \in Seq(S), NEW c
  PROVE  When(c, s) \in Seq(S)
BY DEF When
\* Two sequences of calls make one.
LEMMA ConcatSeq ==
  ASSUME NEW S, NEW s \in Seq(S), NEW t \in Seq(S)
  PROVE  s \o t \in Seq(S)
OBVIOUS

\* The resident pipeline draws the words it is given.
LEMMA ResidentCalls ==
  ASSUME NEW W, NEW w \in W, NEW timed
  PROVE  EnqueueResident(w, timed) \in Seq(Calls(W))
<1> DEFINE S == Calls(W)
           to == IF Prescribed THEN "k1Scale" ELSE "scale"
           s1 == <<Enqueue([op |-> "memset"])>>
           s2 == <<Record("k1_start")>>
           s3 == <<Enqueue([op |-> "k1", to |-> to])>>
           s4 == <<Record("k1_stop"), Record("k2_start")>>
           s5 == <<Enqueue([op |-> "k2", words |-> w])>>
           s6 == <<Record("k2_stop"), Record("k3_start")>>
           s7 == <<Enqueue([op |-> "k3"])>>
           s8 == <<Record("k3_stop")>>
<1>1. to \in {"k1Scale", "scale"}
  OBVIOUS
<1>2. EnqueueResident(w, timed) =
        s1 \o When(timed, s2) \o s3 \o When(timed, s4) \o s5 \o When(timed, s6) \o s7
           \o When(timed, s8)
  BY Zenon DEF EnqueueResident
<1> HIDE DEF to
<1>3. s1 \in Seq(S) /\ s3 \in Seq(S) /\ s5 \in Seq(S) /\ s7 \in Seq(S)
  <2>1. /\ Enqueue([op |-> "memset"]) \in S /\ Enqueue([op |-> "k1", to |-> to]) \in S
        /\ Enqueue([op |-> "k2", words |-> w]) \in S /\ Enqueue([op |-> "k3"]) \in S
    BY <1>1, CallMembers
  <2> HIDE DEF S
  <2> QED
    BY <2>1
<1>4. s2 \in Seq(S) /\ s4 \in Seq(S) /\ s6 \in Seq(S) /\ s8 \in Seq(S)
  <2>1. /\ Record("k1_start") \in S /\ Record("k1_stop") \in S /\ Record("k2_start") \in S
        /\ Record("k2_stop") \in S /\ Record("k3_start") \in S /\ Record("k3_stop") \in S
    BY CallMembers DEF Events
  <2> HIDE DEF S
  <2> QED
    BY <2>1
<1> HIDE DEF S, s1, s2, s3, s4, s5, s6, s7, s8
<1>5. /\ When(timed, s2) \in Seq(S) /\ When(timed, s4) \in Seq(S)
      /\ When(timed, s6) \in Seq(S) /\ When(timed, s8) \in Seq(S)
  BY <1>4, WhenSeq
<1>6. s1 \o When(timed, s2) \o s3 \o When(timed, s4) \in Seq(S)
  BY <1>3, <1>5, ConcatSeq
<1>7. s1 \o When(timed, s2) \o s3 \o When(timed, s4) \o s5 \o When(timed, s6) \in Seq(S)
  BY <1>3, <1>5, <1>6, ConcatSeq
<1>8. s1 \o When(timed, s2) \o s3 \o When(timed, s4) \o s5 \o When(timed, s6) \o s7
         \o When(timed, s8) \in Seq(S)
  BY <1>3, <1>5, <1>7, ConcatSeq
<1> QED
  BY <1>2, <1>8 DEF S

\* The pipeline of a preflight or a run.
LEMMA PipelineCalls ==
  ASSUME NEW W, NEW id, Words(id) \in W, NEW boundary, NEW copyOutputs, NEW inspect
  PROVE  BenchPipeline(id, boundary, copyOutputs, inspect) \in Seq(Calls(W))
<1> DEFINE S == Calls(W)
           s1 == <<Record("h2d_start"), Upload("values"), Record("h2d_stop")>>
           s2 == EnqueueResident(Words(id), TRUE)
           s3 == <<Record("d2h_start"), Download("payload"), Download("scale"),
                   Record("d2h_stop")>>
           s4 == <<Download("status"), Download("flags")>>
           s5 == <<Call("device_sync")>>
<1>1. BenchPipeline(id, boundary, copyOutputs, inspect) =
        When(boundary = "host_origin", s1) \o s2 \o When(copyOutputs, s3)
          \o When(inspect, s4) \o s5
  BY Zenon DEF BenchPipeline
<1>2. s1 \in Seq(S) /\ s3 \in Seq(S) /\ s4 \in Seq(S) /\ s5 \in Seq(S)
  <2>1. /\ Record("h2d_start") \in S /\ Record("h2d_stop") \in S /\ Record("d2h_start") \in S
        /\ Record("d2h_stop") \in S
    BY CallMembers DEF Events
  <2>2. /\ Upload("values") \in S /\ Download("payload") \in S /\ Download("scale") \in S
        /\ Download("status") \in S /\ Download("flags") \in S /\ Call("device_sync") \in S
    BY CallMembers DEF HostFields, CallNames, OtherCalls
  <2> HIDE DEF S
  <2> QED
    BY <2>1, <2>2
<1>3. s2 \in Seq(S)
  BY ResidentCalls
<1> HIDE DEF S, s1, s2, s3, s4, s5
<1>4. /\ When(boundary = "host_origin", s1) \in Seq(S) /\ When(copyOutputs, s3) \in Seq(S)
      /\ When(inspect, s4) \in Seq(S)
  BY <1>2, WhenSeq
<1>5. When(boundary = "host_origin", s1) \o s2 \o When(copyOutputs, s3) \in Seq(S)
  BY <1>3, <1>4, ConcatSeq
<1>6. When(boundary = "host_origin", s1) \o s2 \o When(copyOutputs, s3)
        \o When(inspect, s4) \o s5 \in Seq(S)
  BY <1>2, <1>4, <1>5, ConcatSeq
<1> QED
  BY <1>1, <1>6 DEF S

\* The capture of a graph benchmark, which asks for no memory when the input is
\* empty.
LEMMA CaptureCalls ==
  ASSUME NEW W, in.boundary = "resident_graph",
         Words(RunInvocationId(in.base, in.warmups, in.reps, in.warmups, in.step)) \in W
  PROVE  /\ Capture \in Seq(Calls(W))
         /\ Empty => Capture \in Seq(QuietCalls)
<1> DEFINE S == Calls(W)
           w == Words(RunInvocationId(in.base, in.warmups, in.reps, in.warmups, in.step))
           p == <<Call("poison"), Call("device_sync")>>
           s1 == <<Call("begin_capture")>>
           s2 == EnqueueResident(w, FALSE)
           s3 == <<Call("end_capture"), Call("instantiate")>>
<1>1. Capture = When(~Empty, p) \o s1 \o When(~Empty, s2) \o s3
  BY Zenon DEF Capture, Poison
<1>2. p \in Seq(S) /\ s1 \in Seq(S) /\ s3 \in Seq(S)
  <2>1. /\ Call("poison") \in S /\ Call("device_sync") \in S /\ Call("begin_capture") \in S
        /\ Call("end_capture") \in S /\ Call("instantiate") \in S
    BY CallMembers DEF CallNames, OtherCalls
  <2> HIDE DEF S
  <2> QED
    BY <2>1
<1>3. s2 \in Seq(S)
  BY ResidentCalls
<1>4. Empty => Capture \in Seq(QuietCalls)
  <2> SUFFICES ASSUME Empty PROVE Capture \in Seq(QuietCalls)
    OBVIOUS
  <2> DEFINE Q == QuietCalls
  <2>1. When(~Empty, p) = <<>> /\ When(~Empty, s2) = <<>>
    BY DEF When
  <2>2. s1 \in Seq(Q) /\ s3 \in Seq(Q) /\ <<>> \in Seq(Q)
    <3>1. Call("begin_capture") \in Q /\ Call("end_capture") \in Q /\ Call("instantiate") \in Q
      BY DEF QuietCalls, Call, CallNames, OtherCalls
    <3> HIDE DEF Q
    <3> QED
      BY <3>1
  <2> HIDE DEF Q, s1, s2, s3, p
  <2>3. <<>> \o s1 \o <<>> \o s3 \in Seq(Q)
    BY <2>2, ConcatSeq
  <2> QED
    BY <1>1, <2>1, <2>3 DEF Q
<1> HIDE DEF S, p, s1, s2, s3
<1>5. When(~Empty, p) \in Seq(S) /\ When(~Empty, s2) \in Seq(S)
  BY <1>2, <1>3, WhenSeq
<1>6. When(~Empty, p) \o s1 \o When(~Empty, s2) \o s3 \in Seq(S)
  BY <1>2, <1>5, ConcatSeq
<1> QED
  BY <1>1, <1>4, <1>6 DEF S

\* Calls that come after a malloc may use memory.
LEMMA MallocInFront ==
  ASSUME NEW S, NEW a \in Seq(S), NEW t \in Seq(S), a \in Seq(QuietCalls),
         Len(t) >= 1, t[1].call = "malloc", NEW s, s = a \o t
  PROVE  MallocFirst(s) /\ \E j \in 1..Len(s) : s[j].call = "malloc"
<1> DEFINE n == Len(a)
           k == Len(t)
<1>1. n \in Nat /\ k \in Nat
  OBVIOUS
<1>2. \A i \in 1..n : ~NeedsMemory(a[i])
  <2>1. \A c \in QuietCalls : ~NeedsMemory(c)
    BY DEF QuietCalls, NeedsMemory, CallNames, OtherCalls
  <2> QED
    BY <2>1
<1>3. /\ Len(s) = n + k /\ \A i \in 1..n : s[i] = a[i]
      /\ s[n + 1] = t[1]
  BY ConcatProperties
<1> HIDE DEF n, k
<1>4. s[n + 1].call = "malloc" /\ n + 1 \in 1..Len(s)
  BY <1>1, <1>3 DEF k
<1>5. ASSUME NEW i \in 1..Len(s), NeedsMemory(s[i])
      PROVE  \E j \in 1..(i - 1) : s[j].call = "malloc"
  <2>1. i \notin 1..n
    BY <1>2, <1>3, <1>5
  <2>2. i # n + 1
    BY <1>4, <1>5 DEF NeedsMemory
  <2>3. n + 1 \in 1..(i - 1)
    BY <1>1, <1>3, <2>1, <2>2
  <2> QED
    BY <1>4, <2>3
<1> QED
  BY <1>4, <1>5 DEF MallocFirst

\* The first call stays the first one.
LEMMA FirstStays ==
  ASSUME NEW S, NEW s \in Seq(S), NEW t \in Seq(S), Len(s) >= 1
  PROVE  s \o t \in Seq(S) /\ Len(s \o t) >= 1 /\ (s \o t)[1] = s[1]
BY ConcatProperties

\* The set-up allocates before it uploads.
LEMMA SetupCalls ==
  ASSUME NEW W
  PROVE  /\ Setup \in Seq(Calls(W))
         /\ Empty => Setup \in Seq(QuietCalls)
         /\ ~Empty => MallocFirst(Setup) /\ \E j \in 1..Len(Setup) : Setup[j].call = "malloc"
<1> DEFINE S == Calls(W)
           Q == QuietCalls
           c == in.boundary = "host_origin" /\ in.pinned /\ ~Empty
           a1 == <<Call("create"), Call("host_alloc"), Call("host_alloc")>>
           a2 == <<Call("host_alloc")>>
           m == Call("malloc")
           u1 == <<Upload("scale")>>
           u2 == <<Upload("words")>>
           u3 == <<Upload("values")>>
           u4 == <<Call("stream_sync")>>
           w1 == When(Prescribed, u1)
           w2 == When(in.givenWords, u2)
           w3 == When(in.boundary # "host_origin", u3)
           a == a1 \o When(c, a2)
           t == <<m>> \o w1 \o w2 \o w3 \o u4
<1>1. Setup = a \o When(~Empty, t)
  BY Zenon DEF Setup
<1>2. /\ a1 \in Seq(S) /\ a2 \in Seq(S) /\ m \in S /\ m.call = "malloc"
      /\ u1 \in Seq(S) /\ u2 \in Seq(S) /\ u3 \in Seq(S) /\ u4 \in Seq(S)
  <2>1. /\ Call("create") \in S /\ Call("host_alloc") \in S /\ Call("malloc") \in S
        /\ Call("stream_sync") \in S
    BY CallMembers DEF CallNames, OtherCalls
  <2>2. Upload("scale") \in S /\ Upload("words") \in S /\ Upload("values") \in S
    BY CallMembers
  <2>3. Call("malloc").call = "malloc"
    BY DEF Call
  <2> HIDE DEF S
  <2> QED
    BY <2>1, <2>2, <2>3
<1>3. a1 \in Seq(Q) /\ a2 \in Seq(Q)
  <2>1. Call("create") \in Q /\ Call("host_alloc") \in Q
    BY DEF QuietCalls, Call, CallNames, OtherCalls
  <2> HIDE DEF Q
  <2> QED
    BY <2>1
<1> HIDE DEF S, Q, c, a1, a2, m, u1, u2, u3, u4
<1>4. a \in Seq(S) /\ a \in Seq(Q)
  BY <1>2, <1>3, WhenSeq, ConcatSeq
<1>5. w1 \in Seq(S) /\ w2 \in Seq(S) /\ w3 \in Seq(S)
  BY <1>2, WhenSeq
<1> HIDE DEF a, w1, w2, w3
<1>6. t \in Seq(S) /\ Len(t) >= 1 /\ t[1] = m
  <2>1. <<m>> \in Seq(S) /\ Len(<<m>>) >= 1 /\ <<m>>[1] = m
    BY <1>2
  <2>2. LET s == <<m>> \o w1 IN s \in Seq(S) /\ Len(s) >= 1 /\ s[1] = m
    BY <1>5, <2>1, FirstStays
  <2>3. LET s == <<m>> \o w1 \o w2 IN s \in Seq(S) /\ Len(s) >= 1 /\ s[1] = m
    BY <1>5, <2>2, FirstStays
  <2>4. LET s == <<m>> \o w1 \o w2 \o w3 IN s \in Seq(S) /\ Len(s) >= 1 /\ s[1] = m
    BY <1>5, <2>3, FirstStays
  <2> QED
    BY <1>2, <2>4, FirstStays
<1> HIDE DEF t
<1>7. CASE Empty
  <2>1. When(~Empty, t) = <<>>
    BY <1>7 DEF When
  <2>2. Setup = a
    BY <1>1, <1>4, <2>1, ConcatEmptySeq
  <2> QED
    BY <1>4, <1>7, <2>2 DEF S, Q
<1>8. CASE ~Empty
  <2>1. Setup = a \o t
    BY <1>1, <1>8 DEF When
  <2>2. Setup \in Seq(S)
    BY <1>4, <1>6, <2>1, ConcatSeq
  <2>3. MallocFirst(Setup) /\ \E j \in 1..Len(Setup) : Setup[j].call = "malloc"
    BY <1>2, <1>4, <1>6, <2>1, MallocInFront DEF Q
  <2> QED
    BY <1>8, <2>2, <2>3 DEF S
<1> QED
  BY <1>7, <1>8

\* Once a call other than the allocation is made, the rest still allocates
\* before it uses memory.
LEMMA MallocStaysFirst ==
  ASSUME NEW S, NEW s \in Seq(S), s # <<>>, Head(s).call # "malloc", MallocFirst(s),
         \E j \in 1..Len(s) : s[j].call = "malloc"
  PROVE  MallocFirst(Tail(s)) /\ \E j \in 1..Len(Tail(s)) : Tail(s)[j].call = "malloc"
<1> DEFINE t == Tail(s)
           n == Len(s)
<1>1. n \in Nat /\ n >= 1 /\ Len(t) = n - 1 /\ Head(s) = s[1]
  BY HeadTailProperties
<1>2. \A i \in 1..(n - 1) : t[i] = s[i + 1]
  BY HeadTailProperties
<1>3. s[1].call # "malloc" /\ Len(t) = n - 1 /\ n \in Nat
  BY <1>1
<1> HIDE DEF t
<1>4. ASSUME NEW j \in 1..n, s[j].call = "malloc"
      PROVE  j - 1 \in 1..(n - 1) /\ t[j - 1].call = "malloc"
  <2>1. j # 1
    BY <1>3, <1>4
  <2>2. j - 1 \in 1..(n - 1) /\ (j - 1) + 1 = j
    BY <1>3, <2>1
  <2> HIDE DEF n
  <2> QED
    BY <1>2, <1>4, <2>2
<1>5. ASSUME NEW i \in 1..(n - 1), NeedsMemory(t[i])
      PROVE  \E j \in 1..(i - 1) : t[j].call = "malloc"
  <2>1. i + 1 \in 1..n /\ NeedsMemory(s[i + 1])
    BY <1>3, <1>2, <1>5
  <2>2. PICK j \in 1..((i + 1) - 1) : s[j].call = "malloc"
    BY <2>1 DEF MallocFirst
  <2>3. j \in 1..n /\ j - 1 \in Int /\ j <= i
    BY <1>3, <2>2
  <2>4. j - 1 \in 1..(n - 1) /\ t[j - 1].call = "malloc"
    BY <1>4, <2>2, <2>3
  <2>5. j - 1 \in 1..(i - 1)
    BY <1>3, <2>3, <2>4
  <2> QED
    BY <2>4, <2>5
<1>6. MallocFirst(t)
  BY <1>3, <1>5 DEF MallocFirst
<1>7. \E j \in 1..Len(t) : t[j].call = "malloc"
  <2>1. PICK k \in 1..n : s[k].call = "malloc"
    OBVIOUS
  <2>2. k - 1 \in 1..(n - 1) /\ t[k - 1].call = "malloc"
    BY <1>4, <2>1
  <2> QED
    BY <1>3, <2>2
<1> QED
  BY <1>6, <1>7 DEF t

-----------------------------------------------------------------------------
(* Requests, words and entries *)

\* The fields of a request.
LEMMA RequestFacts ==
  ASSUME in \in Inputs
  PROVE  /\ in.tensor \in Uint64 /\ in.base \in Uint64 /\ in.warmups \in Uint64
         /\ in.reps \in Uint64 /\ in.step \in Uint64
         /\ in.tensor \in Nat /\ in.base \in Nat /\ in.warmups \in Nat /\ in.reps \in Nat
         /\ in.step \in Nat /\ Total \in Nat
<1>1. Request(in)
  BY InputsAssumption
<1>2. /\ in.tensor \in Uint64 /\ in.base \in Uint64 /\ in.warmups \in Uint64
      /\ in.reps \in Uint64 /\ in.step \in Uint64
  BY <1>1 DEF Request
<1> QED
  BY <1>2, WordWidths DEF Uint64, UINT64_MAX, Total

\* What the argument checks establish.
LEMMA RefusalFacts ==
  ASSUME Refusal = "OK"
  PROVE  /\ in.reps # 0
         /\ in.boundary = "resident_graph" => in.step = 0
         /\ InvocationRangeValid(in.tensor, in.base, in.warmups, in.reps, in.step)
BY DEF Refusal

\* In an accepted graph benchmark every run draws the words of the base.
LEMMA GraphWords ==
  ASSUME in \in Inputs, Refusal = "OK", in.boundary = "resident_graph"
  PROVE  /\ \A m \in 0..Total : WordsOf(m) = Words(in.base)
         /\ Words(RunInvocationId(in.base, in.warmups, in.reps, in.warmups, in.step))
              = Words(in.base)
<1>1. in.step = 0 /\ in.reps # 0
      /\ InvocationRangeValid(in.tensor, in.base, in.warmups, in.reps, in.step)
  BY RefusalFacts
<1>2. ASSUME NEW i \in Nat, i < in.warmups + in.reps
      PROVE  RunInvocationId(in.base, in.warmups, in.reps, i, in.step) = in.base
  <2> DEFINE o == Offset(in.warmups, in.reps, i)
  <2>1. RunInvocationId(in.base, in.warmups, in.reps, i, in.step) = in.base + o * in.step
    BY <1>1, <1>2, RequestFacts, RunIdsFit, SMTT(20)
  <2>2. o \in Nat
    <3>1. in.warmups + in.reps <= UINT64_MAX
      BY <1>1, RequestFacts, WordWidths DEF InvocationRangeValid, UINT64_MAX
    <3> QED
      BY <1>2, <3>1, RequestFacts, Offsets
  <2> HIDE DEF o
  <2>3. o * in.step = 0
    BY <1>1, <2>2
  <2> QED
    BY <2>1, <2>3, RequestFacts
<1>3. ASSUME NEW m \in 0..Total
      PROVE  WordsOf(m) = Words(in.base)
  <2>1. CASE m = 0
    BY <2>1 DEF WordsOf
  <2>2. CASE m # 0
    <3>1. m - 1 \in Nat /\ m - 1 < in.warmups + in.reps
      BY <2>2, RequestFacts DEF Total
    <3>2. RunInvocationId(in.base, in.warmups, in.reps, m - 1, in.step) = in.base
      BY <1>2, <3>1
    <3> QED
      BY <2>2, <3>2 DEF WordsOf
  <2> QED
    BY <2>1, <2>2
<1>4. in.warmups < in.warmups + in.reps
  BY <1>1, RequestFacts
<1>5. RunInvocationId(in.base, in.warmups, in.reps, in.warmups, in.step) = in.base
  BY <1>2, <1>4, RequestFacts
<1> QED
  BY <1>3, <1>5

\* An entry is an operation of its run.
LEMMA EntryFacts ==
  ASSUME NEW n \in Nat
  PROVE  /\ \A e \in Entries(n) : e.run \in 0..n /\ e.op \in Ops({WordsOf(e.run)})
         /\ \A m \in 0..n : \A o \in Ops({WordsOf(m)}) : [op |-> o, run |-> m] \in Entries(n)
<1>1. ASSUME NEW e \in Entries(n)
      PROVE  e.run \in 0..n /\ e.op \in Ops({WordsOf(e.run)})
  <2>1. PICK m \in 0..n : e \in [op : Ops({WordsOf(m)}), run : {m}]
    BY DEF Entries
  <2>2. e.run = m /\ e.op \in Ops({WordsOf(m)})
    BY <2>1
  <2> QED
    BY <2>2
<1>2. ASSUME NEW m \in 0..n, NEW o \in Ops({WordsOf(m)})
      PROVE  [op |-> o, run |-> m] \in Entries(n)
  <2>1. [op |-> o, run |-> m] \in [op : Ops({WordsOf(m)}), run : {m}]
    OBVIOUS
  <2> QED
    BY <2>1 DEF Entries
<1> QED
  BY <1>1, <1>2

\* Later runs keep the entries of the earlier ones.
LEMMA EntriesGrow ==
  ASSUME NEW n \in Nat
  PROVE  Seq(Entries(n)) \subseteq Seq(Entries(n + 1))
<1>1. Entries(n) \subseteq Entries(n + 1)
  BY DEF Entries
<1> QED
  BY <1>1

\* Launching a graph queues its operations for the current run.
LEMMA LaunchedEntries ==
  ASSUME NEW n \in Nat, NEW g \in Seq(Ops({WordsOf(n)}))
  PROVE  [i \in DOMAIN g |-> [op |-> g[i], run |-> n]] \in Seq(Entries(n))
<1> DEFINE m == [i \in DOMAIN g |-> [op |-> g[i], run |-> n]]
           E == Entries(n)
           O == Ops({WordsOf(n)})
<1>1. \A o \in O : [op |-> o, run |-> n] \in E
  BY EntryFacts
<1>2. DOMAIN g = 1..Len(g) /\ Len(g) \in Nat /\ \A i \in 1..Len(g) : g[i] \in O
  BY DEF O
<1> HIDE DEF E, O
<1>3. m \in [1..Len(g) -> E]
  BY <1>1, <1>2
<1> HIDE DEF m
<1>4. m \in Seq(E)
  BY <1>2, <1>3
<1> QED
  BY <1>4 DEF m, E

-----------------------------------------------------------------------------
(* The steps of the host *)

\* The request never changes, and with it neither do the words, the calls and
\* the entries it allows.
LEMMA RequestStays ==
  ASSUME in' = in
  PROVE  /\ \A n : WordsOf(n)' = WordsOf(n)
         /\ \A W : Calls(W)' = Calls(W)
         /\ \A n : Entries(n)' = Entries(n)
         /\ Words(in.base)' = Words(in.base)
         /\ QuietCalls' = QuietCalls
         /\ Total' = Total /\ Refusal' = Refusal /\ (Empty' <=> Empty)
<1>1. \A n : WordsOf(n)' = WordsOf(n)
  BY DEF WordsOf, Words
<1>2. \A W : Calls(W)' = Calls(W)
  BY DEF Calls, CallNames
<1>3. \A n : Entries(n)' = Entries(n)
  BY <1>1 DEF Entries
<1> QED
  BY <1>1, <1>2, <1>3
  DEF Words, QuietCalls, CallNames, Total, Refusal, Empty, Transfers

\* A host step between two functions leaves the device alone; what it must
\* show is that the calls it starts suit the request and the memory.
LEMMA Between ==
  ASSUME IInv, pc \notin {"destroy", "done"},
         UNCHANGED <<in, stream, dma, dev, log, capturing, graph, allocated, host, freed>>,
         \/ index' = index
         \/ index' = index + 1 /\ index < Total,
         pc' # "start", Accepted',
         todo' \in Seq(Calls({WordsOf(index')})),
         Empty => todo' \in Seq(QuietCalls),
         ~Empty /\ ~allocated /\ pc' \notin {"start", "destroy", "done"} =>
           MallocFirst(todo') /\ \E j \in 1..Len(todo') : todo'[j].call = "malloc",
         pc' \in {"start", "destroy", "done"} => todo' = <<>>
  PROVE  IInv'
<1> USE RequestStays
<1>1. index \in Nat /\ index' \in Nat /\ index' <= Total /\ Total \in Nat
  BY RequestFacts DEF IInv, TypeOK
<1>2. TypeOK'
  <2>1. capturing' \in BOOLEAN /\ allocated' \in BOOLEAN
    BY DEF IInv, TypeOK
  <2> QED
    BY <1>1, <2>1 DEF IInv, TypeOK
<1>3. WordsState'
  <2>1. todo' \in Seq(Calls({WordsOf(index)}))'
    OBVIOUS
  <2>2. graph' \in Seq(Ops({Words(in.base)}))'
    BY DEF IInv, WordsState, Words, Ops
  <2>3. stream \in Seq(Entries(index')) /\ log \in Seq(Entries(index'))
    BY <1>1, EntriesGrow DEF IInv, WordsState
  <2>4. (stream \in Seq(Entries(index)) /\ log \in Seq(Entries(index)))'
    BY <2>3
  <2>5. (capturing \/ graph # <<>> => in.boundary = "resident_graph" /\ Refusal = "OK")'
    BY DEF IInv, WordsState
  <2> QED
    BY <2>1, <2>2, <2>4, <2>5 DEF WordsState
<1>4. MemoryState'
  <2>1. (~allocated => stream = <<>> /\ dma = {} /\ graph = <<>>)'
    BY DEF IInv, MemoryState
  <2>2. (Empty => todo \in Seq(QuietCalls))'
    OBVIOUS
  <2>3. ((~Empty /\ ~allocated /\ pc \notin {"start", "destroy", "done"}) =>
          MallocFirst(todo) /\ \E j \in 1..Len(todo) : todo[j].call = "malloc")'
    BY DEF MallocFirst
  <2> QED
    BY <2>1, <2>2, <2>3 DEF MemoryState
<1>5. EndState'
  <2>1. freed = {}
    BY DEF IInv, EndState
  <2> QED
    BY <2>1 DEF EndState
<1> QED
  BY <1>2, <1>3, <1>4, <1>5 DEF IInv

\* When a function has made all its calls, the memory is there unless the input
\* is empty.
LEMMA CallsMade ==
  ASSUME IInv, todo = <<>>, pc \notin {"start", "destroy", "done"}
  PROVE  Empty \/ allocated
BY DEF IInv, MemoryState

\* No calls satisfy every set of calls.
LEMMA NoCalls ==
  ASSUME NEW W
  PROVE  <<>> \in Seq(Calls(W)) /\ <<>> \in Seq(QuietCalls)
OBVIOUS

\* sq_cuda_bench checks its arguments and sets up.
LEMMA StartStep == ASSUME IInv, Start PROVE IInv'
<1>1. pc = "start" /\ index = 0 /\ index' = index /\ todo = <<>> /\ in' = in
  BY DEF Start, IInv, Accepted, EndState
<1>2. CASE Refusal # "OK"
  <2>1. pc' = "done" /\ status' = Refusal /\ todo' = <<>>
    BY <1>1, <1>2 DEF Start
  <2>2. Accepted'
    BY <1>1, <2>1, RequestStays DEF Accepted
  <2> QED
    BY <1>1, <2>1, <2>2, NoCalls, Between DEF Start, device
<1>3. CASE Refusal = "OK"
  <2>1. pc' = "setup" /\ status' = status /\ todo' = Setup
    BY <1>3 DEF Start
  <2>2. Accepted'
    BY <1>1, <1>3, <2>1, RequestStays DEF IInv, Accepted
  <2>3. /\ todo' \in Seq(Calls({WordsOf(index')}))
        /\ Empty => todo' \in Seq(QuietCalls)
        /\ ~Empty => MallocFirst(todo') /\ \E j \in 1..Len(todo') : todo'[j].call = "malloc"
    BY <2>1, SetupCalls
  <2> QED
    BY <1>1, <2>1, <2>2, <2>3, Between DEF Start, device
<1> QED
  BY <1>2, <1>3

\* The host's verdict on a run is never that an identifier was too large.
LEMMA VerdictRange ==
  ASSUME NEW scale, NEW seen, NEW st \in DeviceStatuses, NEW flags
  PROVE  CheckBenchResult(scale, seen, st, flags) # "ID_OVERFLOW"
BY DEF CheckBenchResult, FlagStatus, DeviceStatuses

\* run_bench_graph begins with the capture.
LEMMA CaptureSuits ==
  ASSUME IInv, Refusal = "OK", in.boundary = "resident_graph"
  PROVE  /\ Capture \in Seq(Calls({WordsOf(index)}))
         /\ Empty => Capture \in Seq(QuietCalls)
<1>1. WordsOf(index) = Words(in.base)
  <2>1. in \in Inputs /\ index \in 0..Total
    BY RequestFacts DEF IInv, TypeOK
  <2> QED
    BY <2>1, GraphWords
<1>2. Words(RunInvocationId(in.base, in.warmups, in.reps, in.warmups, in.step))
        \in {WordsOf(index)}
  BY <1>1, GraphWords DEF IInv, TypeOK
<1> QED
  BY <1>2, CaptureCalls

\* After the set-up: the preflight, or what follows it when the input is empty.
LEMMA AfterSetupStep == ASSUME IInv, AfterSetup PROVE IInv'
<1>1. /\ pc = "setup" /\ index = 0 /\ index' = index /\ todo = <<>> /\ in' = in
      /\ status' = status /\ allocated' = allocated
  BY DEF AfterSetup, Through, Continue, IInv, Accepted
<1>2. Refusal = "OK" /\ (Empty \/ allocated)
  BY <1>1, CallsMade DEF IInv, Accepted
<1>3. /\ pc' \in {"capture", "loop", "preflight"}
      /\ \/ todo' = <<>>
         \/ ~Empty /\ todo' = BenchPipeline(in.base, IF in.boundary = "host_origin"
                                                    THEN "host_origin" ELSE "resident", TRUE, TRUE)
         \/ in.boundary = "resident_graph" /\ todo' = Capture
  BY DEF AfterSetup, Continue
<1>4. Accepted'
  BY <1>1, <1>2, <1>3, RequestStays DEF IInv, Accepted
<1>5. Words(in.base) \in {WordsOf(index)}
  BY <1>1 DEF WordsOf
<1>6. BenchPipeline(in.base, IF in.boundary = "host_origin" THEN "host_origin" ELSE "resident",
                    TRUE, TRUE) \in Seq(Calls({WordsOf(index)}))
  <2> DEFINE b == IF in.boundary = "host_origin" THEN "host_origin" ELSE "resident"
             yes == TRUE
             W == {WordsOf(index)}
  <2>1. Words(in.base) \in W
    BY <1>5
  <2> HIDE DEF b, yes, W
  <2>2. BenchPipeline(in.base, b, yes, yes) \in Seq(Calls(W))
    BY <2>1, PipelineCalls
  <2> QED
    BY <2>2 DEF b, yes, W
<1>7. todo' \in Seq(Calls({WordsOf(index')})) /\ (Empty => todo' \in Seq(QuietCalls))
  BY <1>1, <1>2, <1>3, <1>6, NoCalls, CaptureSuits
<1> QED
  BY <1>1, <1>2, <1>3, <1>4, <1>7, Between DEF AfterSetup, device

\* After the preflight: its verdict, or the base record and the timed runs.
LEMMA AfterPreflightStep == ASSUME IInv, AfterPreflight PROVE IInv'
<1> DEFINE result == CheckBenchResult(host.scale, Prescribed, host.status, host.flags)
<1>1. pc = "preflight" /\ index' = index /\ todo = <<>> /\ in' = in /\ allocated' = allocated
  BY DEF AfterPreflight, Through
<1>2. Refusal = "OK" /\ (Empty \/ allocated)
  BY <1>1, CallsMade DEF IInv, Accepted
<1>3. result # "ID_OVERFLOW"
  BY VerdictRange DEF IInv, TypeOK
<1>4. /\ pc' \in {"capture", "loop", "destroy"}
      /\ status' \in {status, result}
      /\ pc' = "destroy" => todo' = <<>>
      /\ todo' = <<>> \/ (in.boundary = "resident_graph" /\ todo' = Capture)
  BY <1>1 DEF AfterPreflight, Continue, Leave
<1> HIDE DEF result
<1>5. Accepted'
  BY <1>1, <1>2, <1>3, <1>4, RequestStays DEF IInv, Accepted
<1>6. todo' \in Seq(Calls({WordsOf(index')})) /\ (Empty => todo' \in Seq(QuietCalls))
  BY <1>1, <1>2, <1>4, NoCalls, CaptureSuits
<1> QED
  BY <1>1, <1>2, <1>4, <1>5, <1>6, Between DEF AfterPreflight, device

\* After the capture the loop begins.
LEMMA AfterCaptureStep == ASSUME IInv, AfterCapture PROVE IInv'
<1>1. /\ pc = "capture" /\ pc' = "loop" /\ index' = index /\ todo = <<>> /\ todo' = <<>>
      /\ in' = in /\ status' = status /\ allocated' = allocated
  BY DEF AfterCapture, Through, Continue
<1>2. Refusal = "OK" /\ (Empty \/ allocated)
  BY <1>1, CallsMade DEF IInv, Accepted
<1>3. Accepted'
  BY <1>1, <1>2, RequestStays DEF IInv, Accepted
<1> QED
  BY <1>1, <1>2, <1>3, NoCalls, Between DEF AfterCapture, device

\* The calls of a run use the words of that run.
LEMMA RunSuits ==
  ASSUME IInv
  PROVE  /\ RunCalls(index) \in Seq(Calls({WordsOf(index + 1)}))
         /\ Empty => RunCalls(index) \in Seq(QuietCalls)
<1> DEFINE S == Calls({WordsOf(index + 1)})
           Q == QuietCalls
           id == RunInvocationId(in.base, in.warmups, in.reps, index, in.step)
<1>1. index \in Nat
  BY DEF IInv, TypeOK
<1>2. Words(id) \in {WordsOf(index + 1)}
  <2>1. index + 1 # 0 /\ (index + 1) - 1 = index
    BY <1>1
  <2> QED
    BY <2>1 DEF WordsOf
<1>3. /\ Call("launch") \in S /\ Call("device_sync") \in S
      /\ Call("launch") \in Q /\ Call("device_sync") \in Q
  BY CallMembers DEF QuietCalls, Call, CallNames, OtherCalls
<1>4. BenchPipeline(id, in.boundary, Transfers(in.boundary), FALSE) \in Seq(S)
  <2> DEFINE b == in.boundary
             copies == Transfers(in.boundary)
             no == FALSE
             W == {WordsOf(index + 1)}
  <2>1. Words(id) \in W
    BY <1>2
  <2> HIDE DEF b, copies, no, W
  <2>2. BenchPipeline(id, b, copies, no) \in Seq(Calls(W))
    BY <2>1, PipelineCalls
  <2> QED
    BY <2>2 DEF b, copies, no, W
<1> HIDE DEF S, Q
<1>5. /\ <<Call("launch"), Call("device_sync")>> \in Seq(S)
      /\ <<Call("launch"), Call("device_sync")>> \in Seq(Q)
      /\ <<Call("device_sync")>> \in Seq(S) /\ <<Call("device_sync")>> \in Seq(Q)
  BY <1>3
<1> QED
  BY <1>4, <1>5 DEF RunCalls, S, Q

\* A run starts; an accepted range has an identifier for it.
LEMMA StartRunStep == ASSUME IInv, StartRun PROVE IInv'
<1> DEFINE id == RunInvocationId(in.base, in.warmups, in.reps, index, in.step)
<1>1. /\ pc = "loop" /\ index < Total /\ index' = index + 1 /\ todo = <<>> /\ in' = in
      /\ allocated' = allocated
  BY DEF StartRun, Through
<1>2. Refusal = "OK" /\ (Empty \/ allocated)
  BY <1>1, CallsMade DEF IInv, Accepted
<1>3. ~(id > UINT32_MAX)
  <2>1. InvocationRangeValid(in.tensor, in.base, in.warmups, in.reps, in.step)
    BY <1>2, RefusalFacts
  <2>2. in \in Inputs /\ index \in Nat /\ index < in.warmups + in.reps
    BY <1>1 DEF IInv, TypeOK, Total
  <2>3. id = in.base + Offset(in.warmups, in.reps, index) * in.step /\ id <= UINT32_MAX
    BY <2>1, <2>2, RequestFacts, RunIdsFit
  <2>4. Offset(in.warmups, in.reps, index) \in Nat
    <3>1. in.warmups + in.reps <= UINT64_MAX
      BY <2>1, <2>2, RequestFacts, WordWidths DEF InvocationRangeValid, UINT64_MAX
    <3> QED
      BY <2>2, <3>1, RequestFacts, Offsets
  <2>5. id \in Int /\ UINT32_MAX \in Int
    <3>1. UINT32_MAX \in Int
      BY WidthAssumption DEF UINT32_MAX
    <3>2. Offset(in.warmups, in.reps, index) * in.step \in Nat
      BY <2>2, <2>4, RequestFacts
    <3> QED
      BY <2>2, <2>3, <3>1, <3>2, RequestFacts
  <2> HIDE DEF id
  <2> QED
    BY <2>3, <2>5
<1>4. pc' = "run" /\ todo' = RunCalls(index) /\ status' = status
  BY <1>1, <1>3 DEF StartRun, Continue
<1>5. Accepted'
  BY <1>1, <1>2, <1>4, RequestStays DEF IInv, Accepted
<1>6. todo' \in Seq(Calls({WordsOf(index')})) /\ (Empty => todo' \in Seq(QuietCalls))
  BY <1>1, <1>4, RunSuits
<1> QED
  BY <1>1, <1>2, <1>4, <1>5, <1>6, Between DEF StartRun, device

\* A run ends with its sample, or with an event that was not reached.
LEMMA AfterRunStep == ASSUME IInv, AfterRun PROVE IInv'
<1>1. /\ pc = "run" /\ index' = index /\ todo = <<>> /\ in' = in /\ allocated' = allocated
      /\ pc' \in {"loop", "destroy"} /\ todo' = <<>> /\ status' \in {status, "CUDA"}
  BY Zenon DEF AfterRun, Through, Continue, Leave
<1>2. Refusal = "OK" /\ (Empty \/ allocated)
  BY <1>1, CallsMade DEF IInv, Accepted
<1>3. Accepted'
  BY <1>1, <1>2, RequestStays DEF IInv, Accepted
<1> QED
  BY <1>1, <1>2, <1>3, NoCalls, Between DEF AfterRun, device

\* After the loop a graph benchmark reads its results back.
LEMMA AfterLoopStep == ASSUME IInv, AfterLoop PROVE IInv'
<1>1. /\ pc = "loop" /\ index' = index /\ todo = <<>> /\ in' = in /\ allocated' = allocated
      /\ \/ pc' = "readback" /\ ~Empty /\ todo' = Readback /\ status' = status
         \/ pc' = "destroy" /\ todo' = <<>> /\ status' = "OK"
  BY DEF AfterLoop, Through, Continue, Leave
<1>2. Refusal = "OK" /\ (Empty \/ allocated)
  BY <1>1, CallsMade DEF IInv, Accepted
<1>3. Accepted'
  BY <1>1, <1>2, RequestStays DEF IInv, Accepted
<1>4. Readback \in Seq(Calls({WordsOf(index)}))
  <2> DEFINE S == Calls({WordsOf(index)})
  <2>1. /\ Download("payload") \in S /\ Download("scale") \in S /\ Download("status") \in S
        /\ Download("flags") \in S /\ Call("device_sync") \in S
    BY CallMembers DEF HostFields, CallNames, OtherCalls
  <2> HIDE DEF S
  <2>2. Readback \in Seq(S)
    BY <2>1 DEF Readback
  <2> QED
    BY <2>2 DEF S
<1>5. todo' \in Seq(Calls({WordsOf(index')})) /\ (Empty => todo' \in Seq(QuietCalls))
  BY <1>1, <1>4, NoCalls
<1> QED
  BY <1>1, <1>2, <1>3, <1>5, Between DEF AfterLoop, device

\* The last launch is judged.
LEMMA AfterReadbackStep == ASSUME IInv, AfterReadback PROVE IInv'
<1> DEFINE result == CheckBenchResult(host.scale, Prescribed, host.status, host.flags)
<1>1. /\ pc = "readback" /\ index' = index /\ todo = <<>> /\ in' = in /\ allocated' = allocated
      /\ pc' = "destroy" /\ todo' = <<>> /\ status' \in {result, "CUDA", "OK"}
  BY DEF AfterReadback, Through, Leave
<1>2. Refusal = "OK" /\ (Empty \/ allocated)
  BY <1>1, CallsMade DEF IInv, Accepted
<1>3. result # "ID_OVERFLOW"
  BY VerdictRange DEF IInv, TypeOK
<1> HIDE DEF result
<1>4. Accepted'
  BY <1>1, <1>2, <1>3, RequestStays DEF IInv, Accepted
<1> QED
  BY <1>1, <1>2, <1>4, NoCalls, Between DEF AfterReadback, device

\* Freeing device memory waits for the device, and without memory there is
\* nothing to wait for.
LEMMA DestroyStep == ASSUME IInv, Destroy PROVE IInv'
<1>1. /\ pc = "destroy" /\ pc' \in {"destroy", "done"} /\ todo = <<>> /\ todo' = <<>>
      /\ UNCHANGED <<in, status, stream, dma, dev, log, capturing, graph, allocated, host, index>>
  BY DEF Destroy, device, IInv, EndState
<1>2. Idle
  <2>1. CASE freed = {}
    <3>1. allocated => Idle
      BY <2>1 DEF Destroy, FirstFreed
    <3>2. ~allocated => Idle
      BY DEF IInv, MemoryState, Idle
    <3> QED
      BY <3>1, <3>2
  <2>2. CASE freed # {}
    BY <2>2 DEF IInv, EndState
  <2> QED
    BY <2>1, <2>2
<1>3. TypeOK'
  <2>1. capturing' \in BOOLEAN /\ allocated' \in BOOLEAN
    BY <1>1 DEF IInv, TypeOK
  <2> QED
    BY <1>1, <2>1, RequestStays DEF IInv, TypeOK
<1>4. Accepted'
  BY <1>1, RequestStays DEF IInv, Accepted
<1>5. WordsState'
  <2>1. graph' \in Seq(Ops({Words(in.base)}))'
    BY <1>1 DEF IInv, WordsState, Words, Ops
  <2> QED
    BY <1>1, <2>1, RequestStays, NoCalls DEF IInv, WordsState
<1>6. MemoryState'
  BY <1>1, RequestStays, NoCalls DEF IInv, MemoryState
<1>7. EndState'
  BY <1>1, <1>2 DEF EndState, Idle
<1> QED
  BY <1>3, <1>4, <1>5, <1>6, <1>7 DEF IInv

\* A failing call ends the function and its capture.
LEMMA CallFailsStep == ASSUME IInv, CallFails PROVE IInv'
<1>1. /\ pc \notin {"start", "destroy", "done"} /\ pc' = "destroy" /\ todo' = <<>>
      /\ capturing' = FALSE /\ status' \in {"MEMORY", "CUDA"}
      /\ UNCHANGED <<in, stream, dma, dev, log, graph, allocated, host, index, freed>>
  BY DEF CallFails, device, IInv, EndState
<1>2. TypeOK'
  <2>1. capturing' \in BOOLEAN /\ allocated' \in BOOLEAN
    BY <1>1 DEF IInv, TypeOK
  <2> QED
    BY <1>1, <2>1, RequestStays DEF IInv, TypeOK
<1>3. Accepted'
  BY <1>1, RequestStays DEF IInv, Accepted
<1>4. WordsState'
  <2>1. graph' \in Seq(Ops({Words(in.base)}))'
    BY <1>1 DEF IInv, WordsState, Words, Ops
  <2>2. ~capturing'
    BY <1>1
  <2> QED
    BY <1>1, <2>1, <2>2, RequestStays, NoCalls DEF IInv, WordsState
<1>5. MemoryState'
  BY <1>1, RequestStays, NoCalls DEF IInv, MemoryState
<1>6. EndState'
  BY <1>1 DEF IInv, EndState
<1> QED
  BY <1>2, <1>3, <1>4, <1>5, <1>6 DEF IInv

\* Only with the memory there does the host use it.
LEMMA MemoryIsThere ==
  ASSUME IInv, todo # <<>>, NeedsMemory(Head(todo))
  PROVE  allocated
<1>1. pc \notin {"start", "destroy", "done"}
  BY DEF IInv, EndState
<1>2. todo \in Seq(Calls({WordsOf(index)}))
  BY DEF IInv, WordsState
<1>3. Head(todo) = todo[1] /\ 1 \in 1..Len(todo)
  BY <1>2
<1>4. ~Empty
  <2>1. \A c \in QuietCalls : ~NeedsMemory(c)
    BY DEF QuietCalls, NeedsMemory, CallNames, OtherCalls
  <2>2. SUFFICES ASSUME Empty PROVE FALSE
    OBVIOUS
  <2>3. todo \in Seq(QuietCalls)
    BY <2>2 DEF IInv, MemoryState
  <2>4. todo[1] \in QuietCalls
    BY <1>3, <2>3
  <2> QED
    BY <1>3, <2>1, <2>4
<1>5. ~MallocFirst(todo)
  BY <1>3 DEF MallocFirst
<1> QED
  BY <1>1, <1>4, <1>5 DEF IInv, MemoryState

\* One call: what is left to call is in order if what it does to the stream, the
\* graph and the memory is.
LEMMA OneCall ==
  ASSUME IInv, todo # <<>>, todo' = Tail(todo),
         UNCHANGED <<in, pc, status, dev, log, index, freed>>,
         capturing' \in BOOLEAN, allocated' \in BOOLEAN,
         DOMAIN host' = HostFields, host'.status \in DeviceStatuses,
         graph' \in Seq(Ops({Words(in.base)})), stream' \in Seq(Entries(index)),
         capturing' \/ graph' # <<>> => in.boundary = "resident_graph" /\ Refusal = "OK",
         ~allocated' => stream' = <<>> /\ dma' = {} /\ graph' = <<>>,
         allocated' \/ (~allocated /\ Head(todo).call # "malloc")
  PROVE  IInv'
<1> USE RequestStays
<1>1. pc \notin {"start", "destroy", "done"} /\ freed = {}
  BY DEF IInv, EndState
<1>2. TypeOK'
  BY DEF IInv, TypeOK
<1>3. Accepted'
  BY DEF IInv, Accepted
<1>4. WordsState'
  <2>1. todo' \in Seq(Calls({WordsOf(index)}))
    BY DEF IInv, WordsState
  <2>2. graph' \in Seq(Ops({Words(in.base)}))'
    BY DEF Words, Ops
  <2>3. log \in Seq(Entries(index))
    BY DEF IInv, WordsState
  <2> QED
    BY <2>1, <2>2, <2>3 DEF WordsState
<1>5. MemoryState'
  <2>1. Empty => todo' \in Seq(QuietCalls)
    BY DEF IInv, MemoryState
  <2>2. ASSUME ~Empty, ~allocated'
        PROVE  MallocFirst(todo') /\ \E j \in 1..Len(todo') : todo'[j].call = "malloc"
    <3>1. MallocFirst(todo) /\ \E j \in 1..Len(todo) : todo[j].call = "malloc"
      BY <1>1, <2>2 DEF IInv, MemoryState
    <3>2. todo \in Seq(Calls({WordsOf(index)})) /\ Head(todo).call # "malloc"
      BY <2>2 DEF IInv, WordsState
    <3> QED
      BY <3>1, <3>2, MallocStaysFirst
  <2>3. (~Empty /\ ~allocated =>
           MallocFirst(todo) /\ \E j \in 1..Len(todo) : todo[j].call = "malloc")'
    BY <2>2 DEF MallocFirst
  <2> QED
    BY <2>1, <2>3 DEF MemoryState
<1>6. EndState'
  BY <1>1 DEF EndState
<1> QED
  BY <1>2, <1>3, <1>4, <1>5, <1>6 DEF IInv

\* A graph that has lost a node is still a graph of the same operations.
LEMMA LostNode ==
  ASSUME NEW S, NEW s \in Seq(S), NEW i \in DOMAIN s
  PROVE  RemoveAt(s, i) \in Seq(S)
<1>1. i \in 1..Len(s) /\ Len(s) \in Nat
  OBVIOUS
<1>2. SubSeq(s, 1, i - 1) \in Seq(S) /\ SubSeq(s, i + 1, Len(s)) \in Seq(S)
  BY <1>1
<1> QED
  BY <1>2 DEF RemoveAt

\* Every kind of call.
LEMMA MakeCallStep == ASSUME IInv, MakeCall PROVE IInv'
<1> DEFINE c == Head(todo)
           stamped == [op |-> c.op, run |-> index]
<1>1. /\ todo # <<>> /\ todo' = Tail(todo)
      /\ UNCHANGED <<in, pc, status, dev, log, index, freed>>
      /\ c.call # "poison" => host' = host
  BY DEF MakeCall
<1>2. /\ index \in Nat /\ index <= Total /\ in \in Inputs
      /\ capturing \in BOOLEAN /\ allocated \in BOOLEAN
      /\ DOMAIN host = HostFields /\ host.status \in DeviceStatuses
  BY DEF IInv, TypeOK
<1>3. /\ graph \in Seq(Ops({Words(in.base)})) /\ stream \in Seq(Entries(index))
      /\ capturing \/ graph # <<>> => in.boundary = "resident_graph" /\ Refusal = "OK"
      /\ ~allocated => stream = <<>> /\ dma = {} /\ graph = <<>>
  BY DEF IInv, WordsState, MemoryState
<1>4. c \in Calls({WordsOf(index)})
  BY <1>1 DEF IInv, WordsState
<1>5. NeedsMemory(c) => allocated
  BY <1>1, MemoryIsThere
<1>6. in.boundary = "resident_graph" /\ Refusal = "OK" => WordsOf(index) = Words(in.base)
  <2>1. index \in 0..Total
    BY <1>2, RequestFacts
  <2> QED
    BY <1>2, <2>1, GraphWords
<1>7. Refusal = "OK"
  BY <1>1 DEF IInv, Accepted, EndState
<1> HIDE DEF c, stamped
<1>8. CASE /\ c.call = "enqueue"
           /\ IF capturing
              THEN graph' = Append(graph, c.op) /\ stream' = stream
              ELSE stream' = Append(stream, stamped) /\ graph' = graph
           /\ UNCHANGED <<dma, capturing, allocated>>
  <2>1. c.op \in Ops({WordsOf(index)}) /\ allocated /\ c.call # "malloc" /\ host' = host
    BY <1>1, <1>4, <1>5, <1>8, CallFacts DEF NeedsMemory
  <2>2. CASE capturing
    <3>1. c.op \in Ops({Words(in.base)})
      BY <1>3, <1>6, <2>1, <2>2
    <3>2. graph' = Append(graph, c.op) /\ stream' = stream
      BY <1>8, <2>2
    <3>3. graph' \in Seq(Ops({Words(in.base)}))
      BY <1>3, <3>1, <3>2
    <3> QED
      BY <1>1, <1>2, <1>3, <1>8, <2>1, <2>2, <3>2, <3>3, OneCall DEF c
  <2>3. CASE ~capturing
    <3>1. stream' = Append(stream, stamped) /\ graph' = graph
      BY <1>8, <2>3
    <3>2. stamped \in Entries(index)
      <4>1. index \in 0..index
        BY <1>2
      <4> QED
        BY <1>2, <2>1, <4>1, EntryFacts DEF stamped
    <3>3. stream' \in Seq(Entries(index))
      BY <1>3, <3>1, <3>2
    <3> QED
      BY <1>1, <1>2, <1>3, <1>8, <2>1, <2>3, <3>1, <3>3, OneCall DEF c
  <2> QED
    BY <1>2, <2>2, <2>3
<1>9. CASE /\ c.call \in {"device_sync", "stream_sync", "create", "host_alloc"}
           /\ UNCHANGED <<stream, dma, capturing, graph, allocated>>
  BY <1>1, <1>2, <1>3, <1>9, OneCall DEF c
<1>10. CASE /\ c.call = "poison"
            /\ host' = [host EXCEPT !.payload = [poison |-> base.payload]]
            /\ UNCHANGED <<stream, capturing, graph, allocated>>
  <2>1. allocated
    BY <1>5, <1>10 DEF NeedsMemory
  <2>2. DOMAIN host' = HostFields /\ host'.status \in DeviceStatuses
    BY <1>2, <1>10 DEF HostFields
  <2> QED
    BY <1>1, <1>2, <1>3, <1>10, <2>1, <2>2, OneCall DEF c
<1>11. CASE /\ c.call \in {"begin_capture", "end_capture"}
            /\ capturing' = (c.call = "begin_capture")
            /\ UNCHANGED <<stream, dma, graph, allocated>>
  <2>1. c.call = "begin_capture" => in.boundary = "resident_graph"
    BY <1>4, CallFacts DEF CallNames, OtherCalls
  <2>2. capturing' \in BOOLEAN
    BY <1>11
  <2>3. capturing' \/ graph' # <<>> => in.boundary = "resident_graph" /\ Refusal = "OK"
    BY <1>3, <1>7, <1>11, <2>1
  <2> QED
    BY <1>1, <1>2, <1>3, <1>11, <2>2, <2>3, OneCall DEF c
<1>12. CASE /\ c.call = "instantiate"
            /\ graph' = graph \/ \E i \in DOMAIN graph : graph' = RemoveAt(graph, i)
            /\ UNCHANGED <<stream, dma, capturing, allocated>>
  <2>1. CASE graph' = graph
    BY <1>1, <1>2, <1>3, <1>12, <2>1, OneCall DEF c
  <2>2. CASE \E i \in DOMAIN graph : graph' = RemoveAt(graph, i)
    <3>1. PICK i \in DOMAIN graph : graph' = RemoveAt(graph, i)
      BY <2>2
    <3>2. graph' \in Seq(Ops({Words(in.base)}))
      BY <1>3, <3>1, LostNode
    <3>3. graph # <<>>
      BY <1>3, <3>1
    <3> QED
      BY <1>1, <1>2, <1>3, <1>12, <3>2, <3>3, OneCall DEF c
  <2> QED
    BY <1>12, <2>1, <2>2
<1>13. CASE /\ c.call = "launch"
            /\ stream' = stream \o [i \in DOMAIN graph |-> [op |-> graph[i], run |-> index]]
            /\ UNCHANGED <<dma, capturing, graph, allocated>>
  <2> DEFINE l == [i \in DOMAIN graph |-> [op |-> graph[i], run |-> index]]
  <2>1. graph \in Seq(Ops({WordsOf(index)}))
    <3>1. CASE graph = <<>>
      BY <3>1
    <3>2. CASE graph # <<>>
      BY <1>3, <1>6, <3>2
    <3> QED
      BY <3>1, <3>2
  <2>2. l \in Seq(Entries(index))
    BY <1>2, <2>1, LaunchedEntries
  <2>3. graph = <<>> => l = <<>>
    OBVIOUS
  <2> HIDE DEF l
  <2>4. stream' \in Seq(Entries(index))
    BY <1>3, <1>13, <2>2, ConcatSeq DEF l
  <2>5. ~allocated => stream' = <<>>
    <3>1. ~allocated => stream' = <<>> \o <<>>
      BY <1>3, <1>13, <2>3 DEF l
    <3>2. <<>> \o <<>> = <<>>
      OBVIOUS
    <3> QED
      BY <3>1, <3>2
  <2> QED
    BY <1>1, <1>2, <1>3, <1>13, <2>4, <2>5, OneCall DEF c
<1>14. CASE /\ c.call = "malloc"
            /\ allocated' = TRUE
            /\ UNCHANGED <<stream, dma, capturing, graph>>
  BY <1>1, <1>2, <1>3, <1>14, OneCall DEF c
<1> QED
  BY <1>8, <1>9, <1>10, <1>11, <1>12, <1>13, <1>14 DEF MakeCall, c, stamped

-----------------------------------------------------------------------------
(* The steps of the device *)

\* An operation keeps the buffers and leaves a status a kernel can leave.
LEMMA KernelKeeps ==
  ASSUME DOMAIN dev = DeviceFields, dev.status \in DeviceStatuses,
         NEW W, NEW o \in Ops(W)
  PROVE  /\ DOMAIN DoneOnDevice(o) = DeviceFields
         /\ DoneOnDevice(o).status \in DeviceStatuses
<1> DEFINE d == DoneOnDevice(o)
<1>1. StatusOf(dev.values) \in DeviceStatuses
  BY DEF StatusOf, DeviceStatuses
<1>2. CASE o.op = "memset"
  <2>1. d = [dev EXCEPT !.flags = {}]
    BY <1>2 DEF DoneOnDevice
  <2> QED
    BY <2>1 DEF DeviceFields
<1>3. CASE o.op = "k1"
  <2> DEFINE v == ScaleOf(dev.values)
             s == StatusOf(dev.values)
             to == o.to
             once == [dev EXCEPT ![to] = v]
  <2>1. to \in {"k1Scale", "scale"}
    BY <1>3, OpFacts
  <2>2. d = [dev EXCEPT ![to] = v, !.status = s]
    BY <1>3 DEF DoneOnDevice, K1
  <2> HIDE DEF v, s, to, d
  <2>3. DOMAIN once = DeviceFields
    BY <2>1 DEF DeviceFields
  <2>4. d = [once EXCEPT !.status = s]
    BY <2>2
  <2> HIDE DEF once
  <2> QED
    BY <1>1, <2>3, <2>4 DEF DeviceFields, s, d
<1>4. CASE o.op = "k2"
  <2> DEFINE w == IF in.givenWords THEN dev.words ELSE o.words
             f == dev.flags \cup Flags(dev)
             k == Codes(dev.values, dev.scale, w)
             once == [dev EXCEPT !.flags = f]
  <2>1. d = [dev EXCEPT !.flags = f, !.codes = k]
    BY <1>4 DEF DoneOnDevice, K2
  <2> HIDE DEF w, f, k, d
  <2>2. DOMAIN once = DeviceFields /\ once.status = dev.status
    BY DEF DeviceFields
  <2>3. d = [once EXCEPT !.codes = k]
    BY <2>1
  <2> HIDE DEF once
  <2> QED
    BY <2>2, <2>3 DEF DeviceFields, d
<1>5. CASE o.op = "k3"
  <2> DEFINE p == [packed |-> dev.codes]
  <2>1. d = [dev EXCEPT !.payload = p]
    BY <1>5 DEF DoneOnDevice, K3
  <2> HIDE DEF p
  <2> QED
    BY <2>1 DEF DeviceFields
<1>6. CASE o.op = "upload"
  <2> DEFINE to == o.to
             v == Source(o.to)
  <2>1. to \in {"values", "scale", "words"}
    BY <1>6, OpFacts
  <2>2. d = [dev EXCEPT ![to] = v]
    BY <1>6 DEF DoneOnDevice
  <2> HIDE DEF to, v
  <2> QED
    BY <2>1, <2>2 DEF DeviceFields
<1>7. CASE o.op \notin {"memset", "k1", "k2", "k3", "upload"}
  <2>1. d = dev
    BY <1>7 DEF DoneOnDevice
  <2> QED
    BY <2>1
<1> QED
  BY <1>2, <1>3, <1>4, <1>5, <1>6, <1>7

\* The device does the head of the stream.
LEMMA DeviceStepKeeps == ASSUME IInv, DeviceStep PROVE IInv'
<1> USE RequestStays
<1> DEFINE e == Head(stream)
           o == e.op
<1>1. /\ stream # <<>> /\ stream' = Tail(stream) /\ dev' = DoneOnDevice(o)
      /\ host' = IF o.op = "download" THEN [host EXCEPT ![o.what] = dev[o.what]] ELSE host
      /\ log' = IF o.op = "record" THEN log ELSE Append(log, e)
      /\ UNCHANGED <<in, pc, status, todo, dma, capturing, graph, allocated, index, freed>>
  BY DEF DeviceStep
<1>2. index \in Nat /\ stream \in Seq(Entries(index)) /\ log \in Seq(Entries(index))
  BY DEF IInv, TypeOK, WordsState
<1>3. e \in Entries(index) /\ stream' \in Seq(Entries(index))
  BY <1>1, <1>2
<1>4. o \in Ops({WordsOf(e.run)})
  BY <1>2, <1>3, EntryFacts
<1>5. DOMAIN dev' = DeviceFields /\ dev'.status \in DeviceStatuses
  BY <1>1, <1>4, KernelKeeps DEF IInv, TypeOK
<1> HIDE DEF e, o
<1>6. DOMAIN host' = HostFields /\ host'.status \in DeviceStatuses
  <2>1. CASE o.op = "download"
    <3> DEFINE what == o.what
    <3>1. what \in HostFields
      BY <1>4, <2>1, OpFacts
    <3>2. host' = [host EXCEPT ![what] = dev[what]]
      BY <1>1, <2>1
    <3>3. DOMAIN host = HostFields /\ host.status \in DeviceStatuses /\ dev.status \in DeviceStatuses
      BY DEF IInv, TypeOK
    <3> HIDE DEF what
    <3>4. CASE what = "status"
      BY <3>2, <3>3, <3>4 DEF HostFields
    <3>5. CASE what # "status"
      BY <3>2, <3>3, <3>5 DEF HostFields
    <3> QED
      BY <3>4, <3>5
  <2>2. CASE o.op # "download"
    BY <1>1, <2>2 DEF IInv, TypeOK
  <2> QED
    BY <2>1, <2>2
<1>7. TypeOK'
  <2>1. capturing' \in BOOLEAN /\ allocated' \in BOOLEAN
    BY <1>1 DEF IInv, TypeOK
  <2> QED
    BY <1>1, <1>5, <1>6, <2>1 DEF IInv, TypeOK
<1>8. Accepted'
  BY <1>1 DEF IInv, Accepted
<1>9. WordsState'
  <2>1. graph' \in Seq(Ops({Words(in.base)}))'
    BY <1>1 DEF IInv, WordsState, Words, Ops
  <2>2. log' \in Seq(Entries(index))
    BY <1>1, <1>2, <1>3
  <2> QED
    BY <1>1, <1>3, <2>1, <2>2 DEF IInv, WordsState
<1>10. MemoryState'
  <2>1. ((~Empty /\ ~allocated /\ pc \notin {"start", "destroy", "done"}) =>
          MallocFirst(todo) /\ \E j \in 1..Len(todo) : todo[j].call = "malloc")'
    BY <1>1 DEF IInv, MemoryState, MallocFirst
  <2> QED
    BY <1>1, <2>1 DEF IInv, MemoryState
<1>11. EndState'
  <2>1. freed = {}
    BY <1>1 DEF IInv, EndState, Idle
  <2> QED
    BY <1>1, <2>1 DEF IInv, EndState
<1> QED
  BY <1>7, <1>8, <1>9, <1>10, <1>11 DEF IInv

\* The poison arrives.
LEMMA PoisonLandsStep == ASSUME IInv, PoisonLands PROVE IInv'
<1> USE RequestStays
<1>1. PICK bytes \in dma : dev' = [dev EXCEPT !.payload = bytes]
  BY DEF PoisonLands
<1>2. /\ UNCHANGED <<in, pc, status, todo, stream, capturing, graph, allocated, host, log,
                     index, freed>>
      /\ dma' = {}
  BY DEF PoisonLands
<1>3. DOMAIN dev' = DeviceFields /\ dev'.status \in DeviceStatuses
  BY <1>1 DEF IInv, TypeOK, DeviceFields
<1>4. TypeOK'
  <2>1. capturing' \in BOOLEAN /\ allocated' \in BOOLEAN
    BY <1>2 DEF IInv, TypeOK
  <2> QED
    BY <1>2, <1>3, <2>1 DEF IInv, TypeOK
<1>5. Accepted'
  BY <1>2 DEF IInv, Accepted
<1>6. WordsState'
  <2>1. graph' \in Seq(Ops({Words(in.base)}))'
    BY <1>2 DEF IInv, WordsState, Words, Ops
  <2> QED
    BY <1>2, <2>1 DEF IInv, WordsState
<1>7. MemoryState'
  <2>1. ((~Empty /\ ~allocated /\ pc \notin {"start", "destroy", "done"}) =>
          MallocFirst(todo) /\ \E j \in 1..Len(todo) : todo[j].call = "malloc")'
    BY <1>2 DEF IInv, MemoryState, MallocFirst
  <2> QED
    BY <1>2, <2>1 DEF IInv, MemoryState
<1>8. EndState'
  BY <1>2 DEF IInv, EndState, Idle
<1> QED
  BY <1>4, <1>5, <1>6, <1>7, <1>8 DEF IInv

-----------------------------------------------------------------------------
(* The theorems *)

\* The invariant holds before the first call.
LEMMA InitIInv == Init => IInv
<1> SUFFICES ASSUME Init PROVE IInv
  OBVIOUS
<1>1. TypeOK
  <2>1. /\ DOMAIN dev = DeviceFields /\ dev.status \in DeviceStatuses
        /\ DOMAIN host = HostFields /\ host.status \in DeviceStatuses
    BY DEF Init, Malloced, DeviceFields, HostFields, DeviceStatuses
  <2>2. capturing \in BOOLEAN /\ allocated \in BOOLEAN
    BY DEF Init
  <2>3. in \in Inputs /\ index = 0
    BY DEF Init
  <2> QED
    BY <2>1, <2>2, <2>3, RequestFacts DEF TypeOK
<1>2. Accepted
  BY DEF Init, Accepted
<1>3. WordsState /\ MemoryState
  BY DEF Init, WordsState, MemoryState
<1>4. EndState
  BY DEF Init, EndState
<1> QED
  BY <1>1, <1>2, <1>3, <1>4 DEF IInv

\* IInv holds in every state the benchmark reaches, for every set of requests
\* and every width of its counters.
THEOREM Invariance == Spec => []IInv
<1>1. IInv /\ [Next]_vars => IInv'
  <2> SUFFICES ASSUME IInv, [Next]_vars PROVE IInv'
    OBVIOUS
  <2>1. CASE UNCHANGED vars
    <3>1. in' = in
      BY <2>1 DEF vars
    <3>2. TypeOK'
      <4>1. capturing' \in BOOLEAN /\ allocated' \in BOOLEAN
        BY <2>1 DEF IInv, TypeOK, vars
      <4> QED
        BY <2>1, <3>1, <4>1, RequestStays DEF IInv, TypeOK, vars
    <3>3. Accepted' /\ EndState'
      BY <2>1, <3>1, RequestStays DEF IInv, Accepted, EndState, Idle, vars
    <3>4. WordsState'
      <4>1. graph' \in Seq(Ops({Words(in.base)}))'
        BY <2>1 DEF IInv, WordsState, Words, Ops, vars
      <4> QED
        BY <2>1, <3>1, <4>1, RequestStays DEF IInv, WordsState, vars
    <3>5. MemoryState'
      BY <2>1, <3>1, RequestStays DEF IInv, MemoryState, MallocFirst, vars
    <3> QED
      BY <3>2, <3>3, <3>4, <3>5 DEF IInv
  <2>2. CASE Host
    BY <2>2, StartStep, MakeCallStep, AfterSetupStep, AfterPreflightStep, AfterCaptureStep,
       StartRunStep, AfterRunStep, AfterLoopStep, AfterReadbackStep, DestroyStep DEF Host
  <2>3. CASE CallFails
    BY <2>3, CallFailsStep
  <2>4. CASE DeviceStep
    BY <2>4, DeviceStepKeeps
  <2>5. CASE PoisonLands
    BY <2>5, PoisonLandsStep
  <2> QED
    BY <2>1, <2>2, <2>3, <2>4, <2>5 DEF Next
<1> QED
  BY InitIInv, <1>1, PTL DEF Spec

\* destroy_bench_context frees host memory only when no copy into it is under
\* way, whichever call has failed before, because freeing the device's waits.
THEOREM FreedIsIdleHolds == Spec => []FreedIsIdle
<1>1. IInv => FreedIsIdle
  BY DEF IInv, EndState, Idle, FreedIsIdle
<1> QED
  BY Invariance, <1>1, PTL

\* Repetition r rounds with base + r * step whatever order the device works in, an
\* accepted range is never refused later, and with a step no two runs share a
\* random stream.
THEOREM RunsUseTheirStreamHolds == Spec => []RunsUseTheirStream
<1>1. IInv => RunsUseTheirStream
  <2> SUFFICES ASSUME IInv PROVE RunsUseTheirStream
    OBVIOUS
  <2> DEFINE id(n) == RunInvocationId(in.base, in.warmups, in.reps, n - 1, in.step)
  <2>1. index \in Nat /\ index <= in.warmups + in.reps /\ in \in Inputs
    BY DEF IInv, TypeOK, Total
  <2>2. log \in Seq(Entries(index))
    BY DEF IInv, WordsState
  <2>3. ASSUME ~in.givenWords, NEW n \in 1..index
        PROVE  Rounded(n) \subseteq {Drawn(id(n))}
    <3>1. ASSUME NEW i \in DOMAIN log, log[i].run = n, log[i].op.op = "k2"
          PROVE  log[i].op.words = Drawn(id(n))
      <4>1. log[i] \in Entries(index)
        BY <2>2, <3>1
      <4>2. log[i].op \in Ops({WordsOf(n)})
        BY <2>1, <3>1, <4>1, EntryFacts
      <4>3. log[i].op.words = WordsOf(n)
        BY <3>1, <4>2, OpFacts
      <4>4. n # 0
        BY <2>1
      <4> QED
        BY <2>3, <4>3, <4>4 DEF WordsOf, Words
    <3> QED
      BY <3>1 DEF Rounded
  <2>4. index # 0 => InvocationRangeValid(in.tensor, in.base, in.warmups, in.reps, in.step)
    BY RefusalFacts DEF IInv, Accepted
  <2>5. ASSUME ~in.givenWords, NEW r \in 0..(in.reps - 1), in.warmups + r + 1 <= index
        PROVE  Rounded(in.warmups + r + 1) \subseteq {Drawn(in.base + r * in.step)}
    <3>1. /\ in.warmups + r + 1 \in 1..index /\ index # 0 /\ r \in Nat /\ r < in.reps
          /\ (in.warmups + r + 1) - 1 = in.warmups + r
      BY <2>1, <2>5, RequestFacts
    <3>2. id(in.warmups + r + 1) = in.base + r * in.step
      <4>1. RunInvocationId(in.base, in.warmups, in.reps, in.warmups + r, in.step)
              = in.base + r * in.step
        <5>1. /\ in.tensor \in Uint64 /\ in.base \in Uint64 /\ in.warmups \in Uint64
              /\ in.reps \in Uint64 /\ in.step \in Nat /\ r \in Nat /\ r < in.reps
              /\ InvocationRangeValid(in.tensor, in.base, in.warmups, in.reps, in.step)
          BY <2>1, <2>4, <3>1, RequestFacts
        <5> QED
          BY <5>1, RepetitionIds
      <4> QED
        BY <3>1, <4>1
    <3> QED
      BY <2>3, <2>5, <3>1, <3>2
  <2>6. ASSUME ~in.givenWords, in.step # 0, NEW a \in 1..index, NEW b \in 1..index, a # b
        PROVE  Rounded(a) \cap Rounded(b) = {}
    <3>1. /\ a - 1 \in Nat /\ b - 1 \in Nat /\ a - 1 # b - 1 /\ index # 0
          /\ a - 1 < in.warmups + in.reps /\ b - 1 < in.warmups + in.reps
      BY <2>1, <2>6, RequestFacts
    <3>2. in.step \in Nat \ {0}
      BY <2>1, <2>6, RequestFacts
    <3>3. id(a) # id(b)
      BY <2>1, <2>4, <3>1, <3>2, RequestFacts, RunIdsDistinct
    <3> HIDE DEF id
    <3>4. Drawn(id(a)) # Drawn(id(b))
      BY <3>3 DEF Drawn
    <3> QED
      BY <2>3, <2>6, <3>4
  <2>7. status = "ID_OVERFLOW" => Refusal = "ID_OVERFLOW"
    BY DEF IInv, Accepted
  <2> QED
    BY <2>5, <2>6, <2>7 DEF RunsUseTheirStream
<1> QED
  BY Invariance, <1>1, PTL

-----------------------------------------------------------------------------
(* The order of the work *)

\* The operations, by name.
MemsetOp == [op |-> "memset"]
K1Op == [op |-> "k1", to |-> IF Prescribed THEN "k1Scale" ELSE "scale"]
K2Op(w) == [op |-> "k2", words |-> w]
K3Op == [op |-> "k3"]
RecordOp(e) == [op |-> "record", event |-> e]
UploadOp(to) == [op |-> "upload", to |-> to]
DownloadOp(what) == [op |-> "download", what |-> what]

\* The place of every operation in a pipeline, and of every call around it.
EventRank ==
  [h2d_start |-> 4, h2d_stop |-> 6, k1_start |-> 8, k1_stop |-> 10, k2_start |-> 11,
   k2_stop |-> 13, k3_start |-> 14, k3_stop |-> 16, d2h_start |-> 17, d2h_stop |-> 20]
ResultRank == [payload |-> 18, scale |-> 19, status |-> 21, flags |-> 22]
OpRank(o) ==
  CASE o.op = "upload" -> 5
    [] o.op = "memset" -> 7
    [] o.op = "k1" -> 9
    [] o.op = "k2" -> 12
    [] o.op = "k3" -> 15
    [] o.op = "record" -> EventRank[o.event]
    [] o.op = "download" -> ResultRank[o.what]
CallRank(p, c) ==
  CASE c.call = "enqueue" -> OpRank(c.op)
    [] c.call = "poison" -> 1
    [] c.call = "device_sync" -> IF p = "capture" THEN 2 ELSE 23
    [] c.call \in {"begin_capture", "launch"} -> 3
    [] c.call = "end_capture" -> 23
    [] OTHER -> 24

\* The names of the calls of a sequence, the operations among them, and those in
\* the stream.
Called(s) == {s[i].call : i \in 1..Len(s)}
Asked(s) == {s[i].op : i \in {j \in 1..Len(s) : s[j].call = "enqueue"}}
Queued == {stream[i].op : i \in 1..Len(stream)}
Pending == Queued \cup Asked(todo)

\* A sequence of calls in order, with ranks from lo to below hi.
Within(p, s, lo, hi) ==
  /\ \A i \in 1..Len(s) : lo <= CallRank(p, s[i]) /\ CallRank(p, s[i]) < hi
  /\ \A i, j \in 1..Len(s) : i < j => CallRank(p, s[i]) < CallRank(p, s[j])
InOrder(s) == \A i, j \in 1..Len(s) : i < j => OpRank(s[i]) < OpRank(s[j])

KernelEvents == {"k1_start", "k1_stop", "k2_start", "k2_stop", "k3_start", "k3_stop"}
KernelOps(w) == {MemsetOp, K1Op, K2Op(w), K3Op}
\* The operations of a pipeline.
PipelineOps(w, boundary, copyOutputs, inspect) ==
  KernelOps(w) \cup {RecordOp(e) : e \in KernelEvents}
  \cup (IF boundary = "host_origin"
        THEN {RecordOp("h2d_start"), UploadOp("values"), RecordOp("h2d_stop")} ELSE {})
  \cup (IF copyOutputs
        THEN {RecordOp("d2h_start"), DownloadOp("payload"), DownloadOp("scale"),
              RecordOp("d2h_stop")} ELSE {})
  \cup (IF inspect THEN {DownloadOp("status"), DownloadOp("flags")} ELSE {})

\* What the current function has asked of the device, or will.
PhaseOps ==
  CASE pc = "preflight" -> PipelineOps(Words(in.base), in.boundary, TRUE, TRUE)
    [] pc = "run" /\ Staged ->
         PipelineOps(WordsOf(index), in.boundary, Transfers(in.boundary), FALSE)
    [] pc = "run" /\ ~Staged ->
         IF "launch" \in Called(todo) THEN {} ELSE {graph[i] : i \in 1..Len(graph)}
    [] pc = "readback" -> {DownloadOp(what) : what \in HostFields}
    [] OTHER -> {}
GraphOps == {graph[i] : i \in 1..Len(graph)}

\* The calls of the set-up.
SetupUploads == {UploadOp(to) : to \in {"values", "scale", "words"}}
SetupCallSet ==
  [call : {"create", "host_alloc", "malloc", "stream_sync"}] \cup [call : {"enqueue"}, op : SetupUploads]

Working == {"preflight", "run", "readback"}
Poisoned == [poison |-> base.payload]

CaptureNames == {"poison", "device_sync", "begin_capture", "enqueue", "end_capture", "instantiate"}
\* The capture makes its calls in order, and none is skipped.
CaptureOrder ==
  pc = "capture" =>
    /\ stream = <<>>
    /\ Within(pc, todo, 1, 25) /\ Called(todo) \subseteq CaptureNames
    /\ capturing <=> /\ "begin_capture" \notin Called(todo)
                     /\ "end_capture" \in Called(todo)
    /\ \A i \in 1..Len(graph), o \in Asked(todo) : OpRank(graph[i]) < OpRank(o)
    /\ "begin_capture" \in Called(todo) => "end_capture" \in Called(todo)
    /\ Asked(todo) # {} => "end_capture" \in Called(todo)
    /\ todo # <<>> => "instantiate" \in Called(todo)
    /\ ~Empty /\ todo # <<>> => KernelOps(Words(in.base)) \subseteq GraphOps \cup Asked(todo)
    /\ Asked(todo) \subseteq KernelOps(Words(in.base))
    /\ "poison" \in Called(todo) => "device_sync" \in Called(todo)
    /\ "device_sync" \notin Called(todo) => dma = {}
    /\ "poison" \in Called(todo) => dma = {}

\* The graph holds the kernels in order, all of them unless one was lost.
GraphState ==
  /\ InOrder(graph) /\ GraphOps \subseteq KernelOps(Words(in.base))
  /\ pc \in {"start", "setup", "preflight"} => graph = <<>> /\ ~faulted
  /\ faulted /\ pc \notin {"destroy", "done"} => in.boundary = "resident_graph"
  /\ pc \notin {"capture"} => ~capturing
  /\ (pc \in {"loop", "run", "readback"} \/ (pc = "capture" /\ todo = <<>>))
        /\ in.boundary = "resident_graph" /\ ~Empty /\ ~faulted =>
       KernelOps(Words(in.base)) \subseteq GraphOps
  /\ pc \notin {"capture", "destroy", "done"} => dma = {}
  /\ dma \subseteq {Poisoned}

EndsInSync(s) == s # <<>> => s[Len(s)].call \in {"stream_sync", "device_sync"}
\* A function ends with a synchronisation, so nothing is queued between two.
SyncState ==
  /\ pc \in {"start", "loop"} \/ Empty => stream = <<>>
  /\ pc \in Working \/ (pc = "setup" /\ ~Empty) =>
       EndsInSync(todo) /\ (stream # <<>> => todo # <<>>)
  /\ Empty => log = <<>> /\ graph = <<>>
  /\ todo # <<>> => pc \in Working \cup {"setup", "capture"}

\* What is pending is in the order of the pipeline, it is work of the current
\* function, and all of it is pending up to the point the device has reached.
QueueState ==
  /\ pc = "setup" => todo \in Seq(SetupCallSet) /\ Queued \subseteq SetupUploads
  /\ pc \in Working =>
      /\ Within(pc, todo, 1, 25)
      /\ Called(todo) \subseteq {"enqueue", "device_sync", "launch"}
      /\ "launch" \in Called(todo) => pc = "run" /\ ~Staged
      /\ \A i, j \in 1..Len(stream) : i < j => OpRank(stream[i].op) < OpRank(stream[j].op)
      /\ \A i \in 1..Len(stream), j \in 1..Len(todo) :
           OpRank(stream[i].op) < CallRank(pc, todo[j])
      /\ \A i \in 1..Len(stream) : stream[i].run = index
      /\ Pending \subseteq PhaseOps
      /\ \A o \in PhaseOps \ Pending, q \in Pending : OpRank(o) < OpRank(q)

OInv == CaptureOrder /\ GraphState /\ SyncState /\ QueueState

-----------------------------------------------------------------------------
(* Ranks *)

\* Every operation has its rank.
LEMMA OpRanks ==
  ASSUME NEW W, NEW o \in Ops(W)
  PROVE  /\ OpRank(o) \in Nat /\ 4 <= OpRank(o) /\ OpRank(o) < 23
         /\ o.op = "upload" => OpRank(o) = 5
         /\ o.op = "memset" => OpRank(o) = 7
         /\ o.op = "k1" => OpRank(o) = 9
         /\ o.op = "k2" => OpRank(o) = 12
         /\ o.op = "k3" => OpRank(o) = 15
         /\ o.op = "record" => o.event \in Events /\ OpRank(o) = EventRank[o.event]
         /\ o.op = "download" => o.what \in HostFields /\ OpRank(o) = ResultRank[o.what]
<1>1. \A e \in Events : EventRank[e] \in 4..22
  BY DEF Events, EventRank
<1>2. \A what \in HostFields : ResultRank[what] \in 4..22
  BY DEF HostFields, ResultRank
<1>3. CASE o.op \in {"memset", "k3", "k1", "k2", "upload"}
  <2>1. /\ o.op = "upload" => OpRank(o) = 5
        /\ o.op = "memset" => OpRank(o) = 7
        /\ o.op = "k1" => OpRank(o) = 9
        /\ o.op = "k2" => OpRank(o) = 12
        /\ o.op = "k3" => OpRank(o) = 15
    BY DEF OpRank
  <2> QED
    BY <1>3, <2>1
<1>4. CASE o.op = "record"
  <2>1. o.event \in Events
    BY <1>4 DEF Ops
  <2> QED
    BY <1>1, <1>4, <2>1 DEF OpRank
<1>5. CASE o.op = "download"
  <2>1. o.what \in HostFields
    BY <1>5 DEF Ops, HostFields
  <2> QED
    BY <1>2, <1>5, <2>1 DEF OpRank
<1>6. o.op \in {"memset", "k3", "k1", "k2", "upload", "record", "download"}
  BY DEF Ops
<1> QED
  BY <1>3, <1>4, <1>5, <1>6

\* The ranks of the calls.
LEMMA CallRanks ==
  ASSUME NEW W, NEW p, NEW c \in Calls(W)
  PROVE  /\ CallRank(p, c) \in Nat /\ 1 <= CallRank(p, c) /\ CallRank(p, c) < 25
         /\ c.call = "enqueue" => c.op \in Ops(W) /\ CallRank(p, c) = OpRank(c.op)
         /\ c.call = "poison" => CallRank(p, c) = 1
         /\ c.call = "device_sync" => CallRank(p, c) = IF p = "capture" THEN 2 ELSE 23
         /\ c.call \in {"begin_capture", "launch"} => CallRank(p, c) = 3
         /\ c.call = "end_capture" => CallRank(p, c) = 23
         /\ c.call = "instantiate" => CallRank(p, c) = 24
<1>1. c.call = "enqueue" => c.op \in Ops(W) /\ OpRank(c.op) \in Nat /\ 4 <= OpRank(c.op) /\ OpRank(c.op) < 23
  BY CallFacts, OpRanks
<1>2. CASE c.call = "enqueue"
  BY <1>1, <1>2 DEF CallRank
<1>3. CASE c.call # "enqueue"
  BY <1>3 DEF CallRank
<1> QED
  BY <1>2, <1>3

-----------------------------------------------------------------------------
(* Pieces of calls *)

\* A sequence of calls with ranks from lo to below hi, in order, the operations
\* O among them and the calls named C.
Piece(S, p, s, lo, hi, O, C) ==
  s \in Seq(S) /\ Within(p, s, lo, hi) /\ Asked(s) = O /\ Called(s) = C

\* Operations and names of a concatenation.
LEMMA AskedConcat ==
  ASSUME NEW S, NEW a \in Seq(S), NEW b \in Seq(S)
  PROVE  /\ Asked(a \o b) = Asked(a) \cup Asked(b)
         /\ Called(a \o b) = Called(a) \cup Called(b)
<1> DEFINE s == a \o b
           m == Len(a)
           n == Len(b)
<1>1. m \in Nat /\ n \in Nat /\ Len(s) = m + n
  BY ConcatProperties
<1>2. \A i \in 1..m : s[i] = a[i] /\ i \in 1..(m + n)
  BY <1>1, ConcatProperties
<1>3. \A i \in 1..n : s[m + i] = b[i] /\ m + i \in 1..(m + n)
  BY <1>1, ConcatProperties
<1>4. \A i \in 1..(m + n) : i \in 1..m \/ (i - m \in 1..n /\ m + (i - m) = i)
  BY <1>1
<1> HIDE DEF s, m, n
<1>5. \A i \in 1..(m + n) : (i \in 1..m /\ s[i] = a[i]) \/ (i - m \in 1..n /\ s[i] = b[i - m])
  BY <1>2, <1>3, <1>4
<1>6. Asked(s) \subseteq Asked(a) \cup Asked(b) /\ Called(s) \subseteq Called(a) \cup Called(b)
  <2>1. \A i \in 1..(m + n) : s[i].call \in Called(a) \cup Called(b)
    BY <1>5 DEF Called, m, n
  <2>2. \A i \in 1..(m + n) : s[i].call = "enqueue" => s[i].op \in Asked(a) \cup Asked(b)
    BY <1>5 DEF Asked, m, n
  <2> QED
    BY <1>1, <2>1, <2>2 DEF Asked, Called
<1>7. Asked(a) \subseteq Asked(s) /\ Called(a) \subseteq Called(s)
  BY <1>1, <1>2 DEF Asked, Called, m
<1>8. Asked(b) \subseteq Asked(s) /\ Called(b) \subseteq Called(s)
  <2>1. \A i \in 1..n : b[i].call \in Called(s)
    BY <1>1, <1>3 DEF Called
  <2>2. \A i \in 1..n : b[i].call = "enqueue" => b[i].op \in Asked(s)
    BY <1>1, <1>3 DEF Asked
  <2> QED
    BY <2>1, <2>2 DEF Asked, Called, n
<1> QED
  BY <1>6, <1>7, <1>8 DEF s

\* A sequence of calls that asks for the operations A.
Asks(S, s, A) == s \in Seq(S) /\ Asked(s) = A

\* The operations of a concatenation are those of its parts.
LEMMA AsksConcat ==
  ASSUME NEW S, NEW a, NEW b, NEW A, NEW B, Asks(S, a, A), Asks(S, b, B)
  PROVE  Asks(S, a \o b, A \cup B)
<1>1. a \in Seq(S) /\ b \in Seq(S) /\ Asked(a) = A /\ Asked(b) = B
  BY DEF Asks
<1>2. Asked(a \o b) = Asked(a) \cup Asked(b)
  BY <1>1, AskedConcat
<1> QED
  BY <1>1, <1>2, ConcatSeq DEF Asks

\* Two pieces, one after the other.
LEMMA WithinConcat ==
  ASSUME NEW W, NEW a \in Seq(Calls(W)), NEW b \in Seq(Calls(W)), NEW p,
         NEW lo \in Nat, NEW mid \in Nat, NEW hi \in Nat, lo <= mid, mid <= hi,
         Within(p, a, lo, mid), Within(p, b, mid, hi)
  PROVE  Within(p, a \o b, lo, hi)
<1> DEFINE s == a \o b
           m == Len(a)
           n == Len(b)
<1>1. m \in Nat /\ n \in Nat /\ Len(s) = m + n
  BY ConcatProperties
<1>2. \A i \in 1..m : s[i] = a[i] /\ s[i] \in Calls(W)
  BY <1>1, ConcatProperties
<1>3. \A i \in 1..n : s[m + i] = b[i] /\ s[m + i] \in Calls(W)
  BY <1>1, ConcatProperties
<1>4. \A i \in 1..(m + n) : i \in 1..m \/ (i - m \in 1..n /\ m + (i - m) = i)
  BY <1>1
<1> HIDE DEF s, m, n
<1>5. \A i \in 1..(m + n) : \/ i \in 1..m /\ s[i] = a[i] /\ s[i] \in Calls(W)
                            \/ i - m \in 1..n /\ s[i] = b[i - m] /\ s[i] \in Calls(W)
  BY <1>2, <1>3, <1>4
<1>6. ASSUME NEW i \in 1..(m + n) PROVE CallRank(p, s[i]) \in Nat
  <2>1. s[i] \in Calls(W)
    BY <1>5
  <2> QED
    BY <2>1, CallRanks
<1>7. \A i \in 1..m : lo <= CallRank(p, s[i]) /\ CallRank(p, s[i]) < mid
  BY <1>2 DEF Within, m
<1>8. \A i \in 1..(m + n) : i \notin 1..m => mid <= CallRank(p, s[i]) /\ CallRank(p, s[i]) < hi
  BY <1>5 DEF Within, n
<1>9. ASSUME NEW i \in 1..(m + n), NEW j \in 1..(m + n), i < j PROVE CallRank(p, s[i]) < CallRank(p, s[j])
  <2>1. CASE j \in 1..m
    <3>1. i \in 1..m
      BY <1>1, <1>9, <2>1
    <3> QED
      BY <1>2, <1>9, <2>1, <3>1 DEF Within, m
  <2>2. CASE j \notin 1..m /\ i \in 1..m
    <3>1. CallRank(p, s[i]) \in Nat /\ CallRank(p, s[j]) \in Nat
      BY <1>6
    <3>2. CallRank(p, s[i]) < mid
      BY <1>7, <2>2
    <3>3. mid <= CallRank(p, s[j])
      BY <1>8, <2>2
    <3> QED
      BY <3>1, <3>2, <3>3
  <2>3. CASE j \notin 1..m /\ i \notin 1..m
    <3>1. i - m \in 1..n /\ j - m \in 1..n /\ s[i] = b[i - m] /\ s[j] = b[j - m]
      BY <1>5, <2>3
    <3>2. i - m < j - m
      BY <1>1, <1>9
    <3> QED
      BY <3>1, <3>2 DEF Within, n
  <2> QED
    BY <2>1, <2>2, <2>3
<1>10. \A i \in 1..(m + n) : lo <= CallRank(p, s[i]) /\ CallRank(p, s[i]) < hi
  <2> SUFFICES ASSUME NEW i \in 1..(m + n) PROVE lo <= CallRank(p, s[i]) /\ CallRank(p, s[i]) < hi
    OBVIOUS
  <2>1. CallRank(p, s[i]) \in Nat
    BY <1>6
  <2>2. CASE i \in 1..m
    BY <1>7, <2>1, <2>2
  <2>3. CASE i \notin 1..m
    BY <1>8, <2>1, <2>3
  <2> QED
    BY <2>2, <2>3
<1> QED
  BY <1>1, <1>9, <1>10 DEF Within, s

\* A piece followed by one of higher ranks is a piece.
LEMMA PieceConcat ==
  ASSUME NEW W, NEW p, NEW a, NEW b, NEW lo \in Nat, NEW mid \in Nat, NEW hi \in Nat,
         lo <= mid, mid <= hi, NEW O1, NEW O2, NEW C1, NEW C2,
         Piece(Calls(W), p, a, lo, mid, O1, C1), Piece(Calls(W), p, b, mid, hi, O2, C2)
  PROVE  Piece(Calls(W), p, a \o b, lo, hi, O1 \cup O2, C1 \cup C2)
<1>1. /\ a \in Seq(Calls(W)) /\ b \in Seq(Calls(W)) /\ Within(p, a, lo, mid)
      /\ Within(p, b, mid, hi)
      /\ Asked(a) = O1 /\ Asked(b) = O2 /\ Called(a) = C1 /\ Called(b) = C2
  BY DEF Piece
<1>2. Within(p, a \o b, lo, hi)
  BY <1>1, WithinConcat
<1>3. Asked(a \o b) = O1 \cup O2 /\ Called(a \o b) = C1 \cup C2
  BY <1>1, AskedConcat
<1> QED
  BY <1>1, <1>2, <1>3, ConcatSeq DEF Piece

\* A piece fits in a wider range.
LEMMA PieceWider ==
  ASSUME NEW W, NEW p, NEW s, NEW lo \in Nat, NEW low \in Nat, NEW hi, NEW O, NEW C,
         low <= lo, Piece(Calls(W), p, s, lo, hi, O, C)
  PROVE  Piece(Calls(W), p, s, low, hi, O, C)
<1>1. \A i \in 1..Len(s) : CallRank(p, s[i]) \in Nat
  BY CallRanks DEF Piece
<1> QED
  BY <1>1 DEF Piece, Within

\* A conditional piece.
LEMMA PieceWhen ==
  ASSUME NEW W, NEW p, NEW s, NEW lo, NEW hi, NEW O, NEW C, NEW c,
         Piece(Calls(W), p, s, lo, hi, O, C)
  PROVE  Piece(Calls(W), p, When(c, s), lo, hi, IF c THEN O ELSE {}, IF c THEN C ELSE {})
<1>1. CASE c
  BY <1>1 DEF When
<1>2. CASE ~c
  <2>1. Piece(Calls(W), p, <<>>, lo, hi, {}, {})
    BY DEF Piece, Within, Asked, Called
  <2> QED
    BY <1>2, <2>1 DEF When
<1> QED
  BY <1>1, <1>2

\* Pieces of one to three calls.
LEMMA PieceOne ==
  ASSUME NEW W, NEW p, NEW a \in Calls(W), NEW lo \in Nat, NEW hi \in Nat,
         lo <= CallRank(p, a), CallRank(p, a) < hi
  PROVE  Piece(Calls(W), p, <<a>>, lo, hi, IF a.call = "enqueue" THEN {a.op} ELSE {}, {a.call})
<1> DEFINE S == Calls(W)
<1>1. a \in S
  OBVIOUS
<1> HIDE DEF S
<1>2. <<a>> \in Seq(S) /\ Len(<<a>>) = 1 /\ <<a>>[1] = a
  BY <1>1
<1>3. Within(p, <<a>>, lo, hi)
  BY <1>2 DEF Within
<1>4. Asked(<<a>>) = (IF a.call = "enqueue" THEN {a.op} ELSE {}) /\ Called(<<a>>) = {a.call}
  BY <1>2 DEF Asked, Called
<1> QED
  BY <1>2, <1>3, <1>4 DEF Piece, S

\* Two calls in order are a piece.
LEMMA PieceTwo ==
  ASSUME NEW W, NEW p, NEW a \in Calls(W), NEW b \in Calls(W), NEW lo \in Nat, NEW hi \in Nat,
         lo <= CallRank(p, a), CallRank(p, a) < CallRank(p, b), CallRank(p, b) < hi
  PROVE  Piece(Calls(W), p, <<a, b>>, lo, hi,
               (IF a.call = "enqueue" THEN {a.op} ELSE {})
               \cup (IF b.call = "enqueue" THEN {b.op} ELSE {}), {a.call, b.call})
<1> DEFINE S == Calls(W)
           s == <<a, b>>
<1>1. a \in S /\ b \in S /\ CallRank(p, a) \in Nat /\ CallRank(p, b) \in Nat
  BY CallRanks
<1> HIDE DEF S
<1>2. s \in Seq(S) /\ 1..Len(s) = {1, 2} /\ s[1] = a /\ s[2] = b
  BY <1>1
<1> HIDE DEF s
<1>3. Within(p, s, lo, hi)
  BY <1>1, <1>2, SMTT(20) DEF Within
<1>4. Called(s) = {a.call, b.call}
  BY <1>2 DEF Called
<1>5. Asked(s) = (IF a.call = "enqueue" THEN {a.op} ELSE {})
                 \cup (IF b.call = "enqueue" THEN {b.op} ELSE {})
  BY <1>2 DEF Asked
<1> QED
  BY <1>2, <1>3, <1>4, <1>5 DEF Piece, S, s

\* A queued operation has the rank of the operation.
LEMMA EnqueueFacts ==
  ASSUME NEW W, NEW p, NEW o \in Ops(W)
  PROVE  /\ Enqueue(o) \in Calls(W) /\ Enqueue(o).call = "enqueue" /\ Enqueue(o).op = o
         /\ CallRank(p, Enqueue(o)) = OpRank(o) /\ OpRank(o) \in Nat
<1>1. Enqueue(o) \in Calls(W) /\ Enqueue(o).call = "enqueue" /\ Enqueue(o).op = o
  BY DEF Enqueue, Calls
<1> QED
  BY <1>1, CallRanks, OpRanks

\* One operation is a piece, in the place of its rank.
LEMMA EnqueueOne ==
  ASSUME NEW W, NEW p, NEW o \in Ops(W), NEW lo \in Nat, NEW hi \in Nat,
         lo <= OpRank(o), OpRank(o) < hi
  PROVE  Piece(Calls(W), p, <<Enqueue(o)>>, lo, hi, {o}, {"enqueue"})
<1> DEFINE a == Enqueue(o)
<1>1. /\ a \in Calls(W) /\ a.call = "enqueue" /\ a.op = o /\ CallRank(p, a) = OpRank(o)
  BY EnqueueFacts
<1> HIDE DEF a
<1>2. Piece(Calls(W), p, <<a>>, lo, hi, IF a.call = "enqueue" THEN {a.op} ELSE {}, {a.call})
  BY <1>1, PieceOne
<1> QED
  BY <1>1, <1>2 DEF a

\* So are two operations in order.
LEMMA EnqueueTwo ==
  ASSUME NEW W, NEW p, NEW o \in Ops(W), NEW q \in Ops(W), NEW lo \in Nat, NEW hi \in Nat,
         lo <= OpRank(o), OpRank(o) < OpRank(q), OpRank(q) < hi
  PROVE  Piece(Calls(W), p, <<Enqueue(o), Enqueue(q)>>, lo, hi, {o, q}, {"enqueue"})
<1> DEFINE a == Enqueue(o)
           b == Enqueue(q)
<1>1. /\ a \in Calls(W) /\ a.call = "enqueue" /\ a.op = o /\ CallRank(p, a) = OpRank(o)
      /\ b \in Calls(W) /\ b.call = "enqueue" /\ b.op = q /\ CallRank(p, b) = OpRank(q)
  BY EnqueueFacts
<1> HIDE DEF a, b
<1>2. Piece(Calls(W), p, <<a, b>>, lo, hi,
            (IF a.call = "enqueue" THEN {a.op} ELSE {})
            \cup (IF b.call = "enqueue" THEN {b.op} ELSE {}), {a.call, b.call})
  BY <1>1, PieceTwo
<1>3. (IF a.call = "enqueue" THEN {a.op} ELSE {})
        \cup (IF b.call = "enqueue" THEN {b.op} ELSE {}) = {o, q}
  BY <1>1
<1>4. {a.call, b.call} = {"enqueue"}
  BY <1>1
<1> QED
  BY <1>2, <1>3, <1>4 DEF a, b

\* And so is one call.
LEMMA CallOne ==
  ASSUME NEW W, NEW p, NEW n \in CallNames, NEW lo \in Nat, NEW hi \in Nat,
         lo <= CallRank(p, Call(n)), CallRank(p, Call(n)) < hi
  PROVE  Piece(Calls(W), p, <<Call(n)>>, lo, hi, {}, {n})
<1> DEFINE a == Call(n)
<1>1. a \in Calls(W) /\ a.call = n /\ n # "enqueue"
  BY CallMembers DEF Call, CallNames, OtherCalls
<1>2. lo <= CallRank(p, a) /\ CallRank(p, a) < hi
  OBVIOUS
<1> HIDE DEF a
<1>3. Piece(Calls(W), p, <<a>>, lo, hi, IF a.call = "enqueue" THEN {a.op} ELSE {}, {a.call})
  BY <1>1, <1>2, PieceOne
<1> QED
  BY <1>1, <1>3 DEF a

\* Longer literals are concatenations.
LEMMA Literals ==
  ASSUME NEW S, NEW a \in S, NEW b \in S, NEW c \in S, NEW d \in S
  PROVE  <<a, b, c>> = <<a, b>> \o <<c>> /\ <<a, b, c, d>> = <<a, b>> \o <<c, d>>
OBVIOUS

\* The operations of a pipeline and their ranks.
LEMMA NamedOps ==
  ASSUME NEW W, NEW w \in W
  PROVE  /\ MemsetOp \in Ops(W) /\ OpRank(MemsetOp) = 7
         /\ K1Op \in Ops(W) /\ OpRank(K1Op) = 9
         /\ K2Op(w) \in Ops(W) /\ OpRank(K2Op(w)) = 12
         /\ K3Op \in Ops(W) /\ OpRank(K3Op) = 15
         /\ \A e \in Events : RecordOp(e) \in Ops(W) /\ OpRank(RecordOp(e)) = EventRank[e]
         /\ \A to \in {"values", "scale", "words"} :
              UploadOp(to) \in Ops(W) /\ OpRank(UploadOp(to)) = 5
         /\ \A what \in HostFields :
              DownloadOp(what) \in Ops(W) /\ OpRank(DownloadOp(what)) = ResultRank[what]
<1>1. /\ MemsetOp \in Ops(W) /\ K3Op \in Ops(W) /\ K2Op(w) \in Ops(W)
      /\ MemsetOp.op = "memset" /\ K3Op.op = "k3" /\ K2Op(w).op = "k2"
  BY DEF MemsetOp, K2Op, K3Op, Ops
<1>2. K1Op \in Ops(W) /\ K1Op.op = "k1"
  BY DEF K1Op, Ops
<1>3. \A e \in Events : /\ RecordOp(e) \in Ops(W) /\ RecordOp(e).op = "record"
                        /\ RecordOp(e).event = e
  BY DEF RecordOp, Ops
<1>4. \A to \in {"values", "scale", "words"} :
        UploadOp(to) \in Ops(W) /\ UploadOp(to).op = "upload"
  BY DEF UploadOp, Ops
<1>5. \A what \in HostFields : /\ DownloadOp(what) \in Ops(W)
                               /\ DownloadOp(what).op = "download"
                               /\ DownloadOp(what).what = what
  BY DEF DownloadOp, Ops, HostFields
<1>6. /\ OpRank(MemsetOp) = 7 /\ OpRank(K3Op) = 15 /\ OpRank(K2Op(w)) = 12
      /\ OpRank(K1Op) = 9
  BY <1>1, <1>2, OpRanks
<1>7. \A e \in Events : OpRank(RecordOp(e)) = EventRank[e]
  BY <1>3, OpRanks
<1>8. \A to \in {"values", "scale", "words"} : OpRank(UploadOp(to)) = 5
  BY <1>4, OpRanks
<1>9. \A what \in HostFields : OpRank(DownloadOp(what)) = ResultRank[what]
  BY <1>5, OpRanks
<1> QED
  BY <1>1, <1>2, <1>3, <1>4, <1>5, <1>6, <1>7, <1>8, <1>9

\* enqueue_resident as a piece.
ResidentOps(w, timed) ==
  KernelOps(w) \cup (IF timed THEN {RecordOp(e) : e \in KernelEvents} ELSE {})

\* enqueue_resident is a piece of all its operations.
LEMMA ResidentPiece ==
  ASSUME NEW W, NEW w \in W, NEW timed \in BOOLEAN, NEW p
  PROVE  Piece(Calls(W), p, EnqueueResident(w, timed), 7, 17, ResidentOps(w, timed),
               {"enqueue"})
<1> DEFINE S == Calls(W)
           R(e) == RecordOp(e)
           s1 == <<Enqueue(MemsetOp)>>
           s2 == <<Enqueue(R("k1_start"))>>
           s3 == <<Enqueue(K1Op)>>
           s4 == <<Enqueue(R("k1_stop")), Enqueue(R("k2_start"))>>
           s5 == <<Enqueue(K2Op(w))>>
           s6 == <<Enqueue(R("k2_stop")), Enqueue(R("k3_start"))>>
           s7 == <<Enqueue(K3Op)>>
           s8 == <<Enqueue(R("k3_stop"))>>
           E == {"enqueue"}
           If(X) == IF timed THEN X ELSE {}
<1>1. EnqueueResident(w, timed) =
        s1 \o When(timed, s2) \o s3 \o When(timed, s4) \o s5 \o When(timed, s6) \o s7
           \o When(timed, s8)
  BY Zenon DEF EnqueueResident, Record, MemsetOp, K1Op, K2Op, K3Op, RecordOp
<1>2. /\ \A e \in KernelEvents : R(e) \in Ops(W) /\ OpRank(R(e)) = EventRank[e]
      /\ MemsetOp \in Ops(W) /\ OpRank(MemsetOp) = 7 /\ K1Op \in Ops(W) /\ OpRank(K1Op) = 9
      /\ K2Op(w) \in Ops(W) /\ OpRank(K2Op(w)) = 12 /\ K3Op \in Ops(W) /\ OpRank(K3Op) = 15
  BY NamedOps DEF KernelEvents, Events
<1>3. /\ R("k1_start") \in Ops(W) /\ OpRank(R("k1_start")) = 8
      /\ R("k1_stop") \in Ops(W) /\ OpRank(R("k1_stop")) = 10
      /\ R("k2_start") \in Ops(W) /\ OpRank(R("k2_start")) = 11
      /\ R("k2_stop") \in Ops(W) /\ OpRank(R("k2_stop")) = 13
      /\ R("k3_start") \in Ops(W) /\ OpRank(R("k3_start")) = 14
      /\ R("k3_stop") \in Ops(W) /\ OpRank(R("k3_stop")) = 16
  BY <1>2 DEF KernelEvents, EventRank
<1> HIDE DEF R
<1>4. /\ Piece(S, p, s1, 7, 8, {MemsetOp}, E) /\ Piece(S, p, s3, 9, 10, {K1Op}, E)
      /\ Piece(S, p, s5, 12, 13, {K2Op(w)}, E) /\ Piece(S, p, s7, 15, 16, {K3Op}, E)
  BY <1>2, EnqueueOne
<1>5. /\ Piece(S, p, s2, 8, 9, {R("k1_start")}, E)
      /\ Piece(S, p, s8, 16, 17, {R("k3_stop")}, E)
  BY <1>3, EnqueueOne
<1>6. /\ Piece(S, p, s4, 10, 12, {R("k1_stop"), R("k2_start")}, E)
      /\ Piece(S, p, s6, 13, 15, {R("k2_stop"), R("k3_start")}, E)
  BY <1>3, EnqueueTwo
<1> HIDE DEF s1, s2, s3, s4, s5, s6, s7, s8, E
<1>7. /\ Piece(S, p, When(timed, s2), 8, 9, If({R("k1_start")}), If(E))
      /\ Piece(S, p, When(timed, s4), 10, 12, If({R("k1_stop"), R("k2_start")}), If(E))
      /\ Piece(S, p, When(timed, s6), 13, 15, If({R("k2_stop"), R("k3_start")}), If(E))
      /\ Piece(S, p, When(timed, s8), 16, 17, If({R("k3_stop")}), If(E))
  BY <1>5, <1>6, PieceWhen
<1> DEFINE t2 == When(timed, s2)
           t4 == When(timed, s4)
           t6 == When(timed, s6)
           t8 == When(timed, s8)
           O2 == If({R("k1_start")})
           O4 == If({R("k1_stop"), R("k2_start")})
           O6 == If({R("k2_stop"), R("k3_start")})
           O8 == If({R("k3_stop")})
           F == If(E)
           O == {MemsetOp} \cup O2 \cup {K1Op} \cup O4 \cup {K2Op(w)} \cup O6 \cup {K3Op} \cup O8
           C == E \cup F \cup E \cup F \cup E \cup F \cup E \cup F
<1>8. C = {"enqueue"}
  BY DEF E
<1>9. O = ResidentOps(w, timed)
  BY DEF ResidentOps, KernelOps, KernelEvents, R
<1>10. Piece(S, p, t2, 8, 9, O2, F) /\ Piece(S, p, t4, 10, 12, O4, F)
       /\ Piece(S, p, t6, 13, 15, O6, F) /\ Piece(S, p, t8, 16, 17, O8, F)
  BY <1>7
<1> HIDE DEF t2, t4, t6, t8, O2, O4, O6, O8, F, S
<1>11. Piece(S, p, s1 \o t2, 7, 9, {MemsetOp} \cup O2, E \cup F)
  BY <1>4, <1>10, PieceConcat DEF S
<1>12. Piece(S, p, s1 \o t2 \o s3, 7, 10, {MemsetOp} \cup O2 \cup {K1Op}, E \cup F \cup E)
  BY <1>4, <1>11, PieceConcat DEF S
<1>13. Piece(S, p, s1 \o t2 \o s3 \o t4, 7, 12, {MemsetOp} \cup O2 \cup {K1Op} \cup O4,
             E \cup F \cup E \cup F)
  BY <1>10, <1>12, PieceConcat DEF S
<1>14. Piece(S, p, s1 \o t2 \o s3 \o t4 \o s5, 7, 13,
             {MemsetOp} \cup O2 \cup {K1Op} \cup O4 \cup {K2Op(w)},
             E \cup F \cup E \cup F \cup E)
  BY <1>4, <1>13, PieceConcat DEF S
<1>15. Piece(S, p, s1 \o t2 \o s3 \o t4 \o s5 \o t6, 7, 15,
             {MemsetOp} \cup O2 \cup {K1Op} \cup O4 \cup {K2Op(w)} \cup O6,
             E \cup F \cup E \cup F \cup E \cup F)
  BY <1>10, <1>14, PieceConcat DEF S
<1>16. Piece(S, p, s1 \o t2 \o s3 \o t4 \o s5 \o t6 \o s7, 7, 16,
             {MemsetOp} \cup O2 \cup {K1Op} \cup O4 \cup {K2Op(w)} \cup O6 \cup {K3Op},
             E \cup F \cup E \cup F \cup E \cup F \cup E)
  BY <1>4, <1>15, PieceConcat DEF S
<1>17. Piece(S, p, s1 \o t2 \o s3 \o t4 \o s5 \o t6 \o s7 \o t8, 7, 17, O, C)
  BY <1>10, <1>16, PieceConcat DEF S
<1> QED
  BY <1>1, <1>8, <1>9, <1>17 DEF S, t2, t4, t6, t8

\* A sequence that ends with a synchronisation.
LEMMA SyncLast ==
  ASSUME NEW S, NEW s \in Seq(S), NEW n \in {"stream_sync", "device_sync"}, Call(n) \in S
  PROVE  EndsInSync(s \o <<Call(n)>>)
<1> DEFINE t == s \o <<Call(n)>>
           m == Len(s)
<1>1. m \in Nat /\ Len(t) = m + 1 /\ t[m + 1] = Call(n)
  <2>1. <<Call(n)>> \in Seq(S) /\ Len(<<Call(n)>>) = 1 /\ <<Call(n)>>[1] = Call(n)
    OBVIOUS
  <2> QED
    BY <2>1, ConcatProperties
<1> HIDE DEF t, m
<1>2. t[Len(t)].call = n
  BY <1>1 DEF Call
<1>3. EndsInSync(t)
  BY <1>2 DEF EndsInSync
<1> QED
  BY <1>3 DEF t

\* run_bench_pipeline as a piece.
LEMMA PipelinePiece ==
  ASSUME NEW W, NEW id, Words(id) \in W, NEW boundary, NEW copyOutputs \in BOOLEAN,
         NEW inspect \in BOOLEAN, NEW p, p # "capture"
  PROVE  LET s == BenchPipeline(id, boundary, copyOutputs, inspect) IN
         /\ Piece(Calls(W), p, s, 1, 25, PipelineOps(Words(id), boundary, copyOutputs, inspect),
                  {"enqueue", "device_sync"})
         /\ EndsInSync(s)
<1> DEFINE S == Calls(W)
           w == Words(id)
           r1 == RecordOp("h2d_start")
           r2 == RecordOp("h2d_stop")
           r3 == RecordOp("d2h_start")
           r4 == RecordOp("d2h_stop")
           u == UploadOp("values")
           d1 == DownloadOp("payload")
           d2 == DownloadOp("scale")
           d3 == DownloadOp("status")
           d4 == DownloadOp("flags")
           h == boundary = "host_origin"
           a == <<Enqueue(r1), Enqueue(u), Enqueue(r2)>>
           b == EnqueueResident(w, TRUE)
           c == <<Enqueue(r3), Enqueue(d1), Enqueue(d2), Enqueue(r4)>>
           d == <<Enqueue(d3), Enqueue(d4)>>
           e == <<Call("device_sync")>>
           E == {"enqueue"}
<1>1. BenchPipeline(id, boundary, copyOutputs, inspect) =
        When(h, a) \o b \o When(copyOutputs, c) \o When(inspect, d) \o e
  BY Zenon DEF BenchPipeline, Record, Upload, Download, RecordOp, UploadOp, DownloadOp
<1>2. /\ r1 \in Ops(W) /\ OpRank(r1) = 4 /\ r2 \in Ops(W) /\ OpRank(r2) = 6
      /\ r3 \in Ops(W) /\ OpRank(r3) = 17 /\ r4 \in Ops(W) /\ OpRank(r4) = 20
      /\ u \in Ops(W) /\ OpRank(u) = 5
  <2>1. /\ \A x \in Events : RecordOp(x) \in Ops(W) /\ OpRank(RecordOp(x)) = EventRank[x]
        /\ u \in Ops(W) /\ OpRank(u) = 5
    BY NamedOps
  <2> QED
    BY <2>1 DEF Events, EventRank
<1>3. /\ d1 \in Ops(W) /\ OpRank(d1) = 18 /\ d2 \in Ops(W) /\ OpRank(d2) = 19
      /\ d3 \in Ops(W) /\ OpRank(d3) = 21 /\ d4 \in Ops(W) /\ OpRank(d4) = 22
  <2>1. \A x \in HostFields : DownloadOp(x) \in Ops(W) /\ OpRank(DownloadOp(x)) = ResultRank[x]
    BY NamedOps
  <2> QED
    BY <2>1 DEF HostFields, ResultRank
<1>4. Piece(S, p, b, 7, 17, ResidentOps(w, TRUE), E)
  <2> DEFINE yes == TRUE
  <2>1. yes \in BOOLEAN
    OBVIOUS
  <2> HIDE DEF yes
  <2>2. Piece(Calls(W), p, EnqueueResident(w, yes), 7, 17, ResidentOps(w, yes), {"enqueue"})
    BY <2>1, ResidentPiece
  <2> QED
    BY <2>2 DEF yes
<1>5. Call("device_sync") \in S /\ Piece(S, p, e, 23, 25, {}, {"device_sync"})
  <2>1. "device_sync" \in CallNames
    BY DEF CallNames, OtherCalls
  <2>2. Call("device_sync") \in S /\ Call("device_sync").call = "device_sync"
    BY <2>1, CallMembers DEF Call
  <2>3. CallRank(p, Call("device_sync")) = 23
    BY <2>2, CallRanks
  <2> QED
    BY <2>1, <2>2, <2>3, CallOne
<1> HIDE DEF r1, r2, r3, r4, u, d1, d2, d3, d4, h, b, e
<1>6. Piece(S, p, a, 4, 7, {r1, u, r2}, E)
  <2>1. Piece(S, p, <<Enqueue(r1), Enqueue(u)>>, 4, 6, {r1, u}, E)
    BY <1>2, EnqueueTwo
  <2>2. Piece(S, p, <<Enqueue(r2)>>, 6, 7, {r2}, E)
    BY <1>2, EnqueueOne
  <2>3. a = <<Enqueue(r1), Enqueue(u)>> \o <<Enqueue(r2)>>
    BY Literals
  <2>4. Piece(S, p, <<Enqueue(r1), Enqueue(u)>> \o <<Enqueue(r2)>>, 4, 7, {r1, u} \cup {r2}, E \cup E)
    BY <2>1, <2>2, PieceConcat
  <2>5. {r1, u} \cup {r2} = {r1, u, r2} /\ E \cup E = E
    OBVIOUS
  <2> HIDE DEF E
  <2> QED
    BY <2>3, <2>4, <2>5
<1>7. Piece(S, p, c, 17, 21, {r3, d1, d2, r4}, E)
  <2>1. Piece(S, p, <<Enqueue(r3), Enqueue(d1)>>, 17, 19, {r3, d1}, E)
    BY <1>2, <1>3, EnqueueTwo
  <2>2. Piece(S, p, <<Enqueue(d2), Enqueue(r4)>>, 19, 21, {d2, r4}, E)
    BY <1>2, <1>3, EnqueueTwo
  <2>3. c = <<Enqueue(r3), Enqueue(d1)>> \o <<Enqueue(d2), Enqueue(r4)>>
    BY Literals
  <2>4. Piece(S, p, <<Enqueue(r3), Enqueue(d1)>> \o <<Enqueue(d2), Enqueue(r4)>>, 17, 21,
              {r3, d1} \cup {d2, r4}, E \cup E)
    BY <2>1, <2>2, PieceConcat
  <2>5. {r3, d1} \cup {d2, r4} = {r3, d1, d2, r4} /\ E \cup E = E
    OBVIOUS
  <2> HIDE DEF E
  <2> QED
    BY <2>3, <2>4, <2>5
<1>8. Piece(S, p, d, 21, 23, {d3, d4}, E)
  BY <1>3, EnqueueTwo
<1> HIDE DEF a, c, d
<1> DEFINE Oa == IF h THEN {r1, u, r2} ELSE {}
           Oc == IF copyOutputs THEN {r3, d1, d2, r4} ELSE {}
           Od == IF inspect THEN {d3, d4} ELSE {}
           Ca == IF h THEN E ELSE {}
           Cc == IF copyOutputs THEN E ELSE {}
           Cd == IF inspect THEN E ELSE {}
           Ob == ResidentOps(w, TRUE)
           ta == When(h, a)
           tc == When(copyOutputs, c)
           td == When(inspect, d)
<1>9. Piece(S, p, ta, 4, 7, Oa, Ca) /\ Piece(S, p, tc, 17, 21, Oc, Cc)
      /\ Piece(S, p, td, 21, 23, Od, Cd)
  BY <1>6, <1>7, <1>8, PieceWhen
<1>10. Oa \cup Ob \cup Oc \cup Od \cup {} = PipelineOps(w, boundary, copyOutputs, inspect)
  BY DEF PipelineOps, ResidentOps, r1, r2, r3, r4, u, d1, d2, d3, d4, h
<1>11. Ca \cup E \cup Cc \cup Cd \cup {"device_sync"} = {"enqueue", "device_sync"}
  OBVIOUS
<1>12. Piece(S, p, b, 7, 17, Ob, E)
  BY <1>4
<1> HIDE DEF S, E, Oa, Ob, Oc, Od, Ca, Cc, Cd, ta, tc, td
<1>13. Piece(S, p, ta \o b, 4, 17, Oa \cup Ob, Ca \cup E)
  BY <1>9, <1>12, PieceConcat DEF S
<1>14. Piece(S, p, ta \o b \o tc, 4, 21, Oa \cup Ob \cup Oc, Ca \cup E \cup Cc)
  BY <1>9, <1>13, PieceConcat DEF S
<1>15. Piece(S, p, ta \o b \o tc \o td, 4, 23, Oa \cup Ob \cup Oc \cup Od, Ca \cup E \cup Cc \cup Cd)
  BY <1>9, <1>14, PieceConcat DEF S
<1>16. Piece(S, p, ta \o b \o tc \o td \o e, 4, 25, Oa \cup Ob \cup Oc \cup Od \cup {},
             Ca \cup E \cup Cc \cup Cd \cup {"device_sync"})
  BY <1>5, <1>15, PieceConcat DEF S
<1>17. EndsInSync(ta \o b \o tc \o td \o e)
  <2>1. ta \o b \o tc \o td \in Seq(S)
    BY <1>15 DEF Piece
  <2> QED
    BY <1>5, <2>1, SyncLast DEF e
<1>18. Piece(S, p, ta \o b \o tc \o td \o e, 1, 25,
             PipelineOps(w, boundary, copyOutputs, inspect), {"enqueue", "device_sync"})
  <2>1. Piece(S, p, ta \o b \o tc \o td \o e, 4, 25,
              PipelineOps(w, boundary, copyOutputs, inspect), {"enqueue", "device_sync"})
    BY <1>10, <1>11, <1>16
  <2> QED
    BY <2>1, PieceWider DEF S
<1> QED
  BY <1>1, <1>17, <1>18 DEF S, ta, tc, td

\* The readback of a graph benchmark as a piece.
LEMMA ReadbackPiece ==
  ASSUME NEW W, W # {}, NEW p, p # "capture"
  PROVE  /\ Piece(Calls(W), p, Readback, 1, 25, {DownloadOp(what) : what \in HostFields},
                  {"enqueue", "device_sync"})
         /\ EndsInSync(Readback)
<1> DEFINE S == Calls(W)
           d1 == DownloadOp("payload")
           d2 == DownloadOp("scale")
           d3 == DownloadOp("status")
           d4 == DownloadOp("flags")
           a == <<Enqueue(d1), Enqueue(d2)>>
           b == <<Enqueue(d3), Enqueue(d4)>>
           e == <<Call("device_sync")>>
           E == {"enqueue"}
<1>1. /\ d1 \in Ops(W) /\ OpRank(d1) = 18 /\ d2 \in Ops(W) /\ OpRank(d2) = 19
      /\ d3 \in Ops(W) /\ OpRank(d3) = 21 /\ d4 \in Ops(W) /\ OpRank(d4) = 22
  <2>1. \A x \in HostFields : DownloadOp(x) \in Ops(W) /\ OpRank(DownloadOp(x)) = ResultRank[x]
    BY NamedOps
  <2> QED
    BY <2>1 DEF HostFields, ResultRank
<1>2. Call("device_sync") \in S /\ Piece(S, p, e, 23, 25, {}, {"device_sync"})
  <2>1. "device_sync" \in CallNames
    BY DEF CallNames, OtherCalls
  <2>2. Call("device_sync") \in S /\ Call("device_sync").call = "device_sync"
    BY <2>1, CallMembers DEF Call
  <2>3. CallRank(p, Call("device_sync")) = 23
    BY <2>2, CallRanks
  <2> QED
    BY <2>1, <2>2, <2>3, CallOne
<1>3. {DownloadOp(what) : what \in HostFields} = {d1, d2} \cup {d3, d4} \cup {}
  BY DEF HostFields
<1>4. Readback = <<Enqueue(d1), Enqueue(d2), Enqueue(d3), Enqueue(d4), Call("device_sync")>>
  BY Zenon DEF Readback, Download, DownloadOp
<1> HIDE DEF d1, d2, d3, d4
<1>5. Readback = a \o b \o e
  <2>1. <<Enqueue(d1), Enqueue(d2), Enqueue(d3), Enqueue(d4), Call("device_sync")>> = a \o b \o e
    OBVIOUS
  <2> QED
    BY <1>4, <2>1
<1>6. Piece(S, p, a, 18, 20, {d1, d2}, E) /\ Piece(S, p, b, 20, 23, {d3, d4}, E)
  BY <1>1, EnqueueTwo
<1> HIDE DEF S, a, b, e, E
<1>7. Piece(S, p, a \o b, 18, 23, {d1, d2} \cup {d3, d4}, E \cup E)
  BY <1>6, PieceConcat DEF S
<1>8. Piece(S, p, a \o b \o e, 18, 25, {d1, d2} \cup {d3, d4} \cup {}, E \cup E \cup {"device_sync"})
  BY <1>2, <1>7, PieceConcat DEF S
<1>9. E \cup E \cup {"device_sync"} = {"enqueue", "device_sync"}
  BY DEF E
<1>10. EndsInSync(a \o b \o e)
  <2>1. a \o b \in Seq(S)
    BY <1>7 DEF Piece
  <2> QED
    BY <1>2, <2>1, SyncLast DEF e
<1>11. Piece(S, p, a \o b \o e, 1, 25, {d1, d2} \cup {d3, d4} \cup {}, {"enqueue", "device_sync"})
  <2>1. Piece(S, p, a \o b \o e, 18, 25, {d1, d2} \cup {d3, d4} \cup {},
              {"enqueue", "device_sync"})
    BY <1>8, <1>9
  <2> QED
    BY <2>1, PieceWider DEF S
<1> QED
  BY <1>3, <1>5, <1>10, <1>11 DEF S

\* A launch, or an empty run, as a piece.
LEMMA LaunchPiece ==
  ASSUME NEW W, NEW p, p # "capture"
  PROVE  LET s == <<Call("launch"), Call("device_sync")>>
             t == <<Call("device_sync")>>
         IN  /\ Piece(Calls(W), p, s, 1, 25, {}, {"launch", "device_sync"})
             /\ Piece(Calls(W), p, t, 1, 25, {}, {"device_sync"})
             /\ EndsInSync(s) /\ EndsInSync(t)
<1> DEFINE a == Call("launch")
           b == Call("device_sync")
<1>1. /\ "launch" \in CallNames /\ "device_sync" \in CallNames
      /\ a \in Calls(W) /\ b \in Calls(W) /\ a.call = "launch" /\ b.call = "device_sync"
  BY CallMembers DEF CallNames, OtherCalls, Call
<1>2. CallRank(p, a) = 3 /\ CallRank(p, b) = 23
  BY <1>1, CallRanks
<1>3. Piece(Calls(W), p, <<b>>, 1, 25, {}, {"device_sync"})
  BY <1>1, <1>2, CallOne
<1> HIDE DEF a, b
<1>4. Piece(Calls(W), p, <<a, b>>, 1, 25,
            (IF a.call = "enqueue" THEN {a.op} ELSE {})
            \cup (IF b.call = "enqueue" THEN {b.op} ELSE {}), {a.call, b.call})
  BY <1>1, <1>2, PieceTwo
<1>5. (IF a.call = "enqueue" THEN {a.op} ELSE {})
        \cup (IF b.call = "enqueue" THEN {b.op} ELSE {}) = {}
  BY <1>1
<1>6. Piece(Calls(W), p, <<a, b>>, 1, 25, {}, {"launch", "device_sync"})
  BY <1>1, <1>4, <1>5
<1>7. EndsInSync(<<a, b>>) /\ EndsInSync(<<b>>)
  BY <1>1 DEF EndsInSync
<1> QED
  BY <1>3, <1>6, <1>7 DEF a, b

\* The capture as a piece.
LEMMA CapturePiece ==
  ASSUME in \in Inputs, Refusal = "OK", in.boundary = "resident_graph",
         NEW W, Words(in.base) \in W
  PROVE  /\ ~Empty => Piece(Calls(W), "capture", Capture, 1, 25, KernelOps(Words(in.base)),
                            {"poison", "device_sync", "begin_capture", "enqueue", "end_capture",
                             "instantiate"})
         /\ Empty => Piece(Calls(W), "capture", Capture, 1, 25, {},
                           {"begin_capture", "end_capture", "instantiate"})
<1> DEFINE S == Calls(W)
           p == "capture"
           w == Words(RunInvocationId(in.base, in.warmups, in.reps, in.warmups, in.step))
           x == <<Call("poison"), Call("device_sync")>>
           y == <<Call("begin_capture")>>
           z == EnqueueResident(w, FALSE)
           e == <<Call("end_capture"), Call("instantiate")>>
           n == ~Empty
           X == {"poison", "device_sync"}
           Z == {"enqueue"}
           O == KernelOps(w)
           X1 == IF n THEN X ELSE {}
           Z1 == IF n THEN Z ELSE {}
           O1 == IF n THEN O ELSE {}
<1>1. Capture = When(n, x) \o y \o When(n, z) \o e
  BY Zenon DEF Capture, Poison
<1>2. w = Words(in.base)
  BY GraphWords
<1>3. Piece(S, p, z, 7, 17, O, Z)
  <2> DEFINE no == FALSE
  <2>1. no \in BOOLEAN
    OBVIOUS
  <2>2. ResidentOps(w, no) = O
    BY DEF ResidentOps
  <2> HIDE DEF no, w, p, O
  <2>3. Piece(Calls(W), p, EnqueueResident(w, no), 7, 17, ResidentOps(w, no), {"enqueue"})
    BY <1>2, <2>1, ResidentPiece
  <2>4. Piece(S, p, EnqueueResident(w, no), 7, 17, O, Z)
    BY <2>2, <2>3
  <2> QED
    BY <2>4 DEF no
<1>4. /\ Call("poison") \in S /\ Call("device_sync") \in S /\ Call("begin_capture") \in S
      /\ Call("end_capture") \in S /\ Call("instantiate") \in S
      /\ "begin_capture" \in CallNames
  BY CallMembers DEF CallNames, OtherCalls
<1>5. /\ Call("poison").call = "poison" /\ Call("device_sync").call = "device_sync"
      /\ Call("begin_capture").call = "begin_capture"
      /\ Call("end_capture").call = "end_capture" /\ Call("instantiate").call = "instantiate"
  BY DEF Call
<1>6. /\ CallRank(p, Call("poison")) = 1 /\ CallRank(p, Call("device_sync")) = 2
      /\ CallRank(p, Call("begin_capture")) = 3 /\ CallRank(p, Call("end_capture")) = 23
      /\ CallRank(p, Call("instantiate")) = 24
  BY <1>4, <1>5, CallRanks
<1>7. Piece(S, p, y, 3, 4, {}, {"begin_capture"})
  BY <1>4, <1>6, CallOne
<1>8. Piece(S, p, x, 1, 3, {}, X) /\ Piece(S, p, e, 23, 25, {}, {"end_capture", "instantiate"})
  <2> DEFINE a == Call("poison")
             b == Call("device_sync")
             c == Call("end_capture")
             d == Call("instantiate")
  <2> HIDE DEF a, b, c, d, p
  <2>1. /\ a \in S /\ b \in S /\ c \in S /\ d \in S /\ a.call = "poison" /\ b.call = "device_sync"
        /\ c.call = "end_capture" /\ d.call = "instantiate"
        /\ CallRank(p, a) = 1 /\ CallRank(p, b) = 2 /\ CallRank(p, c) = 23 /\ CallRank(p, d) = 24
    BY <1>4, <1>5, <1>6 DEF a, b, c, d
  <2>2. Piece(S, p, <<a, b>>, 1, 3, (IF a.call = "enqueue" THEN {a.op} ELSE {})
              \cup (IF b.call = "enqueue" THEN {b.op} ELSE {}), {a.call, b.call})
    BY <2>1, PieceTwo
  <2>3. Piece(S, p, <<c, d>>, 23, 25, (IF c.call = "enqueue" THEN {c.op} ELSE {})
              \cup (IF d.call = "enqueue" THEN {d.op} ELSE {}), {c.call, d.call})
    BY <2>1, PieceTwo
  <2>4. /\ (IF a.call = "enqueue" THEN {a.op} ELSE {})
             \cup (IF b.call = "enqueue" THEN {b.op} ELSE {}) = {}
        /\ (IF c.call = "enqueue" THEN {c.op} ELSE {})
             \cup (IF d.call = "enqueue" THEN {d.op} ELSE {}) = {}
    BY <2>1
  <2>5. Piece(S, p, <<a, b>>, 1, 3, {}, X)
    BY <2>1, <2>2, <2>4
  <2>6. Piece(S, p, <<c, d>>, 23, 25, {}, {"end_capture", "instantiate"})
    BY <2>1, <2>3, <2>4
  <2> QED
    BY <2>5, <2>6 DEF a, b, c, d
<1> HIDE DEF x, z, w, O, X, Z, n, p
<1>9. Piece(S, p, When(n, x), 1, 3, IF n THEN {} ELSE {}, X1)
      /\ Piece(S, p, When(n, z), 7, 17, O1, Z1)
  BY <1>3, <1>8, PieceWhen
<1>10. (IF n THEN {} ELSE {}) = {}
  OBVIOUS
<1> DEFINE t1 == When(n, x)
           t2 == When(n, z)
           B == {"begin_capture"}
           D == {"end_capture", "instantiate"}
<1>11. /\ Piece(S, p, t1, 1, 3, {}, X1) /\ Piece(S, p, t2, 7, 17, O1, Z1)
       /\ Piece(S, p, y, 3, 4, {}, B) /\ Piece(S, p, e, 23, 25, {}, D)
  BY <1>7, <1>8, <1>9, <1>10
<1> HIDE DEF S, y, e, t1, t2, B, D, X1, Z1, O1
<1>12. Piece(S, p, t1 \o y, 1, 4, {} \cup {}, X1 \cup B)
  BY <1>11, PieceConcat DEF S
<1>13. Piece(S, p, t2, 4, 17, O1, Z1)
  BY <1>11, PieceWider DEF S
<1>14. Piece(S, p, t1 \o y \o t2, 1, 17, {} \cup {} \cup O1, X1 \cup B \cup Z1)
  BY <1>12, <1>13, PieceConcat DEF S
<1>15. Piece(S, p, e, 17, 25, {}, D)
  BY <1>11, PieceWider DEF S
<1>16. Piece(S, p, t1 \o y \o t2 \o e, 1, 25, {} \cup {} \cup O1 \cup {}, X1 \cup B \cup Z1 \cup D)
  BY <1>14, <1>15, PieceConcat DEF S
<1>17. Capture = t1 \o y \o t2 \o e
  BY <1>1 DEF t1, t2
<1>18. ~Empty => /\ {} \cup {} \cup O1 \cup {} = KernelOps(Words(in.base))
                 /\ X1 \cup B \cup Z1 \cup D = {"poison", "device_sync", "begin_capture", "enqueue",
                                                "end_capture", "instantiate"}
  BY <1>2 DEF O1, X1, Z1, n, O, X, Z, B, D
<1>19. Empty => /\ {} \cup {} \cup O1 \cup {} = {}
                /\ X1 \cup B \cup Z1 \cup D = {"begin_capture", "end_capture", "instantiate"}
  BY DEF O1, X1, Z1, n, B, D
<1> QED
  BY <1>16, <1>17, <1>18, <1>19 DEF S, p

\* The set-up uploads what stays on the device and waits for it.
LEMMA SetupPieces ==
         /\ Setup \in Seq(SetupCallSet) /\ Asked(Setup) \subseteq SetupUploads
         /\ ~Empty => /\ EndsInSync(Setup)
                      /\ Prescribed => UploadOp("scale") \in Asked(Setup)
                      /\ in.givenWords => UploadOp("words") \in Asked(Setup)
                      /\ in.boundary # "host_origin" => UploadOp("values") \in Asked(Setup)
<1> DEFINE S == SetupCallSet
           n == ~Empty
           g == in.boundary = "host_origin" /\ in.pinned /\ ~Empty
           h == in.boundary # "host_origin"
           a == <<Call("create"), Call("host_alloc"), Call("host_alloc")>>
           b == <<Call("host_alloc")>>
           m == <<Call("malloc")>>
           s1 == <<Enqueue(UploadOp("scale"))>>
           s2 == <<Enqueue(UploadOp("words"))>>
           s3 == <<Enqueue(UploadOp("values"))>>
           e == <<Call("stream_sync")>>
           t1 == When(Prescribed, s1)
           t2 == When(in.givenWords, s2)
           t3 == When(h, s3)
           t == m \o t1 \o t2 \o t3 \o e
           c == a \o When(g, b)
<1>1. Setup = c \o When(n, t)
  BY Zenon DEF Setup, Upload, UploadOp
<1>2. /\ Call("create") \in S /\ Call("host_alloc") \in S /\ Call("malloc") \in S
      /\ Call("stream_sync") \in S
  BY DEF Call, SetupCallSet
<1>3. /\ Call("create").call # "enqueue" /\ Call("host_alloc").call # "enqueue"
      /\ Call("malloc").call # "enqueue" /\ Call("stream_sync").call # "enqueue"
  BY DEF Call
<1>4. /\ a \in Seq(S) /\ b \in Seq(S) /\ m \in Seq(S) /\ e \in Seq(S)
      /\ Asked(a) = {} /\ Asked(b) = {} /\ Asked(m) = {} /\ Asked(e) = {}
  <2> DEFINE c1 == Call("create")
             c2 == Call("host_alloc")
             c3 == Call("malloc")
             c4 == Call("stream_sync")
  <2>1. /\ c1 \in S /\ c2 \in S /\ c3 \in S /\ c4 \in S
        /\ c1.call # "enqueue" /\ c2.call # "enqueue" /\ c3.call # "enqueue" /\ c4.call # "enqueue"
    BY <1>2, <1>3
  <2> HIDE DEF S, c1, c2, c3, c4
  <2>2. /\ <<c1, c2, c2>> \in Seq(S) /\ <<c2>> \in Seq(S) /\ <<c3>> \in Seq(S) /\ <<c4>> \in Seq(S)
    BY <2>1
  <2>3. Asked(<<c1, c2, c2>>) = {}
    BY <2>1 DEF Asked
  <2>4. Asked(<<c2>>) = {} /\ Asked(<<c3>>) = {} /\ Asked(<<c4>>) = {}
    BY <2>1 DEF Asked
  <2> QED
    BY <2>2, <2>3, <2>4 DEF c1, c2, c3, c4
<1>5. /\ s1 \in Seq(S) /\ Asked(s1) = {UploadOp("scale")}
      /\ s2 \in Seq(S) /\ Asked(s2) = {UploadOp("words")}
      /\ s3 \in Seq(S) /\ Asked(s3) = {UploadOp("values")}
  <2>1. ASSUME NEW to \in {"values", "scale", "words"}
        PROVE  <<Enqueue(UploadOp(to))>> \in Seq(S) /\ Asked(<<Enqueue(UploadOp(to))>>) = {UploadOp(to)}
    <3> DEFINE x == Enqueue(UploadOp(to))
    <3>1. x \in S /\ x.call = "enqueue" /\ x.op = UploadOp(to)
      BY DEF Enqueue, SetupCallSet, SetupUploads
    <3> HIDE DEF S, x
    <3>2. <<x>> \in Seq(S) /\ Asked(<<x>>) = {x.op}
      BY <3>1 DEF Asked
    <3> QED
      BY <3>1, <3>2 DEF x
  <2> QED
    BY <2>1
<1> HIDE DEF S, a, b, m, s1, s2, s3, n, g, h
<1>6. /\ t1 \in Seq(S) /\ Asked(t1) = (IF Prescribed THEN {UploadOp("scale")} ELSE {})
      /\ t2 \in Seq(S) /\ Asked(t2) = (IF in.givenWords THEN {UploadOp("words")} ELSE {})
      /\ t3 \in Seq(S) /\ Asked(t3) = (IF h THEN {UploadOp("values")} ELSE {})
  <2>1. Asked(<<>>) = {} /\ <<>> \in Seq(S)
    BY DEF Asked
  <2> QED
    BY <1>5, <2>1 DEF When
<1> HIDE DEF t1, t2, t3
<1> DEFINE A1 == Asked(t1)
           A2 == Asked(t2)
           A3 == Asked(t3)
           x == When(g, b)
<1>7. /\ Asks(S, a, {}) /\ Asks(S, x, {}) /\ Asks(S, m, {}) /\ Asks(S, e, {})
      /\ Asks(S, t1, A1) /\ Asks(S, t2, A2) /\ Asks(S, t3, A3)
  <2>1. Asked(<<>>) = {} /\ <<>> \in Seq(S)
    BY DEF Asked
  <2> QED
    BY <1>4, <1>6, <2>1 DEF When, Asks
<1> HIDE DEF A1, A2, A3, e, x
<1>8. Asks(S, c, {} \cup {})
  <2>1. Asks(S, a \o x, {} \cup {})
    BY <1>7, AsksConcat
  <2> QED
    BY <2>1 DEF x
<1>9. Asks(S, m \o t1 \o t2 \o t3, {} \cup A1 \cup A2 \cup A3)
  <2>1. Asks(S, m \o t1, {} \cup A1)
    BY <1>7, AsksConcat
  <2>2. Asks(S, m \o t1 \o t2, {} \cup A1 \cup A2)
    BY <1>7, <2>1, AsksConcat
  <2> QED
    BY <1>7, <2>2, AsksConcat
<1>10. Asks(S, t, {} \cup A1 \cup A2 \cup A3 \cup {})
  BY <1>7, <1>9, AsksConcat
<1>11. Asked(t) = Asked(t1) \cup Asked(t2) \cup Asked(t3)
  BY <1>10 DEF Asks, A1, A2, A3
<1>12. Asked(t) \subseteq SetupUploads
  BY <1>6, <1>11 DEF SetupUploads
<1>13. EndsInSync(c \o t)
  <2>1. c \o (m \o t1 \o t2 \o t3) \in Seq(S)
    <3> HIDE DEF c
    <3>1. Asks(S, c \o (m \o t1 \o t2 \o t3), {} \cup {} \cup ({} \cup A1 \cup A2 \cup A3))
      BY <1>8, <1>9, AsksConcat
    <3> QED
      BY <3>1 DEF Asks
  <2>2. EndsInSync((c \o (m \o t1 \o t2 \o t3)) \o e)
    BY <1>2, <2>1, SyncLast DEF e
  <2>3. c \o t = (c \o (m \o t1 \o t2 \o t3)) \o e
    <3> DEFINE k == m \o t1 \o t2 \o t3
    <3>1. k \in Seq(S) /\ c \in Seq(S) /\ e \in Seq(S)
      BY <1>7, <1>8, <1>9 DEF Asks
    <3> HIDE DEF k, c, e, t, S
    <3>2. \A u, v, w \in Seq(S) : (u \o v) \o w = u \o (v \o w)
      BY ConcatAssociative
    <3>3. (c \o k) \o e = c \o (k \o e)
      BY <3>1, <3>2, Zenon
    <3> QED
      BY <3>3, Zenon DEF k, t
  <2> QED
    BY <2>2, <2>3
<1> HIDE DEF c, t
<1>14. CASE Empty
  <2>1. When(n, t) = <<>>
    BY <1>14 DEF When, n
  <2>2. Setup = c
    BY <1>1, <1>8, <2>1, ConcatEmptySeq DEF Asks
  <2> QED
    BY <1>8, <1>14, <2>2 DEF Asks, S
<1>15. CASE ~Empty
  <2>1. Setup = c \o t
    BY <1>1, <1>15 DEF When, n
  <2>2. Asked(Setup) = Asked(t)
    <3>1. Asks(S, c \o t, {} \cup {} \cup ({} \cup A1 \cup A2 \cup A3 \cup {}))
      BY <1>8, <1>10, AsksConcat
    <3> QED
      BY <1>10, <2>1, <3>1 DEF Asks
  <2>3. Setup \in Seq(S)
    <3>1. Asks(S, c \o t, {} \cup {} \cup ({} \cup A1 \cup A2 \cup A3 \cup {}))
      BY <1>8, <1>10, AsksConcat
    <3> QED
      BY <2>1, <3>1 DEF Asks
  <2> QED
    BY <1>6, <1>11, <1>12, <1>13, <2>1, <2>2, <2>3 DEF h, S
<1> QED
  BY <1>14, <1>15

-----------------------------------------------------------------------------
(* Steps and the order of the work *)

\* What is left once the first call is made.
LEMMA TailFacts ==
  ASSUME NEW S, NEW s \in Seq(S), s # <<>>
  PROVE  /\ Head(s) \in S /\ Tail(s) \in Seq(S)
         /\ Asked(s) = Asked(Tail(s)) \cup (IF Head(s).call = "enqueue" THEN {Head(s).op} ELSE {})
         /\ Called(s) = Called(Tail(s)) \cup {Head(s).call}
         /\ EndsInSync(s) =>
              /\ EndsInSync(Tail(s))
              /\ Head(s).call \notin {"stream_sync", "device_sync"} => Tail(s) # <<>>
<1> DEFINE t == Tail(s)
           n == Len(s)
<1>1. n \in Nat /\ n >= 1 /\ Len(t) = n - 1 /\ Head(s) = s[1] /\ t \in Seq(S) /\ s[1] \in S
  BY HeadTailProperties
<1>2. \A i \in 1..(n - 1) : t[i] = s[i + 1]
  BY HeadTailProperties
<1>3. /\ \A i \in 1..n : i = 1 \/ (i - 1 \in 1..(n - 1) /\ (i - 1) + 1 = i)
      /\ \A i \in 1..(n - 1) : i + 1 \in 1..n
      /\ 1 \in 1..n
  BY <1>1
<1> HIDE DEF t, n
<1>4. \A i \in 1..n : i = 1 \/ (i - 1 \in 1..(n - 1) /\ s[i] = t[i - 1])
  BY <1>2, <1>3
<1>5. Called(s) = Called(t) \cup {s[1].call}
  <2>1. Called(s) = {s[i].call : i \in 1..n} /\ Called(t) = {t[i].call : i \in 1..(n - 1)}
    BY <1>1 DEF Called, n
  <2>2. \A i \in 1..n : s[i].call \in {t[j].call : j \in 1..(n - 1)} \cup {s[1].call}
    BY <1>4
  <2>3. \A i \in 1..(n - 1) : t[i].call \in {s[j].call : j \in 1..n}
    BY <1>2, <1>3
  <2>4. s[1].call \in {s[j].call : j \in 1..n}
    BY <1>3
  <2> QED
    BY <2>1, <2>2, <2>3, <2>4
<1>6. Asked(s) = Asked(t) \cup (IF s[1].call = "enqueue" THEN {s[1].op} ELSE {})
  <2> DEFINE A == {s[i].op : i \in {j \in 1..n : s[j].call = "enqueue"}}
             B == {t[i].op : i \in {j \in 1..(n - 1) : t[j].call = "enqueue"}}
  <2>1. Asked(s) = A /\ Asked(t) = B
    BY <1>1 DEF Asked, n
  <2>2. \A i \in 1..n : s[i].call = "enqueue" =>
          s[i].op \in B \cup (IF s[1].call = "enqueue" THEN {s[1].op} ELSE {})
    BY <1>4
  <2>3. \A i \in 1..(n - 1) : t[i].call = "enqueue" => t[i].op \in A
    BY <1>2, <1>3
  <2>4. s[1].call = "enqueue" => s[1].op \in A
    BY <1>3
  <2> QED
    BY <2>1, <2>2, <2>3, <2>4
<1>7. ASSUME EndsInSync(s)
      PROVE  /\ EndsInSync(t)
             /\ s[1].call \notin {"stream_sync", "device_sync"} => t # <<>>
  <2>1. s[n].call \in {"stream_sync", "device_sync"}
    BY <1>7 DEF EndsInSync, n
  <2>2. CASE n = 1
    <3>1. t = <<>>
      BY <1>1, <2>2
    <3> QED
      BY <2>1, <2>2, <3>1 DEF EndsInSync
  <2>3. CASE n # 1
    <3>1. n - 1 \in 1..(n - 1) /\ (n - 1) + 1 = n
      BY <1>1, <2>3
    <3>2. t[n - 1] = s[n]
      BY <1>2, <3>1
    <3>3. t # <<>>
      BY <1>1, <2>3
    <3> QED
      BY <1>1, <2>1, <3>2, <3>3 DEF EndsInSync
  <2> QED
    BY <2>2, <2>3
<1> QED
  BY <1>1, <1>5, <1>6, <1>7 DEF t

\* The first call of an ordered sequence comes before the others.
LEMMA WithinTail ==
  ASSUME NEW W, NEW p, NEW s \in Seq(Calls(W)), s # <<>>, Within(p, s, 1, 25)
  PROVE  /\ Within(p, Tail(s), 1, 25)
         /\ \A i \in 1..Len(Tail(s)) : CallRank(p, Head(s)) < CallRank(p, Tail(s)[i])
         /\ \A n \in Called(Tail(s)) : \E c \in Calls(W) :
              c.call = n /\ CallRank(p, Head(s)) < CallRank(p, c)
         /\ \A o \in Asked(Tail(s)) : o \in Ops(W) /\ CallRank(p, Head(s)) < OpRank(o)
<1> DEFINE t == Tail(s)
           n == Len(s)
<1>1. n \in Nat /\ n >= 1 /\ Len(t) = n - 1 /\ Head(s) = s[1] /\ t \in Seq(Calls(W))
  BY HeadTailProperties
<1>2. \A i \in 1..(n - 1) : t[i] = s[i + 1] /\ t[i] \in Calls(W)
  BY <1>1, HeadTailProperties
<1>3. /\ \A i \in 1..(n - 1) : i + 1 \in 1..n /\ 1 < i + 1
      /\ \A i, j \in 1..(n - 1) : i < j => i + 1 < j + 1
      /\ 1 \in 1..n
  BY <1>1
<1>4. /\ \A i \in 1..n : 1 <= CallRank(p, s[i]) /\ CallRank(p, s[i]) < 25
      /\ \A i, j \in 1..n : i < j => CallRank(p, s[i]) < CallRank(p, s[j])
  BY DEF Within
<1> HIDE DEF t, n
<1>5. Within(p, t, 1, 25)
  <2>1. \A i \in 1..(n - 1) : 1 <= CallRank(p, t[i]) /\ CallRank(p, t[i]) < 25
    BY <1>2, <1>3, <1>4
  <2>2. \A i, j \in 1..(n - 1) : i < j => CallRank(p, t[i]) < CallRank(p, t[j])
    BY <1>2, <1>3, <1>4
  <2> QED
    BY <1>1, <2>1, <2>2 DEF Within
<1>6. \A i \in 1..(n - 1) : CallRank(p, s[1]) < CallRank(p, t[i])
  BY <1>2, <1>3, <1>4
<1>7. ASSUME NEW m \in Called(t)
      PROVE  \E c \in Calls(W) : c.call = m /\ CallRank(p, s[1]) < CallRank(p, c)
  <2>1. PICK i \in 1..(n - 1) : t[i].call = m
    BY <1>1, <1>7 DEF Called
  <2> QED
    BY <1>2, <1>6, <2>1
<1>8. ASSUME NEW o \in Asked(t)
      PROVE  o \in Ops(W) /\ CallRank(p, s[1]) < OpRank(o)
  <2>1. PICK i \in 1..(n - 1) : t[i].call = "enqueue" /\ t[i].op = o
    BY <1>1, <1>8 DEF Asked
  <2>2. t[i] \in Calls(W) /\ CallRank(p, s[1]) < CallRank(p, t[i])
    BY <1>2, <1>6
  <2> QED
    BY <2>1, <2>2, CallRanks
<1> QED
  BY <1>1, <1>5, <1>6, <1>7, <1>8 DEF t

\* What each call does.
LEMMA CallEffects ==
  ASSUME IInv, MakeCall
  PROVE  /\ todo # <<>> /\ todo' = Tail(todo) /\ Head(todo) \in Calls({WordsOf(index)})
         /\ todo \in Seq(Calls({WordsOf(index)}))
         /\ UNCHANGED <<in, pc, status, dev, base, log, index, samples, freed>>
         /\ Head(todo).call = "enqueue" /\ capturing =>
              /\ graph' = Append(graph, Head(todo).op)
              /\ UNCHANGED <<stream, events, dma, capturing, faulted, host>>
         /\ Head(todo).call = "enqueue" /\ ~capturing =>
              /\ stream' = Append(stream, [op |-> Head(todo).op, run |-> index])
              /\ events' = IF Head(todo).op.op = "record"
                           THEN [events EXCEPT ![Head(todo).op.event] = Never] ELSE events
              /\ UNCHANGED <<graph, dma, capturing, faulted, host>>
         /\ Head(todo).call = "device_sync" => stream = <<>> /\ dma = {}
         /\ Head(todo).call = "stream_sync" => stream = <<>>
         /\ Head(todo).call \in {"device_sync", "stream_sync", "create", "host_alloc", "malloc"} =>
              UNCHANGED <<stream, events, dma, capturing, graph, faulted, host>>
         /\ Head(todo).call = "poison" =>
              /\ dma' = {Poisoned} /\ UNCHANGED <<stream, events, capturing, graph, faulted>>
         /\ Head(todo).call \in {"begin_capture", "end_capture"} =>
              /\ capturing' = (Head(todo).call = "begin_capture")
              /\ UNCHANGED <<stream, events, dma, graph, faulted, host>>
         /\ Head(todo).call = "instantiate" =>
              /\ \/ UNCHANGED <<graph, faulted>>
                 \/ faulted' /\ \E i \in DOMAIN graph : graph' = RemoveAt(graph, i)
              /\ UNCHANGED <<stream, events, dma, capturing, host>>
         /\ Head(todo).call = "launch" =>
              /\ stream' = stream \o [i \in DOMAIN graph |-> [op |-> graph[i], run |-> index]]
              /\ UNCHANGED <<events, dma, capturing, graph, faulted, host>>
<1>1. todo # <<>> /\ todo \in Seq(Calls({WordsOf(index)}))
  BY DEF MakeCall, IInv, WordsState
<1>2. Head(todo) \in Calls({WordsOf(index)})
  BY <1>1, HeadTailProperties
<1>3. /\ todo' = Tail(todo)
      /\ UNCHANGED <<in, pc, status, dev, base, log, index, samples, freed>>
      /\ Head(todo).call # "poison" => host' = host
  BY DEF MakeCall
<1>4. CASE Head(todo).call = "enqueue"
  BY <1>1, <1>2, <1>3, <1>4 DEF MakeCall
<1>5. CASE Head(todo).call = "device_sync"
  BY <1>1, <1>2, <1>3, <1>5 DEF MakeCall, Idle
<1>6. CASE Head(todo).call = "stream_sync"
  BY <1>1, <1>2, <1>3, <1>6 DEF MakeCall
<1>7. CASE Head(todo).call = "poison"
  BY <1>1, <1>2, <1>3, <1>7 DEF MakeCall, Poisoned
<1>8. CASE Head(todo).call \in {"begin_capture", "end_capture"}
  BY <1>1, <1>2, <1>3, <1>8 DEF MakeCall
<1>9. CASE Head(todo).call = "instantiate"
  BY <1>1, <1>2, <1>3, <1>9 DEF MakeCall
<1>10. CASE Head(todo).call = "launch"
  BY <1>1, <1>2, <1>3, <1>10 DEF MakeCall
<1>11. CASE Head(todo).call = "malloc"
  BY <1>1, <1>2, <1>3, <1>11 DEF MakeCall
<1>12. CASE Head(todo).call \in {"create", "host_alloc"}
  BY <1>1, <1>2, <1>3, <1>12 DEF MakeCall
<1>13. Head(todo).call \in OtherCalls \cup {"enqueue"}
  BY <1>2, CallFacts DEF CallNames
<1> QED
  BY <1>4, <1>5, <1>6, <1>7, <1>8, <1>9, <1>10, <1>11, <1>12, <1>13 DEF OtherCalls

\* The request never changes, nor do the operations that it leads to.
LEMMA OpsStay ==
  ASSUME in' = in
  PROVE  /\ Words(in.base)' = Words(in.base) /\ (Staged' <=> Staged) /\ (Prescribed' <=> Prescribed)
         /\ K1Op' = K1Op /\ \A w : KernelOps(w)' = KernelOps(w)
         /\ \A w, b, c, i : PipelineOps(w, b, c, i)' = PipelineOps(w, b, c, i)
<1>1. Words(in.base)' = Words(in.base) /\ (Staged' <=> Staged) /\ (Prescribed' <=> Prescribed)
  BY DEF Words, Staged, Empty, Prescribed
<1>2. K1Op' = K1Op
  BY DEF K1Op, Prescribed
<1>3. \A w : KernelOps(w)' = KernelOps(w)
  BY <1>2 DEF KernelOps
<1>4. \A w, b, c, i : PipelineOps(w, b, c, i)' = PipelineOps(w, b, c, i)
  BY <1>3 DEF PipelineOps
<1> QED
  BY <1>1, <1>2, <1>3, <1>4

\* The operations of a function depend on the control point, the run and the graph.
LEMMA PhaseStays ==
  ASSUME UNCHANGED <<in, pc, index, graph>>, "launch" \in Called(todo)' <=> "launch" \in Called(todo)
  PROVE  PhaseOps' = PhaseOps
<1>1. /\ Words(in.base)' = Words(in.base) /\ (Staged' <=> Staged)
      /\ \A w, b, c, i : PipelineOps(w, b, c, i)' = PipelineOps(w, b, c, i)
      /\ WordsOf(index)' = WordsOf(index)
  BY OpsStay, RequestStays
<1> QED
  BY <1>1 DEF PhaseOps

\* What is pending, call by call: queueing an operation or making another call
\* leaves it as it is.
LEMMA PendingStays ==
  ASSUME NEW S, todo \in Seq(S), todo # <<>>, todo' = Tail(todo), NEW T, stream \in Seq(T),
         \/ /\ Head(todo).call = "enqueue"
            /\ \E n : stream' = Append(stream, [op |-> Head(todo).op, run |-> n])
         \/ Head(todo).call # "enqueue" /\ stream' = stream
  PROVE  Pending' = Pending
<1>1. Asked(todo) = Asked(todo') \cup (IF Head(todo).call = "enqueue" THEN {Head(todo).op} ELSE {})
  BY TailFacts
<1>2. Queued' = {stream'[i].op : i \in 1..Len(stream')}
  BY DEF Queued
<1>3. Queued' = Queued \cup (IF Head(todo).call = "enqueue" THEN {Head(todo).op} ELSE {})
  <2>1. CASE Head(todo).call = "enqueue"
    <3>1. PICK n : stream' = Append(stream, [op |-> Head(todo).op, run |-> n])
      BY <2>1
    <3> DEFINE x == [op |-> Head(todo).op, run |-> n]
               k == Len(stream)
    <3>2. k \in Nat /\ Len(stream') = k + 1 /\ stream'[k + 1] = x
          /\ \A i \in 1..k : stream'[i] = stream[i]
      BY <3>1
    <3>3. x.op = Head(todo).op
      OBVIOUS
    <3> HIDE DEF x, k
    <3>4. 1..(k + 1) = 1..k \cup {k + 1}
      BY <3>2
    <3>5. Queued' = {stream[i].op : i \in 1..k} \cup {x.op}
      BY <1>2, <3>2, <3>4
    <3> QED
      BY <2>1, <3>3, <3>5 DEF Queued, k
  <2>2. CASE Head(todo).call # "enqueue"
    BY <2>2 DEF Queued
  <2> QED
    BY <2>1, <2>2
<1>4. Pending' = Queued' \cup Asked(todo')
  BY DEF Pending, Asked
<1> QED
  BY <1>1, <1>3, <1>4 DEF Pending

\* The device takes the first operation from what is pending.
LEMMA PendingShrinks ==
  ASSUME NEW T, stream \in Seq(T), stream # <<>>, stream' = Tail(stream), todo' = todo
  PROVE  /\ Head(stream).op \in Pending /\ Pending' \subseteq Pending
         /\ Pending \subseteq Pending' \cup {Head(stream).op}
         /\ \A i \in 1..Len(stream') : i + 1 \in 1..Len(stream) /\ stream'[i] = stream[i + 1]
<1> DEFINE k == Len(stream)
           t == Tail(stream)
<1>1. k \in Nat /\ k >= 1 /\ Len(t) = k - 1 /\ Head(stream) = stream[1]
  BY HeadTailProperties
<1>2. \A i \in 1..(k - 1) : t[i] = stream[i + 1]
  BY HeadTailProperties
<1>3. /\ \A i \in 1..k : i = 1 \/ (i - 1 \in 1..(k - 1) /\ (i - 1) + 1 = i)
      /\ \A i \in 1..(k - 1) : i + 1 \in 1..k
      /\ 1 \in 1..k
  BY <1>1
<1> HIDE DEF k, t
<1>4. \A i \in 1..k : i = 1 \/ (i - 1 \in 1..(k - 1) /\ stream[i] = t[i - 1])
  BY <1>2, <1>3
<1>5. Queued' = {t[i].op : i \in 1..(k - 1)} /\ Queued = {stream[i].op : i \in 1..k}
  BY <1>1 DEF Queued, t, k
<1>6. Queued' \subseteq Queued /\ stream[1].op \in Queued
  BY <1>2, <1>3, <1>5
<1>7. Queued \subseteq Queued' \cup {stream[1].op}
  BY <1>4, <1>5
<1>8. Pending' = Queued' \cup Asked(todo)
  BY DEF Pending, Asked
<1> QED
  BY <1>1, <1>2, <1>3, <1>6, <1>7, <1>8 DEF Pending, k, t

\* A function that starts with an idle stream.
LEMMA FreshQueue ==
  ASSUME NEW W, stream' = <<>>, pc' \in Working, NEW C,
         Piece(Calls(W), pc', todo', 1, 25, PhaseOps', C),
         C \subseteq {"enqueue", "device_sync", "launch"},
         "launch" \in C => pc' = "run" /\ ~Staged'
  PROVE  QueueState' /\ Pending' = PhaseOps'
<1>1. /\ Within(pc', todo', 1, 25) /\ Asked(todo') = PhaseOps' /\ Called(todo') = C
  BY DEF Piece
<1>2. Queued' = {}
  BY DEF Queued
<1>3. Pending' = PhaseOps'
  BY <1>1, <1>2 DEF Pending, Asked
<1>4. pc' # "setup"
  BY DEF Working
<1>5. Within(pc, todo, 1, 25)' /\ Called(todo)' = C
  BY <1>1 DEF Within, Called
<1> QED
  BY <1>3, <1>4, <1>5 DEF QueueState

\* Between two functions nothing is queued, and the graph stays as it is.
LEMMA BetweenOrder ==
  ASSUME OInv, pc \in {"start", "setup", "preflight", "capture", "loop", "run", "readback"},
         todo = <<>>, UNCHANGED <<in, stream, dma, capturing, graph, log>>,
         faulted' = faulted \/ pc' = "destroy",
         pc' # "start",
         pc' \in {"setup", "preflight"} => pc \in {"start", "setup"},
         pc' \in {"loop", "run", "readback"} =>
           pc \in {"loop", "run", "capture"} \/ in.boundary # "resident_graph" \/ Empty,
         pc' = "capture" => pc \in {"setup", "preflight"} /\ todo' # <<>>,
         pc' \in Working \/ (pc' = "setup" /\ ~Empty) => EndsInSync(todo'),
         todo' # <<>> => pc' \in Working \cup {"setup", "capture"}
  PROVE  stream = <<>> /\ dma = {} /\ ~capturing /\ GraphState' /\ SyncState'
<1>1. Called(todo) = {} /\ Asked(todo) = {}
  BY DEF Called, Asked
<1>2. stream = <<>>
  BY <1>1 DEF OInv, SyncState, CaptureOrder, Working
<1>3. dma = {} /\ ~capturing
  BY <1>1 DEF OInv, GraphState, CaptureOrder
<1>4. Empty' <=> Empty
  BY DEF Empty
<1>5. SyncState'
  <2>1. (pc \in {"start", "loop"} \/ Empty => stream = <<>>)'
    BY <1>2
  <2>2. (Empty => log = <<>> /\ graph = <<>>)'
    BY <1>4 DEF OInv, SyncState
  <2>3. (pc \in Working \/ (pc = "setup" /\ ~Empty) =>
          EndsInSync(todo) /\ (stream # <<>> => todo # <<>>))'
    BY <1>2, <1>4 DEF EndsInSync, Working
  <2> QED
    BY <2>1, <2>2, <2>3 DEF SyncState
<1>6. GraphState'
  <2>1. (InOrder(graph) /\ GraphOps \subseteq KernelOps(Words(in.base)))'
    BY OpsStay DEF OInv, GraphState, InOrder, GraphOps
  <2>2. (pc \in {"start", "setup", "preflight"} => graph = <<>> /\ ~faulted)'
    BY DEF OInv, GraphState
  <2>3. (faulted /\ pc \notin {"destroy", "done"} => in.boundary = "resident_graph")'
    BY DEF OInv, GraphState
  <2>4. (pc \notin {"capture"} => ~capturing)'
    BY <1>3
  <2>5. ((pc \in {"loop", "run", "readback"} \/ (pc = "capture" /\ todo = <<>>))
           /\ in.boundary = "resident_graph" /\ ~Empty /\ ~faulted =>
         KernelOps(Words(in.base)) \subseteq GraphOps)'
    BY <1>4, OpsStay DEF OInv, GraphState, GraphOps
  <2>6. (pc \notin {"capture", "destroy", "done"} => dma = {})' /\ (dma \subseteq {Poisoned})'
    BY <1>3
  <2> QED
    BY <2>1, <2>2, <2>3, <2>4, <2>5, <2>6 DEF GraphState
<1> QED
  BY <1>2, <1>3, <1>5, <1>6

\* A capture starts.
LEMMA CaptureStarts ==
  ASSUME IInv, OInv, Refusal = "OK", in.boundary = "resident_graph", pc \in {"setup", "preflight"},
         pc' = "capture", todo' = Capture, stream' = <<>>, dma' = {}, ~capturing',
         UNCHANGED <<in, index, graph>>
  PROVE  /\ CaptureOrder' /\ todo' # <<>>
         /\ ~Empty => {"poison", "device_sync"} \subseteq Called(todo)'
<1> DEFINE K == KernelOps(Words(in.base))
<1>1. \/ ~Empty /\ Piece(Calls({Words(in.base)}), "capture", todo', 1, 25, K, CaptureNames)
      \/ Empty /\ Piece(Calls({Words(in.base)}), "capture", todo', 1, 25, {},
                        {"begin_capture", "end_capture", "instantiate"})
  BY CapturePiece DEF CaptureNames, IInv, TypeOK
<1> DEFINE A == Asked(todo')
           C == Called(todo')
<1>2. /\ Within("capture", todo', 1, 25)
      /\ ~Empty => A = K /\ C = CaptureNames
      /\ Empty => A = {} /\ C = {"begin_capture", "end_capture", "instantiate"}
  BY <1>1 DEF Piece
<1>3. graph' = <<>>
  BY DEF OInv, GraphState
<1>4. Asked(todo)' = A /\ Called(todo)' = C /\ K' = K /\ (Empty' <=> Empty)
  BY OpsStay DEF Asked, Called, Empty
<1> HIDE DEF A, C, K
<1>5. todo' # <<>>
  <2>1. "instantiate" \in C
    BY <1>2 DEF CaptureNames
  <2> QED
    BY <2>1 DEF C, Called
<1>6. Within(pc, todo, 1, 25)'
  BY <1>2 DEF Within
<1>7. C \subseteq CaptureNames /\ "begin_capture" \in C /\ "end_capture" \in C /\ "instantiate" \in C
      /\ ("poison" \in C => "device_sync" \in C)
  BY <1>2 DEF CaptureNames
<1>8. GraphOps' = {} /\ A \subseteq K /\ (~Empty => K \subseteq A)
  BY <1>2, <1>3 DEF GraphOps
<1>9. ~Empty' /\ todo' # <<>> => K \subseteq (GraphOps \cup Asked(todo))'
  BY <1>4, <1>8
<1>10. \A i \in 1..Len(graph'), o \in A : OpRank(graph'[i]) < OpRank(o)
  BY <1>3
<1>11. ~Empty => {"poison", "device_sync"} \subseteq C
  BY <1>2 DEF CaptureNames
<1> QED
  BY <1>3, <1>4, <1>5, <1>6, <1>7, <1>8, <1>9, <1>10, <1>11 DEF CaptureOrder, K

\* sq_cuda_bench starts.
LEMMA StartOrder == ASSUME IInv, OInv, Start PROVE OInv'
<1>1. /\ pc = "start" /\ todo = <<>>
      /\ UNCHANGED <<in, faulted, stream, dma, capturing, graph, log>>
  BY DEF Start, device, IInv, EndState
<1>2. \/ pc' = "done" /\ todo' = <<>>
      \/ pc' = "setup" /\ todo' = Setup
  BY <1>1 DEF Start
<1>3. /\ pc' \notin Working /\ pc' # "capture" /\ pc' # "start"
      /\ pc' \in {"setup", "done"}
  BY <1>2 DEF Working
<1>4. pc' = "setup" /\ ~Empty => EndsInSync(todo')
  BY <1>2, SetupPieces
<1>5. stream = <<>> /\ GraphState' /\ SyncState'
  BY <1>1, <1>2, <1>3, <1>4, BetweenOrder
<1>6. CaptureOrder'
  BY <1>3 DEF CaptureOrder
<1>7. pc' = "setup" => todo' \in Seq(SetupCallSet)
  BY <1>2, SetupPieces
<1>8. Queued' = {}
  BY <1>1, <1>5 DEF Queued
<1>9. QueueState'
  BY <1>3, <1>7, <1>8 DEF QueueState, SetupCallSet, SetupUploads
<1> QED
  BY <1>5, <1>6, <1>9 DEF OInv

\* The preflight starts, or an empty input goes on.
LEMMA AfterSetupOrder ==
  ASSUME IInv, OInv, AfterSetup
  PROVE  /\ OInv' /\ (pc' = "preflight" => Pending' = PhaseOps')
         /\ pc' = "preflight" \/ (Empty /\ pc' \in {"capture", "loop"})
<1> DEFINE b == IF in.boundary = "host_origin" THEN "host_origin" ELSE "resident"
           s == BenchPipeline(in.base, b, TRUE, TRUE)
<1>1. /\ pc = "setup" /\ todo = <<>> /\ index = 0 /\ Refusal = "OK"
      /\ UNCHANGED <<in, faulted, stream, dma, capturing, graph, log, index>>
  BY DEF AfterSetup, Through, device, IInv, Accepted
<1>2. \/ Empty /\ in.boundary = "resident_graph" /\ pc' = "capture" /\ todo' = Capture
      \/ Empty /\ pc' = "loop" /\ todo' = <<>>
      \/ ~Empty /\ pc' = "preflight" /\ todo' = s
  BY DEF AfterSetup, Continue
<1>3. Piece(Calls({Words(in.base)}), "preflight", s, 1, 25,
            PipelineOps(Words(in.base), b, TRUE, TRUE), {"enqueue", "device_sync"})
      /\ EndsInSync(s)
  <2> DEFINE p == "preflight"
             W == {Words(in.base)}
             yes == TRUE
  <2>1. yes \in BOOLEAN /\ Words(in.base) \in W /\ p # "capture"
    OBVIOUS
  <2> HIDE DEF p, W, yes, b
  <2>2. LET q == BenchPipeline(in.base, b, yes, yes) IN
        /\ Piece(Calls(W), p, q, 1, 25, PipelineOps(Words(in.base), b, yes, yes),
                 {"enqueue", "device_sync"})
        /\ EndsInSync(q)
    BY <2>1, PipelinePiece
  <2> QED
    BY <2>2 DEF p, W, yes
<1> HIDE DEF s
<1>4. pc' = "capture" => todo' # <<>>
  <2> SUFFICES ASSUME pc' = "capture" PROVE todo' # <<>>
    OBVIOUS
  <2>1. Piece(Calls({Words(in.base)}), "capture", Capture, 1, 25, {},
              {"begin_capture", "end_capture", "instantiate"})
    BY <1>1, <1>2, CapturePiece DEF IInv, TypeOK
  <2>2. "instantiate" \in Called(Capture)
    BY <2>1 DEF Piece
  <2> QED
    BY <1>2, <2>2 DEF Called
<1>5. stream = <<>> /\ dma = {} /\ ~capturing /\ GraphState' /\ SyncState'
  <2>1. pc' \in Working \/ (pc' = "setup" /\ ~Empty) => EndsInSync(todo')
    BY <1>2, <1>3 DEF Working
  <2>2. /\ pc' # "start" /\ (pc' \in {"setup", "preflight"} => pc \in {"start", "setup"})
        /\ pc' \in {"loop", "run", "readback"} => Empty
    BY <1>1, <1>2
  <2> QED
    <3>1. todo' # <<>> => pc' \in Working \cup {"setup", "capture"}
      BY <1>2 DEF Working
    <3> QED
      BY <1>1, <1>4, <2>1, <2>2, <3>1, BetweenOrder
<1>6. CaptureOrder'
  <2>1. CASE pc' = "capture"
    BY <1>1, <1>2, <1>5, <2>1, CaptureStarts
  <2>2. CASE pc' # "capture"
    BY <2>2 DEF CaptureOrder
  <2> QED
    BY <2>1, <2>2
<1>7. QueueState' /\ (pc' = "preflight" => Pending' = PhaseOps')
  <2>1. CASE pc' = "preflight"
    <3>1. PipelineOps(Words(in.base), b, TRUE, TRUE)
            = PipelineOps(Words(in.base), in.boundary, TRUE, TRUE)
      BY DEF PipelineOps
    <3>2. PhaseOps' = PipelineOps(Words(in.base), in.boundary, TRUE, TRUE)
      <4>1. PhaseOps' = PipelineOps(Words(in.base), in.boundary, TRUE, TRUE)'
        BY <2>1 DEF PhaseOps
      <4> QED
        BY <1>1, <4>1 DEF PipelineOps, KernelOps, K1Op, Prescribed, Words
    <3>3. Piece(Calls({Words(in.base)}), pc', todo', 1, 25, PhaseOps', {"enqueue", "device_sync"})
      BY <1>2, <1>3, <2>1, <3>1, <3>2
    <3> QED
      BY <1>1, <1>5, <2>1, <3>3, FreshQueue DEF Working
  <2>2. CASE pc' # "preflight"
    <3>1. pc' \notin Working /\ pc' # "setup"
      BY <1>2, <2>2 DEF Working
    <3> QED
      BY <2>2, <3>1 DEF QueueState
  <2> QED
    BY <2>1, <2>2
<1> QED
  BY <1>2, <1>5, <1>6, <1>7 DEF OInv

\* The capture starts, or the loop, or the benchmark ends.
LEMMA AfterPreflightOrder ==
  ASSUME IInv, OInv, AfterPreflight
  PROVE  /\ OInv' /\ stream = <<>>
         /\ pc' = "capture" /\ ~Empty => {"poison", "device_sync"} \subseteq Called(todo)'
<1>1. /\ pc = "preflight" /\ todo = <<>> /\ Refusal = "OK"
      /\ UNCHANGED <<in, faulted, stream, dma, capturing, graph, log, index>>
  BY DEF AfterPreflight, Through, device, IInv, Accepted
<1>2. \/ in.boundary = "resident_graph" /\ pc' = "capture" /\ todo' = Capture
      \/ in.boundary # "resident_graph" /\ pc' = "loop" /\ todo' = <<>>
      \/ pc' = "destroy" /\ todo' = <<>>
  BY <1>1 DEF AfterPreflight, Continue, Leave
<1>3. pc' = "capture" => todo' # <<>>
  <2> SUFFICES ASSUME pc' = "capture" PROVE todo' # <<>>
    OBVIOUS
  <2>1. PICK O, C : Piece(Calls({Words(in.base)}), "capture", Capture, 1, 25, O, C)
                    /\ "instantiate" \in C
    <3>1. CASE Empty
      BY <1>1, <1>2, <3>1, CapturePiece DEF IInv, TypeOK
    <3>2. CASE ~Empty
      BY <1>1, <1>2, <3>2, CapturePiece DEF IInv, TypeOK
    <3> QED
      BY <3>1, <3>2
  <2>2. "instantiate" \in Called(Capture)
    BY <2>1 DEF Piece
  <2> QED
    BY <1>2, <2>2 DEF Called
<1>4. stream = <<>> /\ dma = {} /\ ~capturing /\ GraphState' /\ SyncState'
  <2>1. pc' \notin Working /\ pc' \notin {"start", "setup", "preflight"}
    BY <1>2 DEF Working
  <2>2. pc' \in {"loop", "run", "readback"} => in.boundary # "resident_graph"
    BY <1>2
  <2> QED
    <3>1. todo' # <<>> => pc' = "capture"
      BY <1>2
    <3> QED
      BY <1>1, <1>3, <2>1, <2>2, <3>1, BetweenOrder
<1>5. /\ CaptureOrder'
      /\ pc' = "capture" /\ ~Empty => {"poison", "device_sync"} \subseteq Called(todo)'
  <2>1. CASE pc' = "capture"
    BY <1>1, <1>2, <1>4, <2>1, CaptureStarts
  <2>2. CASE pc' # "capture"
    BY <2>2 DEF CaptureOrder
  <2> QED
    BY <2>1, <2>2
<1>6. QueueState'
  <2>1. pc' \notin Working /\ pc' # "setup"
    BY <1>2 DEF Working
  <2> QED
    BY <2>1 DEF QueueState
<1> QED
  BY <1>4, <1>5, <1>6 DEF OInv

\* The loop starts.
LEMMA AfterCaptureOrder == ASSUME IInv, OInv, AfterCapture PROVE OInv'
<1>1. /\ pc = "capture" /\ todo = <<>> /\ pc' = "loop" /\ todo' = <<>>
      /\ UNCHANGED <<in, faulted, stream, dma, capturing, graph, log, index>>
  BY DEF AfterCapture, Through, Continue, device
<1>2. GraphState' /\ SyncState'
  BY <1>1, BetweenOrder DEF Working
<1>3. CaptureOrder' /\ QueueState'
  BY <1>1 DEF CaptureOrder, QueueState, Working
<1> QED
  BY <1>2, <1>3 DEF OInv

\* A run starts.
LEMMA StartRunOrder ==
  ASSUME IInv, OInv, StartRun
  PROVE  /\ OInv' /\ (pc' = "run" => Pending' = PhaseOps')
         /\ pc' = "run" /\ in.boundary = "resident_graph" => "launch" \in Called(todo)'
<1> DEFINE id == RunInvocationId(in.base, in.warmups, in.reps, index, in.step)
           c == Transfers(in.boundary)
           s == BenchPipeline(id, in.boundary, c, FALSE)
           l == <<Call("launch"), Call("device_sync")>>
           d == <<Call("device_sync")>>
           W == {WordsOf(index')}
<1>1. /\ pc = "loop" /\ todo = <<>> /\ index' = index + 1 /\ index \in Nat
      /\ UNCHANGED <<in, faulted, stream, dma, capturing, graph, log>>
  BY DEF StartRun, Through, device, IInv, TypeOK
<1>2. \/ pc' = "destroy" /\ todo' = <<>>
      \/ pc' = "run" /\ todo' = RunCalls(index)
  BY <1>1 DEF StartRun, Leave, Continue
<1>3. \/ in.boundary = "resident_graph" /\ RunCalls(index) = l
      \/ in.boundary # "resident_graph" /\ Empty /\ RunCalls(index) = d
      \/ Staged /\ RunCalls(index) = s
  BY DEF RunCalls, Staged
<1>4. Words(id) = WordsOf(index')
  BY <1>1 DEF WordsOf
<1>5. /\ Piece(Calls(W), "run", s, 1, 25, PipelineOps(WordsOf(index'), in.boundary, c, FALSE),
               {"enqueue", "device_sync"})
      /\ EndsInSync(s)
  <2> DEFINE p == "run"
             no == FALSE
             b == in.boundary
  <2>1. no \in BOOLEAN /\ c \in BOOLEAN /\ Words(id) \in W /\ p # "capture"
    BY <1>4 DEF Transfers
  <2> HIDE DEF p, W, no, b, c, id
  <2>2. LET q == BenchPipeline(id, b, c, no) IN
        /\ Piece(Calls(W), p, q, 1, 25, PipelineOps(Words(id), b, c, no),
                 {"enqueue", "device_sync"})
        /\ EndsInSync(q)
    BY <2>1, PipelinePiece
  <2>3. LET q == BenchPipeline(id, b, c, no) IN
        /\ Piece(Calls(W), p, q, 1, 25, PipelineOps(WordsOf(index'), b, c, no),
                 {"enqueue", "device_sync"})
        /\ EndsInSync(q)
    BY <1>4, <2>2
  <2> QED
    BY <2>3 DEF p, no, b
<1>6. /\ Piece(Calls(W), "run", l, 1, 25, {}, {"launch", "device_sync"})
      /\ Piece(Calls(W), "run", d, 1, 25, {}, {"device_sync"})
      /\ EndsInSync(l) /\ EndsInSync(d)
  <2> DEFINE p == "run"
  <2>1. p # "capture"
    OBVIOUS
  <2> HIDE DEF p, W
  <2>2. /\ Piece(Calls(W), p, l, 1, 25, {}, {"launch", "device_sync"})
        /\ Piece(Calls(W), p, d, 1, 25, {}, {"device_sync"})
        /\ EndsInSync(l) /\ EndsInSync(d)
    BY <2>1, LaunchPiece
  <2> QED
    BY <2>2 DEF p
<1> HIDE DEF s, l, d, W, c
<1>7. stream = <<>> /\ GraphState' /\ SyncState'
  <2>1. pc' \in Working \/ (pc' = "setup" /\ ~Empty) => EndsInSync(todo')
    BY <1>2, <1>3, <1>5, <1>6 DEF Working
  <2> QED
    <3>1. todo' # <<>> => pc' \in Working
      BY <1>2 DEF Working
    <3> QED
      BY <1>1, <1>2, <2>1, <3>1, BetweenOrder
<1>8. CaptureOrder'
  BY <1>2 DEF CaptureOrder
<1>9. /\ QueueState' /\ (pc' = "run" => Pending' = PhaseOps')
      /\ pc' = "run" /\ in.boundary = "resident_graph" => "launch" \in Called(todo)'
  <2>1. CASE pc' = "destroy"
    BY <2>1 DEF QueueState, Working
  <2>2. CASE pc' = "run" /\ Staged
    <3>1. in.boundary # "resident_graph" /\ ~Empty
      BY <2>2 DEF Staged
    <3>2. todo' = s
      BY <1>2, <1>3, <2>2, <3>1
    <3>3. PhaseOps' = PipelineOps(WordsOf(index'), in.boundary, c, FALSE)
      <4>1. Staged'
        BY <1>1, <2>2, OpsStay
      <4>2. PhaseOps' = PipelineOps(WordsOf(index), in.boundary, Transfers(in.boundary), FALSE)'
        BY <2>2, <4>1 DEF PhaseOps
      <4>3. WordsOf(index)' = WordsOf(index')
        BY <1>1 DEF WordsOf, Words
      <4> QED
        BY <1>1, <4>2, <4>3 DEF PipelineOps, KernelOps, K1Op, Prescribed, Transfers, c
    <3>4. Piece(Calls(W), pc', todo', 1, 25, PhaseOps', {"enqueue", "device_sync"})
      BY <1>5, <2>2, <3>2, <3>3
    <3> QED
      BY <1>1, <1>7, <2>2, <3>1, <3>4, FreshQueue DEF Working
  <2>3. CASE pc' = "run" /\ in.boundary = "resident_graph"
    <3>1. ~Staged /\ ~Staged'
      BY <1>1, <2>3 DEF Staged
    <3>2. todo' = l
      BY <1>2, <1>3, <2>3, <3>1
    <3>3. Called(todo)' = {"launch", "device_sync"}
      BY <1>6, <3>2 DEF Piece, Called
    <3>4. PhaseOps' = {}
      BY <2>3, <3>1, <3>3 DEF PhaseOps
    <3>5. Piece(Calls(W), pc', todo', 1, 25, PhaseOps', {"launch", "device_sync"})
      BY <1>6, <2>3, <3>2, <3>4
    <3> QED
      BY <1>1, <1>7, <2>3, <3>1, <3>3, <3>5, FreshQueue DEF Working
  <2>4. CASE pc' = "run" /\ in.boundary # "resident_graph" /\ Empty
    <3>1. ~Staged /\ ~Staged'
      BY <1>1, <2>4 DEF Staged, Empty
    <3>2. todo' = d
      BY <1>2, <1>3, <2>4, <3>1
    <3>3. graph' = <<>>
      BY <1>1, <2>4 DEF OInv, SyncState
    <3>4. PhaseOps' = {}
      BY <2>4, <3>1, <3>3 DEF PhaseOps
    <3>5. Piece(Calls(W), pc', todo', 1, 25, PhaseOps', {"device_sync"})
      BY <1>6, <2>4, <3>2, <3>4
    <3> QED
      BY <1>1, <1>7, <2>4, <3>5, FreshQueue DEF Working
  <2> QED
    BY <1>2, <1>3, <2>1, <2>2, <2>3, <2>4
<1> QED
  BY <1>7, <1>8, <1>9 DEF OInv

\* A run ends.
LEMMA AfterRunOrder == ASSUME IInv, OInv, AfterRun PROVE OInv' /\ stream = <<>>
<1>1. /\ pc = "run" /\ todo = <<>> /\ todo' = <<>>
      /\ (pc' = "loop" /\ faulted' = faulted) \/ pc' = "destroy"
      /\ UNCHANGED <<in, stream, dma, capturing, graph, log, index>>
  BY Zenon DEF AfterRun, Through, Continue, Leave, device
<1>2. stream = <<>> /\ GraphState' /\ SyncState'
  BY <1>1, BetweenOrder DEF Working
<1>3. CaptureOrder' /\ QueueState'
  BY <1>1 DEF CaptureOrder, QueueState, Working
<1> QED
  BY <1>2, <1>3 DEF OInv

\* The loop ends.
LEMMA AfterLoopOrder ==
  ASSUME IInv, OInv, AfterLoop
  PROVE  OInv' /\ stream = <<>> /\ (pc' = "readback" => Pending' = PhaseOps')
<1>1. /\ pc = "loop" /\ todo = <<>>
      /\ \/ pc' = "readback" /\ todo' = Readback
         \/ pc' = "destroy" /\ todo' = <<>>
      /\ UNCHANGED <<in, faulted, stream, dma, capturing, graph, log, index>>
  BY DEF AfterLoop, Through, Continue, Leave, device
<1>2. /\ Piece(Calls({Words(in.base)}), "readback", Readback, 1, 25,
               {DownloadOp(what) : what \in HostFields}, {"enqueue", "device_sync"})
      /\ EndsInSync(Readback)
  BY ReadbackPiece
<1>3. stream = <<>> /\ GraphState' /\ SyncState'
  BY <1>1, <1>2, BetweenOrder DEF Working
<1>4. CaptureOrder'
  BY <1>1 DEF CaptureOrder
<1>5. QueueState' /\ (pc' = "readback" => Pending' = PhaseOps')
  <2>1. CASE pc' = "readback"
    <3>1. PhaseOps' = {DownloadOp(what) : what \in HostFields}
      BY <2>1 DEF PhaseOps
    <3>2. Piece(Calls({Words(in.base)}), pc', todo', 1, 25, PhaseOps', {"enqueue", "device_sync"})
      BY <1>1, <1>2, <2>1, <3>1
    <3> QED
      BY <1>1, <1>3, <2>1, <3>2, FreshQueue DEF Working
  <2>2. CASE pc' = "destroy"
    BY <2>2 DEF QueueState, Working
  <2> QED
    BY <1>1, <2>1, <2>2
<1> QED
  BY <1>3, <1>4, <1>5 DEF OInv

\* The readback ends.
LEMMA AfterReadbackOrder == ASSUME IInv, OInv, AfterReadback PROVE OInv' /\ stream = <<>>
<1>1. /\ pc = "readback" /\ todo = <<>> /\ pc' = "destroy" /\ todo' = <<>>
      /\ UNCHANGED <<in, faulted, stream, dma, capturing, graph, log, index>>
  BY DEF AfterReadback, Through, Leave, device
<1>2. stream = <<>> /\ GraphState' /\ SyncState'
  BY <1>1, BetweenOrder DEF Working
<1>3. CaptureOrder' /\ QueueState'
  BY <1>1 DEF CaptureOrder, QueueState, Working
<1> QED
  BY <1>2, <1>3 DEF OInv

\* What remains of the order when the benchmark is over.
LEMMA EndOrder ==
  ASSUME OInv, pc' \in {"destroy", "done"}, UNCHANGED <<in, graph>>, ~capturing',
         dma' \subseteq {Poisoned'}, Empty => stream' = <<>> /\ log' = <<>>, todo' = <<>>
  PROVE  OInv'
<1>1. Empty' <=> Empty
  BY DEF Empty
<1>2. GraphState'
  <2>1. (InOrder(graph) /\ GraphOps \subseteq KernelOps(Words(in.base)))'
    BY OpsStay DEF OInv, GraphState, InOrder, GraphOps
  <2> QED
    BY <2>1 DEF GraphState
<1>3. SyncState'
  BY <1>1 DEF OInv, SyncState, Working
<1>4. CaptureOrder' /\ QueueState'
  BY DEF CaptureOrder, QueueState, Working
<1> QED
  BY <1>2, <1>3, <1>4 DEF OInv

\* The context is destroyed.
LEMMA DestroyOrder == ASSUME IInv, OInv, Destroy PROVE OInv'
<1>1. /\ pc = "destroy" /\ pc' \in {"destroy", "done"}
      /\ todo' = <<>> /\ UNCHANGED <<in, stream, dma, capturing, graph, log, base>>
  BY DEF Destroy, device, IInv, EndState
<1>2. ~capturing /\ dma' \subseteq {Poisoned'}
  BY <1>1 DEF OInv, GraphState, Poisoned
<1> QED
  BY <1>1, <1>2, EndOrder DEF OInv, SyncState

\* A call fails.
LEMMA CallFailsOrder == ASSUME IInv, OInv, CallFails PROVE OInv'
<1>1. /\ pc' = "destroy" /\ ~capturing' /\ todo' = <<>> /\ UNCHANGED <<in, stream, dma, graph, log, base>>
  BY DEF CallFails, device
<1>2. dma' \subseteq {Poisoned'}
  BY <1>1 DEF OInv, GraphState, Poisoned
<1> QED
  BY <1>1, <1>2, EndOrder DEF OInv, SyncState

\* The poison lands.
LEMMA PoisonLandsOrder == ASSUME IInv, OInv, PoisonLands PROVE OInv'
<1>1. /\ dma' = {}
      /\ UNCHANGED <<in, pc, status, faulted, todo, stream, capturing, graph, base, log, index>>
  BY DEF PoisonLands
<1>2. Empty' <=> Empty
  BY <1>1 DEF Empty
<1>3. GraphState'
  <2>1. (InOrder(graph) /\ GraphOps \subseteq KernelOps(Words(in.base)))'
    BY <1>1, OpsStay DEF OInv, GraphState, InOrder, GraphOps
  <2>2. ((pc \in {"loop", "run", "readback"} \/ (pc = "capture" /\ todo = <<>>))
           /\ in.boundary = "resident_graph" /\ ~Empty /\ ~faulted =>
         KernelOps(Words(in.base)) \subseteq GraphOps)'
    BY <1>1, <1>2, OpsStay DEF OInv, GraphState, GraphOps
  <2> QED
    BY <1>1, <2>1, <2>2 DEF OInv, GraphState
<1>4. SyncState'
  BY <1>1, <1>2 DEF OInv, SyncState, EndsInSync
<1>5. CaptureOrder'
  <2>1. Within(pc, todo, 1, 25)' <=> Within(pc, todo, 1, 25)
    BY <1>1 DEF Within
  <2>2. Called(todo)' = Called(todo) /\ Asked(todo)' = Asked(todo) /\ GraphOps' = GraphOps
    BY <1>1 DEF Called, Asked, GraphOps
  <2>3. KernelOps(Words(in.base))' = KernelOps(Words(in.base))
    BY <1>1, OpsStay
  <2> QED
    BY <1>1, <1>2, <2>1, <2>2, <2>3 DEF OInv, CaptureOrder
<1>6. QueueState'
  <2>1. Called(todo)' = Called(todo) /\ Pending' = Pending /\ Queued' = Queued
    BY <1>1 DEF Called, Pending, Queued, Asked
  <2>2. PhaseOps' = PhaseOps /\ (Staged' <=> Staged)
    BY <1>1, <2>1, PhaseStays, OpsStay
  <2>3. Within(pc, todo, 1, 25)' <=> Within(pc, todo, 1, 25)
    BY <1>1 DEF Within
  <2> QED
    BY <1>1, <2>1, <2>2, <2>3 DEF OInv, QueueState
<1> QED
  BY <1>3, <1>4, <1>5, <1>6 DEF OInv

\* The device does the first operation of its stream.
LEMMA DeviceStepOrder ==
  ASSUME IInv, OInv, DeviceStep
  PROVE  /\ OInv'
         /\ Head(stream).op \in Pending /\ Pending' \subseteq Pending
         /\ Pending \subseteq Pending' \cup {Head(stream).op}
         /\ pc \in Working => /\ Pending' = Pending \ {Head(stream).op}
                              /\ PhaseOps' = PhaseOps /\ Head(stream).op \in PhaseOps
                              /\ Head(stream).run = index
                              /\ \A q \in Pending' : OpRank(Head(stream).op) < OpRank(q)
         /\ pc \notin {"start", "loop", "capture"}
<1> DEFINE o == Head(stream).op
           k == Len(stream)
<1>1. /\ stream # <<>> /\ stream' = Tail(stream) /\ stream \in Seq(Entries(index))
      /\ UNCHANGED <<in, pc, status, faulted, todo, dma, capturing, graph, base, index>>
  BY DEF DeviceStep, IInv, WordsState
<1>2. /\ o \in Pending /\ Pending' \subseteq Pending /\ Pending \subseteq Pending' \cup {o}
      /\ \A i \in 1..Len(stream') : i + 1 \in 1..k /\ stream'[i] = stream[i + 1]
  BY <1>1, PendingShrinks
<1>3. k \in Nat /\ k >= 1 /\ Head(stream) = stream[1] /\ Len(stream') = k - 1
  BY <1>1, HeadTailProperties
<1>4. ~Empty /\ pc \notin {"start", "loop", "capture"}
  BY <1>1 DEF OInv, SyncState, CaptureOrder
<1>5. ~Empty'
  BY <1>1, <1>4 DEF Empty
<1>6. GraphState'
  <2>1. (InOrder(graph) /\ GraphOps \subseteq KernelOps(Words(in.base)))'
    BY <1>1, OpsStay DEF OInv, GraphState, InOrder, GraphOps
  <2>2. ((pc \in {"loop", "run", "readback"} \/ (pc = "capture" /\ todo = <<>>))
           /\ in.boundary = "resident_graph" /\ ~Empty /\ ~faulted =>
         KernelOps(Words(in.base)) \subseteq GraphOps)'
    BY <1>1, <1>4, OpsStay DEF OInv, GraphState, GraphOps
  <2>3. Poisoned' = Poisoned
    BY <1>1 DEF Poisoned
  <2> QED
    BY <1>1, <2>1, <2>2, <2>3 DEF OInv, GraphState
<1>7. SyncState'
  BY <1>1, <1>4, <1>5 DEF OInv, SyncState, EndsInSync
<1>8. CaptureOrder'
  BY <1>1, <1>4 DEF CaptureOrder
<1>9. Called(todo)' = Called(todo) /\ PhaseOps' = PhaseOps /\ (Staged' <=> Staged)
  <2>1. Called(todo)' = Called(todo)
    BY <1>1 DEF Called
  <2> QED
    BY <1>1, <2>1, PhaseStays, OpsStay
<1>10. ASSUME pc \in Working
       PROVE  /\ \A q \in Pending' : OpRank(o) < OpRank(q)
              /\ Pending' = Pending \ {o} /\ o \in PhaseOps /\ Head(stream).run = index
              /\ (QueueState)'
  <2>1. /\ Within(pc, todo, 1, 25) /\ Pending \subseteq PhaseOps
        /\ Called(todo) \subseteq {"enqueue", "device_sync", "launch"}
        /\ "launch" \in Called(todo) => pc = "run" /\ ~Staged
        /\ \A i, j \in 1..k : i < j => OpRank(stream[i].op) < OpRank(stream[j].op)
        /\ \A i \in 1..k, j \in 1..Len(todo) : OpRank(stream[i].op) < CallRank(pc, todo[j])
        /\ \A i \in 1..k : stream[i].run = index
        /\ \A x \in PhaseOps \ Pending, q \in Pending : OpRank(x) < OpRank(q)
    BY <1>10 DEF OInv, QueueState
  <2>2. 1 \in 1..k /\ \A i \in 1..Len(stream') : 1 < i + 1 /\ i + 1 \in 1..k
    BY <1>2, <1>3
  <2>3. todo \in Seq(Calls({WordsOf(index)}))
    BY DEF IInv, WordsState
  <2>4. \A i \in 1..Len(stream') : OpRank(o) < OpRank(stream'[i].op)
    BY <1>2, <1>3, <2>1, <2>2
  <2>5. \A x \in Asked(todo) : OpRank(o) < OpRank(x)
    <3> SUFFICES ASSUME NEW x \in Asked(todo) PROVE OpRank(o) < OpRank(x)
      OBVIOUS
    <3>1. PICK j \in 1..Len(todo) : todo[j].call = "enqueue" /\ todo[j].op = x
      BY DEF Asked
    <3>2. todo[j] \in Calls({WordsOf(index)})
      BY <2>3
    <3>3. CallRank(pc, todo[j]) = OpRank(x)
      BY <3>1, <3>2, CallRanks
    <3> QED
      BY <1>3, <2>1, <2>2, <3>3
  <2>6. \A q \in Pending' : OpRank(o) < OpRank(q)
    <3>1. Pending' = {stream'[i].op : i \in 1..Len(stream')} \cup Asked(todo)
      BY <1>1 DEF Pending, Queued, Asked
    <3> QED
      BY <2>4, <2>5, <3>1
  <2>7. o \in Ops({WordsOf(index)}) \/ OpRank(o) \in Nat
    <3>1. stream[1] \in Entries(index) /\ index \in Nat
      BY <1>1, <2>2 DEF IInv, TypeOK
    <3>2. o \in Ops({WordsOf(stream[1].run)})
      BY <1>3, <3>1, EntryFacts
    <3> QED
      BY <3>2, OpRanks
  <2>8. OpRank(o) \in Nat
    BY <2>7, OpRanks
  <2>9. o \notin Pending'
    BY <2>6, <2>8
  <2>10. Pending' = Pending \ {o}
    BY <1>2, <2>9
  <2>11. QueueState'
    <3>1. Within(pc, todo, 1, 25)'
      BY <1>1, <2>1 DEF Within
    <3>2. \A i, j \in 1..Len(stream') : i < j => OpRank(stream'[i].op) < OpRank(stream'[j].op)
      <4> SUFFICES ASSUME NEW i \in 1..Len(stream'), NEW j \in 1..Len(stream'), i < j
                   PROVE  OpRank(stream'[i].op) < OpRank(stream'[j].op)
        OBVIOUS
      <4>1. i + 1 < j + 1
        BY <1>3
      <4> QED
        BY <1>2, <2>1, <4>1
    <3>3. \A i \in 1..Len(stream'), j \in 1..Len(todo) : OpRank(stream'[i].op) < CallRank(pc, todo[j])
      BY <1>2, <2>1
    <3>4. \A i \in 1..Len(stream') : stream'[i].run = index
      BY <1>2, <2>1
    <3>5. Pending' \subseteq PhaseOps
      BY <1>2, <2>1
    <3>6. \A x \in PhaseOps \ Pending', q \in Pending' : OpRank(x) < OpRank(q)
      <4> SUFFICES ASSUME NEW x \in PhaseOps, x \notin Pending', NEW q \in Pending'
                   PROVE  OpRank(x) < OpRank(q)
        OBVIOUS
      <4>1. q \in Pending
        BY <1>2
      <4>2. x = o \/ x \notin Pending
        BY <2>10
      <4> QED
        BY <2>1, <2>6, <4>1, <4>2
    <3>7. pc' # "setup"
      BY <1>1, <1>10 DEF Working
    <3> QED
      BY <1>1, <1>9, <2>1, <3>1, <3>2, <3>3, <3>4, <3>5, <3>6, <3>7 DEF QueueState
  <2> QED
    BY <1>2, <1>3, <2>1, <2>2, <2>6, <2>10, <2>11
<1>11. QueueState'
  <2>1. CASE pc \in Working
    BY <1>10, <2>1
  <2>2. CASE pc = "setup"
    <3>1. Queued' \subseteq Queued
      BY <1>2, <1>3 DEF Queued
    <3> QED
      BY <1>1, <2>2, <3>1 DEF OInv, QueueState, Working, SetupCallSet, SetupUploads
  <2>3. CASE pc \notin Working /\ pc # "setup"
    BY <1>1, <2>3 DEF QueueState
  <2> QED
    BY <2>1, <2>2, <2>3
<1> QED
  BY <1>2, <1>4, <1>6, <1>7, <1>8, <1>9, <1>10, <1>11 DEF OInv

\* A call of the set-up succeeds.
LEMMA SetupCallOrder ==
  ASSUME IInv, OInv, MakeCall, pc = "setup"
  PROVE  OInv' /\ Pending' = Pending
<1> DEFINE c == Head(todo)
<1>1. /\ todo # <<>> /\ todo' = Tail(todo) /\ todo \in Seq(SetupCallSet) /\ ~capturing
      /\ UNCHANGED <<in, pc, status, dev, base, log, index>>
  BY CallEffects DEF OInv, QueueState, GraphState
<1>2. c \in SetupCallSet /\ Tail(todo) \in Seq(SetupCallSet)
  BY <1>1, TailFacts
<1>3. c.call \in {"create", "host_alloc", "malloc", "stream_sync"}
      \/ (c.call = "enqueue" /\ c.op \in SetupUploads)
  BY <1>2 DEF SetupCallSet
<1> HIDE DEF c
<1>4. /\ UNCHANGED <<dma, capturing, graph, faulted>>
      /\ \/ c.call = "enqueue" /\ stream' = Append(stream, [op |-> c.op, run |-> index])
         \/ c.call # "enqueue" /\ stream' = stream
  BY <1>1, <1>3, CallEffects DEF c
<1>5. stream \in Seq(Entries(index))
  BY DEF IInv, WordsState
<1>6. Pending' = Pending
  BY <1>1, <1>4, <1>5, PendingStays DEF c
<1>7. Queued' \subseteq SetupUploads
  <2>1. Queued \subseteq SetupUploads
    BY DEF OInv, QueueState
  <2>2. CASE c.call = "enqueue"
    <3> DEFINE x == [op |-> c.op, run |-> index]
               k == Len(stream)
    <3>1. k \in Nat /\ Len(stream') = k + 1 /\ stream'[k + 1] = x
          /\ \A i \in 1..k : stream'[i] = stream[i]
      BY <1>4, <1>5, <2>2
    <3>2. x.op \in SetupUploads
      BY <1>3, <2>2
    <3> HIDE DEF x, k
    <3>3. 1..(k + 1) = 1..k \cup {k + 1}
      BY <3>1
    <3>4. \A i \in 1..k : stream[i].op \in SetupUploads
      BY <2>1 DEF Queued, k
    <3> QED
      BY <3>1, <3>2, <3>3, <3>4 DEF Queued
  <2>3. CASE c.call # "enqueue"
    BY <1>4, <2>1, <2>3 DEF Queued
  <2> QED
    BY <2>2, <2>3
<1>8. QueueState'
  BY <1>1, <1>2, <1>7 DEF QueueState, SetupCallSet, SetupUploads, Working
<1>9. Empty' <=> Empty
  BY <1>1 DEF Empty
<1>10. GraphState'
  <2>1. (InOrder(graph) /\ GraphOps \subseteq KernelOps(Words(in.base)))'
    BY <1>1, <1>4, OpsStay DEF OInv, GraphState, InOrder, GraphOps
  <2> QED
    BY <1>1, <1>4, <2>1 DEF OInv, GraphState
<1>11. SyncState'
  <2>1. ASSUME ~Empty
        PROVE  EndsInSync(todo)' /\ (stream' # <<>> => todo' # <<>>)
    <3>1. EndsInSync(todo) /\ (stream # <<>> => todo # <<>>)
      BY <2>1 DEF OInv, SyncState
    <3>2. EndsInSync(Tail(todo)) /\ (c.call \notin {"stream_sync", "device_sync"} => Tail(todo) # <<>>)
      BY <1>1, <3>1, TailFacts DEF c
    <3>3. c.call = "stream_sync" => stream' = <<>>
      BY <1>4, CallEffects DEF c
    <3>4. EndsInSync(todo)'
      BY <1>1, <3>2 DEF EndsInSync
    <3> QED
      BY <1>1, <1>3, <3>2, <3>3, <3>4
  <2>2. Empty => stream' = <<>>
    <3>1. Empty => stream = <<>> /\ todo \in Seq(QuietCalls)
      BY DEF OInv, SyncState, IInv, MemoryState
    <3>2. Empty => c \in QuietCalls
      BY <1>1, <3>1, TailFacts DEF c
    <3>3. Empty => c.call # "enqueue"
      BY <3>2 DEF QuietCalls, CallNames, OtherCalls
    <3> QED
      BY <1>4, <3>1, <3>3
  <2> QED
    BY <1>1, <1>4, <1>9, <2>1, <2>2 DEF OInv, SyncState, Working
<1>12. CaptureOrder'
  BY <1>1 DEF CaptureOrder
<1> QED
  BY <1>6, <1>8, <1>10, <1>11, <1>12 DEF OInv

\* A call of a pipeline, of a launch or of the readback succeeds.
LEMMA WorkCallOrder ==
  ASSUME IInv, OInv, MakeCall, pc \in Working
  PROVE  /\ OInv'
         /\ Head(todo).call \in {"enqueue", "device_sync", "launch"}
         /\ Head(todo).call # "launch" =>
              /\ Pending' = Pending /\ PhaseOps' = PhaseOps
              /\ "launch" \in Called(todo)' <=> "launch" \in Called(todo)
         /\ Head(todo).call = "launch" =>
              /\ Pending = {} /\ Pending' = GraphOps /\ PhaseOps' = GraphOps
              /\ pc = "run" /\ ~Staged /\ "launch" \in Called(todo) /\ "launch" \notin Called(todo)'
         /\ UNCHANGED <<dma, capturing, graph, faulted, host>>
<1> DEFINE c == Head(todo)
           t == Tail(todo)
           W == {WordsOf(index)}
           k == Len(stream)
<1>1. /\ todo # <<>> /\ todo' = t /\ todo \in Seq(Calls(W)) /\ c \in Calls(W) /\ ~capturing
      /\ UNCHANGED <<in, pc, status, dev, base, log, index>>
  BY CallEffects DEF OInv, GraphState, Working
<1>2. /\ Within(pc, todo, 1, 25)
      /\ Called(todo) \subseteq {"enqueue", "device_sync", "launch"}
      /\ "launch" \in Called(todo) => pc = "run" /\ ~Staged
      /\ \A i, j \in 1..k : i < j => OpRank(stream[i].op) < OpRank(stream[j].op)
      /\ \A i \in 1..k, j \in 1..Len(todo) : OpRank(stream[i].op) < CallRank(pc, todo[j])
      /\ \A i \in 1..k : stream[i].run = index
      /\ Pending \subseteq PhaseOps
      /\ \A o \in PhaseOps \ Pending, q \in Pending : OpRank(o) < OpRank(q)
  BY DEF OInv, QueueState
<1> HIDE DEF W
<1>3. /\ Asked(todo) = Asked(t) \cup (IF c.call = "enqueue" THEN {c.op} ELSE {})
      /\ Called(todo) = Called(t) \cup {c.call}
      /\ EndsInSync(todo) =>
           EndsInSync(t) /\ (c.call \notin {"stream_sync", "device_sync"} => t # <<>>)
  BY <1>1, TailFacts
<1>4. /\ Within(pc, t, 1, 25)
      /\ \A i \in 1..Len(t) : CallRank(pc, c) < CallRank(pc, t[i])
      /\ \A n \in Called(t) : \E d \in Calls(W) : d.call = n /\ CallRank(pc, c) < CallRank(pc, d)
  BY <1>1, <1>2, WithinTail
<1>5. /\ t \in Seq(Calls(W)) /\ c = todo[1] /\ 1 \in 1..Len(todo)
      /\ \A j \in 1..Len(t) : j + 1 \in 1..Len(todo) /\ t[j] = todo[j + 1]
  <2>1. Len(todo) \in Nat /\ Len(todo) >= 1 /\ c = todo[1] /\ Len(t) = Len(todo) - 1
    BY <1>1, HeadTailProperties
  <2>2. t \in Seq(Calls(W)) /\ \A j \in 1..Len(t) : t[j] = todo[j + 1]
    BY <1>1, HeadTailProperties
  <2> QED
    BY <2>1, <2>2
<1> HIDE DEF c, t
<1>6. c.call \in {"enqueue", "device_sync", "launch"}
  BY <1>2, <1>3
<1>7. stream \in Seq(Entries(index)) /\ graph \in Seq(Ops({Words(in.base)}))
  BY DEF IInv, WordsState
<1>8. UNCHANGED <<dma, capturing, graph, faulted, host>>
  BY <1>1, <1>6, CallEffects DEF c
<1>9. (Empty' <=> Empty) /\ (Staged' <=> Staged)
  BY <1>1, OpsStay DEF Empty
<1>10. Called(todo)' = Called(t) /\ Asked(todo)' = Asked(t) /\ (Within(pc, todo, 1, 25)' <=> Within(pc, t, 1, 25))
  BY <1>1 DEF Called, Asked, Within
<1>11. GraphState'
  <2>1. (InOrder(graph) /\ GraphOps \subseteq KernelOps(Words(in.base)))'
    BY <1>1, <1>8, OpsStay DEF OInv, GraphState, InOrder, GraphOps
  <2>2. ((pc \in {"loop", "run", "readback"} \/ (pc = "capture" /\ todo = <<>>))
           /\ in.boundary = "resident_graph" /\ ~Empty /\ ~faulted =>
         KernelOps(Words(in.base)) \subseteq GraphOps)'
    BY <1>1, <1>8, <1>9, OpsStay DEF OInv, GraphState, GraphOps, Working
  <2>3. (pc \in {"start", "setup", "preflight"} => graph = <<>> /\ ~faulted)'
    BY <1>1, <1>8 DEF OInv, GraphState
  <2>4. (faulted /\ pc \notin {"destroy", "done"} => in.boundary = "resident_graph")'
    BY <1>1, <1>8 DEF OInv, GraphState
  <2>5. (pc \notin {"capture"} => ~capturing)'
    BY <1>1, <1>8 
  <2>6. (pc \notin {"capture", "destroy", "done"} => dma = {})' /\ (dma \subseteq {Poisoned})'
    BY <1>1, <1>8 DEF OInv, GraphState, Poisoned
  <2> QED
    BY <2>1, <2>2, <2>3, <2>4, <2>5, <2>6 DEF GraphState
<1>12. c.call = "enqueue" => stream' = Append(stream, [op |-> c.op, run |-> index])
  BY <1>1, CallEffects DEF c
<1>13. c.call = "device_sync" => stream' = stream /\ stream = <<>>
  BY CallEffects DEF c
<1>14. c.call = "launch" => stream' = stream \o [i \in DOMAIN graph |-> [op |-> graph[i], run |-> index]]
  BY CallEffects DEF c
<1>15. CaptureOrder'
  BY <1>1 DEF CaptureOrder, Working
<1>16. ASSUME c.call = "launch"
       PROVE  /\ Pending = {} /\ Pending' = GraphOps /\ PhaseOps' = GraphOps
              /\ pc = "run" /\ ~Staged /\ "launch" \in Called(todo) /\ "launch" \notin Called(todo)'
              /\ QueueState' /\ Len(stream') = Len(graph)
  <2>1. "launch" \in Called(todo) /\ pc = "run" /\ ~Staged
    BY <1>2, <1>3, <1>16
  <2>2. PhaseOps = {}
    BY <2>1 DEF PhaseOps
  <2>3. Pending = {} /\ Asked(todo) = {} /\ Queued = {}
    BY <1>2, <2>2 DEF Pending
  <2>4. stream = <<>>
    <3>1. k \in Nat /\ (k = 0 => stream = <<>>)
      BY <1>7
    <3>2. 1..k = {}
      BY <2>3 DEF Queued
    <3> QED
      BY <3>1, <3>2
  <2>5. "launch" \notin Called(t)
    <3> SUFFICES ASSUME "launch" \in Called(t) PROVE FALSE
      OBVIOUS
    <3>1. PICK d \in Calls(W) : d.call = "launch" /\ CallRank(pc, c) < CallRank(pc, d)
      BY <1>4
    <3>2. CallRank(pc, d) = 3 /\ CallRank(pc, c) = 3
      BY <1>1, <1>16, <3>1, CallRanks
    <3> QED
      BY <3>1, <3>2
  <2>6. /\ Len(stream') = Len(graph) /\ Len(graph) \in Nat
        /\ \A i \in 1..Len(graph) : stream'[i] = [op |-> graph[i], run |-> index]
    <3> DEFINE g == [i \in 1..Len(graph) |-> [op |-> graph[i], run |-> index]]
               T == [op : Ops({Words(in.base)}), run : {index}]
    <3>1. Len(graph) \in Nat /\ DOMAIN graph = 1..Len(graph)
          /\ \A i \in 1..Len(graph) : graph[i] \in Ops({Words(in.base)})
      BY <1>7
    <3>2. g \in Seq(T) /\ Len(g) = Len(graph)
      <4>1. \A i \in 1..Len(graph) : [op |-> graph[i], run |-> index] \in T
        BY <3>1
      <4> HIDE DEF T
      <4>2. g \in Seq(T)
        BY <3>1, <4>1
      <4> QED
        BY <3>1, <4>2
    <3>3. stream' = stream \o g
      BY <1>14, <1>16, <3>1
    <3>4. <<>> \o g = g
      <4> HIDE DEF g
      <4> QED
        BY <3>2, ConcatEmptySeq
    <3>5. stream' = g
      BY <2>4, <3>3, <3>4
    <3> QED
      BY <3>1, <3>2, <3>5
  <2>7. \A i \in 1..Len(graph) : stream'[i].op = graph[i] /\ stream'[i].run = index
    <3> SUFFICES ASSUME NEW i \in 1..Len(graph)
                 PROVE  stream'[i].op = graph[i] /\ stream'[i].run = index
      OBVIOUS
    <3>1. stream'[i] = [op |-> graph[i], run |-> index]
      BY <2>6
    <3> QED
      BY <3>1
  <2>8. Queued' = GraphOps
    BY <2>6, <2>7 DEF Queued, GraphOps
  <2>9. Asked(t) = {}
    BY <1>3, <2>3
  <2>10. Pending' = GraphOps
    BY <1>10, <2>8, <2>9 DEF Pending
  <2>11. PhaseOps' = GraphOps
    BY <1>1, <1>8, <1>9, <1>10, <2>1, <2>5 DEF PhaseOps, GraphOps
  <2>12. \A i, j \in 1..Len(stream') : i < j => OpRank(stream'[i].op) < OpRank(stream'[j].op)
    <3>1. InOrder(graph)
      BY DEF OInv, GraphState
    <3> QED
      BY <2>6, <2>7, <3>1 DEF InOrder
  <2>13. \A i \in 1..Len(stream'), j \in 1..Len(t) : OpRank(stream'[i].op) < CallRank(pc, t[j])
    <3> SUFFICES ASSUME NEW i \in 1..Len(stream'), NEW j \in 1..Len(t)
                 PROVE  OpRank(stream'[i].op) < CallRank(pc, t[j])
      OBVIOUS
    <3>1. stream'[i].op = graph[i] /\ graph[i] \in Ops({Words(in.base)})
      BY <1>7, <2>6, <2>7
    <3>2. OpRank(graph[i]) \in Nat /\ OpRank(graph[i]) < 23
      BY <3>1, OpRanks
    <3>3. t[j] \in Calls(W) /\ t[j].call \in Called(t)
      BY <1>5 DEF Called
    <3>4. t[j].call # "enqueue"
      BY <2>9 DEF Asked
    <3>5. t[j].call = "device_sync"
      BY <1>2, <1>3, <2>5, <3>3, <3>4
    <3>6. CallRank(pc, t[j]) = 23
      BY <2>1, <3>3, <3>5, CallRanks
    <3> QED
      BY <3>1, <3>2, <3>6
  <2>14. \A i \in 1..Len(stream') : stream'[i].run = index
    BY <2>6, <2>7
  <2>15. QueueState'
    <3>1. Called(t) \subseteq {"enqueue", "device_sync", "launch"}
      BY <1>2, <1>3
    <3>2. (pc' = "setup") = FALSE
      BY <1>1, <2>1
    <3> QED
      BY <1>1, <1>4, <1>10, <2>5, <2>10, <2>11, <2>12, <2>13, <2>14, <3>1, <3>2 DEF QueueState
  <2> QED
    BY <1>10, <2>1, <2>3, <2>5, <2>6, <2>10, <2>11, <2>15
<1>17. ASSUME c.call # "launch"
       PROVE  /\ Pending' = Pending /\ PhaseOps' = PhaseOps /\ QueueState'
              /\ "launch" \in Called(todo)' <=> "launch" \in Called(todo)
  <2>1. "launch" \in Called(todo)' <=> "launch" \in Called(todo)
    BY <1>3, <1>10, <1>17
  <2>2. PhaseOps' = PhaseOps
    BY <1>1, <1>8, <2>1, PhaseStays
  <2>3. Pending' = Pending
    BY <1>1, <1>6, <1>7, <1>12, <1>13, <1>17, PendingStays DEF c, t
  <2>4. /\ \A i, j \in 1..Len(stream') : i < j => OpRank(stream'[i].op) < OpRank(stream'[j].op)
        /\ \A i \in 1..Len(stream'), j \in 1..Len(t) : OpRank(stream'[i].op) < CallRank(pc, t[j])
        /\ \A i \in 1..Len(stream') : stream'[i].run = index
    <3>1. CASE c.call = "enqueue"
      <4> DEFINE x == [op |-> c.op, run |-> index]
      <4>1. k \in Nat /\ Len(stream') = k + 1 /\ stream'[k + 1] = x
            /\ \A i \in 1..k : stream'[i] = stream[i]
        BY <1>7, <1>12, <3>1
      <4>2. x.op = c.op /\ x.run = index /\ CallRank(pc, c) = OpRank(x.op)
        BY <1>1, <3>1, CallRanks
      <4> HIDE DEF x, k
      <4>3. \A i \in 1..(k + 1) : i \in 1..k \/ i = k + 1
        BY <4>1
      <4>4. \A i, j \in 1..(k + 1) : i < j => i \in 1..k /\ (j \in 1..k \/ j = k + 1)
        BY <4>1
      <4>5. \A i \in 1..k : OpRank(stream[i].op) < OpRank(x.op)
        BY <1>2, <1>5, <4>2
      <4>6. \A i, j \in 1..Len(stream') : i < j => OpRank(stream'[i].op) < OpRank(stream'[j].op)
        BY <1>2, <4>1, <4>4, <4>5
      <4>7. \A i \in 1..Len(stream'), j \in 1..Len(t) : OpRank(stream'[i].op) < CallRank(pc, t[j])
        BY <1>2, <1>4, <1>5, <4>1, <4>2, <4>3, ZenonT(40)
      <4>8. \A i \in 1..Len(stream') : stream'[i].run = index
        BY <1>2, <4>1, <4>2, <4>3
      <4> QED
        BY <4>6, <4>7, <4>8
    <3>2. CASE c.call # "enqueue"
      <4>1. stream' = <<>>
        BY <1>6, <1>13, <1>17, <3>2
      <4> QED
        BY <4>1
    <3> QED
      BY <3>1, <3>2
  <2>5. QueueState'
    <3>1. Called(t) \subseteq {"enqueue", "device_sync", "launch"}
          /\ ("launch" \in Called(t) => pc' = "run" /\ ~Staged')
      BY <1>1, <1>2, <1>3, <1>9
    <3>2. pc' # "setup"
      BY <1>1 DEF Working
    <3> QED
      BY <1>1, <1>2, <1>4, <1>10, <2>2, <2>3, <2>4, <3>1, <3>2 DEF QueueState
  <2> QED
    BY <2>1, <2>2, <2>3, <2>5
<1>18. SyncState'
  <2>1. EndsInSync(todo) /\ (Empty => stream = <<>> /\ log = <<>> /\ graph = <<>>)
    BY DEF OInv, SyncState
  <2>2. EndsInSync(todo)' /\ (stream' # <<>> => todo' # <<>>)
    <3>1. EndsInSync(todo)'
      BY <1>1, <1>3, <2>1 DEF EndsInSync
    <3>2. stream' # <<>> => t # <<>>
      BY <1>3, <1>6, <1>13, <2>1
    <3> QED
      BY <1>1, <3>1, <3>2
  <2>3. Empty => stream' = <<>>
    <3> SUFFICES ASSUME Empty PROVE stream' = <<>>
      OBVIOUS
    <3>1. todo \in Seq(QuietCalls)
      BY DEF IInv, MemoryState
    <3>2. c \in QuietCalls
      BY <1>1, <3>1, TailFacts DEF c
    <3>3. c.call # "enqueue"
      BY <3>2 DEF QuietCalls, CallNames, OtherCalls
    <3>4. c.call = "launch" => stream' = <<>>
      <4>1. c.call = "launch" => Len(stream') = 0
        BY <1>16, <2>1
      <4>2. stream' \in Seq(Entries(index))'
        BY MakeCallStep DEF IInv, WordsState
      <4> QED
        BY <4>1, <4>2
    <3> QED
      BY <1>6, <1>13, <3>3, <3>4
  <2> QED
    BY <1>1, <1>8, <1>9, <2>1, <2>2, <2>3 DEF SyncState, Working
<1>19. QueueState'
  BY <1>16, <1>17
<1> QED
  <2>1. OInv'
    BY <1>11, <1>15, <1>18, <1>19 DEF OInv
  <2> QED
    BY <1>6, <1>8, <1>16, <1>17, <2>1 DEF c

\* A graph that has lost a node is the rest of the graph, in order.
LEMMA LostNodeOrder ==
  ASSUME NEW S, NEW g \in Seq(S), NEW i \in 1..Len(g), InOrder(g)
  PROVE  /\ InOrder(RemoveAt(g, i))
         /\ {RemoveAt(g, i)[j] : j \in 1..Len(RemoveAt(g, i))} \subseteq {g[j] : j \in 1..Len(g)}
<1> DEFINE a == SubSeq(g, 1, i - 1)
           b == SubSeq(g, i + 1, Len(g))
           n == Len(g)
           r == RemoveAt(g, i)
<1>1. n \in Nat /\ i \in 1..n /\ i \in Nat
  OBVIOUS
<1>2. a \in Seq(S) /\ Len(a) = i - 1 /\ \A j \in 1..(i - 1) : a[j] = g[j]
  BY <1>1, SubSeqProperties
<1>3. b \in Seq(S) /\ Len(b) = n - i /\ \A j \in 1..(n - i) : b[j] = g[i + j]
  <2>1. CASE i = n
    <3>1. b = <<>>
      BY <1>1, <2>1, SubSeqProperties
    <3> QED
      BY <1>1, <2>1, <3>1
  <2>2. CASE i # n
    <3>1. /\ b \in Seq(S) /\ Len(b) = n - (i + 1) + 1
          /\ \A j \in 1..(n - (i + 1) + 1) : b[j] = g[(i + 1) + j - 1]
      BY <1>1, <2>2, SubSeqProperties
    <3>2. n - (i + 1) + 1 = n - i /\ \A j \in 1..(n - i) : (i + 1) + j - 1 = i + j
      BY <1>1
    <3> QED
      BY <3>1, <3>2
  <2> QED
    BY <2>1, <2>2
<1>4. r = a \o b
  BY DEF RemoveAt
<1> HIDE DEF a, b, r, n
<1>5. /\ Len(r) = n - 1
      /\ \A j \in 1..(i - 1) : r[j] = g[j]
      /\ \A j \in 1..(n - i) : r[(i - 1) + j] = g[i + j]
  <2>1. Len(r) = (i - 1) + (n - i)
    BY <1>2, <1>3, <1>4, ConcatProperties, SMTT(20)
  <2>2. \A j \in 1..(i - 1) : r[j] = a[j]
    BY <1>2, <1>3, <1>4, ConcatProperties, SMTT(20)
  <2>3. \A j \in 1..(n - i) : r[(i - 1) + j] = b[j]
    BY <1>2, <1>3, <1>4, ConcatProperties
  <2>4. (i - 1) + (n - i) = n - 1
    BY <1>1
  <2>5. \A j \in 1..(n - i) : r[(i - 1) + j] = g[i + j]
    BY <1>3, <2>3
  <2> QED
    BY <1>2, <2>1, <2>2, <2>4, <2>5
<1> DEFINE at(j) == IF j < i THEN j ELSE j + 1
<1>6. \A j \in 1..(n - 1) : at(j) \in 1..n /\ r[j] = g[at(j)]
  <2> SUFFICES ASSUME NEW j \in 1..(n - 1) PROVE at(j) \in 1..n /\ r[j] = g[at(j)]
    OBVIOUS
  <2>1. CASE j < i
    BY <1>1, <1>5, <2>1
  <2>2. CASE ~(j < i)
    <3>1. j - i + 1 \in 1..(n - i) /\ (i - 1) + (j - i + 1) = j /\ i + (j - i + 1) = j + 1
      BY <1>1, <2>2
    <3>2. r[j] = g[j + 1]
      BY <1>5, <3>1
    <3> QED
      BY <1>1, <2>2, <3>2
  <2> QED
    BY <2>1, <2>2
<1>7. \A j, k \in 1..(n - 1) : j < k => at(j) < at(k)
  BY <1>1
<1>8. \A j, k \in 1..n : j < k => OpRank(g[j]) < OpRank(g[k])
  BY DEF InOrder, n
<1> HIDE DEF at
<1>9. \A j, k \in 1..(n - 1) : j < k => OpRank(r[j]) < OpRank(r[k])
  BY <1>6, <1>7, <1>8
<1> QED
  BY <1>5, <1>6, <1>9 DEF InOrder, r, n

\* A call of the capture succeeds.
LEMMA CaptureCallOrder ==
  ASSUME IInv, OInv, MakeCall, pc = "capture"
  PROVE  OInv' /\ Head(todo).call \in CaptureNames
<1> DEFINE c == Head(todo)
           t == Tail(todo)
           W == {WordsOf(index)}
           K == KernelOps(Words(in.base))
<1>1. /\ todo # <<>> /\ todo' = t /\ todo \in Seq(Calls(W)) /\ c \in Calls(W)
      /\ UNCHANGED <<in, pc, status, dev, base, log, index>>
  BY CallEffects
<1>2. /\ stream = <<>> /\ Within(pc, todo, 1, 25) /\ Called(todo) \subseteq CaptureNames
      /\ "begin_capture" \in Called(todo) => "end_capture" \in Called(todo)
      /\ Asked(todo) # {} => "end_capture" \in Called(todo)
      /\ "instantiate" \in Called(todo)
      /\ ~Empty => K \subseteq GraphOps \cup Asked(todo)
      /\ Asked(todo) \subseteq K
      /\ "poison" \in Called(todo) => "device_sync" \in Called(todo)
      /\ "device_sync" \notin Called(todo) => dma = {}
      /\ "poison" \in Called(todo) => dma = {}
  BY <1>1 DEF OInv, CaptureOrder
<1>3. capturing <=> "begin_capture" \notin Called(todo) /\ "end_capture" \in Called(todo)
  BY DEF OInv, CaptureOrder
<1>4. \A i \in 1..Len(graph), o \in Asked(todo) : OpRank(graph[i]) < OpRank(o)
  BY DEF OInv, CaptureOrder
<1> HIDE DEF W, K
<1>5. /\ Asked(todo) = Asked(t) \cup (IF c.call = "enqueue" THEN {c.op} ELSE {})
      /\ Called(todo) = Called(t) \cup {c.call}
  BY <1>1, TailFacts
<1>6. /\ Within(pc, t, 1, 25)
      /\ \A n \in Called(t) : \E d \in Calls(W) : d.call = n /\ CallRank(pc, c) < CallRank(pc, d)
      /\ \A o \in Asked(t) : o \in Ops(W) /\ CallRank(pc, c) < OpRank(o)
  <2>1. todo \in Seq(Calls(W)) /\ todo # <<>> /\ Within(pc, todo, 1, 25)
    BY <1>1, <1>2
  <2>2. Within(pc, t, 1, 25)
    BY <2>1, WithinTail
  <2>3. \A n \in Called(t) : \E d \in Calls(W) : d.call = n /\ CallRank(pc, c) < CallRank(pc, d)
    <3> DEFINE p == pc
    <3>1. Within(p, todo, 1, 25)
      BY <2>1
    <3> HIDE DEF p
    <3>2. \A n \in Called(Tail(todo)) : \E d \in Calls(W) :
            d.call = n /\ CallRank(p, Head(todo)) < CallRank(p, d)
      BY <2>1, <3>1, WithinTail, ZenonT(30)
    <3> QED
      BY <3>2 DEF p
  <2>4. \A o \in Asked(t) : o \in Ops(W) /\ CallRank(pc, c) < OpRank(o)
    BY <2>1, WithinTail
  <2> QED
    BY <2>2, <2>3, <2>4
<1> HIDE DEF c, t
<1>7. c.call \in CaptureNames
  BY <1>2, <1>5
<1>8. /\ c.call = "poison" => CallRank(pc, c) = 1
      /\ c.call = "device_sync" => CallRank(pc, c) = 2
      /\ c.call = "begin_capture" => CallRank(pc, c) = 3
      /\ c.call = "enqueue" => CallRank(pc, c) = OpRank(c.op) /\ c.op \in Ops(W)
      /\ c.call = "end_capture" => CallRank(pc, c) = 23
      /\ c.call = "instantiate" => CallRank(pc, c) = 24
      /\ CallRank(pc, c) \in Nat
  BY <1>1, CallRanks
<1>9. c.call = "enqueue" => 4 <= CallRank(pc, c) /\ CallRank(pc, c) < 23
  BY <1>8, OpRanks
<1>10. /\ "poison" \in Called(t) => CallRank(pc, c) < 1
       /\ "device_sync" \in Called(t) => CallRank(pc, c) < 2
       /\ "begin_capture" \in Called(t) => CallRank(pc, c) < 3
       /\ "end_capture" \in Called(t) => CallRank(pc, c) < 23
       /\ "instantiate" \in Called(t) => CallRank(pc, c) < 24
  BY <1>1, <1>6, CallRanks
<1>11. \A o \in Asked(t) : CallRank(pc, c) < OpRank(o) /\ OpRank(o) < 23 /\ OpRank(o) \in Nat
  BY <1>6, OpRanks
<1>12. /\ Called(todo)' = Called(t) /\ Asked(todo)' = Asked(t)
       /\ Within(pc, todo, 1, 25)' <=> Within(pc, t, 1, 25)
  BY <1>1 DEF Called, Asked, Within
<1>13. K' = K /\ (Empty' <=> Empty) /\ Poisoned' = Poisoned
  BY <1>1, OpsStay DEF K, Empty, Poisoned
<1>14. InOrder(graph) /\ GraphOps \subseteq K /\ dma \subseteq {Poisoned}
       /\ graph \in Seq(Ops({Words(in.base)})) /\ capturing \in BOOLEAN
  BY DEF OInv, GraphState, K, IInv, WordsState, TypeOK
<1>15. "instantiate" \notin Called(t) => c.call = "instantiate"
  BY <1>2, <1>5
<1>16. c.call = "instantiate" => t = <<>> /\ Asked(t) = {} /\ Asked(todo) = {}
  <2> SUFFICES ASSUME c.call = "instantiate" PROVE t = <<>> /\ Asked(t) = {} /\ Asked(todo) = {}
    OBVIOUS
  <2>1. Asked(t) = {}
    BY <1>8, <1>11
  <2>2. Called(t) = {}
    <3>1. \A n \in Called(t) : n \in CaptureNames
      BY <1>2, <1>5
    <3>2. "enqueue" \notin Called(t)
      BY <2>1 DEF Called, Asked
    <3> QED
      BY <1>8, <1>10, <3>1, <3>2 DEF CaptureNames
  <2>3. t = <<>>
    <3>1. t \in Seq(Calls(W))
      BY <1>1, TailFacts DEF t
    <3>2. Len(t) \in Nat /\ (Len(t) = 0 => t = <<>>)
      BY <3>1
    <3>3. \A i \in 1..Len(t) : FALSE
      BY <2>2 DEF Called
    <3> QED
      BY <3>2, <3>3
  <2> QED
    BY <1>5, <2>1, <2>3
<1>17. "instantiate" \in Called(t) => t # <<>>
  BY DEF Called
<1>18. GraphOps' = {graph'[i] : i \in 1..Len(graph')}
  BY DEF GraphOps
\* What the call leaves of the graph.
<1>19. CASE c.call = "enqueue"
  <2>1. "begin_capture" \notin Called(todo) /\ "poison" \notin Called(todo)
        /\ "device_sync" \notin Called(todo)
    BY <1>5, <1>8, <1>9, <1>10, <1>19
  <2>2. c.op \in Asked(todo)
    BY <1>5, <1>19
  <2>3. "end_capture" \in Called(todo) /\ "end_capture" \in Called(t)
    BY <1>2, <1>5, <1>19, <2>2
  <2>4. capturing
    BY <1>3, <2>1, <2>3
  <2>5. graph' = Append(graph, c.op) /\ UNCHANGED <<stream, dma, capturing, faulted>>
    BY <1>19, <2>4, CallEffects DEF c
  <2> DEFINE k == Len(graph)
  <2>6. k \in Nat /\ Len(graph') = k + 1 /\ graph'[k + 1] = c.op
        /\ \A i \in 1..k : graph'[i] = graph[i]
    BY <1>14, <2>5
  <2>7. \A i \in 1..k : OpRank(graph[i]) < OpRank(c.op)
    BY <1>4, <2>2
  <2> HIDE DEF k
  <2>8. /\ \A i \in 1..(k + 1) : i \in 1..k \/ i = k + 1
        /\ 1..(k + 1) = 1..k \cup {k + 1}
        /\ \A i, j \in 1..(k + 1) : i < j => i \in 1..k /\ (j \in 1..k \/ j = k + 1)
    BY <2>6
  <2>9. InOrder(graph')
    BY <1>14, <2>6, <2>7, <2>8 DEF InOrder, k
  <2>10. GraphOps' = GraphOps \cup {c.op}
    <3>1. GraphOps = {graph[i] : i \in 1..k}
      BY DEF GraphOps, k
    <3> QED
      BY <1>18, <2>6, <2>8, <3>1
  <2>11. \A i \in 1..Len(graph'), o \in Asked(t) : OpRank(graph'[i]) < OpRank(o)
    <3>1. \A o \in Asked(t) : OpRank(c.op) < OpRank(o) /\ o \in Asked(todo)
      BY <1>5, <1>8, <1>11, <1>19
    <3> QED
      BY <1>4, <2>6, <2>8, <3>1 DEF k
  <2>12. "instantiate" \in Called(t) /\ t # <<>>
    BY <1>15, <1>17, <1>19
  <2>13. Called(t) \subseteq CaptureNames /\ Asked(t) \subseteq K /\ c.op \in K
         /\ "begin_capture" \notin Called(t) /\ "poison" \notin Called(t)
         /\ "device_sync" \notin Called(t)
    BY <1>2, <1>5, <2>1, <2>2
  <2>14. ~Empty => K \subseteq GraphOps' \cup Asked(t)
    BY <1>2, <1>5, <1>19, <2>10
  <2>15. ~Empty
    <3> SUFFICES ASSUME Empty PROVE FALSE
      OBVIOUS
    <3>1. todo \in Seq(QuietCalls)
      BY DEF IInv, MemoryState
    <3>2. c \in QuietCalls
      BY <1>1, <3>1, TailFacts DEF c
    <3> QED
      BY <1>19, <3>2 DEF QuietCalls, CallNames, OtherCalls
  <2>16. CaptureOrder'
    BY <1>1, <1>2, <1>6, <1>12, <1>13, <2>1, <2>3, <2>4, <2>5, <2>11, <2>12, <2>13, <2>14
       DEF CaptureOrder, K
  <2>17. GraphState'
    <3>1. (InOrder(graph) /\ GraphOps \subseteq KernelOps(Words(in.base)))'
      <4>1. InOrder(graph)'
        BY <2>9 DEF InOrder
      <4> QED
        BY <1>13, <1>14, <2>10, <2>13, <4>1 DEF K
    <3> QED
      BY <1>1, <1>13, <1>14, <2>5, <2>12, <3>1 DEF OInv, GraphState
  <2>18. SyncState' /\ QueueState'
    BY <1>1, <1>2, <1>13, <2>5, <2>15 DEF SyncState, QueueState, Working
  <2> QED
    BY <1>7, <2>16, <2>17, <2>18 DEF OInv, c
<1>20. CASE c.call \in {"poison", "device_sync", "begin_capture", "end_capture"}
  <2>1. /\ UNCHANGED <<stream, graph, faulted>>
        /\ c.call \in {"begin_capture", "end_capture"} => capturing' = (c.call = "begin_capture")
        /\ c.call \in {"poison", "device_sync"} => capturing' = capturing
        /\ c.call = "poison" => dma' = {Poisoned}
        /\ c.call # "poison" => dma' = dma
        /\ c.call = "device_sync" => dma = {}
    BY <1>20, CallEffects DEF c
  <2>2. Asked(t) = Asked(todo) /\ c.call \notin Called(t)
    BY <1>5, <1>8, <1>10, <1>20
  <2>3. \A n : n # c.call => (n \in Called(t) <=> n \in Called(todo))
    BY <1>5
  <2>4. "instantiate" \in Called(t) /\ t # <<>>
    BY <1>15, <1>17, <1>20
  <2>5. c.call = "end_capture" => Asked(t) = {} /\ "begin_capture" \notin Called(t)
    BY <1>8, <1>10, <1>11
  <2>6. GraphOps' = GraphOps
    BY <2>1 DEF GraphOps
  <2>7. c.call = "device_sync" => "poison" \notin Called(t)
    BY <1>8, <1>10
  <2>8. capturing' <=> "begin_capture" \notin Called(t) /\ "end_capture" \in Called(t)
    <3>1. CASE c.call \in {"poison", "device_sync"}
      BY <1>3, <2>1, <2>3, <3>1
    <3>2. CASE c.call = "begin_capture"
      BY <1>2, <1>5, <2>1, <2>2, <2>3, <3>2
    <3>3. CASE c.call = "end_capture"
      BY <2>1, <2>2, <3>3
    <3> QED
      BY <1>20, <3>1, <3>2, <3>3
  <2>9. /\ "begin_capture" \in Called(t) => "end_capture" \in Called(t)
        /\ Asked(t) # {} => "end_capture" \in Called(t)
        /\ "poison" \in Called(t) => "device_sync" \in Called(t)
        /\ "device_sync" \notin Called(t) => dma' = {}
        /\ "poison" \in Called(t) => dma' = {}
    <3>1. "begin_capture" \in Called(t) => "end_capture" \in Called(t)
      BY <1>2, <2>3, <2>5, <1>5
    <3>2. Asked(t) # {} => "end_capture" \in Called(t)
      BY <1>2, <2>2, <2>3, <2>5
    <3>3. "poison" \in Called(t) => "device_sync" \in Called(t)
      BY <1>2, <1>5, <2>7
    <3>4. "device_sync" \notin Called(t) => dma' = {}
      BY <1>2, <1>5, <1>20, <2>1, <2>3
    <3>5. "poison" \in Called(t) => dma' = {}
      BY <1>2, <1>5, <2>1, <2>2
    <3> QED
      BY <3>1, <3>2, <3>3, <3>4, <3>5
  <2>10. CaptureOrder'
    <3>1. Called(t) \subseteq CaptureNames /\ Asked(t) \subseteq K
          /\ (~Empty => K \subseteq GraphOps \cup Asked(t))
      BY <1>2, <1>5, <2>2
    <3>2. \A i \in 1..Len(graph'), o \in Asked(t) : OpRank(graph'[i]) < OpRank(o)
      BY <1>4, <2>1, <2>2
    <3> QED
      BY <1>1, <1>2, <1>6, <1>12, <1>13, <2>1, <2>4, <2>6, <2>8, <2>9, <3>1, <3>2
         DEF CaptureOrder, K
  <2>11. GraphState'
    <3>1. (InOrder(graph) /\ GraphOps \subseteq KernelOps(Words(in.base)))'
      <4>1. InOrder(graph)'
        BY <1>14, <2>1 DEF InOrder
      <4> QED
        BY <1>13, <1>14, <2>6, <4>1 DEF K
    <3>2. dma' \subseteq {Poisoned'}
      BY <1>13, <1>14, <2>1
    <3> QED
      BY <1>1, <1>13, <2>1, <2>4, <3>1, <3>2 DEF OInv, GraphState
  <2>12. SyncState' /\ QueueState'
    BY <1>1, <1>2, <1>13, <2>1 DEF OInv, SyncState, QueueState, Working
  <2> QED
    BY <1>7, <2>10, <2>11, <2>12 DEF OInv, c
<1>21. CASE c.call = "instantiate"
  <2>1. t = <<>> /\ Asked(t) = {} /\ Asked(todo) = {} /\ Called(t) = {}
    BY <1>16, <1>21 DEF Called
  <2>2. /\ \/ UNCHANGED <<graph, faulted>>
           \/ faulted' /\ \E i \in DOMAIN graph : graph' = RemoveAt(graph, i)
        /\ UNCHANGED <<stream, dma, capturing>>
    BY <1>21, CallEffects DEF c
  <2>3. ~capturing /\ dma = {}
    <3>1. Called(todo) = {"instantiate"}
      BY <1>5, <1>21, <2>1
    <3> QED
      BY <1>2, <1>3, <3>1
  <2>4. /\ InOrder(graph)' /\ GraphOps' \subseteq GraphOps
        /\ graph = <<>> => graph' = <<>> /\ faulted' = faulted
        /\ ~faulted' => GraphOps' = GraphOps
    <3>1. CASE UNCHANGED <<graph, faulted>>
      BY <1>14, <3>1 DEF InOrder, GraphOps
    <3>2. CASE faulted' /\ \E i \in DOMAIN graph : graph' = RemoveAt(graph, i)
      <4>1. PICK i \in 1..Len(graph) : graph' = RemoveAt(graph, i)
        BY <1>14, <3>2
      <4>2. InOrder(graph') /\ {graph'[j] : j \in 1..Len(graph')} \subseteq GraphOps
        BY <1>14, <4>1, LostNodeOrder, SMTT(30) DEF GraphOps
      <4>3. graph # <<>>
        BY <1>14, <4>1
      <4> QED
        BY <1>18, <3>2, <4>2, <4>3 DEF InOrder
    <3> QED
      BY <2>2, <3>1, <3>2
  <2>5. CaptureOrder'
    BY <1>1, <1>2, <1>6, <1>12, <1>13, <2>1, <2>2, <2>3 DEF CaptureOrder
  <2>6. GraphState'
    <3>1. (InOrder(graph) /\ GraphOps \subseteq KernelOps(Words(in.base)))'
      BY <1>13, <1>14, <2>4 DEF K
    <3>2. (pc = "capture" /\ todo = <<>> /\ in.boundary = "resident_graph" /\ ~Empty /\ ~faulted =>
            KernelOps(Words(in.base)) \subseteq GraphOps)'
      BY <1>2, <1>13, <2>1, <2>4 DEF K
    <3>3. (faulted /\ pc \notin {"destroy", "done"} => in.boundary = "resident_graph")'
      <4>1. graph # <<>> => in.boundary = "resident_graph"
        BY DEF IInv, WordsState
      <4> QED
        BY <1>1, <2>4, <4>1 DEF OInv, GraphState
    <3>4. (pc \notin {"capture", "destroy", "done"} => dma = {})' /\ (dma \subseteq {Poisoned})'
          /\ (pc \notin {"capture"} => ~capturing)'
          /\ pc' \notin {"start", "setup", "preflight", "loop", "run", "readback"}
      BY <1>1, <2>2, <2>3
    <3> QED
      BY <3>1, <3>2, <3>3, <3>4 DEF GraphState
  <2>7. SyncState' /\ QueueState'
    BY <1>1, <1>2, <1>13, <2>1, <2>2, <2>4 DEF OInv, SyncState, QueueState, Working
  <2> QED
    BY <1>7, <2>5, <2>6, <2>7 DEF OInv, c
<1> QED
  BY <1>7, <1>19, <1>20, <1>21 DEF CaptureNames

\* Any call succeeds.
LEMMA MakeCallOrder == ASSUME IInv, OInv, MakeCall PROVE OInv'
<1>1. pc \in Working \cup {"setup", "capture"}
  BY CallEffects DEF OInv, SyncState
<1> QED
  BY <1>1, SetupCallOrder, WorkCallOrder, CaptureCallOrder

\* It holds at the start.
LEMMA InitOrder == Init => OInv
<1> SUFFICES ASSUME Init PROVE OInv
  OBVIOUS
<1>1. /\ pc = "start" /\ todo = <<>> /\ stream = <<>> /\ dma = {} /\ graph = <<>> /\ log = <<>>
      /\ ~capturing /\ ~faulted
  BY DEF Init
<1>2. CaptureOrder /\ QueueState
  BY <1>1 DEF CaptureOrder, QueueState, Working
<1>3. GraphState
  BY <1>1 DEF GraphState, InOrder, GraphOps
<1>4. SyncState
  BY <1>1 DEF SyncState, Working
<1> QED
  BY <1>2, <1>3, <1>4 DEF OInv

\* Nothing moves.
LEMMA StutterOrder == ASSUME OInv, UNCHANGED vars PROVE OInv'
<1>1. UNCHANGED <<in, pc, status, faulted, todo, stream, dma, capturing, graph, log, base, index>>
  BY DEF vars
<1>2. Called(todo)' = Called(todo) /\ Asked(todo)' = Asked(todo) /\ GraphOps' = GraphOps
      /\ Pending' = Pending /\ Queued' = Queued
  BY <1>1 DEF Called, Asked, GraphOps, Pending, Queued
<1>3. PhaseOps' = PhaseOps /\ (Staged' <=> Staged)
      /\ KernelOps(Words(in.base))' = KernelOps(Words(in.base))
  BY <1>1, <1>2, PhaseStays, OpsStay
<1>4. /\ Within(pc, todo, 1, 25)' <=> Within(pc, todo, 1, 25)
      /\ (Empty' <=> Empty) /\ (EndsInSync(todo)' <=> EndsInSync(todo))
      /\ (InOrder(graph)' <=> InOrder(graph)) /\ Poisoned' = Poisoned
  BY <1>1 DEF Within, Empty, EndsInSync, InOrder, Poisoned
<1>5. CaptureOrder'
  BY <1>1, <1>2, <1>3, <1>4 DEF OInv, CaptureOrder
<1>6. GraphState'
  BY <1>1, <1>2, <1>3, <1>4 DEF OInv, GraphState
<1>7. SyncState'
  BY <1>1, <1>4 DEF OInv, SyncState
<1>8. QueueState'
  BY <1>1, <1>2, <1>3, <1>4 DEF OInv, QueueState
<1> QED
  BY <1>5, <1>6, <1>7, <1>8 DEF OInv

\* The order of the work: the host makes the calls of a function in their order,
\* what is queued is work of the current function in the order of its pipeline,
\* nothing is queued between two functions, and a captured graph holds the
\* kernels in order, all of them unless one was lost.
THEOREM OrderInvariance == Spec => []OInv
<1>1. Init => OInv
  BY InitOrder
<1>2. IInv /\ OInv /\ [Next]_vars => OInv'
  <2> SUFFICES ASSUME IInv, OInv, [Next]_vars PROVE OInv'
    OBVIOUS
  <2>1. CASE Next
    BY <2>1, StartOrder, MakeCallOrder, AfterSetupOrder, AfterPreflightOrder, AfterCaptureOrder,
       StartRunOrder, AfterRunOrder, AfterLoopOrder, AfterReadbackOrder, DestroyOrder,
       CallFailsOrder, DeviceStepOrder, PoisonLandsOrder
       DEF Next, Host
  <2>2. CASE UNCHANGED vars
    BY <2>2, StutterOrder
  <2> QED
    BY <2>1, <2>2
<1> QED
  BY <1>1, <1>2, Invariance, PTL DEF Spec

-----------------------------------------------------------------------------
(* What the device computes *)

\* The scale, flags, codes and payload of the preflight, and what sq_cuda_compress
\* returns.
Scale == IF Prescribed THEN in.given ELSE ScaleOf(in.values)
FlagsV == Flags([values |-> in.values, scale |-> Scale])
CodesV == Codes(in.values, Scale, Words(in.base))
Packed == [packed |-> CodesV]
Expected == CudaCompress(in.values, in.given, Words(in.base))
BaseRecord == [payload |-> Expected.payload, scale |-> Expected.scale]
OnGraph == in.boundary = "resident_graph"
Later == {"capture", "loop", "run", "readback"}
K2Base == K2Op(Words(in.base))

\* What is uploaded once, and stays.
Resident == (IF in.boundary # "host_origin" THEN {"values"} ELSE {})
  \cup (IF Prescribed THEN {"scale"} ELSE {}) \cup (IF in.givenWords THEN {"words"} ELSE {})
SetupBuffers ==
  pc = "setup" /\ ~Empty =>
    \A to \in Resident : UploadOp(to) \notin Pending => dev[to] = Source(to)

\* Each buffer of the preflight is right once its operation is no longer pending.
PreflightBuffers ==
  pc = "preflight" /\ ~Empty =>
    /\ in.givenWords => dev.words = Given
    /\ Prescribed => dev.scale = in.given
    /\ UploadOp("values") \notin Pending => dev.values = in.values
    /\ K1Op \notin Pending => dev.scale = Scale /\ dev.status = StatusOf(in.values)
    /\ MemsetOp \notin Pending => dev.flags = IF K2Base \in Pending THEN {} ELSE FlagsV
    /\ K2Base \notin Pending => dev.codes = CodesV
    /\ K3Op \notin Pending => dev.payload = Packed
    /\ DownloadOp("payload") \notin Pending => host.payload = Packed
    /\ DownloadOp("scale") \notin Pending => host.scale = Scale
    /\ DownloadOp("status") \notin Pending => host.status = StatusOf(in.values)
    /\ DownloadOp("flags") \notin Pending => host.flags = FlagsV

\* Later runs find and leave the same values, scale and status; replays leave the
\* same codes and, if no node was lost, the same flags.
LaterBuffers ==
  pc \in Later /\ ~Empty =>
    /\ in.givenWords => dev.words = Given
    /\ dev.values = in.values /\ dev.scale = Scale /\ dev.status = StatusOf(in.values)
    /\ OnGraph => dev.codes = CodesV
    /\ OnGraph /\ ~faulted =>
         dev.flags = IF pc = "run" /\ K2Base \in Pending /\ MemsetOp \notin Pending
                     THEN {} ELSE FlagsV

\* The payload stays poisoned until a launch has run K3.
K3Logged(run) == \E i \in 1..Len(log) : log[i].run = run /\ log[i].op = K3Op
Launched == index # 0 /\ "launch" \notin Called(todo)
PoisonState ==
  ~Empty /\ OnGraph =>
    /\ pc = "capture" /\ "device_sync" \notin Called(todo) => dev.payload = Poisoned
    /\ pc = "capture" /\ "poison" \notin Called(todo) => dev.payload = Poisoned \/ dma = {Poisoned}
    /\ pc \in {"loop", "run", "readback"} =>
        /\ K3Op \notin GraphOps => dev.payload = Poisoned
        /\ K3Op \in GraphOps /\ Launched /\ K3Op \notin Pending =>
             dev.payload = Packed /\ K3Logged(index)
    /\ pc = "readback" =>
         /\ index = Total
         /\ \A what \in HostFields : DownloadOp(what) \notin Pending => host[what] = dev[what]
    /\ pc \in {"destroy", "done"} /\ status = "OK" => K3Logged(Total)
EarlyIndex == pc \in {"start", "setup", "preflight", "capture"} => index = 0

\* Every event of the run that is no longer pending has been reached.
EventsReached ==
  /\ DOMAIN events = Events
  /\ pc = "run" => \A e \in Events : RecordOp(e) \in PhaseOps \ Pending => events[e] # Never

\* The base record once the preflight has passed, and the status at the end.
Outcome ==
  /\ pc = "readback" => OnGraph
  /\ status = "OK" /\ pc = "done" => Refusal = "OK"
  /\ Refusal = "OK" /\ ~Empty =>
     /\ pc \in Later => Expected.status = "OK" /\ base = BaseRecord
     /\ pc \in {"destroy", "done"} =>
          /\ ~faulted => status = Expected.status
          /\ status = "OK" => base = BaseRecord

DInv == /\ SetupBuffers /\ PreflightBuffers /\ LaterBuffers /\ PoisonState /\ EarlyIndex
        /\ EventsReached /\ Outcome

-----------------------------------------------------------------------------
(* What the benchmark computes, step by step *)

\* The request never changes, nor does what is to be computed.
LEMMA DataStays ==
  ASSUME in' = in
  PROVE  /\ Scale' = Scale /\ FlagsV' = FlagsV /\ CodesV' = CodesV /\ Packed' = Packed
         /\ Expected' = Expected /\ BaseRecord' = BaseRecord /\ K2Base' = K2Base
         /\ Resident' = Resident /\ K1Op' = K1Op /\ Refusal' = Refusal /\ Total' = Total
         /\ (Empty' <=> Empty) /\ (OnGraph' <=> OnGraph) /\ (Prescribed' <=> Prescribed)
         /\ (Staged' <=> Staged)
<1>1. Words(in.base)' = Words(in.base) /\ (Prescribed' <=> Prescribed) /\ K1Op' = K1Op
      /\ (Staged' <=> Staged)
  BY OpsStay
<1>2. Scale' = Scale
  BY <1>1 DEF Scale
<1>3. FlagsV' = FlagsV /\ CodesV' = CodesV
  BY <1>1, <1>2 DEF FlagsV, CodesV
<1>4. Packed' = Packed
  BY <1>3 DEF Packed
<1>5. Expected' = Expected
  BY <1>1 DEF Expected
<1>6. BaseRecord' = BaseRecord
  BY <1>5 DEF BaseRecord
<1>7. K2Base' = K2Base
  BY <1>1 DEF K2Base
<1>8. Resident' = Resident
  BY <1>1 DEF Resident
<1>9. Refusal' = Refusal
  BY RequestStays
<1>10. Total' = Total /\ (Empty' <=> Empty) /\ (OnGraph' <=> OnGraph)
  BY DEF Total, Empty, OnGraph
<1> QED
  BY <1>1, <1>2, <1>3, <1>4, <1>5, <1>6, <1>7, <1>8, <1>9, <1>10

\* The four kinds of input and the three kinds of scale of an accepted request.
LEMMA AcceptedRequest ==
  ASSUME in \in Inputs, Refusal = "OK", ~Empty
  PROVE  /\ in.values \in {"zero", "finite", "large", "nonfinite"}
         /\ in.given \in {"none", "zero", "positive"}
<1>1. in.values \in {"empty", "zero", "finite", "large", "nonfinite"}
      /\ in.given \in {"none", "zero", "positive", "invalid"}
  BY InputsAssumption DEF Request
<1>2. in.given # "invalid"
  BY DEF Refusal
<1> QED
  BY <1>1, <1>2 DEF Empty

\* check_bench_result, which sees the scale, status and flags after all three
\* kernels, judges as sq_cuda_compress does in between.
LEMMA Verdict ==
  ASSUME in \in Inputs, Refusal = "OK", ~Empty
  PROVE  /\ CheckBenchResult(Scale, Prescribed, StatusOf(in.values), FlagsV) = Expected.status
         /\ Expected.status = "OK" => BaseRecord = [payload |-> Packed, scale |-> Scale]
<1> DEFINE v == in.values
           g == in.given
           w == Words(in.base)
           uploaded == [Malloced EXCEPT !.values = v, !.status = "OK", !.flags = {}]
           scaled == IF g = "none" THEN K1(uploaded, "scale") ELSE [uploaded EXCEPT !.scale = g]
           rounded == K2(scaled, w)
           fail(e) == [status |-> e, scale |-> "junk", payload |-> Junk]
<1>1. Expected = IF scaled.status # "OK" THEN fail(scaled.status)
                 ELSE IF FlagStatus(scaled.scale, rounded.flags) # "OK"
                 THEN fail(FlagStatus(scaled.scale, rounded.flags))
                 ELSE [status |-> "OK", scale |-> scaled.scale, payload |-> K3(rounded).payload]
  BY DEF Expected, CudaCompress
<1>2. /\ DOMAIN uploaded = DeviceFields
      /\ uploaded.values = v /\ uploaded.status = "OK" /\ uploaded.flags = {}
  BY DEF Malloced, DeviceFields
<1> HIDE DEF uploaded
<1>3. /\ DOMAIN scaled = DeviceFields /\ scaled.values = v /\ scaled.flags = {} /\ scaled.scale = Scale
      /\ scaled.status = IF g = "none" THEN StatusOf(v) ELSE "OK"
  <2>1. CASE g = "none"
    BY <1>2, <2>1 DEF K1, DeviceFields, Scale, Prescribed
  <2>2. CASE g # "none"
    BY <1>2, <2>2 DEF DeviceFields, Scale, Prescribed
  <2> QED
    BY <2>1, <2>2
<1> HIDE DEF scaled
<1>4. Flags(scaled) = FlagsV
  BY <1>3 DEF Flags, FlagsV
<1>5. DOMAIN rounded = DeviceFields /\ rounded.flags = FlagsV /\ rounded.codes = CodesV
  BY <1>3, <1>4 DEF K2, DeviceFields, CodesV
<1> HIDE DEF rounded
<1>6. K3(rounded).payload = Packed
  BY <1>5 DEF K3, Packed, DeviceFields
<1> DEFINE f == FlagStatus(Scale, FlagsV)
<1>7. /\ scaled.status # "OK" => Expected.status = scaled.status
      /\ scaled.status = "OK" => Expected.status = f
      /\ Expected.status = "OK" => BaseRecord = [payload |-> Packed, scale |-> Scale]
  BY <1>1, <1>3, <1>5, <1>6 DEF BaseRecord
<1> HIDE DEF f
<1>8. v \in {"zero", "finite", "large", "nonfinite"} /\ g \in {"none", "zero", "positive"}
  BY AcceptedRequest
<1>9. v = "nonfinite" => f = "NONFINITE"
  BY DEF f, FlagStatus, FlagsV, Flags
<1>10. CASE g = "none"
  <2>1. CheckBenchResult(Scale, Prescribed, StatusOf(v), FlagsV)
          = IF StatusOf(v) # "OK" THEN StatusOf(v) ELSE f
    BY <1>10 DEF CheckBenchResult, Prescribed, f
  <2> QED
    BY <1>3, <1>7, <1>10, <2>1
<1>11. CASE g # "none"
  <2>1. CheckBenchResult(Scale, Prescribed, StatusOf(v), FlagsV)
          = IF StatusOf(v) # "OK" /\ StatusOf(v) # "SCALE_OVERFLOW" THEN StatusOf(v) ELSE f
    BY <1>11 DEF CheckBenchResult, Prescribed, f
  <2>2. Expected.status = f
    BY <1>3, <1>7, <1>11
  <2>3. /\ v \in {"zero", "finite"} => StatusOf(v) = "OK"
        /\ v = "large" => StatusOf(v) = "SCALE_OVERFLOW"
        /\ v = "nonfinite" => StatusOf(v) = "NONFINITE"
    BY DEF StatusOf
  <2> QED
    BY <1>7, <1>8, <1>9, <2>1, <2>2, <2>3
<1> QED
  BY <1>10, <1>11

\* The ranks of the operations that compute something.
LEMMA ComputeRanks ==
  /\ OpRank(MemsetOp) = 7 /\ OpRank(K1Op) = 9 /\ (\A w : OpRank(K2Op(w)) = 12) /\ OpRank(K3Op) = 15
  /\ OpRank(UploadOp("values")) = 5
  /\ OpRank(DownloadOp("payload")) = 18 /\ OpRank(DownloadOp("scale")) = 19
  /\ OpRank(DownloadOp("status")) = 21 /\ OpRank(DownloadOp("flags")) = 22
<1>1. \A w : K2Op(w).op = "k2"
  BY DEF K2Op
<1>2. K1Op.op = "k1"
  BY DEF K1Op
<1>3. \A what : DownloadOp(what).op = "download" /\ DownloadOp(what).what = what
  BY DEF DownloadOp
<1>4. MemsetOp.op = "memset" /\ K3Op.op = "k3" /\ UploadOp("values").op = "upload"
  BY DEF MemsetOp, K3Op, UploadOp
<1>5. \A what : OpRank(DownloadOp(what)) = ResultRank[what]
  BY <1>3 DEF OpRank
<1>6. (\A w : OpRank(K2Op(w)) = 12) /\ OpRank(K1Op) = 9
  BY <1>1, <1>2 DEF OpRank
<1>7. OpRank(MemsetOp) = 7 /\ OpRank(K3Op) = 15 /\ OpRank(UploadOp("values")) = 5
  BY <1>4 DEF OpRank
<1> QED
  BY <1>5, <1>6, <1>7 DEF ResultRank

\* What the device does to its buffers and to the host's.
LEMMA DeviceEffects ==
  ASSUME IInv, DeviceStep
  PROVE  LET o == Head(stream).op IN
         /\ o.op = "record" => dev' = dev
         /\ o.op # "download" => host' = host
         /\ o.op = "memset" =>
              dev'.flags = {} /\ \A f \in DeviceFields \ {"flags"} : dev'[f] = dev[f]
         /\ o.op = "k1" =>
              /\ o.to \in {"k1Scale", "scale"}
              /\ dev'[o.to] = ScaleOf(dev.values) /\ dev'.status = StatusOf(dev.values)
              /\ \A f \in DeviceFields \ {o.to, "status"} : dev'[f] = dev[f]
         /\ o.op = "k2" =>
              /\ dev'.flags = dev.flags \cup Flags(dev)
              /\ dev'.codes = Codes(dev.values, dev.scale, IF in.givenWords THEN dev.words ELSE o.words)
              /\ \A f \in DeviceFields \ {"flags", "codes"} : dev'[f] = dev[f]
         /\ o.op = "k3" =>
              /\ dev'.payload = [packed |-> dev.codes]
              /\ \A f \in DeviceFields \ {"payload"} : dev'[f] = dev[f]
         /\ o.op = "upload" =>
              /\ o.to \in {"values", "scale", "words"} /\ dev'[o.to] = Source(o.to)
              /\ \A f \in DeviceFields \ {o.to} : dev'[f] = dev[f]
         /\ o.op = "download" =>
              /\ o.what \in HostFields /\ dev' = dev /\ host'[o.what] = dev[o.what]
              /\ \A f \in HostFields \ {o.what} : host'[f] = host[f]
<1> DEFINE o == Head(stream).op
<1>1. DOMAIN dev = DeviceFields /\ DOMAIN host = HostFields /\ dev' = DoneOnDevice(o)
      /\ host' = IF o.op = "download" THEN [host EXCEPT ![o.what] = dev[o.what]] ELSE host
  BY DEF IInv, TypeOK, DeviceStep
<1>2. PICK W : o \in Ops(W)
  <2>1. stream # <<>> /\ stream \in Seq(Entries(index)) /\ index \in Nat
    BY DEF DeviceStep, IInv, WordsState, TypeOK
  <2>2. Head(stream) \in Entries(index)
    BY <2>1
  <2> QED
    BY <2>1, <2>2, EntryFacts
<1> HIDE DEF o
<1>3. /\ o.op = "k1" => o.to \in {"k1Scale", "scale"}
      /\ o.op = "upload" => o.to \in {"values", "scale", "words"}
      /\ o.op = "download" => o.what \in HostFields
  BY <1>2, OpFacts
<1>4. o.op = "record" => dev' = dev
  BY <1>1 DEF DoneOnDevice
<1>5. o.op # "download" => host' = host
  BY <1>1
<1>6. o.op = "memset" =>
        dev'.flags = {} /\ \A f \in DeviceFields \ {"flags"} : dev'[f] = dev[f]
  BY <1>1 DEF DoneOnDevice, DeviceFields
<1>7. o.op = "k1" =>
        /\ dev'[o.to] = ScaleOf(dev.values) /\ dev'.status = StatusOf(dev.values)
        /\ \A f \in DeviceFields \ {o.to, "status"} : dev'[f] = dev[f]
  <2>1. o.op = "k1" => dev' = K1(dev, o.to)
    BY <1>1 DEF DoneOnDevice
  <2> QED
    BY <1>1, <1>3, <2>1 DEF K1, DeviceFields
<1>8. o.op = "k2" =>
        /\ dev'.flags = dev.flags \cup Flags(dev)
        /\ dev'.codes = Codes(dev.values, dev.scale, IF in.givenWords THEN dev.words ELSE o.words)
        /\ \A f \in DeviceFields \ {"flags", "codes"} : dev'[f] = dev[f]
  <2> DEFINE w == IF in.givenWords THEN dev.words ELSE o.words
  <2>1. o.op = "k2" => dev' = K2(dev, w)
    BY <1>1 DEF DoneOnDevice
  <2> HIDE DEF w
  <2>2. o.op = "k2" =>
        /\ dev'.flags = dev.flags \cup Flags(dev)
        /\ dev'.codes = Codes(dev.values, dev.scale, w)
        /\ \A f \in DeviceFields \ {"flags", "codes"} : dev'[f] = dev[f]
    BY <1>1, <2>1 DEF K2, DeviceFields
  <2> QED
    BY <2>2 DEF w
<1>9. o.op = "k3" =>
        /\ dev'.payload = [packed |-> dev.codes]
        /\ \A f \in DeviceFields \ {"payload"} : dev'[f] = dev[f]
  <2>1. o.op = "k3" => dev' = K3(dev)
    BY <1>1 DEF DoneOnDevice
  <2> QED
    BY <1>1, <2>1 DEF K3, DeviceFields
<1>10. o.op = "upload" =>
        /\ dev'[o.to] = Source(o.to) /\ \A f \in DeviceFields \ {o.to} : dev'[f] = dev[f]
  <2>1. o.op = "upload" => dev' = [dev EXCEPT ![o.to] = Source(o.to)]
    BY <1>1 DEF DoneOnDevice
  <2> QED
    BY <1>1, <1>3, <2>1 DEF DeviceFields
<1>11. o.op = "download" =>
        /\ dev' = dev /\ host'[o.what] = dev[o.what]
        /\ \A f \in HostFields \ {o.what} : host'[f] = host[f]
  <2>1. o.op = "download" => dev' = dev
    BY <1>1 DEF DoneOnDevice
  <2> QED
    BY <1>1, <1>3, <2>1
<1> QED
  BY <1>3, <1>4, <1>5, <1>6, <1>7, <1>8, <1>9, <1>10, <1>11 DEF o

\* The work of a function consists of operations with a rank.
LEMMA PhaseRanks ==
  ASSUME IInv
  PROVE  \A x \in PhaseOps : OpRank(x) \in Nat
<1>1. \A W : \A x \in Ops(W) : OpRank(x) \in Nat
  BY OpRanks
<1>2. \A w, b, c, i : PipelineOps(w, b, c, i) \subseteq Ops({w})
  <2> SUFFICES ASSUME NEW w, NEW b, NEW c, NEW i PROVE PipelineOps(w, b, c, i) \subseteq Ops({w})
    OBVIOUS
  <2>1. w \in {w}
    OBVIOUS
  <2>2. /\ MemsetOp \in Ops({w}) /\ K1Op \in Ops({w}) /\ K2Op(w) \in Ops({w}) /\ K3Op \in Ops({w})
        /\ \A e \in Events : RecordOp(e) \in Ops({w})
        /\ UploadOp("values") \in Ops({w})
        /\ \A what \in HostFields : DownloadOp(what) \in Ops({w})
    BY <2>1, NamedOps
  <2>3. KernelOps(w) \subseteq Ops({w})
    BY <2>2 DEF KernelOps
  <2>4. {RecordOp(e) : e \in KernelEvents} \subseteq Ops({w})
    BY <2>2 DEF KernelEvents, Events
  <2>5. {RecordOp("h2d_start"), UploadOp("values"), RecordOp("h2d_stop")} \subseteq Ops({w})
    BY <2>2 DEF Events
  <2>6. {RecordOp("d2h_start"), DownloadOp("payload"), DownloadOp("scale"), RecordOp("d2h_stop")}
          \subseteq Ops({w})
    BY <2>2 DEF Events, HostFields
  <2>7. {DownloadOp("status"), DownloadOp("flags")} \subseteq Ops({w})
    BY <2>2 DEF HostFields
  <2> QED
    BY <2>3, <2>4, <2>5, <2>6, <2>7 DEF PipelineOps
<1>3. {graph[i] : i \in 1..Len(graph)} \subseteq Ops({Words(in.base)})
  BY DEF IInv, WordsState
<1>4. {DownloadOp(what) : what \in HostFields} \subseteq Ops({Words(in.base)})
  BY NamedOps
<1>5. \E W : PhaseOps \subseteq Ops(W)
  BY <1>2, <1>3, <1>4 DEF PhaseOps
<1> QED
  BY <1>1, <1>5

\* What is before the device's operation in the pipeline is done, what is after it
\* is pending.
LEMMA DeviceOrder ==
  ASSUME IInv, OInv, DeviceStep, pc \in Working
  PROVE  LET o == Head(stream).op IN
         /\ o \in PhaseOps /\ o \in Pending /\ Pending' = Pending \ {o} /\ Pending \subseteq PhaseOps
         /\ PhaseOps' = PhaseOps /\ Head(stream).run = index /\ OpRank(o) \in Nat
         /\ \A x \in PhaseOps : OpRank(x) < OpRank(o) => x \notin Pending
         /\ \A x \in PhaseOps : OpRank(o) < OpRank(x) => x \in Pending
<1> DEFINE o == Head(stream).op
<1>1. /\ o \in PhaseOps /\ o \in Pending /\ Pending' = Pending \ {o}
      /\ PhaseOps' = PhaseOps /\ Head(stream).run = index
      /\ \A q \in Pending' : OpRank(o) < OpRank(q)
  BY DeviceStepOrder
<1>2. Pending \subseteq PhaseOps /\ \A x \in PhaseOps \ Pending, q \in Pending : OpRank(x) < OpRank(q)
  BY DEF OInv, QueueState
<1>3. \A x \in Pending : OpRank(x) \in Nat
  <2>1. stream # <<>> /\ stream \in Seq(Entries(index)) /\ index \in Nat
        /\ todo \in Seq(Calls({WordsOf(index)}))
    BY DEF DeviceStep, IInv, WordsState, TypeOK
  <2>2. \A i \in 1..Len(stream) : OpRank(stream[i].op) \in Nat
    <3> SUFFICES ASSUME NEW i \in 1..Len(stream) PROVE OpRank(stream[i].op) \in Nat
      OBVIOUS
    <3>1. stream[i] \in Entries(index)
      BY <2>1
    <3> QED
      BY <2>1, <3>1, EntryFacts, OpRanks
  <2>3. \A i \in 1..Len(todo) : todo[i].call = "enqueue" => OpRank(todo[i].op) \in Nat
    <3> SUFFICES ASSUME NEW i \in 1..Len(todo), todo[i].call = "enqueue" PROVE OpRank(todo[i].op) \in Nat
      OBVIOUS
    <3>1. todo[i] \in Calls({WordsOf(index)})
      BY <2>1
    <3> QED
      BY <3>1, CallFacts, OpRanks
  <2> QED
    BY <2>2, <2>3 DEF Pending, Queued, Asked
<1> HIDE DEF o
<1>4. \A x \in PhaseOps : OpRank(x) < OpRank(o) => x \notin Pending
  <2> SUFFICES ASSUME NEW x \in PhaseOps, OpRank(x) < OpRank(o), x \in Pending PROVE FALSE
    OBVIOUS
  <2>1. x \in Pending'
    BY <1>1, <1>3
  <2> QED
    BY <1>1, <1>3, <2>1
<1>5. \A x \in PhaseOps : OpRank(o) < OpRank(x) => x \in Pending
  <2> SUFFICES ASSUME NEW x \in PhaseOps, OpRank(o) < OpRank(x), x \notin Pending PROVE FALSE
    OBVIOUS
  <2>1. OpRank(x) < OpRank(o)
    BY <1>1, <1>2
  <2>2. OpRank(x) \in Nat
    BY PhaseRanks
  <2> QED
    BY <1>1, <1>3, <2>1, <2>2
<1> QED
  BY <1>1, <1>2, <1>3, <1>4, <1>5 DEF o

\* The operations of the preflight.
PreflightSet == PipelineOps(Words(in.base), in.boundary, TRUE, TRUE)

\* The work of the preflight.
LEMMA PreflightOps ==
         /\ pc = "preflight" => PhaseOps = PreflightSet
         /\ {MemsetOp, K1Op, K2Base, K3Op} \subseteq PreflightSet
         /\ \A what \in HostFields : DownloadOp(what) \in PreflightSet
         /\ UploadOp("values") \in PreflightSet <=> in.boundary = "host_origin"
         /\ \A o \in PreflightSet : \/ o.op = "record" 
                                \/ o \in {MemsetOp, K1Op, K2Base, K3Op, UploadOp("values")}
                                \/ \E what \in HostFields : o = DownloadOp(what)
<1> DEFINE K == KernelOps(Words(in.base))
           R == {RecordOp(e) : e \in KernelEvents}
           U == IF in.boundary = "host_origin"
                THEN {RecordOp("h2d_start"), UploadOp("values"), RecordOp("h2d_stop")} ELSE {}
           D == {RecordOp("d2h_start"), DownloadOp("payload"), DownloadOp("scale"), RecordOp("d2h_stop")}
           I == {DownloadOp("status"), DownloadOp("flags")}
<1>1. PreflightSet = K \cup R \cup U \cup D \cup I
  BY DEF PreflightSet, PipelineOps
<1>2. K = {MemsetOp, K1Op, K2Base, K3Op}
  BY DEF KernelOps, K2Base
<1>3. \A e : RecordOp(e).op = "record"
  BY DEF RecordOp
<1>4. UploadOp("values").op = "upload" /\ \A what : DownloadOp(what).op = "download"
  BY DEF UploadOp, DownloadOp
<1>5. MemsetOp.op = "memset" /\ K1Op.op = "k1" /\ K2Base.op = "k2" /\ K3Op.op = "k3"
  BY DEF MemsetOp, K1Op, K2Base, K2Op, K3Op
<1>6. \A what \in HostFields : DownloadOp(what) \in D \cup I
  BY DEF HostFields
<1>7. (\A o \in D : o.op = "record" \/ \E what \in HostFields : o = DownloadOp(what))
      /\ (\A o \in I : \E what \in HostFields : o = DownloadOp(what))
  BY <1>3 DEF HostFields
<1>8. \A o \in R : o.op = "record"
  BY <1>3
<1>9. \A o \in U : o.op = "record" \/ o = UploadOp("values")
  BY <1>3
<1>10. UploadOp("values") \in U <=> in.boundary = "host_origin"
  OBVIOUS
<1>11. UploadOp("values") \notin K \cup R \cup D \cup I
  BY <1>2, <1>3, <1>4, <1>5
<1> HIDE DEF K, R, U, D, I
<1>12. pc = "preflight" => PhaseOps = PreflightSet
  BY DEF PhaseOps, PreflightSet
<1> QED
  BY <1>1, <1>12, <1>2, <1>6, <1>7, <1>8, <1>9, <1>10, <1>11

\* The device does one operation of the preflight.
LEMMA DevicePreflight ==
  ASSUME IInv, OInv, PreflightBuffers, DeviceStep, pc = "preflight", ~Empty
  PROVE  PreflightBuffers'
<1> DEFINE o == Head(stream).op
           up == UploadOp("values")
           dp == DownloadOp("payload")
           ds == DownloadOp("scale")
           dt == DownloadOp("status")
           df == DownloadOp("flags")
<1>1. UNCHANGED <<in, pc>>
  BY DEF DeviceStep
<1>2. /\ o \in PhaseOps /\ o \in Pending /\ Pending' = Pending \ {o} /\ Pending \subseteq PhaseOps
      /\ \A x \in PhaseOps : OpRank(x) < OpRank(o) => x \notin Pending
      /\ \A x \in PhaseOps : OpRank(o) < OpRank(x) => x \in Pending
  BY DeviceOrder DEF Working
<1>3. /\ {MemsetOp, K1Op, K2Base, K3Op, dp, ds, dt, df} \subseteq PhaseOps
      /\ up \in PhaseOps <=> in.boundary = "host_origin"
      /\ \/ o.op = "record"
         \/ o \in {MemsetOp, K1Op, K2Base, K3Op, up, dp, ds, dt, df}
  BY <1>2, PreflightOps DEF HostFields
<1>4. /\ OpRank(MemsetOp) = 7 /\ OpRank(K1Op) = 9 /\ OpRank(K2Base) = 12 /\ OpRank(K3Op) = 15
      /\ OpRank(up) = 5 /\ OpRank(dp) = 18 /\ OpRank(ds) = 19 /\ OpRank(dt) = 21 /\ OpRank(df) = 22
  BY ComputeRanks DEF K2Base
<1>5. /\ MemsetOp.op = "memset" /\ K1Op.op = "k1" /\ K2Base.op = "k2" /\ K3Op.op = "k3"
      /\ K2Base.words = Words(in.base) /\ K1Op.to = IF Prescribed THEN "k1Scale" ELSE "scale"
      /\ up.op = "upload" /\ up.to = "values"
      /\ dp.op = "download" /\ dp.what = "payload" /\ ds.op = "download" /\ ds.what = "scale"
      /\ dt.op = "download" /\ dt.what = "status" /\ df.op = "download" /\ df.what = "flags"
  BY DEF MemsetOp, K1Op, K2Base, K2Op, K3Op, UploadOp, DownloadOp
<1>6. /\ Scale' = Scale /\ FlagsV' = FlagsV /\ CodesV' = CodesV /\ Packed' = Packed
      /\ K2Base' = K2Base /\ K1Op' = K1Op /\ (Empty' <=> Empty) /\ (Prescribed' <=> Prescribed)
  BY <1>1, DataStays
<1>7. /\ in.givenWords => dev.words = Given
      /\ Prescribed => dev.scale = in.given
      /\ up \notin Pending => dev.values = in.values
      /\ K1Op \notin Pending => dev.scale = Scale /\ dev.status = StatusOf(in.values)
      /\ MemsetOp \notin Pending => dev.flags = IF K2Base \in Pending THEN {} ELSE FlagsV
      /\ K2Base \notin Pending => dev.codes = CodesV
      /\ K3Op \notin Pending => dev.payload = Packed
      /\ dp \notin Pending => host.payload = Packed
      /\ ds \notin Pending => host.scale = Scale
      /\ dt \notin Pending => host.status = StatusOf(in.values)
      /\ df \notin Pending => host.flags = FlagsV
  BY DEF PreflightBuffers
<1> DEFINE P == Pending
           Goal ==
             /\ in.givenWords => dev'.words = Given
             /\ Prescribed => dev'.scale = in.given
             /\ up \notin P \ {o} => dev'.values = in.values
             /\ K1Op \notin P \ {o} => dev'.scale = Scale /\ dev'.status = StatusOf(in.values)
             /\ MemsetOp \notin P \ {o} => dev'.flags = IF K2Base \in P \ {o} THEN {} ELSE FlagsV
             /\ K2Base \notin P \ {o} => dev'.codes = CodesV
             /\ K3Op \notin P \ {o} => dev'.payload = Packed
             /\ dp \notin P \ {o} => host'.payload = Packed
             /\ ds \notin P \ {o} => host'.scale = Scale
             /\ dt \notin P \ {o} => host'.status = StatusOf(in.values)
             /\ df \notin P \ {o} => host'.flags = FlagsV
<1> HIDE DEF P, o, up, dp, ds, dt, df
<1>8. up \notin Pending \/ OpRank(o) <= 5
  <2>1. up \in Pending => up \in PhaseOps /\ ~(OpRank(up) < OpRank(o))
    BY <1>2
  <2>2. OpRank(o) \in Nat
    BY <1>2, PhaseRanks
  <2> QED
    BY <1>4, <2>1, <2>2
<1>9. CASE o.op = "record"
  <2>1. dev' = dev /\ host' = host
    BY <1>9, DeviceEffects DEF o
  <2>2. o \notin {MemsetOp, K1Op, K2Base, K3Op, up, dp, ds, dt, df}
    BY <1>5, <1>9
  <2>3. Goal
    BY <1>7, <2>1, <2>2 DEF P
  <2> QED
    BY <1>1, <1>2, <1>6, <2>3 DEF PreflightBuffers, P, up, dp, ds, dt, df
<1>10. CASE o = up
  <2>1. dev'.values = in.values /\ host' = host
        /\ \A f \in DeviceFields \ {"values"} : dev'[f] = dev[f]
    BY <1>5, <1>10, DeviceEffects DEF o, Source
  <2>2. {MemsetOp, K1Op, K2Base, K3Op, dp, ds, dt, df} \subseteq P \ {o}
    BY <1>2, <1>3, <1>4, <1>10 DEF P
  <2>3. Goal
    BY <1>7, <2>1, <2>2 DEF DeviceFields
  <2> QED
    BY <1>1, <1>2, <1>6, <2>3 DEF PreflightBuffers, P, up, dp, ds, dt, df
<1>11. CASE o = MemsetOp
  <2>1. dev'.flags = {} /\ host' = host /\ \A f \in DeviceFields \ {"flags"} : dev'[f] = dev[f]
    BY <1>5, <1>11, DeviceEffects DEF o
  <2>2. {K1Op, K2Base, K3Op, dp, ds, dt, df} \subseteq P \ {o} /\ up \notin Pending
    BY <1>2, <1>3, <1>4, <1>8, <1>11 DEF P
  <2>3. Goal
    BY <1>7, <2>1, <2>2 DEF DeviceFields
  <2> QED
    BY <1>1, <1>2, <1>6, <2>3 DEF PreflightBuffers, P, up, dp, ds, dt, df
<1>12. CASE o = K1Op
  <2>1. /\ {K2Base, K3Op, dp, ds, dt, df} \subseteq P \ {o} /\ up \notin Pending
        /\ MemsetOp \notin Pending /\ K2Base \in Pending
    BY <1>2, <1>3, <1>4, <1>8, <1>12 DEF P
  <2>2. dev.values = in.values /\ dev.flags = {}
    BY <1>7, <2>1
  <2>3. /\ dev'[K1Op.to] = ScaleOf(in.values) /\ dev'.status = StatusOf(in.values) /\ host' = host
        /\ \A f \in DeviceFields \ {K1Op.to, "status"} : dev'[f] = dev[f]
    BY <1>5, <1>12, <2>2, DeviceEffects DEF o
  <2>4. dev'.scale = Scale
    <3>1. CASE Prescribed
      BY <1>5, <1>7, <2>3, <3>1 DEF DeviceFields, Scale
    <3>2. CASE ~Prescribed
      BY <1>5, <2>3, <3>2 DEF Scale
    <3> QED
      BY <3>1, <3>2
  <2>5. Prescribed => Scale = in.given
    BY DEF Scale
  <2>6. dev'.values = dev.values /\ dev'.words = dev.words /\ dev'.flags = dev.flags
    BY <1>5, <2>3 DEF DeviceFields
  <2>7. Goal
    BY <1>7, <2>1, <2>2, <2>3, <2>4, <2>5, <2>6
  <2> QED
    BY <1>1, <1>2, <1>6, <2>7 DEF PreflightBuffers, P, up, dp, ds, dt, df
<1>13. CASE o = K2Base
  <2>1. /\ {K3Op, dp, ds, dt, df} \subseteq P \ {o} /\ up \notin Pending
        /\ MemsetOp \notin Pending /\ K1Op \notin Pending /\ K2Base \in Pending
    BY <1>2, <1>3, <1>4, <1>8, <1>13 DEF P
  <2>2. dev.values = in.values /\ dev.flags = {} /\ dev.scale = Scale
    BY <1>7, <2>1
  <2>3. Flags(dev) = FlagsV
    BY <2>2 DEF Flags, FlagsV
  <2>4. (IF in.givenWords THEN dev.words ELSE o.words) = Words(in.base)
    BY <1>5, <1>7, <1>13 DEF Words
  <2>5. /\ dev'.flags = FlagsV /\ dev'.codes = CodesV /\ host' = host
        /\ \A f \in DeviceFields \ {"flags", "codes"} : dev'[f] = dev[f]
    <3>1. /\ dev'.flags = dev.flags \cup Flags(dev)
          /\ dev'.codes = Codes(dev.values, dev.scale, IF in.givenWords THEN dev.words ELSE o.words)
          /\ host' = host /\ \A f \in DeviceFields \ {"flags", "codes"} : dev'[f] = dev[f]
      BY <1>5, <1>13, DeviceEffects DEF o
    <3> QED
      BY <2>2, <2>3, <2>4, <3>1 DEF CodesV
  <2>6. Goal
    BY <1>7, <1>13, <2>1, <2>5 DEF DeviceFields
  <2> QED
    BY <1>1, <1>2, <1>6, <2>6 DEF PreflightBuffers, P, up, dp, ds, dt, df
<1>14. CASE o = K3Op
  <2>1. /\ {dp, ds, dt, df} \subseteq P \ {o} /\ up \notin Pending
        /\ MemsetOp \notin Pending /\ K1Op \notin Pending /\ K2Base \notin Pending
    BY <1>2, <1>3, <1>4, <1>8, <1>14 DEF P
  <2>2. /\ dev'.payload = Packed /\ host' = host
        /\ \A f \in DeviceFields \ {"payload"} : dev'[f] = dev[f]
    BY <1>5, <1>7, <1>14, <2>1, DeviceEffects DEF o, Packed
  <2>3. Goal
    BY <1>7, <2>1, <2>2 DEF DeviceFields, P
  <2> QED
    BY <1>1, <1>2, <1>6, <2>3 DEF PreflightBuffers, P, up, dp, ds, dt, df
<1>15. CASE o \in {dp, ds, dt, df}
  <2>1. /\ up \notin Pending /\ MemsetOp \notin Pending /\ K1Op \notin Pending /\ K2Base \notin Pending
        /\ K3Op \notin Pending
    BY <1>2, <1>3, <1>4, <1>8, <1>15
  <2>2. /\ dev.scale = Scale /\ dev.status = StatusOf(in.values) /\ dev.flags = FlagsV
        /\ dev.payload = Packed
    BY <1>7, <2>1
  <2>3. /\ o.op = "download" /\ dev' = dev /\ host'[o.what] = dev[o.what]
        /\ \A f \in HostFields \ {o.what} : host'[f] = host[f]
    BY <1>5, <1>15, DeviceEffects DEF o
  <2>4. o.what = "payload" <=> o = dp
    BY <1>5, <1>15
  <2>5. o.what = "scale" <=> o = ds
    BY <1>5, <1>15
  <2>6. o.what = "status" <=> o = dt
    BY <1>5, <1>15
  <2>7. o.what = "flags" <=> o = df
    BY <1>5, <1>15
  <2>8. /\ dp \notin P \ {o} => host'.payload = Packed
        /\ ds \notin P \ {o} => host'.scale = Scale
        /\ dt \notin P \ {o} => host'.status = StatusOf(in.values)
        /\ df \notin P \ {o} => host'.flags = FlagsV
    BY <1>7, <2>2, <2>3, <2>4, <2>5, <2>6, <2>7 DEF HostFields, P
  <2>9. Goal
    BY <1>7, <2>1, <2>2, <2>3, <2>8 DEF P
  <2> QED
    BY <1>1, <1>2, <1>6, <2>9 DEF PreflightBuffers, P, up, dp, ds, dt, df
<1> QED
  BY <1>3, <1>9, <1>10, <1>11, <1>12, <1>13, <1>14, <1>15

\* The operations of a run or of the readback.
LEMMA RunOps ==
  ASSUME OInv, pc \in {"run", "readback"}, ~Empty, NEW o \in PhaseOps
  PROVE  /\ \/ o.op \in {"record", "download", "k2"} \/ o \in {MemsetOp, K1Op, K3Op, UploadOp("values")}
         /\ pc = "run" /\ OnGraph =>
              /\ o \in {MemsetOp, K1Op, K2Base, K3Op} /\ o \in GraphOps
              /\ PhaseOps = GraphOps /\ "launch" \notin Called(todo)
         /\ pc = "readback" => \E what \in HostFields : o = DownloadOp(what)
<1>1. (\A e : RecordOp(e).op = "record") /\ (\A what : DownloadOp(what).op = "download")
      /\ (\A w : K2Op(w).op = "k2")
  BY DEF RecordOp, DownloadOp, K2Op
<1>2. CASE pc = "run" /\ ~OnGraph
  <2> DEFINE w == WordsOf(index)
             R == {RecordOp(e) : e \in KernelEvents}
             U == IF in.boundary = "host_origin"
                  THEN {RecordOp("h2d_start"), UploadOp("values"), RecordOp("h2d_stop")} ELSE {}
             D == {RecordOp("d2h_start"), DownloadOp("payload"), DownloadOp("scale"),
                   RecordOp("d2h_stop")}
  <2>1. PhaseOps = PipelineOps(w, in.boundary, Transfers(in.boundary), FALSE)
    BY <1>2 DEF PhaseOps, Staged, OnGraph
  <2>2. o \in KernelOps(w) \cup R \cup U \cup D
    BY <2>1 DEF PipelineOps
  <2>3. o \in R \cup D => o.op \in {"record", "download"}
    BY <1>1
  <2>4. o \in U => o.op = "record" \/ o = UploadOp("values")
    BY <1>1
  <2>5. o \in KernelOps(w) => o.op = "k2" \/ o \in {MemsetOp, K1Op, K3Op}
    BY <1>1 DEF KernelOps
  <2> HIDE DEF R, U, D
  <2> QED
    BY <1>2, <2>2, <2>3, <2>4, <2>5
<1>3. CASE pc = "run" /\ OnGraph
  <2>1. ~Staged
    BY <1>3 DEF Staged, OnGraph
  <2>2. "launch" \notin Called(todo) /\ PhaseOps = GraphOps
    BY <1>3, <2>1 DEF PhaseOps, GraphOps
  <2>3. GraphOps \subseteq {MemsetOp, K1Op, K2Base, K3Op}
    BY DEF OInv, GraphState, KernelOps, K2Base
  <2>4. K2Base.op = "k2"
    BY <1>1 DEF K2Base
  <2> QED
    BY <1>3, <2>2, <2>3, <2>4
<1>4. CASE pc = "readback"
  <2>1. \E what \in HostFields : o = DownloadOp(what)
    BY <1>4 DEF PhaseOps
  <2> QED
    BY <1>1, <1>4, <2>1
<1> QED
  BY <1>2, <1>3, <1>4

\* The device does one operation of a timed run or of the readback.
LEMMA DeviceLater ==
  ASSUME IInv, OInv, LaterBuffers, DeviceStep, pc \in {"run", "readback"}, ~Empty
  PROVE  LaterBuffers'
<1> DEFINE o == Head(stream).op
           up == UploadOp("values")
<1>1. UNCHANGED <<in, pc, faulted>>
  BY DEF DeviceStep
<1>2. /\ o \in PhaseOps /\ o \in Pending /\ Pending' = Pending \ {o} /\ Pending \subseteq PhaseOps
      /\ \A x \in PhaseOps : OpRank(x) < OpRank(o) => x \notin Pending
      /\ \A x \in PhaseOps : OpRank(o) < OpRank(x) => x \in Pending
  BY DeviceOrder DEF Working
<1>3. /\ o.op \in {"record", "download", "k2"} \/ o \in {MemsetOp, K1Op, K3Op, up}
      /\ pc = "run" /\ OnGraph => o \in {MemsetOp, K1Op, K2Base, K3Op} /\ PhaseOps = GraphOps
      /\ pc = "readback" => \E what \in HostFields : o = DownloadOp(what)
  BY <1>2, RunOps
<1>4. /\ OpRank(MemsetOp) = 7 /\ OpRank(K1Op) = 9 /\ OpRank(K2Base) = 12 /\ OpRank(K3Op) = 15
  BY ComputeRanks DEF K2Base
<1>5. /\ MemsetOp.op = "memset" /\ K1Op.op = "k1" /\ K2Base.op = "k2" /\ K3Op.op = "k3"
      /\ K2Base.words = Words(in.base) /\ K1Op.to = IF Prescribed THEN "k1Scale" ELSE "scale"
      /\ up.op = "upload" /\ up.to = "values" /\ \A what : DownloadOp(what).op = "download"
  BY DEF MemsetOp, K1Op, K2Base, K2Op, K3Op, UploadOp, DownloadOp
<1>6. /\ Scale' = Scale /\ FlagsV' = FlagsV /\ CodesV' = CodesV /\ (OnGraph' <=> OnGraph)
      /\ K2Base' = K2Base /\ (Empty' <=> Empty)
  BY <1>1, DataStays
<1>7. /\ in.givenWords => dev.words = Given
      /\ dev.values = in.values /\ dev.scale = Scale /\ dev.status = StatusOf(in.values)
      /\ OnGraph => dev.codes = CodesV
  BY DEF LaterBuffers, Later
<1>8. OnGraph /\ ~faulted =>
         dev.flags = IF pc = "run" /\ K2Base \in Pending /\ MemsetOp \notin Pending
                     THEN {} ELSE FlagsV
  BY DEF LaterBuffers, Later
<1> HIDE DEF o, up
<1>9. /\ in.givenWords => dev'.words = Given
      /\ dev'.values = in.values /\ dev'.scale = Scale /\ dev'.status = StatusOf(in.values)
  <2>1. CASE o.op \in {"record", "download"}
    BY <1>7, <2>1, DeviceEffects DEF o
  <2>2. CASE o.op \in {"memset", "k2", "k3"}
    <3>1. dev'.words = dev.words /\ dev'.values = dev.values /\ dev'.scale = dev.scale
          /\ dev'.status = dev.status
      BY <2>2, DeviceEffects DEF o, DeviceFields
    <3> QED
      BY <1>7, <3>1
  <2>3. CASE o = K1Op
    <3>1. /\ dev'[K1Op.to] = ScaleOf(in.values) /\ dev'.status = StatusOf(in.values)
          /\ \A f \in DeviceFields \ {K1Op.to, "status"} : dev'[f] = dev[f]
      BY <1>5, <1>7, <2>3, DeviceEffects DEF o
    <3>2. dev'.words = dev.words /\ dev'.values = dev.values
      BY <1>5, <3>1 DEF DeviceFields
    <3>3. dev'.scale = Scale
      <4>1. CASE Prescribed
        BY <1>5, <1>7, <3>1, <4>1 DEF DeviceFields
      <4>2. CASE ~Prescribed
        BY <1>5, <3>1, <4>2 DEF Scale
      <4> QED
        BY <4>1, <4>2
    <3> QED
      BY <1>7, <3>1, <3>2, <3>3
  <2>4. CASE o = up
    <3>1. dev'.values = in.values /\ dev'.words = dev.words /\ dev'.scale = dev.scale
          /\ dev'.status = dev.status
      BY <1>5, <2>4, DeviceEffects DEF o, Source, DeviceFields
    <3> QED
      BY <1>7, <3>1
  <2> QED
    BY <1>3, <1>5, <2>1, <2>2, <2>3, <2>4
<1>10. ASSUME OnGraph, pc = "run"
       PROVE  /\ dev'.codes = CodesV
              /\ ~faulted => dev'.flags = IF K2Base \in Pending' /\ MemsetOp \notin Pending'
                                          THEN {} ELSE FlagsV
  <2>1. o \in {MemsetOp, K1Op, K2Base, K3Op} /\ PhaseOps = GraphOps
    BY <1>3, <1>10
  <2>2. ~faulted => {MemsetOp, K1Op, K2Base, K3Op} \subseteq PhaseOps
    BY <1>10, <2>1 DEF OInv, GraphState, KernelOps, K2Base, OnGraph
  <2>3. CASE o = MemsetOp
    <3>1. dev'.flags = {} /\ dev'.codes = dev.codes
      BY <1>5, <2>3, DeviceEffects DEF o, DeviceFields
    <3>2. ~faulted => K2Base \in Pending' /\ MemsetOp \notin Pending'
      BY <1>2, <1>4, <2>2, <2>3
    <3> QED
      BY <1>7, <1>10, <3>1, <3>2
  <2>4. CASE o = K1Op
    <3>1. dev'.flags = dev.flags /\ dev'.codes = dev.codes
      <4>1. K1Op.to \in {"k1Scale", "scale"}
        BY <1>5
      <4> QED
        BY <1>5, <2>4, <4>1, DeviceEffects DEF o, DeviceFields
    <3>2. o # K2Base /\ o # MemsetOp
      BY <1>4, <2>4
    <3> QED
      BY <1>2, <1>7, <1>8, <1>10, <3>1, <3>2
  <2>5. CASE o = K2Base
    <3>1. Flags(dev) = FlagsV
      BY <1>7 DEF Flags, FlagsV
    <3>2. (IF in.givenWords THEN dev.words ELSE o.words) = Words(in.base)
      BY <1>5, <1>7, <2>5 DEF Words
    <3>3. /\ dev'.flags = dev.flags \cup Flags(dev)
          /\ dev'.codes = Codes(dev.values, dev.scale, IF in.givenWords THEN dev.words ELSE o.words)
      BY <1>5, <2>5, DeviceEffects DEF o
    <3>4. ~faulted => MemsetOp \notin Pending /\ K2Base \in Pending
      BY <1>2, <1>4, <2>2, <2>5
    <3>5. ~faulted => dev.flags = {}
      BY <1>8, <1>10, <3>4
    <3>6. K2Base \notin Pending'
      BY <1>2, <2>5
    <3>7. dev'.codes = CodesV
      BY <1>7, <3>2, <3>3 DEF CodesV
    <3> QED
      BY <3>1, <3>3, <3>5, <3>6, <3>7
  <2>6. CASE o = K3Op
    <3>1. dev'.flags = dev.flags /\ dev'.codes = dev.codes
      BY <1>5, <2>6, DeviceEffects DEF o, DeviceFields
    <3>2. o # K2Base /\ o # MemsetOp
      BY <1>4, <2>6
    <3> QED
      BY <1>2, <1>7, <1>8, <1>10, <3>1, <3>2
  <2> QED
    BY <2>1, <2>3, <2>4, <2>5, <2>6
<1>11. pc = "readback" => dev' = dev
  BY <1>3, <1>5, DeviceEffects DEF o
<1>12. (OnGraph => dev.codes = CodesV)'
  BY <1>1, <1>6, <1>7, <1>10, <1>11
<1>13. (OnGraph /\ ~faulted =>
         dev.flags = IF pc = "run" /\ K2Base \in Pending /\ MemsetOp \notin Pending
                     THEN {} ELSE FlagsV)'
  <2>1. CASE pc = "run"
    BY <1>1, <1>6, <1>10, <2>1
  <2>2. CASE pc = "readback"
    BY <1>1, <1>6, <1>8, <1>11, <2>2
  <2> QED
    BY <2>1, <2>2
<1> QED
  BY <1>1, <1>6, <1>9, <1>12, <1>13 DEF LaterBuffers

\* What has been logged stays logged.
LEMMA LoggedStays ==
  ASSUME IInv, DeviceStep
  PROVE  /\ \A n : K3Logged(n) => K3Logged(n)'
         /\ \A n : Head(stream).op = K3Op /\ Head(stream).run = n => K3Logged(n)'
<1>1. log \in Seq(Entries(index))
  BY DEF IInv, WordsState
<1> DEFINE h == Head(stream)
           k == Len(log)
<1>2. log' = IF h.op.op = "record" THEN log ELSE Append(log, h)
  BY DEF DeviceStep
<1> HIDE DEF h
<1>3. /\ k \in Nat /\ k <= Len(log') /\ Len(log') \in Nat
      /\ \A i \in 1..k : log'[i] = log[i] /\ i \in 1..Len(log')
      /\ h.op.op # "record" => k + 1 \in 1..Len(log') /\ log'[k + 1] = h
  <2>1. CASE h.op.op = "record"
    BY <1>1, <1>2, <2>1
  <2>2. CASE h.op.op # "record"
    <3>1. log' = Append(log, h) /\ k \in Nat
      BY <1>1, <1>2, <2>2
    <3>2. Len(log') = k + 1 /\ log'[k + 1] = h /\ \A i \in 1..k : log'[i] = log[i]
      BY <1>1, <3>1
    <3> QED
      BY <3>1, <3>2
  <2> QED
    BY <2>1, <2>2
<1> HIDE DEF k
<1>4. \A n : K3Logged(n)' <=> \E i \in 1..Len(log') : log'[i].run = n /\ log'[i].op = K3Op
  BY DEF K3Logged, K3Op
<1>5. ASSUME NEW n, K3Logged(n) PROVE K3Logged(n)'
  <2>1. PICK i \in 1..k : log[i].run = n /\ log[i].op = K3Op
    BY <1>5 DEF K3Logged, k
  <2> QED
    BY <1>3, <1>4, <2>1
<1>6. \A n : h.op = K3Op /\ h.run = n => K3Logged(n)'
  <2>1. K3Op.op = "k3"
    BY DEF K3Op
  <2>2. h.op = K3Op => \E i \in 1..Len(log') : log'[i].run = h.run /\ log'[i].op = K3Op
    BY <1>3, <2>1
  <2> QED
    BY <1>4, <2>2
<1> QED
  BY <1>5, <1>6 DEF h

\* The device and the poison.
LEMMA DevicePoison ==
  ASSUME IInv, OInv, PoisonState, LaterBuffers, DeviceStep
  PROVE  PoisonState'
<1> SUFFICES ASSUME ~Empty', OnGraph' PROVE PoisonState'
  BY DEF PoisonState
<1> DEFINE o == Head(stream).op
<1>1. UNCHANGED <<in, pc, status, faulted, graph, base, index, dma, todo>>
      /\ pc \notin {"start", "loop", "capture"}
  BY DeviceStepOrder DEF DeviceStep
<1>2. /\ Packed' = Packed /\ ~Empty /\ OnGraph /\ Total' = Total /\ Poisoned' = Poisoned
      /\ GraphOps' = GraphOps /\ (Launched' <=> Launched) /\ Refusal' = Refusal /\ K3Op' = K3Op
  BY <1>1, DataStays DEF Poisoned, GraphOps, Launched, Called, K3Op
<1>3. \A n : K3Logged(n) => K3Logged(n)'
  BY LoggedStays
<1>4. pc \in {"destroy", "done"} /\ status = "OK" => K3Logged(Total)
  BY <1>2 DEF PoisonState
<1>5. (pc \in {"destroy", "done"} /\ status = "OK" => K3Logged(Total))'
  <2>1. K3Logged(Total) => K3Logged(Total)'
    BY <1>2, <1>3 DEF K3Logged
  <2> QED
    BY <1>1, <1>4, <2>1
<1>6. K3Op.op = "k3" /\ (\A what : DownloadOp(what).op = "download" /\ DownloadOp(what).what = what)
      /\ MemsetOp.op = "memset" /\ K1Op.op = "k1" /\ K2Base.op = "k2"
      /\ K1Op.to \in {"scale", "k1Scale"}
  BY DEF K3Op, DownloadOp, MemsetOp, K1Op, K2Base, K2Op
<1>7. CASE pc \in {"run", "readback"}
  <2>1. /\ o \in PhaseOps /\ o \in Pending /\ Pending' = Pending \ {o} /\ Head(stream).run = index
    BY <1>7, DeviceOrder DEF Working
  <2>2. /\ pc = "run" => o \in {MemsetOp, K1Op, K2Base, K3Op} /\ o \in GraphOps
        /\ pc = "readback" => \E what \in HostFields : o = DownloadOp(what)
    BY <1>2, <1>7, <2>1, RunOps
  <2>3. /\ K3Op \notin GraphOps => dev.payload = Poisoned
        /\ K3Op \in GraphOps /\ Launched /\ K3Op \notin Pending =>
             dev.payload = Packed /\ K3Logged(index)
    BY <1>2, <1>7 DEF PoisonState
  <2>4. o # K3Op => dev'.payload = dev.payload
    BY <1>6, <1>7, <2>2, DeviceEffects DEF DeviceFields
  <2>5. o = K3Op => dev'.payload = Packed /\ K3Logged(index)' /\ K3Op \in GraphOps
    <3> SUFFICES ASSUME o = K3Op PROVE dev'.payload = Packed /\ K3Logged(index)' /\ K3Op \in GraphOps
      OBVIOUS
    <3>1. pc = "run"
      BY <1>6, <1>7, <2>2
    <3>2. dev.codes = CodesV
      BY <1>2, <3>1 DEF LaterBuffers, Later
    <3>3. \A n : n = index => K3Logged(n)'
      BY <2>1, LoggedStays
    <3>4. K3Logged(index)'
      BY <1>1, <3>3 DEF K3Logged
    <3> QED
      BY <1>6, <2>2, <3>1, <3>2, <3>4, DeviceEffects DEF Packed
  <2>6. /\ K3Op \notin GraphOps => dev'.payload = Poisoned
        /\ K3Op \in GraphOps /\ Launched /\ K3Op \notin Pending' =>
             dev'.payload = Packed /\ K3Logged(index)'
    <3>1. K3Logged(index) => K3Logged(index)'
      BY <1>1, <1>3 DEF K3Logged
    <3>2. CASE o = K3Op
      BY <2>5, <3>2
    <3>3. CASE o # K3Op
      BY <2>1, <2>3, <2>4, <3>1, <3>3
    <3> QED
      BY <3>2, <3>3
  <2>7. pc = "readback" =>
         /\ index = Total
         /\ \A what \in HostFields : DownloadOp(what) \notin Pending' => host'[what] = dev'[what]
    <3> SUFFICES ASSUME pc = "readback"
                 PROVE  /\ index = Total
                        /\ \A what \in HostFields :
                             DownloadOp(what) \notin Pending' => host'[what] = dev'[what]
      OBVIOUS
    <3>1. /\ index = Total
          /\ \A what \in HostFields : DownloadOp(what) \notin Pending => host[what] = dev[what]
      BY <1>2 DEF PoisonState
    <3>2. PICK x \in HostFields : o = DownloadOp(x)
      BY <2>2
    <3>3. dev' = dev /\ host'[x] = dev[x] /\ \A f \in HostFields \ {x} : host'[f] = host[f]
      BY <1>6, <3>2, DeviceEffects
    <3>4. \A what \in HostFields : DownloadOp(what) = o => what = x
      BY <1>6, <3>2
    <3> QED
      BY <2>1, <3>1, <3>3, <3>4
  <2> HIDE DEF o
  <2> QED
    BY <1>1, <1>2, <1>5, <1>7, <2>6, <2>7 DEF PoisonState
<1>8. CASE pc \notin {"run", "readback"}
  BY <1>1, <1>5, <1>8 DEF PoisonState
<1> QED
  BY <1>7, <1>8

\* The device keeps the invariant of the data.
LEMMA DeviceStepData == ASSUME IInv, OInv, DInv, DeviceStep PROVE DInv'
<1> DEFINE o == Head(stream).op
<1>1. UNCHANGED <<in, pc, status, faulted, graph, base, index, dma, todo>>
      /\ pc \notin {"start", "loop", "capture"}
  BY DeviceStepOrder DEF DeviceStep
<1>2. /\ Pending' \subseteq Pending /\ Pending \subseteq Pending' \cup {o} /\ o \in Pending
  BY DeviceStepOrder
<1>3. /\ Resident' = Resident /\ (Empty' <=> Empty) /\ Refusal' = Refusal
      /\ BaseRecord' = BaseRecord /\ Expected' = Expected /\ (OnGraph' <=> OnGraph)
  BY <1>1, DataStays
<1>4. SetupBuffers'
  <2> SUFFICES ASSUME pc = "setup", ~Empty, NEW to \in Resident, UploadOp(to) \notin Pending'
               PROVE  dev'[to] = Source(to)
    BY <1>1, <1>3 DEF SetupBuffers, Source
  <2>1. o \in SetupUploads
    <3>1. todo \in Seq(SetupCallSet) /\ Queued \subseteq SetupUploads
      BY DEF OInv, QueueState
    <3>2. stream # <<>> /\ stream \in Seq(Entries(index))
      BY DEF DeviceStep, IInv, WordsState
    <3>3. o \in Queued
      BY <3>2 DEF Queued
    <3> QED
      BY <3>1, <3>3
  <2>2. o.op = "upload" /\ o.to \in {"values", "scale", "words"} /\ o = UploadOp(o.to)
    BY <2>1 DEF SetupUploads, UploadOp
  <2>3. dev'[o.to] = Source(o.to) /\ \A f \in DeviceFields \ {o.to} : dev'[f] = dev[f]
    BY <2>2, DeviceEffects
  <2>4. CASE o.to = to
    BY <2>3, <2>4
  <2>5. CASE o.to # to
    <3>1. UploadOp(to).to = to
      BY DEF UploadOp
    <3>2. UploadOp(to) \notin Pending
      BY <1>2, <2>5, <3>1
    <3>3. dev[to] = Source(to)
      BY <3>2 DEF DInv, SetupBuffers
    <3>4. to \in DeviceFields
      BY DEF Resident, DeviceFields
    <3> QED
      BY <2>3, <2>5, <3>3, <3>4
  <2> QED
    BY <2>4, <2>5
<1>5. PreflightBuffers'
  <2>1. CASE pc = "preflight" /\ ~Empty
    BY <2>1, DevicePreflight DEF DInv
  <2>2. CASE ~(pc = "preflight" /\ ~Empty)
    BY <1>1, <1>3, <2>2 DEF PreflightBuffers
  <2> QED
    BY <2>1, <2>2
<1>6. LaterBuffers'
  <2>1. CASE pc \in {"run", "readback"} /\ ~Empty
    BY <2>1, DeviceLater DEF DInv
  <2>2. CASE ~(pc \in {"run", "readback"} /\ ~Empty)
    BY <1>1, <1>3, <2>2 DEF LaterBuffers, Later
  <2> QED
    BY <2>1, <2>2
<1>7. PoisonState'
  BY DevicePoison DEF DInv
<1>8. EarlyIndex'
  BY <1>1 DEF DInv, EarlyIndex
<1>9. EventsReached'
  <2>1. DOMAIN events = Events
    BY DEF DInv, EventsReached
  <2>2. DOMAIN events' = Events
    BY <2>1 DEF DeviceStep
  <2> SUFFICES ASSUME pc = "run", NEW e \in Events, RecordOp(e) \in PhaseOps' \ Pending'
               PROVE  events'[e] # Never
    BY <1>1, <2>2 DEF EventsReached
  <2>3. PhaseOps' = PhaseOps /\ Pending' = Pending \ {o}
    BY DeviceOrder DEF Working
  <2>4. log \in Seq(Entries(index))
    BY DEF IInv, WordsState
  <2>5. events' = IF o.op = "record" THEN [events EXCEPT ![o.event] = Len(log)] ELSE events
    BY DEF DeviceStep
  <2>6. Len(log) # Never
    BY <2>4 DEF Never
  <2>7. RecordOp(e).op = "record" /\ RecordOp(e).event = e
    BY DEF RecordOp
  <2>8. CASE RecordOp(e) = o
    <3>1. e \in DOMAIN events => events'[e] = Len(log)
      BY <2>5, <2>7, <2>8
    <3> QED
      BY <2>6, <2>1, <3>1
  <2>9. CASE RecordOp(e) # o
    <3>1. events[e] # Never
      BY <2>3, <2>9 DEF DInv, EventsReached
    <3> QED
      BY <2>5, <2>6, <3>1
  <2> QED
    BY <2>8, <2>9
<1>10. Outcome'
  BY <1>1, <1>3 DEF DInv, Outcome
<1> QED
  BY <1>4, <1>5, <1>6, <1>7, <1>8, <1>9, <1>10 DEF DInv

\* The elements of a concatenation.
LEMMA ToSetConcat ==
  ASSUME NEW S, NEW a \in Seq(S), NEW b \in Seq(S)
  PROVE  ToSet(a \o b) = ToSet(a) \cup ToSet(b) /\ a \o b \in Seq(S)
<1> DEFINE s == a \o b
           m == Len(a)
           n == Len(b)
<1>1. /\ m \in Nat /\ n \in Nat /\ Len(s) = m + n /\ s \in Seq(S)
      /\ DOMAIN a = 1..m /\ DOMAIN b = 1..n
  BY ConcatProperties
<1>2. \A i \in 1..m : s[i] = a[i] /\ i \in 1..(m + n)
  BY <1>1, ConcatProperties
<1>3. \A i \in 1..n : s[m + i] = b[i] /\ m + i \in 1..(m + n)
  BY <1>1, ConcatProperties
<1>4. \A i \in 1..(m + n) : i \in 1..m \/ (i - m \in 1..n /\ m + (i - m) = i)
  BY <1>1
<1>5. DOMAIN s = 1..(m + n)
  BY <1>1
<1> HIDE DEF s, m, n
<1>6. \A i \in 1..(m + n) : (i \in 1..m /\ s[i] = a[i]) \/ (i - m \in 1..n /\ s[i] = b[i - m])
  BY <1>2, <1>3, <1>4
<1>7. ToSet(s) \subseteq ToSet(a) \cup ToSet(b)
  BY <1>1, <1>5, <1>6 DEF ToSet
<1>8. ToSet(a) \subseteq ToSet(s) /\ ToSet(b) \subseteq ToSet(s)
  BY <1>1, <1>2, <1>3, <1>5 DEF ToSet
<1> QED
  BY <1>1, <1>7, <1>8 DEF s

\* The stages that are timed.
LEMMA StageSet ==
  ToSet(Stages) = IF Staged
                  THEN {"k1", "k2", "k3"}
                       \cup (IF in.boundary = "host_origin" THEN {"h2d"} ELSE {})
                       \cup (IF Transfers(in.boundary) THEN {"d2h"} ELSE {})
                  ELSE {}
<1> DEFINE S == {"k1", "k2", "k3", "h2d", "d2h"}
           a == When(Staged, <<"k1", "k2", "k3">>)
           b == When(Staged /\ in.boundary = "host_origin", <<"h2d">>)
           c == When(Staged /\ Transfers(in.boundary), <<"d2h">>)
<1>1. Stages = a \o b \o c
  BY DEF Stages
<1>2. /\ <<"k1", "k2", "k3">> \in Seq(S) /\ <<"h2d">> \in Seq(S) /\ <<"d2h">> \in Seq(S)
      /\ <<>> \in Seq(S)
  OBVIOUS
<1>3. a \in Seq(S) /\ b \in Seq(S) /\ c \in Seq(S)
  BY <1>2 DEF When
<1>4. /\ ToSet(<<"k1", "k2", "k3">>) = {"k1", "k2", "k3"} /\ ToSet(<<"h2d">>) = {"h2d"}
      /\ ToSet(<<"d2h">>) = {"d2h"}
  <2>1. DOMAIN <<"k1", "k2", "k3">> = 1..3 /\ DOMAIN <<"h2d">> = 1..1 /\ DOMAIN <<"d2h">> = 1..1
    OBVIOUS
  <2>2. 1..3 = {1, 2, 3} /\ 1..1 = {1}
    OBVIOUS
  <2>3. ToSet(<<"k1", "k2", "k3">>) = {"k1", "k2", "k3"}
    BY <2>1, <2>2 DEF ToSet
  <2>4. ToSet(<<"h2d">>) = {"h2d"} /\ ToSet(<<"d2h">>) = {"d2h"}
    BY <2>1, <2>2 DEF ToSet
  <2> QED
    BY <2>3, <2>4
<1>5. ToSet(<<>>) = {}
  BY DEF ToSet
<1>6. /\ ToSet(a) = IF Staged THEN {"k1", "k2", "k3"} ELSE {}
      /\ ToSet(b) = IF Staged /\ in.boundary = "host_origin" THEN {"h2d"} ELSE {}
      /\ ToSet(c) = IF Staged /\ Transfers(in.boundary) THEN {"d2h"} ELSE {}
  BY <1>4, <1>5 DEF When
<1> HIDE DEF a, b, c, S
<1>7. ToSet(a \o b) = ToSet(a) \cup ToSet(b) /\ a \o b \in Seq(S)
  BY <1>3, ToSetConcat
<1>8. ToSet((a \o b) \o c) = ToSet(a) \cup ToSet(b) \cup ToSet(c)
  <2> DEFINE d == a \o b
  <2>1. d \in Seq(S)
    BY <1>7
  <2> HIDE DEF d
  <2>2. ToSet(d \o c) = ToSet(d) \cup ToSet(c)
    BY <1>3, <2>1, ToSetConcat
  <2>3. ToSet((a \o b) \o c) = ToSet(a \o b) \cup ToSet(c)
    BY <2>2 DEF d
  <2> QED
    BY <1>7, <2>3
<1> QED
  BY <1>1, <1>6, <1>8

\* The events of a timed stage belong to the run.
LEMMA StageEvents ==
  ASSUME pc = "run", NEW s \in ToSet(Stages), NEW k \in {1, 2}
  PROVE  Staged /\ Bounds[s][k] \in Events /\ RecordOp(Bounds[s][k]) \in PhaseOps
<1>1. /\ Staged
      /\ \/ s \in {"k1", "k2", "k3"} \/ (s = "h2d" /\ in.boundary = "host_origin")
         \/ (s = "d2h" /\ Transfers(in.boundary))
  BY StageSet
<1>2. PhaseOps = PipelineOps(WordsOf(index), in.boundary, Transfers(in.boundary), FALSE)
  BY <1>1 DEF PhaseOps
<1>3. /\ Bounds["k1"][k] \in {"k1_start", "k1_stop"} /\ Bounds["k2"][k] \in {"k2_start", "k2_stop"}
      /\ Bounds["k3"][k] \in {"k3_start", "k3_stop"} /\ Bounds["h2d"][k] \in {"h2d_start", "h2d_stop"}
      /\ Bounds["d2h"][k] \in {"d2h_start", "d2h_stop"}
  BY DEF Bounds
<1>4. CASE s \in {"k1", "k2", "k3"}
  <2>1. Bounds[s][k] \in KernelEvents
    BY <1>3, <1>4 DEF KernelEvents
  <2> QED
    BY <1>1, <1>2, <2>1 DEF KernelEvents, Events, PipelineOps
<1>5. CASE s = "h2d" /\ in.boundary = "host_origin"
  BY <1>1, <1>2, <1>3, <1>5 DEF Events, PipelineOps
<1>6. CASE s = "d2h" /\ Transfers(in.boundary)
  BY <1>1, <1>2, <1>3, <1>6 DEF Events, PipelineOps
<1> QED
  BY <1>1, <1>4, <1>5, <1>6

-----------------------------------------------------------------------------
(* The host and the data *)

\* Nothing is pending between two functions.
LEMMA NothingPending ==
  ASSUME todo = <<>>, stream = <<>>
  PROVE  Pending = {} /\ Called(todo) = {}
BY DEF Pending, Queued, Asked, Called

\* sq_cuda_bench starts.
LEMMA StartData == ASSUME IInv, OInv, DInv, Start PROVE DInv'
<1>1. /\ pc = "start" /\ index = 0
      /\ UNCHANGED <<in, faulted, stream, dma, capturing, graph, log, dev, host, base, index, events>>
  BY DEF Start, device, IInv, Accepted
<1>2. \/ pc' = "done" /\ status' = Refusal /\ Refusal # "OK"
      \/ pc' = "setup" /\ todo' = Setup
  BY DEF Start
<1>3. /\ Resident' = Resident /\ (Empty' <=> Empty) /\ Refusal' = Refusal
  BY <1>1, DataStays
<1>4. SetupBuffers'
  <2> SUFFICES ASSUME pc' = "setup", ~Empty, NEW to \in Resident
               PROVE  UploadOp(to) \in Pending'
    BY <1>1, <1>3 DEF SetupBuffers
  <2>1. UploadOp(to) \in Asked(Setup)
    BY SetupPieces DEF Resident
  <2> QED
    BY <1>2, <2>1 DEF Pending, Asked
<1>5. PreflightBuffers' /\ LaterBuffers' /\ EarlyIndex'
  BY <1>1, <1>2 DEF PreflightBuffers, LaterBuffers, Later, EarlyIndex
<1>6. PoisonState'
  BY <1>2 DEF PoisonState
<1>7. EventsReached'
  BY <1>1, <1>2 DEF DInv, EventsReached
<1>8. Outcome'
  BY <1>2, <1>3 DEF Outcome, Later
<1> QED
  BY <1>4, <1>5, <1>6, <1>7, <1>8 DEF DInv

\* The preflight starts.
LEMMA AfterSetupData == ASSUME IInv, OInv, DInv, AfterSetup PROVE DInv'
<1>1. /\ pc = "setup" /\ todo = <<>> /\ index = 0 /\ Refusal = "OK"
      /\ UNCHANGED <<in, faulted, stream, dma, capturing, graph, log, dev, host, index, events>>
  BY DEF AfterSetup, Through, device, IInv, Accepted
<1>2. /\ pc' = "preflight" => Pending' = PhaseOps'
      /\ pc' = "preflight" \/ (Empty /\ pc' \in {"capture", "loop"})
  BY AfterSetupOrder
<1>3. /\ (Empty' <=> Empty) /\ Refusal' = Refusal /\ (Prescribed' <=> Prescribed)
      /\ K2Base' = K2Base /\ K1Op' = K1Op
  BY <1>1, DataStays
<1>4. SetupBuffers' /\ EarlyIndex' /\ EventsReached'
  BY <1>1, <1>2 DEF DInv, SetupBuffers, EarlyIndex, EventsReached
<1>5. PreflightBuffers'
  <2> SUFFICES ASSUME pc' = "preflight", ~Empty PROVE PreflightBuffers'
    BY <1>3 DEF PreflightBuffers
  <2>1. stream = <<>>
    BY <1>1 DEF OInv, SyncState
  <2>2. Pending = {}
    BY <1>1, <2>1, NothingPending
  <2>3. \A to \in Resident : dev[to] = Source(to)
    BY <1>1, <2>2 DEF DInv, SetupBuffers
  <2>4. /\ in.givenWords => dev.words = Given
        /\ Prescribed => dev.scale = in.given
        /\ in.boundary # "host_origin" => dev.values = in.values
    <3>1. /\ in.givenWords => "words" \in Resident
          /\ Prescribed => "scale" \in Resident
          /\ in.boundary # "host_origin" => "values" \in Resident
      BY DEF Resident
    <3>2. Source("words") = Given /\ Source("scale") = in.given /\ Source("values") = in.values
      BY DEF Source
    <3> QED
      BY <2>3, <3>1, <3>2
  <2>5. Pending' = PreflightSet
    <3>1. PhaseOps' = PreflightSet'
      BY DEF PhaseOps, PreflightSet
    <3>2. PreflightSet' = PreflightSet
      BY <1>1 DEF PreflightSet, PipelineOps, KernelOps, K1Op, Prescribed, Words
    <3> QED
      BY <1>2, <3>1, <3>2
  <2>6. /\ {MemsetOp, K1Op, K2Base, K3Op} \subseteq PreflightSet
        /\ \A what \in HostFields : DownloadOp(what) \in PreflightSet
        /\ UploadOp("values") \in PreflightSet <=> in.boundary = "host_origin"
    BY PreflightOps
  <2>7. {DownloadOp("payload"), DownloadOp("scale"), DownloadOp("status"), DownloadOp("flags")}
          \subseteq PreflightSet
    BY <2>6 DEF HostFields
  <2> QED
    BY <1>1, <1>3, <2>4, <2>5, <2>6, <2>7 DEF PreflightBuffers
<1>6. LaterBuffers' /\ PoisonState' /\ Outcome'
  BY <1>2, <1>3 DEF LaterBuffers, PoisonState, Outcome, Later
<1> QED
  BY <1>4, <1>5, <1>6 DEF DInv

\* The preflight is inspected.
LEMMA AfterPreflightData == ASSUME IInv, OInv, DInv, AfterPreflight PROVE DInv'
<1> DEFINE result == CheckBenchResult(host.scale, Prescribed, host.status, host.flags)
<1>1. /\ pc = "preflight" /\ todo = <<>> /\ Refusal = "OK" /\ in \in Inputs
      /\ UNCHANGED <<in, faulted, stream, dma, capturing, graph, log, dev, host, index, events>>
  BY DEF AfterPreflight, Through, device, IInv, Accepted, TypeOK
<1>2. \/ result # "OK" /\ pc' = "destroy" /\ status' = result
      \/ /\ result = "OK" /\ base' = [payload |-> host.payload, scale |-> host.scale]
         /\ IF OnGraph THEN pc' = "capture" ELSE pc' = "loop"
  BY DEF AfterPreflight, Leave, Continue, OnGraph
<1>3. /\ stream = <<>>
      /\ pc' = "capture" /\ ~Empty => {"poison", "device_sync"} \subseteq Called(todo)'
  BY AfterPreflightOrder
<1>4. /\ (Empty' <=> Empty) /\ Refusal' = Refusal /\ Scale' = Scale /\ FlagsV' = FlagsV
      /\ CodesV' = CodesV /\ (OnGraph' <=> OnGraph) /\ Expected' = Expected
      /\ BaseRecord' = BaseRecord
  BY <1>1, DataStays
<1>5. pc' \in {"destroy", "capture", "loop"}
  BY <1>2
<1>6. SetupBuffers' /\ PreflightBuffers' /\ EarlyIndex' /\ EventsReached'
  BY <1>1, <1>5 DEF DInv, SetupBuffers, PreflightBuffers, EarlyIndex, EventsReached
<1>7. CASE Empty
  <2>1. LaterBuffers' /\ PoisonState' /\ Outcome'
    BY <1>4, <1>5, <1>7 DEF LaterBuffers, PoisonState, Outcome
  <2> QED
    BY <1>6, <2>1 DEF DInv
<1>8. CASE ~Empty
  <2>1. Pending = {}
    BY <1>1, <1>3, NothingPending
  <2>2. /\ in.givenWords => dev.words = Given
        /\ dev.values = in.values /\ dev.scale = Scale /\ dev.status = StatusOf(in.values)
        /\ dev.flags = FlagsV /\ dev.codes = CodesV
        /\ host.payload = Packed /\ host.scale = Scale /\ host.status = StatusOf(in.values)
        /\ host.flags = FlagsV
    BY <1>1, <1>8, <2>1 DEF DInv, PreflightBuffers
  <2>3. /\ result = Expected.status
        /\ Expected.status = "OK" => BaseRecord = [payload |-> Packed, scale |-> Scale]
    BY <1>1, <1>8, <2>2, Verdict
  <2> HIDE DEF result
  <2>4. LaterBuffers'
    <3>1. pc' # "run"
      BY <1>5
    <3> QED
      BY <1>1, <1>4, <2>2, <3>1 DEF LaterBuffers
  <2>5. PoisonState'
    <3>1. pc' = "destroy" => status' # "OK"
      BY <1>2
    <3>2. OnGraph => pc' # "loop"
      BY <1>2
    <3> QED
      BY <1>3, <1>4, <1>5, <1>8, <3>1, <3>2 DEF PoisonState
  <2>6. Outcome'
    <3>1. CASE pc' = "destroy"
      BY <1>2, <1>4, <2>3, <3>1 DEF Outcome, Later
    <3>2. CASE pc' # "destroy"
      <4>1. result = "OK" /\ base' = [payload |-> host.payload, scale |-> host.scale]
        BY <1>2, <3>2
      <4>2. Expected.status = "OK" /\ base' = BaseRecord
        BY <2>2, <2>3, <4>1
      <4> QED
        BY <1>4, <1>5, <3>2, <4>2 DEF Outcome
    <3> QED
      BY <3>1, <3>2
  <2> QED
    BY <1>6, <2>4, <2>5, <2>6 DEF DInv
<1> QED
  BY <1>7, <1>8

\* The loop starts with a poisoned payload.
LEMMA AfterCaptureData == ASSUME IInv, OInv, DInv, AfterCapture PROVE DInv'
<1>1. /\ pc = "capture" /\ todo = <<>> /\ pc' = "loop" /\ todo' = <<>>
      /\ UNCHANGED <<in, faulted, stream, dma, capturing, graph, log, dev, host, base, index, events,
                     status>>
  BY DEF AfterCapture, Through, Continue, device
<1>2. /\ (Empty' <=> Empty) /\ Refusal' = Refusal /\ Scale' = Scale /\ FlagsV' = FlagsV
      /\ CodesV' = CodesV /\ (OnGraph' <=> OnGraph) /\ Expected' = Expected
      /\ BaseRecord' = BaseRecord
  BY <1>1, DataStays
<1>3. SetupBuffers' /\ PreflightBuffers' /\ EarlyIndex' /\ EventsReached'
  BY <1>1 DEF DInv, SetupBuffers, PreflightBuffers, EarlyIndex, EventsReached
<1>4. LaterBuffers'
  BY <1>1, <1>2 DEF DInv, LaterBuffers, Later
<1>5. PoisonState'
  <2>1. index = 0 /\ Called(todo) = {}
    BY <1>1 DEF DInv, EarlyIndex, Called
  <2>2. ~Empty /\ OnGraph => dev.payload = Poisoned
    BY <1>1, <2>1 DEF DInv, PoisonState
  <2>3. ~Launched'
    BY <1>1, <2>1 DEF Launched
  <2>4. Poisoned' = Poisoned
    BY <1>1 DEF Poisoned
  <2> QED
    BY <1>1, <1>2, <2>2, <2>3, <2>4 DEF PoisonState
<1>6. Outcome'
  BY <1>1, <1>2 DEF DInv, Outcome, Later
<1> QED
  BY <1>3, <1>4, <1>5, <1>6 DEF DInv

\* A run starts.
LEMMA StartRunData == ASSUME IInv, OInv, DInv, StartRun PROVE DInv'
<1>1. /\ pc = "loop" /\ todo = <<>> /\ index' = index + 1 /\ Refusal = "OK"
      /\ UNCHANGED <<in, faulted, stream, dma, capturing, graph, log, dev, host, base, events>>
  BY DEF StartRun, Through, device, IInv, Accepted
<1>2. /\ (Empty' <=> Empty) /\ Refusal' = Refusal /\ Scale' = Scale /\ FlagsV' = FlagsV
      /\ CodesV' = CodesV /\ (OnGraph' <=> OnGraph) /\ Expected' = Expected
      /\ BaseRecord' = BaseRecord /\ (Staged' <=> Staged)
  BY <1>1, DataStays
<1>3. pc' = "run"
  <2>1. pc' = "run" \/ status' = "ID_OVERFLOW"
    BY DEF StartRun, Leave, Continue
  <2>2. status' = "ID_OVERFLOW" => Refusal' = "ID_OVERFLOW"
    BY StartRunStep DEF IInv, Accepted
  <2> QED
    BY <1>1, <1>2, <2>1, <2>2
<1>4. Pending' = PhaseOps' /\ (OnGraph => "launch" \in Called(todo)')
  BY <1>3, StartRunOrder DEF OnGraph
<1>5. OnGraph => Pending' = {}
  BY <1>2, <1>3, <1>4 DEF PhaseOps, Staged, OnGraph
<1>6. SetupBuffers' /\ PreflightBuffers' /\ EarlyIndex' /\ EventsReached'
  BY <1>1, <1>3, <1>4 DEF DInv, SetupBuffers, PreflightBuffers, EarlyIndex, EventsReached
<1>7. LaterBuffers'
  BY <1>1, <1>2, <1>3, <1>5 DEF DInv, LaterBuffers, Later
<1>8. PoisonState'
  <2>1. OnGraph => ~Launched'
    BY <1>4 DEF Launched
  <2>2. ~Empty /\ OnGraph /\ K3Op \notin GraphOps => dev.payload = Poisoned
    BY <1>1 DEF DInv, PoisonState
  <2>3. Poisoned' = Poisoned /\ GraphOps' = GraphOps
    BY <1>1 DEF Poisoned, GraphOps
  <2> QED
    BY <1>1, <1>2, <1>3, <2>1, <2>2, <2>3 DEF PoisonState, K3Op
<1>9. Outcome'
  BY <1>1, <1>2, <1>3 DEF DInv, Outcome, Later
<1> QED
  BY <1>6, <1>7, <1>8, <1>9 DEF DInv

\* A run ends: all its events have been reached, so no timing call refuses them.
LEMMA AfterRunData == ASSUME IInv, OInv, DInv, AfterRun PROVE DInv'
<1>1. /\ pc = "run" /\ todo = <<>> /\ todo' = <<>> /\ Refusal = "OK"
      /\ UNCHANGED <<in, stream, dma, capturing, graph, log, dev, host, base, index, events>>
  BY Zenon DEF AfterRun, Through, device, IInv, Accepted, Continue, Leave
<1>2. /\ (Empty' <=> Empty) /\ Refusal' = Refusal /\ Scale' = Scale /\ FlagsV' = FlagsV
      /\ CodesV' = CodesV /\ (OnGraph' <=> OnGraph) /\ Expected' = Expected
      /\ BaseRecord' = BaseRecord /\ Packed' = Packed
  BY <1>1, DataStays
<1>3. stream = <<>>
  BY AfterRunOrder
<1>4. Pending = {} /\ Called(todo) = {}
  BY <1>1, <1>3, NothingPending
<1>5. Pending' = {} /\ Called(todo)' = {}
  BY <1>1, <1>3 DEF Pending, Queued, Asked, Called
<1>6. ~\E s \in ToSet(Stages), k \in {1, 2} : events[Bounds[s][k]] = Never
  <2> SUFFICES ASSUME NEW s \in ToSet(Stages), NEW k \in {1, 2}
               PROVE  events[Bounds[s][k]] # Never
    OBVIOUS
  <2>1. Bounds[s][k] \in Events /\ RecordOp(Bounds[s][k]) \in PhaseOps
    BY <1>1, StageEvents
  <2> QED
    BY <1>1, <1>4, <2>1 DEF DInv, EventsReached
<1>7. \/ pc' = "loop" /\ status' = status /\ faulted' = faulted
      \/ pc' = "destroy" /\ status' = "CUDA" /\ faulted' = TRUE
  BY <1>6 DEF AfterRun, Continue, Leave
<1>8. SetupBuffers' /\ PreflightBuffers' /\ EarlyIndex' /\ EventsReached'
  BY <1>1, <1>7 DEF DInv, SetupBuffers, PreflightBuffers, EarlyIndex, EventsReached
<1>9. LaterBuffers'
  <2>1. CASE pc' = "loop"
    <3>1. OnGraph /\ ~Empty /\ ~faulted => dev.flags = FlagsV
      BY <1>1, <1>4 DEF DInv, LaterBuffers, Later
    <3> QED
      BY <1>1, <1>2, <1>7, <2>1, <3>1 DEF DInv, LaterBuffers, Later
  <2>2. CASE pc' = "destroy"
    BY <2>2 DEF LaterBuffers, Later
  <2> QED
    BY <1>7, <2>1, <2>2
<1>10. PoisonState'
  <2>1. Poisoned' = Poisoned /\ GraphOps' = GraphOps /\ (Launched' <=> Launched)
    BY <1>1 DEF Poisoned, GraphOps, Launched, Called
  <2>2. K3Logged(index)' <=> K3Logged(index)
    BY <1>1 DEF K3Logged, K3Op
  <2>3. ~Empty /\ OnGraph =>
          /\ K3Op \notin GraphOps => dev.payload = Poisoned
          /\ K3Op \in GraphOps /\ Launched => dev.payload = Packed /\ K3Logged(index)
    BY <1>1, <1>4 DEF DInv, PoisonState
  <2>4. K3Op' = K3Op
    BY DEF K3Op
  <2> QED
    BY <1>1, <1>2, <1>7, <2>1, <2>2, <2>3, <2>4 DEF PoisonState
<1>11. Outcome'
  BY <1>1, <1>2, <1>7 DEF DInv, Outcome, Later
<1> QED
  BY <1>8, <1>9, <1>10, <1>11 DEF DInv

\* The loop ends.
LEMMA AfterLoopData == ASSUME IInv, OInv, DInv, AfterLoop PROVE DInv'
<1>1. /\ pc = "loop" /\ todo = <<>> /\ index = Total /\ Refusal = "OK" /\ in \in Inputs
      /\ UNCHANGED <<in, faulted, stream, dma, capturing, graph, log, dev, host, base, index, events>>
      /\ \/ OnGraph /\ ~Empty /\ pc' = "readback" /\ todo' = Readback
         \/ ~(OnGraph /\ ~Empty) /\ pc' = "destroy" /\ status' = "OK"
  BY DEF AfterLoop, Through, device, IInv, Accepted, Continue, Leave, TypeOK, OnGraph
<1>2. /\ (Empty' <=> Empty) /\ Refusal' = Refusal /\ Scale' = Scale /\ FlagsV' = FlagsV
      /\ CodesV' = CodesV /\ (OnGraph' <=> OnGraph) /\ Expected' = Expected
      /\ BaseRecord' = BaseRecord /\ Packed' = Packed /\ Total' = Total
  BY <1>1, DataStays
<1>3. stream = <<>> /\ (pc' = "readback" => Pending' = PhaseOps')
  BY AfterLoopOrder
<1>4. Pending = {} /\ Called(todo) = {}
  BY <1>1, <1>3, NothingPending
<1>5. SetupBuffers' /\ PreflightBuffers' /\ EarlyIndex' /\ EventsReached'
  BY <1>1 DEF DInv, SetupBuffers, PreflightBuffers, EarlyIndex, EventsReached
<1>6. LaterBuffers'
  BY <1>1, <1>2 DEF DInv, LaterBuffers, Later
<1>7. PoisonState'
  <2> SUFFICES ASSUME OnGraph, ~Empty PROVE PoisonState'
    BY <1>2 DEF PoisonState
  <2>1. pc' = "readback" /\ Pending' = {DownloadOp(what) : what \in HostFields}
    BY <1>1, <1>3 DEF PhaseOps
  <2>2. Launched
    <3>1. in.reps # 0 /\ in.reps \in Nat /\ in.warmups \in Nat
      BY <1>1, RefusalFacts, RequestFacts
    <3>2. index # 0
      BY <1>1, <3>1 DEF Total
    <3> QED
      BY <1>4, <3>2 DEF Launched
  <2>3. /\ K3Op \notin GraphOps => dev.payload = Poisoned
        /\ K3Op \in GraphOps => dev.payload = Packed /\ K3Logged(index)
    BY <1>1, <1>4, <2>2 DEF DInv, PoisonState
  <2>4. Poisoned' = Poisoned /\ GraphOps' = GraphOps /\ K3Op' = K3Op
    BY <1>1 DEF Poisoned, GraphOps, K3Op
  <2>5. K3Logged(index)' <=> K3Logged(index)
    BY <1>1 DEF K3Logged, K3Op
  <2> QED
    BY <1>1, <1>2, <2>1, <2>3, <2>4, <2>5 DEF PoisonState
<1>8. Outcome'
  BY <1>1, <1>2 DEF DInv, Outcome, Later
<1> QED
  BY <1>5, <1>6, <1>7, <1>8 DEF DInv

\* The readback is compared with the preflight: only a payload that K3 has packed
\* again is equal to it.
LEMMA AfterReadbackData == ASSUME IInv, OInv, DInv, AfterReadback PROVE DInv'
<1> DEFINE result == CheckBenchResult(host.scale, Prescribed, host.status, host.flags)
<1>1. /\ pc = "readback" /\ todo = <<>> /\ pc' = "destroy" /\ Refusal = "OK" /\ in \in Inputs
      /\ UNCHANGED <<in, faulted, stream, dma, capturing, graph, log, dev, host, base, index, events>>
      /\ status' = IF result # "OK" THEN result
                   ELSE IF host.scale # base.scale \/ host.payload # base.payload THEN "CUDA"
                   ELSE "OK"
  BY DEF AfterReadback, Through, device, IInv, Accepted, Leave, TypeOK
<1>2. /\ (Empty' <=> Empty) /\ Refusal' = Refusal /\ (OnGraph' <=> OnGraph) /\ Expected' = Expected
      /\ BaseRecord' = BaseRecord /\ Total' = Total
  BY <1>1, DataStays
<1>3. stream = <<>>
  BY AfterReadbackOrder
<1>4. Pending = {} /\ Called(todo) = {}
  BY <1>1, <1>3, NothingPending
<1>5. SetupBuffers' /\ PreflightBuffers' /\ EarlyIndex' /\ EventsReached' /\ LaterBuffers'
  BY <1>1 DEF DInv, SetupBuffers, PreflightBuffers, EarlyIndex, EventsReached, LaterBuffers, Later
<1>6. CASE Empty
  BY <1>1, <1>2, <1>5, <1>6 DEF DInv, PoisonState, Outcome
<1>7. CASE ~Empty
  <2>1. Expected.status = "OK" /\ base = BaseRecord
    BY <1>1, <1>7 DEF DInv, Outcome, Later
  <2>2. base = [payload |-> Packed, scale |-> Scale]
    BY <1>1, <1>7, <2>1, Verdict
  <2>3. base.payload = Packed /\ base.scale = Scale
    BY <2>2
  <2>4. ASSUME OnGraph
        PROVE  /\ host.payload = dev.payload /\ host.scale = dev.scale
               /\ host.status = dev.status /\ host.flags = dev.flags /\ index = Total
               /\ K3Op \notin GraphOps => dev.payload = Poisoned
               /\ K3Op \in GraphOps => dev.payload = Packed /\ K3Logged(Total)
    <3>1. /\ index = Total
          /\ \A what \in HostFields : host[what] = dev[what]
          /\ K3Op \notin GraphOps => dev.payload = Poisoned
          /\ K3Op \in GraphOps /\ Launched => dev.payload = Packed /\ K3Logged(index)
      BY <1>1, <1>4, <1>7, <2>4 DEF DInv, PoisonState
    <3>2. in.reps # 0 /\ in.reps \in Nat /\ in.warmups \in Nat
      BY <1>1, RefusalFacts, RequestFacts
    <3>3. Launched
      BY <1>4, <3>1, <3>2 DEF Launched, Total
    <3> QED
      BY <3>1, <3>3 DEF HostFields
  <2>5. Poisoned # Packed
    <3>1. DOMAIN Poisoned = {"poison"} /\ DOMAIN Packed = {"packed"}
      BY DEF Poisoned, Packed
    <3> QED
      BY <3>1
  <2>6. PoisonState'
    <3>1. OnGraph /\ status' = "OK" => K3Logged(Total)
      BY <1>1, <2>3, <2>4, <2>5
    <3>2. K3Logged(Total)' <=> K3Logged(Total)
      BY <1>1, <1>2 DEF K3Logged, K3Op
    <3> QED
      BY <1>1, <1>2, <3>1, <3>2 DEF PoisonState
  <2>7. OnGraph /\ ~faulted => status' = "OK"
    <3> SUFFICES ASSUME OnGraph, ~faulted PROVE status' = "OK"
      OBVIOUS
    <3>1. dev.flags = FlagsV /\ dev.scale = Scale /\ dev.status = StatusOf(in.values)
      BY <1>1, <1>7 DEF DInv, LaterBuffers, Later
    <3>2. K3Op \in GraphOps
      BY <1>1, <1>7 DEF OInv, GraphState, OnGraph, KernelOps
    <3>3. result = "OK"
      BY <1>1, <1>7, <2>1, <2>4, <3>1, Verdict
    <3> QED
      BY <1>1, <2>3, <2>4, <3>1, <3>2, <3>3
  <2>8. OnGraph
    BY <1>1 DEF DInv, Outcome
  <2>9. Outcome'
    BY <1>1, <1>2, <2>1, <2>7, <2>8 DEF Outcome, Later
  <2> QED
    BY <1>5, <2>6, <2>9 DEF DInv
<1> QED
  BY <1>6, <1>7

\* Nothing is computed once the context is being destroyed.
LEMMA DestroyData == ASSUME IInv, OInv, DInv, Destroy PROVE DInv'
<1>1. /\ pc = "destroy" /\ pc' \in {"destroy", "done"} /\ Refusal = "OK"
      /\ UNCHANGED <<in, status, faulted, todo, stream, dma, graph, log, dev, host, base, index, events>>
  BY DEF Destroy, device, IInv, Accepted
<1>2. /\ (Empty' <=> Empty) /\ Refusal' = Refusal /\ (OnGraph' <=> OnGraph) /\ Expected' = Expected
      /\ BaseRecord' = BaseRecord /\ Total' = Total /\ K3Op' = K3Op
  BY <1>1, DataStays DEF K3Op
<1>3. SetupBuffers' /\ PreflightBuffers' /\ EarlyIndex' /\ EventsReached' /\ LaterBuffers'
  BY <1>1 DEF DInv, SetupBuffers, PreflightBuffers, EarlyIndex, EventsReached, LaterBuffers, Later
<1>4. PoisonState'
  <2>1. K3Logged(Total)' <=> K3Logged(Total)
    BY <1>1, <1>2 DEF K3Logged
  <2> QED
    BY <1>1, <1>2, <2>1 DEF DInv, PoisonState
<1>5. Outcome'
  BY <1>1, <1>2 DEF DInv, Outcome, Later
<1> QED
  BY <1>3, <1>4, <1>5 DEF DInv

\* A failed call is never a success.
LEMMA CallFailsData == ASSUME IInv, OInv, DInv, CallFails PROVE DInv'
<1>1. /\ pc' = "destroy" /\ status' \in {"MEMORY", "CUDA"} /\ faulted' = TRUE
      /\ UNCHANGED <<in, stream, dma, graph, log, dev, host, base, index, events>>
  BY DEF CallFails, device
<1>2. SetupBuffers' /\ PreflightBuffers' /\ EarlyIndex' /\ EventsReached' /\ LaterBuffers'
  BY <1>1 DEF DInv, SetupBuffers, PreflightBuffers, EarlyIndex, EventsReached, LaterBuffers, Later
<1>3. PoisonState' /\ Outcome'
  BY <1>1 DEF PoisonState, Outcome, Later
<1> QED
  BY <1>2, <1>3 DEF DInv

\* The poison can only land during the capture, or when the benchmark is over.
LEMMA PoisonLandsData == ASSUME IInv, OInv, DInv, PoisonLands PROVE DInv'
<1>1. /\ dma # {} /\ dma' = {}
      /\ UNCHANGED <<in, pc, status, faulted, todo, stream, graph, host, base, events, log, index>>
  BY DEF PoisonLands
<1>2. pc \in {"capture", "destroy", "done"} /\ dma = {Poisoned}
  BY <1>1 DEF OInv, GraphState
<1>3. PICK bytes \in dma : dev' = [dev EXCEPT !.payload = bytes]
  BY DEF PoisonLands
<1>4. DOMAIN dev = DeviceFields
  BY DEF IInv, TypeOK
<1>5. dev' = [dev EXCEPT !.payload = Poisoned]
  BY <1>2, <1>3
<1>6. dev'.payload = Poisoned /\ \A f \in DeviceFields \ {"payload"} : dev'[f] = dev[f]
  BY <1>4, <1>5 DEF DeviceFields
<1>7. /\ (Empty' <=> Empty) /\ Refusal' = Refusal /\ Scale' = Scale /\ FlagsV' = FlagsV
      /\ CodesV' = CodesV /\ (OnGraph' <=> OnGraph) /\ Expected' = Expected
      /\ BaseRecord' = BaseRecord /\ Packed' = Packed /\ Total' = Total /\ K3Op' = K3Op
  BY <1>1, DataStays DEF K3Op
<1>8. Poisoned' = Poisoned
  BY <1>1 DEF Poisoned
<1>9. SetupBuffers' /\ PreflightBuffers' /\ EarlyIndex' /\ EventsReached'
  BY <1>1, <1>2 DEF DInv, SetupBuffers, PreflightBuffers, EarlyIndex, EventsReached
<1>10. LaterBuffers'
  <2>1. /\ dev'.values = dev.values /\ dev'.scale = dev.scale /\ dev'.status = dev.status
        /\ dev'.codes = dev.codes /\ dev'.flags = dev.flags /\ dev'.words = dev.words
    BY <1>6 DEF DeviceFields
  <2> SUFFICES ASSUME pc = "capture", ~Empty
               PROVE  LaterBuffers'
    BY <1>1, <1>2, <1>7 DEF LaterBuffers, Later
  <2>2. /\ in.givenWords => dev.words = Given
        /\ dev.values = in.values /\ dev.scale = Scale /\ dev.status = StatusOf(in.values)
        /\ OnGraph => dev.codes = CodesV
        /\ OnGraph /\ ~faulted => dev.flags = FlagsV
    BY DEF DInv, LaterBuffers, Later
  <2>3. /\ in'.givenWords => dev'.words = Given
        /\ dev'.values = in'.values /\ dev'.scale = Scale' /\ dev'.status = StatusOf(in'.values)
        /\ OnGraph' => dev'.codes = CodesV'
    BY <1>1, <1>7, <2>1, <2>2
  <2>4. OnGraph' /\ ~faulted' => dev'.flags = FlagsV'
    BY <1>1, <1>7, <2>1, <2>2
  <2> QED
    BY <1>1, <2>3, <2>4 DEF LaterBuffers, Given
<1>11. PoisonState'
  <2>1. K3Logged(Total)' <=> K3Logged(Total)
    BY <1>1, <1>7 DEF K3Logged
  <2> QED
    BY <1>1, <1>2, <1>6, <1>7, <1>8, <2>1 DEF DInv, PoisonState
<1>12. Outcome'
  BY <1>1, <1>7 DEF DInv, Outcome
<1> QED
  BY <1>9, <1>10, <1>11, <1>12 DEF DInv

\* No call adds an event or takes one away.
LEMMA EventsKept == ASSUME IInv, MakeCall PROVE DOMAIN events' = DOMAIN events
<1>1. Head(todo).call \in CallNames \cup {"enqueue"}
  BY CallEffects, CallFacts
<1>2. CASE Head(todo).call = "enqueue" /\ ~capturing
  BY <1>2, CallEffects
<1>3. CASE Head(todo).call = "enqueue" /\ capturing
  BY <1>3, CallEffects
<1>4. CASE Head(todo).call # "enqueue"
  <2>1. events' = events
    BY <1>1, <1>4, CallEffects DEF CallNames, OtherCalls
  <2> QED
    BY <2>1
<1> QED
  BY <1>2, <1>3, <1>4

\* A call of the set-up leaves the buffers as they are.
LEMMA SetupCallData == ASSUME IInv, OInv, DInv, MakeCall, pc = "setup" PROVE DInv'
<1>1. /\ Pending' = Pending
      /\ UNCHANGED <<in, pc, status, dev, base, log, index>>
  BY SetupCallOrder, CallEffects
<1>2. /\ (Empty' <=> Empty) /\ Refusal' = Refusal /\ Resident' = Resident
  BY <1>1, DataStays
<1>3. SetupBuffers'
  BY <1>1, <1>2 DEF DInv, SetupBuffers, Source
<1>4. PreflightBuffers' /\ LaterBuffers' /\ PoisonState' /\ EarlyIndex'
  BY <1>1 DEF DInv, PreflightBuffers, LaterBuffers, PoisonState, EarlyIndex, Later
<1>5. EventsReached'
  <2>1. DOMAIN events' = DOMAIN events
    BY EventsKept
  <2> QED
    BY <1>1, <2>1 DEF DInv, EventsReached
<1>6. Outcome'
  BY <1>1, <1>2 DEF DInv, Outcome, Later
<1> QED
  BY <1>3, <1>4, <1>5, <1>6 DEF DInv

\* A call of a pipeline, of a launch or of the readback only queues work.
LEMMA WorkCallData == ASSUME IInv, OInv, DInv, MakeCall, pc \in Working PROVE DInv'
<1> DEFINE c == Head(todo)
<1>1. /\ UNCHANGED <<in, pc, status, dev, base, log, index, dma, graph, faulted, host>>
      /\ todo # <<>> /\ todo \in Seq(Calls({WordsOf(index)})) /\ ~capturing
      /\ c.call \in {"enqueue", "device_sync", "launch"}
  BY WorkCallOrder, CallEffects DEF OInv, GraphState, Working
<1>2. /\ c.call # "launch" =>
           /\ Pending' = Pending /\ PhaseOps' = PhaseOps
           /\ "launch" \in Called(todo)' <=> "launch" \in Called(todo)
      /\ c.call = "launch" =>
           /\ Pending = {} /\ Pending' = GraphOps /\ PhaseOps' = GraphOps
           /\ pc = "run" /\ ~Staged /\ "launch" \in Called(todo) /\ "launch" \notin Called(todo)'
  BY WorkCallOrder
<1>3. /\ (Empty' <=> Empty) /\ Refusal' = Refusal /\ Scale' = Scale /\ FlagsV' = FlagsV
      /\ CodesV' = CodesV /\ (OnGraph' <=> OnGraph) /\ Expected' = Expected
      /\ BaseRecord' = BaseRecord /\ Packed' = Packed /\ Total' = Total /\ K3Op' = K3Op
      /\ K2Base' = K2Base /\ K1Op' = K1Op /\ MemsetOp' = MemsetOp
      /\ (Prescribed' <=> Prescribed) /\ (Staged' <=> Staged)
  BY <1>1, DataStays DEF K3Op, MemsetOp
<1>4. GraphOps' = GraphOps /\ Poisoned' = Poisoned
  BY <1>1 DEF GraphOps, Poisoned
<1>5. SetupBuffers'
  BY <1>1 DEF SetupBuffers, Working
<1>6. PreflightBuffers'
  <2> SUFFICES ASSUME pc = "preflight", ~Empty PROVE PreflightBuffers'
    BY <1>1, <1>3 DEF PreflightBuffers
  <2>1. c.call # "launch"
    BY <1>2
  <2>2. PreflightBuffers
    BY DEF DInv
  <2> QED
    BY <1>1, <1>2, <1>3, <2>1, <2>2 DEF PreflightBuffers, Given, UploadOp, DownloadOp
<1>7. LaterBuffers'
  <2> SUFFICES ASSUME pc \in Later, ~Empty PROVE LaterBuffers'
    BY <1>1, <1>3 DEF LaterBuffers, Later
  <2>1. LaterBuffers
    BY DEF DInv
  <2>2. CASE c.call # "launch"
    BY <1>1, <1>2, <1>3, <2>1, <2>2 DEF LaterBuffers, Given
  <2>3. CASE c.call = "launch"
    <3>1. /\ in'.givenWords => dev'.words = Given
          /\ dev'.values = in'.values /\ dev'.scale = Scale' /\ dev'.status = StatusOf(in'.values)
          /\ OnGraph' => dev'.codes = CodesV'
      BY <1>1, <1>3, <2>1 DEF LaterBuffers, Given
    <3>2. OnGraph /\ ~faulted => dev.flags = FlagsV
      BY <1>2, <2>1, <2>3 DEF LaterBuffers
    <3>3. OnGraph /\ ~faulted => MemsetOp \in GraphOps
      BY <1>2, <2>3 DEF OInv, GraphState, OnGraph, KernelOps
    <3>4. OnGraph' /\ ~faulted' => dev'.flags = FlagsV' /\ MemsetOp' \in Pending'
      BY <1>1, <1>2, <1>3, <2>3, <3>2, <3>3
    <3> QED
      BY <3>1, <3>4 DEF LaterBuffers, Given
  <2> QED
    BY <2>2, <2>3
<1>8. PoisonState'
  <2> SUFFICES ASSUME ~Empty, OnGraph PROVE PoisonState'
    BY <1>1, <1>3 DEF PoisonState
  <2>1. PoisonState
    BY DEF DInv
  <2>2. K3Logged(index)' <=> K3Logged(index)
    BY <1>1, <1>3 DEF K3Logged
  <2>3. pc \notin {"capture", "destroy", "done"}
    BY DEF Working
  <2>4. pc \in {"loop", "run", "readback"} =>
          /\ K3Op' \notin GraphOps' => dev'.payload = Poisoned'
          /\ K3Op' \in GraphOps' /\ Launched' /\ K3Op' \notin Pending' =>
               dev'.payload = Packed' /\ K3Logged(index)'
    <3>1. CASE c.call # "launch"
      <4>1. Launched' <=> Launched
        BY <1>1, <1>2, <3>1 DEF Launched
      <4> QED
        BY <1>1, <1>2, <1>3, <1>4, <2>1, <2>2, <3>1, <4>1 DEF PoisonState
    <3>2. CASE c.call = "launch"
      BY <1>1, <1>2, <1>3, <1>4, <2>1, <3>2 DEF PoisonState
    <3> QED
      BY <3>1, <3>2
  <2>5. pc = "readback" =>
          /\ index' = Total'
          /\ \A what \in HostFields : DownloadOp(what) \notin Pending' => host'[what] = dev'[what]
    BY <1>1, <1>2, <1>3, <2>1 DEF PoisonState
  <2> QED
    BY <1>1, <2>3, <2>4, <2>5 DEF PoisonState, DownloadOp
<1>9. EarlyIndex'
  BY <1>1 DEF DInv, EarlyIndex
<1>10. EventsReached'
  <2>1. DOMAIN events = Events /\ DOMAIN events' = DOMAIN events
    BY EventsKept DEF DInv, EventsReached
  <2> SUFFICES ASSUME pc = "run", NEW e \in Events, RecordOp(e) \in PhaseOps' \ Pending'
               PROVE  events'[e] # Never
    BY <1>1, <2>1 DEF EventsReached, Never, RecordOp
  <2>2. CASE c.call = "launch"
    BY <1>2, <2>2
  <2>3. CASE c.call # "launch"
    <3>1. events[e] # Never
      BY <1>2, <2>3 DEF DInv, EventsReached
    <3>2. CASE c.call = "enqueue"
      <4>1. c.op \in Pending
        BY <1>1, <3>2, TailFacts DEF Pending
      <4>2. RecordOp(e) # c.op
        BY <1>2, <2>3, <4>1
      <4>3. c.op.op = "record" => c.op.event # e
        <5>1. c.op \in Ops({WordsOf(index)})
          BY <1>1, <3>2, CallEffects, CallFacts
        <5>2. c.op.op = "record" => c.op = RecordOp(c.op.event)
          BY <5>1 DEF Ops, RecordOp
        <5> QED
          BY <4>2, <5>2
      <4>4. events' = IF c.op.op = "record" THEN [events EXCEPT ![c.op.event] = Never] ELSE events
        BY <1>1, <3>2, CallEffects
      <4> QED
        BY <2>1, <3>1, <4>3, <4>4
    <3>3. CASE c.call = "device_sync"
      BY <3>1, <3>3, CallEffects
    <3> QED
      BY <1>1, <2>3, <3>2, <3>3
  <2> QED
    BY <2>2, <2>3
<1>11. Outcome'
  BY <1>1, <1>3 DEF DInv, Outcome
<1> QED
  BY <1>5, <1>6, <1>7, <1>8, <1>9, <1>10, <1>11 DEF DInv

\* A call of the capture only poisons the payload and fills the graph.
LEMMA CaptureCallData == ASSUME IInv, OInv, DInv, MakeCall, pc = "capture" PROVE DInv'
<1> DEFINE c == Head(todo)
           t == Tail(todo)
           W == {WordsOf(index)}
<1>1. /\ UNCHANGED <<in, pc, status, dev, base, log, index>>
      /\ todo # <<>> /\ todo \in Seq(Calls(W)) /\ c \in Calls(W) /\ todo' = t
      /\ c.call \in CaptureNames
  BY CaptureCallOrder, CallEffects
<1>2. /\ (Empty' <=> Empty) /\ Refusal' = Refusal /\ Scale' = Scale /\ FlagsV' = FlagsV
      /\ CodesV' = CodesV /\ (OnGraph' <=> OnGraph) /\ Expected' = Expected
      /\ BaseRecord' = BaseRecord
  BY <1>1, DataStays
<1>3. SetupBuffers' /\ PreflightBuffers' /\ EarlyIndex'
  BY <1>1 DEF DInv, SetupBuffers, PreflightBuffers, EarlyIndex
<1>4. EventsReached'
  BY <1>1, EventsKept DEF DInv, EventsReached
<1>5. Outcome'
  BY <1>1, <1>2 DEF DInv, Outcome, Later
<1>6. faulted => faulted'
  <2>1. CASE c.call = "instantiate"
    <3>1. UNCHANGED <<graph, faulted>> \/ faulted'
      BY <2>1, CallEffects
    <3> QED
      BY <3>1, Zenon
  <2>2. CASE c.call # "instantiate"
    <3>1. faulted' = faulted
      BY <1>1, <2>2, CallEffects DEF CaptureNames
    <3> QED
      BY <3>1, Zenon
  <2> QED
    BY <2>1, <2>2
<1>7. LaterBuffers'
  <2> SUFFICES ASSUME ~Empty PROVE LaterBuffers'
    BY <1>2 DEF LaterBuffers
  <2>1. /\ in.givenWords => dev.words = Given
        /\ dev.values = in.values /\ dev.scale = Scale /\ dev.status = StatusOf(in.values)
        /\ OnGraph => dev.codes = CodesV
        /\ OnGraph /\ ~faulted => dev.flags = FlagsV
    BY DEF DInv, LaterBuffers, Later
  <2>2. /\ in'.givenWords => dev'.words = Given
        /\ dev'.values = in'.values /\ dev'.scale = Scale' /\ dev'.status = StatusOf(in'.values)
        /\ OnGraph' => dev'.codes = CodesV'
    BY <1>1, <1>2, <2>1
  <2>3. OnGraph' /\ ~faulted' => dev'.flags = FlagsV'
    BY <1>1, <1>2, <1>6, <2>1
  <2> QED
    BY <1>1, <2>2, <2>3 DEF LaterBuffers, Given
<1>8. PoisonState'
  <2> SUFFICES ASSUME ~Empty, OnGraph PROVE PoisonState'
    BY <1>2 DEF PoisonState
  <2>1. Called(todo) = Called(t) \cup {c.call}
    BY <1>1, TailFacts
  <2>2. Called(todo)' = Called(t)
    BY <1>1 DEF Called
  <2>3. Poisoned' = Poisoned
    BY <1>1 DEF Poisoned
  <2>4. Within(pc, todo, 1, 25)
    BY <1>1 DEF OInv, CaptureOrder
  <2>5. /\ "device_sync" \notin Called(todo) => dev.payload = Poisoned
        /\ "poison" \notin Called(todo) => dev.payload = Poisoned \/ dma = {Poisoned}
    BY DEF DInv, PoisonState
  <2>6. CASE c.call = "poison"
    <3>1. "device_sync" \in Called(todo)
      BY <1>1, <2>1, <2>6 DEF OInv, CaptureOrder
    <3>2. "device_sync" \in Called(t)
      BY <2>1, <2>6, <3>1
    <3>3. dma' = {Poisoned}
      BY <2>6, CallEffects
    <3> QED
      BY <1>1, <2>2, <2>3, <3>2, <3>3 DEF PoisonState
  <2>7. CASE c.call = "device_sync"
    <3>1. "poison" \notin Called(t)
      <4> SUFFICES ASSUME "poison" \in Called(t) PROVE FALSE
        OBVIOUS
      <4> DEFINE p == pc
      <4>1. todo \in Seq(Calls(W)) /\ todo # <<>> /\ Within(p, todo, 1, 25)
        BY <1>1, <2>4
      <4> HIDE DEF p
      <4>2. \A n \in Called(Tail(todo)) : \E d \in Calls(W) :
              d.call = n /\ CallRank(p, Head(todo)) < CallRank(p, d)
        BY <4>1, WithinTail, ZenonT(30)
      <4>3. PICK d \in Calls(W) : d.call = "poison" /\ CallRank(p, c) < CallRank(p, d)
        BY <4>2
      <4>4. CallRank(p, c) = 2 /\ CallRank(p, d) = 1
        BY <2>7, <4>3 DEF CallRank, p
      <4> QED
        BY <4>3, <4>4
    <3>2. "poison" \notin Called(todo) /\ dma = {}
      BY <2>1, <2>7, <3>1, CallEffects
    <3>3. dev.payload = Poisoned
      BY <2>5, <3>2
    <3> QED
      BY <1>1, <2>3, <3>3 DEF PoisonState
  <2>8. CASE c.call \notin {"poison", "device_sync"}
    <3>1. dma' = dma
      <4>1. CASE c.call = "enqueue"
        BY <4>1, CallEffects
      <4>2. CASE c.call # "enqueue"
        BY <1>1, <2>8, <4>2, CallEffects DEF CaptureNames
      <4> QED
        BY <4>1, <4>2
    <3>2. /\ "device_sync" \in Called(t) <=> "device_sync" \in Called(todo)
          /\ "poison" \in Called(t) <=> "poison" \in Called(todo)
      BY <2>1, <2>8
    <3> QED
      BY <1>1, <2>2, <2>3, <2>5, <3>1, <3>2 DEF PoisonState
  <2> QED
    BY <2>6, <2>7, <2>8
<1> QED
  BY <1>3, <1>4, <1>5, <1>7, <1>8 DEF DInv

\* Calls are made during the set-up, the capture and the work.
LEMMA MakeCallData == ASSUME IInv, OInv, DInv, MakeCall PROVE DInv'
<1>1. pc \in Working \cup {"setup", "capture"}
  BY DEF MakeCall, OInv, SyncState
<1> QED
  BY <1>1, SetupCallData, WorkCallData, CaptureCallData

\* Before the start nothing is computed.
LEMMA InitData == Init => DInv
<1> SUFFICES ASSUME Init PROVE DInv
  OBVIOUS
<1>1. pc = "start" /\ index = 0 /\ events = [e \in Events |-> Never] /\ status = "OK"
  BY DEF Init
<1>2. SetupBuffers /\ PreflightBuffers /\ LaterBuffers /\ PoisonState /\ EarlyIndex
  BY <1>1 DEF SetupBuffers, PreflightBuffers, LaterBuffers, PoisonState, EarlyIndex, Later
<1>3. EventsReached /\ Outcome
  BY <1>1 DEF EventsReached, Outcome, Later
<1> QED
  BY <1>2, <1>3 DEF DInv

\* Nor is anything by a step that changes no variable.
LEMMA StutterData == ASSUME DInv, UNCHANGED vars PROVE DInv'
<1>1. /\ UNCHANGED <<in, pc, status, faulted, todo, stream, dma, graph, dev>>
      /\ UNCHANGED <<host, base, events, log, index>>
  BY DEF vars
<1>2. /\ Pending' = Pending /\ PhaseOps' = PhaseOps /\ GraphOps' = GraphOps /\ Poisoned' = Poisoned
      /\ ("launch" \in Called(todo)' <=> "launch" \in Called(todo))
      /\ ("poison" \in Called(todo)' <=> "poison" \in Called(todo))
      /\ ("device_sync" \in Called(todo)' <=> "device_sync" \in Called(todo))
  <2>1. Called(todo)' = Called(todo)
    BY <1>1 DEF Called
  <2> QED
    BY <1>1, <2>1, PhaseStays DEF Pending, Queued, Asked, GraphOps, Poisoned
<1>3. /\ (Empty' <=> Empty) /\ Refusal' = Refusal /\ Scale' = Scale /\ FlagsV' = FlagsV
      /\ CodesV' = CodesV /\ (OnGraph' <=> OnGraph) /\ Expected' = Expected
      /\ BaseRecord' = BaseRecord /\ Packed' = Packed /\ Total' = Total /\ K3Op' = K3Op
      /\ K2Base' = K2Base /\ K1Op' = K1Op /\ Resident' = Resident
      /\ (Prescribed' <=> Prescribed)
  BY <1>1, DataStays DEF K3Op
<1>4. SetupBuffers'
  BY <1>1, <1>2, <1>3 DEF DInv, SetupBuffers, Source, UploadOp
<1>5. PreflightBuffers'
  BY <1>1, <1>2, <1>3 DEF DInv, PreflightBuffers, Given, UploadOp, DownloadOp, MemsetOp
<1>6. LaterBuffers'
  BY <1>1, <1>2, <1>3 DEF DInv, LaterBuffers, Given, MemsetOp
<1>7. PoisonState'
  <2>1. /\ K3Logged(index)' <=> K3Logged(index)
        /\ K3Logged(Total)' <=> K3Logged(Total)
        /\ Launched' <=> Launched
    BY <1>1, <1>2, <1>3 DEF K3Logged, Launched
  <2> QED
    BY <1>1, <1>2, <1>3, <2>1 DEF DInv, PoisonState, DownloadOp
<1>8. EarlyIndex' /\ EventsReached' /\ Outcome'
  BY <1>1, <1>2, <1>3 DEF DInv, EarlyIndex, EventsReached, Outcome, Never, RecordOp
<1> QED
  BY <1>4, <1>5, <1>6, <1>7, <1>8 DEF DInv

\* The buffers, the base record and the status are those of sq_cuda_compress at
\* every step.
THEOREM DataInvariance == Spec => []DInv
<1>1. Init => DInv
  BY InitData
<1>2. IInv /\ OInv /\ DInv /\ [Next]_vars => DInv'
  <2> SUFFICES ASSUME IInv, OInv, DInv, [Next]_vars PROVE DInv'
    OBVIOUS
  <2>1. CASE UNCHANGED vars
    BY <2>1, StutterData
  <2>2. CASE Host
    BY <2>2, StartData, MakeCallData, AfterSetupData, AfterPreflightData, AfterCaptureData,
       StartRunData, AfterRunData, AfterLoopData, AfterReadbackData, DestroyData DEF Host
  <2>3. CASE CallFails \/ DeviceStep \/ PoisonLands
    BY <2>3, CallFailsData, DeviceStepData, PoisonLandsData
  <2> QED
    BY <2>1, <2>2, <2>3 DEF Next
<1> QED
  BY <1>1, <1>2, Invariance, OrderInvariance, PTL DEF Spec

\* A benchmark returns the status of sq_cuda_compress unless a CUDA call failed,
\* and hands out its record whenever it succeeds: sq_cuda_bench, for every request.
THEOREM MatchesCompressHolds == Spec => []MatchesCompress
<1>1. DInv => MatchesCompress
  <2> SUFFICES ASSUME DInv, pc = "done", Refusal = "OK", ~Empty
               PROVE  /\ ~faulted => status = Expected.status
                      /\ status = "OK" =>
                           base = [payload |-> Expected.payload, scale |-> Expected.scale]
    BY DEF MatchesCompress, Expected
  <2> QED
    BY DEF DInv, Outcome, BaseRecord
<1> QED
  BY <1>1, DataInvariance, PTL

\* A graph benchmark that succeeds has run K3 in its last launch: run_bench_graph.
THEOREM SkippedK3CannotPassHolds == Spec => []SkippedK3CannotPass
<1>1. IInv /\ DInv => SkippedK3CannotPass
  <2> SUFFICES ASSUME IInv, DInv, pc = "done", status = "OK", OnGraph, ~Empty
               PROVE  \E i \in DOMAIN log : log[i].run = Total /\ log[i].op.op = "k3"
    BY DEF SkippedK3CannotPass, OnGraph
  <2>1. PICK i \in 1..Len(log) : log[i].run = Total /\ log[i].op = K3Op
    BY DEF DInv, PoisonState, K3Logged
  <2>2. log \in Seq(Entries(index))
    BY DEF IInv, WordsState
  <2>3. i \in DOMAIN log
    BY <2>2
  <2> QED
    BY <2>1, <2>3 DEF K3Op
<1> QED
  BY <1>1, Invariance, DataInvariance, PTL

-----------------------------------------------------------------------------
(* What a sample covers *)

\* What the device has done for the current run.
Done == {log[i].op : i \in {j \in 1..Len(log) : log[j].run = index}}
\* It is the run's work, as far as it is no longer pending.
LogState ==
  pc = "run" => Done = {o \in PhaseOps \ Pending : o.op # "record"}
\* An event that has been reached separates what comes before it in the pipeline,
\* earlier runs included, from the rest.
EventState ==
  pc = "run" =>
    \A e \in Events : RecordOp(e) \in PhaseOps \ Pending =>
      /\ events[e] \in 0..Len(log)
      /\ \A i \in 1..Len(log) :
           i <= events[e] <=> log[i].run < index \/ OpRank(log[i].op) < EventRank[e]
StageOp(s) == CASE s = "h2d" -> "upload" [] s = "d2h" -> "download" [] OTHER -> s
\* A sample of run n covers that run and nothing else.
GoodSample(x, n) ==
  /\ Names(x.wall) = TimedWork
  /\ Downloads(x.wall) \subseteq {"payload", "scale"}
  /\ \A s \in DOMAIN x.stages :
       /\ \A k \in DOMAIN x.stages[s] : x.stages[s][k].run = n
       /\ Names(x.stages[s]) = {StageOp(s)}
       /\ s = "d2h" => Downloads(x.stages[s]) = {"payload", "scale"}
Measured(n) == IF n > in.warmups THEN n - in.warmups ELSE 0
\* There is one sample for every measured run so far.
SampleState ==
  /\ samples \in Seq(ToSet(samples))
  /\ pc \in {"start", "setup", "preflight", "capture"} => samples = <<>>
  /\ pc = "loop" => Len(samples) = Measured(index)
  /\ pc = "run" => index > 0 /\ Len(samples) = Measured(index - 1)
  /\ ~faulted => \A i \in 1..Len(samples) : GoodSample(samples[i], in.warmups + i)
TInv == LogState /\ EventState /\ SampleState

\* The ranks of a stage's events enclose its operations and no others.
LEMMA StageRanks ==
  ASSUME NEW W, NEW o \in Ops(W), o.op # "record",
         o.op = "download" => o.what \in {"payload", "scale"},
         NEW s \in {"k1", "k2", "k3", "h2d", "d2h"}
  PROVE  EventRank[Bounds[s][1]] <= OpRank(o) /\ OpRank(o) < EventRank[Bounds[s][2]]
           <=> o.op = StageOp(s)
<1>1. /\ EventRank[Bounds["k1"][1]] = 8 /\ EventRank[Bounds["k1"][2]] = 10
      /\ EventRank[Bounds["k2"][1]] = 11 /\ EventRank[Bounds["k2"][2]] = 13
      /\ EventRank[Bounds["k3"][1]] = 14 /\ EventRank[Bounds["k3"][2]] = 16
      /\ EventRank[Bounds["h2d"][1]] = 4 /\ EventRank[Bounds["h2d"][2]] = 6
      /\ EventRank[Bounds["d2h"][1]] = 17 /\ EventRank[Bounds["d2h"][2]] = 20
  BY DEF EventRank, Bounds
<1>2. /\ StageOp("k1") = "k1" /\ StageOp("k2") = "k2" /\ StageOp("k3") = "k3"
      /\ StageOp("h2d") = "upload" /\ StageOp("d2h") = "download"
  BY DEF StageOp
<1>3. o.op \in {"memset", "k3", "k1", "k2", "upload", "download"}
  BY DEF Ops
<1>4. ResultRank["payload"] = 18 /\ ResultRank["scale"] = 19
  BY DEF ResultRank
<1>5. /\ o.op = "upload" => OpRank(o) = 5
      /\ o.op = "memset" => OpRank(o) = 7
      /\ o.op = "k1" => OpRank(o) = 9
      /\ o.op = "k2" => OpRank(o) = 12
      /\ o.op = "k3" => OpRank(o) = 15
      /\ o.op = "download" => OpRank(o) \in {18, 19}
  BY <1>4, OpRanks
<1> HIDE DEF StageOp
<1> QED
  BY <1>1, <1>2, <1>3, <1>5

\* What a run has to do, once nothing of it is missing.
LEMMA RunWork ==
  ASSUME IInv, OInv, pc = "run", ~Empty, ~faulted, "launch" \notin Called(todo)
  PROVE  /\ \E w : PhaseOps \subseteq Ops({w})
         /\ {o.op : o \in {p \in PhaseOps : p.op # "record"}} = TimedWork
         /\ \A o \in PhaseOps : o.op = "download" => o.what \in {"payload", "scale"}
         /\ Transfers(in.boundary) => DownloadOp("payload") \in PhaseOps /\ DownloadOp("scale") \in PhaseOps
         /\ MemsetOp \in PhaseOps /\ K1Op \in PhaseOps /\ K3Op \in PhaseOps
         /\ \E w : K2Op(w) \in PhaseOps
         /\ in.boundary = "host_origin" => UploadOp("values") \in PhaseOps
<1>1. /\ MemsetOp.op = "memset" /\ K1Op.op = "k1" /\ K3Op.op = "k3" /\ (\A w : K2Op(w).op = "k2")
      /\ (\A to : UploadOp(to).op = "upload") /\ (\A e : RecordOp(e).op = "record")
      /\ (\A what : DownloadOp(what).op = "download" /\ DownloadOp(what).what = what)
  BY DEF MemsetOp, K1Op, K3Op, K2Op, UploadOp, RecordOp, DownloadOp
<1>2. CASE Staged
  <2> DEFINE w == WordsOf(index)
             U == IF in.boundary = "host_origin" THEN {UploadOp("values")} ELSE {}
             D == IF Transfers(in.boundary) THEN {DownloadOp("payload"), DownloadOp("scale")} ELSE {}
             R == {RecordOp(e) : e \in Events}
  <2>1. PhaseOps = PipelineOps(w, in.boundary, Transfers(in.boundary), FALSE)
    BY <1>2 DEF PhaseOps
  <2>2. PhaseOps \subseteq KernelOps(w) \cup U \cup D \cup R
    BY <2>1 DEF PipelineOps, KernelEvents, Events
  <2>3. KernelOps(w) \cup U \cup D \subseteq PhaseOps
    BY <2>1 DEF PipelineOps
  <2>4. PhaseOps \subseteq Ops({w})
    <3>1. w \in {w}
      OBVIOUS
    <3>2. /\ MemsetOp \in Ops({w}) /\ K1Op \in Ops({w}) /\ K2Op(w) \in Ops({w}) /\ K3Op \in Ops({w})
          /\ \A e \in Events : RecordOp(e) \in Ops({w})
          /\ UploadOp("values") \in Ops({w})
          /\ \A what \in HostFields : DownloadOp(what) \in Ops({w})
      BY <3>1, NamedOps
    <3>3. KernelOps(w) \cup U \cup D \cup R \subseteq Ops({w})
      BY <3>2 DEF KernelOps, HostFields
    <3> QED
      BY <2>2, <3>3
  <2>5. {p \in PhaseOps : p.op # "record"} = KernelOps(w) \cup U \cup D
    <3>1. \A p \in KernelOps(w) \cup U \cup D : p.op # "record"
      BY <1>1 DEF KernelOps
    <3>2. \A p \in R : p.op = "record"
      BY <1>1
    <3> QED
      BY <2>2, <2>3, <3>1, <3>2
  <2> HIDE DEF w
  <2>6. {o.op : o \in KernelOps(w) \cup U \cup D} = TimedWork
    <3>1. \A o \in KernelOps(w) \cup U \cup D : o.op \in TimedWork
      BY <1>1 DEF KernelOps, TimedWork
    <3>2. \A n \in TimedWork : \E o \in KernelOps(w) \cup U \cup D : o.op = n
      BY <1>1 DEF KernelOps, TimedWork
    <3> QED
      BY <3>1, <3>2
  <2>7. \A o \in PhaseOps : o.op = "download" => o.what \in {"payload", "scale"}
    BY <1>1, <2>2 DEF KernelOps
  <2> QED
    BY <2>3, <2>4, <2>5, <2>6, <2>7 DEF KernelOps
<1>3. CASE ~Staged
  <2> DEFINE w == Words(in.base)
  <2>1. in.boundary = "resident_graph" /\ ~Transfers(in.boundary)
    BY <1>3 DEF Staged, Transfers
  <2>2. PhaseOps = GraphOps
    BY <1>3 DEF PhaseOps, GraphOps
  <2>3. GraphOps = KernelOps(w)
    BY <2>1 DEF OInv, GraphState
  <2>4. KernelOps(w) \subseteq Ops({w})
    <3>1. w \in {w}
      OBVIOUS
    <3> QED
      BY <3>1, NamedOps DEF KernelOps
  <2> HIDE DEF w
  <2>5. \A o \in KernelOps(w) : o.op \in {"memset", "k1", "k2", "k3"}
    BY <1>1 DEF KernelOps
  <2>6. {p \in PhaseOps : p.op # "record"} = KernelOps(w)
    BY <2>2, <2>3, <2>5
  <2>7. {o.op : o \in KernelOps(w)} = TimedWork
    <3>1. TimedWork = {"memset", "k1", "k2", "k3"}
      BY <2>1 DEF TimedWork
    <3> QED
      BY <1>1, <3>1 DEF KernelOps
  <2>8. \A o \in PhaseOps : o.op # "download"
    BY <2>2, <2>3, <2>5
  <2> QED
    BY <2>1, <2>2, <2>3, <2>4, <2>6, <2>7, <2>8 DEF KernelOps
<1> QED
  BY <1>2, <1>3

\* The sample of a run that has ended without a fault.
LEMMA SampleIsGood ==
  ASSUME IInv, OInv, TInv, pc = "run", ~faulted, todo = <<>>, stream = <<>>
  PROVE  GoodSample(Sample, index)
<1> DEFINE I == {j \in 1..Len(log) : log[j].run = index}
<1>1. log \in Seq(Entries(index)) /\ DOMAIN log = 1..Len(log) /\ Len(log) \in Nat /\ index \in Nat
  BY DEF IInv, WordsState, TypeOK
<1>2. Pending = {} /\ "launch" \notin Called(todo)
  BY NothingPending
<1>3. Done = {o \in PhaseOps : o.op # "record"}
  BY <1>2 DEF TInv, LogState
<1>4. Done = {log[i].op : i \in I}
  BY DEF Done
<1>5. /\ DOMAIN Sample.wall = I /\ (\A i \in I : Sample.wall[i] = log[i])
      /\ DOMAIN Sample.stages = ToSet(Stages)
      /\ \A s \in ToSet(Stages) : Sample.stages[s] = Elapsed(s)
  BY <1>1 DEF Sample
<1> DEFINE x == Sample
<1> HIDE DEF x, I
<1>6. Names(x.wall) = {o.op : o \in Done}
  <2>1. Names(x.wall) = {log[i].op.op : i \in I}
    BY <1>5 DEF Names, x
  <2> QED
    BY <1>4, <2>1
<1>7. Downloads(x.wall) = {o.what : o \in {p \in Done : p.op = "download"}}
  <2>1. Downloads(x.wall) = {log[i].op.what : i \in {j \in I : log[j].op.op = "download"}}
    BY <1>5 DEF Downloads, x
  <2> QED
    BY <1>4, <2>1
<1>8. CASE Empty
  <2>1. log = <<>>
    BY <1>8 DEF OInv, SyncState
  <2>2. I = {}
    BY <2>1 DEF I
  <2>3. Done = {}
    BY <1>4, <2>2
  <2>4. ToSet(Stages) = {}
    BY <1>8, StageSet DEF Staged
  <2>5. TimedWork = {}
    BY <1>8 DEF TimedWork
  <2>6. Names(x.wall) = TimedWork /\ Downloads(x.wall) = {}
    BY <1>6, <1>7, <2>3, <2>5
  <2>7. DOMAIN x.stages = {}
    BY <1>5, <2>4 DEF x
  <2> QED
    BY <2>6, <2>7 DEF GoodSample, x
<1>9. CASE ~Empty
  <2>1. /\ \E w : PhaseOps \subseteq Ops({w})
        /\ {o.op : o \in {p \in PhaseOps : p.op # "record"}} = TimedWork
        /\ \A o \in PhaseOps : o.op = "download" => o.what \in {"payload", "scale"}
    BY <1>2, <1>9, RunWork
  <2>2. Names(x.wall) = TimedWork
    BY <1>3, <1>6, <2>1
  <2>3. Downloads(x.wall) \subseteq {"payload", "scale"}
    BY <1>3, <1>7, <2>1
  <2>4. ASSUME NEW s \in ToSet(Stages)
        PROVE  /\ \A k \in DOMAIN x.stages[s] : x.stages[s][k].run = index
               /\ Names(x.stages[s]) = {StageOp(s)}
               /\ s = "d2h" => Downloads(x.stages[s]) = {"payload", "scale"}
    <3> DEFINE a == Bounds[s][1]
               b == Bounds[s][2]
               J == (events[a] + 1)..events[b]
    <3>1. /\ Staged /\ a \in Events /\ b \in Events
          /\ RecordOp(a) \in PhaseOps /\ RecordOp(b) \in PhaseOps
      BY StageEvents
    <3>2. /\ s \in {"k1", "k2", "k3", "h2d", "d2h"}
          /\ s = "h2d" => in.boundary = "host_origin"
          /\ s = "d2h" => Transfers(in.boundary)
      BY <3>1, StageSet
    <3>3. x.stages[s] = [i \in J |-> log[i]]
      BY <1>5 DEF x, Elapsed
    <3> DEFINE A == EventRank[a]
               B == EventRank[b]
    <3>4. /\ events[a] \in 0..Len(log) /\ events[b] \in 0..Len(log)
          /\ \A i \in 1..Len(log) : i <= events[a] <=> log[i].run < index \/ OpRank(log[i].op) < A
          /\ \A i \in 1..Len(log) : i <= events[b] <=> log[i].run < index \/ OpRank(log[i].op) < B
      BY <1>2, <3>1 DEF TInv, EventState
    <3> HIDE DEF a, b, A, B
    <3>5. \A i \in 1..Len(log) : log[i].run \in 0..index
      <4> SUFFICES ASSUME NEW i \in 1..Len(log) PROVE log[i].run \in 0..index
        OBVIOUS
      <4>1. log[i] \in Entries(index)
        BY <1>1
      <4> QED
        BY <1>1, <4>1, EntryFacts
    <3>6. \A i \in 1..Len(log) : i \in J <=>
            ~(log[i].run < index \/ OpRank(log[i].op) < A)
              /\ (log[i].run < index \/ OpRank(log[i].op) < B)
      BY <1>1, <3>4
    <3>7. J \subseteq 1..Len(log)
      BY <1>1, <3>4
    <3>8. A \in Nat /\ B \in Nat
      BY <3>1 DEF EventRank, Events, A, B
    <3>9. \A i \in I : i \in 1..Len(log) /\ log[i].run = index /\ log[i].op \in Done
      BY <1>4 DEF I
    <3>10. \A o \in Done : OpRank(o) \in Nat /\ (A <= OpRank(o) /\ OpRank(o) < B <=> o.op = StageOp(s))
      <4>1. PICK w : PhaseOps \subseteq Ops({w})
        BY <2>1
      <4> SUFFICES ASSUME NEW o \in Done
                   PROVE  OpRank(o) \in Nat /\ (A <= OpRank(o) /\ OpRank(o) < B <=> o.op = StageOp(s))
        OBVIOUS
      <4>2. o \in Ops({w}) /\ o.op # "record" /\ (o.op = "download" => o.what \in {"payload", "scale"})
        BY <1>3, <2>1, <4>1
      <4>3. OpRank(o) \in Nat
        BY <4>2, OpRanks
      <4>4. EventRank[Bounds[s][1]] <= OpRank(o) /\ OpRank(o) < EventRank[Bounds[s][2]]
             <=> o.op = StageOp(s)
        BY <3>2, <4>2, StageRanks
      <4> QED
        BY <4>3, <4>4 DEF a, b, A, B
    <3>11. J = {i \in I : log[i].op.op = StageOp(s)}
      <4>1. \A i \in J : i \in I
        BY <1>1, <3>5, <3>6, <3>7 DEF I
      <4>2. \A i \in I : i \in J <=> log[i].op.op = StageOp(s)
        BY <1>1, <3>6, <3>8, <3>9, <3>10
      <4> QED
        BY <4>1, <4>2
    <3> HIDE DEF J
    <3>12. \A k \in DOMAIN x.stages[s] : x.stages[s][k].run = index
      BY <3>3, <3>9, <3>11
    <3>13. Names(x.stages[s]) = {o.op : o \in {p \in Done : p.op = StageOp(s)}}
      <4>1. Names(x.stages[s]) = {log[i].op.op : i \in J}
        BY <3>3 DEF Names
      <4> QED
        BY <1>4, <3>11, <4>1
    <3>14. Downloads(x.stages[s]) = {o.what : o \in {p \in Done : p.op = StageOp(s) /\ p.op = "download"}}
      <4>1. Downloads(x.stages[s]) = {log[i].op.what : i \in {j \in J : log[j].op.op = "download"}}
        BY <3>3 DEF Downloads
      <4> QED
        BY <1>4, <3>11, <4>1
    <3>15. StageOp(s) \in TimedWork
      BY <1>9, <3>2 DEF StageOp, TimedWork
    <3>16. Names(x.stages[s]) = {StageOp(s)}
      <4>1. \E p \in Done : p.op = StageOp(s)
        BY <1>3, <2>1, <3>15
      <4> QED
        BY <3>13, <4>1
    <3>17. ASSUME s = "d2h" PROVE Downloads(x.stages[s]) = {"payload", "scale"}
      <4>1. DownloadOp("payload") \in PhaseOps /\ DownloadOp("scale") \in PhaseOps
        BY <1>2, <1>9, <3>2, <3>17, RunWork
      <4>2. \A what : DownloadOp(what).op = "download" /\ DownloadOp(what).what = what
        BY DEF DownloadOp
      <4>3. DownloadOp("payload") \in Done /\ DownloadOp("scale") \in Done
        BY <1>3, <4>1, <4>2
      <4>4. StageOp(s) = "download"
        BY <3>17 DEF StageOp
      <4>5. Downloads(x.stages[s]) \subseteq {"payload", "scale"}
        BY <1>3, <2>1, <3>14
      <4>6. {"payload", "scale"} \subseteq Downloads(x.stages[s])
        BY <3>14, <4>2, <4>3, <4>4
      <4> QED
        BY <4>5, <4>6
    <3> QED
      BY <3>12, <3>16, <3>17
  <2>5. DOMAIN x.stages = ToSet(Stages)
    BY <1>5 DEF x
  <2>6. GoodSample(x, index)
    BY <2>2, <2>3, <2>4, <2>5 DEF GoodSample
  <2> QED
    BY <2>6 DEF x
<1> QED
  BY <1>8, <1>9

-----------------------------------------------------------------------------
(* The samples, step by step *)

\* What one operation adds to the log.
LEMMA LogGrows ==
  ASSUME IInv, DeviceStep
  PROVE  LET h == Head(stream) IN
         /\ Len(log) \in Nat /\ Len(log') \in Nat /\ Len(log) <= Len(log')
         /\ \A i \in 1..Len(log) : log'[i] = log[i]
         /\ h.op.op = "record" => Len(log') = Len(log)
         /\ h.op.op # "record" => Len(log') = Len(log) + 1 /\ log'[Len(log) + 1] = h
<1>1. log \in Seq(Entries(index))
  BY DEF IInv, WordsState
<1> DEFINE h == Head(stream)
           k == Len(log)
<1>2. log' = IF h.op.op = "record" THEN log ELSE Append(log, h)
  BY DEF DeviceStep
<1> HIDE DEF h
<1>3. k \in Nat
  BY <1>1
<1>4. CASE h.op.op = "record"
  BY <1>2, <1>3, <1>4 DEF h
<1>5. CASE h.op.op # "record"
  <2>1. log' = Append(log, h)
    BY <1>2, <1>5
  <2>2. Len(log') = k + 1 /\ log'[k + 1] = h /\ \A i \in 1..k : log'[i] = log[i]
    BY <1>1, <2>1
  <2> QED
    BY <1>3, <1>5, <2>2 DEF h
<1> QED
  BY <1>4, <1>5

\* The device does the next operation of a run, or reaches its next event.
LEMMA DeviceStepLog == ASSUME IInv, OInv, DInv, TInv, DeviceStep PROVE LogState' /\ EventState'
<1> DEFINE h == Head(stream)
           o == h.op
           k == Len(log)
<1>1. UNCHANGED <<in, pc, todo, index>>
  BY DEF DeviceStep
<1> SUFFICES ASSUME pc = "run" PROVE LogState' /\ EventState'
  BY <1>1 DEF LogState, EventState
<1>2. /\ o \in PhaseOps /\ o \in Pending /\ Pending' = Pending \ {o} /\ PhaseOps' = PhaseOps
      /\ h.run = index /\ OpRank(o) \in Nat
      /\ \A x \in PhaseOps : OpRank(o) < OpRank(x) => x \in Pending
  BY DeviceOrder DEF Working
<1>3. \A x \in PhaseOps \ Pending : OpRank(x) < OpRank(o)
  BY <1>2 DEF OInv, QueueState, Working
<1>4. /\ k \in Nat /\ Len(log') \in Nat /\ k <= Len(log')
      /\ \A i \in 1..k : log'[i] = log[i]
      /\ o.op = "record" => Len(log') = k
      /\ o.op # "record" => Len(log') = k + 1 /\ log'[k + 1] = h
  BY LogGrows
<1>5. events' = IF o.op = "record" THEN [events EXCEPT ![o.event] = Len(log)] ELSE events
  BY DEF DeviceStep
<1>6. Done = {x \in PhaseOps \ Pending : x.op # "record"}
  BY DEF TInv, LogState
<1>7. Done' = {log'[i].op : i \in {j \in 1..Len(log') : log'[j].run = index}}
  BY <1>1 DEF Done
<1>8. \A i \in 1..k : log[i].run = index => log[i].op \in Done
  BY DEF Done
<1>9. \A x \in Done : \E i \in 1..k : log[i].run = index /\ log[i].op = x
  BY DEF Done
<1>10. \A i \in 1..k : log[i].run \in Nat /\ log[i].run <= index
  <2> SUFFICES ASSUME NEW i \in 1..k PROVE log[i].run \in Nat /\ log[i].run <= index
    OBVIOUS
  <2>1. log[i] \in Entries(index) /\ index \in Nat
    BY DEF IInv, WordsState, TypeOK
  <2>2. log[i].run \in 0..index
    BY <2>1, EntryFacts
  <2> QED
    BY <2>1, <2>2
<1>11. index \in Nat /\ DOMAIN events = Events
  BY DEF IInv, TypeOK, DInv, EventsReached
<1>12. \A e \in Events : OpRank(RecordOp(e)) = EventRank[e]
  <2>1. \A e \in Events : RecordOp(e).op = "record" /\ RecordOp(e).event = e
    BY DEF RecordOp
  <2> QED
    BY <2>1 DEF OpRank
<1>13. \A e \in Events : RecordOp(e) \in PhaseOps \ Pending =>
         /\ events[e] \in 0..k
         /\ \A i \in 1..k : i <= events[e] <=> log[i].run < index \/ OpRank(log[i].op) < EventRank[e]
  BY DEF TInv, EventState
<1>14. \A e \in Events : EventRank[e] \in Nat
  BY DEF EventRank, Events
<1> HIDE DEF o, h, k
<1>15. CASE o.op = "record"
  <2>1. Len(log') = k /\ \A i \in 1..k : log'[i] = log[i]
    BY <1>4, <1>15
  <2>2. Done' = Done
    BY <1>7, <2>1 DEF Done, k
  <2>3. LogState'
    BY <1>2, <1>6, <1>15, <2>2 DEF LogState
  <2>4. PICK e0 \in Events : o = RecordOp(e0)
    <3>1. o \in Ops({WordsOf(index)})
      <4>1. stream # <<>> /\ stream \in Seq(Entries(index)) /\ index \in Nat
        BY DEF DeviceStep, IInv, WordsState, TypeOK
      <4>2. Head(stream) \in Entries(index)
        BY <4>1, HeadTailProperties
      <4> QED
        BY <1>2, <4>1, <4>2, EntryFacts DEF o, h
    <3> QED
      BY <1>15, <3>1 DEF Ops, RecordOp
  <2>5. o.event = e0 /\ events' = [events EXCEPT ![e0] = k]
    BY <1>5, <1>15, <2>4 DEF RecordOp, k
  <2>6. ASSUME NEW e \in Events, RecordOp(e) \in PhaseOps' \ Pending'
        PROVE  /\ events'[e] \in 0..Len(log')
               /\ \A i \in 1..Len(log') :
                    i <= events'[e] <=> log'[i].run < index \/ OpRank(log'[i].op) < EventRank[e]
    <3>1. CASE e = e0
      <4>1. events'[e] = k
        BY <1>11, <2>5, <3>1
      <4>2. \A i \in 1..k : log[i].run < index \/ OpRank(log[i].op) < EventRank[e]
        <5> SUFFICES ASSUME NEW i \in 1..k, ~(log[i].run < index)
                     PROVE  OpRank(log[i].op) < EventRank[e]
          OBVIOUS
        <5>1. log[i].run = index
          BY <1>10, <1>11
        <5>2. log[i].op \in PhaseOps \ Pending
          BY <1>6, <1>8, <5>1
        <5> QED
          BY <1>3, <1>12, <2>4, <3>1, <5>2
      <4> QED
        BY <1>4, <2>1, <4>1, <4>2
    <3>2. CASE e # e0
      <4>1. events'[e] = events[e]
        BY <1>11, <2>5, <3>2
      <4>2. RecordOp(e) # o
        BY <2>4, <3>2 DEF RecordOp
      <4>3. RecordOp(e) \in PhaseOps \ Pending
        BY <1>2, <2>6, <4>2
      <4> QED
        BY <1>13, <2>1, <4>1, <4>3
    <3> QED
      BY <3>1, <3>2
  <2>7. EventState'
    BY <1>1, <2>6 DEF EventState, RecordOp, EventRank, OpRank, ResultRank
  <2> QED
    BY <2>3, <2>7
<1>16. CASE o.op # "record"
  <2>1. Len(log') = k + 1 /\ log'[k + 1] = h /\ \A i \in 1..k : log'[i] = log[i]
    BY <1>4, <1>16
  <2>2. \A i \in 1..(k + 1) : i \in 1..k \/ i = k + 1
    BY <1>4
  <2>3. k + 1 \in 1..(k + 1) /\ \A i \in 1..k : i \in 1..(k + 1)
    BY <1>4
  <2>4. Done' = Done \cup {o}
    <3>1. \A x \in Done' : x \in Done \cup {o}
      BY <1>7, <1>8, <2>1, <2>2 DEF o
    <3>2. o \in Done'
      BY <1>2, <1>7, <2>1, <2>3 DEF o
    <3>3. \A x \in Done : x \in Done'
      BY <1>7, <1>9, <2>1, <2>3
    <3> QED
      BY <3>1, <3>2, <3>3
  <2>5. LogState'
    BY <1>2, <1>6, <1>16, <2>4 DEF LogState
  <2>6. events' = events
    BY <1>5, <1>16
  <2>7. ASSUME NEW e \in Events, RecordOp(e) \in PhaseOps' \ Pending'
        PROVE  /\ events'[e] \in 0..Len(log')
               /\ \A i \in 1..Len(log') :
                    i <= events'[e] <=> log'[i].run < index \/ OpRank(log'[i].op) < EventRank[e]
    <3>1. RecordOp(e) # o
      BY <1>16 DEF RecordOp
    <3>2. RecordOp(e) \in PhaseOps \ Pending
      BY <1>2, <2>7, <3>1
    <3>3. EventRank[e] < OpRank(o)
      BY <1>3, <1>12, <3>2
    <3>4. events[e] \in 0..k
      BY <1>13, <3>2
    <3>5. \A i \in 1..k : i <= events'[e] <=> log'[i].run < index \/ OpRank(log'[i].op) < EventRank[e]
      BY <1>13, <2>1, <2>6, <3>2
    <3>6. ~(k + 1 <= events'[e]) /\ ~(log'[k + 1].run < index) /\ ~(OpRank(log'[k + 1].op) < EventRank[e])
      BY <1>2, <1>4, <1>11, <1>14, <2>1, <2>6, <3>3, <3>4 DEF o
    <3> QED
      BY <1>4, <2>1, <2>2, <2>6, <3>4, <3>5, <3>6
  <2>8. EventState'
    BY <1>1, <2>7 DEF EventState, RecordOp, EventRank, OpRank, ResultRank
  <2> QED
    BY <2>5, <2>8
<1> QED
  BY <1>15, <1>16

\* A call of a run queues work or clears its event; a launch starts from nothing.
LEMMA MakeCallLog == ASSUME IInv, OInv, DInv, TInv, MakeCall PROVE LogState' /\ EventState'
<1> DEFINE c == Head(todo)
<1>1. UNCHANGED <<in, pc, log, index>> /\ todo # <<>> /\ todo \in Seq(Calls({WordsOf(index)}))
  BY CallEffects
<1> SUFFICES ASSUME pc = "run" PROVE LogState' /\ EventState'
  BY <1>1 DEF LogState, EventState
<1>2. /\ c.call \in {"enqueue", "device_sync", "launch"} /\ ~capturing
      /\ c.call # "launch" => Pending' = Pending /\ PhaseOps' = PhaseOps
      /\ c.call = "launch" =>
           /\ Pending' = PhaseOps' /\ ~Staged /\ "launch" \in Called(todo)
  BY WorkCallOrder DEF Working, OInv, GraphState
<1>3. Done' = Done
  BY <1>1 DEF Done
<1>4. Done = {x \in PhaseOps \ Pending : x.op # "record"}
  BY DEF TInv, LogState
<1>5. \A e \in Events : RecordOp(e) \in PhaseOps \ Pending =>
         /\ events[e] \in 0..Len(log)
         /\ \A i \in 1..Len(log) :
              i <= events[e] <=> log[i].run < index \/ OpRank(log[i].op) < EventRank[e]
  BY DEF TInv, EventState
<1>6. CASE c.call = "launch"
  <2>1. PhaseOps = {}
    BY <1>2, <1>6 DEF PhaseOps
  <2>2. Done' = {}
    BY <1>3, <1>4, <2>1
  <2> QED
    BY <1>2, <1>6, <2>2 DEF LogState, EventState
<1>7. CASE c.call # "launch"
  <2>1. LogState'
    BY <1>2, <1>3, <1>4, <1>7 DEF LogState
  <2>2. ASSUME NEW e \in Events, RecordOp(e) \in PhaseOps \ Pending PROVE events'[e] = events[e]
    <3>1. CASE c.call = "enqueue"
      <4>1. c.op \in Pending
        BY <1>1, <3>1, TailFacts DEF Pending
      <4>2. RecordOp(e) # c.op
        BY <2>2, <4>1
      <4>3. c.op.op = "record" => c.op.event # e
        <5>1. c.op \in Ops({WordsOf(index)})
          BY <1>1, <3>1, CallEffects, CallFacts
        <5>2. c.op.op = "record" => c.op = RecordOp(c.op.event)
          BY <5>1 DEF Ops, RecordOp
        <5> QED
          BY <4>2, <5>2
      <4>4. events' = IF c.op.op = "record" THEN [events EXCEPT ![c.op.event] = Never] ELSE events
        BY <1>2, <3>1, CallEffects
      <4>5. DOMAIN events = Events
        BY DEF DInv, EventsReached
      <4> QED
        BY <4>3, <4>4, <4>5
    <3>2. CASE c.call = "device_sync"
      BY <3>2, CallEffects
    <3> QED
      BY <1>2, <1>7, <3>1, <3>2
  <2>3. EventState'
    BY <1>1, <1>2, <1>5, <1>7, <2>2 DEF EventState, RecordOp, EventRank, OpRank, ResultRank
  <2> QED
    BY <2>1, <2>3
<1> QED
  BY <1>6, <1>7

\* A run starts with nothing done for it.
LEMMA StartRunLog == ASSUME IInv, OInv, DInv, StartRun PROVE LogState' /\ EventState'
<1> SUFFICES ASSUME pc' = "run" PROVE LogState' /\ EventState'
  BY DEF LogState, EventState
<1>1. Pending' = PhaseOps'
  BY StartRunOrder
<1>2. index' = index + 1 /\ log' = log /\ index \in Nat
  BY DEF StartRun, device, IInv, TypeOK
<1>3. \A i \in 1..Len(log) : log[i].run # index + 1
  <2> SUFFICES ASSUME NEW i \in 1..Len(log) PROVE log[i].run # index + 1
    OBVIOUS
  <2>1. log[i] \in Entries(index)
    BY DEF IInv, WordsState
  <2>2. log[i].run \in 0..index
    BY <1>2, <2>1, EntryFacts
  <2> QED
    BY <1>2, <2>2
<1>4. Done' = {}
  BY <1>2, <1>3 DEF Done
<1> QED
  BY <1>1, <1>4 DEF LogState, EventState

\* The samples of a step that takes none.
Before == {"start", "setup", "preflight", "capture"}

\* A step that takes no sample keeps their state.
LEMMA SamplesStay ==
  ASSUME IInv, DInv, SampleState, UNCHANGED <<in, samples, index>>, faulted => faulted',
         pc' \in Before => pc \in Before, pc' = "loop" => pc \in Before \cup {"loop"},
         pc' = "run" => pc = "run"
  PROVE  SampleState'
<1>1. in.warmups \in Nat /\ index \in Nat
  BY RequestFacts DEF IInv, TypeOK
<1>2. /\ samples \in Seq(ToSet(samples))
      /\ pc \in Before => samples = <<>>
      /\ pc = "loop" => Len(samples) = Measured(index)
      /\ pc = "run" => index > 0 /\ Len(samples) = Measured(index - 1)
  BY DEF SampleState, Before
<1>3. ~faulted => \A i \in 1..Len(samples) : GoodSample(samples[i], in.warmups + i)
  BY DEF SampleState
<1>4. pc \in Before => Measured(index) = Len(samples)
  <2> SUFFICES ASSUME pc \in Before PROVE Measured(index) = Len(samples)
    OBVIOUS
  <2>1. index = 0
    BY DEF DInv, EarlyIndex, Before
  <2>2. Measured(0) = 0
    BY <1>1 DEF Measured
  <2> QED
    BY <1>2, <2>1, <2>2
<1>5. \A n : Measured(n)' = Measured(n)
  BY DEF Measured
<1>6. /\ samples' \in Seq(ToSet(samples'))
      /\ pc' \in Before => samples' = <<>>
      /\ pc' = "loop" => Len(samples') = Measured(index)
      /\ pc' = "run" => index > 0 /\ Len(samples') = Measured(index - 1)
  BY <1>2, <1>4
<1>7. TimedWork' = TimedWork
  BY DEF TimedWork, Empty, Transfers
<1>8. \A x, n : GoodSample(x, n)' <=> GoodSample(x, n)
  BY <1>7 DEF GoodSample, Names, Downloads, StageOp
<1>9. ~faulted' => \A i \in 1..Len(samples') : GoodSample(samples'[i], in'.warmups + i)
  BY <1>3
<1> QED
  BY <1>5, <1>6, <1>7, <1>9 DEF SampleState, Before, GoodSample, Names, Downloads, StageOp, Measured

\* A run ends, and a measured one has its sample.
LEMMA AfterRunSamples == ASSUME IInv, OInv, DInv, TInv, AfterRun PROVE SampleState'
<1> DEFINE x == Sample
           n == Len(samples)
<1>1. /\ pc = "run" /\ todo = <<>> /\ stream = <<>> /\ in' = in /\ index' = index
  BY AfterRunOrder DEF AfterRun, Through
<1>2. in.warmups \in Nat /\ index \in Nat
  BY RequestFacts DEF IInv, TypeOK
<1>3. /\ samples \in Seq(ToSet(samples)) /\ index > 0 /\ n = Measured(index - 1) /\ n \in Nat
      /\ ~faulted => \A i \in 1..n : GoodSample(samples[i], in.warmups + i)
  BY <1>1 DEF TInv, SampleState
<1>4. ~faulted => GoodSample(x, index)
  BY <1>1, SampleIsGood
<1> HIDE DEF x
<1>5. \/ ~SampleSlot /\ samples' = samples /\ pc' = "loop" /\ UNCHANGED faulted
      \/ SampleSlot /\ samples' = Append(samples, x) /\ pc' = "loop" /\ UNCHANGED faulted
      \/ samples' = samples /\ pc' = "destroy" /\ (UNCHANGED faulted \/ faulted' = TRUE)
  BY Zenon DEF AfterRun, Continue, Leave, x
<1>6. TimedWork' = TimedWork /\ \A m : Measured(m)' = Measured(m)
  BY <1>1, SMTT(20) DEF TimedWork, Empty, Transfers, Measured
<1>7. CASE samples' = samples
  <2>1. pc' = "loop" => n = Measured(index)
    <3> SUFFICES ASSUME pc' = "loop" PROVE n = Measured(index)
      OBVIOUS
    <3>1. CASE SampleSlot
      <4>1. samples' = Append(samples, x)
        BY <1>5, <3>1
      <4>2. Len(samples') = n + 1
        BY <1>3, <4>1
      <4> QED
        BY <1>3, <1>7, <4>2
    <3>2. CASE ~SampleSlot
      BY <1>2, <1>3, <3>2 DEF SampleSlot, Measured
    <3> QED
      BY <3>1, <3>2
  <2>2. pc' \notin Before \cup {"run"}
    BY <1>5 DEF Before
  <2>3. ~faulted' => ~faulted
    BY <1>5, Zenon
  <2>4. ~faulted' => \A i \in 1..Len(samples') : GoodSample(samples'[i], in'.warmups + i)
    BY <1>1, <1>3, <1>7, <2>3
  <2> QED
    BY <1>1, <1>3, <1>6, <1>7, <2>1, <2>2, <2>4
    DEF SampleState, Before, GoodSample, Names, Downloads, StageOp
<1>8. CASE SampleSlot /\ samples' = Append(samples, x) /\ pc' = "loop" /\ UNCHANGED faulted
  <2> DEFINE S == ToSet(samples)
             s == samples'
  <2>1. s \in Seq(S \cup {x}) /\ Len(s) = n + 1 /\ s[n + 1] = x /\ \A i \in 1..n : s[i] = samples[i]
    <3>1. samples \in Seq(S \cup {x})
      BY <1>3
    <3> HIDE DEF S
    <3>2. s = Append(samples, x)
      BY <1>8
    <3> QED
      BY <3>1, <3>2, AppendProperties
  <2>2. \A i \in 1..(n + 1) : i \in 1..n \/ i = n + 1
    BY <1>3
  <2>3. S \cup {x} = ToSet(s)
    <3>1. DOMAIN s = 1..(n + 1) /\ DOMAIN samples = 1..n /\ n + 1 \in 1..(n + 1)
          /\ \A i \in 1..n : i \in 1..(n + 1)
      BY <1>3, <2>1
    <3>2. \A y \in ToSet(s) : y \in S \cup {x}
      BY <2>1, <2>2, <3>1 DEF ToSet
    <3>3. \A y \in S : y \in ToSet(s)
      BY <2>1, <3>1 DEF ToSet
    <3>4. x \in ToSet(s)
      BY <2>1, <3>1 DEF ToSet
    <3> QED
      BY <3>2, <3>3, <3>4
  <2>4. n + 1 = Measured(index) /\ in.warmups + (n + 1) = index
    <3>1. index > in.warmups
      BY <1>8 DEF SampleSlot
    <3>2. n = IF index - 1 > in.warmups THEN index - 1 - in.warmups ELSE 0
      BY <1>3 DEF Measured
    <3> HIDE DEF n
    <3> QED
      BY <1>2, <3>1, <3>2 DEF Measured
  <2>5. ~faulted' => ~faulted
    BY <1>8, Zenon
  <2>6. ~faulted' => \A i \in 1..Len(s) : GoodSample(s[i], in.warmups + i)
    BY <1>3, <1>4, <2>1, <2>2, <2>4, <2>5
  <2>7. /\ samples' \in Seq(ToSet(samples')) /\ Len(samples') = Measured(index)
    BY <2>1, <2>3, <2>4
  <2>8. ~faulted' => \A i \in 1..Len(samples') : GoodSample(samples'[i], in'.warmups + i)
    BY <1>1, <2>6
  <2>9. pc' = "loop"
    BY <1>8
  <2> QED
    BY <1>1, <1>6, <2>7, <2>8, <2>9
    DEF SampleState, Before, GoodSample, Names, Downloads, StageOp
<1> QED
  BY <1>5, <1>7, <1>8

\* A run is started, and its sample is still to come.
LEMMA StartRunSamples == ASSUME IInv, OInv, DInv, TInv, StartRun PROVE SampleState'
<1>1. /\ pc = "loop" /\ in' = in /\ index' = index + 1 /\ samples' = samples /\ UNCHANGED faulted
      /\ pc' \in {"run", "destroy"}
  BY DEF StartRun, Through, Leave, Continue
<1>2. index \in Nat /\ index + 1 - 1 = index
  BY DEF IInv, TypeOK
<1>3. /\ samples \in Seq(ToSet(samples)) /\ Len(samples) = Measured(index)
      /\ ~faulted => \A i \in 1..Len(samples) : GoodSample(samples[i], in.warmups + i)
  BY <1>1 DEF TInv, SampleState
<1>4. TimedWork' = TimedWork /\ \A m : Measured(m)' = Measured(m)
  BY <1>1 DEF TimedWork, Empty, Transfers, Measured
<1>5. ~faulted' => \A i \in 1..Len(samples') : GoodSample(samples'[i], in'.warmups + i)
  BY <1>1, <1>3, Zenon
<1>6. /\ samples' \in Seq(ToSet(samples'))
      /\ pc' = "run" => index' > 0 /\ Len(samples') = Measured(index' - 1)
  BY <1>1, <1>2, <1>3
<1> QED
  BY <1>1, <1>4, <1>5, <1>6
  DEF SampleState, Before, GoodSample, Names, Downloads, StageOp, Measured

\* Only the end of a run takes a sample.
LEMMA HostTime == ASSUME IInv, OInv, DInv, TInv, Host PROVE TInv'
<1>1. SampleState
  BY DEF TInv
<1>2. CASE MakeCall
  <2>1. UNCHANGED <<in, samples, index, pc>>
    BY <1>2, CallEffects
  <2>2. faulted => faulted'
    <3>1. UNCHANGED faulted \/ faulted' = TRUE
      BY <1>2 DEF MakeCall
    <3> QED
      BY <3>1, Zenon
  <2>3. SampleState'
    BY <1>1, <2>1, <2>2, SamplesStay
  <2> QED
    BY <1>2, <2>3, MakeCallLog DEF TInv
<1>3. CASE StartRun
  BY <1>3, StartRunLog, StartRunSamples DEF TInv
<1>4. CASE AfterRun
  <2>1. pc' # "run"
    BY <1>4, Zenon DEF AfterRun, Continue, Leave
  <2>2. LogState' /\ EventState'
    BY <2>1 DEF LogState, EventState
  <2> QED
    BY <1>4, <2>2, AfterRunSamples DEF TInv
<1>5. CASE Start \/ AfterSetup \/ AfterPreflight \/ AfterCapture \/ AfterLoop \/ AfterReadback \/ Destroy
  <2>1. /\ UNCHANGED <<in, samples, index>> /\ UNCHANGED faulted
        /\ pc' # "run"
        /\ pc' \in Before => pc \in Before
        /\ pc' = "loop" => pc \in Before \cup {"loop"}
    <3>1. CASE Start
      BY <3>1 DEF Start, Before
    <3>2. CASE AfterSetup
      BY <3>2 DEF AfterSetup, Before, Through, Continue
    <3>3. CASE AfterPreflight
      BY <3>3 DEF AfterPreflight, Before, Through, Continue, Leave
    <3>4. CASE AfterCapture \/ AfterLoop \/ AfterReadback
      BY <3>4 DEF AfterCapture, AfterLoop, AfterReadback, Before, Through, Continue, Leave
    <3>5. CASE Destroy
      BY <3>5 DEF Destroy, Before
    <3> QED
      BY <1>5, <3>1, <3>2, <3>3, <3>4, <3>5
  <2>2. faulted => faulted'
    BY <2>1, Zenon
  <2>3. SampleState'
    BY <1>1, <2>1, <2>2, SamplesStay
  <2>4. LogState' /\ EventState'
    BY <2>1 DEF LogState, EventState
  <2> QED
    BY <2>3, <2>4 DEF TInv
<1> QED
  BY <1>2, <1>3, <1>4, <1>5 DEF Host

\* Neither a failed call nor the device does.
LEMMA OtherTime ==
  ASSUME IInv, OInv, DInv, TInv, CallFails \/ DeviceStep \/ PoisonLands
  PROVE  TInv'
<1>1. SampleState
  BY DEF TInv
<1>2. CASE CallFails
  <2>1. UNCHANGED <<in, samples, index>> /\ pc' = "destroy" /\ faulted'
    BY <1>2 DEF CallFails
  <2>2. SampleState'
    BY <1>1, <2>1, SamplesStay DEF Before
  <2>3. LogState' /\ EventState'
    BY <2>1 DEF LogState, EventState
  <2> QED
    BY <2>2, <2>3 DEF TInv
<1>3. CASE DeviceStep
  <2>1. UNCHANGED <<in, samples, index, pc>> /\ UNCHANGED faulted
    BY <1>3 DEF DeviceStep
  <2>2. faulted => faulted'
    BY <2>1, Zenon
  <2>3. SampleState'
    BY <1>1, <2>1, <2>2, SamplesStay
  <2> QED
    BY <1>3, <2>3, DeviceStepLog DEF TInv
<1>4. CASE PoisonLands
  <2>1. UNCHANGED <<in, samples, index, pc>> /\ UNCHANGED faulted /\ dma # {}
    BY <1>4 DEF PoisonLands
  <2>2. faulted => faulted'
    BY <2>1, Zenon
  <2>3. SampleState'
    BY <1>1, <2>1, <2>2, SamplesStay
  <2>4. pc # "run"
    BY <2>1 DEF OInv, GraphState
  <2>5. LogState' /\ EventState'
    BY <2>1, <2>4 DEF LogState, EventState
  <2> QED
    BY <2>3, <2>5 DEF TInv
<1> QED
  BY <1>2, <1>3, <1>4

\* Nor a step that changes nothing.
LEMMA StutterTime == ASSUME IInv, OInv, DInv, TInv, UNCHANGED vars PROVE TInv'
<1>1. /\ UNCHANGED <<in, pc, samples, index, log, todo, stream, graph, events>> /\ UNCHANGED faulted
  BY DEF vars
<1>2. faulted => faulted'
  BY <1>1, Zenon
<1>3. SampleState'
  BY <1>1, <1>2, SamplesStay DEF TInv
<1>4. Called(todo)' = Called(todo)
  BY <1>1 DEF Called
<1>5. Pending' = Pending /\ PhaseOps' = PhaseOps /\ Done' = Done
  BY <1>1, <1>4, PhaseStays DEF Pending, Queued, Asked, Done
<1>6. LogState'
  BY <1>1, <1>5 DEF TInv, LogState
<1>7. EventState'
  BY <1>1, <1>5 DEF TInv, EventState, RecordOp, EventRank, OpRank, ResultRank
<1> QED
  BY <1>3, <1>6, <1>7 DEF TInv

\* What the log, the events and the samples hold at every step: the log has the
\* part of the run that is done, and an event that has been reached separates
\* what comes before it from the rest.
THEOREM TimeInvariance == Spec => []TInv
<1>1. Init => TInv
  <2> SUFFICES ASSUME Init PROVE TInv
    OBVIOUS
  <2>1. pc = "start" /\ samples = <<>>
    BY DEF Init
  <2>2. LogState /\ EventState
    BY <2>1 DEF LogState, EventState
  <2>3. SampleState
    BY <2>1 DEF SampleState
  <2> QED
    BY <2>2, <2>3 DEF TInv
<1>2. IInv /\ OInv /\ DInv /\ TInv /\ [Next]_vars => TInv'
  <2> SUFFICES ASSUME IInv, OInv, DInv, TInv, [Next]_vars PROVE TInv'
    OBVIOUS
  <2>1. CASE UNCHANGED vars
    BY <2>1, StutterTime
  <2>2. CASE Next
    BY <2>2, HostTime, OtherTime DEF Next
  <2> QED
    BY <2>1, <2>2
<1> QED
  BY <1>1, <1>2, Invariance, OrderInvariance, DataInvariance, PTL DEF Spec

\* Every sample's wall time covers its own run, all of it, and each stage time
\* exactly its kernel or its copies of that run: run_bench_pipeline and the
\* timing of sq_cuda_bench, for any number of warm-ups and repetitions.
THEOREM SamplesCoverTheirRunHolds == Spec => []SamplesCoverTheirRun
<1>1. TInv => SamplesCoverTheirRun
  <2> SUFFICES ASSUME TInv, ~faulted, NEW i \in DOMAIN samples
               PROVE  /\ Names(samples[i].wall) = TimedWork
                      /\ Downloads(samples[i].wall) \subseteq {"payload", "scale"}
                      /\ \A s \in DOMAIN samples[i].stages :
                           /\ \A k \in DOMAIN samples[i].stages[s] :
                                samples[i].stages[s][k].run = in.warmups + i
                           /\ Names(samples[i].stages[s]) =
                                {CASE s = "h2d" -> "upload" [] s = "d2h" -> "download"
                                   [] OTHER -> s}
                           /\ s = "d2h" => Downloads(samples[i].stages[s]) = {"payload", "scale"}
    BY DEF SamplesCoverTheirRun
  <2>1. samples \in Seq(ToSet(samples))
    BY DEF TInv, SampleState
  <2>2. i \in 1..Len(samples)
    BY <2>1
  <2>3. GoodSample(samples[i], in.warmups + i)
    BY <2>2 DEF TInv, SampleState
  <2> QED
    BY <2>3 DEF GoodSample, StageOp
<1> QED
  BY <1>1, TimeInvariance, PTL
=============================================================================
