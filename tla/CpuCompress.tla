----------------------------- MODULE CpuCompress -----------------------------
(***************************************************************************)
(* sq_cpu_compress on the AVX2 backend: a sequence of OpenMP parallel      *)
(* regions (largest magnitude, block sums, random words, encoding), each   *)
(* joined by its implicit barrier, with the sequential steps in between,   *)
(* in a workspace that earlier calls have left behind.  The scalar backend *)
(* is the reference: ScalarResult is what it returns for the same input.   *)
(*                                                                         *)
(* A magnitude is a natural number, or NonFinite; the code of an element   *)
(* is named by the element, its random word and nothing else; a sum is the *)
(* tree of its additions (ScaleTree).  The SIMD loops inside one block are *)
(* one step.                                                               *)
(*                                                                         *)
(* An operator defined just before another one and named after it is a     *)
(* seeded fault; PROJECT.json says which property catches it.              *)
(***************************************************************************)
EXTENDS ScaleTree

CONSTANTS
  Threads,     \* num_threads(threads)
  ChunkWords,  \* random words per Philox chunk (256 in the code)
  NonFinite,   \* larger than every finite magnitude
  Inputs,      \* requests: see Request
  OldCounts    \* element counts of an earlier call on the same workspace

\* One request: the magnitudes, the bit width, the prescribed scale and
\* words, whether the identifiers fit 32 bits, whether max * root overflows.
Request(i) ==
  /\ DOMAIN i = {"count", "values", "bits", "given", "givenWords", "idsFit",
                 "overflows"}
  /\ i.count \in Nat
  /\ i.values \in [0..(i.count - 1) -> 0..NonFinite]
  /\ i.bits \in {4, 8}
  /\ i.given \in {"none", "zero", "positive", "invalid"}
  /\ {i.givenWords, i.idsFit, i.overflows} \subseteq BOOLEAN

ASSUME CpuCompressAssumption ==
  /\ Threads \in Nat \ {0}
  /\ ChunkWords \in Nat \ {0}
  /\ NonFinite \in Nat \ {0}
  /\ OldCounts \subseteq Nat
  /\ \A i \in Inputs : Request(i)

VARIABLES
  in,        \* the request
  pc,        \* control point of the calling thread
  status,    \* what the call returns
  scale,     \* the scale, symbolically
  hasHeader, \* the record's header has been written
  result,    \* the shared maximum of the region that computes it
  partials,  \* workspace->scale_partials
  words,     \* workspace->generated_words
  payload,   \* the record's payload
  team,      \* omp_get_num_threads() of the current region
  at,        \* at[t]: the next item of thread t in the current region
  wrote      \* shared locations written in this region, with their writers

count == in.count
region == <<team, at, wrote>>
workspace == <<partials, words>>
vars == <<in, pc, status, scale, hasHeader, result, workspace, payload, region>>

Junk == [junk |-> 0]
Zero == [zero |-> 0]
Positive == [given |-> 1]
Invalid == [given |-> 2]
Center == [center |-> 0]
Nothing == [none |-> 0]
Word(i) == [word |-> i]
WordsOf(n) == [i \in 0..(n - 1) |-> Word(i)]
Code(i, w) == [element |-> i, word |-> w]
Pair(lo, hi) == [lo |-> lo, hi |-> hi]
Scale(max, tree) == [max |-> max, tree |-> tree]
Given(g) == CASE g = "zero" -> Zero [] g = "positive" -> Positive [] g = "invalid" -> Invalid

Larger(a, b) == IF a > b THEN a ELSE b
Largest(values, from, to) ==
  LET max[i \in from..to] == IF i = from THEN 0 ELSE Larger(max[i - 1], values[i - 1])
  IN IF to <= from THEN 0 ELSE max[to]

Slots(n, bits) == IF bits = 8 THEN n ELSE (n + 1) \div 2
Chunks == (count + ChunkWords - 1) \div ChunkWords

-----------------------------------------------------------------------------
(* The scalar backend *)

\* What slot k holds when element i is encoded with word[i].
SlotValue(n, bits, k, word) ==
  IF bits = 8 THEN Code(k, word[k])
  ELSE Pair(Code(2 * k, word[2 * k]),
            IF 2 * k + 1 < n THEN Code(2 * k + 1, word[2 * k + 1]) ELSE Nothing)
CenterValue(n, bits, k) ==
  IF bits = 8 THEN Center
  ELSE Pair(Center, IF 2 * k + 1 < n THEN Center ELSE Nothing)

\* sq_compute_scale_with_workspace.
ScalarScale(i) ==
  LET n == i.count
      max == Largest(i.values, 0, n)
      bits == PaddedBits(n)
      sums == [b \in 0..(2 ^ bits - 1) |->
                 IF b < Blocks(n) THEN ReduceBlock(n, b) ELSE PadTerm]
  IN IF n = 0 \/ max = 0 THEN [status |-> "OK", scale |-> Zero]
     ELSE IF max >= NonFinite THEN [status |-> "NONFINITE", scale |-> Zero]
     ELSE IF i.overflows THEN [status |-> "SCALE_OVERFLOW", scale |-> Zero]
     ELSE [status |-> "OK", scale |-> Scale(max, AdjacentTree(sums, bits))]

\* sq_header_encode and sq_encode_payload on that scale.
ScalarEncode(i, s) ==
  LET n == i.count
      max == Largest(i.values, 0, n)
      fail(e) == [status |-> e, scale |-> Nothing, payload |-> <<>>]
      ok(f) == [status |-> "OK", scale |-> s, payload |-> f]
  IN IF s = Invalid \/ (n = 0 /\ s # Zero) THEN fail("SCALE")
     ELSE IF max >= NonFinite THEN fail("NONFINITE")
     ELSE IF (max = 0) # (s = Zero) THEN fail("SCALE")
     ELSE ok([k \in 0..(Slots(n, i.bits) - 1) |->
                IF s = Zero THEN CenterValue(n, i.bits, k)
                ELSE SlotValue(n, i.bits, k, WordsOf(n))])

\* sq_cpu_compress on SQ_BACKEND_CPU.
ScalarResult(i) ==
  LET sc == IF i.given = "none" THEN ScalarScale(i)
            ELSE [status |-> "OK", scale |-> Given(i.given)]
  IN IF sc.status # "OK" THEN [status |-> sc.status, scale |-> Nothing, payload |-> <<>>]
     ELSE IF ~i.givenWords /\ ~i.idsFit
     THEN [status |-> "ID_OVERFLOW", scale |-> Nothing, payload |-> <<>>]
     ELSE ScalarEncode(i, sc.scale)

-----------------------------------------------------------------------------
(* The AVX2 backend *)

\* Arrays as an earlier call on n elements has left them.
Left(n) == [i \in 0..(n - 1) |-> Junk]

Init ==
  /\ in \in Inputs
  /\ pc = "reserve" /\ status = "OK" /\ scale = Nothing /\ hasHeader = FALSE
  /\ result = 0
  /\ \E n \in OldCounts : partials = Left(WorkspaceElements(n)) /\ words = Left(n)
  /\ payload = Left(Slots(count, in.bits))
  /\ team = 0 /\ at = [t \in {} |-> 0] /\ wrote = {}

Return(e) == pc' = "done" /\ status' = e
Goto(l) == pc' = l /\ UNCHANGED status

\* sq_cpu_compress_workspace_reserve: each array grows when it is too small;
\* the second allocation may fail after the first has grown.
Size(a) == IF DOMAIN a = {} THEN 0 ELSE 1 + CHOOSE i \in DOMAIN a : \A j \in DOMAIN a : j <= i
GrownNever(a, n) == a
Grown(a, n) == IF n > Size(a) THEN Left(n) ELSE a
Reserve ==
  /\ pc = "reserve"
  /\ \/ /\ words' = Grown(words, count)
        /\ partials' = Grown(partials, WorkspaceElements(count))
        /\ Goto("scale")
     \/ /\ count > Size(words)
        /\ UNCHANGED workspace
        /\ Return("MEMORY")
     \/ /\ WorkspaceElements(count) > Size(partials)
        /\ words' = Grown(words, count) /\ UNCHANGED partials
        /\ Return("MEMORY")
  /\ UNCHANGED <<in, scale, hasHeader, result, payload, region>>

-----------------------------------------------------------------------------
(* Parallel regions *)

\* The items of thread t: blocks, chunks or elements; one item stands for the
\* whole share in the regions that compute the maximum.
Begin(r, t, n) ==
  CASE r \in {"max_scale", "max_encode"} -> 0
    [] r = "sum" -> SplitBegin(Blocks(count), t, n)
    [] r = "words" -> SplitBegin(Chunks, t, n)
    [] r = "encode" -> UnitBegin(count, t, n)
End(r, t) ==
  CASE r \in {"max_scale", "max_encode"} -> 1
    [] r = "sum" -> SplitEnd(Blocks(count), t, team)
    [] r = "words" -> SplitEnd(Chunks, t, team)
    [] r = "encode" -> UnitEnd(count, t, team)
Team == DOMAIN at

\* #pragma omp parallel num_threads(threads): the runtime may give fewer.
Enter(r) ==
  /\ Goto(r)
  /\ \E n \in 1..Threads :
       /\ team' = n
       /\ at' = [t \in 0..(n - 1) |-> Begin(r, t, n)]
  /\ wrote' = {}

\* The barrier at the end of region r.
JoinedExactly(r) == pc = r /\ \A t \in Team : at[t] = End(r, t)
Joined(r) == pc = r /\ \A t \in Team : at[t] >= End(r, t)

\* One item of thread t: the locations it writes are recorded.
Works(r, t) == pc = r /\ at[t] < End(r, t)
Advance(t, by, locations) ==
  /\ at' = [at EXCEPT ![t] = @ + by]
  /\ wrote' = wrote \cup (locations \X {t})
  /\ UNCHANGED <<in, pc, status, scale, hasHeader, team>>

\* max_magnitude_bits: the share is scanned into a local, then merged under
\* the critical section.
Merged(local) == Larger(result, local)
MaxShare(r, t) ==
  /\ Works(r, t)
  /\ result' = Merged(Largest(in.values, UnitBegin(count, t, team), UnitEnd(count, t, team)))
  /\ Advance(t, 1, {})
  /\ UNCHANGED <<workspace, payload>>

\* partials[reverse_bits(b, padded_bits)] = block_sum(...).
SumBlock(t) ==
  /\ Works("sum", t)
  /\ LET slot == ReverseBits(at[t], PaddedBits(count)) IN
     /\ partials' = [partials EXCEPT ![slot] = BlockSum(count, at[t])]
     /\ Advance(t, 1, {slot})
  /\ UNCHANGED <<result, words, payload>>

\* One Philox chunk; the last one goes through a local tail buffer.
ChunkSlots(c) == (c * ChunkWords)..(Smaller((c + 1) * ChunkWords, count) - 1)
FillChunk(t) ==
  /\ Works("words", t)
  /\ words' = [i \in DOMAIN words |->
                 IF i \in ChunkSlots(at[t]) THEN Word(i) ELSE words[i]]
  /\ Advance(t, 1, ChunkSlots(at[t]))
  /\ UNCHANGED <<result, partials, payload>>

\* encode_range: one block of codes, packed two to a byte for 4 bits.
EncodedWords == IF in.givenWords THEN WordsOf(count) ELSE words
BlockSlots(base, n) ==
  IF in.bits = 8 THEN base..(base + n - 1)
  ELSE (base \div 2)..(base \div 2 + (n + 1) \div 2 - 1)
EncodeBlock(t) ==
  /\ Works("encode", t)
  /\ LET base == at[t]
         n == Smaller(End("encode", t) - base, BLOCK)
         slots == BlockSlots(base, n)
     IN /\ payload' = [k \in DOMAIN payload \cup slots |->
                         IF k \in slots THEN SlotValue(base + n, in.bits, k, EncodedWords)
                         ELSE payload[k]]
        /\ Advance(t, BLOCK, slots)
  /\ UNCHANGED <<result, workspace>>

Work(t) ==
  \/ MaxShare("max_scale", t) \/ MaxShare("max_encode", t)
  \/ SumBlock(t) \/ FillChunk(t) \/ EncodeBlock(t)

-----------------------------------------------------------------------------
(* The calling thread between the regions *)

\* The prescribed scale, or sq_avx2_compute_scale_with_workspace, which
\* starts with the maximum.
StartScale ==
  /\ pc = "scale"
  /\ \/ /\ in.given # "none"
        /\ scale' = Given(in.given) /\ Goto("ids") /\ UNCHANGED <<result, region>>
     \/ /\ in.given = "none" /\ count = 0
        /\ scale' = Zero /\ Goto("ids") /\ UNCHANGED <<result, region>>
     \/ /\ in.given = "none" /\ count # 0
        /\ result' = 0 /\ Enter("max_scale") /\ UNCHANGED scale
  /\ UNCHANGED <<in, hasHeader, workspace, payload>>

\* Non-finite and all-zero inputs, the capacity check, then the cleared
\* partials and the block sums.
Cleared(a, n) == [i \in DOMAIN a |-> IF i < n THEN PadTerm ELSE a[i]]
AfterMax ==
  /\ Joined("max_scale")
  /\ LET padded == WorkspaceElements(count) IN
     IF result >= NonFinite
     THEN Return("NONFINITE") /\ UNCHANGED <<scale, partials, region>>
     ELSE IF result = 0
     THEN scale' = Zero /\ Goto("ids") /\ UNCHANGED <<partials, region>>
     ELSE IF Size(partials) < padded
     THEN Return("ARGUMENT") /\ UNCHANGED <<scale, partials, region>>
     ELSE /\ partials' = Cleared(partials, padded)
          /\ Enter("sum") /\ UNCHANGED scale
  /\ UNCHANGED <<in, hasHeader, result, words, payload>>

\* halves_tree overwrites the partials; then max_abs * sqrtf(partials[0]).
AfterSum ==
  /\ Joined("sum")
  /\ partials' = [i \in DOMAIN partials |-> Junk]
  /\ IF in.overflows THEN Return("SCALE_OVERFLOW") /\ UNCHANGED scale
     ELSE LET used == [i \in 0..(WorkspaceElements(count) - 1) |-> partials[i]] IN
          /\ scale' = Scale(result, HalvesTree(used, PaddedBits(count)))
          /\ Goto("ids")
  /\ UNCHANGED <<in, hasHeader, result, words, payload, region>>

\* sq_rng_stream_init, then the words, unless they are prescribed.
StartWords ==
  /\ pc = "ids"
  /\ IF in.givenWords THEN Goto("header") /\ UNCHANGED region
     ELSE IF in.idsFit THEN Enter("words")
     ELSE Return("ID_OVERFLOW") /\ UNCHANGED region
  /\ UNCHANGED <<in, scale, hasHeader, result, workspace, payload>>
AfterWords ==
  /\ Joined("words")
  /\ Goto("header")
  /\ UNCHANGED <<in, scale, hasHeader, result, workspace, payload, region>>

\* sq_header_encode writes the header, before the payload is known to be
\* encodable.
Header ==
  /\ pc = "header"
  /\ IF scale = Invalid \/ (count = 0 /\ scale # Zero)
     THEN Return("SCALE") /\ UNCHANGED hasHeader
     ELSE Goto("prologue") /\ hasHeader' = TRUE
  /\ UNCHANGED <<in, scale, result, workspace, payload, region>>

\* sq_encode_payload_prologue, first half: nothing to encode, or the scan.
Prologue ==
  /\ pc = "prologue"
  /\ IF count = 0 THEN Return("OK") /\ UNCHANGED <<result, region>>
     ELSE result' = 0 /\ Enter("max_encode")
  /\ UNCHANGED <<in, scale, hasHeader, workspace, payload>>

\* Its second half: the scale must fit the input; a zero scale fills the
\* payload with center codes.
AfterScan ==
  /\ Joined("max_encode")
  /\ IF result >= NonFinite THEN Return("NONFINITE") /\ UNCHANGED <<payload, region>>
     ELSE IF (result = 0) # (scale = Zero) THEN Return("SCALE") /\ UNCHANGED <<payload, region>>
     ELSE IF scale = Zero
     THEN /\ payload' = [k \in DOMAIN payload |-> CenterValue(count, in.bits, k)]
          /\ Return("OK") /\ UNCHANGED region
     ELSE Enter("encode") /\ UNCHANGED payload
  /\ UNCHANGED <<in, scale, hasHeader, result, workspace>>

AfterEncode ==
  /\ Joined("encode")
  /\ Return("OK")
  /\ UNCHANGED <<in, scale, hasHeader, result, workspace, payload, region>>

Caller ==
  \/ Reserve \/ StartScale \/ AfterMax \/ AfterSum \/ StartWords \/ AfterWords
  \/ Header \/ Prologue \/ AfterScan \/ AfterEncode

Next == Caller \/ \E t \in Team : Work(t)

Spec == Init /\ [][Next]_vars
\* Every thread of the team is scheduled.
FairSpec ==
  /\ Spec
  /\ WF_vars(Caller)
  /\ \A t \in 0..(Threads - 1) : WF_vars(t \in Team /\ Work(t))

-----------------------------------------------------------------------------
(* Properties *)

\* quantizer_avx2.c, "Every float operation matches quantizer.c one for one":
\* whatever the team sizes and the interleaving, the AVX2 call returns the
\* scalar call's status and, when that is SQ_OK, its scale with the same
\* additions in the same order, and its payload byte for byte.
MatchesScalar ==
  pc = "done" /\ status # "MEMORY" =>
    LET expected == ScalarResult(in) IN
    /\ status = expected.status
    /\ status = "OK" => /\ hasHeader
                        /\ scale = expected.scale
                        /\ payload = expected.payload

\* "so 4-bit pairs never straddle threads": no two threads of a region write
\* the same float, word or byte, and the workspace, grown or not, is large
\* enough for every index they use.
NoSharedWrite ==
  /\ \A a, b \in wrote : a[1] = b[1] => a[2] = b[2]
  /\ pc \in {"sum", "words"} => {w[1] : w \in wrote} \subseteq
       (IF pc = "sum" THEN DOMAIN partials ELSE DOMAIN words)
  /\ pc \notin {"reserve", "done"} =>
       /\ count <= Size(words)
       /\ WorkspaceElements(count) <= Size(partials)

\* The call returns: no region waits for a thread that has nothing to do.
CallReturns == <>(pc = "done")
=============================================================================
