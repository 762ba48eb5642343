------------------------------ MODULE CudaScale ------------------------------
(***************************************************************************)
(* K1 of quantizer_cuda.cu, the scale of a non-empty input, in both        *)
(* variants: launch_k1's kernels one after the other on the stream, and in *)
(* each kernel the thread blocks (or warps) in any order, each walking its *)
(* share of the work with the stride of the grid, in buffers that hold     *)
(* whatever an earlier run left there.                                     *)
(*                                                                         *)
(* As in ScaleTree a sum is the tree of its additions.  A maximum is the   *)
(* set of elements it has looked at.  Sizes are scaled down: SQ_CUDA_WARP, *)
(* float4, SQ_CUDA_K1_TREE_SPAN and the grid limits are constants.         *)
(*                                                                         *)
(* An operator defined just before another one and named after it is a     *)
(* seeded fault; PROJECT.json says which property catches it.              *)
(***************************************************************************)
EXTENDS ScaleTree, Integers

CONSTANTS
  LaneBits,     \* a lane sums 2^LaneBits leaves (3 in the code)
  SpanBits,     \* SQ_CUDA_K1_TREE_SPAN is 2^SpanBits (11 in the code)
  Vector,       \* floats per vector load (4 in the code)
  MaxGrid,      \* SQ_CUDA_MAX_GRID_SIZE
  MaxAutoGrid,  \* SQ_CUDA_K1_MAX_AUTO_GRID
  Counts, Grids \* element counts, and --grid-size values (0: automatic)

ASSUME CudaScaleAssumption ==
  /\ LaneBits \in 1..BlockBits /\ SpanBits \in Nat \ {0}
  /\ {Vector, MaxGrid, MaxAutoGrid} \subseteq Nat \ {0}
  /\ Counts \subseteq Nat \ {0} /\ Grids \subseteq 0..MaxGrid

VARIABLES
  in,      \* count, grid size, variant; skip: all zero or not finite
  kernel,  \* the kernel that runs
  at,      \* at[w]: the next item of worker w, a block or a warp
  max,     \* workspace->max_partials; -1 stands for an earlier run's
  sums,    \* sums_a and sums_b
  input,   \* which of the two the tree kernels read
  active,  \* log2 of the number of sums left
  scale,   \* *device_scale
  reads, writes  \* locations of sums used by this kernel, with the worker

vars == <<in, kernel, at, max, sums, input, active, scale, reads, writes>>

count == in.count
Optimized == in.variant = "optimized"
Ceil(n, d) == n \div d + (IF n % d # 0 THEN 1 ELSE 0)
Junk == [junk |-> 0]
Other(buffer) == IF buffer = "a" THEN "b" ELSE "a"

-----------------------------------------------------------------------------
(* Launch geometry *)

Threads == BLOCK
Warps == 2 ^ LaneBits                   \* per block: Threads / SQ_CUDA_WARP
Lanes == 2 ^ (BlockBits - LaneBits)     \* SQ_CUDA_WARP
PaddedCount == 2 ^ PaddedBits(count)

\* sq_cuda_automatic_grid.
AutomaticGrid(work, size) == Smaller(Ceil(work, size), MaxGrid)
\* The optimized maximum keeps one partial per thread block, and the buffer
\* holds Blocks(count) of them.
ClampedNot(grid) == grid
Clamped(grid) == Smaller(grid, Blocks(count))
MaxGridSize ==
  IF ~Optimized THEN IF in.grid > 0 THEN in.grid ELSE Smaller(Blocks(count), MaxGrid)
  ELSE Clamped(IF in.grid > 0 THEN in.grid
               ELSE Smaller(AutomaticGrid(Ceil(count, Vector), Threads * 2), MaxAutoGrid))
SumGrid ==
  IF in.grid > 0 THEN in.grid
  ELSE IF Optimized THEN AutomaticGrid(PaddedCount, Warps) ELSE Smaller(PaddedCount, MaxGrid)

\* One tree launch: a level of pairs, or up to SpanBits levels at once.
Levels == IF Optimized THEN Smaller(active, SpanBits) ELSE 1
Outputs == 2 ^ (active - Levels)
TreeGrid == IF in.grid > 0 THEN in.grid
            ELSE IF Optimized THEN AutomaticGrid(Outputs, 1) ELSE AutomaticGrid(Outputs, Threads)

\* The workers of a kernel and its items; an item of the pairs kernel is one
\* iteration of a thread block.
Workers(k) ==
  CASE k = "max" -> MaxGridSize
    [] k = "sum" -> IF Optimized THEN SumGrid * Warps ELSE SumGrid
    [] k = "tree" -> TreeGrid
    [] k \in {"reduce_max", "finish"} -> 1
    [] k = "done" -> 0
Items(k) ==
  CASE k = "max" -> IF Optimized THEN MaxGridSize ELSE Blocks(count)
    [] k = "sum" -> PaddedCount
    [] k = "tree" -> IF Optimized THEN Outputs ELSE Ceil(Outputs, Threads)
    [] k \in {"reduce_max", "finish"} -> 1
    [] k = "done" -> 0

-----------------------------------------------------------------------------
(* What the kernels compute *)

\* max_vector_kernel: the vectors of one block with the grid's stride, and
\* the tail, one element per thread.
Vectors == count \div Vector
ScannedByVectors(b) ==
  {e \in 0..(count - 1) :
     \/ /\ e < Vectors * Vector
        /\ ((e \div Vector) % (MaxGridSize * Threads)) \div Threads = b
     \/ /\ e >= Vectors * Vector
        /\ (e - Vectors * Vector) \div Threads = b}
Scanned(item) ==
  IF Optimized THEN ScannedByVectors(item)
  ELSE (item * BLOCK)..(Smaller((item + 1) * BLOCK, count) - 1)

\* Levels of adjacent pairs, from one array into another.
PairsTree(terms, bits) ==
  LET level[k \in 0..bits] ==
        IF k = 0 THEN terms
        ELSE [i \in 0..(2 ^ (bits - k) - 1) |->
                Add(level[k - 1][2 * i], level[k - 1][2 * i + 1])]
  IN level[bits][0]

\* sum_warps_kernel: a lane adds its leaves, shuffles add the lanes; a
\* shuffle from beyond the warp returns the lane's own value.
WarpTreeHalves(terms) ==
  LET lane[k \in 0..(BlockBits - LaneBits)] ==
        IF k = 0
        THEN [l \in 0..(Lanes - 1) |->
                PairsTree([j \in 0..(2 ^ LaneBits - 1) |-> terms[l * 2 ^ LaneBits + j]], LaneBits)]
        ELSE LET offset == 2 ^ (BlockBits - LaneBits - k) IN
             [l \in 0..(Lanes - 1) |->
                Add(lane[k - 1][l], lane[k - 1][IF l + offset < Lanes THEN l + offset ELSE l])]
  IN lane[BlockBits - LaneBits][0]
WarpTree(terms) ==
  LET lane[k \in 0..(BlockBits - LaneBits)] ==
        IF k = 0
        THEN [l \in 0..(Lanes - 1) |->
                PairsTree([j \in 0..(2 ^ LaneBits - 1) |-> terms[l * 2 ^ LaneBits + j]], LaneBits)]
        ELSE LET offset == 2 ^ (k - 1) IN
             [l \in 0..(Lanes - 1) |->
                Add(lane[k - 1][l], lane[k - 1][IF l + offset < Lanes THEN l + offset ELSE l])]
  IN lane[BlockBits - LaneBits][0]

SumOf(item) ==
  LET terms == [i \in 0..(BLOCK - 1) |-> Term(count, item * BLOCK + i)] IN
  IF in.skip \/ item >= Blocks(count) THEN PadTerm
  ELSE IF Optimized THEN WarpTree(terms) ELSE PairsTree(terms, BlockBits)

\* Outputs of a tree item, and the inputs of one output.
TreeOutputs(item) ==
  IF Optimized THEN {item} ELSE (item * Threads)..(Smaller((item + 1) * Threads, Outputs) - 1)
TreeInputs(o) == (o * 2 ^ Levels)..((o + 1) * 2 ^ Levels - 1)

-----------------------------------------------------------------------------
(* The launches *)

Enter(k) ==
  /\ kernel' = k /\ at' = [w \in 0..(Workers(k)' - 1) |-> w]
  /\ reads' = {} /\ writes' = {}
Init ==
  /\ in \in [count : Counts, grid : Grids, variant : {"reference", "optimized"},
             skip : BOOLEAN]
  /\ kernel = "max" /\ at = [w \in 0..(Workers("max") - 1) |-> w]
  /\ max = [b \in 0..(Blocks(count) - 1) |-> {-1}]
  /\ sums = [buffer \in {"a", "b"} |-> [i \in 0..(PaddedCount - 1) |-> Junk]]
  /\ input = "a" /\ active = PaddedBits(count)
  /\ scale = Junk /\ reads = {} /\ writes = {}

\* Worker w takes its next item.
Works(k, w) == kernel = k /\ at[w] < Items(k)
Advance(w) ==
  /\ at' = [at EXCEPT ![w] = @ + Workers(kernel)]
  /\ UNCHANGED <<in, kernel, input, active>>

MaxItem(w) ==
  /\ Works("max", w)
  /\ max' = [b \in DOMAIN max \cup {at[w]} |-> IF b = at[w] THEN Scanned(b) ELSE max[b]]
  /\ Advance(w) /\ UNCHANGED <<sums, scale, reads, writes>>
\* reduce_max_kernel reads one partial per block of the kernel before.
ReduceMax(w) ==
  /\ Works("reduce_max", w)
  /\ scale' = [max |-> UNION {max[b] : b \in 0..(Items("max") - 1)}]
  /\ Advance(w) /\ UNCHANGED <<max, sums, reads, writes>>
SumItem(w) ==
  /\ Works("sum", w)
  /\ sums' = [sums EXCEPT !["a"][at[w]] = SumOf(at[w])]
  /\ writes' = writes \cup {<<"a", at[w], w>>}
  /\ Advance(w) /\ UNCHANGED <<max, scale, reads>>
TargetInPlace == input
Target == Other(input)
TreeItem(w) ==
  /\ Works("tree", w)
  /\ LET result(o) ==
           PairsTree([i \in 0..(2 ^ Levels - 1) |-> sums[input][o * 2 ^ Levels + i]], Levels)
         outputs == TreeOutputs(at[w])
     IN /\ sums' = [sums EXCEPT ![Target] =
                      [i \in DOMAIN @ |-> IF i \in outputs THEN result(i) ELSE @[i]]]
        /\ reads' = reads \cup {<<input, i, w>> : i \in UNION {TreeInputs(o) : o \in outputs}}
        /\ writes' = writes \cup {<<Target, i, w>> : i \in outputs}
  /\ Advance(w) /\ UNCHANGED <<max, scale>>
Finish(w) ==
  /\ Works("finish", w)
  /\ scale' = IF in.skip THEN scale ELSE [max |-> scale.max, tree |-> sums[input][0]]
  /\ Advance(w) /\ UNCHANGED <<max, sums, reads, writes>>
Work(w) == MaxItem(w) \/ ReduceMax(w) \/ SumItem(w) \/ TreeItem(w) \/ Finish(w)

\* A kernel starts when the one before it on the stream has ended.
Ended(k) == kernel = k /\ \A w \in DOMAIN at : at[w] >= Items(k)
NextKernel ==
  /\ UNCHANGED <<in, max, sums, scale>>
  /\ \/ /\ Ended("max") /\ UNCHANGED <<input, active>>
        /\ Enter("reduce_max")
     \/ /\ Ended("reduce_max") /\ UNCHANGED <<input, active>>
        /\ Enter("sum")
     \/ /\ Ended("sum") /\ UNCHANGED <<input, active>>
        /\ Enter(IF active > 0 THEN "tree" ELSE "finish")
     \/ /\ Ended("tree") /\ input' = Other(input) /\ active' = active - Levels
        /\ Enter(IF active > Levels THEN "tree" ELSE "finish")
     \/ /\ Ended("finish") /\ UNCHANGED <<input, active>>
        /\ Enter("done")

Next == NextKernel \/ \E w \in DOMAIN at : Work(w)
Spec == Init /\ [][Next]_vars

-----------------------------------------------------------------------------
(* Properties *)

\* "Both write the same scale bit for bit": for every grid size and variant,
\* the maximum has looked at every element and the sum is the scalar tree of
\* quantizer.c, addition for addition.
ScaleIsScalar ==
  kernel = "done" =>
    /\ scale.max = 0..(count - 1)
    /\ ~in.skip =>
         scale.tree = AdjacentTree([b \in 0..(PaddedCount - 1) |->
                                      IF b < Blocks(count) THEN ReduceBlock(count, b) ELSE PadTerm],
                                   PaddedBits(count))

\* Within a kernel nothing orders the thread blocks, so no location of the
\* sums is written by one and read or written by another; and no kernel
\* leaves its buffers ("one max partial per block, and the buffer holds
\* block_count of them").
NoRace ==
  /\ DOMAIN max = 0..(Blocks(count) - 1)
  /\ \A l \in reads \cup writes : l[2] < PaddedCount
  /\ \A l \in writes : \A m \in reads \cup writes : l[1] = m[1] /\ l[2] = m[2] => l[3] = m[3]
=============================================================================
