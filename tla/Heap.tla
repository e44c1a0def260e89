-------------------------------- MODULE Heap --------------------------------
(***************************************************************************)
(* The system heap of src/mem.c: first fit on a doubly linked list of      *)
(* blocks.  A block is named by the offset of its struct heap_mem from     *)
(* heap_ptr.                                                               *)
(*                                                                         *)
(*   h.blocks    the offsets that hold a struct heap_mem                   *)
(*   h.next, h.prev   the links (zero where there is no block)             *)
(*   h.used      the blocks whose used flag is set, heap_end among them    *)
(*   h.lfree     lfree                                                     *)
(*   used_mem, max_mem   the statistics                                    *)
(*   want[p]     history: the size that the owner of block p asked for, or *)
(*               NotGiven                                                  *)
(*   cut         history: the free blocks that rt_realloc has split off    *)
(*   job[t]      the rt_realloc of thread t that has to move its block     *)
(*                                                                         *)
(* heap_sem makes one step of every section between a take and a release   *)
(* (module Semaphore).  The threads use the heap as they should: they free *)
(* and resize what they were given, and nobody else touches a block that   *)
(* is being moved.                                                         *)
(***************************************************************************)
EXTENDS Integers, FiniteSets, FiniteSetsExt

CONSTANTS
    Client,
    Align,      \* RT_ALIGN_SIZE
    Hdr,        \* SIZEOF_STRUCT_MEM
    MinSize,    \* MIN_SIZE
    MemSize,    \* mem_size_aligned
    WordMod,    \* 2^32 for rt_size_t
    Sizes       \* the sizes that are asked for, in bytes

VARIABLES h, used_mem, max_mem, want, cut, job

heapVars == <<h, used_mem, max_mem, want, cut, job>>

\* RT_ALIGN
RtAlign(n) == (((n + Align - 1) \div Align) * Align) % WordMod

MinSizeAligned == RtAlign(MinSize)

\* the offset of heap_end
End == MemSize + Hdr

Offset == 0 .. End

ASSUME HeapAssumption ==
    /\ Align \in Nat \ {0} /\ WordMod \in Nat
    /\ Hdr \in Nat \ {0} /\ RtAlign(Hdr) = Hdr
    /\ MemSize \in Nat /\ RtAlign(MemSize) = MemSize
    /\ MinSize \in Nat /\ MinSizeAligned \in MinSize .. MemSize
    /\ \A s \in Sizes : /\ s \in Nat /\ RtAlign(s) \in Nat /\ RtAlign(s) >= s
                        /\ RtAlign(RtAlign(s)) = RtAlign(s)

NotGiven == -1

NoJob == [step |-> "run", rmem |-> 0, nmem |-> 0, size |-> 0]

\* the data size of block p
Room(s, p) == s.next[p] - (p + Hdr)

\* rt_system_heap_init: one free block, and the mark at the end
HeapInit ==
    /\ h = [blocks |-> {0, End},
            next |-> [p \in Offset |-> IF p \in {0, End} THEN End ELSE 0],
            prev |-> [p \in Offset |-> IF p = End THEN End ELSE 0],
            used |-> {End},
            lfree |-> 0]
    /\ used_mem = 0 /\ max_mem = 0
    /\ want = [p \in Offset |-> NotGiven]
    /\ cut = {}
    /\ job = [t \in Client |-> NoJob]

-----------------------------------------------------------------------------
(***************************************************************************)
(* The list of blocks.                                                     *)
(***************************************************************************)

\* mutation: the block after n keeps its link to n
AbsorbOneWay(s, p, n) ==
    [s EXCEPT !.blocks = @ \ {n},
              !.lfree  = IF @ = n THEN p ELSE @,
              !.next   = [@ EXCEPT ![p] = s.next[n], ![n] = 0],
              !.prev   = [@ EXCEPT ![n] = 0]]

\* block p takes in n, the block after it
Absorb(s, p, n) ==
    [s EXCEPT !.blocks = @ \ {n},
              !.lfree  = IF @ = n THEN p ELSE @,
              !.next   = [@ EXCEPT ![p] = s.next[n], ![n] = 0],
              !.prev   = [@ EXCEPT ![s.next[n]] = p, ![n] = 0]]

\* mutation: the block after is not tested for use
PlugForwardAny(s, m) ==
    IF s.next[m] # End THEN Absorb(s, m, s.next[m]) ELSE s

PlugForward(s, m) ==
    IF s.next[m] \notin s.used /\ s.next[m] # End THEN Absorb(s, m, s.next[m]) ELSE s

\* mutation: the block before is not looked at
PlugBackwardNot(s, m) == s

PlugBackward(s, m) ==
    IF s.prev[m] # m /\ s.prev[m] \notin s.used THEN Absorb(s, s.prev[m], m) ELSE s

\* plug_holes
PlugHoles(s, m) == PlugBackward(PlugForward(s, m), m)

\* the rest of block p after size bytes of data becomes a block of its own
Split(s, p, size) ==
    LET q == p + Hdr + size
    IN  [s EXCEPT !.blocks = @ \cup {q},
                  !.next   = [@ EXCEPT ![q] = s.next[p], ![p] = q],
                  !.prev   = IF s.next[p] = End THEN [@ EXCEPT ![q] = p]
                             ELSE [@ EXCEPT ![q] = p, ![s.next[p]] = q]]

-----------------------------------------------------------------------------
(***************************************************************************)
(* rt_malloc.                                                              *)
(***************************************************************************)

\* the size of the block for a request, or zero if there can be none
Request(size) ==
    IF size = 0 \/ RtAlign(size) > MemSize THEN 0
    ELSE IF RtAlign(size) < MinSizeAligned THEN MinSizeAligned ELSE RtAlign(size)

\* the blocks from lfree on that the loop would settle for, not to come upon
\* the one whose data would just reach the end of the heap
Candidates(size) ==
    {p \in h.blocks : /\ h.lfree <= p /\ p < MemSize - size
                      /\ p \notin h.used /\ Room(h, p) >= size}

\* lfree moves on to the next free block when p, which it names, is taken
AdvanceLfree(s, p) ==
    IF s.lfree = p
    THEN [s EXCEPT !.lfree = Min({q \in s.blocks : q >= p /\ (q \notin s.used \/ q = End)})]
    ELSE s

\* the heap after block p has been given to a request of size
Take(p, size) ==
    LET s == [h EXCEPT !.used = @ \cup {p}]
    IN  AdvanceLfree(IF Room(h, p) >= size + Hdr + MinSizeAligned THEN Split(s, p, size) ELSE s,
                     p)

\* mutation: the whole block is counted, whether it is split or not
CountTakeWhole(p, size) ==
    /\ used_mem' = used_mem + (h.next[p] - p)
    /\ max_mem' = Max({max_mem, used_mem'})

CountTake(p, size) ==
    /\ used_mem' = used_mem + (IF Room(h, p) >= size + Hdr + MinSizeAligned
                               THEN size + Hdr ELSE h.next[p] - p)
    /\ max_mem' = Max({max_mem, used_mem'})

\* the section that finds and takes the first block that will do
Allocate(p, size) ==
    /\ size > 0
    /\ p \in Candidates(size) /\ \A q \in Candidates(size) : p <= q
    /\ h' = Take(p, size)
    /\ CountTake(p, size)
    /\ cut' = cut \cap (h'.blocks \ h'.used)

NoneLeft(size) == size = 0 \/ Candidates(size) = {}

Malloc(t, size) ==
    /\ job[t] = NoJob
    /\ \E p \in h.blocks :
          Allocate(p, Request(size)) /\ want' = [want EXCEPT ![p] = size]
    /\ UNCHANGED job

MallocNull(t, size) ==
    /\ job[t] = NoJob
    /\ NoneLeft(Request(size))
    /\ UNCHANGED heapVars

-----------------------------------------------------------------------------
(***************************************************************************)
(* rt_free.                                                                *)
(***************************************************************************)
\* mutation: lfree is not lowered
FreeBlockKeepsLfree(m) ==
    /\ h' = PlugHoles([h EXCEPT !.used = @ \ {m}], m)
    /\ used_mem' = used_mem - (h.next[m] - m)
    /\ cut' = cut \cap (h'.blocks \ h'.used)
    /\ UNCHANGED max_mem

FreeBlock(m) ==
    /\ h' = PlugHoles([h EXCEPT !.used = @ \ {m}, !.lfree = IF m < @ THEN m ELSE @], m)
    /\ used_mem' = used_mem - (h.next[m] - m)
    /\ cut' = cut \cap (h'.blocks \ h'.used)
    /\ UNCHANGED max_mem

\* a block in use that no rt_realloc is about to leave or has just taken
Settled(m) ==
    /\ want[m] # NotGiven
    /\ \A t \in Client : job[t].step # "run" => job[t].rmem # m
    /\ \A t \in Client : job[t].step = "copy" => job[t].nmem # m

HeapFree(t, m) ==
    /\ job[t] = NoJob /\ Settled(m)
    /\ FreeBlock(m)
    /\ want' = [want EXCEPT ![m] = NotGiven]
    /\ UNCHANGED job

-----------------------------------------------------------------------------
(***************************************************************************)
(* rt_realloc of block m.                                                  *)
(***************************************************************************)
Reallocates(t, m, size) == job[t] = NoJob /\ Settled(m) /\ RtAlign(size) <= MemSize

ReallocSame(t, m, size) ==
    /\ Reallocates(t, m, size) /\ Room(h, m) = RtAlign(size)
    /\ want' = [want EXCEPT ![m] = size]
    /\ UNCHANGED <<h, used_mem, max_mem, cut, job>>

\* the block is cut; lfree is not told of the free block that this makes
ReallocShrink(t, m, size) ==
    /\ Reallocates(t, m, size) /\ RtAlign(size) + Hdr + MinSize < Room(h, m)
    /\ h' = PlugHoles(Split(h, m, RtAlign(size)), m + Hdr + RtAlign(size))
    /\ used_mem' = used_mem - (Room(h, m) - RtAlign(size))
    /\ cut' = (cut \cup {m + Hdr + RtAlign(size)}) \cap (h'.blocks \ h'.used)
    /\ want' = [want EXCEPT ![m] = size]
    /\ UNCHANGED <<max_mem, job>>

\* anything else, a somewhat smaller size too, needs another block
ReallocMove(t, m, size) ==
    /\ Reallocates(t, m, size)
    /\ Room(h, m) # RtAlign(size) /\ RtAlign(size) + Hdr + MinSize >= Room(h, m)
    /\ job' = [job EXCEPT ![t] = [step |-> "expand", rmem |-> m, nmem |-> 0, size |-> size]]
    /\ UNCHANGED <<h, used_mem, max_mem, want, cut>>

ReallocMalloc(t) ==
    /\ job[t].step = "expand"
    /\ \E p \in h.blocks :
          /\ Allocate(p, Request(RtAlign(job[t].size)))
          /\ want' = [want EXCEPT ![p] = job[t].size]
          /\ job' = [job EXCEPT ![t] = [@ EXCEPT !.step = "copy", !.nmem = p]]

\* RT_NULL, and the old block stays
ReallocNull(t) ==
    /\ job[t].step = "expand"
    /\ NoneLeft(Request(RtAlign(job[t].size)))
    /\ job' = [job EXCEPT ![t] = NoJob]
    /\ UNCHANGED <<h, used_mem, max_mem, want, cut>>

\* mutation: the new block is freed
ReallocFreesNew(t) ==
    /\ job[t].step = "copy"
    /\ FreeBlock(job[t].nmem)
    /\ want' = [want EXCEPT ![job[t].rmem] = NotGiven]
    /\ job' = [job EXCEPT ![t] = NoJob]

\* the data are copied and the old block is freed
ReallocFree(t) ==
    /\ job[t].step = "copy"
    /\ FreeBlock(job[t].rmem)
    /\ want' = [want EXCEPT ![job[t].rmem] = NotGiven]
    /\ job' = [job EXCEPT ![t] = NoJob]

-----------------------------------------------------------------------------
ClientStep(t) ==
    \/ \E size \in Sizes :
          \/ Malloc(t, size) \/ MallocNull(t, size)
          \/ \E m \in h.blocks :
                ReallocSame(t, m, size) \/ ReallocShrink(t, m, size) \/ ReallocMove(t, m, size)
    \/ \E m \in h.blocks : HeapFree(t, m)
    \/ ReallocMalloc(t) \/ ReallocNull(t) \/ ReallocFree(t)

HeapNext == \E t \in Client : ClientStep(t)

HeapSpec == HeapInit /\ [][HeapNext]_heapVars

-----------------------------------------------------------------------------
(***************************************************************************)
(* Correctness.                                                            *)
(***************************************************************************)

HeapList == [blocks : SUBSET Offset, next : [Offset -> Offset], prev : [Offset -> Offset],
             used : SUBSET Offset, lfree : Offset]

\* Every variable has its type, and the statistics are within the heap.
HeapTypeOK ==
    /\ h \in HeapList
    /\ used_mem \in 0 .. End /\ max_mem \in used_mem .. End
    /\ want \in [Offset -> Sizes \cup {NotGiven}]
    /\ cut \subseteq Offset
    /\ job \in [Client -> [step : {"run", "expand", "copy"}, rmem : Offset, nmem : Offset,
                           size : Sizes \cup {0}]]

\* the links of heap s, from each block to its neighbours
LinksOK(s) ==
    /\ {0, End} \subseteq s.blocks /\ End \in s.used /\ s.used \subseteq s.blocks
    /\ s.next[End] = End /\ s.prev[0] = 0
    /\ \A p \in s.blocks \ {End} :
          /\ s.next[p] \in s.blocks /\ s.next[p] >= p + Hdr
          /\ \A q \in s.blocks : q <= p \/ s.next[p] <= q
          /\ s.next[p] # End => s.prev[s.next[p]] = p
    /\ \A p \in s.blocks \ {0, End} :
          s.prev[p] \in s.blocks \ {End} /\ s.next[s.prev[p]] = p

LfreeOK(s) == s.lfree \in s.blocks /\ (s.lfree \in s.used => s.lfree = End)

\* The blocks tile the heap: each begins where the one before it ends, the
\* links lead from each to its neighbours, and lfree names a free block or the
\* end.  (Nothing reads the prev of heap_end, which rt_malloc leaves behind.)
Linked == LinksOK(h) /\ LfreeOK(h)

\* No two free blocks are neighbours, which rt_malloc relies on when it does
\* not split: the comment says that "plug_holes should have take care of this".
Coalesced ==
    \A p \in h.blocks \ h.used : h.next[p] \in h.used

\* lfree is the lowest free block, save for those that rt_realloc has cut.
LowestFree == \A p \in h.blocks \ h.used : p < h.lfree => p \in cut

\* the bytes of the heap that lie in a block in use, its header included
UsedBytes(s) == {x \in 0 .. End - 1 : \E p \in s.used : p <= x /\ x < s.next[p]}

\* used_mem is the memory in use, and in particular zero when all is free.
\* (And every variable has its type, the statistics within the heap.)
UsedMemExact == HeapTypeOK /\ used_mem = Cardinality(UsedBytes(h))

\* the blocks that the threads have been given and not returned
Owned == {p \in Offset : want[p] # NotGiven}

\* A block is in use as long as it is somebody's: none is leaked and none is
\* free while it has an owner, whatever becomes of a move.
NoLeak == Owned = h.used \ {End}

\* The memory in use, as the threads see it.
Places == {[at |-> p + Hdr, size |-> want[p]] : p \in Owned}

A == INSTANCE Allocator WITH Memory <- End, Sizes <- Sizes \cup {0}, places <- Places

\* The heap keeps its promise: what it gives out is as large as was asked for
\* and shared with nobody, through splits, merges and interleaved moves.
RefinesAllocator == A!Spec
=============================================================================
