---------------------------- MODULE MemoryProofs ----------------------------
(***************************************************************************)
(* The two managers of memory, for every value of their constants.         *)
(*                                                                         *)
(* The heap of module Heap: the block list stays linked and coalesced,     *)
(* lfree and the statistics are right, nothing leaks, and the heap         *)
(* implements an allocator.                                                *)
(*                                                                         *)
(* The memory pool of module MemPool under the DMA driver of module        *)
(* SerialDma: the blocks are accounted for, and no wake-up is lost.        *)
(***************************************************************************)
EXTENDS Heap, SerialDma, KernelProofs


\* What the constants are, as the lemmas use it.
LEMMA Constants ==
    /\ Hdr \in Nat /\ Hdr > 0 /\ MemSize \in Nat
    /\ MinSize \in Nat /\ MinSizeAligned \in Nat
    /\ MinSizeAligned <= MemSize
    /\ End \in Nat /\ End > 0 /\ End >= Hdr /\ 0 \in Offset /\ End \in Offset
    /\ \A p \in Offset : p \in Nat /\ p <= End
BY HeapAssumption DEF End, Offset

-----------------------------------------------------------------------------
(***************************************************************************)
(* The list of blocks.                                                     *)
(***************************************************************************)

\* Merging a block into the one before it leaves a linked list.
LEMMA AbsorbLinks ==
    ASSUME NEW s \in HeapList, LinksOK(s),
           NEW p \in s.blocks, NEW n \in s.blocks,
           p # End, n # End, s.next[p] = n, n \notin s.used
    PROVE  /\ Absorb(s, p, n) \in HeapList
           /\ LinksOK(Absorb(s, p, n))
           /\ Absorb(s, p, n).blocks = s.blocks \ {n}
           /\ Absorb(s, p, n).used = s.used
           /\ Absorb(s, p, n).lfree = IF s.lfree = n THEN p ELSE s.lfree
           /\ Absorb(s, p, n).next[p] = s.next[n]
           /\ \A q \in Offset \ {p, n} : Absorb(s, p, n).next[q] = s.next[q]
           /\ Absorb(s, p, n).prev[p] = s.prev[p]
<1> DEFINE r == Absorb(s, p, n)
           m == s.next[n]
<1>1. /\ s.blocks \subseteq Offset /\ s.used \subseteq Offset /\ s.lfree \in Offset
      /\ s.next \in [Offset -> Offset] /\ s.prev \in [Offset -> Offset]
  BY DEF HeapList
<1>2. p \in Offset /\ n \in Offset /\ m \in Offset /\ p < n /\ n < m /\ m \in s.blocks /\ n # 0
  <2>1. p \in Offset /\ n \in Offset /\ m \in Offset
    BY <1>1
  <2>2. n >= p + Hdr /\ m >= n + Hdr /\ m \in s.blocks
    BY DEF LinksOK
  <2>3. p \in Nat /\ n \in Nat /\ m \in Nat /\ Hdr \in Nat /\ Hdr > 0
    BY <2>1, Constants
  <2> HIDE DEF m
  <2> QED  BY <2>1, <2>2, <2>3
<1>3. /\ r.blocks = s.blocks \ {n} /\ r.used = s.used
      /\ r.lfree = IF s.lfree = n THEN p ELSE s.lfree
      /\ r.next = [s.next EXCEPT ![p] = m, ![n] = 0]
      /\ r.prev = [s.prev EXCEPT ![m] = p, ![n] = 0]
  BY DEF Absorb, HeapList
<1>4. /\ r.next[p] = m
      /\ \A q \in Offset \ {p, n} : r.next[q] = s.next[q]
      /\ r.prev[m] = p
      /\ \A q \in Offset \ {m, n} : r.prev[q] = s.prev[q]
  BY <1>1, <1>2, <1>3, Constants
<1>5. r \in HeapList
  <2>1. /\ r.next \in [Offset -> Offset] /\ r.prev \in [Offset -> Offset]
        /\ r.blocks \in SUBSET Offset /\ r.used \in SUBSET Offset /\ r.lfree \in Offset
    BY <1>1, <1>2, <1>3, Constants
  <2>2. r = [s EXCEPT !.blocks = r.blocks, !.lfree = r.lfree,
                      !.next = r.next, !.prev = r.prev]
    BY <1>3 DEF Absorb
  <2> HIDE DEF r
  <2> QED  BY <2>1, <2>2 DEF HeapList
<1>6. r.prev[p] = s.prev[p]
  BY <1>2, <1>4, Constants
<1>7. LinksOK(r)
  <2> HIDE DEF r, m
  <2>1. {0, End} \subseteq r.blocks /\ End \in r.used /\ r.used \subseteq r.blocks
    BY <1>2, <1>3 DEF LinksOK
  <2>2. r.next[End] = End /\ r.prev[0] = 0
    <3>1. m # 0 /\ n # 0 /\ End # p /\ End # n
      BY <1>1, <1>2, Constants
    <3> QED  BY <3>1, <1>4, Constants DEF LinksOK
  <2>3. ASSUME NEW q \in r.blocks \ {End}
        PROVE  /\ r.next[q] \in r.blocks /\ r.next[q] >= q + Hdr
               /\ \A x \in r.blocks : x <= q \/ r.next[q] <= x
               /\ r.next[q] # End => r.prev[r.next[q]] = q
    <3>1. CASE q = p
      <4>1. r.next[q] = m /\ m \in r.blocks
        BY <3>1, <1>2, <1>3, <1>4, Constants
      <4>2. m >= n + Hdr /\ n >= p + Hdr
        BY <1>2 DEF LinksOK, m
      <4>3. \A x \in r.blocks : x <= p \/ m <= x
        <5>1. TAKE x \in r.blocks
        <5>2. (x <= p \/ n <= x) /\ (x <= n \/ m <= x) /\ x # n
          BY <1>2, <1>3 DEF LinksOK, m
        <5>3. x \in Nat /\ n \in Nat /\ p \in Nat /\ m \in Nat
          BY <1>1, <1>2, <1>3, Constants
        <5> QED  BY <5>2, <5>3
      <4>4. r.prev[m] = p
        BY <1>4
      <4> QED  BY <3>1, <4>1, <4>2, <4>3, <4>4, <1>2, Constants
    <3>2. CASE q # p
      <4>1. q \in s.blocks \ {End} /\ q \in Offset /\ q # n
        BY <1>1, <1>3
      <4>2. r.next[q] = s.next[q] /\ s.next[q] \in s.blocks /\ s.next[q] >= q + Hdr
        BY <3>2, <4>1, <1>4 DEF LinksOK
      <4>3. s.next[q] # n
        BY <3>2, <4>1, <1>2 DEF LinksOK
      <4>4. s.next[q] # m \/ m = End
        BY <4>1, <1>2 DEF LinksOK, m
      <4>5. r.next[q] # End => r.prev[r.next[q]] = q
        <5>1. SUFFICES ASSUME s.next[q] # End PROVE r.prev[s.next[q]] = q
          BY <4>2
        <5>2. s.next[q] \in Offset \ {m, n} /\ s.prev[s.next[q]] = q
          BY <5>1, <4>1, <4>2, <4>3, <4>4, <1>1 DEF LinksOK
        <5> QED  BY <5>2, <1>4
      <4>6. \A x \in r.blocks : x <= q \/ r.next[q] <= x
        BY <4>1, <4>2, <1>3 DEF LinksOK
      <4> QED  BY <4>2, <4>3, <4>5, <4>6, <1>3
    <3> QED  BY <3>1, <3>2
  <2>4. ASSUME NEW q \in r.blocks \ {0, End}
        PROVE  r.prev[q] \in r.blocks \ {End} /\ r.next[r.prev[q]] = q
    <3>1. q \in s.blocks \ {0, End} /\ q \in Offset /\ q # n
      BY <1>1, <1>3
    <3>2. CASE q = m
      BY <3>2, <1>2, <1>3, <1>4, Constants
    <3>3. CASE q # m
      <4>1. r.prev[q] = s.prev[q] /\ s.prev[q] \in s.blocks \ {End} /\ s.next[s.prev[q]] = q
        BY <3>1, <3>3, <1>4 DEF LinksOK
      <4>2. s.prev[q] # n /\ s.prev[q] # p
        BY <3>1, <3>3, <4>1 DEF m
      <4> QED  BY <4>1, <4>2, <1>1, <1>3, <1>4
    <3> QED  BY <3>2, <3>3
  <2> QED  BY <2>1, <2>2, <2>3, <2>4 DEF LinksOK
<1> QED  BY <1>3, <1>4, <1>5, <1>6, <1>7

\* Splitting a block leaves a linked list, if the rest can hold a header.
LEMMA SplitLinks ==
    ASSUME NEW s \in HeapList, LinksOK(s),
           NEW p \in s.blocks, p # End, NEW size \in Nat, NEW q,
           q = p + Hdr + size, s.next[p] >= q + Hdr
    PROVE  /\ Split(s, p, size) \in HeapList
           /\ LinksOK(Split(s, p, size))
           /\ Split(s, p, size).blocks = s.blocks \cup {q}
           /\ Split(s, p, size).used = s.used
           /\ Split(s, p, size).lfree = s.lfree
           /\ Split(s, p, size).next[p] = q
           /\ Split(s, p, size).next[q] = s.next[p]
           /\ \A x \in Offset \ {p, q} : Split(s, p, size).next[x] = s.next[x]
           /\ q \in Offset /\ q \notin s.blocks /\ p < q /\ q # End
<1> DEFINE r == Split(s, p, size)
           m == s.next[p]
<1>1. /\ s.blocks \subseteq Offset /\ s.used \subseteq Offset /\ s.lfree \in Offset
      /\ s.next \in [Offset -> Offset] /\ s.prev \in [Offset -> Offset]
  BY DEF HeapList
<1>2. p \in Offset /\ m \in Offset /\ m \in s.blocks
  BY <1>1 DEF LinksOK
<1>3. p \in Nat /\ m \in Nat /\ Hdr \in Nat /\ Hdr > 0 /\ m <= End /\ End \in Nat
  BY <1>2, Constants
<1>4. q \in Nat /\ p < q /\ q < m /\ q >= p + Hdr /\ m >= q + Hdr /\ q < End /\ q # 0
  <2> HIDE DEF m, r
  <2>1. m >= q + Hdr
    BY DEF m
  <2> QED  BY <1>3, <2>1
<1>5. q \in Offset /\ q # End
  BY <1>3, <1>4 DEF Offset
<1>6. q \notin s.blocks
  <2>1. q \in s.blocks => q <= p \/ m <= q
    BY DEF LinksOK
  <2> HIDE DEF m, r
  <2> QED  BY <2>1, <1>3, <1>4
<1>7. /\ r.blocks = s.blocks \cup {q} /\ r.used = s.used /\ r.lfree = s.lfree
      /\ r.next = [s.next EXCEPT ![q] = m, ![p] = q]
      /\ r.prev = IF m = End THEN [s.prev EXCEPT ![q] = p]
                            ELSE [s.prev EXCEPT ![q] = p, ![m] = q]
  BY DEF Split, HeapList
<1>8. /\ r.next[p] = q /\ r.next[q] = m
      /\ \A x \in Offset \ {p, q} : r.next[x] = s.next[x]
      /\ r.prev[q] = p
      /\ m # End => r.prev[m] = q
      /\ \A x \in Offset \ {q} : x # m \/ m = End => r.prev[x] = s.prev[x]
  BY <1>1, <1>2, <1>4, <1>5, <1>7
<1>9. r \in HeapList
  <2>1. /\ r.next \in [Offset -> Offset] /\ r.prev \in [Offset -> Offset]
        /\ r.blocks \in SUBSET Offset
    BY <1>1, <1>2, <1>5, <1>7
  <2>2. r = [s EXCEPT !.blocks = r.blocks, !.next = r.next, !.prev = r.prev]
    BY <1>7 DEF Split
  <2> HIDE DEF r
  <2> QED  BY <2>1, <2>2 DEF HeapList
<1>10. LinksOK(r)
  <2> HIDE DEF r, m
  <2>1. {0, End} \subseteq r.blocks /\ End \in r.used /\ r.used \subseteq r.blocks
    BY <1>7 DEF LinksOK
  <2>2. r.next[End] = End /\ r.prev[0] = 0
    BY <1>3, <1>4, <1>5, <1>8, Constants DEF LinksOK
  <2>3. ASSUME NEW x \in r.blocks \ {End}
        PROVE  /\ r.next[x] \in r.blocks /\ r.next[x] >= x + Hdr
               /\ \A y \in r.blocks : y <= x \/ r.next[x] <= y
               /\ r.next[x] # End => r.prev[r.next[x]] = x
    <3>0. \A y \in s.blocks : y \in Nat /\ (y <= p \/ m <= y)
      BY <1>1, Constants DEF LinksOK, m
    <3>1. CASE x = p
      <4>1. \A y \in r.blocks : y <= p \/ q <= y
        BY <3>0, <1>3, <1>4, <1>7
      <4> QED  BY <3>1, <4>1, <1>4, <1>7, <1>8
    <3>2. CASE x = q
      <4>1. \A y \in r.blocks : y <= q \/ m <= y
        BY <3>0, <1>3, <1>4, <1>7
      <4>2. m \in r.blocks
        BY <1>2, <1>7
      <4> QED  BY <3>2, <4>1, <4>2, <1>4, <1>8
    <3>3. CASE x # p /\ x # q
      <4>1. x \in s.blocks \ {End} /\ x \in Offset \ {p, q}
        BY <3>3, <1>1, <1>7
      <4>2. r.next[x] = s.next[x]
        BY <4>1, <1>8
      <4>3. /\ s.next[x] \in s.blocks /\ s.next[x] >= x + Hdr
            /\ \A y \in s.blocks : y <= x \/ s.next[x] <= y
            /\ s.next[x] # End => s.prev[s.next[x]] = x
        BY <4>1 DEF LinksOK
      <4>4. s.next[x] \in Offset /\ s.next[x] \in Nat /\ x \in Nat /\ s.next[x] # q
        BY <4>1, <4>3, <1>1, <1>6, Constants
      <4>5. q <= x \/ s.next[x] <= q
        <5>1. p <= x \/ s.next[x] <= p
          BY <4>3
        <5>2. x <= p \/ m <= x
          BY <3>0, <4>1
        <5> QED  BY <5>1, <5>2, <3>3, <4>4, <1>3, <1>4
      <4>6. s.next[x] # End => s.next[x] # m
        BY <3>3, <4>1, <4>3, <1>2 DEF LinksOK, m
      <4>7. r.next[x] # End => r.prev[r.next[x]] = x
        BY <4>2, <4>3, <4>4, <4>6, <1>8
      <4> QED  BY <4>2, <4>3, <4>4, <4>5, <4>7, <1>4, <1>7
    <3> QED  BY <3>1, <3>2, <3>3
  <2>4. ASSUME NEW x \in r.blocks \ {0, End}
        PROVE  r.prev[x] \in r.blocks \ {End} /\ r.next[r.prev[x]] = x
    <3>1. CASE x = q
      BY <3>1, <1>7, <1>8
    <3>2. CASE x = m
      BY <3>2, <1>4, <1>5, <1>7, <1>8
    <3>3. CASE x # q /\ x # m
      <4>1. x \in s.blocks \ {0, End} /\ x \in Offset \ {q}
        BY <3>3, <1>1, <1>7
      <4>2. s.prev[x] \in s.blocks \ {End} /\ s.next[s.prev[x]] = x
        BY <4>1 DEF LinksOK
      <4>3. r.prev[x] = s.prev[x]
        BY <3>3, <4>1, <1>8
      <4>4. s.prev[x] # p /\ s.prev[x] \in Offset \ {p, q}
        BY <3>3, <4>2, <1>1, <1>6 DEF m
      <4> QED  BY <4>2, <4>3, <4>4, <1>7, <1>8
    <3> QED  BY <3>1, <3>2, <3>3
  <2> QED  BY <2>1, <2>2, <2>3, <2>4 DEF LinksOK
<1> QED  BY <1>4, <1>5, <1>6, <1>7, <1>8, <1>9, <1>10

-----------------------------------------------------------------------------
(***************************************************************************)
(* plug_holes, and the section of rt_malloc.                               *)
(***************************************************************************)
Dense(s) == \A p \in s.blocks \ s.used : s.next[p] \in s.used

\* Block m, which has just become free, may have free neighbours.
DenseBut(s, m) ==
    \A p \in s.blocks \ s.used : p = m \/ s.next[p] = m \/ s.next[p] \in s.used

\* The forward half of plug_holes: the block after m is in use.
LEMMA PlugForwardOK ==
    ASSUME NEW s \in HeapList, LinksOK(s), LfreeOK(s),
           NEW m \in s.blocks, m \notin s.used, DenseBut(s, m)
    PROVE  /\ PlugForward(s, m) \in HeapList
           /\ LinksOK(PlugForward(s, m)) /\ LfreeOK(PlugForward(s, m))
           /\ DenseBut(PlugForward(s, m), m)
           /\ PlugForward(s, m).used = s.used
           /\ m \in PlugForward(s, m).blocks
           /\ PlugForward(s, m).next[m] \in s.used
           /\ \A u \in s.used : PlugForward(s, m).next[u] = s.next[u]
<1> DEFINE r == PlugForward(s, m)
           n == s.next[m]
<1>1. s.blocks \subseteq Offset /\ s.used \subseteq s.blocks /\ End \in s.used /\ m # End
  BY DEF HeapList, LinksOK
<1>2. n \in s.blocks
  BY <1>1 DEF LinksOK
<1>3. CASE n \in s.used \/ n = End
  BY <1>1, <1>3 DEF PlugForward
<1>4. CASE n \notin s.used /\ n # End
  <2>1. r = Absorb(s, m, n)
    BY <1>4 DEF PlugForward
  <2>2. /\ r \in HeapList /\ LinksOK(r)
        /\ r.blocks = s.blocks \ {n} /\ r.used = s.used
        /\ r.lfree = IF s.lfree = n THEN m ELSE s.lfree
        /\ r.next[m] = s.next[n]
        /\ \A q \in Offset \ {m, n} : r.next[q] = s.next[q]
    BY <2>1, <1>1, <1>2, <1>4, AbsorbLinks
  <2>3. m # n /\ s.next[n] # m
    <3>1. n >= m + Hdr /\ s.next[n] >= n + Hdr
      BY <1>1, <1>2, <1>4 DEF LinksOK
    <3>2. m \in Nat /\ n \in Nat /\ Hdr \in Nat /\ Hdr > 0
      BY <1>1, <1>2, Constants
    <3>3. s.next[n] \in Nat
      BY <1>2, <1>1, <1>4, Constants DEF LinksOK
    <3> HIDE DEF n
    <3> QED  BY <3>1, <3>2, <3>3
  <2>4. s.next[n] \in s.used
    BY <1>2, <1>4, <2>3 DEF DenseBut
  <2> HIDE DEF r, n
  <2>5. LfreeOK(r)
    BY <2>2, <2>3, <1>4 DEF LfreeOK
  <2>6. \A u \in s.used : r.next[u] = s.next[u]
    BY <2>2, <1>1, <1>4
  <2>7. DenseBut(r, m)
    <3>1. SUFFICES ASSUME NEW p \in r.blocks \ r.used, p # m
                   PROVE  r.next[p] = m \/ r.next[p] \in r.used
      BY DEF DenseBut
    <3>2. p \in s.blocks \ s.used /\ p # n /\ r.next[p] = s.next[p]
      BY <3>1, <2>2, <1>1
    <3> QED  BY <3>1, <3>2, <2>2 DEF DenseBut
  <2> QED  BY <2>2, <2>3, <2>4, <2>5, <2>6, <2>7 DEF r
<1> QED  BY <1>3, <1>4

\* plug_holes leaves no two free blocks side by side, and the blocks in use as
\* they are.
LEMMA PlugHolesOK ==
    ASSUME NEW s \in HeapList, LinksOK(s), LfreeOK(s),
           NEW m \in s.blocks, m \notin s.used, DenseBut(s, m)
    PROVE  /\ PlugHoles(s, m) \in HeapList
           /\ LinksOK(PlugHoles(s, m)) /\ LfreeOK(PlugHoles(s, m)) /\ Dense(PlugHoles(s, m))
           /\ PlugHoles(s, m).used = s.used
           /\ \A u \in s.used : PlugHoles(s, m).next[u] = s.next[u]
<1> DEFINE f == PlugForward(s, m)
           r == PlugBackward(f, m)
           b == f.prev[m]
<1>1. /\ f \in HeapList /\ LinksOK(f) /\ LfreeOK(f) /\ DenseBut(f, m)
      /\ f.used = s.used /\ m \in f.blocks /\ f.next[m] \in s.used
      /\ \A u \in s.used : f.next[u] = s.next[u]
  BY PlugForwardOK
<1> HIDE DEF f
<1>2. f.blocks \subseteq Offset /\ f.used \subseteq f.blocks /\ End \in f.used /\ m # End
  BY <1>1 DEF HeapList, LinksOK
<1>3. r = PlugHoles(s, m)
  BY DEF PlugHoles, f
<1>4. CASE b # m /\ b \notin f.used
  <2>1. r = Absorb(f, b, m)
    BY <1>4 DEF PlugBackward
  <2>2. m # 0
    BY <1>1, <1>4 DEF LinksOK
  <2>3. b \in f.blocks \ {End} /\ f.next[b] = m
    BY <1>1, <1>2, <2>2 DEF LinksOK
  <2>4. /\ r \in HeapList /\ LinksOK(r)
        /\ r.blocks = f.blocks \ {m} /\ r.used = f.used
        /\ r.lfree = IF f.lfree = m THEN b ELSE f.lfree
        /\ r.next[b] = f.next[m]
        /\ \A q \in Offset \ {b, m} : r.next[q] = f.next[q]
    BY <2>1, <2>3, <1>1, <1>2, AbsorbLinks
  <2> HIDE DEF r, b
  <2>5. LfreeOK(r)
    BY <2>3, <2>4, <1>1, <1>4 DEF LfreeOK
  <2>6. \A u \in s.used : r.next[u] = s.next[u]
    BY <2>4, <1>1, <1>2, <1>4
  <2>7. Dense(r)
    <3>1. SUFFICES ASSUME NEW p \in r.blocks \ r.used
                   PROVE  r.next[p] \in r.used
      BY DEF Dense
    <3>2. CASE p = b
      BY <3>2, <2>4, <1>1
    <3>3. CASE p # b
      <4>1. p \in f.blocks \ f.used /\ p # m /\ r.next[p] = f.next[p]
        BY <3>1, <3>3, <2>4, <1>2
      <4>2. f.next[p] # m
        BY <3>3, <4>1, <1>1, <1>2 DEF LinksOK, b
      <4> QED  BY <4>1, <4>2, <2>4, <1>1 DEF DenseBut
    <3> QED  BY <3>2, <3>3
  <2> QED  BY <2>4, <2>5, <2>6, <2>7, <1>1, <1>3
<1>5. CASE b = m \/ b \in f.used
  <2>1. r = f
    BY <1>5 DEF PlugBackward
  <2>2. Dense(f)
    <3>1. SUFFICES ASSUME NEW p \in f.blocks \ f.used
                   PROVE  f.next[p] \in f.used
      BY DEF Dense
    <3>2. CASE p = m
      BY <3>2, <1>1
    <3>3. CASE p # m
      <4>1. f.next[p] = m => b = p
        BY <3>1, <1>1, <1>2 DEF LinksOK
      <4> QED  BY <3>1, <3>3, <4>1, <1>1, <1>5 DEF DenseBut
    <3> QED  BY <3>2, <3>3
  <2> QED  BY <2>1, <2>2, <1>1, <1>3
<1> QED  BY <1>4, <1>5

\* lfree moves on to a free block or to the end.
LEMMA AdvanceLfreeOK ==
    ASSUME NEW s \in HeapList, LinksOK(s), NEW p \in s.blocks,
           s.lfree = p \/ LfreeOK(s)
    PROVE  /\ AdvanceLfree(s, p) \in HeapList
           /\ LinksOK(AdvanceLfree(s, p)) /\ LfreeOK(AdvanceLfree(s, p))
           /\ AdvanceLfree(s, p).blocks = s.blocks
           /\ AdvanceLfree(s, p).used = s.used
           /\ AdvanceLfree(s, p).next = s.next
<1> DEFINE S == {q \in s.blocks : q >= p /\ (q \notin s.used \/ q = End)}
           r == AdvanceLfree(s, p)
<1>1. s.blocks \subseteq Offset /\ s.blocks \subseteq Nat /\ p <= End /\ End \in s.blocks
  BY Constants DEF HeapList, LinksOK
<1>2. End \in S /\ S \subseteq Nat
  BY <1>1, Constants
<1>3. Min(S) \in S
  BY <1>2, SmallestNat
<1>4. CASE s.lfree = p
  <2>1. r = [s EXCEPT !.lfree = Min(S)]
    BY <1>4 DEF AdvanceLfree
  <2>2. /\ r.blocks = s.blocks /\ r.used = s.used /\ r.next = s.next /\ r.prev = s.prev
        /\ r.lfree = Min(S)
    BY <2>1 DEF HeapList
  <2>3. r \in HeapList
    BY <2>1, <1>1, <1>3 DEF HeapList
  <2> HIDE DEF r
  <2>4. LinksOK(r)
    BY <2>2 DEF LinksOK
  <2>5. LfreeOK(r)
    BY <2>2, <1>3 DEF LfreeOK
  <2> QED  BY <2>2, <2>3, <2>4, <2>5 DEF r
<1>5. CASE s.lfree # p
  BY <1>5 DEF AdvanceLfree
<1> QED  BY <1>4, <1>5

\* The section of rt_malloc: a free block is taken, as large as asked for, and
\* no block in use changes.
LEMMA TakeOK ==
    ASSUME h \in HeapList, LinksOK(h), LfreeOK(h), Dense(h),
           NEW size \in Nat, NEW p \in Candidates(size)
    PROVE  /\ Take(p, size) \in HeapList
           /\ LinksOK(Take(p, size)) /\ LfreeOK(Take(p, size)) /\ Dense(Take(p, size))
           /\ p \in Offset \ {End} /\ p \notin h.used
           /\ Take(p, size).used = h.used \cup {p}
           /\ \A u \in h.used : Take(p, size).next[u] = h.next[u]
           /\ Room(Take(p, size), p) >= size
<1> DEFINE s == [h EXCEPT !.used = @ \cup {p}]
           q == p + Hdr + size
           big == h.next[p] - (p + Hdr) >= size + Hdr + MinSizeAligned
           r == IF big THEN Split(s, p, size) ELSE s
<1>1. p \in h.blocks /\ p \notin h.used /\ h.next[p] - (p + Hdr) >= size
  BY DEF Candidates, Room
<1>2. /\ h.blocks \subseteq Offset /\ h.used \subseteq h.blocks /\ End \in h.used
      /\ h.next \in [Offset -> Offset]
  BY DEF HeapList, LinksOK
<1>3. p \in Offset \ {End} /\ p \in Nat /\ h.next[p] \in Nat /\ Hdr \in Nat
      /\ MinSizeAligned \in Nat
  BY <1>1, <1>2, Constants
<1>4. /\ s.blocks = h.blocks /\ s.used = h.used \cup {p}
      /\ s.next = h.next /\ s.prev = h.prev /\ s.lfree = h.lfree
  BY DEF HeapList
<1>5. s \in HeapList
  <2>1. h.used \cup {p} \in SUBSET Offset
    BY <1>2, <1>3
  <2> QED  BY <2>1 DEF HeapList
<1> HIDE DEF s
<1>6. LinksOK(s)
  BY <1>1, <1>4 DEF LinksOK
<1>7. Take(p, size) = AdvanceLfree(r, p)
  BY DEF Take, s, Room
<1>8. h.next[p] \in h.used
  BY <1>1 DEF Dense
<1>9. /\ r \in HeapList /\ LinksOK(r) /\ Dense(r)
      /\ r.used = h.used \cup {p} /\ r.lfree = h.lfree
      /\ p \in r.blocks /\ h.blocks \subseteq r.blocks
      /\ \A u \in h.used : r.next[u] = h.next[u]
      /\ r.next[p] - (p + Hdr) >= size
  <2>1. CASE ~ big
    <3>1. Dense(s)
      BY <1>4 DEF Dense
    <3> QED  BY <2>1, <3>1, <1>1, <1>4, <1>5, <1>6
  <2>2. CASE big
    <3>1. q \in Nat /\ s.next[p] >= q + Hdr
      <4>1. h.next[p] - (p + Hdr) >= size + Hdr + MinSizeAligned
        BY <2>2
      <4> QED  BY <4>1, <1>3, <1>4
    <3>2. p \in s.blocks /\ p # End
      BY <1>1, <1>3, <1>4
    <3>3. /\ r \in HeapList /\ LinksOK(r)
          /\ r.blocks = s.blocks \cup {q} /\ r.used = s.used /\ r.lfree = s.lfree
          /\ r.next[p] = q /\ r.next[q] = s.next[p]
          /\ \A x \in Offset \ {p, q} : r.next[x] = s.next[x]
          /\ q \in Offset /\ q \notin s.blocks /\ p < q /\ q # End
      BY <2>2, <3>1, <3>2, <1>5, <1>6, SplitLinks
    <3>4. r.next[p] - (p + Hdr) >= size
      <4>1. q - (p + Hdr) >= size
        BY <1>3
      <4> QED  BY <3>3, <4>1
    <3> HIDE DEF r, q, big
    <3>5. \A u \in h.used : r.next[u] = h.next[u]
      BY <3>3, <1>1, <1>2, <1>4
    <3>6. Dense(r)
      <4>1. SUFFICES ASSUME NEW x \in r.blocks \ r.used PROVE r.next[x] \in r.used
        BY DEF Dense
      <4>2. CASE x = q
        BY <4>2, <3>3, <1>4, <1>8
      <4>3. CASE x # q
        <5>1. x \in h.blocks \ h.used /\ x # p /\ x \in Offset
          BY <4>1, <4>3, <3>3, <1>2, <1>4
        <5> QED  BY <5>1, <4>3, <3>3, <1>4 DEF Dense
      <4> QED  BY <4>2, <4>3
    <3> QED  BY <3>3, <3>4, <3>5, <3>6, <1>1, <1>4
  <2> QED  BY <2>1, <2>2
<1> HIDE DEF r
<1>10. r.lfree = p \/ LfreeOK(r)
  BY <1>9, <1>1 DEF LfreeOK
<1>11. /\ AdvanceLfree(r, p) \in HeapList
       /\ LinksOK(AdvanceLfree(r, p)) /\ LfreeOK(AdvanceLfree(r, p))
       /\ AdvanceLfree(r, p).blocks = r.blocks
       /\ AdvanceLfree(r, p).used = r.used
       /\ AdvanceLfree(r, p).next = r.next
  BY <1>9, <1>10, AdvanceLfreeOK
<1>12. Dense(AdvanceLfree(r, p))
  BY <1>9, <1>11 DEF Dense
<1> QED  BY <1>1, <1>3, <1>7, <1>9, <1>11, <1>12 DEF Room

\* rt_free: the block is free, and no block that stays in use changes.
LEMMA FreeOK ==
    ASSUME h \in HeapList, LinksOK(h), LfreeOK(h), Dense(h),
           NEW m \in h.used, m # End, FreeBlock(m)
    PROVE  /\ h' \in HeapList
           /\ LinksOK(h') /\ LfreeOK(h') /\ Dense(h')
           /\ h'.used = h.used \ {m}
           /\ \A u \in h.used \ {m} : h'.next[u] = h.next[u]
<1> DEFINE s == [h EXCEPT !.used = @ \ {m}, !.lfree = IF m < @ THEN m ELSE @]
<1>1. h' = PlugHoles(s, m)
  BY DEF FreeBlock
<1>2. m \in h.blocks /\ h.used \subseteq Offset /\ m \in Offset /\ h.lfree \in Offset
  BY DEF HeapList, LinksOK
<1>3. /\ s.blocks = h.blocks /\ s.used = h.used \ {m}
      /\ s.next = h.next /\ s.prev = h.prev
      /\ s.lfree = IF m < h.lfree THEN m ELSE h.lfree
  BY DEF HeapList
<1>4. s \in HeapList
  <2>1. (h.used \ {m}) \in SUBSET Offset /\ (IF m < h.lfree THEN m ELSE h.lfree) \in Offset
    BY <1>2
  <2> QED  BY <2>1 DEF HeapList
<1> HIDE DEF s
<1>5. LinksOK(s)
  BY <1>3 DEF LinksOK
<1>6. LfreeOK(s)
  BY <1>2, <1>3 DEF LfreeOK
<1>7. DenseBut(s, m)
  BY <1>3 DEF Dense, DenseBut
<1>8. m \in s.blocks /\ m \notin s.used
  BY <1>2, <1>3
<1>9. /\ PlugHoles(s, m) \in HeapList
      /\ LinksOK(PlugHoles(s, m)) /\ LfreeOK(PlugHoles(s, m)) /\ Dense(PlugHoles(s, m))
      /\ PlugHoles(s, m).used = s.used
      /\ \A u \in s.used : PlugHoles(s, m).next[u] = s.next[u]
  BY <1>4, <1>5, <1>6, <1>7, <1>8, PlugHolesOK
<1> QED  BY <1>1, <1>3, <1>9

\* rt_realloc to a smaller size: the block is cut, and no other block in use
\* changes.
LEMMA ShrinkOK ==
    ASSUME h \in HeapList, LinksOK(h), LfreeOK(h), Dense(h),
           NEW m \in h.used, m # End, NEW size \in Nat, NEW q, q = m + Hdr + size,
           h.next[m] - (m + Hdr) >= size + Hdr,
           h' = PlugHoles(Split(h, m, size), q)
    PROVE  /\ h' \in HeapList
           /\ LinksOK(h') /\ LfreeOK(h') /\ Dense(h')
           /\ h'.used = h.used
           /\ \A u \in h.used \ {m} : h'.next[u] = h.next[u]
           /\ Room(h', m) = size
<1> DEFINE s == Split(h, m, size)
<1>1. /\ m \in h.blocks /\ h.blocks \subseteq Offset /\ h.used \subseteq h.blocks
      /\ h.next \in [Offset -> Offset]
  BY DEF HeapList, LinksOK
<1>2. m \in Nat /\ h.next[m] \in Nat /\ Hdr \in Nat
  BY <1>1, Constants
<1>3. h.next[m] >= q + Hdr
  BY <1>2
<1>4. /\ s \in HeapList /\ LinksOK(s)
      /\ s.blocks = h.blocks \cup {q} /\ s.used = h.used /\ s.lfree = h.lfree
      /\ s.next[m] = q /\ s.next[q] = h.next[m]
      /\ \A x \in Offset \ {m, q} : s.next[x] = h.next[x]
      /\ q \in Offset /\ q \notin h.blocks
  BY <1>1, <1>3, SplitLinks
<1> HIDE DEF s
<1>5. LfreeOK(s)
  BY <1>4 DEF LfreeOK
<1>6. DenseBut(s, q)
  <2>1. SUFFICES ASSUME NEW x \in s.blocks \ s.used, x # q PROVE s.next[x] \in s.used
    BY DEF DenseBut
  <2>2. x \in h.blocks \ h.used /\ x # m /\ x \in Offset
    BY <2>1, <1>1, <1>4
  <2> QED  BY <2>1, <2>2, <1>4 DEF Dense
<1>7. q \in s.blocks /\ q \notin s.used
  BY <1>1, <1>4
<1>8. /\ PlugHoles(s, q) \in HeapList
      /\ LinksOK(PlugHoles(s, q)) /\ LfreeOK(PlugHoles(s, q)) /\ Dense(PlugHoles(s, q))
      /\ PlugHoles(s, q).used = s.used
      /\ \A u \in s.used : PlugHoles(s, q).next[u] = s.next[u]
  BY <1>4, <1>5, <1>6, <1>7, PlugHolesOK
<1>9. h' = PlugHoles(s, q)
  BY DEF s
<1>10. \A u \in h.used \ {m} : h'.next[u] = h.next[u]
  <2>1. TAKE u \in h.used \ {m}
  <2>2. u \in s.used /\ u \in Offset \ {m, q}
    BY <1>1, <1>4
  <2> QED  BY <2>2, <1>4, <1>8, <1>9
<1>11. h'.next[m] = q
  BY <1>4, <1>8, <1>9
<1>12. Room(h', m) = size
  BY <1>2, <1>11 DEF Room
<1> QED  BY <1>4, <1>8, <1>9, <1>10, <1>12

-----------------------------------------------------------------------------
(***************************************************************************)
(* The inductive invariant.                                                *)
(***************************************************************************)

\* the blocks that the rt_realloc of t works with
Held(t) ==
    IF job[t].step = "run" THEN {}
    ELSE IF job[t].step = "expand" THEN {job[t].rmem} ELSE {job[t].rmem, job[t].nmem}

JobRecord == [step : {"run", "expand", "copy"}, rmem : Offset, nmem : Offset,
              size : Sizes \cup {0}]

HeapType ==
    /\ h \in HeapList
    /\ want \in [Offset -> Sizes \cup {NotGiven}]
    /\ job \in [Client -> JobRecord]

\* What was asked for fits into the block.
WantFits == \A p \in Owned : want[p] <= Room(h, p)

\* A move works with blocks that are its own, and that differ.
JobsOwn ==
    /\ \A t \in Client :
          /\ Held(t) \subseteq Owned
          /\ job[t].step # "run" => job[t].size \in Sizes
          /\ job[t].step = "copy" => job[t].rmem # job[t].nmem
    /\ \A t, u \in Client : t # u => Held(t) \cap Held(u) = {}

HeapInv ==
    /\ HeapType
    /\ Linked /\ Coalesced /\ NoLeak
    /\ WantFits /\ JobsOwn

\* A request is served with at least the aligned size.
LEMMA RequestFits ==
    ASSUME NEW size \in Sizes
    PROVE  /\ Request(size) > 0 => Request(size) \in Nat /\ Request(size) >= size
           /\ Request(RtAlign(size)) > 0 =>
                Request(RtAlign(size)) \in Nat /\ Request(RtAlign(size)) >= size
<1>1. /\ size \in Nat /\ RtAlign(size) \in Nat /\ RtAlign(size) >= size
      /\ RtAlign(RtAlign(size)) = RtAlign(size)
  BY HeapAssumption
<1>2. MinSizeAligned \in Nat
  BY Constants
<1> QED  BY <1>1, <1>2 DEF Request

\* What a step that gives block p out does to the invariant's parts.
LEMMA GivesOut ==
    ASSUME HeapInv, NEW p, NEW size \in Nat, NEW w \in Sizes, w <= size,
           Allocate(p, size), want' = [want EXCEPT ![p] = w]
    PROVE  /\ h' \in HeapList /\ want' \in [Offset -> Sizes \cup {NotGiven}]
           /\ Linked' /\ Coalesced' /\ NoLeak' /\ WantFits'
           /\ p \in Offset \ {End} /\ p \notin Owned /\ Owned' = Owned \cup {p}
<1>1. h \in HeapList /\ LinksOK(h) /\ LfreeOK(h) /\ Dense(h)
  BY DEF HeapInv, HeapType, Linked, Coalesced, Dense
<1>2. p \in Candidates(size) /\ h' = Take(p, size)
  BY DEF Allocate
<1>3. /\ h' \in HeapList /\ LinksOK(h') /\ LfreeOK(h') /\ Dense(h')
      /\ p \in Offset \ {End} /\ p \notin h.used
      /\ h'.used = h.used \cup {p}
      /\ \A u \in h.used : h'.next[u] = h.next[u]
      /\ Room(h', p) >= size
  BY <1>1, <1>2, TakeOK
<1>4. w \in Nat /\ w # NotGiven /\ NotGiven \notin Sizes /\ Sizes \subseteq Nat
  BY HeapAssumption DEF NotGiven
<1>5. /\ want' \in [Offset -> Sizes \cup {NotGiven}]
      /\ want'[p] = w /\ \A q \in Offset \ {p} : want'[q] = want[q]
  BY <1>3 DEF HeapInv, HeapType
<1>6. Owned' = Owned \cup {p}
  BY <1>3, <1>4, <1>5 DEF Owned
<1>7. Owned = h.used \ {End} /\ p \notin Owned
  BY <1>3 DEF HeapInv, NoLeak
<1>8. Linked' /\ Coalesced'
  BY <1>3 DEF Linked, Coalesced, Dense
<1>9. NoLeak'
  BY <1>3, <1>6, <1>7 DEF NoLeak
<1>10. WantFits'
  <2>1. SUFFICES ASSUME NEW q \in Owned' PROVE want'[q] <= Room(h', q)
    BY DEF WantFits
  <2>2. CASE q = p
    <3>1. h'.next[p] \in Nat /\ p \in Nat /\ Hdr \in Nat
      BY <1>3, Constants DEF HeapList
    <3>2. Room(h', p) \in Int
      BY <3>1 DEF Room
    <3> QED  BY <2>2, <3>2, <1>3, <1>4, <1>5
  <2>3. CASE q # p
    <3>1. q \in Owned /\ q \in h.used /\ q \in Offset
      BY <2>1, <2>3, <1>6, <1>7 DEF Owned
    <3>2. want'[q] = want[q] /\ Room(h', q) = Room(h, q)
      BY <2>3, <3>1, <1>3, <1>5 DEF Room
    <3> QED  BY <3>1, <3>2 DEF HeapInv, WantFits
  <2> QED  BY <2>2, <2>3
<1> QED  BY <1>3, <1>5, <1>6, <1>7, <1>8, <1>9, <1>10

\* What a step that takes block m back does to the invariant's parts.
LEMMA TakesBack ==
    ASSUME HeapInv, NEW m \in Owned,
           FreeBlock(m), want' = [want EXCEPT ![m] = NotGiven]
    PROVE  /\ h' \in HeapList /\ want' \in [Offset -> Sizes \cup {NotGiven}]
           /\ Linked' /\ Coalesced' /\ NoLeak' /\ WantFits'
           /\ Owned' = Owned \ {m}
<1>1. h \in HeapList /\ LinksOK(h) /\ LfreeOK(h) /\ Dense(h)
  BY DEF HeapInv, HeapType, Linked, Coalesced, Dense
<1>2. Owned = h.used \ {End} /\ m \in h.used /\ m # End /\ m \in Offset
  BY DEF HeapInv, NoLeak, Owned
<1>3. /\ h' \in HeapList /\ LinksOK(h') /\ LfreeOK(h') /\ Dense(h')
      /\ h'.used = h.used \ {m}
      /\ \A u \in h.used \ {m} : h'.next[u] = h.next[u]
  BY <1>1, <1>2, FreeOK
<1>4. /\ want' \in [Offset -> Sizes \cup {NotGiven}]
      /\ want'[m] = NotGiven /\ \A q \in Offset \ {m} : want'[q] = want[q]
  BY <1>2 DEF HeapInv, HeapType
<1>5. Owned' = Owned \ {m}
  BY <1>4 DEF Owned
<1>6. Linked' /\ Coalesced'
  BY <1>3 DEF Linked, Coalesced, Dense
<1>7. NoLeak'
  BY <1>2, <1>3, <1>5 DEF NoLeak
<1>8. WantFits'
  <2>1. SUFFICES ASSUME NEW q \in Owned' PROVE want'[q] <= Room(h', q)
    BY DEF WantFits
  <2>2. q \in Owned /\ q # m /\ q \in h.used /\ q \in Offset
    BY <2>1, <1>2, <1>5 DEF Owned
  <2>3. want'[q] = want[q] /\ Room(h', q) = Room(h, q)
    BY <2>2, <1>3, <1>4 DEF Room
  <2> QED  BY <2>2, <2>3 DEF HeapInv, WantFits
<1> QED  BY <1>3, <1>4, <1>5, <1>6, <1>7, <1>8

\* What rt_realloc in place does to the invariant's parts.
LEMMA Resizes ==
    ASSUME HeapInv, NEW t \in Client, NEW m \in h.blocks, NEW size \in Sizes,
           ReallocSame(t, m, size) \/ ReallocShrink(t, m, size)
    PROVE  /\ h' \in HeapList /\ want' \in [Offset -> Sizes \cup {NotGiven}]
           /\ want' = [want EXCEPT ![m] = size]
           /\ Linked' /\ Coalesced' /\ NoLeak' /\ WantFits'
           /\ m \in Owned /\ Owned' = Owned
<1>1. h \in HeapList /\ LinksOK(h) /\ LfreeOK(h) /\ Dense(h)
  BY DEF HeapInv, HeapType, Linked, Coalesced, Dense
<1>2. m \in Offset /\ want[m] # NotGiven /\ want' = [want EXCEPT ![m] = size]
  BY <1>1 DEF HeapList, ReallocSame, ReallocShrink, Reallocates, Settled
<1>3. m \in Owned /\ Owned = h.used \ {End} /\ m \in h.used /\ m # End
  BY <1>2 DEF HeapInv, NoLeak, Owned
<1>4. size \in Nat /\ size # NotGiven /\ RtAlign(size) \in Nat /\ RtAlign(size) >= size
  BY HeapAssumption DEF NotGiven
<1>5. /\ want' \in [Offset -> Sizes \cup {NotGiven}]
      /\ want'[m] = size /\ \A q \in Offset \ {m} : want'[q] = want[q]
  BY <1>2 DEF HeapInv, HeapType
<1>6. Owned' = Owned
  BY <1>2, <1>4, <1>5 DEF Owned
<1>7. /\ h' \in HeapList /\ LinksOK(h') /\ LfreeOK(h') /\ Dense(h')
      /\ h'.used = h.used
      /\ \A u \in h.used \ {m} : h'.next[u] = h.next[u]
      /\ Room(h', m) = RtAlign(size)
  <2>1. CASE ReallocSame(t, m, size)
    BY <2>1, <1>1 DEF ReallocSame
  <2>2. CASE ReallocShrink(t, m, size)
    <3>1. /\ h' = PlugHoles(Split(h, m, RtAlign(size)), m + Hdr + RtAlign(size))
          /\ RtAlign(size) + Hdr + MinSize < h.next[m] - (m + Hdr)
      BY <2>2 DEF ReallocShrink, Room
    <3>2. h.next[m] \in Nat /\ m \in Nat /\ Hdr \in Nat /\ MinSize \in Nat
      BY <1>1, <1>2, Constants DEF HeapList
    <3>3. h.next[m] - (m + Hdr) >= RtAlign(size) + Hdr
      BY <3>1, <3>2, <1>4
    <3> QED  BY <3>1, <3>3, <1>1, <1>3, <1>4, ShrinkOK
  <2> QED  BY <2>1, <2>2
<1>8. Linked' /\ Coalesced'
  BY <1>7 DEF Linked, Coalesced, Dense
<1>9. NoLeak'
  BY <1>3, <1>6, <1>7 DEF NoLeak
<1>10. WantFits'
  <2>1. SUFFICES ASSUME NEW q \in Owned PROVE want'[q] <= Room(h', q)
    BY <1>6 DEF WantFits
  <2>2. CASE q = m
    BY <2>2, <1>4, <1>5, <1>7
  <2>3. CASE q # m
    <3>1. q \in h.used /\ q \in Offset
      BY <2>1, <1>3 DEF Owned
    <3>2. want'[q] = want[q] /\ Room(h', q) = Room(h, q)
      BY <2>3, <3>1, <1>5, <1>7 DEF Room
    <3> QED  BY <2>1, <3>2 DEF HeapInv, WantFits
  <2> QED  BY <2>2, <2>3
<1> QED  BY <1>2, <1>3, <1>5, <1>6, <1>7, <1>8, <1>9, <1>10

LEMMA HeapStarts == HeapInit => HeapInv
<1> SUFFICES ASSUME HeapInit PROVE HeapInv
  OBVIOUS
<1>1. /\ End \in Nat /\ End > 0 /\ End >= Hdr /\ Hdr \in Nat /\ 0 \in Offset /\ End \in Offset
      /\ \A p \in Offset : p \in Nat /\ p <= End
  BY Constants
<1>2. /\ h.blocks = {0, End} /\ h.used = {End} /\ h.lfree = 0
      /\ h.next = [p \in Offset |-> IF p \in {0, End} THEN End ELSE 0]
      /\ h.prev = [p \in Offset |-> IF p = End THEN End ELSE 0]
  BY DEF HeapInit
<1>3. h.next[0] = End /\ h.next[End] = End /\ h.prev[0] = 0
  BY <1>1, <1>2
<1>4. h \in HeapList
  <2>1. /\ h.next \in [Offset -> Offset] /\ h.prev \in [Offset -> Offset]
    BY <1>1, <1>2
  <2>2. h = [blocks |-> h.blocks, next |-> h.next, prev |-> h.prev,
             used |-> h.used, lfree |-> h.lfree]
    BY DEF HeapInit
  <2> QED  BY <2>1, <2>2, <1>1, <1>2 DEF HeapList
<1>5. want \in [Offset -> Sizes \cup {NotGiven}] /\ Owned = {}
  BY DEF HeapInit, Owned
<1>6. job \in [Client -> JobRecord] /\ \A t \in Client : job[t].step = "run"
  BY <1>1 DEF HeapInit, NoJob, JobRecord
<1>7. LinksOK(h)
  BY <1>1, <1>2, <1>3 DEF LinksOK
<1>8. LfreeOK(h) /\ Coalesced
  BY <1>1, <1>2, <1>3 DEF LfreeOK, Coalesced
<1>9. NoLeak /\ WantFits
  BY <1>2, <1>5 DEF NoLeak, WantFits
<1>10. JobsOwn
  BY <1>6 DEF JobsOwn, Held
<1> QED  BY <1>4, <1>5, <1>6, <1>7, <1>8, <1>9, <1>10 DEF HeapInv, HeapType, Linked

\* A step of one thread that leaves the jobs of the others alone keeps every
\* job to its own blocks.
LEMMA JobsStayOwn ==
    ASSUME JobsOwn, NEW t \in Client, job \in [Client -> JobRecord],
           job' \in [Client -> JobRecord],
           \A u \in Client \ {t} : job'[u] = job[u],
           \A u \in Client \ {t} : Held(u) \subseteq Owned' /\ Held(u) \cap Held(t)' = {},
           Held(t)' \subseteq Owned',
           job'[t].step # "run" => job'[t].size \in Sizes,
           job'[t].step = "copy" => job'[t].rmem # job'[t].nmem
    PROVE  JobsOwn'
<1>1. \A u \in Client \ {t} : Held(u)' = Held(u)
  BY DEF Held
<1>2. ASSUME NEW u \in Client
      PROVE  /\ Held(u)' \subseteq Owned'
             /\ job'[u].step # "run" => job'[u].size \in Sizes
             /\ job'[u].step = "copy" => job'[u].rmem # job'[u].nmem
  <2>1. CASE u = t
    BY <2>1
  <2>2. CASE u # t
    BY <2>2, <1>1 DEF JobsOwn
  <2> QED  BY <2>1, <2>2
<1>3. ASSUME NEW u \in Client, NEW v \in Client, u # v
      PROVE  Held(u)' \cap Held(v)' = {}
  <2>1. CASE u = t
    BY <2>1, <1>1, <1>3
  <2>2. CASE v = t
    BY <2>2, <1>1, <1>3
  <2>3. CASE u # t /\ v # t
    BY <2>3, <1>1, <1>3 DEF JobsOwn
  <2> QED  BY <2>1, <2>2, <2>3
<1> QED  BY <1>2, <1>3 DEF JobsOwn

\* Every step of a thread preserves the invariant.
LEMMA HeapStep ==
    ASSUME HeapInv, NEW t \in Client, ClientStep(t)
    PROVE  HeapInv'
<1>1. /\ h \in HeapList /\ want \in [Offset -> Sizes \cup {NotGiven}]
      /\ job \in [Client -> JobRecord] /\ JobsOwn
  BY DEF HeapInv, HeapType
<1>2. /\ Held(t) \subseteq Owned
      /\ job[t].step \in {"run", "expand", "copy"}
      /\ job[t].step # "run" => job[t].size \in Sizes
      /\ job[t].step = "copy" => job[t].rmem # job[t].nmem
      /\ \A u \in Client \ {t} : Held(u) \subseteq Owned /\ Held(u) \cap Held(t) = {}
  BY <1>1 DEF JobsOwn, JobRecord
<1>3. NoJob.step = "run" /\ NoJob \in JobRecord
  BY Constants DEF NoJob, JobRecord
<1>4. ASSUME NEW size \in Sizes, Malloc(t, size) PROVE HeapInv'
  <2>1. PICK p \in h.blocks : Allocate(p, Request(size)) /\ want' = [want EXCEPT ![p] = size]
    BY <1>4 DEF Malloc
  <2>2. Request(size) \in Nat /\ size <= Request(size)
    BY <2>1, RequestFits DEF Allocate
  <2>3. /\ h' \in HeapList /\ want' \in [Offset -> Sizes \cup {NotGiven}]
        /\ Linked' /\ Coalesced' /\ NoLeak' /\ WantFits'
        /\ Owned' = Owned \cup {p}
    BY <2>1, <2>2, GivesOut
  <2>4. job' = job /\ Held(t)' = Held(t)
    BY <1>4 DEF Malloc, Held
  <2>5. JobsOwn'
    BY <2>3, <2>4, <1>1, <1>2, JobsStayOwn
  <2> QED  BY <2>3, <2>4, <2>5, <1>1 DEF HeapInv, HeapType
<1>5. ASSUME NEW size \in Sizes, MallocNull(t, size) PROVE HeapInv'
  BY <1>5, SMTT(30)
  DEF MallocNull, heapVars, HeapInv, HeapType, Linked, Coalesced, NoLeak, Owned, WantFits,
              JobsOwn, Held
<1>6. ASSUME NEW m \in h.blocks, NEW size \in Sizes,
             ReallocSame(t, m, size) \/ ReallocShrink(t, m, size)
      PROVE  HeapInv'
  <2>1. /\ h' \in HeapList /\ want' \in [Offset -> Sizes \cup {NotGiven}]
        /\ Linked' /\ Coalesced' /\ NoLeak' /\ WantFits' /\ Owned' = Owned
    BY <1>6, Resizes
  <2>2. job' = job /\ Held(t)' = Held(t)
    BY <1>6 DEF ReallocSame, ReallocShrink, Held
  <2>3. JobsOwn'
    BY <2>1, <2>2, <1>1, <1>2, JobsStayOwn
  <2> QED  BY <2>1, <2>2, <2>3, <1>1 DEF HeapInv, HeapType
<1>7. ASSUME NEW m \in h.blocks, NEW size \in Sizes, ReallocMove(t, m, size) PROVE HeapInv'
  <2>1. /\ m \in Offset /\ m \in Owned
        /\ \A u \in Client : m \notin Held(u)
    BY <1>7, <1>1 DEF ReallocMove, Reallocates, Settled, HeapList, Owned, Held, JobRecord
  <2>2. /\ h' = h /\ want' = want
        /\ job' = [job EXCEPT ![t] = [step |-> "expand", rmem |-> m, nmem |-> 0, size |-> size]]
    BY <1>7 DEF ReallocMove
  <2>3. /\ job' \in [Client -> JobRecord] /\ job'[t].step = "expand" /\ job'[t].size = size
        /\ job'[t].rmem = m /\ \A u \in Client \ {t} : job'[u] = job[u]
    BY <2>1, <2>2, <1>1, Constants DEF JobRecord
  <2>4. Held(t)' = {m}
    BY <2>3 DEF Held
  <2>5. Owned' = Owned /\ Linked' /\ Coalesced' /\ NoLeak' /\ WantFits'
    BY <2>2 DEF HeapInv, Owned, Linked, Coalesced, NoLeak, WantFits
  <2>6. JobsOwn'
    BY <2>1, <2>3, <2>4, <2>5, <1>1, <1>2, JobsStayOwn
  <2> QED  BY <2>2, <2>3, <2>5, <2>6, <1>1 DEF HeapInv, HeapType
<1>8. ASSUME NEW m \in h.blocks, HeapFree(t, m) PROVE HeapInv'
  <2>1. /\ m \in Owned /\ \A u \in Client : m \notin Held(u)
    BY <1>8, <1>1 DEF HeapFree, Settled, HeapList, Owned, Held, JobRecord
  <2>2. FreeBlock(m) /\ want' = [want EXCEPT ![m] = NotGiven] /\ job' = job
    BY <1>8 DEF HeapFree
  <2>3. /\ h' \in HeapList /\ want' \in [Offset -> Sizes \cup {NotGiven}]
        /\ Linked' /\ Coalesced' /\ NoLeak' /\ WantFits' /\ Owned' = Owned \ {m}
    BY <2>1, <2>2, TakesBack
  <2>4. Held(t)' = Held(t)
    BY <2>2 DEF Held
  <2>5. JobsOwn'
    BY <2>1, <2>2, <2>3, <2>4, <1>1, <1>2, JobsStayOwn
  <2> QED  BY <2>2, <2>3, <2>5, <1>1 DEF HeapInv, HeapType
<1>9. CASE ReallocMalloc(t)
  <2> DEFINE size == job[t].size
  <2>1. PICK p \in h.blocks :
            /\ Allocate(p, Request(RtAlign(size)))
            /\ want' = [want EXCEPT ![p] = size]
            /\ job' = [job EXCEPT ![t] = [@ EXCEPT !.step = "copy", !.nmem = p]]
    BY <1>9 DEF ReallocMalloc
  <2>2. job[t].step = "expand" /\ size \in Sizes
    BY <1>9, <1>2 DEF ReallocMalloc
  <2>3. Request(RtAlign(size)) \in Nat /\ size <= Request(RtAlign(size))
    BY <2>1, <2>2, RequestFits DEF Allocate
  <2>4. /\ h' \in HeapList /\ want' \in [Offset -> Sizes \cup {NotGiven}]
        /\ Linked' /\ Coalesced' /\ NoLeak' /\ WantFits'
        /\ p \in Offset /\ p \notin Owned /\ Owned' = Owned \cup {p}
    BY <2>1, <2>2, <2>3, GivesOut
  <2>5. /\ job' \in [Client -> JobRecord] /\ job'[t].step = "copy" /\ job'[t].size = size
        /\ job'[t].rmem = job[t].rmem /\ job'[t].nmem = p
        /\ \A u \in Client \ {t} : job'[u] = job[u]
    <3>1. /\ job'[t] = [job[t] EXCEPT !.step = "copy", !.nmem = p]
          /\ \A u \in Client \ {t} : job'[u] = job[u]
      BY <2>1, <1>1
    <3>2. job[t] \in JobRecord
      BY <1>1
    <3>3. /\ job'[t] \in JobRecord /\ job'[t].step = "copy" /\ job'[t].size = size
          /\ job'[t].rmem = job[t].rmem /\ job'[t].nmem = p
      BY <3>1, <3>2, <2>4 DEF JobRecord
    <3>4. job' \in [Client -> JobRecord]
      BY <3>1, <3>3, <2>1, <1>1
    <3> QED  BY <3>1, <3>3, <3>4
  <2>6. Held(t)' = {job[t].rmem, p} /\ Held(t) = {job[t].rmem}
    BY <2>2, <2>5 DEF Held
  <2> HIDE DEF size
  <2>7. job[t].rmem # p
    BY <2>4, <2>6, <1>2
  <2>8. JobsOwn'
    BY <2>2, <2>4, <2>5, <2>6, <2>7, <1>1, <1>2, JobsStayOwn
  <2> QED  BY <2>4, <2>5, <2>8 DEF HeapInv, HeapType
<1>10. CASE ReallocNull(t)
  <2>1. h' = h /\ want' = want /\ job' = [job EXCEPT ![t] = NoJob]
    BY <1>10 DEF ReallocNull
  <2>2. /\ job' \in [Client -> JobRecord] /\ job'[t].step = "run"
        /\ \A u \in Client \ {t} : job'[u] = job[u]
    BY <2>1, <1>1, <1>3
  <2>3. Held(t)' = {}
    BY <2>2 DEF Held
  <2>4. Owned' = Owned /\ Linked' /\ Coalesced' /\ NoLeak' /\ WantFits'
    BY <2>1 DEF HeapInv, Owned, Linked, Coalesced, NoLeak, WantFits
  <2>5. JobsOwn'
    BY <2>2, <2>3, <2>4, <1>1, <1>2, JobsStayOwn
  <2> QED  BY <2>1, <2>2, <2>4, <2>5, <1>1 DEF HeapInv, HeapType
<1>11. CASE ReallocFree(t)
  <2> DEFINE m == job[t].rmem
  <2>1. /\ job[t].step = "copy" /\ FreeBlock(m)
        /\ want' = [want EXCEPT ![m] = NotGiven] /\ job' = [job EXCEPT ![t] = NoJob]
    BY <1>11 DEF ReallocFree
  <2>2. m \in Held(t) /\ m \in Owned
    BY <2>1, <1>2 DEF Held
  <2> HIDE DEF m
  <2>3. /\ h' \in HeapList /\ want' \in [Offset -> Sizes \cup {NotGiven}]
        /\ Linked' /\ Coalesced' /\ NoLeak' /\ WantFits' /\ Owned' = Owned \ {m}
    BY <2>1, <2>2, TakesBack
  <2>4. /\ job' \in [Client -> JobRecord] /\ job'[t].step = "run"
        /\ \A u \in Client \ {t} : job'[u] = job[u]
    BY <2>1, <1>1, <1>3
  <2>5. Held(t)' = {}
    BY <2>4 DEF Held
  <2>6. \A u \in Client \ {t} : Held(u) \subseteq Owned'
    BY <2>2, <2>3, <1>2
  <2>7. JobsOwn'
    BY <2>4, <2>5, <2>6, <1>1, <1>2, JobsStayOwn
  <2> QED  BY <2>3, <2>4, <2>7 DEF HeapInv, HeapType
<1> QED  BY <1>4, <1>5, <1>6, <1>7, <1>8, <1>9, <1>10, <1>11 DEF ClientStep

\* The invariant holds at all times.
LEMMA HeapInvariant == HeapSpec => []HeapInv
<1>1. HeapInit => HeapInv
  BY HeapStarts
<1>2. HeapInv /\ [HeapNext]_heapVars => HeapInv'
  <2>1. SUFFICES ASSUME HeapInv, [HeapNext]_heapVars PROVE HeapInv'
    OBVIOUS
  <2>2. CASE HeapNext
    BY <2>1, <2>2, HeapStep DEF HeapNext
  <2>3. CASE UNCHANGED heapVars
    BY <2>1, <2>3 DEF heapVars, HeapInv, HeapType, Linked, Coalesced, NoLeak, Owned, WantFits,
                      JobsOwn, Held
  <2> QED  BY <2>1, <2>2, <2>3
<1> QED  BY <1>1, <1>2, PTL DEF HeapSpec

\* The blocks always tile the heap, with the links between neighbours right,
\* and lfree names a free block (mem.c plug_holes, rt_malloc, rt_realloc).
THEOREM HeapStaysLinked == HeapSpec => []Linked
<1>1. HeapInv => Linked
  BY DEF HeapInv
<1> QED  BY <1>1, HeapInvariant, PTL

\* plug_holes never leaves two free blocks side by side, as the comment in
\* rt_malloc (mem.c) takes for granted.
THEOREM HeapStaysCoalesced == HeapSpec => []Coalesced
<1>1. HeapInv => Coalesced
  BY DEF HeapInv
<1> QED  BY <1>1, HeapInvariant, PTL

\* A block is in use exactly as long as some thread owns it, through every
\* rt_free and every step of a moving rt_realloc.
THEOREM HeapLeaksNothing == HeapSpec => []NoLeak
<1>1. HeapInv => NoLeak
  BY DEF HeapInv
<1> QED  BY <1>1, HeapInvariant, PTL

-----------------------------------------------------------------------------
(***************************************************************************)
(* lfree.  plug_holes only takes blocks away and only lowers lfree, and    *)
(* rt_malloc raises it over no free block.                                 *)
(***************************************************************************)

\* Both halves of plug_holes make one block of two, and lfree follows.
LEMMA AbsorbLowers ==
    ASSUME NEW s \in HeapList, LinksOK(s),
           NEW p \in s.blocks, NEW n \in s.blocks,
           p # End, n # End, s.next[p] = n, n \notin s.used
    PROVE  /\ Absorb(s, p, n).blocks \subseteq s.blocks
           /\ Absorb(s, p, n).lfree <= s.lfree
<1>1. /\ Absorb(s, p, n).blocks = s.blocks \ {n}
      /\ Absorb(s, p, n).lfree = IF s.lfree = n THEN p ELSE s.lfree
  BY AbsorbLinks
<1>2. n >= p + Hdr
  BY DEF LinksOK
<1>3. p \in Nat /\ s.lfree \in Nat /\ Hdr \in Nat /\ n \in Nat
  BY Constants DEF HeapList
<1> QED  BY <1>1, <1>2, <1>3

LEMMA PlugHolesLowers ==
    ASSUME NEW s \in HeapList, LinksOK(s), LfreeOK(s),
           NEW m \in s.blocks, m \notin s.used, DenseBut(s, m)
    PROVE  /\ PlugHoles(s, m).blocks \subseteq s.blocks
           /\ PlugHoles(s, m).lfree <= s.lfree
<1> DEFINE f == PlugForward(s, m)
           r == PlugBackward(f, m)
<1>1. /\ f \in HeapList /\ LinksOK(f) /\ f.used = s.used /\ m \in f.blocks
  BY PlugForwardOK
<1>2. s.lfree \in Nat /\ f.lfree \in Nat
  BY <1>1, Constants DEF HeapList
<1>3. f.blocks \subseteq s.blocks /\ f.lfree <= s.lfree
  <2>1. CASE s.next[m] \notin s.used /\ s.next[m] # End
    <3>1. f = Absorb(s, m, s.next[m])
      BY <2>1 DEF PlugForward
    <3>2. m # End /\ s.next[m] \in s.blocks
      BY DEF LinksOK
    <3> QED  BY <2>1, <3>1, <3>2, AbsorbLowers
  <2>2. CASE ~ (s.next[m] \notin s.used /\ s.next[m] # End)
    BY <2>2, <1>2 DEF PlugForward
  <2> QED  BY <2>1, <2>2
<1> HIDE DEF f
<1>4. r.blocks \subseteq f.blocks /\ r.lfree <= f.lfree
  <2>1. CASE f.prev[m] # m /\ f.prev[m] \notin f.used
    <3>1. r = Absorb(f, f.prev[m], m)
      BY <2>1 DEF PlugBackward
    <3>2. m # 0 /\ m # End
      BY <2>1, <1>1 DEF LinksOK
    <3>3. f.prev[m] \in f.blocks /\ f.prev[m] # End /\ f.next[f.prev[m]] = m
      BY <3>2, <1>1 DEF LinksOK
    <3> QED  BY <3>1, <3>2, <3>3, <1>1, AbsorbLowers
  <2>2. CASE ~ (f.prev[m] # m /\ f.prev[m] \notin f.used)
    BY <2>2, <1>2 DEF PlugBackward
  <2> QED  BY <2>1, <2>2
<1>5. r = PlugHoles(s, m)
  BY DEF PlugHoles, f
<1> HIDE DEF r
<1>6. r.lfree \in Nat
  BY <1>5, PlugHolesOK, Constants DEF HeapList
<1> QED  BY <1>2, <1>3, <1>4, <1>5, <1>6

\* A free block below lfree after rt_malloc was a free block below it before.
LEMMA TakeRaises ==
    ASSUME h \in HeapList, LinksOK(h), LfreeOK(h), Dense(h),
           NEW size \in Nat, NEW p \in Candidates(size),
           NEW x \in Take(p, size).blocks \ Take(p, size).used, x < Take(p, size).lfree
    PROVE  x \in h.blocks \ h.used /\ x < h.lfree
<1> DEFINE s == [h EXCEPT !.used = @ \cup {p}]
           q == p + Hdr + size
           r == IF Room(h, p) >= size + Hdr + MinSizeAligned THEN Split(s, p, size) ELSE s
           S == {y \in r.blocks : y >= p /\ (y \notin r.used \/ y = End)}
           a == AdvanceLfree(r, p)
<1>1. p \in h.blocks /\ p \notin h.used /\ h.lfree <= p
  BY DEF Candidates
<1>2. /\ p \in Nat /\ h.lfree \in Nat /\ Hdr \in Nat /\ Hdr > 0 /\ End \in Nat /\ p <= End
      /\ End \in h.blocks /\ h.blocks \subseteq Nat
  BY <1>1, Constants DEF HeapList, LinksOK
<1>3. /\ r.blocks \in {h.blocks, h.blocks \cup {q}} /\ r.used = h.used \cup {p}
      /\ r.lfree = h.lfree
  BY DEF HeapList, Split
<1>4. q \in Nat /\ q > p
  BY <1>2
<1>5. a = Take(p, size)
  BY DEF Take
<1>6. a.blocks = r.blocks /\ a.used = r.used
      /\ a.lfree = IF r.lfree = p THEN Min(S) ELSE r.lfree
  BY DEF AdvanceLfree, HeapList, Split
<1> HIDE DEF r, a, q
<1>7. S \subseteq Nat /\ End \in S
  BY <1>2, <1>3, <1>4
<1>8. \A y \in S : Min(S) <= y
  BY <1>7, SmallestNat
<1>9. x \in r.blocks /\ x \notin r.used /\ x < a.lfree
  BY <1>5, <1>6
<1>10. x \in Nat /\ Min(S) \in Nat
  BY <1>2, <1>3, <1>4, <1>7, <1>9, SmallestNat
<1>11. x < h.lfree
  <2>1. CASE h.lfree = p
    <3>1. x < Min(S)
      BY <2>1, <1>3, <1>6, <1>9
    <3>2. x \notin S
      BY <3>1, <1>8, <1>10
    <3> QED  BY <2>1, <3>2, <1>2, <1>9, <1>10
  <2>2. CASE h.lfree # p
    BY <2>2, <1>3, <1>6, <1>9
  <2> QED  BY <2>1, <2>2
<1>12. x # q
  BY <1>1, <1>2, <1>4, <1>11
<1> QED  BY <1>3, <1>9, <1>11, <1>12

\* Every step of a thread leaves below lfree only free blocks that rt_realloc
\* has cut.
LEMMA LowestFreeStep ==
    ASSUME HeapInv, HeapInv', LowestFree, NEW t \in Client, ClientStep(t)
    PROVE  LowestFree'
<1>1. h \in HeapList /\ LinksOK(h) /\ LfreeOK(h) /\ Dense(h)
  BY DEF HeapInv, HeapType, Linked, Coalesced, Dense
<1>2. h.lfree \in Nat /\ h'.lfree \in Nat /\ h.blocks \subseteq Nat
  <2>1. h' \in HeapList
    BY DEF HeapInv, HeapType
  <2> QED  BY <1>1, <2>1, Constants DEF HeapList
<1>3. ASSUME NEW p, NEW size \in Nat, Allocate(p, size) PROVE LowestFree'
  <2>1. p \in Candidates(size) /\ h' = Take(p, size) /\ cut' = cut \cap (h'.blocks \ h'.used)
    BY <1>3 DEF Allocate
  <2>2. ASSUME NEW x \in h'.blocks \ h'.used, x < h'.lfree PROVE x \in cut'
    <3>1. x \in h.blocks \ h.used /\ x < h.lfree
      BY <2>1, <2>2, <1>1, TakeRaises
    <3> QED  BY <2>1, <3>1 DEF LowestFree
  <2> QED  BY <2>2 DEF LowestFree
<1>4. ASSUME NEW m \in Owned, FreeBlock(m) PROVE LowestFree'
  <2> DEFINE s == [h EXCEPT !.used = @ \ {m}, !.lfree = IF m < @ THEN m ELSE @]
  <2>1. h' = PlugHoles(s, m) /\ cut' = cut \cap (h'.blocks \ h'.used)
    BY <1>4 DEF FreeBlock
  <2>2. m \in h.used /\ m # End /\ m \in Offset /\ m \in h.blocks /\ m \in Nat
    BY <1>1, <1>4, Constants DEF HeapInv, NoLeak, Owned, LinksOK
  <2>3. /\ s.blocks = h.blocks /\ s.used = h.used \ {m}
        /\ s.next = h.next /\ s.prev = h.prev
        /\ s.lfree = IF m < h.lfree THEN m ELSE h.lfree
    BY <1>1 DEF HeapList
  <2>4. s \in HeapList
    <3>1. (h.used \ {m}) \in SUBSET Offset /\ (IF m < h.lfree THEN m ELSE h.lfree) \in Offset
      BY <2>2, <1>1 DEF HeapList
    <3> QED  BY <3>1, <1>1 DEF HeapList
  <2> HIDE DEF s
  <2>5. LinksOK(s) /\ LfreeOK(s) /\ DenseBut(s, m)
    <3>1. LinksOK(s)
      BY <2>2, <2>3, <1>1 DEF LinksOK
    <3>2. LfreeOK(s)
      BY <2>2, <2>3, <1>1 DEF LfreeOK
    <3>3. DenseBut(s, m)
      BY <2>3, <1>1 DEF Dense, DenseBut
    <3> QED  BY <3>1, <3>2, <3>3
  <2>6. m \in s.blocks /\ m \notin s.used
    BY <2>2, <2>3
  <2>7. h'.blocks \subseteq h.blocks /\ h'.lfree <= s.lfree /\ h'.used = h.used \ {m}
    BY <2>1, <2>3, <2>4, <2>5, <2>6, PlugHolesLowers, PlugHolesOK
  <2>8. ASSUME NEW x \in h'.blocks \ h'.used, x < h'.lfree PROVE x \in cut'
    <3>1. x \in h.blocks /\ x < m /\ x < h.lfree
      BY <2>2, <2>3, <2>7, <2>8, <1>2
    <3>2. x \notin h.used
      BY <3>1, <2>2, <2>7, <2>8
    <3> QED  BY <2>1, <2>8, <3>1, <3>2 DEF LowestFree
  <2> QED  BY <2>8 DEF LowestFree
<1>5. ASSUME NEW m \in h.blocks, NEW size \in Sizes, ReallocShrink(t, m, size) PROVE LowestFree'
  <2> DEFINE q == m + Hdr + RtAlign(size)
             s == Split(h, m, RtAlign(size))
  <2>1. /\ h' = PlugHoles(s, q) /\ cut' = (cut \cup {q}) \cap (h'.blocks \ h'.used)
        /\ RtAlign(size) + Hdr + MinSize < h.next[m] - (m + Hdr)
        /\ want[m] # NotGiven
    BY <1>5 DEF ReallocShrink, Room, Reallocates, Settled
  <2>2. m \in h.used /\ m # End /\ m \in Offset
    BY <2>1, <1>1 DEF HeapInv, NoLeak, Owned, HeapList
  <2>3. /\ h.next[m] \in Nat /\ m \in Nat /\ Hdr \in Nat /\ MinSize \in Nat
        /\ RtAlign(size) \in Nat
    BY <1>1, <2>2, Constants, HeapAssumption DEF HeapList
  <2>4. h.next[m] >= q + Hdr
    BY <2>1, <2>3
  <2>5. /\ s \in HeapList /\ LinksOK(s)
        /\ s.blocks = h.blocks \cup {q} /\ s.used = h.used /\ s.lfree = h.lfree
        /\ s.next[q] = h.next[m]
        /\ \A x \in Offset \ {m, q} : s.next[x] = h.next[x]
        /\ q \notin h.blocks
    BY <1>1, <2>2, <2>3, <2>4, SplitLinks
  <2> HIDE DEF s, q
  <2>6. q \in s.blocks /\ q \notin s.used
    BY <2>5, <1>1 DEF LinksOK
  <2>7. LfreeOK(s)
    BY <2>5, <1>1 DEF LfreeOK
  <2>8. DenseBut(s, q)
    <3>1. SUFFICES ASSUME NEW x \in s.blocks \ s.used, x # q PROVE s.next[x] \in s.used
      BY DEF DenseBut
    <3>2. x \in h.blocks \ h.used /\ x # m /\ x \in Offset
      BY <3>1, <2>2, <2>5, <1>1 DEF HeapList
    <3> QED  BY <3>1, <3>2, <2>5, <1>1 DEF Dense
  <2>9. h'.blocks \subseteq h.blocks \cup {q} /\ h'.lfree <= h.lfree /\ h'.used = h.used
    BY <2>1, <2>5, <2>6, <2>7, <2>8, PlugHolesLowers, PlugHolesOK
  <2>10. ASSUME NEW x \in h'.blocks \ h'.used, x < h'.lfree PROVE x \in cut'
    <3>1. CASE x = q
      BY <3>1, <2>1, <2>10
    <3>2. CASE x # q
      <4>1. x \in h.blocks \ h.used /\ x < h.lfree
        BY <3>2, <2>9, <2>10, <1>2
      <4> QED  BY <4>1, <2>1, <2>10 DEF LowestFree
    <3> QED  BY <3>1, <3>2
  <2> QED  BY <2>10 DEF LowestFree
<1>6. ASSUME h' = h, cut' = cut PROVE LowestFree'
  BY <1>6 DEF LowestFree
<1>7. /\ job[t].step = "copy" => job[t].rmem \in Owned
      /\ job[t].step # "run" => job[t].size \in Sizes
  BY DEF HeapInv, JobsOwn, Held
<1>8. ASSUME NEW size \in Sizes, Malloc(t, size) PROVE LowestFree'
  <2>1. PICK p \in h.blocks : Allocate(p, Request(size))
    BY <1>8 DEF Malloc
  <2>2. Request(size) \in Nat
    BY <2>1, RequestFits DEF Allocate
  <2> QED  BY <2>1, <2>2, <1>3
<1>9. CASE ReallocMalloc(t)
  <2>1. PICK p \in h.blocks : Allocate(p, Request(RtAlign(job[t].size)))
    BY <1>9 DEF ReallocMalloc
  <2>2. job[t].size \in Sizes
    BY <1>7, <1>9 DEF ReallocMalloc
  <2>3. Request(RtAlign(job[t].size)) \in Nat
    BY <2>1, <2>2, RequestFits DEF Allocate
  <2> QED  BY <2>1, <2>3, <1>3
<1>10. ASSUME NEW m \in h.blocks, HeapFree(t, m) PROVE LowestFree'
  <2>1. m \in Owned /\ FreeBlock(m)
    BY <1>1, <1>10 DEF HeapFree, Settled, HeapList, Owned
  <2> QED  BY <2>1, <1>4
<1>11. CASE ReallocFree(t)
  BY <1>4, <1>7, <1>11 DEF ReallocFree
<1>12. ASSUME NEW m \in h.blocks, NEW size \in Sizes,
              ReallocSame(t, m, size) \/ ReallocMove(t, m, size)
       PROVE  LowestFree'
  BY <1>6, <1>12 DEF ReallocSame, ReallocMove
<1>13. ASSUME NEW size \in Sizes, MallocNull(t, size) PROVE LowestFree'
  BY <1>6, <1>13 DEF MallocNull, heapVars
<1>14. CASE ReallocNull(t)
  BY <1>6, <1>14 DEF ReallocNull
<1> QED  BY <1>5, <1>8, <1>9, <1>10, <1>11, <1>12, <1>13, <1>14 DEF ClientStep

\* lfree is at all times the lowest free block but for those that rt_realloc
\* has cut off a block (mem.c:444): rt_malloc skips no other free block by
\* starting its search at lfree.
THEOREM HeapSearchesFromTheLowest == HeapSpec => []LowestFree
<1>1. HeapInit => LowestFree
  <2>1. SUFFICES ASSUME HeapInit PROVE LowestFree
    OBVIOUS
  <2>2. h.blocks = {0, End} /\ h.used = {End} /\ h.lfree = 0
    BY <2>1 DEF HeapInit
  <2> QED  BY <2>2 DEF LowestFree
<1>2. HeapInv /\ HeapInv' /\ LowestFree /\ [HeapNext]_heapVars => LowestFree'
  <2>1. SUFFICES ASSUME HeapInv, HeapInv', LowestFree, [HeapNext]_heapVars PROVE LowestFree'
    OBVIOUS
  <2>2. CASE HeapNext
    BY <2>1, <2>2, LowestFreeStep DEF HeapNext
  <2>3. CASE UNCHANGED heapVars
    BY <2>1, <2>3 DEF heapVars, LowestFree
  <2> QED  BY <2>1, <2>2, <2>3
<1> QED  BY <1>1, <1>2, HeapInvariant, PTL DEF HeapSpec

-----------------------------------------------------------------------------
(***************************************************************************)
(* The statistics.  A block that is given out adds its bytes to those in   *)
(* use, which no other block in use has.                                   *)
(***************************************************************************)

\* A heap with one more block in use has the bytes of that block more.
LEMMA BytesGained ==
    ASSUME NEW s, NEW r \in HeapList, LinksOK(r),
           NEW p \in r.used \ {End}, p \notin s.used, r.used = s.used \cup {p},
           \A u \in s.used : s.next[u] = r.next[u]
    PROVE  /\ Cardinality(UsedBytes(s)) \in Nat
           /\ Cardinality(UsedBytes(r)) = Cardinality(UsedBytes(s)) + (r.next[p] - p)
<1> DEFINE I == p .. r.next[p] - 1
<1>1. /\ r.used \subseteq r.blocks /\ r.blocks \subseteq Offset /\ r.next \in [Offset -> Offset]
  BY DEF HeapList, LinksOK
<1>2. /\ p \in Nat /\ r.next[p] \in Nat /\ r.next[p] <= End /\ End \in Nat /\ p < r.next[p]
  <2>1. p \in r.blocks \ {End} /\ p \in Offset
    BY <1>1
  <2>2. r.next[p] >= p + Hdr
    BY <2>1 DEF LinksOK
  <2>3. r.next[p] \in Offset
    BY <1>1, <2>1
  <2>4. p \in Nat /\ r.next[p] \in Nat /\ r.next[p] <= End /\ End \in Nat
    BY <2>1, <2>3, Constants
  <2>5. Hdr \in Nat /\ Hdr > 0
    BY Constants
  <2> QED  BY <2>2, <2>4, <2>5
<1>3. \A u \in s.used : u \in Nat /\ r.next[u] \in Nat
  BY <1>1, Constants
<1>4. ASSUME NEW u \in s.used, NEW x \in I, u <= x, x < r.next[u] PROVE FALSE
  <2>1. u \in r.blocks /\ p \in r.blocks \ {End} /\ u # p
    BY <1>1, <1>4
  <2>2. u <= p \/ r.next[p] <= u
    BY <2>1 DEF LinksOK
  <2>3. u # End => p <= u \/ r.next[u] <= p
    BY <2>1 DEF LinksOK
  <2>4. u = End => r.next[u] = u
    BY DEF LinksOK
  <2>5. x \in Nat /\ p <= x /\ x < r.next[p]
    BY <1>2, <1>4
  <2> QED  BY <1>2, <1>3, <1>4, <2>1, <2>2, <2>3, <2>4, <2>5
<1>5. UsedBytes(r) = UsedBytes(s) \cup I
  <2>1. ASSUME NEW x \in UsedBytes(r) PROVE x \in UsedBytes(s) \cup I
    <3>1. PICK u \in r.used : u <= x /\ x < r.next[u]
      BY <2>1 DEF UsedBytes
    <3>2. x \in 0 .. End - 1
      BY <2>1 DEF UsedBytes
    <3>3. CASE u = p
      BY <3>1, <3>2, <3>3, <1>2
    <3>4. CASE u # p
      BY <3>1, <3>2, <3>4 DEF UsedBytes
    <3> QED  BY <3>3, <3>4
  <2>2. ASSUME NEW x \in UsedBytes(s) PROVE x \in UsedBytes(r)
    BY <2>2 DEF UsedBytes
  <2>3. ASSUME NEW x \in I PROVE x \in UsedBytes(r)
    <3>1. x \in 0 .. End - 1 /\ p <= x /\ x < r.next[p]
      BY <2>3, <1>2
    <3> QED  BY <3>1 DEF UsedBytes
  <2> HIDE DEF I
  <2> QED  BY <2>1, <2>2, <2>3
<1>6. UsedBytes(s) \cap I = {}
  <2>1. ASSUME NEW x \in UsedBytes(s), x \in I PROVE FALSE
    <3>1. PICK u \in s.used : u <= x /\ x < s.next[u]
      BY <2>1 DEF UsedBytes
    <3> QED  BY <3>1, <2>1, <1>4
  <2> HIDE DEF I
  <2> QED  BY <2>1
<1>7. IsFiniteSet(UsedBytes(s))
  <2>1. UsedBytes(s) \in SUBSET (0 .. End - 1)
    BY DEF UsedBytes
  <2>2. IsFiniteSet(0 .. End - 1)
    BY <1>2, FS_Interval
  <2> QED  BY <2>1, <2>2, FS_Subset
<1>8. IsFiniteSet(I) /\ Cardinality(I) = r.next[p] - p
  <2>1. p \in Int /\ r.next[p] - 1 \in Int
    BY <1>2
  <2>2. /\ IsFiniteSet(I)
        /\ Cardinality(I) = IF p > r.next[p] - 1 THEN 0 ELSE (r.next[p] - 1) - p + 1
    BY <2>1, FS_Interval
  <2> HIDE DEF I
  <2> QED  BY <2>2, <1>2
<1> HIDE DEF I
<1>9. Cardinality(UsedBytes(s)) \in Nat
  BY <1>7, FS_CardinalityType
<1>10. Cardinality(UsedBytes(r)) =
          Cardinality(UsedBytes(s)) + Cardinality(I) - Cardinality({})
  BY <1>5, <1>6, <1>7, <1>8, FS_Union
<1> QED  BY <1>2, <1>8, <1>9, <1>10, FS_EmptySet

\* There are no more bytes in use than the heap has.
LEMMA BytesBounded ==
    ASSUME NEW s
    PROVE  Cardinality(UsedBytes(s)) \in 0 .. End
<1>1. UsedBytes(s) \in SUBSET (0 .. End - 1)
  BY DEF UsedBytes
<1>2. IsFiniteSet(0 .. End - 1) /\ Cardinality(0 .. End - 1) = End
  <2>1. 0 \in Int /\ End - 1 \in Int /\ End \in Nat /\ End > 0
    BY Constants
  <2>2. /\ IsFiniteSet(0 .. End - 1)
        /\ Cardinality(0 .. End - 1) = IF 0 > End - 1 THEN 0 ELSE (End - 1) - 0 + 1
    BY <2>1, FS_Interval
  <2> QED  BY <2>1, <2>2
<1>3. Cardinality(UsedBytes(s)) \in Nat /\ Cardinality(UsedBytes(s)) <= End
  BY <1>1, <1>2, FS_Subset, FS_CardinalityType
<1> QED  BY <1>3, Constants

\* Where the block that rt_malloc takes ends, as used_mem counts it.
LEMMA TakeEnds ==
    ASSUME h \in HeapList, LinksOK(h), NEW size \in Nat, NEW p \in Candidates(size)
    PROVE  Take(p, size).next[p] - p =
             IF Room(h, p) >= size + Hdr + MinSizeAligned THEN size + Hdr ELSE h.next[p] - p
<1> DEFINE s == [h EXCEPT !.used = @ \cup {p}]
           r == IF Room(h, p) >= size + Hdr + MinSizeAligned THEN Split(s, p, size) ELSE s
<1>1. p \in h.blocks /\ p \in Offset /\ h.next \in [Offset -> Offset]
  BY DEF Candidates, HeapList
<1>2. p \in Nat /\ Hdr \in Nat /\ Hdr > 0
  BY <1>1, Constants
<1>3. Take(p, size) = AdvanceLfree(r, p)
  BY DEF Take
<1>4. AdvanceLfree(r, p).next = r.next
  BY DEF AdvanceLfree, Split, HeapList
<1>5. CASE Room(h, p) >= size + Hdr + MinSizeAligned
  <2>1. r.next = [h.next EXCEPT ![p + Hdr + size] = h.next[p], ![p] = p + Hdr + size]
    BY <1>5 DEF Split, HeapList
  <2>2. r.next[p] = p + Hdr + size
    BY <2>1, <1>1
  <2> QED  BY <2>2, <1>2, <1>3, <1>4, <1>5
<1>6. CASE ~ (Room(h, p) >= size + Hdr + MinSizeAligned)
  <2>1. r.next = h.next
    BY <1>6 DEF HeapList
  <2> QED  BY <2>1, <1>3, <1>4, <1>6
<1> QED  BY <1>5, <1>6

\* Every step of a thread keeps the statistics exact.
LEMMA StatisticsStep ==
    ASSUME HeapInv, HeapInv', UsedMemExact, NEW t \in Client, ClientStep(t)
    PROVE  UsedMemExact'
<1> DEFINE bytes == Cardinality(UsedBytes(h))
<1>1. h \in HeapList /\ LinksOK(h) /\ LfreeOK(h) /\ Dense(h)
  BY DEF HeapInv, HeapType, Linked, Coalesced, Dense
<1>2. h' \in HeapList /\ LinksOK(h')
  BY DEF HeapInv, HeapType, Linked
<1>3. /\ used_mem = bytes /\ used_mem \in Nat /\ max_mem \in Nat /\ used_mem <= max_mem
      /\ max_mem <= End /\ End \in Nat /\ cut \subseteq Offset
  BY Constants DEF UsedMemExact, HeapTypeOK
<1>4. bytes' \in Nat /\ bytes' <= End
  <2>1. Cardinality(UsedBytes(h')) \in 0 .. End
    BY BytesBounded
  <2> QED  BY <2>1, <1>3
<1> HIDE DEF bytes
<1>5. ASSUME used_mem' = bytes', max_mem' \in Nat, used_mem' <= max_mem', max_mem' <= End,
             cut' \subseteq Offset
      PROVE  UsedMemExact'
  <2>1. used_mem' \in 0 .. End /\ max_mem' \in used_mem' .. End
    BY <1>3, <1>4, <1>5
  <2>2. /\ h' \in HeapList /\ want' \in [Offset -> Sizes \cup {NotGiven}]
        /\ job' \in [Client -> JobRecord]
    BY DEF HeapInv, HeapType
  <2> QED  BY <1>5, <2>1, <2>2 DEF UsedMemExact, HeapTypeOK, JobRecord, bytes
<1>6. ASSUME NEW p, NEW size \in Nat, Allocate(p, size) PROVE UsedMemExact'
  <2>1. p \in Candidates(size) /\ h' = Take(p, size) /\ CountTake(p, size)
        /\ cut' \subseteq cut
    BY <1>6 DEF Allocate
  <2>2. /\ p \in Offset \ {End} /\ p \notin h.used /\ h'.used = h.used \cup {p}
        /\ \A u \in h.used : h'.next[u] = h.next[u]
    BY <2>1, <1>1, TakeOK
  <2>3. /\ bytes \in Nat /\ bytes' = bytes + (h'.next[p] - p)
    BY <2>2, <1>2, BytesGained DEF bytes
  <2>4. used_mem' = used_mem + (h'.next[p] - p)
    BY <2>1, <1>1, TakeEnds DEF CountTake
  <2>5. max_mem' = Max({max_mem, used_mem'})
    BY <2>1 DEF CountTake
  <2>6. max_mem' \in {max_mem, used_mem'} /\ max_mem <= max_mem' /\ used_mem' <= max_mem'
    <3>1. used_mem' \in Nat
      BY <2>3, <2>4, <1>3, <1>4
    <3>2. \E x \in {max_mem, used_mem'} : \A y \in {max_mem, used_mem'} : x >= y
      BY <3>1, <1>3
    <3>3. /\ Max({max_mem, used_mem'}) \in {max_mem, used_mem'}
          /\ \A y \in {max_mem, used_mem'} : Max({max_mem, used_mem'}) >= y
      BY <3>2 DEF Max
    <3> QED  BY <2>5, <3>1, <3>3, <1>3
  <2> QED  BY <2>1, <2>3, <2>4, <2>6, <1>3, <1>4, <1>5
<1>7. ASSUME NEW m \in Owned, FreeBlock(m) PROVE UsedMemExact'
  <2>1. m \in h.used \ {End}
    BY <1>7 DEF HeapInv, NoLeak
  <2>2. h'.used = h.used \ {m} /\ \A u \in h.used \ {m} : h'.next[u] = h.next[u]
    BY <2>1, <1>1, <1>7, FreeOK
  <2>3. bytes' \in Nat /\ bytes = bytes' + (h.next[m] - m)
    BY <2>1, <2>2, <1>1, BytesGained DEF bytes
  <2>4. used_mem' = used_mem - (h.next[m] - m) /\ max_mem' = max_mem /\ cut' \subseteq cut
    BY <1>7 DEF FreeBlock
  <2>5. h.next[m] \in Nat /\ m \in Nat /\ m <= h.next[m]
    <3>1. m \in h.blocks \ {End} /\ m \in Offset /\ h.next[m] \in Offset
      BY <2>1, <1>1 DEF LinksOK, HeapList
    <3>2. h.next[m] >= m + Hdr
      BY <3>1, <1>1 DEF LinksOK
    <3>3. m \in Nat /\ h.next[m] \in Nat /\ Hdr \in Nat
      BY <3>1, Constants
    <3> QED  BY <3>2, <3>3
  <2>6. used_mem' = bytes' /\ used_mem' <= max_mem'
    BY <2>3, <2>4, <2>5, <1>3, <1>4
  <2> QED  BY <2>4, <2>6, <1>3, <1>5
<1>8. ASSUME NEW m \in h.blocks, NEW size \in Sizes, ReallocShrink(t, m, size) PROVE UsedMemExact'
  <2> DEFINE q == m + Hdr + RtAlign(size)
             s == [h EXCEPT !.used = @ \ {m}]
  <2>1. /\ h' = PlugHoles(Split(h, m, RtAlign(size)), q)
        /\ cut' = (cut \cup {q}) \cap (h'.blocks \ h'.used)
        /\ RtAlign(size) + Hdr + MinSize < h.next[m] - (m + Hdr)
        /\ want[m] # NotGiven
        /\ used_mem' = used_mem - ((h.next[m] - (m + Hdr)) - RtAlign(size))
        /\ max_mem' = max_mem
    BY <1>8 DEF ReallocShrink, Room, Reallocates, Settled
  <2>2. m \in h.used \ {End} /\ m \in Offset
    BY <2>1, <1>1 DEF HeapInv, NoLeak, Owned, HeapList
  <2>3. /\ h.next[m] \in Nat /\ m \in Nat /\ Hdr \in Nat /\ MinSize \in Nat
        /\ RtAlign(size) \in Nat
    BY <1>1, <2>2, Constants, HeapAssumption DEF HeapList
  <2>4. h.next[m] - (m + Hdr) >= RtAlign(size) + Hdr
    BY <2>1, <2>3
  <2>5. /\ h'.used = h.used /\ Room(h', m) = RtAlign(size)
        /\ \A u \in h.used \ {m} : h'.next[u] = h.next[u]
    BY <2>1, <2>2, <2>3, <2>4, <1>1, ShrinkOK
  <2>6. s.used = h.used \ {m} /\ s.next = h.next
    BY <1>1 DEF HeapList
  <2> HIDE DEF s
  <2>7. bytes = Cardinality(UsedBytes(s)) + (h.next[m] - m) /\ Cardinality(UsedBytes(s)) \in Nat
    BY <2>2, <2>6, <1>1, BytesGained DEF bytes
  <2>8. bytes' = Cardinality(UsedBytes(s)) + (h'.next[m] - m)
    <3>1. \A u \in s.used : s.next[u] = h'.next[u]
      BY <2>5, <2>6
    <3> QED  BY <3>1, <2>2, <2>5, <2>6, <1>2, BytesGained DEF bytes
  <2>9. h'.next[m] \in Nat /\ h'.next[m] - (m + Hdr) = RtAlign(size)
    <3>1. h'.next[m] \in Offset
      BY <2>2, <1>2 DEF HeapList
    <3> QED  BY <3>1, <2>5, Constants DEF Room
  <2> HIDE DEF q
  <2>10. used_mem' = bytes' /\ used_mem' <= max_mem'
    BY <2>1, <2>3, <2>4, <2>7, <2>8, <2>9, <1>3, <1>4
  <2>11. cut' \subseteq Offset
    BY <2>1, <1>2 DEF HeapList
  <2> QED  BY <2>1, <2>10, <2>11, <1>3, <1>5
<1>9. ASSUME h' = h, used_mem' = used_mem, max_mem' = max_mem, cut' = cut PROVE UsedMemExact'
  <2>1. bytes' = bytes
    BY <1>9 DEF bytes, UsedBytes
  <2> QED  BY <2>1, <1>3, <1>5, <1>9
<1>10. /\ job[t].step = "copy" => job[t].rmem \in Owned
       /\ job[t].step # "run" => job[t].size \in Sizes
  BY DEF HeapInv, JobsOwn, Held
<1>11. ASSUME NEW size \in Sizes, Malloc(t, size) PROVE UsedMemExact'
  <2>1. PICK p \in h.blocks : Allocate(p, Request(size))
    BY <1>11 DEF Malloc
  <2>2. Request(size) \in Nat
    BY <2>1, RequestFits DEF Allocate
  <2> QED  BY <2>1, <2>2, <1>6
<1>12. CASE ReallocMalloc(t)
  <2>1. PICK p \in h.blocks : Allocate(p, Request(RtAlign(job[t].size)))
    BY <1>12 DEF ReallocMalloc
  <2>2. job[t].size \in Sizes
    BY <1>10, <1>12 DEF ReallocMalloc
  <2>3. Request(RtAlign(job[t].size)) \in Nat
    BY <2>1, <2>2, RequestFits DEF Allocate
  <2> QED  BY <2>1, <2>3, <1>6
<1>13. ASSUME NEW m \in h.blocks, HeapFree(t, m) PROVE UsedMemExact'
  <2>1. m \in Owned /\ FreeBlock(m)
    BY <1>1, <1>13 DEF HeapFree, Settled, HeapList, Owned
  <2> QED  BY <2>1, <1>7
<1>14. CASE ReallocFree(t)
  BY <1>7, <1>10, <1>14 DEF ReallocFree
<1>15. ASSUME NEW m \in h.blocks, NEW size \in Sizes,
              ReallocSame(t, m, size) \/ ReallocMove(t, m, size)
       PROVE  UsedMemExact'
  BY <1>9, <1>15 DEF ReallocSame, ReallocMove
<1>16. ASSUME NEW size \in Sizes, MallocNull(t, size) PROVE UsedMemExact'
  BY <1>9, <1>16 DEF MallocNull, heapVars
<1>17. CASE ReallocNull(t)
  BY <1>9, <1>17 DEF ReallocNull
<1> QED  BY <1>8, <1>11, <1>12, <1>13, <1>14, <1>15, <1>16, <1>17 DEF ClientStep

\* used_mem is at all times the number of bytes in the blocks in use, through
\* splits, merges and the in-place and the moving rt_realloc, and max_mem is
\* never below it (mem.c, RT_MEM_STATS).
THEOREM HeapCountsExactly == HeapSpec => []UsedMemExact
<1>1. HeapInit => UsedMemExact
  <2>1. SUFFICES ASSUME HeapInit PROVE UsedMemExact
    OBVIOUS
  <2>2. /\ h.used = {End} /\ h.next[End] = End /\ used_mem = 0 /\ max_mem = 0 /\ cut = {}
    BY <2>1, Constants DEF HeapInit
  <2>3. UsedBytes(h) = {}
    BY <2>2, Constants DEF UsedBytes
  <2>4. used_mem = Cardinality(UsedBytes(h))
    BY <2>2, <2>3, FS_EmptySet
  <2>5. used_mem \in 0 .. End /\ max_mem \in used_mem .. End
    BY <2>2, Constants
  <2>6. HeapType
    BY <2>1, HeapStarts DEF HeapInv
  <2> QED  BY <2>2, <2>4, <2>5, <2>6 DEF UsedMemExact, HeapTypeOK, HeapType, JobRecord
<1>2. HeapInv /\ HeapInv' /\ UsedMemExact /\ [HeapNext]_heapVars => UsedMemExact'
  <2>1. SUFFICES ASSUME HeapInv, HeapInv', UsedMemExact, [HeapNext]_heapVars PROVE UsedMemExact'
    OBVIOUS
  <2>2. CASE HeapNext
    BY <2>1, <2>2, StatisticsStep DEF HeapNext
  <2>3. CASE UNCHANGED heapVars
    BY <2>1, <2>3 DEF heapVars, UsedMemExact, HeapTypeOK, UsedBytes
  <2> QED  BY <2>1, <2>2, <2>3
<1> QED  BY <1>1, <1>2, HeapInvariant, PTL DEF HeapSpec

-----------------------------------------------------------------------------
(***************************************************************************)
(* The refinement.                                                         *)
(***************************************************************************)

\* Data that fit into different blocks have no byte in common.
LEMMA DataApart ==
    ASSUME NEW s \in HeapList, LinksOK(s), NEW p \in s.used \ {End}, NEW q \in s.used \ {End},
           NEW v \in Nat, NEW w \in Nat, v <= Room(s, p), w <= Room(s, q)
    PROVE  /\ p + Hdr + v <= End
           /\ p # q => /\ p + Hdr # q + Hdr
                       /\ (p + Hdr) + v <= q + Hdr \/ (q + Hdr) + w <= p + Hdr
<1>1. /\ s.used \subseteq s.blocks /\ s.blocks \subseteq Offset
      /\ s.next[p] \in s.blocks /\ s.next[q] \in s.blocks
  BY DEF LinksOK, HeapList
<1>2. /\ p \in Nat /\ q \in Nat /\ Hdr \in Nat /\ End \in Nat
      /\ s.next[p] \in Nat /\ s.next[q] \in Nat /\ s.next[p] <= End
  BY <1>1, Constants
<1>3. (q <= p \/ s.next[p] <= q) /\ (p <= q \/ s.next[q] <= p)
  BY <1>1 DEF LinksOK
<1>4. v <= s.next[p] - (p + Hdr) /\ w <= s.next[q] - (q + Hdr)
  BY DEF Room
<1> QED  BY <1>2, <1>3, <1>4

Data(p) == [at |-> p + Hdr, size |-> want[p]]

LEMMA PlacesAreData == Places = {Data(p) : p \in Owned}
BY DEF Places, Data

\* Giving a block out implements Obtain.
LEMMA ObtainStep ==
    ASSUME HeapInv, NEW p, NEW size \in Nat, NEW w \in Sizes, w <= size,
           Allocate(p, size), want' = [want EXCEPT ![p] = w]
    PROVE  A!Next
<1>1. /\ h' \in HeapList /\ Linked' /\ NoLeak' /\ WantFits'
      /\ p \in Offset \ {End} /\ p \notin Owned /\ Owned' = Owned \cup {p}
  BY GivesOut
<1>2. want'[p] = w /\ \A q \in Offset \ {p} : want'[q] = want[q]
  BY <1>1 DEF HeapInv, HeapType
<1>3. \A q \in Owned : q \in Offset \ {p} /\ want[q] \in Nat /\ want[q] <= Room(h', q)
  BY <1>1, <1>2, HeapAssumption DEF HeapInv, HeapType, WantFits, Owned
<1>4. w \in Nat /\ w <= Room(h', p)
  BY <1>1, <1>2, HeapAssumption DEF WantFits
<1>5. LinksOK(h') /\ \A q \in Owned' : q \in h'.used \ {End}
  BY <1>1 DEF Linked, NoLeak
<1> DEFINE a == [at |-> p + Hdr, size |-> w]
<1>6. p + Hdr + w <= End
  BY <1>1, <1>4, <1>5, DataApart
<1>7. a \in A!Place
  <2>1. p \in Nat /\ Hdr \in Nat /\ End \in Nat
    BY <1>1, Constants
  <2>2. p + Hdr \in 0 .. End
    BY <2>1, <1>4, <1>6
  <2> QED  BY <2>2 DEF A!Place
<1>8. \A q \in Owned : A!Apart(a, Data(q))
  <2>1. TAKE q \in Owned
  <2>2. /\ p + Hdr # q + Hdr
        /\ (p + Hdr) + w <= q + Hdr \/ (q + Hdr) + want[q] <= p + Hdr
    BY <1>1, <1>3, <1>4, <1>5, DataApart
  <2> QED  BY <2>2 DEF A!Apart, Data
<1>9. A!Fits(a, Places)
  BY <1>6, <1>8, PlacesAreData DEF A!Fits
<1>10. Places' = Places \cup {a}
  <2>1. \A q \in Owned : Data(q)' = Data(q)
    BY <1>2, <1>3 DEF Data
  <2>2. Data(p)' = a
    BY <1>2 DEF Data
  <2>3. Places' = {Data(q)' : q \in Owned'}
    BY DEF Places, Data
  <2> HIDE DEF a
  <2> QED  BY <2>1, <2>2, <2>3, <1>1, PlacesAreData
<1> QED  BY <1>7, <1>9, <1>10 DEF A!Next, A!Obtain

\* Different blocks hold different data.
LEMMA DataInjective ==
    ASSUME HeapInv, NEW p \in Owned, NEW q \in Owned, Data(p) = Data(q)
    PROVE  p = q
<1>1. p \in Nat /\ q \in Nat /\ Hdr \in Nat
  BY Constants DEF Owned
<1>2. Data(p).at = p + Hdr /\ Data(q).at = q + Hdr
  BY DEF Data
<1> QED  BY <1>1, <1>2

\* Taking a block back implements Release.
LEMMA ReleaseStep ==
    ASSUME HeapInv, NEW m \in Owned,
           FreeBlock(m), want' = [want EXCEPT ![m] = NotGiven]
    PROVE  A!Next
<1>1. Owned' = Owned \ {m}
  BY TakesBack
<1>2. \A q \in Owned' : want'[q] = want[q]
  BY <1>1 DEF HeapInv, HeapType, Owned
<1>3. \A q \in Owned' : Data(q)' = Data(q)
  BY <1>2 DEF Data
<1>4. Places' = {Data(q)' : q \in Owned'}
  BY DEF Places, Data
<1>5. Places' = Places \ {Data(m)}
  BY <1>1, <1>3, <1>4, PlacesAreData, DataInjective
<1>6. Data(m) \in Places
  BY PlacesAreData
<1> QED  BY <1>5, <1>6 DEF A!Next, A!Release

\* rt_realloc in place implements Resize.
LEMMA ResizeStep ==
    ASSUME HeapInv, NEW t \in Client, NEW m \in h.blocks, NEW size \in Sizes,
           ReallocSame(t, m, size) \/ ReallocShrink(t, m, size)
    PROVE  A!Next
<1>1. /\ h' \in HeapList /\ want' = [want EXCEPT ![m] = size]
      /\ Linked' /\ NoLeak' /\ WantFits' /\ m \in Owned /\ Owned' = Owned
  BY Resizes
<1>2. want'[m] = size /\ \A q \in Owned \ {m} : want'[q] = want[q]
  BY <1>1 DEF HeapInv, HeapType, Owned
<1>3. \A q \in Owned \ {m} : want[q] \in Nat /\ want[q] <= Room(h', q)
  BY <1>1, <1>2, HeapAssumption DEF HeapInv, HeapType, WantFits, Owned
<1>4. size \in Nat /\ size <= Room(h', m)
  BY <1>1, <1>2, HeapAssumption DEF WantFits
<1>5. LinksOK(h') /\ \A q \in Owned : q \in h'.used \ {End}
  BY <1>1 DEF Linked, NoLeak
<1> DEFINE b == [at |-> m + Hdr, size |-> size]
<1>6. b = [Data(m) EXCEPT !.size = size]
  BY DEF Data
<1>7. m + Hdr + size <= End
  BY <1>1, <1>4, <1>5, DataApart
<1>8. \A q \in Owned \ {m} : A!Apart(b, Data(q))
  <2>1. TAKE q \in Owned \ {m}
  <2>2. /\ m + Hdr # q + Hdr
        /\ (m + Hdr) + size <= q + Hdr \/ (q + Hdr) + want[q] <= m + Hdr
    BY <1>1, <1>3, <1>4, <1>5, DataApart
  <2> QED  BY <2>2 DEF A!Apart, Data
<1>9. Places \ {Data(m)} = {Data(q) : q \in Owned \ {m}}
  BY <1>1, PlacesAreData, DataInjective
<1>10. A!Fits(b, Places \ {Data(m)})
  BY <1>7, <1>8, <1>9 DEF A!Fits
<1>11. Places' = (Places \ {Data(m)}) \cup {b}
  <2>1. \A q \in Owned \ {m} : Data(q)' = Data(q)
    BY <1>2 DEF Data
  <2>2. Data(m)' = b
    BY <1>2 DEF Data
  <2>3. Places' = {Data(q)' : q \in Owned'}
    BY DEF Places, Data
  <2> HIDE DEF b
  <2> QED  BY <2>1, <2>2, <2>3, <1>1, <1>9
<1>12. Data(m) \in Places
  BY <1>1, PlacesAreData
<1> HIDE DEF b
<1>13. A!Resize(Data(m), size)
  BY <1>6, <1>10, <1>11 DEF A!Resize
<1> QED  BY <1>12, <1>13 DEF A!Next

\* Every step of a thread implements a step of the allocator, or none.
LEMMA AllocatorStep ==
    ASSUME HeapInv, NEW t \in Client, ClientStep(t)
    PROVE  A!Next \/ UNCHANGED Places
<1>1. ASSUME NEW size \in Sizes, Malloc(t, size) PROVE A!Next
  <2>1. PICK p \in h.blocks : Allocate(p, Request(size)) /\ want' = [want EXCEPT ![p] = size]
    BY <1>1 DEF Malloc
  <2>2. Request(size) \in Nat /\ size <= Request(size)
    BY <2>1, RequestFits DEF Allocate
  <2> QED  BY <2>1, <2>2, ObtainStep
<1>2. ASSUME NEW size \in Sizes, MallocNull(t, size) PROVE UNCHANGED Places
  BY <1>2 DEF MallocNull, heapVars, Places, Owned
<1>3. ASSUME NEW m \in h.blocks, NEW size \in Sizes,
             ReallocSame(t, m, size) \/ ReallocShrink(t, m, size)
      PROVE  A!Next
  BY <1>3, ResizeStep
<1>4. ASSUME NEW m \in h.blocks, NEW size \in Sizes, ReallocMove(t, m, size)
      PROVE  UNCHANGED Places
  BY <1>4 DEF ReallocMove, Places, Owned
<1>5. ASSUME NEW m \in h.blocks, HeapFree(t, m) PROVE A!Next
  <2>1. m \in Owned
    BY <1>5 DEF HeapFree, Settled, Owned, HeapInv, HeapType, HeapList
  <2>2. FreeBlock(m) /\ want' = [want EXCEPT ![m] = NotGiven]
    BY <1>5 DEF HeapFree
  <2> QED  BY <2>1, <2>2, ReleaseStep
<1>6. CASE ReallocMalloc(t)
  <2> DEFINE size == job[t].size
  <2>1. PICK p \in h.blocks :
            Allocate(p, Request(RtAlign(size))) /\ want' = [want EXCEPT ![p] = size]
    BY <1>6 DEF ReallocMalloc
  <2>2. size \in Sizes
    BY <1>6 DEF ReallocMalloc, HeapInv, JobsOwn
  <2>3. Request(RtAlign(size)) \in Nat /\ size <= Request(RtAlign(size))
    BY <2>1, <2>2, RequestFits DEF Allocate
  <2> HIDE DEF size
  <2> QED  BY <2>1, <2>2, <2>3, ObtainStep
<1>7. CASE ReallocNull(t)
  BY <1>7 DEF ReallocNull, Places, Owned
<1>8. CASE ReallocFree(t)
  <2>1. /\ job[t].step = "copy" /\ FreeBlock(job[t].rmem)
        /\ want' = [want EXCEPT ![job[t].rmem] = NotGiven]
    BY <1>8 DEF ReallocFree
  <2>2. job[t].rmem \in Owned
    BY <2>1 DEF Held, HeapInv, JobsOwn
  <2> QED  BY <2>1, <2>2, ReleaseStep
<1> QED  BY <1>1, <1>2, <1>3, <1>4, <1>5, <1>6, <1>7, <1>8 DEF ClientStep

\* The heap implements the allocator: what rt_malloc and rt_realloc give out is
\* as large as was asked for and overlaps with nothing else in use.
THEOREM HeapRefinesAllocator == HeapSpec => RefinesAllocator
<1>1. HeapInit => A!Init
  <2>1. HeapInit => Owned = {}
    BY DEF HeapInit, Owned
  <2> QED  BY <2>1, PlacesAreData DEF A!Init
<1>2. HeapInv /\ [HeapNext]_heapVars => [A!Next]_Places
  <2>1. SUFFICES ASSUME HeapInv, [HeapNext]_heapVars PROVE A!Next \/ UNCHANGED Places
    OBVIOUS
  <2>2. CASE HeapNext
    BY <2>1, <2>2, AllocatorStep DEF HeapNext
  <2>3. CASE UNCHANGED heapVars
    BY <2>3 DEF heapVars, Places, Owned
  <2> QED  BY <2>1, <2>2, <2>3
<1>3. HeapSpec => []HeapInv
  BY HeapInvariant
<1> QED  BY <1>1, <1>2, <1>3, PTL DEF HeapSpec, RefinesAllocator, A!Spec

-----------------------------------------------------------------------------
(***************************************************************************)
(* The memory pool.                                                        *)
(***************************************************************************)


\* A thread is about to block, or has followed a stray pointer.
PoolBlocking == {"alloc_sched", "lost"}

\* irq is the thread that has followed a stray pointer, and nothing else is.
LostOK ==
    /\ \A t \in Thread : irq = t <=> pc[t] = "lost"
    /\ irq # NoThread => k.current = irq

PoolInv ==
    /\ BlocksAccounted
    /\ NoLostWakeup
    /\ SystemOK(PoolBlocking)
    /\ LostOK

-----------------------------------------------------------------------------
(***************************************************************************)
(* Lists without repetitions, and counting.                                *)
(***************************************************************************)
LEMMA LenIsCardinality ==
  ASSUME NEW T, NEW s \in Seq(T), IsInjective(s)
  PROVE  IsFiniteSet(ToSet(s)) /\ Cardinality(ToSet(s)) = Len(s)
<1>1. Len(s) \in Nat /\ DOMAIN s = 1 .. Len(s) BY LenProperties
<1>2. s \in [1 .. Len(s) -> ToSet(s)] BY <1>1, ElementOfSeq DEF ToSet
<1>3. s \in Surjection(1 .. Len(s), ToSet(s)) BY <1>1, <1>2 DEF Surjection, ToSet
<1>4. s \in Injection(1 .. Len(s), ToSet(s)) BY <1>2 DEF Injection
<1>5. IsFiniteSet(1 .. Len(s)) /\ Cardinality(1 .. Len(s)) = Len(s)
  BY <1>1, FS_Interval
<1> QED BY <1>3, <1>4, <1>5, FS_Surjection

\* The lengths of two such lists compare as their sets of members do.
LEMMA LenOfMembers ==
  ASSUME NEW T, NEW s \in Seq(T), IsInjective(s), NEW r \in Seq(T), IsInjective(r)
  PROVE  /\ Len(s) \in Nat /\ Len(r) \in Nat
         /\ ToSet(s) \subseteq ToSet(r) => Len(s) <= Len(r)
         /\ \A e : e \in ToSet(r) /\ ToSet(s) = ToSet(r) \ {e} => Len(s) = Len(r) - 1
         /\ \A e : e \notin ToSet(r) /\ ToSet(s) = ToSet(r) \cup {e} => Len(s) = Len(r) + 1
<1>1. /\ IsFiniteSet(ToSet(s)) /\ Cardinality(ToSet(s)) = Len(s)
      /\ IsFiniteSet(ToSet(r)) /\ Cardinality(ToSet(r)) = Len(r)
  BY LenIsCardinality
<1>2. Len(s) \in Nat /\ Len(r) \in Nat BY LenProperties
<1>3. ASSUME ToSet(s) \subseteq ToSet(r) PROVE Len(s) <= Len(r)
  BY <1>1, <1>3, FS_Subset
<1>4. ASSUME NEW e, e \in ToSet(r), ToSet(s) = ToSet(r) \ {e} PROVE Len(s) = Len(r) - 1
  BY <1>1, <1>4, FS_RemoveElement
<1>5. ASSUME NEW e, e \notin ToSet(r), ToSet(s) = ToSet(r) \cup {e}
      PROVE  Len(s) = Len(r) + 1
  BY <1>1, <1>5, FS_AddElement
<1> QED BY <1>2, <1>3, <1>4, <1>5

\* Putting a new element before a list, and taking the first one off.
LEMMA PushProperties ==
  ASSUME NEW T, NEW s \in Seq(T), NEW e \in T, e \notin ToSet(s), IsInjective(s)
  PROVE  LET r == <<e>> \o s
         IN  /\ r \in Seq(T) /\ Len(r) = Len(s) + 1 /\ IsInjective(r)
             /\ ToSet(r) = ToSet(s) \cup {e}
<1> DEFINE r == <<e>> \o s
<1>1. <<e>> \in Seq(T) /\ Len(<<e>>) = 1 /\ <<e>>[1] = e OBVIOUS
<1>2. /\ r \in Seq(T) /\ Len(r) = Len(s) + 1 /\ Len(s) \in Nat
      /\ \A i \in 1 .. Len(s) + 1 : r[i] = IF i = 1 THEN e ELSE s[i - 1]
  BY <1>1, ConcatProperties, LenProperties
<1> HIDE DEF r
<1>3. DOMAIN r = 1 .. Len(s) + 1 /\ DOMAIN s = 1 .. Len(s) BY <1>2, LenProperties
<1>4. \A i \in 1 .. Len(s) : r[i + 1] = s[i] /\ s[i] # e
  <2>1. \A i \in 1 .. Len(s) : s[i] # e BY <1>3 DEF ToSet
  <2> QED BY <1>2, <2>1
<1>5. r[1] = e BY <1>2
<1>6. IsInjective(r)
  <2>1. ASSUME NEW i \in 1 .. Len(s) + 1, NEW j \in 1 .. Len(s) + 1, r[i] = r[j]
        PROVE  i = j
    <3>1. CASE i = 1 /\ j = 1 BY <3>1
    <3>2. ASSUME i # 1, j = 1 PROVE FALSE
      <4>1. i - 1 \in 1 .. Len(s) /\ r[i] = s[i - 1] BY <1>2, <3>2
      <4> QED BY <1>4, <1>5, <2>1, <3>2, <4>1
    <3>3. ASSUME i = 1, j # 1 PROVE FALSE
      <4>1. j - 1 \in 1 .. Len(s) /\ r[j] = s[j - 1] BY <1>2, <3>3
      <4> QED BY <1>4, <1>5, <2>1, <3>3, <4>1
    <3>4. CASE i # 1 /\ j # 1
      <4>1. /\ i - 1 \in 1 .. Len(s) /\ r[i] = s[i - 1]
            /\ j - 1 \in 1 .. Len(s) /\ r[j] = s[j - 1]
        BY <1>2, <3>4
      <4>2. i - 1 = j - 1 BY <1>3, <2>1, <4>1 DEF IsInjective
      <4> QED BY <4>2
    <3> QED BY <3>1, <3>2, <3>3, <3>4
  <2> QED BY <1>3, <2>1 DEF IsInjective
<1>7. ToSet(r) = ToSet(s) \cup {e}
  <2>1. \A x \in ToSet(r) : x \in ToSet(s) \cup {e} BY <1>2, <1>3 DEF ToSet
  <2>2. \A x \in ToSet(s) : x \in ToSet(r) BY <1>2, <1>3, <1>4 DEF ToSet
  <2>3. e \in ToSet(r) BY <1>2, <1>3, <1>5 DEF ToSet
  <2> QED BY <2>1, <2>2, <2>3
<1> QED BY <1>2, <1>6, <1>7 DEF r

LEMMA PopProperties ==
  ASSUME NEW T, NEW s \in Seq(T), s # <<>>, IsInjective(s)
  PROVE  /\ Tail(s) \in Seq(T) /\ Len(Tail(s)) = Len(s) - 1 /\ IsInjective(Tail(s))
         /\ Head(s) \in ToSet(s) /\ ToSet(Tail(s)) = ToSet(s) \ {Head(s)}
<1>1. /\ Len(s) \in Nat \ {0} /\ Tail(s) \in Seq(T) /\ Len(Tail(s)) = Len(s) - 1
      /\ Head(s) = s[1] /\ \A i \in 1 .. Len(s) - 1 : Tail(s)[i] = s[i + 1]
  BY LenProperties, EmptySeq, HeadTailProperties
<1>2. DOMAIN s = 1 .. Len(s) /\ DOMAIN Tail(s) = 1 .. Len(s) - 1 BY <1>1, LenProperties
<1>3. IsInjective(Tail(s))
  <2>1. ASSUME NEW i \in 1 .. Len(s) - 1, NEW j \in 1 .. Len(s) - 1, Tail(s)[i] = Tail(s)[j]
        PROVE  i = j
    <3>1. i + 1 \in 1 .. Len(s) /\ j + 1 \in 1 .. Len(s) /\ s[i + 1] = s[j + 1]
      BY <1>1, <2>1
    <3>2. i + 1 = j + 1 BY <1>2, <3>1 DEF IsInjective
    <3> QED BY <3>2
  <2> QED BY <1>2, <2>1 DEF IsInjective
<1>4. Head(s) \in ToSet(s) BY <1>1, <1>2 DEF ToSet
<1>5. ToSet(Tail(s)) = ToSet(s) \ {Head(s)}
  <2>1. ASSUME NEW x \in ToSet(Tail(s)) PROVE x \in ToSet(s) \ {Head(s)}
    <3>1. PICK i \in 1 .. Len(s) - 1 : x = Tail(s)[i] BY <1>2, <2>1 DEF ToSet
    <3>2. i + 1 \in 1 .. Len(s) /\ 1 \in 1 .. Len(s) /\ i + 1 # 1 /\ x = s[i + 1]
      BY <1>1, <3>1
    <3>3. s[i + 1] # s[1] BY <1>2, <3>2 DEF IsInjective
    <3> QED BY <1>1, <1>2, <3>2, <3>3 DEF ToSet
  <2>2. ASSUME NEW x \in ToSet(s) \ {Head(s)} PROVE x \in ToSet(Tail(s))
    <3>1. PICK i \in 1 .. Len(s) : x = s[i] BY <1>2, <2>2 DEF ToSet
    <3>2. i # 1 BY <1>1, <2>2, <3>1
    <3>3. i - 1 \in 1 .. Len(s) - 1 /\ Tail(s)[i - 1] = s[i] BY <1>1, <3>1, <3>2
    <3> QED BY <1>2, <3>1, <3>3 DEF ToSet
  <2> QED BY <2>1, <2>2
<1> QED BY <1>1, <1>3, <1>4, <1>5

-----------------------------------------------------------------------------
(***************************************************************************)
(* Where the blocks are.                                                   *)
(***************************************************************************)

\* The part of BlocksAccounted that is about the blocks.
Located ==
    /\ free \in Seq(Block) /\ dma \in Seq(Block)
    /\ held \in [Thread -> SUBSET Block] /\ sending \in Block \cup {NoBlock}
    /\ SendsFirst
    /\ count = Len(free)
    /\ IsInjective(free) /\ IsInjective(dma)
    /\ ToSet(free) \cap ToSet(dma) = {}
    /\ \A t \in Thread : held[t] \cap (ToSet(free) \cup ToSet(dma)) = {}
    /\ \A t, u \in Thread : t # u => held[t] \cap held[u] = {}
    /\ \A b \in Block : b \in ToSet(free) \/ b \in ToSet(dma) \/ \E t \in Thread : b \in held[t]

\* The part that is about the types of the other variables.
SystemTypes ==
    /\ k \in KernelState /\ k.current # Wild
    /\ irq \in Thread \cup {NoThread}
    /\ pc \in [Thread -> PoolPc]
    /\ waiting \in Nat /\ alive \in BOOLEAN

LEMMA AccountedParts == BlocksAccounted <=> SystemTypes /\ Located
<1> DEFINE Somewhere == ToSet(free) \cup ToSet(dma) \cup UNION {held[t] : t \in Thread}
<1>1. ASSUME BlocksAccounted PROVE SystemTypes /\ Located
  <2>1. Somewhere = Block BY <1>1 DEF BlocksAccounted
  <2>2. \A b \in Block : b \in ToSet(free) \/ b \in ToSet(dma) \/ \E t \in Thread : b \in held[t]
    BY <2>1
  <2> QED BY <1>1, <2>2 DEF BlocksAccounted, TypeOK, SystemTypes, Located
<1>2. ASSUME SystemTypes, Located PROVE BlocksAccounted
  <2>1. free \in Seq(Block) /\ IsInjective(free) BY <1>2 DEF Located
  <2>2. Blocks \in Seq(Block) /\ IsInjective(Blocks) /\ ToSet(Blocks) = Block
    BY MemPoolAssumption DEF Block
  <2>3. ToSet(free) \subseteq ToSet(Blocks) BY <2>1, <2>2, HeadToSet
  <2>4. Len(free) <= Len(Blocks) /\ Len(free) \in Nat /\ Len(Blocks) \in Nat
    BY <2>1, <2>2, <2>3, LenOfMembers
  <2>5. count \in 0 .. Len(Blocks) BY <1>2, <2>4 DEF Located
  <2>6. Block \subseteq Somewhere BY <1>2 DEF Located
  <2>7. ToSet(free) \subseteq Block /\ ToSet(dma) \subseteq Block
    BY <1>2, HeadToSet DEF Located
  <2>8. UNION {held[t] : t \in Thread} \subseteq Block BY <1>2 DEF Located
  <2>9. Somewhere = Block BY <2>6, <2>7, <2>8
  <2> QED BY <1>2, <2>5, <2>9 DEF BlocksAccounted, TypeOK, SystemTypes, Located
<1> QED BY <1>1, <1>2

LEMMA AccountedAfter == SystemTypes' /\ Located' => BlocksAccounted'
BY AccountedParts, PTL

\* A thread takes the first free block.
LEMMA TakenOK ==
  ASSUME Located, NEW t \in Thread, free # <<>>, TakeBlock(t), UNCHANGED dmaVars
  PROVE  Located' /\ Len(free') = Len(free) - 1 /\ Len(free) \in Nat
<1> DEFINE b == Head(free)
<1>1. /\ free' = Tail(free) /\ count' = count - 1 /\ dma' = dma /\ sending' = sending
      /\ held' = [held EXCEPT ![t] = @ \cup {b}]
  BY DEF TakeBlock, dmaVars
<1>2. free \in Seq(Block) /\ IsInjective(free) /\ Len(free) \in Nat
  BY LenProperties DEF Located
<1>3. /\ free' \in Seq(Block) /\ Len(free') = Len(free) - 1 /\ IsInjective(free')
      /\ b \in ToSet(free) /\ ToSet(free') = ToSet(free) \ {b}
  BY <1>1, <1>2, PopProperties
<1>4. b \in Block BY <1>2, <1>3, HeadToSet
<1> HIDE DEF b
<1>5. /\ held' \in [Thread -> SUBSET Block]
      /\ \A u \in Thread : held'[u] = IF u = t THEN held[u] \cup {b} ELSE held[u]
  BY <1>1, <1>4 DEF Located
<1>6. SendsFirst' BY <1>1 DEF Located, SendsFirst
<1>7. ToSet(free') \cap ToSet(dma') = {} BY <1>1, <1>3 DEF Located
<1>8. \A u \in Thread : held'[u] \cap (ToSet(free') \cup ToSet(dma')) = {}
  BY <1>1, <1>3, <1>5 DEF Located
<1>9. \A u, v \in Thread : u # v => held'[u] \cap held'[v] = {} BY <1>3, <1>5 DEF Located
<1>10. \A c \in Block : c \in ToSet(free') \/ c \in ToSet(dma') \/ \E u \in Thread : c \in held'[u]
  BY <1>1, <1>3, <1>5 DEF Located
<1> QED BY <1>1, <1>2, <1>3, <1>5, <1>6, <1>7, <1>8, <1>9, <1>10 DEF Located

\* A thread frees a block of its own.
LEMMA GivenOK ==
  ASSUME Located, NEW t \in Thread, NEW b \in held[t], GiveBlock(b),
         held' = [held EXCEPT ![t] = @ \ {b}], UNCHANGED dmaVars
  PROVE  Located' /\ Len(free') = Len(free) + 1 /\ Len(free) \in Nat
<1>1. /\ free' = <<b>> \o free /\ count' = count + 1 /\ dma' = dma /\ sending' = sending
  BY DEF GiveBlock, dmaVars
<1>2. /\ free \in Seq(Block) /\ IsInjective(free) /\ Len(free) \in Nat
      /\ b \in Block /\ b \notin ToSet(free)
  BY LenProperties DEF Located
<1>3. /\ free' \in Seq(Block) /\ Len(free') = Len(free) + 1 /\ IsInjective(free')
      /\ ToSet(free') = ToSet(free) \cup {b}
  BY <1>1, <1>2, PushProperties
<1>5. /\ held' \in [Thread -> SUBSET Block]
      /\ \A u \in Thread : held'[u] = IF u = t THEN held[u] \ {b} ELSE held[u]
  BY DEF Located
<1>6. SendsFirst' BY <1>1 DEF Located, SendsFirst
<1>7. ToSet(free') \cap ToSet(dma') = {} BY <1>1, <1>3 DEF Located
<1>8. \A u \in Thread : held'[u] \cap (ToSet(free') \cup ToSet(dma')) = {}
  <2>1. \A u \in Thread : b \notin held'[u] BY <1>5 DEF Located
  <2> QED BY <1>1, <1>3, <1>5, <2>1 DEF Located
<1>9. \A u, v \in Thread : u # v => held'[u] \cap held'[v] = {} BY <1>3, <1>5 DEF Located
<1>10. \A c \in Block : c \in ToSet(free') \/ c \in ToSet(dma') \/ \E u \in Thread : c \in held'[u]
  BY <1>1, <1>3, <1>5 DEF Located
<1> QED BY <1>1, <1>2, <1>3, <1>5, <1>6, <1>7, <1>8, <1>9, <1>10 DEF Located

\* A thread links a block of its own for the DMA.
LEMMA LinkedOK ==
  ASSUME Located, NEW t \in Thread, NEW b \in held[t],
         held' = [held EXCEPT ![t] = @ \ {b}], dma' = Append(dma, b),
         sending' = IF dma = <<>> THEN b ELSE sending, UNCHANGED <<free, count>>
  PROVE  Located'
<1>2. /\ dma \in Seq(Block) /\ IsInjective(dma) /\ b \in Block /\ b \notin ToSet(dma)
      /\ b \notin ToSet(free)
  BY DEF Located
<1>3. /\ dma' \in Seq(Block) /\ dma' # <<>> /\ IsInjective(dma')
      /\ ToSet(dma') = ToSet(dma) \cup {b}
  BY <1>2, AppendToSet
<1>5. /\ held' \in [Thread -> SUBSET Block]
      /\ \A u \in Thread : held'[u] = IF u = t THEN held[u] \ {b} ELSE held[u]
  BY DEF Located
<1>6. SendsFirst' /\ sending' \in Block \cup {NoBlock}
  <2>1. CASE dma = <<>>
    <3>1. Head(dma') = b BY <2>1
    <3> QED BY <1>2, <1>3, <2>1, <3>1 DEF SendsFirst
  <2>2. CASE dma # <<>>
    <3>1. Head(dma') = Head(dma) BY <1>2, <2>2
    <3> QED BY <1>3, <2>2, <3>1 DEF Located, SendsFirst
  <2> QED BY <2>1, <2>2
<1>7. ToSet(free') \cap ToSet(dma') = {} BY <1>2, <1>3 DEF Located
<1>8. \A u \in Thread : held'[u] \cap (ToSet(free') \cup ToSet(dma')) = {}
  <2>1. \A u \in Thread : b \notin held'[u] BY <1>5 DEF Located
  <2> QED BY <1>3, <1>5, <2>1 DEF Located
<1>9. \A u, v \in Thread : u # v => held'[u] \cap held'[v] = {} BY <1>3, <1>5 DEF Located
<1>10. \A c \in Block : c \in ToSet(free') \/ c \in ToSet(dma') \/ \E u \in Thread : c \in held'[u]
  BY <1>3, <1>5 DEF Located
<1> QED BY <1>2, <1>3, <1>5, <1>6, <1>7, <1>8, <1>9, <1>10 DEF Located

\* The DMA is done with the first block of the link.
LEMMA SentOK ==
  ASSUME Located, sending # NoBlock, dma' = Tail(dma), GiveBlock(Head(dma)),
         sending' = (IF Tail(dma) = <<>> THEN NoBlock ELSE Head(Tail(dma))), UNCHANGED held
  PROVE  Located' /\ Len(free') = Len(free) + 1 /\ Len(free) \in Nat
<1> DEFINE b == Head(dma)
<1>1. free' = <<b>> \o free /\ count' = count + 1 BY DEF GiveBlock
<1>2. dma # <<>> BY DEF Located, SendsFirst
<1>3. /\ dma' \in Seq(Block) /\ IsInjective(dma')
      /\ b \in ToSet(dma) /\ ToSet(dma') = ToSet(dma) \ {b}
  BY <1>2, PopProperties DEF Located
<1>4. /\ free \in Seq(Block) /\ IsInjective(free) /\ Len(free) \in Nat
      /\ b \in Block /\ b \notin ToSet(free)
  <2>1. dma \in Seq(Block) BY DEF Located
  <2>2. b \in Block BY <1>3, <2>1, HeadToSet
  <2> QED BY <1>3, <2>2, LenProperties DEF Located
<1>5. /\ free' \in Seq(Block) /\ Len(free') = Len(free) + 1 /\ IsInjective(free')
      /\ ToSet(free') = ToSet(free) \cup {b}
  BY <1>1, <1>4, PushProperties
<1> HIDE DEF b
<1>6. SendsFirst' /\ sending' \in Block \cup {NoBlock}
  <2>1. CASE dma' = <<>> BY <2>1 DEF SendsFirst
  <2>2. CASE dma' # <<>> BY <1>3, <2>2, HeadToSet DEF SendsFirst
  <2> QED BY <2>1, <2>2
<1>7. ToSet(free') \cap ToSet(dma') = {} BY <1>3, <1>5 DEF Located
<1>8. \A u \in Thread : held'[u] \cap (ToSet(free') \cup ToSet(dma')) = {}
  BY <1>3, <1>5 DEF Located
<1>10. \A c \in Block : c \in ToSet(free') \/ c \in ToSet(dma') \/ \E u \in Thread : c \in held'[u]
  BY <1>3, <1>5 DEF Located
<1> QED BY <1>1, <1>3, <1>4, <1>5, <1>6, <1>7, <1>8, <1>10 DEF Located

-----------------------------------------------------------------------------
(***************************************************************************)
(* What the pool does to the threads.                                      *)
(***************************************************************************)

\* rt_mp_alloc suspends the current thread at the front of the list.
LEMMA SuspendFirstEffect ==
  ASSUME SystemOK(PoolBlocking), NEW t \in Thread, k.current = t, t # Idle,
         pc[t] \notin PoolBlocking, pc'[t] \in PoolBlocking,
         NEW s, s = ListInsertAfter(Suspend(k, t), Pool, t), k' \in {s, TimerStart(s, t)}
  PROVE  /\ SystemOK(PoolBlocking)'
         /\ k.stat[t] = "ready" /\ t \notin ToSet(k.wait[Pool])
         /\ k'.stat = [k.stat EXCEPT ![t] = "suspend"] /\ k'.error = k.error
         /\ k'.current = k.current
         /\ ToSet(k'.wait[Pool]) = ToSet(k.wait[Pool]) \cup {t}
<1>1. k \in KernelState /\ KernelOK(k) /\ Pool \in Queue
  BY MemPoolAssumption DEF SystemOK
<1>2. k.stat[t] = "ready" BY DEF SystemOK
<1>3. \A r \in Queue : t \notin ToSet(k.wait[r]) BY <1>2 DEF SystemOK
<1>4. PICK e : e = Suspend(k, t) OBVIOUS
<1>5. /\ e \in KernelState /\ KernelOK(e)
      /\ Frame(e, k) /\ e.wait = k.wait /\ e.armed = k.armed
      /\ e.stat = [k.stat EXCEPT ![t] = "suspend"]
  BY <1>1, <1>2, <1>4, SuspendProperties
<1>6. PICK w : w = <<t>> \o e.wait[Pool] OBVIOUS
<1>7. /\ w \in Seq(Thread) /\ IsInjective(w) /\ ToSet(w) = ToSet(e.wait[Pool]) \cup {t}
  <2>1. e.wait[Pool] \in Seq(Thread) BY <1>1, <1>5 DEF KernelState
  <2>2. IsInjective(e.wait[Pool]) BY <1>1, <1>5 DEF KernelOK, ListsOK
  <2>3. t \notin ToSet(e.wait[Pool]) BY <1>1, <1>3, <1>5
  <2> QED BY <1>6, <2>1, <2>2, <2>3, PushProperties
<1>8. s = [e EXCEPT !.wait[Pool] = w] BY <1>4, <1>6 DEF ListInsertAfter
<1>9. e.stat[t] = "suspend" BY <1>1, <1>5 DEF KernelState
<1>10. /\ s \in KernelState /\ KernelOK(s)
       /\ Frame(s, e) /\ s.stat = e.stat /\ s.armed = e.armed
       /\ s.wait = [e.wait EXCEPT ![Pool] = w]
  <2>1. e.stat[t] # "ready" /\ \A r \in Queue : t \notin ToSet(e.wait[r])
    BY <1>3, <1>5, <1>9
  <2>2. e \in KernelState /\ KernelOK(e) /\ Pool \in Queue BY <1>1, <1>5
  <2>3. LET c == [e EXCEPT !.wait[Pool] = w]
        IN  /\ c \in KernelState /\ KernelOK(c)
            /\ Frame(c, e) /\ c.stat = e.stat /\ c.armed = e.armed
            /\ c.wait = [e.wait EXCEPT ![Pool] = w]
    BY ONLY <1>7, <2>1, <2>2, t \in Thread, WaitInsertProperties
  <2> QED BY <1>8, <2>3
<1>11. LET c == TimerStart(s, t)
       IN  /\ c \in KernelState /\ KernelOK(c)
           /\ Frame(c, s) /\ c.stat = s.stat /\ c.wait = s.wait
  BY <1>9, <1>10, TimerStartProperties
<1>12. /\ k' \in KernelState /\ KernelOK(k')
       /\ Frame(k', s) /\ k'.stat = s.stat /\ k'.wait = s.wait
  BY <1>10, <1>11 DEF Frame
<1>13. /\ k'.stat = [k.stat EXCEPT ![t] = "suspend"] /\ k'.error = k.error
       /\ k'.current = k.current /\ k'.nest = k.nest
       /\ k'.wait = [k.wait EXCEPT ![Pool] = w]
  BY <1>5, <1>10, <1>12 DEF Frame
<1>14. \A r \in Queue : k'.wait[r] = IF r = Pool THEN w ELSE k.wait[r]
  BY <1>1, <1>13 DEF KernelState
<1>15. \A r \in Queue : ToSet(k'.wait[r]) \subseteq ToSet(k.wait[r]) \cup {t}
  BY <1>5, <1>7, <1>14
<1>16. SystemOK(PoolBlocking)' BY <1>12, <1>13, <1>15, SystemSuspended
<1> QED BY <1>1, <1>2, <1>3, <1>5, <1>7, <1>13, <1>14, <1>16

\* rt_mp_free, in a thread or in an interrupt handler, wakes the first thread
\* of the list.
LEMMA WakeFirstEffect ==
  ASSUME SystemOK(PoolBlocking), waiting > 0, k.wait[Pool] # <<>>, k.current \in Thread,
         \/ k' = Schedule(WakeFirst(k))
         \/ /\ k' = WakeFirst(k)
            /\ pc'[k.current] \notin PoolBlocking => pc[k.current] \notin PoolBlocking
  PROVE  LET w == Head(k.wait[Pool])
         IN  /\ w \in Thread /\ w \in ToSet(k.wait[Pool]) /\ k.stat[w] = "suspend"
             /\ SystemOK(PoolBlocking)'
             /\ k'.stat = [k.stat EXCEPT ![w] = "ready"]
             /\ k'.error = [k.error EXCEPT ![w] = "RT_EOK"]
             /\ ToSet(k'.wait[Pool]) = ToSet(k.wait[Pool]) \ {w}
             /\ k' = WakeFirst(k) => k'.current = k.current
<1> DEFINE w == Head(k.wait[Pool])
           W == {w}
<1>1. /\ k \in KernelState /\ KernelOK(k) /\ Pool \in Queue /\ k.wait[Pool] \in Seq(Thread)
      /\ k.nest = 0 /\ k.stat[Idle] = "ready"
  BY MemPoolAssumption, KernelAssumption DEF SystemOK, KernelState
<1>2. w \in Thread /\ w \in ToSet(k.wait[Pool]) /\ k.stat[w] = "suspend"
  <2>1. w \in Thread /\ w \in ToSet(k.wait[Pool]) BY <1>1, HeadToSet
  <2> QED BY <1>1, <2>1 DEF SystemOK
<1> HIDE DEF w
<1>3. PICK e : e = [k EXCEPT !.error[w] = "RT_EOK"] OBVIOUS
<1>4. /\ e \in KernelState /\ KernelOK(e) /\ e.stat = k.stat /\ e.wait = k.wait
      /\ e.armed = k.armed /\ e.nest = k.nest /\ e.current = k.current
      /\ e.error = [k.error EXCEPT ![w] = "RT_EOK"]
  <2>1. "RT_EOK" \in Error BY DEF Error
  <2> QED BY <1>1, <1>2, <1>3, <2>1, SetErrorProperties
<1>5. PICK s : s = Resume(e, w) OBVIOUS
<1>6. s = WakeFirst(k) BY <1>3, <1>5 DEF WakeFirst, w
<1>7. /\ s \in KernelState /\ KernelOK(s) /\ Frame(s, e)
      /\ s.stat = [e.stat EXCEPT ![w] = "ready"]
      /\ \A q \in Queue : ToSet(s.wait[q]) = ToSet(e.wait[q]) \ {w}
  <2>1. e.stat[w] = "suspend" BY <1>2, <1>4
  <2>2. LET c == Resume(e, w)
        IN  /\ c \in KernelState /\ KernelOK(c) /\ Frame(c, e)
            /\ c.stat = [e.stat EXCEPT ![w] = "ready"]
            /\ \A q \in Queue : ToSet(c.wait[q]) = ToSet(e.wait[q]) \ {w}
    BY ONLY <1>2, <1>4, <2>1, ResumeProperties
  <2> QED BY <1>5, <2>2
<1>8. /\ s.current = k.current /\ s.nest = k.nest /\ s.error = [k.error EXCEPT ![w] = "RT_EOK"]
      /\ s.stat = [k.stat EXCEPT ![w] = "ready"]
      /\ \A q \in Queue : ToSet(s.wait[q]) = ToSet(k.wait[q]) \ {w}
  BY <1>4, <1>7 DEF Frame
<1>9. \A u \in Thread : s.stat[u] = IF u = w THEN "ready" ELSE k.stat[u]
  BY <1>1, <1>8 DEF KernelState
<1>10. /\ k' \in KernelState /\ KernelOK(k') /\ k'.nest = k.nest
       /\ k'.stat = s.stat /\ k'.error = s.error /\ k'.wait = s.wait
       /\ \/ k'.current \in Thread /\ k'.stat[k'.current] = "ready"
          \/ /\ k'.current = k.current
             /\ pc'[k.current] \notin PoolBlocking => pc[k.current] \notin PoolBlocking
  <2>1. CASE k' = Schedule(s)
    <3>1. s.stat[Idle] = "ready" /\ s.nest = 0 BY <1>1, <1>8, <1>9, KernelAssumption
    <3> QED BY <1>7, <1>8, <2>1, <3>1, ScheduleProperties
  <2>2. CASE k' = s /\ (pc'[k.current] \notin PoolBlocking => pc[k.current] \notin PoolBlocking)
    BY <1>7, <1>8, <2>2
  <2> QED BY <1>6, <2>1, <2>2
<1>11. /\ W \in SUBSET Thread
       /\ \A v \in Thread : k'.stat[v] = IF v \in W THEN "ready" ELSE k.stat[v]
       /\ \A r \in Queue : ToSet(k'.wait[r]) = ToSet(k.wait[r]) \ W
  BY <1>2, <1>8, <1>9, <1>10
<1> HIDE DEF W
<1>12. SystemOK(PoolBlocking)' BY <1>10, <1>11, SystemKept
<1>13. k' = WakeFirst(k) => k'.current = k.current BY <1>6, <1>8
<1>14. ToSet(k'.wait[Pool]) = ToSet(k.wait[Pool]) \ {w} BY <1>1, <1>8, <1>10
<1> QED BY <1>2, <1>8, <1>10, <1>12, <1>13, <1>14 DEF w

-----------------------------------------------------------------------------
(***************************************************************************)
(* What the parts of the invariant say at the places they are used.        *)
(***************************************************************************)
LEMMA PoolTypes ==
  ASSUME PoolInv
  PROVE  /\ SystemTypes /\ Located /\ KernelOK(k) /\ Pool \in Queue
         /\ k.stat \in [Thread -> Stat] /\ k.error \in [Thread -> Error]
         /\ k.wait[Pool] \in Seq(Thread) /\ IsInjective(k.wait[Pool])
         /\ Len(k.wait[Pool]) \in Nat /\ waiting \in Nat
         /\ k.wait[Pool] = <<>> <=> ToSet(k.wait[Pool]) = {}
         /\ Woken \in SUBSET Thread /\ Cardinality(Woken) \in Nat
         /\ Len(free) \in Nat /\ NoThread \notin Thread
<1>1. SystemTypes /\ Located BY AccountedParts DEF PoolInv
<1>2. KernelOK(k) /\ Pool \in Queue /\ NoThread \notin Thread
  BY MemPoolAssumption, KernelAssumption DEF PoolInv, SystemOK
<1>3. /\ k.stat \in [Thread -> Stat] /\ k.error \in [Thread -> Error]
      /\ k.wait[Pool] \in Seq(Thread)
  BY <1>1, <1>2 DEF SystemTypes, KernelState
<1>4. IsInjective(k.wait[Pool]) BY <1>2 DEF KernelOK, ListsOK
<1>5. Len(k.wait[Pool]) \in Nat /\ Len(free) \in Nat BY <1>1, <1>3, LenProperties DEF Located
<1>6. k.wait[Pool] = <<>> <=> ToSet(k.wait[Pool]) = {} BY <1>3, HeadToSet
<1>7. Woken \in SUBSET Thread BY DEF Woken, Allocating
<1>8. Cardinality(Woken) \in Nat BY <1>7, CountKept
<1> QED BY <1>1, <1>2, <1>3, <1>4, <1>5, <1>6, <1>7, <1>8 DEF SystemTypes

\* The suspend list after a step, by its members.
LEMMA ListAfter ==
  ASSUME PoolInv, SystemOK(PoolBlocking)'
  PROVE  /\ Len(k'.wait[Pool]) \in Nat
         /\ k'.wait[Pool] = <<>> <=> ToSet(k'.wait[Pool]) = {}
         /\ ToSet(k'.wait[Pool]) \subseteq ToSet(k.wait[Pool]) => Len(k'.wait[Pool]) <= Len(k.wait[Pool])
         /\ \A t : t \in ToSet(k.wait[Pool]) /\ ToSet(k'.wait[Pool]) = ToSet(k.wait[Pool]) \ {t}
                      => Len(k'.wait[Pool]) = Len(k.wait[Pool]) - 1
         /\ \A t : t \notin ToSet(k.wait[Pool]) /\ ToSet(k'.wait[Pool]) = ToSet(k.wait[Pool]) \cup {t}
                      => Len(k'.wait[Pool]) = Len(k.wait[Pool]) + 1
<1>1. k' \in KernelState /\ KernelOK(k') /\ Pool \in Queue BY MemPoolAssumption DEF SystemOK
<1>2. k'.wait[Pool] \in Seq(Thread) BY <1>1 DEF KernelState
<1>3. IsInjective(k'.wait[Pool]) BY <1>1 DEF KernelOK, ListsOK
<1>4. k.wait[Pool] \in Seq(Thread) /\ IsInjective(k.wait[Pool]) BY PoolTypes
<1>5. k'.wait[Pool] = <<>> <=> ToSet(k'.wait[Pool]) = {} BY <1>2, HeadToSet
<1> QED BY ONLY <1>2, <1>3, <1>4, <1>5, LenOfMembers

\* A thread that runs outside the places where it is lost.
LEMMA UserFacts ==
  ASSUME PoolInv, NEW t \in Thread, Running(t), pc[t] # "lost"
  PROVE  /\ irq = NoThread /\ k.current = t
         /\ pc[t] # "alloc_sched" => k.stat[t] = "ready" /\ t \notin ToSet(k.wait[Pool])
<1>1. irq = NoThread /\ k.current = t BY DEF Running, PoolInv, LostOK
<1>2. ASSUME pc[t] # "alloc_sched" PROVE k.stat[t] = "ready" /\ t \notin ToSet(k.wait[Pool])
  <2>1. pc[t] \notin PoolBlocking BY <1>2 DEF PoolBlocking
  <2>2. k.stat[t] = "ready" BY <1>1, <2>1 DEF PoolInv, SystemOK
  <2> QED BY <2>2 DEF PoolInv, NoLostWakeup, NoStranded
<1> QED BY <1>1, <1>2

\* A step of t that leaves interrupts enabled, and one that loses it.
LEMMA CalmStep ==
  ASSUME PoolInv, irq = NoThread, NEW t \in Thread, NEW to \in PoolPc,
         pc' = [pc EXCEPT ![t] = to],
         irq' = IF to = "lost" THEN t ELSE NoThread, to = "lost" => k'.current = t
  PROVE  /\ LostOK' /\ irq' \in Thread \cup {NoThread} /\ pc' \in [Thread -> PoolPc]
         /\ \A u \in Thread : pc'[u] = IF u = t THEN to ELSE pc[u]
<1>1. pc \in [Thread -> PoolPc] /\ NoThread \notin Thread BY PoolTypes DEF SystemTypes
<1>2. pc' \in [Thread -> PoolPc] /\ \A u \in Thread : pc'[u] = IF u = t THEN to ELSE pc[u]
  BY <1>1
<1>3. \A u \in Thread : pc[u] # "lost" BY <1>1 DEF PoolInv, LostOK
<1>4. LostOK' BY <1>1, <1>2, <1>3 DEF LostOK
<1> QED BY <1>1, <1>2, <1>4

\* A step that leaves the counts and the list alone, and every call where it is.
LEMMA PoolQuiet ==
  ASSUME PoolInv, SystemOK(PoolBlocking)', LostOK', irq' \in Thread \cup {NoThread},
         pc' \in [Thread -> PoolPc], alive' \in BOOLEAN, Located', Len(free') <= Len(free),
         waiting' \in Nat, Len(k.wait[Pool]) <= waiting', k'.wait[Pool] = k.wait[Pool],
         \A u \in Thread : u \in Allocating' <=> u \in Allocating,
         \A u \in Allocating : k'.stat[u] = k.stat[u] /\ k'.error[u] = k.error[u]
  PROVE  PoolInv'
<1>1. SystemTypes' BY DEF SystemTypes, SystemOK
<1>2. BlocksAccounted' BY <1>1, AccountedAfter
<1>3. Allocating \subseteq Thread /\ Allocating' \subseteq Thread BY DEF Allocating
<1>4. Woken' = Woken BY <1>3 DEF Woken
<1>5. NoStranded' BY <1>3 DEF PoolInv, NoLostWakeup, NoStranded
<1>6. Len(free) \in Nat /\ Len(free') \in Nat /\ Cardinality(Woken) \in Nat
  BY PoolTypes, LenProperties DEF Located
<1>7. NoLostWakeup' BY <1>4, <1>5, <1>6 DEF PoolInv, NoLostWakeup
<1> QED BY <1>2, <1>7 DEF PoolInv

\* A thread that is not on the list goes on from rt_mp_alloc; when it was woken
\* for a block, it has taken one or there is none.
LEMMA PoolLeaves ==
  ASSUME PoolInv, k' = k, SystemOK(PoolBlocking)', LostOK', irq' \in Thread \cup {NoThread},
         pc' \in [Thread -> PoolPc], UNCHANGED <<waiting, alive>>, Located',
         NEW t \in Thread, t \notin ToSet(k.wait[Pool]), t \notin Allocating',
         \A u \in Thread \ {t} : u \in Allocating' <=> u \in Allocating,
         \/ k.wait[Pool] = <<>>
         \/ Len(free') <= Len(free) /\ t \notin Woken
         \/ Len(free') = Len(free) - 1 \/ Len(free') = 0
  PROVE  PoolInv'
<1>1. SystemTypes' BY PoolTypes DEF SystemTypes, SystemOK
<1>2. BlocksAccounted' BY <1>1, AccountedAfter
<1>3. Allocating \subseteq Thread /\ Allocating' \subseteq Thread BY DEF Allocating
<1>4. Woken \ {t} \subseteq Woken' /\ Woken' \in SUBSET Thread BY <1>3 DEF Woken
<1>5. NoStranded' BY <1>3 DEF PoolInv, NoLostWakeup, NoStranded
<1>6. Len(free) \in Nat /\ Len(free') \in Nat /\ Woken \in SUBSET Thread
  BY PoolTypes, LenProperties DEF Located
<1>7. /\ Cardinality(Woken) \in Nat /\ Cardinality(Woken') \in Nat
      /\ Cardinality(Woken) - 1 <= Cardinality(Woken')
      /\ t \notin Woken => Cardinality(Woken) <= Cardinality(Woken')
  <2>1. t \notin Woken => Woken \subseteq Woken' BY <1>4
  <2> QED BY <1>4, <1>6, <2>1, CountLess, CountKept
<1>8. NoLostWakeup' BY <1>5, <1>6, <1>7 DEF PoolInv, NoLostWakeup
<1> QED BY <1>2, <1>8 DEF PoolInv

\* A suspended thread is woken: for a block that has become free, by its timer,
\* or by rt_mp_detach.
LEMMA PoolWakes ==
  ASSUME PoolInv, SystemOK(PoolBlocking)', LostOK', irq' \in Thread \cup {NoThread},
         pc' \in [Thread -> PoolPc], UNCHANGED alive, Located',
         NEW w \in Thread, k.stat[w] = "suspend", NEW e \in Error,
         k'.stat = [k.stat EXCEPT ![w] = "ready"], k'.error = [k.error EXCEPT ![w] = e],
         ToSet(k'.wait[Pool]) = ToSet(k.wait[Pool]) \ {w},
         \A u \in Thread : u \in Allocating' <=> u \in Allocating,
         waiting' \in Nat, Len(k'.wait[Pool]) <= waiting',
         \/ Len(free') <= Len(free)
         \/ Len(free') = Len(free) + 1 /\ e = "RT_EOK" /\ w \in Allocating
  PROVE  PoolInv'
<1>1. SystemTypes' BY PoolTypes DEF SystemTypes, SystemOK
<1>2. BlocksAccounted' BY <1>1, AccountedAfter
<1>3. Allocating \subseteq Thread /\ Allocating' \subseteq Thread BY DEF Allocating
<1>4. /\ \A u \in Thread \ {w} : k'.stat[u] = k.stat[u] /\ k'.error[u] = k.error[u]
      /\ k'.stat[w] = "ready" /\ k'.error[w] = e
  BY PoolTypes
<1>5. NoStranded' BY <1>3, <1>4 DEF PoolInv, NoLostWakeup, NoStranded
<1>6. Len(free) \in Nat /\ Len(free') \in Nat /\ Woken \in SUBSET Thread
  BY PoolTypes, LenProperties DEF Located
<1>7. /\ Woken' \in SUBSET Thread /\ Woken \subseteq Woken' /\ w \notin Woken
      /\ e = "RT_EOK" /\ w \in Allocating => w \in Woken'
  BY <1>3, <1>4 DEF Woken
<1>8. /\ Cardinality(Woken) \in Nat /\ Cardinality(Woken') \in Nat
      /\ Cardinality(Woken) <= Cardinality(Woken')
      /\ e = "RT_EOK" /\ w \in Allocating => Cardinality(Woken) + 1 <= Cardinality(Woken')
  BY <1>6, <1>7, CountKept, CountMore
<1>9. k'.wait[Pool] # <<>> => k.wait[Pool] # <<>> BY ListAfter, PoolTypes
<1>10. NoLostWakeup' BY <1>5, <1>6, <1>8, <1>9 DEF PoolInv, NoLostWakeup
<1> QED BY <1>2, <1>10 DEF PoolInv

-----------------------------------------------------------------------------
(***************************************************************************)
(* The steps.                                                              *)
(***************************************************************************)
LEMMA LocatedSame ==
  ASSUME Located, UNCHANGED <<free, count, held, dma, sending>>
  PROVE  Located'
BY DEF Located, SendsFirst

\* The start, the tick, and the threads' own code.
LEMMA PoolBoot ==
  ASSUME PoolInv, Boot
  PROVE  PoolInv'
<1>1. SystemOK(PoolBlocking) /\ "run" \notin PoolBlocking BY DEF PoolInv, PoolBlocking
<1>2. StartStep \/ \E t \in Thread : BootStep(t) BY DEF Boot
<1>3. /\ SystemOK(PoolBlocking)' /\ k'.wait = k.wait /\ pc' = pc /\ irq' = irq
      /\ \A u \in Thread : pc[u] = "run"
  BY <1>1, <1>2, BootEffect
<1>4. UNCHANGED <<free, count, waiting, held, alive, dma, sending>> BY DEF Boot, poolVars, dmaVars
<1>5. irq = NoThread
  <2>1. k.current = NoThread BY DEF Boot, StartStep, BootStep
  <2> QED BY <2>1 DEF PoolInv, LostOK
<1>6. LostOK' BY <1>3, <1>5, KernelAssumption DEF LostOK
<1>7. Located' BY <1>4, LocatedSame, PoolTypes
<1>8. Allocating' = Allocating /\ Allocating = {} BY <1>3 DEF Allocating
<1> QED
  BY <1>3, <1>4, <1>6, <1>7, <1>8, PoolQuiet, PoolTypes
     DEF SystemTypes, PoolInv, NoLostWakeup, NoStranded

LEMMA PoolTick ==
  ASSUME PoolInv, Tick
  PROVE  PoolInv'
<1>1. UNCHANGED <<free, count, waiting, held, alive, dma, sending>> BY DEF Tick, poolVars, dmaVars
<1>2. Located' /\ Len(free') <= Len(free) BY <1>1, LocatedSame, PoolTypes
<1>3. SystemOK(PoolBlocking) /\ irq = NoThread BY DEF PoolInv, Tick, YieldStep, TimeoutStep, Interrupt
<1>4. CASE YieldStep
  <2>1. /\ SystemOK(PoolBlocking)' /\ pc' = pc /\ irq' = irq
        /\ k'.stat = k.stat /\ k'.wait = k.wait /\ k'.error = k.error
    BY <1>3, <1>4, YieldEffect
  <2>2. LostOK' BY <1>3, <2>1 DEF PoolInv, LostOK
  <2>3. Allocating' = Allocating BY <2>1 DEF Allocating
  <2> QED
    BY <1>1, <1>2, <2>1, <2>2, <2>3, PoolQuiet, PoolTypes
       DEF SystemTypes, PoolInv, NoLostWakeup, NoStranded
<1>5. ASSUME NEW u \in Thread, TimeoutStep(u) PROVE PoolInv'
  <2>1. /\ SystemOK(PoolBlocking)' /\ pc' = pc /\ irq' = irq /\ k.stat[u] = "suspend"
        /\ k'.stat = [k.stat EXCEPT ![u] = "ready"]
        /\ k'.error = [k.error EXCEPT ![u] = "RT_ETIMEOUT"]
        /\ \A q \in Queue : ToSet(k'.wait[q]) = ToSet(k.wait[q]) \ {u}
    BY <1>3, <1>5, TimeoutEffect
  <2>2. LostOK' BY <1>3, <2>1, KernelAssumption DEF PoolInv, LostOK
  <2>3. Allocating' = Allocating BY <2>1 DEF Allocating
  <2>4. ToSet(k'.wait[Pool]) = ToSet(k.wait[Pool]) \ {u} BY <2>1, MemPoolAssumption
  <2>5. Len(k'.wait[Pool]) <= waiting'
    <3>1. Len(k'.wait[Pool]) <= Len(k.wait[Pool]) /\ Len(k'.wait[Pool]) \in Nat
      BY <2>1, <2>4, ListAfter
    <3> QED BY <1>1, <3>1, PoolTypes DEF PoolInv, NoLostWakeup, NoStranded
  <2>6. "RT_ETIMEOUT" \in Error BY DEF Error
  <2> QED BY <1>1, <1>2, <2>1, <2>2, <2>3, <2>4, <2>5, <2>6, PoolWakes, PoolTypes
       DEF SystemTypes
<1> QED BY <1>4, <1>5 DEF Tick

LEMMA PoolCompute ==
  ASSUME PoolInv, UNCHANGED vars
  PROVE  PoolInv'
<1>1. /\ UNCHANGED <<free, count, waiting, held, alive, dma, sending>>
      /\ k' = k /\ irq' = irq /\ pc' = pc
  BY DEF vars
<1>2. Located' BY <1>1, LocatedSame, PoolTypes
<1>3. SystemOK(PoolBlocking)' /\ LostOK' BY <1>1 DEF PoolInv, SystemOK, LostOK
<1>4. Allocating' = Allocating BY <1>1 DEF Allocating
<1> QED BY <1>1, <1>2, <1>3, <1>4, PoolQuiet, PoolTypes
     DEF SystemTypes, PoolInv, NoLostWakeup, NoStranded

\* A thread calls rt_schedule, to block or at the end of a call.
LEMMA PoolSchedules ==
  ASSUME PoolInv, NEW t \in Thread, AllocSchedule(t) \/ FreeSchedule(t), UNCHANGED dmaVars
  PROVE  PoolInv'
<1>1. PICK from \in {"alloc_sched", "free_sched"}, to \in {"alloc_return", "run"} :
         /\ ScheduleStep(t, from, to) /\ UNCHANGED poolVars
         /\ from = "alloc_sched" <=> to = "alloc_return"
  BY DEF AllocSchedule, FreeSchedule
<1>2. /\ Running(t) /\ pc[t] = from /\ pc' = [pc EXCEPT ![t] = to]
      /\ k' = Schedule(k) /\ irq' = irq
      /\ UNCHANGED <<free, count, waiting, held, alive, dma, sending>>
  BY <1>1 DEF ScheduleStep, Goto, poolVars, dmaVars
<1>3. irq = NoThread /\ k.current = t BY <1>1, <1>2, UserFacts
<1>4. /\ SystemOK(PoolBlocking)' /\ k'.stat = k.stat /\ k'.wait = k.wait
      /\ k'.error = k.error
  <2>1. SystemOK(PoolBlocking) BY DEF PoolInv
  <2> QED BY <1>2, <1>3, <2>1, ScheduleEffect
<1>5. to \in PoolPc /\ to # "lost" BY <1>1 DEF PoolPc
<1>6. /\ LostOK' /\ irq' \in Thread \cup {NoThread} /\ pc' \in [Thread -> PoolPc]
      /\ \A u \in Thread : pc'[u] = IF u = t THEN to ELSE pc[u]
  BY <1>2, <1>3, <1>5, CalmStep
<1>7. \A u \in Thread : u \in Allocating' <=> u \in Allocating
  BY <1>1, <1>2, <1>6 DEF Allocating
<1>8. Located' BY <1>2, LocatedSame, PoolTypes
<1>9. Allocating \subseteq Thread BY DEF Allocating
<1> QED BY <1>2, <1>4, <1>6, <1>7, <1>8, <1>9, PoolQuiet, PoolTypes
     DEF SystemTypes, PoolInv, NoLostWakeup, NoStranded

\* A step of a thread outside rt_mp_alloc that wakes nobody.
LEMMA PoolOwnStep ==
  ASSUME PoolInv, NEW t \in Thread, Running(t), k' = k,
         pc[t] \in {"run", "detach_test", "detach_body"},
         NEW to \in {"run", "detach_test", "detach_body", "lost"},
         pc' = [pc EXCEPT ![t] = to], irq' = IF to = "lost" THEN t ELSE irq,
         Located', Len(free') <= Len(free), waiting' \in Nat, Len(k.wait[Pool]) <= waiting',
         alive' \in BOOLEAN
  PROVE  PoolInv'
<1>1. irq = NoThread /\ k.current = t BY UserFacts
<1>2. to \in PoolPc BY DEF PoolPc
<1>3. /\ LostOK' /\ irq' \in Thread \cup {NoThread} /\ pc' \in [Thread -> PoolPc]
      /\ \A u \in Thread : pc'[u] = IF u = t THEN to ELSE pc[u]
  BY <1>1, <1>2, CalmStep
<1>4. \A u \in Thread : u \in Allocating' <=> u \in Allocating BY <1>3 DEF Allocating
<1>5. SystemOK(PoolBlocking)'
  <2>1. SystemOK(PoolBlocking) /\ k \in KernelState /\ KernelOK(k) BY DEF PoolInv, SystemOK
  <2>2. pc[t] \notin PoolBlocking BY DEF PoolBlocking
  <2> QED BY <1>1, <2>1, <2>2, SystemQuiet
<1> QED BY <1>3, <1>4, <1>5, PoolQuiet

\* The step of a thread that stays where it is.
LEMMA PcStays ==
  ASSUME PoolInv, NEW t \in Thread, pc[t] = "run", pc' = pc
  PROVE  pc' = [pc EXCEPT ![t] = "run"]
BY PoolTypes DEF SystemTypes

LEMMA PoolOwnKeeps ==
  ASSUME PoolInv, NEW t \in Thread,
         \/ /\ \/ AllocNow(t) \/ AllocNone(t)
               \/ \E b \in Block : FreeLost(t, b)
               \/ Detach(t) \/ DetachTest(t) \/ DetachLost(t) \/ PoolReinit(t)
            /\ UNCHANGED dmaVars
         \/ \E b \in Block : WriteLink(t, b)
  PROVE  PoolInv'
<1>1. /\ Located /\ Len(k.wait[Pool]) <= waiting /\ Len(free) <= Len(free)
      /\ waiting \in Nat /\ alive \in BOOLEAN /\ count = Len(free)
  BY PoolTypes DEF PoolInv, NoLostWakeup, NoStranded, SystemTypes, Located
<1>2. CASE AllocNow(t) /\ UNCHANGED dmaVars
  <2>1. /\ Running(t) /\ pc[t] = "run" /\ count > 0 /\ TakeBlock(t)
        /\ UNCHANGED <<k, irq, pc, waiting, alive>>
    BY <1>2 DEF AllocNow, Calls
  <2>2. free # <<>> BY <1>1, <2>1
  <2>3. Located' /\ Len(free') <= Len(free)
    <3>1. Located' /\ Len(free') = Len(free) - 1 /\ Len(free) \in Nat
      BY <1>1, <1>2, <2>1, <2>2, TakenOK
    <3> QED BY <3>1
  <2> QED BY <1>1, <2>1, <2>3, PcStays, PoolOwnStep
<1>3. CASE AllocNone(t) /\ UNCHANGED dmaVars
  <2>1. /\ Running(t) /\ pc[t] = "run"
        /\ UNCHANGED <<k, irq, pc, free, count, waiting, held, alive, dma, sending>>
    BY <1>3 DEF AllocNone, Calls, poolVars, dmaVars
  <2> QED BY <1>1, <2>1, PcStays, LocatedSame, PoolOwnStep
<1>4. CASE (\E b \in Block : FreeLost(t, b)) /\ UNCHANGED dmaVars
  <2>1. /\ Running(t) /\ pc[t] = "run" /\ pc' = [pc EXCEPT ![t] = "lost"] /\ irq' = t
        /\ UNCHANGED <<k, free, count, waiting, held, alive, dma, sending>>
    BY <1>4 DEF FreeLost, Goto, poolVars, dmaVars
  <2> QED BY <1>1, <2>1, LocatedSame, PoolOwnStep
<1>5. CASE Detach(t) /\ UNCHANGED dmaVars
  <2>1. /\ Running(t) /\ pc[t] = "run" /\ pc' = [pc EXCEPT ![t] = "detach_test"]
        /\ UNCHANGED <<k, irq, free, count, waiting, held, dma, sending>> /\ alive' = FALSE
    BY <1>5 DEF Detach, Goto, dmaVars
  <2> QED BY <1>1, <2>1, LocatedSame, PoolOwnStep
<1>6. CASE DetachTest(t) /\ UNCHANGED dmaVars
  <2>1. PICK to \in {"run", "detach_body"} :
        /\ Running(t) /\ pc[t] = "detach_test" /\ pc' = [pc EXCEPT ![t] = to]
        /\ UNCHANGED <<k, irq, free, count, waiting, held, alive, dma, sending>>
    BY <1>6 DEF DetachTest, ResumeAllTest, Goto, poolVars, dmaVars
  <2> QED BY <1>1, <2>1, LocatedSame, PoolOwnStep
<1>7. CASE DetachLost(t) /\ UNCHANGED dmaVars
  <2>1. /\ Running(t) /\ pc[t] = "detach_body" /\ pc' = [pc EXCEPT ![t] = "lost"] /\ irq' = t
        /\ UNCHANGED <<k, free, count, waiting, held, alive, dma, sending>>
    BY <1>7 DEF DetachLost, ResumeAllLost, Goto, poolVars, dmaVars
  <2> QED BY <1>1, <2>1, LocatedSame, PoolOwnStep
<1>8. CASE PoolReinit(t) /\ UNCHANGED dmaVars
  <2>1. /\ Running(t) /\ pc[t] = "run" /\ pc' = [pc EXCEPT ![t] = "run"]
        /\ \A s \in Thread \ {t} : pc[s] \in {"run", "free_sched"}
        /\ ToSet(free) = Block /\ free' = Blocks /\ count' = Len(Blocks) /\ waiting' = 0
        /\ alive' = TRUE /\ k' = [k EXCEPT !.wait[Pool] = <<>>]
        /\ UNCHANGED <<irq, held, dma, sending>>
    BY <1>8 DEF PoolReinit, Goto, dmaVars
  <2>2. Allocating = {} BY <2>1 DEF Allocating
  <2>3. ToSet(k.wait[Pool]) = {}
    <3>1. ToSet(k.wait[Pool]) \subseteq Thread BY PoolTypes, HeadToSet
    <3> QED BY <2>2, <3>1 DEF PoolInv, NoLostWakeup, NoStranded
  <2>4. k.wait[Pool] = <<>> /\ Len(k.wait[Pool]) <= waiting' BY <2>1, <2>3, PoolTypes
  <2>5. k' = k
    <3>1. k \in KernelState /\ Pool \in Queue BY PoolTypes DEF SystemTypes
    <3>2. [k.wait EXCEPT ![Pool] = <<>>] = k.wait BY <2>4, <3>1 DEF KernelState
    <3>3. [k EXCEPT !.wait = k.wait] = k BY <3>1 DEF KernelState
    <3> QED BY <2>1, <3>2, <3>3
  <2>6. /\ Blocks \in Seq(Block) /\ IsInjective(Blocks) /\ ToSet(Blocks) = Block
    BY MemPoolAssumption DEF Block
  <2>7. Located'
    <3>1. SendsFirst' BY <1>1, <2>1 DEF Located, SendsFirst
    <3>2. ToSet(free') = ToSet(free) BY <2>1, <2>6
    <3> QED BY <1>1, <2>1, <2>6, <3>1, <3>2 DEF Located
  <2>8. Len(free') <= Len(free)
    <3>1. ToSet(free') \subseteq ToSet(free) BY <2>1, <2>6
    <3>2. free \in Seq(Block) /\ IsInjective(free) BY <1>1 DEF Located
    <3> QED BY <2>1, <2>6, <3>1, <3>2, LenOfMembers
  <2> QED BY <1>1, <2>1, <2>4, <2>5, <2>7, <2>8, PoolOwnStep
<1>9. ASSUME NEW b \in Block, WriteLink(t, b) PROVE PoolInv'
  <2>1. /\ Running(t) /\ pc[t] = "run" /\ b \in held[t]
        /\ held' = [held EXCEPT ![t] = @ \ {b}] /\ dma' = Append(dma, b)
        /\ sending' = IF dma = <<>> THEN b ELSE sending
        /\ UNCHANGED <<k, irq, pc, free, count, waiting, alive>>
    BY <1>9 DEF WriteLink
  <2>2. Located' BY <1>1, <2>1, LinkedOK
  <2> QED BY <1>1, <2>1, <2>2, PcStays, PoolOwnStep
<1> QED BY <1>2, <1>3, <1>4, <1>5, <1>6, <1>7, <1>8, <1>9

-----------------------------------------------------------------------------
\* rt_mp_alloc waits.
LEMMA PoolSuspends ==
  ASSUME PoolInv, NEW t \in Thread, NEW time \in Times, AllocSuspend(t, time), UNCHANGED dmaVars
  PROVE  PoolInv'
<1>1. PICK s : s = ListInsertAfter(Suspend(k, t), Pool, t) OBVIOUS
<1>2. /\ Running(t) /\ t # Idle /\ count = 0 /\ pc[t] = "run"
      /\ pc' = [pc EXCEPT ![t] = "alloc_sched"] /\ k' \in {s, TimerStart(s, t)}
      /\ waiting' = waiting + 1 /\ irq' = irq
      /\ UNCHANGED <<free, count, held, alive, dma, sending>>
  BY <1>1 DEF AllocSuspend, Calls, Goto, dmaVars
<1>3. irq = NoThread /\ k.current = t BY <1>2, UserFacts
<1>4. "alloc_sched" \in PoolPc BY DEF PoolPc
<1>5. /\ LostOK' /\ irq' \in Thread \cup {NoThread} /\ pc' \in [Thread -> PoolPc]
      /\ \A u \in Thread : pc'[u] = IF u = t THEN "alloc_sched" ELSE pc[u]
  BY <1>2, <1>3, <1>4, CalmStep
<1>6. /\ SystemOK(PoolBlocking)' /\ t \notin ToSet(k.wait[Pool])
      /\ k'.stat = [k.stat EXCEPT ![t] = "suspend"] /\ k'.error = k.error
      /\ ToSet(k'.wait[Pool]) = ToSet(k.wait[Pool]) \cup {t}
  <2>1. SystemOK(PoolBlocking) BY DEF PoolInv
  <2>2. pc[t] \notin PoolBlocking /\ pc'[t] \in PoolBlocking BY <1>2, <1>5 DEF PoolBlocking
  <2> QED BY <1>1, <1>2, <1>3, <2>1, <2>2, SuspendFirstEffect
<1>7. Located' BY <1>2, LocatedSame, PoolTypes
<1>8. SystemTypes' BY <1>2, <1>5, <1>6, PoolTypes DEF SystemTypes, SystemOK
<1>9. BlocksAccounted' BY <1>7, <1>8, AccountedAfter
<1>10. NoStranded'
  <2>1. ASSUME NEW u \in Thread
        PROVE  (u \in ToSet(k.wait[Pool]) <=> (u \in Allocating /\ k.stat[u] = "suspend"))'
    <3>1. CASE u = t
      <4>1. u \in Allocating' BY <1>5, <3>1 DEF Allocating
      <4>2. k'.stat[u] = "suspend" BY <1>6, <3>1, PoolTypes
      <4> QED BY <1>6, <3>1, <4>1, <4>2
    <3>2. CASE u # t
      <4>1. u \in Allocating' <=> u \in Allocating BY <1>5, <3>2 DEF Allocating
      <4>2. k'.stat[u] = k.stat[u] BY <1>6, <3>2, PoolTypes
      <4> QED BY <1>6, <3>2, <4>1, <4>2 DEF PoolInv, NoLostWakeup, NoStranded
    <3> QED BY <3>1, <3>2
  <2>2. Len(k'.wait[Pool]) = Len(k.wait[Pool]) + 1 BY <1>6, ListAfter
  <2>3. Len(k.wait[Pool]) <= waiting BY DEF PoolInv, NoLostWakeup, NoStranded
  <2>4. Len(k'.wait[Pool]) <= waiting' BY <1>2, <2>2, <2>3, PoolTypes
  <2> QED BY <2>1, <2>4 DEF NoStranded
<1>11. Len(free') = 0 BY <1>2, PoolTypes DEF Located
<1>12. Cardinality(Woken') \in Nat
  <2>1. Woken' \in SUBSET Thread BY DEF Woken, Allocating
  <2> QED BY <2>1, CountKept
<1>13. NoLostWakeup' BY <1>10, <1>11, <1>12 DEF NoLostWakeup
<1> QED BY <1>5, <1>6, <1>9, <1>13 DEF PoolInv

\* rt_mp_alloc returns after it has waited, or is lost.
LEMMA PoolReturns ==
  ASSUME PoolInv, NEW t \in Thread, AllocError(t) \/ AllocWoken(t) \/ AllocLost(t),
         UNCHANGED dmaVars
  PROVE  PoolInv'
<1>1. PICK to \in {"run", "lost"} :
        /\ Running(t) /\ pc[t] = "alloc_return" /\ pc' = [pc EXCEPT ![t] = to]
        /\ irq' = IF to = "lost" THEN t ELSE irq
        /\ UNCHANGED <<k, waiting, alive>>
  BY DEF AllocError, AllocWoken, AllocLost, Goto, poolVars
<1>2. irq = NoThread /\ k.current = t /\ t \notin ToSet(k.wait[Pool]) BY <1>1, UserFacts
<1>3. to \in PoolPc BY DEF PoolPc
<1>4. /\ LostOK' /\ irq' \in Thread \cup {NoThread} /\ pc' \in [Thread -> PoolPc]
      /\ \A u \in Thread : pc'[u] = IF u = t THEN to ELSE pc[u]
  BY <1>1, <1>2, <1>3, CalmStep
<1>5. SystemOK(PoolBlocking)'
  <2>1. SystemOK(PoolBlocking) /\ k \in KernelState /\ KernelOK(k) BY DEF PoolInv, SystemOK
  <2>2. pc[t] \notin PoolBlocking BY <1>1 DEF PoolBlocking
  <2> QED BY <1>1, <1>2, <2>1, <2>2, SystemQuiet
<1>6. t \notin Allocating' /\ \A u \in Thread \ {t} : u \in Allocating' <=> u \in Allocating
  BY <1>1, <1>4 DEF Allocating
<1>7. /\ Located'
      /\ \/ Len(free') <= Len(free) /\ t \notin Woken
         \/ Len(free') = Len(free) - 1 \/ Len(free') = 0
  <2>1. CASE AllocError(t)
    <3>1. UNCHANGED <<free, count, held, dma, sending>> /\ k.error[t] # "RT_EOK"
      BY <2>1 DEF AllocError, poolVars, dmaVars
    <3>2. Located' BY <3>1, LocatedSame, PoolTypes
    <3> QED BY <3>1, <3>2, PoolTypes DEF Woken
  <2>2. CASE AllocWoken(t)
    <3>1. free # <<>> /\ TakeBlock(t) BY <2>2 DEF AllocWoken
    <3> QED BY <3>1, TakenOK, PoolTypes
  <2>3. CASE AllocLost(t)
    <3>1. free = <<>> /\ UNCHANGED <<free, count, held, dma, sending>>
      BY <2>3 DEF AllocLost, poolVars, dmaVars
    <3> QED BY <3>1, LocatedSame, PoolTypes
  <2> QED BY <2>1, <2>2, <2>3
<1> QED BY <1>1, <1>2, <1>4, <1>5, <1>6, <1>7, PoolLeaves

\* suspend_thread_count covers the list, so that a free that finds it zero finds
\* nobody waiting; and one that wakes a thread counts it out.
LEMMA CountOut ==
  ASSUME PoolInv, SystemOK(PoolBlocking)', NEW w \in ToSet(k.wait[Pool]),
         ToSet(k'.wait[Pool]) = ToSet(k.wait[Pool]) \ {w}, waiting' = waiting - 1
  PROVE  waiting' \in Nat /\ Len(k'.wait[Pool]) <= waiting'
<1>1. Len(k'.wait[Pool]) = Len(k.wait[Pool]) - 1 /\ Len(k'.wait[Pool]) \in Nat BY ListAfter
<1>2. Len(k.wait[Pool]) <= waiting BY DEF PoolInv, NoLostWakeup, NoStranded
<1> QED BY <1>1, <1>2, PoolTypes

\* rt_mp_free in a thread.
LEMMA PoolFrees ==
  ASSUME PoolInv, NEW t \in Thread, NEW b \in Block, Free(t, b), UNCHANGED dmaVars
  PROVE  PoolInv'
<1>1. /\ Running(t) /\ b \in held[t] /\ ~ Stray /\ pc[t] = "run"
      /\ GiveBlock(b) /\ k' = WakeFirst(k) /\ CountWake
      /\ held' = [held EXCEPT ![t] = @ \ {b}] /\ irq' = irq /\ alive' = alive
      /\ pc' = [pc EXCEPT ![t] = IF waiting > 0 THEN "free_sched" ELSE "run"]
  BY DEF Free, Goto
<1>2. irq = NoThread /\ k.current = t BY <1>1, UserFacts
<1>3. Located' /\ Len(free') = Len(free) + 1 BY <1>1, GivenOK, PoolTypes
<1>4. PICK to \in {"run", "free_sched"} : pc' = [pc EXCEPT ![t] = to] BY <1>1
<1>5. to \in PoolPc /\ to # "lost" BY DEF PoolPc
<1>6. /\ LostOK' /\ irq' \in Thread \cup {NoThread} /\ pc' \in [Thread -> PoolPc]
      /\ \A u \in Thread : pc'[u] = IF u = t THEN to ELSE pc[u]
  BY <1>1, <1>2, <1>4, <1>5, CalmStep
<1>7. \A u \in Thread : u \in Allocating' <=> u \in Allocating BY <1>1, <1>6 DEF Allocating
<1>8. SystemOK(PoolBlocking) /\ pc[t] \notin PoolBlocking BY <1>1 DEF PoolInv, PoolBlocking
<1>9. CASE waiting > 0
  <2> DEFINE w == Head(k.wait[Pool])
  <2>1. k.wait[Pool] # <<>> BY <1>1, <1>9 DEF Stray
  <2>2. /\ w \in Thread /\ w \in ToSet(k.wait[Pool]) /\ k.stat[w] = "suspend"
        /\ SystemOK(PoolBlocking)'
        /\ k'.stat = [k.stat EXCEPT ![w] = "ready"]
        /\ k'.error = [k.error EXCEPT ![w] = "RT_EOK"]
        /\ ToSet(k'.wait[Pool]) = ToSet(k.wait[Pool]) \ {w}
    BY <1>1, <1>2, <1>8, <1>9, <2>1, WakeFirstEffect
  <2> HIDE DEF w
  <2>3. waiting' = waiting - 1 BY <1>1, <1>9 DEF CountWake
  <2>4. waiting' \in Nat /\ Len(k'.wait[Pool]) <= waiting' BY <2>2, <2>3, CountOut
  <2>5. w \in Allocating BY <2>2 DEF PoolInv, NoLostWakeup, NoStranded
  <2>6. "RT_EOK" \in Error BY DEF Error
  <2> QED BY <1>1, <1>3, <1>6, <1>7, <2>2, <2>4, <2>5, <2>6, PoolWakes
<1>10. CASE ~ (waiting > 0)
  <2>1. k' = k /\ waiting' = 0 /\ waiting = 0
    BY <1>1, <1>10, PoolTypes DEF WakeFirst, CountWake
  <2>2. SystemOK(PoolBlocking)'
    <3>1. k \in KernelState /\ KernelOK(k) BY <1>8 DEF SystemOK
    <3> QED BY <1>2, <1>8, <2>1, <3>1, SystemQuiet
  <2>3. Len(k.wait[Pool]) <= waiting BY DEF PoolInv, NoLostWakeup, NoStranded
  <2>4. k.wait[Pool] = <<>> BY <2>1, <2>3, PoolTypes
  <2>5. SystemTypes' BY <1>1, <1>6, <2>1, PoolTypes DEF SystemTypes
  <2>6. BlocksAccounted' BY <1>3, <2>5, AccountedAfter
  <2>7. NoLostWakeup' BY <1>7, <2>1, <2>3, <2>4 DEF PoolInv, NoLostWakeup, NoStranded
  <2> QED BY <1>6, <2>2, <2>6, <2>7 DEF PoolInv
<1> QED BY <1>9, <1>10

\* rt_mp_detach wakes a thread with an error.
LEMMA PoolDetaches ==
  ASSUME PoolInv, NEW t \in Thread, DetachWake(t), UNCHANGED dmaVars
  PROVE  PoolInv'
<1> DEFINE w == Head(k.wait[Pool])
<1>1. /\ Running(t) /\ k.wait[Pool] # <<>> /\ pc[t] = "detach_body"
      /\ pc' = [pc EXCEPT ![t] = "detach_test"]
      /\ k' = IpcListResumeError(k, Pool) /\ irq' = irq /\ waiting' = waiting - 1
      /\ UNCHANGED <<free, count, held, alive, dma, sending>>
  BY DEF DetachWake, ResumeAllWake, Goto, dmaVars
<1>2. irq = NoThread /\ k.current = t BY <1>1, UserFacts
<1>3. "detach_test" \in PoolPc BY DEF PoolPc
<1>4. /\ LostOK' /\ irq' \in Thread \cup {NoThread} /\ pc' \in [Thread -> PoolPc]
      /\ \A u \in Thread : pc'[u] = IF u = t THEN "detach_test" ELSE pc[u]
  BY <1>1, <1>2, <1>3, CalmStep
<1>5. /\ w \in Thread /\ w \in ToSet(k.wait[Pool]) /\ k.stat[w] = "suspend"
      /\ SystemOK(PoolBlocking)'
      /\ k'.stat = [k.stat EXCEPT ![w] = "ready"]
      /\ k'.error = [k.error EXCEPT ![w] = "RT_ERROR"]
      /\ ToSet(k'.wait[Pool]) = ToSet(k.wait[Pool]) \ {w}
  <2>1. SystemOK(PoolBlocking) /\ Pool \in Queue BY PoolTypes DEF PoolInv
  <2>2. pc[k.current] \notin PoolBlocking BY <1>1, <1>2 DEF PoolBlocking
  <2> QED BY <1>1, <1>2, <2>1, <2>2, WakeEffect, SMTT(30)
<1> HIDE DEF w
<1>6. \A u \in Thread : u \in Allocating' <=> u \in Allocating BY <1>1, <1>4 DEF Allocating
<1>7. Located' BY <1>1, LocatedSame, PoolTypes
<1>8. waiting' \in Nat /\ Len(k'.wait[Pool]) <= waiting' BY <1>1, <1>5, CountOut
<1>9. "RT_ERROR" \in Error BY DEF Error
<1>10. Len(free') <= Len(free) BY <1>1, PoolTypes
<1> QED BY <1>1, <1>4, <1>5, <1>6, <1>7, <1>8, <1>9, <1>10, PoolWakes

\* The interrupt at the end of a transfer: rt_mp_free, and the next transfer.
LEMMA DmaFrees ==
  ASSUME PoolInv, DmaTxIsr
  PROVE  PoolInv'
<1>1. /\ k.current \in Thread /\ irq = NoThread /\ sending # NoBlock /\ ~ Stray
      /\ dma' = Tail(dma) /\ GiveBlock(Head(dma)) /\ CountWake
      /\ k' = IF waiting > 0 THEN Schedule(WakeFirst(k)) ELSE k
      /\ sending' = IF Tail(dma) = <<>> THEN NoBlock ELSE Head(Tail(dma))
      /\ UNCHANGED <<irq, pc, held, alive>>
  BY DEF DmaTxIsr, Interrupt
<1>2. Located' /\ Len(free') = Len(free) + 1 BY <1>1, SentOK, PoolTypes
<1>3. LostOK' BY <1>1, KernelAssumption DEF PoolInv, LostOK
<1>4. Allocating' = Allocating BY <1>1 DEF Allocating
<1>5. SystemOK(PoolBlocking) BY DEF PoolInv
<1>6. irq' \in Thread \cup {NoThread} /\ pc' \in [Thread -> PoolPc]
  BY <1>1, PoolTypes DEF SystemTypes
<1>7. CASE waiting > 0
  <2> DEFINE w == Head(k.wait[Pool])
  <2>1. k.wait[Pool] # <<>> BY <1>1, <1>7 DEF Stray
  <2>2. /\ w \in Thread /\ w \in ToSet(k.wait[Pool]) /\ k.stat[w] = "suspend"
        /\ SystemOK(PoolBlocking)'
        /\ k'.stat = [k.stat EXCEPT ![w] = "ready"]
        /\ k'.error = [k.error EXCEPT ![w] = "RT_EOK"]
        /\ ToSet(k'.wait[Pool]) = ToSet(k.wait[Pool]) \ {w}
    BY <1>1, <1>5, <1>7, <2>1, WakeFirstEffect
  <2> HIDE DEF w
  <2>3. waiting' = waiting - 1 BY <1>1, <1>7 DEF CountWake
  <2>4. waiting' \in Nat /\ Len(k'.wait[Pool]) <= waiting' BY <2>2, <2>3, CountOut
  <2>5. w \in Allocating BY <2>2 DEF PoolInv, NoLostWakeup, NoStranded
  <2>6. "RT_EOK" \in Error BY DEF Error
  <2> QED BY <1>1, <1>2, <1>3, <1>4, <1>6, <2>2, <2>4, <2>5, <2>6, PoolWakes
<1>8. CASE ~ (waiting > 0)
  <2>1. k' = k /\ waiting' = 0 /\ waiting = 0 BY <1>1, <1>8, PoolTypes DEF CountWake
  <2>2. SystemOK(PoolBlocking)' BY <1>1, <1>5, <2>1 DEF SystemOK
  <2>3. Len(k.wait[Pool]) <= waiting BY DEF PoolInv, NoLostWakeup, NoStranded
  <2>4. k.wait[Pool] = <<>> BY <2>1, <2>3, PoolTypes
  <2>5. SystemTypes' BY <1>1, <1>6, <2>1, PoolTypes DEF SystemTypes
  <2>6. BlocksAccounted' BY <1>2, <2>5, AccountedAfter
  <2>7. NoLostWakeup' BY <1>4, <2>1, <2>3, <2>4 DEF PoolInv, NoLostWakeup, NoStranded
  <2> QED BY <1>3, <2>2, <2>6, <2>7 DEF PoolInv
<1> QED BY <1>7, <1>8

\* The interrupt that loses the thread it has interrupted: nobody waits then.
LEMMA DmaLost ==
  ASSUME PoolInv, DmaTxIsrLost
  PROVE  PoolInv'
<1> DEFINE t == k.current
<1>1. /\ t \in Thread /\ irq = NoThread /\ k.wait[Pool] = <<>>
      /\ pc' = [pc EXCEPT ![t] = "lost"] /\ irq' = t /\ k' = k
      /\ UNCHANGED <<free, count, waiting, held, alive, dma, sending>>
  BY DEF DmaTxIsrLost, Interrupt, Stray, poolVars, dmaVars
<1>2. "lost" \in PoolPc BY DEF PoolPc
<1>3. /\ LostOK' /\ irq' \in Thread \cup {NoThread} /\ pc' \in [Thread -> PoolPc]
      /\ \A u \in Thread : pc'[u] = IF u = t THEN "lost" ELSE pc[u]
  BY <1>1, <1>2, CalmStep
<1>4. SystemOK(PoolBlocking)'
  <2>1. SystemOK(PoolBlocking) /\ k \in KernelState /\ KernelOK(k) BY DEF PoolInv, SystemOK
  <2>2. pc'[t] \in PoolBlocking BY <1>1, <1>3 DEF PoolBlocking
  <2> QED BY <1>1, <2>1, <2>2, SystemQuiet
<1> HIDE DEF t
<1>5. t \notin ToSet(k.wait[Pool]) BY <1>1, PoolTypes
<1>6. t \notin Allocating' /\ \A u \in Thread \ {t} : u \in Allocating' <=> u \in Allocating
  BY <1>1, <1>3 DEF Allocating
<1>7. Located' BY <1>1, LocatedSame, PoolTypes
<1> QED BY <1>1, <1>3, <1>4, <1>5, <1>6, <1>7, PoolLeaves

-----------------------------------------------------------------------------
LEMMA PoolStarts == Init => PoolInv
<1>1. SUFFICES ASSUME Init PROVE PoolInv OBVIOUS
<1>2. /\ SystemOK(PoolBlocking) /\ pc = [t \in Thread |-> "run"] /\ irq = NoThread
      /\ k.wait[Pool] = <<>> /\ ToSet(k.wait[Pool]) = {}
  BY <1>1, SystemInitOK, MemPoolAssumption DEF Init
<1>3. /\ free = Blocks /\ count = Len(Blocks) /\ waiting = 0 /\ alive = TRUE
      /\ held = [t \in Thread |-> {}] /\ dma = <<>> /\ sending = NoBlock
  BY <1>1 DEF Init, PoolInit
<1>4. LostOK BY <1>2, KernelAssumption DEF LostOK
<1>5. SystemTypes BY <1>2, <1>3 DEF SystemTypes, SystemOK, PoolPc
<1>6. Located
  <2>1. Blocks \in Seq(Block) /\ IsInjective(Blocks) /\ ToSet(Blocks) = Block
    BY MemPoolAssumption DEF Block
  <2>2. dma \in Seq(Block) /\ ToSet(dma) = {} /\ IsInjective(dma)
    BY <1>3, EmptySeq DEF ToSet, IsInjective
  <2>3. SendsFirst BY <1>3 DEF SendsFirst
  <2> QED BY <1>3, <2>1, <2>2, <2>3 DEF Located
<1>7. NoLostWakeup BY <1>2, <1>3 DEF NoLostWakeup, NoStranded, Allocating
<1> QED BY <1>2, <1>4, <1>5, <1>6, <1>7, AccountedParts DEF PoolInv

LEMMA PoolStepKeeps ==
  ASSUME PoolInv, [Next]_vars
  PROVE  PoolInv'
<1>1. CASE UNCHANGED vars BY <1>1, PoolCompute
<1>2. CASE Boot BY <1>2, PoolBoot
<1>3. CASE Tick BY <1>3, PoolTick
<1>4. CASE DmaTxIsr BY <1>4, DmaFrees
<1>5. CASE DmaTxIsrLost BY <1>5, DmaLost
<1>6. ASSUME NEW t \in Thread, ThreadStep(t) PROVE PoolInv'
  <2>1. CASE Compute(t)
    <3>1. UNCHANGED vars BY <2>1 DEF Compute, OwnCode, LostStep, vars, poolVars, dmaVars
    <3> QED BY <3>1, PoolCompute
  <2>2. CASE \E b \in Block : WriteLink(t, b) BY <2>2, PoolOwnKeeps
  <2>3. CASE PoolStep(t) /\ UNCHANGED dmaVars
    <3>1. CASE AllocSchedule(t) \/ FreeSchedule(t) BY <2>3, <3>1, PoolSchedules
    <3>2. CASE \E time \in Times : AllocSuspend(t, time) BY <2>3, <3>2, PoolSuspends
    <3>3. CASE AllocError(t) \/ AllocWoken(t) \/ AllocLost(t) BY <2>3, <3>3, PoolReturns
    <3>4. CASE \E b \in Block : Free(t, b) BY <2>3, <3>4, PoolFrees
    <3>5. CASE DetachWake(t) BY <2>3, <3>5, PoolDetaches
    <3>6. CASE \/ AllocNow(t) \/ AllocNone(t) \/ \E b \in Block : FreeLost(t, b)
               \/ Detach(t) \/ DetachTest(t) \/ DetachLost(t) \/ PoolReinit(t)
      BY <2>3, <3>6, PoolOwnKeeps
    <3> QED BY <2>3, <3>1, <3>2, <3>3, <3>4, <3>5, <3>6 DEF PoolStep
  <2> QED BY <1>6, <2>1, <2>2, <2>3 DEF ThreadStep
<1> QED BY <1>1, <1>2, <1>3, <1>4, <1>5, <1>6 DEF Next

LEMMA PoolInvariant == Spec => []PoolInv
BY PoolStarts, PoolStepKeeps, PTL DEF Spec

\* For any threads, priorities and blocks, every block is free, one thread's, or
\* linked for the DMA, whatever the threads, the interrupt of the transfer,
\* time-outs and a detach do between the sections of each other's calls;
\* block_free_count counts the free ones, and the DMA sends the first that is
\* linked.
THEOREM PoolAccountsForBlocks == Spec => []BlocksAccounted
<1>1. PoolInv => BlocksAccounted BY DEF PoolInv
<1> QED BY <1>1, PoolInvariant, PTL

\* While threads wait in rt_mp_alloc, every free block is matched by a thread
\* that rt_mp_free has woken; and suspend_thread_count is never below the length
\* of the list, although time-outs make the two disagree.
THEOREM PoolLosesNoWakeup == Spec => []NoLostWakeup
<1>1. PoolInv => NoLostWakeup BY DEF PoolInv
<1> QED BY <1>1, PoolInvariant, PTL
=============================================================================
