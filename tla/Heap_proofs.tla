------------------------------ MODULE Heap_proofs ------------------------------
(* What std/heap keeps (aipl_src/std/heap.aipl), for any threads, heaps, size *)
(* classes, requests and memory: no block is handed out twice, raw returns    *)
(* zeroed blocks, a correct program is never accused, a write after free that *)
(* the code looks for is reported, and the heap is an Allocator.              *)
EXTENDS Heap, FiniteSetTheorems, WellFoundedInduction, TLAPS

-----------------------------------------------------------------------------
(***************************************************************************)
(* Induction over numbers, for sets of them, and the class of a request.   *)
(***************************************************************************)
Below == {ss \in Nat \X Nat : ss[1] < ss[2]}

\* Every set of natural numbers has a least one.
LEMMA Least ==
  ASSUME NEW T, T \subseteq Nat, T # {}
  PROVE  \E m \in T : \A k \in T : m <= k
<1>1. IsWellFoundedOn(Below, Nat)
  BY NatLessThanWellFounded DEF OpToRel, Below
<1>2. PICK m \in T : \A k \in T : ~ (<<k, m>> \in Below)
  BY <1>1, WFMin
<1>3. ASSUME NEW k \in Nat, NEW i \in Nat, k < i PROVE <<k, i>> \in Below
  <2> DEFINE ss == <<k, i>>
  <2>1. ss \in Nat \X Nat /\ ss[1] = k /\ ss[2] = i
    OBVIOUS
  <2> HIDE DEF ss
  <2>2. ss \in Below
    BY <1>3, <2>1 DEF Below
  <2> QED BY <2>2 DEF ss
<1>4. \A k \in T : m <= k
  <2> SUFFICES ASSUME NEW k \in T, k < m PROVE FALSE
    OBVIOUS
  <2> QED BY <1>2, <1>3
<1> QED BY <1>4

\* ClassOf is defined for every request, and its blocks are large enough.
LEMMA ClassFits ==
  ASSUME NEW n \in Requests
  PROVE  /\ ClassOf(n) \in Classes /\ CellsOf(n) \in Int
         /\ ClassCells[ClassOf(n)] \in Nat \ {0} /\ CellsOf(n) <= ClassCells[ClassOf(n)]
<1> DEFINE large == {c \in Classes : ClassCells[c] >= CellsOf(n)}
<1>1. CellsOf(n) \in Int
  BY HeapAssumption DEF CellsOf
<1>2. large \subseteq Nat /\ large # {}
  BY HeapAssumption
<1>3. PICK m \in large : \A k \in large : m <= k
  <2> HIDE DEF large
  <2> QED BY <1>2, Least
<1>4. /\ m \in Classes /\ ClassCells[m] >= CellsOf(n)
      /\ \A d \in 1..m-1 : ClassCells[d] < CellsOf(n)
  <2>1. m \in Nat \ {0} /\ 1..m \subseteq Classes
    BY HeapAssumption
  <2>2. ASSUME NEW d \in 1..m-1 PROVE ClassCells[d] < CellsOf(n)
    <3>1. d \in Classes /\ d < m /\ d \in Nat /\ m \in Nat
      BY <2>1
    <3>2. d \notin large
      BY <1>3, <3>1
    <3> QED BY <1>1, <3>1, <3>2, HeapAssumption
  <2> QED BY <2>2
<1>5. /\ ClassOf(n) \in Classes /\ ClassCells[ClassOf(n)] >= CellsOf(n)
  BY <1>4 DEF ClassOf
<1> QED BY <1>1, <1>5, HeapAssumption

-----------------------------------------------------------------------------
(***************************************************************************)
(* The inductive invariant.  What a cell may hold, and the rest of the     *)
(* types:                                                                  *)
(***************************************************************************)
Cell == {Zero, Poison, Data} \cup {Link(p) : p \in 0..LastCell}
          \cup {Header(s, h, n) : s \in {"LIVE", "FREED"}, h \in Heaps, n \in Requests}
HeapType == [lock : Threads \cup {None}, heads : [Classes -> 0..LastCell],
             cur : 0..LastCell + 1, end : 0..LastCell + 1,
             nlive : Int, live_bytes : Int, reserved : Int]
Spots     == {"idle", "lock", "take", "fill", "check", "put", "unlock"}
CallType  == [pc : Spots, op : {"raw", "free"}, h : Heaps \cup {0}, p : 0..LastCell, n : Requests \cup {0}]
BlockType == [h : Heaps, p : 2..LastCell, n : Requests]
HTyped ==
  /\ mem \in [1..LastCell -> Cell] /\ brk \in 1..LastCell + 1
  /\ heap \in [Heaps -> HeapType] /\ call \in [Threads -> CallType]
  /\ held \subseteq BlockType /\ stale \subseteq BlockType /\ dirty \subseteq 2..LastCell
  /\ \A t \in Threads : call[t].pc # "idle" => call[t].h \in Heaps /\ call[t].n \in Requests

\* Who is in the heap has its lock.
Inside == {"take", "fill", "put", "unlock"}
Locks == \A t \in Threads : call[t].pc \in Inside => heap[call[t].h].lock = t

\* A block at p: one with a header, or one that raw has found and not yet filled.
Filling(t)    == call[t].op = "raw" /\ call[t].pc = "fill"
IsBlock(p, c) == /\ p \in 2..LastCell + 1
                 /\ \/ mem[p - 1].tag \in {"LIVE", "FREED"} /\ c = ClassOf(mem[p - 1].b)
                    \/ \E t \in Threads : Filling(t) /\ call[t].p = p /\ c = ClassOf(call[t].n)
EndOf(p, c)   == p + ClassCells[c]
Apart(p, c, q, d) == EndOf(p, c) <= q - 1 \/ EndOf(q, d) <= p - 1

\* Blocks and the rests of the chunks lie apart, below brk.
Rests == /\ \A h \in Heaps : /\ heap[h].cur <= heap[h].end /\ heap[h].end <= brk
                             /\ heap[h].cur = 0 => heap[h].end = 0
         /\ \A h, g \in Heaps : h # g => heap[h].end <= heap[g].cur \/ heap[g].end <= heap[h].cur
OffRests(p, c) == /\ EndOf(p, c) <= brk
                  /\ \A h \in Heaps : EndOf(p, c) <= heap[h].cur \/ heap[h].end <= p - 1
Layout ==
  /\ \A p \in 2..LastCell + 1, c \in Classes : IsBlock(p, c) => OffRests(p, c)
  /\ \A p, q \in 2..LastCell + 1, c, d \in Classes :
       IsBlock(p, c) /\ IsBlock(q, d) => (p = q /\ c = d) \/ Apart(p, c, q, d)

\* A block has one user at most, who holds it, is given it, or frees it.
LiveAt(p, h, n) == p \in 2..LastCell /\ mem[p - 1] = Header("LIVE", h, n)
Mine(t) == LiveAt(call[t].p, call[t].h, call[t].n)
Uses(t) == \/ call[t].op = "raw"  /\ call[t].pc \in {"fill", "unlock"}
           \/ call[t].op = "free" /\ call[t].pc \in {"check", "lock", "put"} /\ Mine(t)
OneThread == \A t, u \in Threads : t = u
Careless  == Misuse \cap {"again", "wrong"} # {} /\ OneThread
Owners ==
  /\ \A b \in held : LiveAt(b.p, b.h, b.n)
  /\ \A t \in Threads :
       /\ Filling(t) => call[t].p \in 2..LastCell /\ mem[call[t].p - 1].tag # "LIVE"
       /\ call[t].op = "raw" /\ call[t].pc = "unlock" => Mine(t)
       /\ call[t].op = "raw" => call[t].pc \in {"idle", "lock", "take", "fill", "unlock"}
       /\ call[t].op = "free" => call[t].pc \in {"check", "lock", "put", "unlock"}
       /\ call[t].op = "free" /\ call[t].pc \in {"lock", "put"} => Mine(t)
       /\ call[t].pc = "check" => call[t].p \in 2..LastCell /\ (Mine(t) \/ Careless)
OneUser ==
  /\ \A t, u \in Threads : Uses(t) /\ Uses(u) /\ t # u => call[t].p # call[u].p
  /\ \A t \in Threads, b \in held : Uses(t) => call[t].p # b.p
  /\ \A p \in 2..LastCell : mem[p - 1].tag = "LIVE" =>
        (\E b \in held : b.p = p) \/ \E t \in Threads : Uses(t) /\ call[t].p = p

\* Freed blocks are linked, each from one other or from the head of its list.
Free(q) == /\ q \in 2..LastCell /\ mem[q - 1].tag = "FREED"
           /\ \A t \in Threads : Filling(t) => call[t].p # q
OnList(q, h, c) == Free(q) /\ mem[q - 1].a = h /\ ClassOf(mem[q - 1].b) = c
Covers(S, h, c) == /\ heap[h].heads[c] \in S \cup {0}
                   /\ \A q \in S : OnList(q, h, c) => mem[q].a \in S \cup {0}
Links ==
  /\ \A h \in Heaps, c \in Classes : heap[h].heads[c] # 0 => OnList(heap[h].heads[c], h, c)
  /\ \A q \in 2..LastCell : Free(q) =>
       /\ mem[q].tag = "link"
       /\ mem[q].a # 0 => /\ OnList(mem[q].a, mem[q - 1].a, ClassOf(mem[q - 1].b))
                          /\ mem[q].a # heap[mem[q - 1].a].heads[ClassOf(mem[q - 1].b)]
  /\ \A q, r \in 2..LastCell : Free(q) /\ Free(r) /\ q # r /\ mem[q].a # 0 => mem[q].a # mem[r].a
  /\ \A h \in Heaps, c \in Classes, S \in SUBSET (2..LastCell) :
       Covers(S, h, c) => \A q \in 2..LastCell : OnList(q, h, c) => q \in S
Junk ==
  /\ \A q \in 2..LastCell : Free(q) => (q \in dirty <=> WrittenAfterFree(q))
  /\ \A q \in dirty : Free(q)
  /\ dirty # {} => "write" \in Misuse
Fails == Misuse = {} => stopped \in {"no", "out of memory"}

HInv == HTyped /\ Locks /\ Rests /\ Layout /\ Owners /\ OneUser /\ Links /\ Junk /\ ReturnsZeroed /\ Fails

-----------------------------------------------------------------------------
LEMMA PayloadFits ==
  ASSUME NEW n \in Requests, NEW p \in Int, NEW i \in Payload(p, n)
  PROVE  i \in Int /\ p <= i /\ i < EndOf(p, ClassOf(n))
BY ClassFits DEF Payload, EndOf


\* A cell tagged LIVE or FREED is a header, and a link names a cell or none.
LEMMA CellKinds ==
  ASSUME NEW x \in Cell
  PROVE  /\ x.tag \in {"LIVE", "FREED"} => /\ x = Header(x.tag, x.a, x.b)
                                           /\ x.a \in Heaps /\ x.b \in Requests
         /\ x.tag = "link" => x.a \in 0..LastCell
BY DEF Cell, Zero, Poison, Data, Link, Header

\* What the code stores is a cell, and what each of them is told apart by.
LEMMA Stored ==
  /\ Zero \in Cell /\ Poison \in Cell /\ Data \in Cell
  /\ Zero.tag \notin {"LIVE", "FREED"} /\ Poison.tag \notin {"LIVE", "FREED"}
  /\ Data.tag \notin {"LIVE", "FREED"} /\ Data # Poison
  /\ \A p \in 0..LastCell : /\ Link(p) \in Cell /\ Link(p).a = p
                            /\ Link(p).tag = "link"
  /\ \A s \in {"LIVE", "FREED"}, h \in Heaps, n \in Requests :
       /\ Header(s, h, n) \in Cell /\ Header(s, h, n).tag = s
       /\ Header(s, h, n).a = h /\ Header(s, h, n).b = n
<1>1. Zero \in Cell /\ Poison \in Cell /\ Data \in Cell
  BY DEF Cell
<1>2. \A p \in 0..LastCell : Link(p) \in Cell
  BY DEF Cell
<1>3. \A s \in {"LIVE", "FREED"}, h \in Heaps, n \in Requests : Header(s, h, n) \in Cell
  BY DEF Cell
<1> QED BY <1>1, <1>2, <1>3 DEF Zero, Poison, Data, Link, Header

\* Wherever a header stands there is a block of its class.
LEMMA HeaderBlock ==
  ASSUME HTyped, NEW p \in 2..LastCell + 1, mem[p - 1].tag \in {"LIVE", "FREED"}
  PROVE  /\ mem[p - 1].a \in Heaps /\ mem[p - 1].b \in Requests
         /\ ClassOf(mem[p - 1].b) \in Classes /\ IsBlock(p, ClassOf(mem[p - 1].b))
<1>1. p - 1 \in 1..LastCell
  BY HeapAssumption
<1>2. mem[p - 1] \in Cell
  BY <1>1 DEF HTyped
<1>3. mem[p - 1].b \in Requests /\ mem[p - 1].a \in Heaps
  BY <1>2, CellKinds
<1> QED BY <1>3, ClassFits DEF IsBlock

\* A block lies in memory that was handed out, header and payload.
LEMMA BlockSpan ==
  ASSUME HTyped, Layout, NEW p \in 2..LastCell + 1, NEW c \in Classes, IsBlock(p, c)
  PROVE  /\ p \in 2..LastCell /\ p - 1 \in 1..LastCell
         /\ EndOf(p, c) \in Int /\ p < EndOf(p, c) /\ EndOf(p, c) <= brk
         /\ EndOf(p, c) <= LastCell + 1
<1>1. ClassCells[c] \in Nat \ {0} /\ LastCell \in Nat
  BY HeapAssumption
<1>2. brk \in Int /\ brk <= LastCell + 1
  BY <1>1 DEF HTyped
<1>3. EndOf(p, c) <= brk
  BY DEF Layout, OffRests
<1> QED BY <1>1, <1>2, <1>3 DEF EndOf

-----------------------------------------------------------------------------
(***************************************************************************)
(* Which parts of the invariant a step leaves alone.                       *)
(***************************************************************************)
SameChunks == \A h \in Heaps : heap'[h].cur = heap[h].cur /\ heap'[h].end = heap[h].end
SameHeads  == \A h \in Heaps : heap'[h].heads = heap[h].heads
SameHeaps  == SameChunks /\ SameHeads
SameFilling == \A t \in Threads : /\ Filling(t)' = Filling(t)
                                  /\ Filling(t) => call'[t].p = call[t].p /\ call'[t].n = call[t].n

\* A heap's lock is taken or given back.
LEMMA LockSet ==
  ASSUME HTyped, NEW h \in Heaps, NEW x \in Threads \cup {None}, heap' = [heap EXCEPT ![h].lock = x]
  PROVE  /\ heap' \in [Heaps -> HeapType] /\ heap'[h].lock = x
         /\ \A g \in Heaps \ {h} : heap'[g] = heap[g]
         /\ SameHeaps
<1>1. heap \in [Heaps -> HeapType] /\ heap[h] \in HeapType
  BY DEF HTyped
<1>2. PICK z : z = [heap[h] EXCEPT !.lock = x]
  OBVIOUS
<1>3. z \in HeapType /\ z.lock = x /\ z.cur = heap[h].cur /\ z.end = heap[h].end /\ z.heads = heap[h].heads
  BY <1>1, <1>2 DEF HeapType
<1>4. heap' = [heap EXCEPT ![h] = z]
  BY <1>2
<1>5. /\ heap' \in [Heaps -> HeapType] /\ heap'[h] = z
      /\ \A g \in Heaps \ {h} : heap'[g] = heap[g]
  BY ONLY <1>1, <1>3, <1>4
<1> QED BY ONLY <1>3, <1>5 DEF SameHeaps, SameChunks, SameHeads

\* The chunks are as they were, and there is no new block.
LEMMA LayoutKept ==
  ASSUME Rests, Layout, SameChunks, brk' = brk,
         \A p \in 2..LastCell + 1, c \in Classes : IsBlock(p, c)' => IsBlock(p, c)
  PROVE  Rests' /\ Layout'
<1>1. Rests'
  BY DEF Rests, SameChunks
<1>2. \A p \in 2..LastCell + 1, c \in Classes : IsBlock(p, c)' => OffRests(p, c)'
  BY DEF Layout, OffRests, SameChunks
<1>3. \A p, q \in 2..LastCell + 1, c, d \in Classes :
         IsBlock(p, c)' /\ IsBlock(q, d)' => (p = q /\ c = d) \/ Apart(p, c, q, d)
  BY DEF Layout
<1> QED BY <1>1, <1>2, <1>3 DEF Layout

\* The free blocks are, and their headers and links, as they were.
LEMMA LinksKept ==
  ASSUME HTyped, Links, SameHeads,
         \A q \in 2..LastCell : Free(q)' = Free(q),
         \A q \in 2..LastCell : Free(q) => mem'[q - 1] = mem[q - 1] /\ mem'[q] = mem[q]
  PROVE  Links'
<1>1. ASSUME NEW q \in 2..LastCell, Free(q)
      PROVE  /\ mem'[q - 1] = mem[q - 1] /\ mem'[q] = mem[q] /\ Free(q)'
             /\ mem[q - 1].a \in Heaps /\ ClassOf(mem[q - 1].b) \in Classes
             /\ mem[q].tag = "link" => mem[q].a \in 0..LastCell
  <2>1. mem[q] \in Cell
    BY DEF HTyped
  <2>2. q \in 2..LastCell + 1 /\ mem[q - 1].tag = "FREED"
    BY <1>1, HeapAssumption DEF Free
  <2> QED BY <1>1, <2>1, <2>2, HeaderBlock, CellKinds
<1>2. \A q, h, c : OnList(q, h, c) => OnList(q, h, c)'
  BY <1>1 DEF OnList, Free
<1>3. ASSUME NEW h \in Heaps, NEW c \in Classes, heap'[h].heads[c] # 0
      PROVE  OnList(heap[h].heads[c], h, c)'
  <2>1. PICK r : r = heap[h].heads[c] /\ r = heap'[h].heads[c]
    BY DEF SameHeads
  <2>2. OnList(r, h, c)'
    BY <1>2, <1>3, <2>1 DEF Links
  <2> QED BY <2>1, <2>2 DEF OnList, Free
<1>4. ASSUME NEW q \in 2..LastCell, Free(q)'
      PROVE  /\ mem'[q].tag = "link"
             /\ mem'[q].a # 0 => /\ OnList(mem[q].a, mem[q - 1].a, ClassOf(mem[q - 1].b))'
                                 /\ mem'[q].a # heap'[mem'[q - 1].a].heads[ClassOf(mem'[q - 1].b)]
  <2>1. Free(q)
    BY <1>4
  <2>2. /\ mem'[q - 1] = mem[q - 1] /\ mem'[q] = mem[q] /\ mem'[q].tag = "link"
        /\ mem[q - 1].a \in Heaps /\ ClassOf(mem[q - 1].b) \in Classes
    BY <1>1, <2>1 DEF Links
  <2>3. PICK h \in Heaps, c \in Classes : h = mem[q - 1].a /\ c = ClassOf(mem[q - 1].b)
    BY <2>2
  <2>4. mem'[q].a # 0 => OnList(mem[q].a, h, c) /\ mem'[q].a # heap[h].heads[c]
    BY <2>1, <2>2, <2>3 DEF Links
  <2>5. PICK r : r = mem[q].a /\ mem'[q].a = r
    BY <2>2
  <2>6. mem'[q].a # 0 => OnList(r, h, c)' /\ r # heap'[h].heads[c]
    BY <1>2, <2>4, <2>5 DEF SameHeads
  <2>7. mem'[q].a # 0 => OnList(mem[q].a, mem[q - 1].a, ClassOf(mem[q - 1].b))'
    BY <2>2, <2>3, <2>5, <2>6 DEF OnList, Free
  <2> QED BY <2>2, <2>3, <2>5, <2>6, <2>7
<1>5. \A q, r \in 2..LastCell : Free(q)' /\ Free(r)' /\ q # r /\ mem'[q].a # 0 => mem'[q].a # mem'[r].a
  BY <1>1 DEF Links
<1>6. ASSUME NEW h \in Heaps, NEW c \in Classes, NEW S \in SUBSET (2..LastCell), Covers(S, h, c)',
             NEW q \in 2..LastCell, OnList(q, h, c)'
      PROVE  q \in S
  <2>1. \A r \in 2..LastCell : OnList(r, h, c)' <=> OnList(r, h, c)
    BY <1>1 DEF OnList, Free
  <2>2. \A r \in S : OnList(r, h, c) => mem'[r].a \in S \cup {0} /\ mem'[r] = mem[r]
    BY <1>1, <1>6, <2>1 DEF Covers, OnList
  <2>3. heap'[h].heads[c] = heap[h].heads[c]
    BY DEF SameHeads
  <2>4. Covers(S, h, c)
    BY <1>6, <2>2, <2>3 DEF Covers
  <2> QED BY <1>6, <2>1, <2>4 DEF Links
<1> QED BY <1>3, <1>4, <1>5, <1>6 DEF Links

\* What was written into free blocks is as it was.
LEMMA JunkKept ==
  ASSUME Junk, dirty' = dirty,
         \A q \in 2..LastCell : Free(q)' = Free(q),
         \A q \in 2..LastCell : Free(q) => WrittenAfterFree(q)' = WrittenAfterFree(q)
  PROVE  Junk'
<1>1. \A q \in dirty : q \in 2..LastCell
  BY DEF Junk, Free
<1> QED BY <1>1 DEF Junk

\* A step that writes no memory, moves no block and leaves raw's found blocks alone.
LEMMA Quiet ==
  ASSUME HTyped, Rests, Layout, Links, Junk, UNCHANGED <<mem, brk, dirty>>, SameHeaps, SameFilling
  PROVE  /\ Rests' /\ Layout' /\ Links' /\ Junk'
<1>1. \A p, c : IsBlock(p, c)' = IsBlock(p, c)
  BY DEF IsBlock, SameFilling
<1>2. \A q : Free(q)' = Free(q) /\ WrittenAfterFree(q)' = WrittenAfterFree(q)
  BY DEF Free, SameFilling, WrittenAfterFree
<1> QED BY <1>1, <1>2, LayoutKept, LinksKept, JunkKept DEF SameHeaps

\* A step that writes only to the block at p: its header, and no header in the rest.
WritesBlock(p, c) ==
  /\ \A i \in 1..LastCell : i < p - 1 \/ EndOf(p, c) <= i => mem'[i] = mem[i]
  /\ \A i \in 1..LastCell : p <= i /\ i < EndOf(p, c) => mem'[i].tag \notin {"LIVE", "FREED"}

\* A write inside one block leaves the cells and the headers of the others.
LEMMA OtherBlocks ==
  ASSUME HTyped, Layout, NEW p \in 2..LastCell, NEW c \in Classes, IsBlock(p, c), WritesBlock(p, c)
  PROVE  /\ \A q \in 2..LastCell + 1 :
              /\ q # p
              /\ mem[q - 1].tag \in {"LIVE", "FREED"} \/ mem'[q - 1].tag \in {"LIVE", "FREED"}
              => mem'[q - 1] = mem[q - 1]
         /\ \A q \in 2..LastCell, d \in Classes : q # p /\ IsBlock(q, d) =>
              \A i \in 1..LastCell : q - 1 <= i /\ i < EndOf(q, d) => mem'[i] = mem[i]
<1>0. LastCell \in Nat /\ p \in 2..LastCell + 1
  BY HeapAssumption
<1>1. EndOf(p, c) \in Int /\ p < EndOf(p, c)
  BY <1>0, BlockSpan
<1>2. ASSUME NEW q \in 2..LastCell + 1, NEW d \in Classes, q # p, IsBlock(q, d)
      PROVE  EndOf(p, c) <= q - 1 \/ (EndOf(q, d) <= p - 1 /\ q < EndOf(q, d) /\ EndOf(q, d) \in Int)
  <2>1. Apart(p, c, q, d)
    BY <1>0, <1>2 DEF Layout
  <2> QED BY <1>2, <2>1, BlockSpan DEF Apart
<1>3. ASSUME NEW q \in 2..LastCell + 1, q # p,
             mem[q - 1].tag \in {"LIVE", "FREED"} \/ mem'[q - 1].tag \in {"LIVE", "FREED"}
      PROVE  mem'[q - 1] = mem[q - 1]
  <2>1. q - 1 \in 1..LastCell
    BY <1>0
  <2>2. CASE q - 1 < p - 1 \/ EndOf(p, c) <= q - 1
    BY <2>1, <2>2 DEF WritesBlock
  <2>3. CASE p <= q - 1 /\ q - 1 < EndOf(p, c)
    <3>1. mem[q - 1].tag \in {"LIVE", "FREED"}
      BY <1>3, <2>1, <2>3 DEF WritesBlock
    <3>2. PICK d \in Classes : IsBlock(q, d)
      BY <3>1, HeaderBlock
    <3> QED BY <1>0, <1>1, <1>2, <1>3, <2>3, <3>2
  <2> QED BY <1>0, <1>1, <1>3, <2>2, <2>3
<1>4. ASSUME NEW q \in 2..LastCell, NEW d \in Classes, q # p, IsBlock(q, d),
             NEW i \in 1..LastCell, q - 1 <= i, i < EndOf(q, d)
      PROVE  mem'[i] = mem[i]
  <2>1. q \in 2..LastCell + 1
    BY <1>0
  <2>2. i < p - 1 \/ EndOf(p, c) <= i
    BY <1>0, <1>1, <1>2, <1>4, <2>1
  <2> QED BY <2>2 DEF WritesBlock
<1> QED BY <1>3, <1>4

\* What a free block, and the blocks that are cut, keep from a step on another.
LEMMA FreeSpan ==
  ASSUME HTyped, Layout, NEW q \in 2..LastCell, Free(q)
  PROVE  \E d \in Classes :
           /\ IsBlock(q, d) /\ d = ClassOf(mem[q - 1].b) /\ mem[q - 1].b \in Requests
           /\ q - 1 \in 1..LastCell /\ q < EndOf(q, d)
           /\ \A i \in Payload(q, mem[q - 1].b) : i \in 1..LastCell /\ q <= i /\ i < EndOf(q, d)
<1>1. q \in 2..LastCell + 1 /\ mem[q - 1].tag = "FREED" /\ LastCell \in Nat
  BY HeapAssumption DEF Free
<1>2. PICK d \in Classes : d = ClassOf(mem[q - 1].b) /\ IsBlock(q, d) /\ mem[q - 1].b \in Requests
  BY <1>1, HeaderBlock
<1>3. q < EndOf(q, d) /\ EndOf(q, d) <= LastCell + 1 /\ EndOf(q, d) \in Int /\ q - 1 \in 1..LastCell
  BY <1>1, <1>2, BlockSpan
<1>4. ASSUME NEW i \in Payload(q, mem[q - 1].b) PROVE i \in 1..LastCell /\ q <= i /\ i < EndOf(q, d)
  <2>1. i \in Int /\ q <= i /\ i < EndOf(q, d)
    BY <1>2, PayloadFits
  <2> QED BY <1>1, <1>3, <2>1
<1> QED BY <1>2, <1>3, <1>4

\* Nor does it change whether another freed block has been written to.
LEMMA OthersFree ==
  ASSUME HTyped, Layout, NEW p \in 2..LastCell, NEW c \in Classes, IsBlock(p, c), WritesBlock(p, c),
         NEW q \in 2..LastCell, q # p, Free(q)
  PROVE  /\ mem'[q - 1] = mem[q - 1] /\ mem'[q] = mem[q]
         /\ WrittenAfterFree(q)' = WrittenAfterFree(q)
<1>1. PICK d \in Classes :
           /\ IsBlock(q, d) /\ d = ClassOf(mem[q - 1].b) /\ mem[q - 1].b \in Requests
           /\ q - 1 \in 1..LastCell /\ q < EndOf(q, d)
           /\ \A i \in Payload(q, mem[q - 1].b) : i \in 1..LastCell /\ q <= i /\ i < EndOf(q, d)
  BY FreeSpan
<1>2. \A i \in 1..LastCell : q - 1 <= i /\ i < EndOf(q, d) => mem'[i] = mem[i]
  BY <1>1, OtherBlocks
<1>3. EndOf(q, d) \in Int
  BY <1>1, BlockSpan, HeapAssumption
<1>4. mem'[q - 1] = mem[q - 1] /\ mem'[q] = mem[q]
  BY <1>1, <1>2, <1>3
<1>5. \A i \in Payload(q, mem[q - 1].b) : mem'[i] = mem[i]
  BY <1>1, <1>2
<1> QED BY <1>4, <1>5 DEF WrittenAfterFree

\* A write inside one block keeps the layout, and the other freed blocks free.
LEMMA BlockWrite ==
  ASSUME HTyped, Rests, Layout, SameChunks, brk' = brk,
         NEW p \in 2..LastCell, NEW c \in Classes, IsBlock(p, c), WritesBlock(p, c),
         mem'[p - 1].tag \in {"LIVE", "FREED"} => ClassOf(mem'[p - 1].b) = c,
         \A t \in Threads : Filling(t)' => Filling(t) /\ call'[t].p = call[t].p /\ call'[t].n = call[t].n,
         \A t \in Threads : Filling(t) /\ ~Filling(t)' => call[t].p = p
  PROVE  /\ Rests' /\ Layout'
         /\ \A q \in 2..LastCell : q # p => Free(q)' = Free(q)
<1>1. ASSUME NEW q \in 2..LastCell + 1, NEW d \in Classes, IsBlock(q, d)' PROVE IsBlock(q, d)
  <2>1. CASE q = p /\ mem'[q - 1].tag \in {"LIVE", "FREED"} /\ d = ClassOf(mem'[q - 1].b)
    BY <2>1
  <2>2. CASE q # p /\ mem'[q - 1].tag \in {"LIVE", "FREED"} /\ d = ClassOf(mem'[q - 1].b)
    BY <2>2, OtherBlocks DEF IsBlock
  <2>3. CASE \E t \in Threads : Filling(t)' /\ call'[t].p = q /\ d = ClassOf(call'[t].n)
    BY <2>3 DEF IsBlock
  <2> QED BY <1>1, <2>1, <2>2, <2>3 DEF IsBlock
<1>2. ASSUME NEW q \in 2..LastCell, q # p PROVE Free(q)' = Free(q)
  <2>1. q \in 2..LastCell + 1
    BY HeapAssumption
  <2>2. mem'[q - 1].tag = "FREED" <=> mem[q - 1].tag = "FREED"
    BY <1>2, <2>1, OtherBlocks
  <2>3. (\A t \in Threads : Filling(t)' => call'[t].p # q) <=> (\A t \in Threads : Filling(t) => call[t].p # q)
    BY <1>2
  <2> QED BY <2>2, <2>3 DEF Free
<1> QED BY <1>1, <1>2, LayoutKept

\* Nothing free has changed when the block written to was not, and is not, free.
LEMMA OwnWrite ==
  ASSUME HTyped, Rests, Layout, Links, Junk, SameHeaps, UNCHANGED <<brk, dirty>>,
         NEW p \in 2..LastCell, NEW c \in Classes, IsBlock(p, c), WritesBlock(p, c),
         mem'[p - 1].tag \in {"LIVE", "FREED"} => ClassOf(mem'[p - 1].b) = c,
         \A t \in Threads : Filling(t)' => Filling(t) /\ call'[t].p = call[t].p /\ call'[t].n = call[t].n,
         \A t \in Threads : Filling(t) /\ ~Filling(t)' => call[t].p = p,
         ~Free(p), ~Free(p)'
  PROVE  Rests' /\ Layout' /\ Links' /\ Junk'
<1>1. Rests' /\ Layout' /\ \A q \in 2..LastCell : q # p => Free(q)' = Free(q)
  BY BlockWrite DEF SameHeaps
<1>2. \A q \in 2..LastCell : Free(q)' = Free(q)
  <2>1. ASSUME NEW q \in 2..LastCell, q = p PROVE ~Free(q) /\ ~Free(q)'
    BY <2>1 DEF Free
  <2>2. ASSUME NEW q \in 2..LastCell, q = p PROVE Free(q)' = Free(q)
    BY <2>1, <2>2 DEF Free
  <2> QED BY <1>1, <2>2
<1>3. \A q \in 2..LastCell : Free(q) =>
         /\ mem'[q - 1] = mem[q - 1] /\ mem'[q] = mem[q]
         /\ WrittenAfterFree(q)' = WrittenAfterFree(q)
  BY OthersFree
<1> QED BY <1>1, <1>2, <1>3, LinksKept, JunkKept DEF SameHeaps
-----------------------------------------------------------------------------
(***************************************************************************)
(* Steps that write no memory: calls, the lock, and free_raw's checks.     *)
(***************************************************************************)
\* A step of t alone, which touches no memory and no chunk and finds no block.
CallStep(t) == /\ UNCHANGED <<mem, brk, dirty>> /\ SameHeaps
               /\ \A u \in Threads \ {t} : call'[u] = call[u]
               /\ ~Filling(t) /\ ~Filling(t)'

\* A call begins: no heap changes.
LEMMA CallSteps ==
  ASSUME HInv, NEW t \in Threads, CallStep(t)
  PROVE  /\ Rests' /\ Layout' /\ Links' /\ Junk'
         /\ \A u \in Threads \ {t} : Mine(u)' = Mine(u) /\ Uses(u)' = Uses(u) /\ Filling(u)' = Filling(u)
<1>1. SameFilling
  BY DEF SameFilling, CallStep, Filling
<1>2. Rests' /\ Layout' /\ Links' /\ Junk'
  BY <1>1, Quiet DEF HInv, CallStep
<1>3. \A u \in Threads \ {t} : Mine(u)' = Mine(u) /\ Uses(u)' = Uses(u) /\ Filling(u)' = Filling(u)
  BY DEF CallStep, Mine, LiveAt, Uses, Filling
<1> QED BY <1>2, <1>3

\* The parts about owners, when only t's call and what is held change.
LEMMA OwnersKept ==
  ASSUME HInv, NEW t \in Threads, CallStep(t),
         \A b \in held' : LiveAt(b.p, b.h, b.n),
         /\ call'[t].op = "raw" /\ call'[t].pc = "unlock" => Mine(t)'
         /\ call'[t].op = "raw" => call'[t].pc \in {"idle", "lock", "take", "fill", "unlock"}
         /\ call'[t].op = "free" => call'[t].pc \in {"check", "lock", "put", "unlock"}
         /\ call'[t].op = "free" /\ call'[t].pc \in {"lock", "put"} => Mine(t)'
         /\ call'[t].pc = "check" => call'[t].p \in 2..LastCell /\ (Mine(t)' \/ Careless)
  PROVE  Owners'
<1>1. \A b \in held' : LiveAt(b.p, b.h, b.n)'
  BY DEF CallStep, LiveAt
<1>2. \A u \in Threads \ {t} : call'[u] = call[u] /\ Mine(u)' = Mine(u) /\ Filling(u)' = Filling(u)
  BY CallSteps DEF CallStep
<1> QED BY <1>1, <1>2 DEF HInv, Owners, CallStep

LEMMA CallRawStep ==
  ASSUME HInv, NEW t \in Threads, CallRaw(t)
  PROVE  HInv'
<1>1. PICK h \in Heaps, n \in Requests :
        call' = [call EXCEPT ![t] = [pc |-> "lock", op |-> "raw", h |-> h, p |-> 0, n |-> n]]
  BY DEF CallRaw
<1>2. UNCHANGED <<mem, brk, heap, held, stale, dirty, stopped>> /\ At(t, "idle")
  BY DEF CallRaw
<1>3. /\ call'[t].pc = "lock" /\ call'[t].op = "raw" /\ call'[t].h = h /\ call'[t].n = n
      /\ call' \in [Threads -> CallType]
      /\ \A u \in Threads \ {t} : call'[u] = call[u]
  BY <1>1, HeapAssumption DEF HInv, HTyped, CallType, Spots
<1>4. CallStep(t)
  BY <1>2, <1>3 DEF CallStep, SameHeaps, SameChunks, SameHeads, Filling, At
<1>5. HTyped'
  BY <1>2, <1>3 DEF HInv, HTyped
<1>6. Locks'
  BY <1>2, <1>3 DEF HInv, Locks, Inside
<1>7. Owners'
  <2>1. \A b \in held' : LiveAt(b.p, b.h, b.n)
    BY <1>2 DEF HInv, Owners
  <2> QED BY <1>3, <1>4, <2>1, OwnersKept
<1>8. OneUser'
  <2>1. \A u \in Threads : Uses(u)' = Uses(u) /\ (Uses(u) => call'[u].p = call[u].p)
    BY <1>2, <1>3, <1>4, CallSteps DEF Uses, At, HInv, Owners
  <2> QED BY <1>2, <2>1 DEF HInv, OneUser
<1>9. ReturnsZeroed'
  BY <1>2, <1>3 DEF HInv, ReturnsZeroed, Giving
<1>10. Fails'
  BY <1>2 DEF HInv, Fails
<1> QED BY <1>4, <1>5, <1>6, <1>7, <1>8, <1>9, <1>10, CallSteps DEF HInv

LEMMA LockHeapStep ==
  ASSUME HInv, NEW t \in Threads, LockHeap(t)
  PROVE  HInv'
<1> DEFINE h == call[t].h
<1>1. /\ UNCHANGED <<mem, brk, held, stale, dirty, stopped>> /\ At(t, "lock")
      /\ heap[h].lock = None /\ heap' = [heap EXCEPT ![h].lock = t]
      /\ call' = [call EXCEPT ![t].pc = IF call[t].op = "raw" THEN "take" ELSE "put"]
      /\ h \in Heaps
  BY DEF LockHeap, Goto, HInv, HTyped, At
<1>2. /\ call'[t].pc = IF call[t].op = "raw" THEN "take" ELSE "put"
      /\ call'[t].op = call[t].op /\ call'[t].h = h /\ call'[t].n = call[t].n /\ call'[t].p = call[t].p
      /\ call' \in [Threads -> CallType]
      /\ \A u \in Threads \ {t} : call'[u] = call[u]
  BY <1>1 DEF HInv, HTyped, CallType, Spots
<1>3. /\ heap' \in [Heaps -> HeapType] /\ heap'[h].lock = t
      /\ \A g \in Heaps \ {h} : heap'[g] = heap[g]
      /\ SameHeaps
  BY <1>1, LockSet DEF HInv
<1>4. CallStep(t)
  BY <1>1, <1>2, <1>3 DEF CallStep, Filling, At
<1>5. HTyped'
  BY <1>1, <1>2, <1>3 DEF HInv, HTyped, At
<1>6. Locks'
  <2>1. ASSUME NEW u \in Threads, call'[u].pc \in Inside PROVE heap'[call'[u].h].lock = u
    <3>1. CASE u = t
      BY <1>2, <1>3, <3>1
    <3>2. CASE u # t
      <4>1. call[u].pc \in Inside /\ heap[call[u].h].lock = u /\ call'[u].h = call[u].h /\ call[u].h \in Heaps
        BY <1>2, <2>1, <3>2 DEF HInv, Locks, HTyped, Inside
      <4>2. call[u].h # h
        BY <1>1, <4>1, HeapAssumption
      <4> QED BY <1>3, <4>1, <4>2
    <3> QED BY <3>1, <3>2
  <2> QED BY <2>1 DEF Locks
<1>7. Owners'
  <2>1. \A b \in held' : LiveAt(b.p, b.h, b.n)
    BY <1>1 DEF HInv, Owners
  <2>2. Mine(t)' = Mine(t) /\ (call[t].op = "free" => Mine(t)) /\ call[t].op \in {"raw", "free"}
    BY <1>1, <1>2 DEF Mine, LiveAt, HInv, Owners, At, HTyped, CallType
  <2> QED BY <1>2, <1>4, <2>1, <2>2, OwnersKept
<1>8. OneUser'
  <2>1. \A u \in Threads : Uses(u)' = Uses(u) /\ call'[u].p = call[u].p
    <3>1. Uses(t)' = Uses(t)
      BY <1>1, <1>2 DEF Uses, Mine, LiveAt, At, HInv, HTyped, CallType
    <3> QED BY <1>2, <1>4, <3>1, CallSteps
  <2> QED BY <1>1, <2>1 DEF HInv, OneUser
<1>9. ReturnsZeroed'
  BY <1>1, <1>2 DEF HInv, ReturnsZeroed, Giving
<1>10. Fails'
  BY <1>1 DEF HInv, Fails
<1> QED BY <1>4, <1>5, <1>6, <1>7, <1>8, <1>9, <1>10, CallSteps DEF HInv

LEMMA UnlockHeapStep ==
  ASSUME HInv, NEW t \in Threads, UnlockHeap(t)
  PROVE  HInv'
<1> DEFINE h == call[t].h
           b == [h |-> h, p |-> call[t].p, n |-> call[t].n]
<1>1. /\ UNCHANGED <<mem, brk, stale, dirty, stopped>> /\ At(t, "unlock")
      /\ heap' = [heap EXCEPT ![h].lock = None]
      /\ held' = IF call[t].op = "raw" THEN held \cup {b} ELSE held
      /\ call' = [call EXCEPT ![t] = Idle]
      /\ h \in Heaps /\ call[t].n \in Requests
  BY DEF UnlockHeap, HInv, HTyped, At
<1>2. /\ call'[t].pc = "idle" /\ call'[t].op = "raw"
      /\ call' \in [Threads -> CallType]
      /\ \A u \in Threads \ {t} : call'[u] = call[u]
  BY <1>1, HeapAssumption DEF HInv, HTyped, CallType, Spots, Idle
<1>3. /\ heap' \in [Heaps -> HeapType]
      /\ \A g \in Heaps \ {h} : heap'[g] = heap[g]
      /\ SameHeaps
  BY <1>1, LockSet DEF HInv
<1>4. CallStep(t)
  BY <1>1, <1>2, <1>3 DEF CallStep, Filling, At
<1>a. call[t].op = "raw" => LiveAt(b.p, b.h, b.n) /\ b \in BlockType /\ Uses(t)
  BY <1>1 DEF HInv, Owners, Mine, LiveAt, At, BlockType, Uses
<1>5. HTyped'
  BY <1>1, <1>2, <1>3, <1>a DEF HInv, HTyped
<1>6. Locks'
  <2>1. ASSUME NEW u \in Threads, call'[u].pc \in Inside PROVE heap'[call'[u].h].lock = u
    <3>1. u # t
      BY <1>2, <2>1 DEF Inside
    <3>2. call[u].pc \in Inside /\ heap[call[u].h].lock = u /\ call'[u].h = call[u].h /\ call[u].h \in Heaps
      BY <1>2, <2>1, <3>1 DEF HInv, Locks, HTyped, Inside
    <3>3. heap[h].lock = t
      BY <1>1 DEF HInv, Locks, Inside, At
    <3> QED BY <1>3, <3>1, <3>2, <3>3
  <2> QED BY <2>1 DEF Locks
<1>7. Owners'
  <2>1. \A d \in held' : LiveAt(d.p, d.h, d.n)
    BY <1>1, <1>a DEF HInv, Owners
  <2> QED BY <1>2, <1>4, <2>1, OwnersKept
<1>8. OneUser'
  <2>1. /\ ~Uses(t)'
        /\ \A u \in Threads \ {t} : Uses(u)' = Uses(u) /\ call'[u].p = call[u].p
    BY <1>2, <1>4, CallSteps DEF Uses
  <2>2. \A u, v \in Threads : Uses(u)' /\ Uses(v)' /\ u # v => call'[u].p # call'[v].p
    BY <2>1 DEF HInv, OneUser
  <2>3. \A u \in Threads, d \in held' : Uses(u)' => call'[u].p # d.p
    BY <1>1, <1>a, <2>1 DEF HInv, OneUser
  <2>4. ASSUME NEW q \in 2..LastCell, mem'[q - 1].tag = "LIVE"
        PROVE  (\E d \in held' : d.p = q) \/ \E u \in Threads : Uses(u)' /\ call'[u].p = q
    <3>1. (\E d \in held : d.p = q) \/ \E u \in Threads : Uses(u) /\ call[u].p = q
      BY <1>1, <2>4 DEF HInv, OneUser
    <3>2. Uses(t) => call[t].op = "raw"
      BY <1>1 DEF Uses, At
    <3>3. CASE \E d \in held : d.p = q
      BY <1>1, <3>3
    <3>4. CASE Uses(t) /\ call[t].p = q
      <4>1. b \in held' /\ b.p = q
        BY <1>1, <3>2, <3>4
      <4> QED BY <4>1
    <3>5. CASE \E u \in Threads \ {t} : Uses(u) /\ call[u].p = q
      BY <2>1, <3>5
    <3> QED BY <3>1, <3>3, <3>4, <3>5
  <2> QED BY <2>2, <2>3, <2>4 DEF OneUser
<1>9. ReturnsZeroed'
  BY <1>1, <1>2 DEF HInv, ReturnsZeroed, Giving
<1>10. Fails'
  BY <1>1 DEF HInv, Fails
<1> QED BY <1>4, <1>5, <1>6, <1>7, <1>8, <1>9, <1>10, CallSteps DEF HInv


\* Only the failure that ends the program is new.
LEMMA StopStep ==
  ASSUME HInv, UNCHANGED <<mem, brk, heap, call, held, stale, dirty>>, Fails'
  PROVE  HInv'
<1>1. SameHeaps /\ SameFilling
  BY DEF SameHeaps, SameChunks, SameHeads, SameFilling, Filling
<1>2. Rests' /\ Layout' /\ Links' /\ Junk'
  BY <1>1, Quiet DEF HInv
<1>3. HTyped'
  BY DEF HInv, HTyped
<1>4. Locks'
  BY DEF HInv, Locks
<1>5. \A u \in Threads : Mine(u)' = Mine(u) /\ Uses(u)' = Uses(u) /\ Filling(u)' = Filling(u)
  BY DEF Mine, LiveAt, Uses, Filling
<1>6. Owners'
  BY <1>5 DEF HInv, Owners, LiveAt
<1>7. OneUser'
  BY <1>5 DEF HInv, OneUser
<1>8. ReturnsZeroed'
  BY DEF HInv, ReturnsZeroed, Giving
<1> QED BY <1>2, <1>3, <1>4, <1>6, <1>7, <1>8 DEF HInv

\* free_raw is called with a block that is held, or carelessly.
LEMMA CallFreeStep ==
  ASSUME HInv, NEW t \in Threads, NEW b \in BlockType, CallFree(t, b),
         b \in held \/ (Careless /\ b \notin held /\ ~LiveAt(b.p, b.h, b.n))
  PROVE  HInv'
<1>1. /\ UNCHANGED <<mem, brk, heap, dirty, stopped>> /\ At(t, "idle")
      /\ call' = [call EXCEPT ![t] = [pc |-> "check", op |-> "free", h |-> b.h, p |-> b.p, n |-> b.n]]
      /\ held' = held \ {b} /\ stale' \in {stale, stale \cup {b}}
      /\ b.h \in Heaps /\ b.p \in 2..LastCell /\ b.n \in Requests /\ b = [h |-> b.h, p |-> b.p, n |-> b.n]
  BY DEF CallFree, BlockType
<1>2. /\ call'[t].pc = "check" /\ call'[t].op = "free"
      /\ call'[t].h = b.h /\ call'[t].p = b.p /\ call'[t].n = b.n
      /\ call' \in [Threads -> CallType]
      /\ \A u \in Threads \ {t} : call'[u] = call[u]
  BY <1>1, HeapAssumption DEF HInv, HTyped, CallType, Spots
<1>3. CallStep(t)
  BY <1>1, <1>2 DEF CallStep, SameHeaps, SameChunks, SameHeads, Filling, At
<1>4. HTyped'
  BY <1>1, <1>2 DEF HInv, HTyped
<1>5. Locks'
  BY <1>1, <1>2 DEF HInv, Locks, Inside
<1>6. Mine(t)' <=> LiveAt(b.p, b.h, b.n)
  BY <1>1, <1>2 DEF Mine, LiveAt
<1>7. b \in held => LiveAt(b.p, b.h, b.n)
  BY DEF HInv, Owners
<1>8. Owners'
  <2>1. \A d \in held' : LiveAt(d.p, d.h, d.n)
    BY <1>1 DEF HInv, Owners
  <2> QED BY <1>1, <1>2, <1>3, <1>6, <1>7, <2>1, OwnersKept
<1>9. OneUser'
  <2>1. /\ Uses(t)' <=> b \in held
        /\ ~Uses(t)
        /\ \A u \in Threads \ {t} : Uses(u)' = Uses(u) /\ call'[u].p = call[u].p
    BY <1>1, <1>2, <1>3, <1>6, <1>7, CallSteps DEF Uses, At
  <2>2. ASSUME NEW u \in Threads, NEW v \in Threads, Uses(u)', Uses(v)', u # v
        PROVE  call'[u].p # call'[v].p
    <3>1. CASE u = t
      BY <1>2, <2>1, <2>2, <3>1 DEF HInv, OneUser
    <3>2. CASE v = t
      BY <1>2, <2>1, <2>2, <3>2 DEF HInv, OneUser
    <3>3. CASE u # t /\ v # t
      BY <2>1, <2>2, <3>3 DEF HInv, OneUser
    <3> QED BY <3>1, <3>2, <3>3
  <2>3. ASSUME NEW u \in Threads, NEW d \in held', Uses(u)' PROVE call'[u].p # d.p
    <3>1. CASE u = t
      <4>1. d \in held /\ d # b /\ b \in held /\ d \in BlockType
        BY <1>1, <2>1, <2>3, <3>1 DEF HInv, HTyped
      <4>2. mem[d.p - 1] = Header("LIVE", d.h, d.n) /\ mem[b.p - 1] = Header("LIVE", b.h, b.n)
        BY <4>1, <1>7 DEF HInv, Owners, LiveAt
      <4>3. d.p = b.p => d.h = b.h /\ d.n = b.n
        BY <4>2 DEF Header
      <4>4. d = [h |-> d.h, p |-> d.p, n |-> d.n]
        BY <4>1 DEF BlockType
      <4> QED BY <1>1, <1>2, <3>1, <4>1, <4>3, <4>4
    <3>2. CASE u # t
      BY <1>1, <2>1, <2>3, <3>2 DEF HInv, OneUser
    <3> QED BY <3>1, <3>2
  <2>4. ASSUME NEW q \in 2..LastCell, mem'[q - 1].tag = "LIVE"
        PROVE  (\E d \in held' : d.p = q) \/ \E u \in Threads : Uses(u)' /\ call'[u].p = q
    <3>1. (\E d \in held : d.p = q) \/ \E u \in Threads : Uses(u) /\ call[u].p = q
      BY <1>1, <2>4 DEF HInv, OneUser
    <3>2. CASE \E u \in Threads : Uses(u) /\ call[u].p = q
      BY <2>1, <3>2
    <3>3. CASE b \in held /\ b.p = q
      BY <1>2, <2>1, <3>3
    <3>4. CASE \E d \in held \ {b} : d.p = q
      BY <1>1, <3>4
    <3> QED BY <3>1, <3>2, <3>3, <3>4
  <2> QED BY <2>2, <2>3, <2>4 DEF OneUser
<1>10. ReturnsZeroed'
  BY <1>1, <1>2 DEF HInv, ReturnsZeroed, Giving
<1>11. Fails'
  BY <1>1 DEF HInv, Fails
<1> QED BY <1>3, <1>4, <1>5, <1>8, <1>9, <1>10, <1>11, CallSteps DEF HInv

\* free_raw's checks let pass only a call that gives back the caller's own block.
LEMMA ChecksPass ==
  ASSUME HInv, NEW t \in Threads, call[t].pc = "check"
  PROVE  FailedCheck(call[t]) = "none" <=> Mine(t)
<1>1. call[t].p \in 2..LastCell /\ LastCell \in Nat
  BY HeapAssumption DEF HInv, Owners
<1>2. PICK x \in Cell : x = mem[call[t].p - 1]
  BY <1>1 DEF HInv, HTyped
<1>3. x.tag = "LIVE" => x = Header(x.tag, x.a, x.b)
  BY CellKinds
<1>4. FailedCheck(call[t]) = "none" <=> x.tag = "LIVE" /\ x.a = call[t].h /\ x.b = call[t].n
  BY <1>2 DEF FailedCheck
<1> QED BY <1>1, <1>2, <1>3, <1>4 DEF Mine, LiveAt, Header

LEMMA CheckFreeStep ==
  ASSUME HInv, NEW t \in Threads, CheckFree(t)
  PROVE  HInv'
<1>1. CASE FailedCheck(call[t]) # "none"
  <2>1. UNCHANGED <<mem, brk, heap, call, held, stale, dirty>> /\ call[t].pc = "check"
    BY <1>1 DEF CheckFree, Stop, At
  <2>2. Misuse # {}
    BY <1>1, <2>1, ChecksPass DEF HInv, Owners, Careless
  <2> QED BY <2>1, <2>2, StopStep DEF Fails
<1>2. CASE FailedCheck(call[t]) = "none"
  <2>1. /\ UNCHANGED <<mem, brk, heap, held, stale, dirty, stopped>> /\ At(t, "check")
        /\ call' = [call EXCEPT ![t].pc = "lock"]
    BY <1>2 DEF CheckFree, Goto
  <2>2. Mine(t) /\ call[t].op = "free"
    BY <1>2, <2>1, ChecksPass DEF HInv, Owners, At, HTyped, CallType
  <2>3. /\ call'[t].pc = "lock" /\ call'[t].op = "free"
        /\ call'[t].h = call[t].h /\ call'[t].n = call[t].n /\ call'[t].p = call[t].p
        /\ call' \in [Threads -> CallType]
        /\ \A u \in Threads \ {t} : call'[u] = call[u]
    BY <2>1, <2>2 DEF HInv, HTyped, CallType, Spots
  <2>4. CallStep(t)
    BY <2>1, <2>3 DEF CallStep, SameHeaps, SameChunks, SameHeads, Filling, At
  <2>5. HTyped'
    BY <2>1, <2>3 DEF HInv, HTyped, At
  <2>6. Locks'
    BY <2>1, <2>3 DEF HInv, Locks, Inside
  <2>7. Mine(t)'
    BY <2>1, <2>2, <2>3 DEF Mine, LiveAt
  <2>8. Owners'
    <3>1. \A d \in held' : LiveAt(d.p, d.h, d.n)
      BY <2>1 DEF HInv, Owners
    <3> QED BY <2>3, <2>4, <2>7, <3>1, OwnersKept
  <2>9. OneUser'
    <3>1. \A u \in Threads : Uses(u)' = Uses(u) /\ call'[u].p = call[u].p
      BY <2>1, <2>2, <2>3, <2>4, <2>7, CallSteps DEF Uses, At
    <3> QED BY <2>1, <3>1 DEF HInv, OneUser
  <2>10. ReturnsZeroed'
    BY <2>1, <2>3 DEF HInv, ReturnsZeroed, Giving
  <2>11. Fails'
    BY <2>1 DEF HInv, Fails
  <2> QED BY <2>4, <2>5, <2>6, <2>8, <2>9, <2>10, <2>11, CallSteps DEF HInv
<1> QED BY <1>1, <1>2

-----------------------------------------------------------------------------
(***************************************************************************)
(* Misuse that the code detects: a block freed again or with another size  *)
(* while no other thread runs, and a write into what was freed last.       *)
(***************************************************************************)
Detectable == /\ Misuse \subseteq {"again", "wrong", "write"}
              /\ Misuse \subseteq {"write"} \/ OneThread

LEMMA FreeAgainStep ==
  ASSUME HInv, Detectable, NEW t \in Threads, FreeAgain(t)
  PROVE  HInv'
<1>1. PICK b \in stale : /\ Misuse \cap {"again", "race"} # {} /\ Dead(b) /\ CallFree(t, b)
                         /\ "race" \notin Misuse => \A u \in Threads : call[u].p # b.p
  BY DEF FreeAgain
<1>2. Careless /\ "race" \notin Misuse
  BY <1>1 DEF Detectable, Careless
<1>3. b \in BlockType /\ b.p \in 2..LastCell /\ b \notin held
  BY <1>1 DEF HInv, HTyped, BlockType, Dead
<1>4. ~ LiveAt(b.p, b.h, b.n)
  <2> SUFFICES ASSUME LiveAt(b.p, b.h, b.n) PROVE FALSE
    OBVIOUS
  <2>1. mem[b.p - 1].tag = "LIVE"
    BY DEF LiveAt, Header
  <2> QED BY <1>1, <1>2, <1>3, <2>1 DEF HInv, OneUser, Dead
<1> QED BY <1>1, <1>2, <1>3, <1>4, CallFreeStep

LEMMA FreeWrongStep ==
  ASSUME HInv, Detectable, NEW t \in Threads, FreeWrong(t)
  PROVE  HInv'
<1>1. PICK b \in held, n \in Requests, h \in Heaps :
        "wrong" \in Misuse /\ (n # b.n \/ h # b.h) /\ CallFree(t, [h |-> h, p |-> b.p, n |-> n])
  BY DEF FreeWrong
<1> DEFINE d == [h |-> h, p |-> b.p, n |-> n]
<1>2. Careless
  BY <1>1 DEF Detectable, Careless
<1>3. d \in BlockType /\ d.h = h /\ d.p = b.p /\ d.n = n
  BY <1>1 DEF HInv, HTyped, BlockType
<1>4. LiveAt(b.p, b.h, b.n)
  BY DEF HInv, Owners
<1>5. ~ LiveAt(d.p, d.h, d.n)
  BY <1>1, <1>3, <1>4 DEF LiveAt, Header
<1>6. d \notin held
  BY <1>5 DEF HInv, Owners
<1> HIDE DEF d
<1>7. CallFree(t, d)
  BY <1>1 DEF d
<1> QED BY <1>2, <1>3, <1>5, <1>6, <1>7, CallFreeStep

-----------------------------------------------------------------------------
(***************************************************************************)
(* Steps that write to one block: the others, and who uses them, keep      *)
(* what they have.                                                         *)
(***************************************************************************)
\* No header lies inside a block.
LEMMA NoHeaderInside ==
  ASSUME HTyped, Layout, NEW p \in 2..LastCell, NEW c \in Classes, IsBlock(p, c),
         NEW i \in 1..LastCell, p <= i, i < EndOf(p, c)
  PROVE  mem[i].tag \notin {"LIVE", "FREED"}
<1>0. LastCell \in Nat /\ p \in 2..LastCell + 1 /\ i + 1 \in 2..LastCell + 1 /\ (i + 1) - 1 = i
  BY HeapAssumption
<1> SUFFICES ASSUME mem[i].tag \in {"LIVE", "FREED"} PROVE FALSE
  OBVIOUS
<1>1. PICK d \in Classes : IsBlock(i + 1, d)
  BY <1>0, HeaderBlock
<1>2. Apart(p, c, i + 1, d)
  BY <1>0, <1>1 DEF Layout
<1>3. EndOf(p, c) \in Int /\ EndOf(i + 1, d) \in Int /\ i + 1 < EndOf(i + 1, d)
  BY <1>0, <1>1, BlockSpan
<1> QED BY <1>0, <1>2, <1>3 DEF Apart

\* A write inside one block leaves the headers of the others.
LEMMA OtherLive ==
  ASSUME HTyped, Layout, NEW p \in 2..LastCell, NEW c \in Classes, IsBlock(p, c), WritesBlock(p, c),
         NEW q \in 2..LastCell, q # p, NEW h, NEW n
  PROVE  LiveAt(q, h, n)' = LiveAt(q, h, n)
<1>1. q \in 2..LastCell + 1
  BY HeapAssumption
<1>2. LiveAt(q, h, n) => mem[q - 1].tag = "LIVE"
  BY DEF LiveAt, Header
<1>3. LiveAt(q, h, n)' => mem'[q - 1].tag = "LIVE"
  BY DEF LiveAt, Header
<1> QED BY <1>1, <1>2, <1>3, OtherBlocks DEF LiveAt

\* The block of a thread that is being given it, or frees it.
LEMMA UsedBlock ==
  ASSUME HInv, NEW u \in Threads, Uses(u)
  PROVE  /\ call[u].p \in 2..LastCell /\ call[u].n \in Requests
         /\ ClassOf(call[u].n) \in Classes /\ IsBlock(call[u].p, ClassOf(call[u].n))
         /\ ~Filling(u) => Mine(u)
<1>1. call[u].n \in Requests
  BY DEF HInv, HTyped, Uses
<1>2. ClassOf(call[u].n) \in Classes
  BY <1>1, ClassFits
<1>3. CASE Filling(u)
  <2>1. call[u].p \in 2..LastCell /\ call[u].p \in 2..LastCell + 1
    BY <1>3, HeapAssumption DEF HInv, Owners
  <2> QED BY <1>1, <1>2, <1>3, <2>1 DEF IsBlock
<1>4. CASE ~Filling(u)
  <2>1. Mine(u)
    BY <1>4 DEF HInv, Owners, Uses, Filling
  <2>2. /\ call[u].p \in 2..LastCell /\ call[u].p \in 2..LastCell + 1
        /\ mem[call[u].p - 1].tag = "LIVE" /\ mem[call[u].p - 1].b = call[u].n
    BY <2>1, HeapAssumption DEF Mine, LiveAt, Header
  <2> QED BY <1>1, <1>2, <2>1, <2>2 DEF IsBlock
<1> QED BY <1>3, <1>4

\* Nor does it disturb the block another call has in hand.
LEMMA OtherUser ==
  ASSUME HInv, NEW p \in 2..LastCell, NEW c \in Classes, IsBlock(p, c), WritesBlock(p, c),
         NEW u \in Threads, call'[u] = call[u], Uses(u), call[u].p # p
  PROVE  /\ Uses(u)' /\ Mine(u)' = Mine(u)
         /\ mem'[call[u].p - 1] = mem[call[u].p - 1]
         /\ \A i \in Payload(call[u].p, call[u].n) : mem'[i] = mem[i]
<1>0. LastCell \in Nat /\ HTyped /\ Layout
  BY HeapAssumption DEF HInv
<1>1. PICK q \in 2..LastCell, d \in Classes :
        q = call[u].p /\ d = ClassOf(call[u].n) /\ IsBlock(q, d) /\ call[u].n \in Requests /\ q # p
  BY UsedBlock
<1>2. \A i \in 1..LastCell : q - 1 <= i /\ i < EndOf(q, d) => mem'[i] = mem[i]
  BY <1>0, <1>1, OtherBlocks
<1>3. q < EndOf(q, d) /\ EndOf(q, d) \in Int /\ EndOf(q, d) <= LastCell + 1 /\ q - 1 \in 1..LastCell
      /\ q \in 2..LastCell + 1
  BY <1>0, <1>1, BlockSpan
<1>4. mem'[q - 1] = mem[q - 1]
  BY <1>2, <1>3
<1>5. ASSUME NEW i \in Payload(q, call[u].n) PROVE mem'[i] = mem[i]
  <2>1. i \in Int /\ q <= i /\ i < EndOf(q, d)
    BY <1>1, PayloadFits
  <2>2. i \in 1..LastCell /\ q - 1 <= i
    BY <1>0, <1>3, <2>1
  <2> QED BY <1>2, <2>1, <2>2
<1>6. Mine(u)' = Mine(u)
  BY <1>1, <1>4 DEF Mine, LiveAt
<1>7. Uses(u)'
  BY <1>6 DEF Uses
<1> QED BY <1>1, <1>4, <1>5, <1>6, <1>7

\* A thread that uses no block: not one of the others who comes to use p.
LEMMA NotUser ==
  ASSUME HInv, NEW u \in Threads, ~Uses(u), call'[u] = call[u], ~Careless \/ mem' = mem
  PROVE  ~Uses(u)'
BY DEF HInv, Owners, Uses, Careless, Mine, LiveAt, HTyped, CallType

\* The parts about users, when one block is written, that none of the others uses.
LEMMA OthersKept ==
  ASSUME HInv, NEW t \in Threads, NEW p \in 2..LastCell, NEW c \in Classes, IsBlock(p, c), WritesBlock(p, c),
         \A u \in Threads \ {t} : call'[u] = call[u] /\ (Uses(u) => call[u].p # p)
  PROVE  \A u \in Threads \ {t} :
           /\ Uses(u)' = Uses(u)
           /\ Filling(u)' = Filling(u)
           /\ Filling(u)' => call'[u].p \in 2..LastCell /\ mem'[call'[u].p - 1].tag # "LIVE"
           /\ call'[u].op = "raw" /\ call'[u].pc = "unlock" => Mine(u)'
           /\ call'[u].op = "raw" => call'[u].pc \in {"idle", "lock", "take", "fill", "unlock"}
           /\ call'[u].op = "free" => call'[u].pc \in {"check", "lock", "put", "unlock"}
           /\ call'[u].op = "free" /\ call'[u].pc \in {"lock", "put"} => Mine(u)'
           /\ call'[u].pc = "check" => call'[u].p \in 2..LastCell /\ (Mine(u)' \/ Careless)
           /\ u \in Giving' /\ call'[u].pc = "unlock" =>
                \A i \in Payload(call'[u].p, call'[u].n) : mem'[i] = Zero
<1> SUFFICES ASSUME NEW u \in Threads \ {t}
             PROVE  /\ Uses(u)' = Uses(u)
                    /\ Filling(u)' = Filling(u)
                    /\ Filling(u)' => call'[u].p \in 2..LastCell /\ mem'[call'[u].p - 1].tag # "LIVE"
                    /\ call'[u].op = "raw" /\ call'[u].pc = "unlock" => Mine(u)'
                    /\ call'[u].op = "raw" => call'[u].pc \in {"idle", "lock", "take", "fill", "unlock"}
                    /\ call'[u].op = "free" => call'[u].pc \in {"check", "lock", "put", "unlock"}
                    /\ call'[u].op = "free" /\ call'[u].pc \in {"lock", "put"} => Mine(u)'
                    /\ call'[u].pc = "check" => call'[u].p \in 2..LastCell /\ (Mine(u)' \/ Careless)
                    /\ u \in Giving' /\ call'[u].pc = "unlock" =>
                         \A i \in Payload(call'[u].p, call'[u].n) : mem'[i] = Zero
  OBVIOUS
<1>1. call'[u] = call[u] /\ Filling(u)' = Filling(u) /\ u # t
  BY DEF Filling
<1>2. ~Careless
  BY <1>1 DEF Careless, OneThread
<1>3. CASE Uses(u)
  <2>1. /\ Uses(u)' /\ Mine(u)' = Mine(u)
        /\ mem'[call[u].p - 1] = mem[call[u].p - 1]
        /\ \A i \in Payload(call[u].p, call[u].n) : mem'[i] = mem[i]
    BY <1>1, <1>3, OtherUser
  <2>2. u \in Giving' /\ call'[u].pc = "unlock" =>
                         \A i \in Payload(call'[u].p, call'[u].n) : mem'[i] = Zero
    BY <1>1, <2>1 DEF HInv, ReturnsZeroed, Giving
  <2>3. Filling(u)' => call'[u].p \in 2..LastCell /\ mem'[call'[u].p - 1].tag # "LIVE"
    BY <1>1, <2>1 DEF HInv, Owners
  <2> QED BY <1>1, <1>2, <1>3, <2>1, <2>2, <2>3 DEF HInv, Owners
<1>4. CASE ~Uses(u)
  <2>1. ~Uses(u)'
    BY <1>1, <1>2, <1>4, NotUser
  <2>2. call[u].op = "raw" => call[u].pc \in {"idle", "lock", "take"}
    BY <1>4 DEF HInv, Owners, Uses
  <2>3. call[u].op = "free" => call[u].pc = "unlock"
    BY <1>2, <1>4 DEF HInv, Owners, Uses
  <2>4. call[u].op \in {"raw", "free"}
    BY DEF HInv, HTyped, CallType
  <2>5. Uses(u)' = Uses(u)
    BY <1>4, <2>1 DEF Uses
  <2>6. ~Filling(u)' /\ u \notin Giving'
    BY <1>1, <2>2, <2>3, <2>4 DEF Filling, Giving
  <2> QED BY <1>1, <2>2, <2>3, <2>4, <2>5, <2>6
<1> QED BY <1>3, <1>4

-----------------------------------------------------------------------------
(***************************************************************************)
(* raw: a block from the free list, or from the chunk.                     *)
(***************************************************************************)
\* raw finds block p, free or new, which nobody uses.
Finds(t, p) ==
  /\ UNCHANGED <<mem, held, stale, dirty, stopped>> /\ At(t, "take")
  /\ call[t].op = "raw"
  /\ call' = [call EXCEPT ![t].p = p, ![t].pc = "fill"]
  /\ \A h \in Heaps : heap'[h].lock = heap[h].lock

\* What a thread that found a block for its request leaves alone.
LEMMA FindsStep ==
  ASSUME HInv, NEW t \in Threads, NEW p \in 2..LastCell, Finds(t, p), mem[p - 1].tag # "LIVE",
         \A u \in Threads : Filling(u) => call[u].p # p
  PROVE  /\ call'[t].pc = "fill" /\ call'[t].op = "raw" /\ call'[t].p = p
         /\ call'[t].n = call[t].n /\ call'[t].h = call[t].h
         /\ call' \in [Threads -> CallType]
         /\ \A u \in Threads \ {t} : call'[u] = call[u] /\ Filling(u)' = Filling(u)
         /\ Filling(t)' /\ ~Filling(t)
         /\ \A u \in Threads : call'[u].pc # "idle" => call'[u].h \in Heaps /\ call'[u].n \in Requests
         /\ Locks' /\ Owners' /\ OneUser' /\ ReturnsZeroed' /\ Fails'
<1>1. /\ call'[t].pc = "fill" /\ call'[t].op = "raw" /\ call'[t].p = p
      /\ call'[t].n = call[t].n /\ call'[t].h = call[t].h
      /\ call' \in [Threads -> CallType]
      /\ \A u \in Threads \ {t} : call'[u] = call[u]
  <2>1. call \in [Threads -> CallType] /\ call' = [call EXCEPT ![t].p = p, ![t].pc = "fill"]
    BY DEF HInv, HTyped, Finds
  <2>2. p \in 0..LastCell /\ call[t].op = "raw"
    BY HeapAssumption DEF Finds
  <2> QED BY <2>1, <2>2 DEF CallType, Spots
<1>2. Filling(t)' /\ ~Filling(t) /\ \A u \in Threads \ {t} : Filling(u)' = Filling(u)
  BY <1>1 DEF Filling, Finds, At
<1>3. \A u \in Threads : call'[u].pc # "idle" => call'[u].h \in Heaps /\ call'[u].n \in Requests
  BY <1>1 DEF HInv, HTyped, Finds, At
<1>4. Locks'
  <2>1. ASSUME NEW u \in Threads, call'[u].pc \in Inside PROVE heap'[call'[u].h].lock = u
    <3>1. call[u].pc \in Inside /\ call'[u].h = call[u].h /\ call[u].h \in Heaps
      BY <1>1, <2>1 DEF Finds, At, Inside, HInv, HTyped
    <3> QED BY <3>1 DEF Finds, HInv, Locks
  <2> QED BY <2>1 DEF Locks
<1>5. \A u \in Threads \ {t} : Mine(u)' = Mine(u) /\ Uses(u)' = Uses(u)
  BY <1>1 DEF Mine, LiveAt, Uses, Finds
<1>6. Uses(t)' /\ ~Uses(t)
  BY <1>1 DEF Uses, Finds, At
<1>7. Owners'
  <2>1. \A b \in held' : LiveAt(b.p, b.h, b.n)'
    BY DEF HInv, Owners, LiveAt, Finds
  <2> QED BY <1>1, <1>2, <1>5, <2>1 DEF HInv, Owners, Finds
<1>8. OneUser'
  <2>0. \A h, n : ~LiveAt(p, h, n)
    BY DEF LiveAt, Header
  <2>1. ASSUME NEW u \in Threads \ {t}, Uses(u) PROVE call[u].p # p
    <3>1. CASE Filling(u)
      BY <3>1
    <3>2. CASE ~Filling(u)
      <4>1. LiveAt(call[u].p, call[u].h, call[u].n)
        BY <2>1, <3>2, UsedBlock DEF Mine
      <4> QED BY <2>0, <4>1
    <3> QED BY <3>1, <3>2
  <2>2. ASSUME NEW b \in held PROVE b.p # p
    <3>1. LiveAt(b.p, b.h, b.n)
      BY DEF HInv, Owners
    <3> QED BY <2>0, <3>1
  <2>3. \A u, v \in Threads : Uses(u)' /\ Uses(v)' /\ u # v => call'[u].p # call'[v].p
    BY <1>1, <1>5, <2>1 DEF HInv, OneUser
  <2>4. \A u \in Threads, b \in held' : Uses(u)' => call'[u].p # b.p
    BY <1>1, <1>5, <2>2 DEF HInv, OneUser, Finds
  <2>5. \A q \in 2..LastCell : mem'[q - 1].tag = "LIVE" =>
          (\E b \in held' : b.p = q) \/ \E u \in Threads : Uses(u)' /\ call'[u].p = q
    BY <1>1, <1>5, <1>6 DEF HInv, OneUser, Finds
  <2> QED BY <2>3, <2>4, <2>5 DEF OneUser
<1>9. ReturnsZeroed'
  BY <1>1 DEF HInv, ReturnsZeroed, Giving, Finds
<1>10. Fails'
  BY DEF HInv, Fails, Finds
<1> QED BY <1>1, <1>2, <1>3, <1>4, <1>7, <1>8, <1>9, <1>10

LEMMA TakeFreedStep ==
  ASSUME HInv, NEW t \in Threads, TakeFreed(t)
  PROVE  HInv'
<1>1. PICK h \in Heaps, n \in Requests : h = call[t].h /\ n = call[t].n
  BY DEF TakeFreed, HInv, HTyped, At
<1>2. PICK c \in Classes : c = ClassOf(n)
  BY ClassFits
<1>3. PICK p \in 0..LastCell : p = heap[h].heads[c]
  BY DEF HInv, HTyped, HeapType
<1>4. OnList(p, h, c) /\ At(t, "take") /\ p \in 2..LastCell /\ LastCell \in Nat
  <2>1. At(t, "take") /\ p # 0
    BY <1>1, <1>2, <1>3 DEF TakeFreed
  <2>2. OnList(p, h, c)
    BY <1>3, <2>1 DEF HInv, Links
  <2> QED BY <2>1, <2>2, HeapAssumption DEF OnList, Free
<1>5. CASE WrittenAfterFree(p)
  <2>1. UNCHANGED <<mem, brk, heap, call, held, stale, dirty>> /\ stopped' = "written after free"
    BY <1>1, <1>2, <1>3, <1>5 DEF TakeFreed, Stop
  <2>2. p \in dirty
    BY <1>4, <1>5 DEF HInv, Junk, OnList
  <2>3. Misuse # {}
    BY <2>2 DEF HInv, Junk
  <2> QED BY <2>1, <2>3, StopStep DEF Fails
<1>6. CASE ~WrittenAfterFree(p)
  <2> DEFINE next == NextFree(p)
  <2>1. /\ UNCHANGED <<mem, brk, held, stale, dirty, stopped>>
        /\ heap' = [heap EXCEPT ![h].heads[c] = next]
        /\ call' = [call EXCEPT ![t].p = p, ![t].pc = "fill"]
    BY <1>1, <1>2, <1>3, <1>6 DEF TakeFreed
  <2>2. /\ mem[p].tag = "link" /\ next = mem[p].a /\ next \in 0..LastCell
        /\ next # 0 => OnList(next, h, c) /\ next # p
        /\ mem[p - 1].tag = "FREED" /\ Free(p) /\ mem[p - 1].a = h /\ ClassOf(mem[p - 1].b) = c
    <3>1. mem[p] \in Cell
      BY <1>4 DEF HInv, HTyped
    <3>2. Free(p) /\ mem[p - 1].tag = "FREED" /\ mem[p - 1].a = h /\ ClassOf(mem[p - 1].b) = c
      BY <1>4 DEF OnList, Free
    <3>3. /\ mem[p].tag = "link"
          /\ mem[p].a # 0 => /\ OnList(mem[p].a, mem[p - 1].a, ClassOf(mem[p - 1].b))
                             /\ mem[p].a # heap[mem[p - 1].a].heads[ClassOf(mem[p - 1].b)]
      BY <1>4, <3>2 DEF HInv, Links
    <3>4. next = mem[p].a
      BY DEF NextFree
    <3>5. mem[p].a \in 0..LastCell
      BY <3>1, <3>3, CellKinds
    <3> HIDE DEF next
    <3> QED BY ONLY <1>3, <3>2, <3>3, <3>4, <3>5
  <2> HIDE DEF next
  <2>3. /\ heap' \in [Heaps -> HeapType]
        /\ heap'[h].heads[c] = next
        /\ \A d \in Classes \ {c} : heap'[h].heads[d] = heap[h].heads[d]
        /\ \A g \in Heaps \ {h} : heap'[g] = heap[g]
        /\ \A g \in Heaps : heap'[g].lock = heap[g].lock
        /\ SameChunks
    <3>1. heap \in [Heaps -> HeapType]
      BY DEF HInv, HTyped
    <3>2. [heap[h] EXCEPT !.heads[c] = next] \in HeapType
      BY <2>2, <3>1 DEF HeapType
    <3>3. heap'[h] = [heap[h] EXCEPT !.heads[c] = next] /\ \A g \in Heaps \ {h} : heap'[g] = heap[g]
      BY <2>1, <3>1
    <3>4. heap' \in [Heaps -> HeapType]
      BY <2>1, <2>2, <3>1, <3>2
    <3>5. /\ heap'[h].heads[c] = next
          /\ \A d \in Classes \ {c} : heap'[h].heads[d] = heap[h].heads[d]
          /\ heap'[h].lock = heap[h].lock /\ heap'[h].cur = heap[h].cur /\ heap'[h].end = heap[h].end
      BY <3>1, <3>3 DEF HeapType
    <3> QED BY <3>3, <3>4, <3>5 DEF SameChunks
  <2>4. call[t].op = "raw"
    BY <1>4 DEF HInv, Owners, HTyped, CallType, At
  <2>5. Finds(t, p) /\ mem[p - 1].tag # "LIVE" /\ \A u \in Threads : Filling(u) => call[u].p # p
    BY <1>4, <2>1, <2>2, <2>3, <2>4 DEF Finds, Free
  <2>6. /\ call'[t].p = p /\ call'[t].n = n
        /\ call' \in [Threads -> CallType]
        /\ \A u \in Threads \ {t} : call'[u] = call[u] /\ Filling(u)' = Filling(u)
        /\ Filling(t)' /\ ~Filling(t)
        /\ \A u \in Threads : call'[u].pc # "idle" => call'[u].h \in Heaps /\ call'[u].n \in Requests
        /\ Locks' /\ Owners' /\ OneUser' /\ ReturnsZeroed' /\ Fails'
    BY <1>1, <1>4, <2>5, FindsStep
  <2>7. HTyped'
    BY <2>1, <2>3, <2>6 DEF HInv, HTyped
  <2>8. Rests' /\ Layout'
    <3>1. ASSUME NEW q \in 2..LastCell + 1, NEW d \in Classes, IsBlock(q, d)' PROVE IsBlock(q, d)
      <4>1. CASE Filling(t)' /\ call'[t].p = q /\ d = ClassOf(call'[t].n)
        BY <1>2, <2>2, <2>6, <4>1 DEF IsBlock
      <4>2. CASE \E u \in Threads \ {t} : Filling(u)' /\ call'[u].p = q /\ d = ClassOf(call'[u].n)
        BY <2>6, <4>2 DEF IsBlock
      <4>3. CASE mem'[q - 1].tag \in {"LIVE", "FREED"} /\ d = ClassOf(mem'[q - 1].b)
        BY <2>1, <4>3 DEF IsBlock
      <4> QED BY <3>1, <4>1, <4>2, <4>3 DEF IsBlock
    <3> QED BY <2>1, <2>3, <3>1, LayoutKept DEF HInv
  <2>9. \A q : Free(q)' <=> Free(q) /\ q # p
    <3>1. \A q : (\A u \in Threads : Filling(u)' => call'[u].p # q)
                   <=> (\A u \in Threads : Filling(u) => call[u].p # q) /\ q # p
      BY <2>6
    <3> QED BY <2>1, <3>1 DEF Free
  <2>10. \A q, g, d : OnList(q, g, d)' <=> OnList(q, g, d) /\ q # p
    BY <2>1, <2>9 DEF OnList, Free
  <2>11. \A q, g, d : OnList(q, g, d) /\ q = p => g = h /\ d = c
    BY <2>2 DEF OnList
  <2>12. Links'
    <3>1. ASSUME NEW g \in Heaps, NEW d \in Classes, heap'[g].heads[d] # 0
          PROVE  OnList(heap[g].heads[d], g, d)'
      <4>1. PICK r : r = heap'[g].heads[d]
        OBVIOUS
      <4>2. OnList(r, g, d) /\ r # p
        <5>1. CASE g = h /\ d = c
          BY <2>2, <2>3, <3>1, <4>1, <5>1
        <5>2. CASE ~(g = h /\ d = c)
          BY <2>3, <2>11, <3>1, <4>1, <5>2 DEF HInv, Links
        <5> QED BY <5>1, <5>2
      <4>3. OnList(r, g, d)'
        BY <2>10, <4>2
      <4> QED BY <4>1, <4>3 DEF OnList, Free
    <3>2. ASSUME NEW q \in 2..LastCell, Free(q)'
          PROVE  /\ mem'[q].tag = "link"
                 /\ mem'[q].a # 0 => /\ OnList(mem[q].a, mem[q - 1].a, ClassOf(mem[q - 1].b))'
                                     /\ mem'[q].a # heap'[mem'[q - 1].a].heads[ClassOf(mem'[q - 1].b)]
      <4>1. Free(q) /\ q # p /\ mem[q - 1].tag = "FREED" /\ q \in 2..LastCell + 1
        <5>1. Free(q) /\ q # p
          BY <2>9, <3>2
        <5>2. q \in 2..LastCell + 1
          BY <1>4
        <5> QED BY <5>1, <5>2 DEF Free
      <4>2. PICK g \in Heaps, d \in Classes : g = mem[q - 1].a /\ d = ClassOf(mem[q - 1].b)
        BY <4>1, HeaderBlock DEF HInv
      <4>3. PICK r : r = mem[q].a
        OBVIOUS
      <4>4. mem[q].tag = "link" /\ (r # 0 => OnList(r, g, d) /\ r # heap[g].heads[d])
        BY <4>1, <4>2, <4>3 DEF HInv, Links
      <4>5. r # 0 => r # p
        BY <1>3, <2>11, <4>4
      <4>6. r # 0 => r # heap'[g].heads[d]
        <5>1. CASE g = h /\ d = c
          BY <1>4, <2>2, <2>3, <4>1, <4>3, <5>1 DEF HInv, Links
        <5>2. CASE ~(g = h /\ d = c)
          BY <2>3, <4>4, <5>2
        <5> QED BY <5>1, <5>2
      <4>7. r # 0 => OnList(r, g, d)'
        BY <2>10, <4>4, <4>5
      <4>8. mem'[q] = mem[q] /\ mem'[q - 1] = mem[q - 1]
        BY <2>1
      <4>9. r # 0 => OnList(mem[q].a, mem[q - 1].a, ClassOf(mem[q - 1].b))'
        BY <2>1, <4>2, <4>3, <4>7 DEF OnList, Free
      <4> QED BY <4>2, <4>3, <4>4, <4>6, <4>8, <4>9
    <3>3. \A q, r \in 2..LastCell : Free(q)' /\ Free(r)' /\ q # r /\ mem'[q].a # 0 => mem'[q].a # mem'[r].a
      BY <2>1, <2>9 DEF HInv, Links
    <3>4. ASSUME NEW g \in Heaps, NEW d \in Classes, NEW S \in SUBSET (2..LastCell), Covers(S, g, d)',
                 NEW q \in 2..LastCell, OnList(q, g, d)'
          PROVE  q \in S
      <4>1. OnList(q, g, d) /\ q # p
        BY <2>10, <3>4
      <4>2. PICK U : U = IF g = h /\ d = c THEN S \cup {p} ELSE S
        OBVIOUS
      <4>3. U \in SUBSET (2..LastCell) /\ S \subseteq U
        BY <1>4, <4>2
      <4>4. heap[g].heads[d] \in U \cup {0}
        BY <1>3, <2>3, <3>4, <4>2 DEF Covers
      <4>5. ASSUME NEW r \in U, OnList(r, g, d) PROVE mem[r].a \in U \cup {0}
        <5>1. CASE r = p
          <6>1. g = h /\ d = c
            BY <2>11, <4>5, <5>1
          <6> QED BY <2>2, <2>3, <3>4, <4>2, <5>1, <6>1 DEF Covers
        <5>2. CASE r # p
          <6>1. OnList(r, g, d)' /\ r \in S
            BY <2>10, <4>2, <4>5, <5>2
          <6>2. mem'[r].a \in S \cup {0}
            BY <3>4, <6>1 DEF Covers
          <6> QED BY <2>1, <4>3, <6>2
        <5> QED BY <5>1, <5>2
      <4>6. Covers(U, g, d)
        BY <4>4, <4>5 DEF Covers
      <4>7. q \in U
        BY <4>1, <4>3, <4>6 DEF HInv, Links
      <4> QED BY <4>1, <4>2, <4>7
    <3> QED BY <3>1, <3>2, <3>3, <3>4 DEF Links
  <2>13. Junk'
    <3>1. p \notin dirty
      BY <1>4, <1>6, <2>2 DEF HInv, Junk
    <3>2. \A q \in 2..LastCell : Free(q)' => (q \in dirty' <=> WrittenAfterFree(q)')
      BY <2>1, <2>9 DEF HInv, Junk, WrittenAfterFree
    <3>3. \A q \in dirty' : Free(q)'
      BY <2>1, <2>9, <3>1 DEF HInv, Junk
    <3> QED BY <2>1, <3>2, <3>3 DEF HInv, Junk
  <2> QED BY <2>6, <2>7, <2>8, <2>12, <2>13 DEF HInv
<1> QED BY <1>5, <1>6

LEMMA CarveStep ==
  ASSUME HInv, NEW t \in Threads, Carve(t)
  PROVE  HInv'
<1>0. LastCell \in Nat /\ Chunk \in Nat /\ HTyped /\ Rests /\ Layout
  BY HeapAssumption DEF HInv
<1>1. PICK h \in Heaps, n \in Requests : h = call[t].h /\ n = call[t].n /\ At(t, "take")
  BY DEF Carve, HInv, HTyped, At
<1>2. PICK c \in Classes : c = ClassOf(n) /\ ClassCells[c] \in Nat \ {0}
  BY ClassFits
<1> DEFINE need  == Need(c)
           short == need > heap[h].end - heap[h].cur
           chunk == IF need > Chunk THEN need ELSE Chunk
           cur   == IF short THEN brk ELSE heap[h].cur
           end   == IF short THEN brk + chunk ELSE heap[h].end
           p     == cur + 1
<1>3. CASE short /\ brk + chunk > LastCell + 1
  <2>1. UNCHANGED <<mem, brk, heap, call, held, stale, dirty>> /\ stopped' = "out of memory"
    BY <1>1, <1>2, <1>3 DEF Carve, Stop
  <2> QED BY <2>1, StopStep DEF Fails
<1>4. CASE ~(short /\ brk + chunk > LastCell + 1)
  <2>1. /\ UNCHANGED <<mem, held, stale, dirty, stopped>>
        /\ brk' = IF short THEN brk + chunk ELSE brk
        /\ heap' = [heap EXCEPT ![h].cur = cur + need,
                                ![h].end = IF short THEN brk + chunk ELSE @,
                                ![h].reserved = IF short THEN @ + chunk ELSE @]
        /\ call' = [call EXCEPT ![t].p = p, ![t].pc = "fill"]
    BY <1>1, <1>2, <1>4 DEF Carve
  <2>2. /\ heap[h].cur \in 0..LastCell + 1 /\ heap[h].end \in 0..LastCell + 1
        /\ heap[h].cur <= heap[h].end /\ heap[h].end <= brk /\ brk \in 1..LastCell + 1
        /\ heap[h].cur = 0 => heap[h].end = 0
        /\ heap[h] \in HeapType
    BY <1>0 DEF HTyped, HeapType, Rests
  <2>3. need \in Nat /\ need = ClassCells[c] + 1 /\ need >= 2 /\ chunk \in Nat /\ chunk >= need
    BY <1>0, <1>2 DEF Need
  <2>4. PICK k, e, w \in Nat : k = cur /\ e = end /\ w = need
    BY <2>2, <2>3
  <2>5. /\ brk' \in 1..LastCell + 1 /\ brk <= brk'
        /\ k >= 1 /\ k + w <= e /\ e <= brk' /\ w >= 2
        /\ p = k + 1 /\ p \in 2..LastCell /\ p - 1 = k /\ EndOf(p, c) = k + w
        /\ heap[h].end <= k \/ (k = heap[h].cur /\ e = heap[h].end /\ brk' = brk)
        /\ k = brk \/ (k = heap[h].cur /\ e = heap[h].end /\ brk' = brk)
    <3>1. CASE short
      BY <1>0, <1>2, <1>4, <2>1, <2>2, <2>3, <2>4, <3>1 DEF EndOf
    <3>2. CASE ~short
      BY <1>0, <1>2, <1>4, <2>1, <2>2, <2>3, <2>4, <3>2 DEF EndOf
    <3> QED BY <3>1, <3>2
  <2>6. /\ heap' \in [Heaps -> HeapType]
        /\ heap'[h].cur = k + w /\ heap'[h].end = e /\ heap'[h].lock = heap[h].lock
        /\ heap'[h].heads = heap[h].heads
        /\ \A g \in Heaps \ {h} : heap'[g] = heap[g]
    <3> DEFINE hh == [heap[h] EXCEPT !.cur = cur + need,
                                     !.end = IF short THEN brk + chunk ELSE @,
                                     !.reserved = IF short THEN @ + chunk ELSE @]
    <3>1. heap \in [Heaps -> HeapType]
      BY <1>0 DEF HTyped
    <3>2. heap'[h] = hh /\ \A g \in Heaps \ {h} : heap'[g] = heap[g]
      BY <2>1, <3>1
    <3>3. k + w \in 0..LastCell + 1 /\ e \in 0..LastCell + 1
      BY <1>0, <2>5
    <3>4. hh.cur = k + w /\ hh.end = e /\ hh.lock = heap[h].lock /\ hh.heads = heap[h].heads
      BY <2>2, <2>4 DEF HeapType
    <3>5. hh \in HeapType
      <4>1. PICK r \in Int : r = IF short THEN heap[h].reserved + chunk ELSE heap[h].reserved
        BY <2>2, <2>3 DEF HeapType
      <4>2. hh = [heap[h] EXCEPT !.cur = k + w, !.end = e, !.reserved = r]
        BY <2>4, <4>1
      <4> QED BY <2>2, <3>3, <4>1, <4>2 DEF HeapType
    <3>6. heap' = [g \in Heaps |-> IF g = h THEN hh ELSE heap[g]]
      BY <2>1, <3>1
    <3>7. heap' \in [Heaps -> HeapType]
      BY <3>1, <3>5, <3>6
    <3> QED BY <3>2, <3>4, <3>7
  <2> HIDE DEF need, short, chunk, cur, end, p
  <2>7. ASSUME NEW q \in 2..LastCell + 1, NEW d \in Classes, IsBlock(q, d)
        PROVE  Apart(q, d, p, c) /\ q # p
    <3>1. /\ EndOf(q, d) \in Int /\ q < EndOf(q, d) /\ EndOf(q, d) <= brk
          /\ EndOf(q, d) <= heap[h].cur \/ heap[h].end <= q - 1
      BY <1>0, <2>7, BlockSpan DEF Layout, OffRests
    <3> QED BY <1>0, <2>2, <2>4, <2>5, <3>1 DEF Apart
  <2>8. mem[p - 1].tag \notin {"LIVE", "FREED"} /\ p \in 2..LastCell + 1
    <3>1. p \in 2..LastCell + 1
      BY <1>0, <2>5
    <3> QED BY <1>0, <2>7, <3>1, HeaderBlock
  <2>9. \A u \in Threads : Filling(u) => call[u].p # p
    <3>1. \A u \in Threads : Filling(u) => Uses(u)
      BY DEF Filling, Uses
    <3> QED BY <1>0, <2>7, <3>1, UsedBlock
  <2>10. call[t].op = "raw"
    BY <1>1 DEF HInv, Owners, HTyped, CallType, At
  <2>11. Finds(t, p)
    BY <1>1, <2>1, <2>6, <2>10 DEF Finds
  <2>12. /\ call'[t].p = p /\ call'[t].n = n
         /\ call' \in [Threads -> CallType]
         /\ \A u \in Threads \ {t} : call'[u] = call[u] /\ Filling(u)' = Filling(u)
         /\ Filling(t)' /\ ~Filling(t)
         /\ \A u \in Threads : call'[u].pc # "idle" => call'[u].h \in Heaps /\ call'[u].n \in Requests
         /\ Locks' /\ Owners' /\ OneUser' /\ ReturnsZeroed' /\ Fails'
    BY <1>1, <2>5, <2>8, <2>9, <2>11, FindsStep
  <2>13. HTyped'
    BY <1>0, <2>1, <2>5, <2>6, <2>12 DEF HTyped
  <2>14. Rests'
    <3>1. ASSUME NEW g \in Heaps
          PROVE  /\ heap'[g].cur <= heap'[g].end /\ heap'[g].end <= brk'
                 /\ heap'[g].cur = 0 => heap'[g].end = 0
      <4>1. CASE g = h
        BY <2>4, <2>5, <2>6, <4>1
      <4>2. CASE g # h
        <5>1. /\ heap'[g] = heap[g] /\ heap[g].end \in Int /\ heap[g].end <= brk /\ brk \in Int /\ brk' \in Int
              /\ heap[g].cur <= heap[g].end /\ (heap[g].cur = 0 => heap[g].end = 0)
          BY <1>0, <2>2, <2>5, <2>6, <4>2 DEF Rests, HTyped, HeapType
        <5> QED BY <2>5, <5>1
      <4> QED BY <4>1, <4>2
    <3>2. ASSUME NEW g \in Heaps, g # h
          PROVE  heap'[h].end <= heap'[g].cur \/ heap'[g].end <= heap'[h].cur
      <4>1. /\ heap'[g] = heap[g] /\ heap[g].end \in Int /\ heap[g].cur \in Int /\ heap[g].end <= brk
            /\ heap[h].end <= heap[g].cur \/ heap[g].end <= heap[h].cur
        BY <1>0, <2>6, <3>2 DEF Rests, HTyped, HeapType
      <4> QED BY <2>2, <2>4, <2>5, <2>6, <4>1
    <3>3. ASSUME NEW g \in Heaps, NEW f \in Heaps, g # f
          PROVE  heap'[g].end <= heap'[f].cur \/ heap'[f].end <= heap'[g].cur
      <4>1. CASE g = h \/ f = h
        BY <3>2, <3>3, <4>1
      <4>2. CASE g # h /\ f # h
        BY <1>0, <2>6, <3>3, <4>2 DEF Rests
      <4> QED BY <4>1, <4>2
    <3> QED BY <3>1, <3>3 DEF Rests
  <2>15. ASSUME NEW q \in 2..LastCell + 1, NEW d \in Classes, IsBlock(q, d)'
         PROVE  IsBlock(q, d) \/ (q = p /\ d = c)
    <3>1. CASE Filling(t)' /\ call'[t].p = q /\ d = ClassOf(call'[t].n)
      BY <1>2, <2>12, <3>1
    <3>2. CASE \E u \in Threads \ {t} : Filling(u)' /\ call'[u].p = q /\ d = ClassOf(call'[u].n)
      BY <2>12, <3>2 DEF IsBlock
    <3>3. CASE mem'[q - 1].tag \in {"LIVE", "FREED"} /\ d = ClassOf(mem'[q - 1].b)
      BY <2>1, <3>3 DEF IsBlock
    <3> QED BY <2>15, <3>1, <3>2, <3>3 DEF IsBlock
  <2>16. Layout'
    <3>1. ASSUME NEW q \in 2..LastCell + 1, NEW d \in Classes, IsBlock(q, d)' PROVE OffRests(q, d)'
      <4>1. CASE IsBlock(q, d)
        <5>1. /\ EndOf(q, d) \in Int /\ EndOf(q, d) <= brk
              /\ \A g \in Heaps : EndOf(q, d) <= heap[g].cur \/ heap[g].end <= q - 1
          BY <1>0, <4>1, BlockSpan DEF Layout, OffRests
        <5>2. EndOf(q, d) <= heap'[h].cur \/ heap'[h].end <= q - 1
          BY <2>2, <2>4, <2>5, <2>6, <5>1
        <5>3. EndOf(q, d) <= brk'
          BY <2>2, <2>5, <5>1
        <5>4. \A g \in Heaps : EndOf(q, d) <= heap'[g].cur \/ heap'[g].end <= q - 1
          BY <2>6, <5>1, <5>2
        <5> QED BY <5>3, <5>4 DEF OffRests, EndOf
      <4>2. CASE q = p /\ d = c
        <5>1. EndOf(q, d) <= brk' /\ EndOf(q, d) = k + w
          BY <2>2, <2>4, <2>5, <4>2
        <5>2. ASSUME NEW g \in Heaps PROVE EndOf(q, d) <= heap'[g].cur \/ heap'[g].end <= q - 1
          <6>1. CASE g = h
            BY <2>4, <2>5, <2>6, <5>1, <6>1
          <6>2. CASE g # h
            <7>1. /\ heap'[g] = heap[g] /\ heap[g].end \in Int /\ heap[g].cur \in Int /\ heap[g].end <= brk
                  /\ heap[h].end <= heap[g].cur \/ heap[g].end <= heap[h].cur
              BY <1>0, <2>6, <6>2 DEF Rests, HTyped, HeapType
            <7> QED BY <2>2, <2>4, <2>5, <4>2, <5>1, <7>1
          <6> QED BY <6>1, <6>2
        <5> QED BY <5>1, <5>2 DEF OffRests, EndOf
      <4> QED BY <2>15, <3>1, <4>1, <4>2
    <3>2. \A q, r \in 2..LastCell + 1, d, f \in Classes :
             IsBlock(q, d)' /\ IsBlock(r, f)' => (q = r /\ d = f) \/ Apart(q, d, r, f)
      BY <1>0, <2>7, <2>15 DEF Layout, Apart
    <3> QED BY <3>1, <3>2 DEF Layout, Apart, EndOf
  <2>17. \A q \in 2..LastCell : Free(q)' = Free(q)
    <3>1. \A q \in 2..LastCell : mem[q - 1].tag = "FREED" => q # p
      BY <2>8
    <3>2. \A q : q # p => ((\A u \in Threads : Filling(u)' => call'[u].p # q)
                             <=> (\A u \in Threads : Filling(u) => call[u].p # q))
      BY <2>12
    <3> QED BY <2>1, <3>1, <3>2 DEF Free
  <2>18. Links' /\ Junk'
    <3>1. SameHeads
      BY <2>6 DEF SameHeads
    <3>2. \A q \in 2..LastCell : WrittenAfterFree(q)' = WrittenAfterFree(q)
      BY <2>1 DEF WrittenAfterFree
    <3> QED BY <2>1, <2>17, <3>1, <3>2, LinksKept, JunkKept DEF HInv
  <2> QED BY <2>12, <2>13, <2>14, <2>16, <2>18 DEF HInv
<1> QED BY <1>3, <1>4

-----------------------------------------------------------------------------
(***************************************************************************)
(* Steps that write memory: raw's and free_raw's, and the program's.       *)
(***************************************************************************)
\* A write into the cells of a block, none of them a header, and perhaps its header.
LEMMA WritesInside ==
  ASSUME HTyped, Layout, NEW p \in 2..LastCell, NEW c \in Classes, IsBlock(p, c),
         \A i \in 1..LastCell : \/ mem'[i] = mem[i] \/ i = p - 1
                                \/ p <= i /\ i < EndOf(p, c) /\ mem'[i].tag \notin {"LIVE", "FREED"}
  PROVE  WritesBlock(p, c)
<1>1. LastCell \in Nat /\ p \in 2..LastCell + 1 /\ EndOf(p, c) \in Int /\ p < EndOf(p, c)
  <2>1. LastCell \in Nat /\ p \in 2..LastCell + 1
    BY HeapAssumption
  <2> QED BY <2>1, BlockSpan
<1>2. \A i \in 1..LastCell : i < p - 1 \/ EndOf(p, c) <= i => mem'[i] = mem[i]
  BY <1>1
<1>3. \A i \in 1..LastCell : p <= i /\ i < EndOf(p, c) => mem'[i].tag \notin {"LIVE", "FREED"}
  BY <1>1, NoHeaderInside
<1> QED BY <1>2, <1>3 DEF WritesBlock

\* A write inside one block leaves what the program holds elsewhere.
LEMMA OthersHeld ==
  ASSUME HInv, NEW p \in 2..LastCell, NEW c \in Classes, IsBlock(p, c), WritesBlock(p, c),
         NEW b \in held, b.p # p
  PROVE  LiveAt(b.p, b.h, b.n)'
<1>1. LiveAt(b.p, b.h, b.n) /\ b \in BlockType /\ HTyped /\ Layout
  BY DEF HInv, Owners, HTyped
<1>2. PICK q \in 2..LastCell, h \in Heaps, n \in Requests : q = b.p /\ h = b.h /\ n = b.n
  BY <1>1 DEF BlockType
<1>3. LiveAt(q, h, n)'
  BY <1>1, <1>2, OtherLive
<1>4. q \in 2..LastCell /\ mem'[q - 1] = Header("LIVE", h, n)
  BY <1>3 DEF LiveAt
<1> QED BY <1>2, <1>4 DEF LiveAt

\* A heap with other counts.
LEMMA CountedHeap ==
  ASSUME HTyped, NEW h \in Heaps, NEW x \in Int, NEW y \in Int
  PROVE  /\ Counted(h, x, y) \in HeapType
         /\ Counted(h, x, y).lock = heap[h].lock /\ Counted(h, x, y).heads = heap[h].heads
         /\ Counted(h, x, y).cur = heap[h].cur /\ Counted(h, x, y).end = heap[h].end
<1>1. heap[h] \in HeapType
  BY DEF HTyped
<1>2. heap[h].nlive + x \in Int /\ heap[h].live_bytes + y \in Int
  BY <1>1 DEF HeapType
<1>3. PICK i \in Int, j \in Int : i = heap[h].nlive + x /\ j = heap[h].live_bytes + y
  BY <1>2
<1>4. Counted(h, x, y) = [heap[h] EXCEPT !.nlive = i, !.live_bytes = j]
  BY <1>3 DEF Counted
<1> QED BY <1>1, <1>4 DEF HeapType

\* Setting the counts or a list head of one heap moves no lock and no chunk.
LEMMA CountsSet ==
  ASSUME HTyped, NEW h \in Heaps, NEW z \in HeapType,
         z.lock = heap[h].lock, z.cur = heap[h].cur, z.end = heap[h].end,
         heap' = [heap EXCEPT ![h] = z]
  PROVE  /\ heap' \in [Heaps -> HeapType] /\ heap'[h] = z /\ SameChunks
         /\ \A g \in Heaps : heap'[g].lock = heap[g].lock
         /\ \A g \in Heaps \ {h} : heap'[g] = heap[g]
BY DEF HTyped, SameChunks

\* What Fill does to the memory, and to whose block.
LEMMA FillWrites ==
  ASSUME HInv, NEW t \in Threads, Fill(t)
  PROVE  \E h \in Heaps, n \in Requests, p \in 2..LastCell, c \in Classes :
        /\ h = call[t].h /\ n = call[t].n /\ p = call[t].p /\ At(t, "fill") /\ Filling(t)
        /\ c = ClassOf(n) /\ IsBlock(p, c) /\ WritesBlock(p, c)
        /\ heap' = [heap EXCEPT ![h] = Counted(h, 1, n)]
        /\ call' = [call EXCEPT ![t].pc = "unlock"]
        /\ dirty' = dirty \ {p} /\ UNCHANGED <<brk, held, stale, stopped>>
        /\ LastCell \in Nat /\ HTyped /\ Layout /\ p - 1 \in 1..LastCell
        /\ mem' \in [1..LastCell -> Cell] /\ mem'[p - 1] = Header("LIVE", h, n)
        /\ \A i \in 1..LastCell : i # p - 1 => mem'[i] = IF i \in Payload(p, n) THEN Zero ELSE mem[i]
<1>1. PICK h \in Heaps, n \in Requests, p \in 2..LastCell :
        h = call[t].h /\ n = call[t].n /\ p = call[t].p /\ At(t, "fill") /\ Filling(t)
  BY DEF Fill, HInv, HTyped, CallType, Owners, At, Filling
<1>2. PICK c \in Classes : c = ClassOf(n) /\ IsBlock(p, c)
  BY <1>1, UsedBlock DEF Uses, Filling
<1>3. /\ mem' = [Zeroed(p, n) EXCEPT ![p - 1] = Header("LIVE", h, n)]
      /\ heap' = [heap EXCEPT ![h] = Counted(h, 1, n)]
      /\ call' = [call EXCEPT ![t].pc = "unlock"]
      /\ dirty' = dirty \ {p} /\ UNCHANGED <<brk, held, stale, stopped>>
  BY <1>1 DEF Fill, Goto
<1>4. LastCell \in Nat /\ HTyped /\ Layout /\ p - 1 \in 1..LastCell
  BY HeapAssumption DEF HInv
<1>5. /\ DOMAIN mem = 1..LastCell /\ mem \in [1..LastCell -> Cell]
      /\ mem'[p - 1] = Header("LIVE", h, n)
      /\ \A i \in 1..LastCell : i # p - 1 => mem'[i] = IF i \in Payload(p, n) THEN Zero ELSE mem[i]
      /\ mem' \in [1..LastCell -> Cell]
  <2>1. mem \in [1..LastCell -> Cell] /\ DOMAIN mem = 1..LastCell
    BY <1>4 DEF HTyped
  <2>2. Header("LIVE", h, n) \in Cell
    BY Stored
  <2>3. Zeroed(p, n) = [i \in 1..LastCell |-> IF i \in Payload(p, n) THEN Zero ELSE mem[i]]
    BY <2>1 DEF Zeroed, Store
  <2>4. Zeroed(p, n) \in [1..LastCell -> Cell]
    BY <2>1, <2>3, Stored
  <2> QED BY <1>3, <1>4, <2>1, <2>2, <2>3, <2>4
<1>6. WritesBlock(p, c)
  <2>1. \A i \in Payload(p, n) : p <= i /\ i < EndOf(p, c)
    BY <1>2, PayloadFits
  <2> QED BY <1>2, <1>4, <1>5, <2>1, WritesInside, Stored
<1> WITNESS h \in Heaps, n \in Requests, p \in 2..LastCell, c \in Classes
<1> QED BY ONLY <1>1, <1>2, <1>3, <1>4, <1>5, <1>6

LEMMA FillStep ==
  ASSUME HInv, NEW t \in Threads, Fill(t)
  PROVE  HInv'
<1>1. PICK h \in Heaps, n \in Requests, p \in 2..LastCell, c \in Classes :
        /\ h = call[t].h /\ n = call[t].n /\ p = call[t].p /\ At(t, "fill") /\ Filling(t)
        /\ c = ClassOf(n) /\ IsBlock(p, c) /\ WritesBlock(p, c)
        /\ heap' = [heap EXCEPT ![h] = Counted(h, 1, n)]
        /\ call' = [call EXCEPT ![t].pc = "unlock"]
        /\ dirty' = dirty \ {p} /\ UNCHANGED <<brk, held, stale, stopped>>
        /\ LastCell \in Nat /\ HTyped /\ Layout /\ p - 1 \in 1..LastCell
        /\ mem' \in [1..LastCell -> Cell] /\ mem'[p - 1] = Header("LIVE", h, n)
        /\ \A i \in 1..LastCell : i # p - 1 => mem'[i] = IF i \in Payload(p, n) THEN Zero ELSE mem[i]
  BY FillWrites
<1>7. /\ call'[t].pc = "unlock" /\ call'[t].op = "raw"
      /\ call'[t].p = p /\ call'[t].n = n /\ call'[t].h = h
      /\ call' \in [Threads -> CallType]
      /\ \A u \in Threads \ {t} : call'[u] = call[u]
  BY <1>1 DEF HInv, HTyped, CallType, Spots, Filling
<1>8. /\ heap' \in [Heaps -> HeapType] /\ SameHeaps
      /\ \A g \in Heaps : heap'[g].lock = heap[g].lock
  <2>1. n \in Int /\ 1 \in Int /\ HTyped
    BY HeapAssumption DEF HInv
  <2>2. PICK z : z = Counted(h, 1, n)
    OBVIOUS
  <2>3. /\ z \in HeapType /\ z.lock = heap[h].lock /\ z.cur = heap[h].cur /\ z.end = heap[h].end
        /\ z.heads = heap[h].heads
    BY <2>1, <2>2, CountedHeap
  <2>4. /\ heap' \in [Heaps -> HeapType] /\ heap'[h] = z /\ SameChunks
        /\ \A g \in Heaps : heap'[g].lock = heap[g].lock
        /\ \A g \in Heaps \ {h} : heap'[g] = heap[g]
    BY <1>1, <2>2, <2>3, CountsSet
  <2> QED BY <2>3, <2>4 DEF SameHeaps, SameHeads
<1>9. dirty' = dirty
  BY <1>1 DEF HInv, Junk, Free
<1>10. Uses(t) /\ Uses(t)' /\ ~Filling(t)' /\ \A u \in Threads \ {t} : Filling(u)' = Filling(u)
  BY <1>1, <1>7 DEF Uses, Filling
<1>11. \A u \in Threads \ {t} : Uses(u) => call[u].p # p
  BY <1>1, <1>10 DEF HInv, OneUser
<1>12. Rests' /\ Layout' /\ Links' /\ Junk'
  <2>1. ~Free(p) /\ ~Free(p)'
    BY <1>1, Stored DEF Free
  <2>2. mem'[p - 1].tag \in {"LIVE", "FREED"} => ClassOf(mem'[p - 1].b) = c
    BY <1>1, Stored
  <2>3. \A u \in Threads : Filling(u)' => Filling(u) /\ call'[u].p = call[u].p /\ call'[u].n = call[u].n
    BY <1>7, <1>10
  <2>4. \A u \in Threads : Filling(u) /\ ~Filling(u)' => call[u].p = p
    BY <1>1, <1>10
  <2>5. brk' = brk /\ p \in 2..LastCell
    BY <1>1
  <2> QED BY <1>1, <1>8, <1>9, <2>1, <2>2, <2>3, <2>4, <2>5, OwnWrite DEF HInv
<1>13. HTyped'
  BY <1>1, <1>7, <1>8, <1>9 DEF HInv, HTyped
<1>14. Locks'
  BY <1>1, <1>7, <1>8 DEF HInv, Locks, Inside, At, HTyped
<1>15. LiveAt(p, h, n)' /\ Mine(t)'
  BY <1>1, <1>7 DEF LiveAt, Mine
<1>16. \A b \in held : b.p # p /\ LiveAt(b.p, b.h, b.n)'
  <2>1. ASSUME NEW b \in held PROVE b.p # p /\ LiveAt(b.p, b.h, b.n)'
    <3>1. b.p # p
      BY <1>1, <1>10 DEF HInv, OneUser
    <3> QED BY <1>1, <3>1, OthersHeld
  <2> QED BY <2>1
<1>17. Owners' /\ ReturnsZeroed'
  <2>1. \A u \in Threads \ {t} :
           /\ Filling(u)' => call'[u].p \in 2..LastCell /\ mem'[call'[u].p - 1].tag # "LIVE"
           /\ call'[u].op = "raw" /\ call'[u].pc = "unlock" => Mine(u)'
           /\ call'[u].op = "raw" => call'[u].pc \in {"idle", "lock", "take", "fill", "unlock"}
           /\ call'[u].op = "free" => call'[u].pc \in {"check", "lock", "put", "unlock"}
           /\ call'[u].op = "free" /\ call'[u].pc \in {"lock", "put"} => Mine(u)'
           /\ call'[u].pc = "check" => call'[u].p \in 2..LastCell /\ (Mine(u)' \/ Careless)
           /\ u \in Giving' /\ call'[u].pc = "unlock" =>
                \A i \in Payload(call'[u].p, call'[u].n) : mem'[i] = Zero
    BY <1>1, <1>7, <1>11, OthersKept
  <2>2. Owners'
    <3>1. \A b \in held' : LiveAt(b.p, b.h, b.n)'
      BY <1>1, <1>16 DEF LiveAt
    <3> QED BY <1>7, <1>10, <1>15, <2>1, <3>1 DEF Owners
  <2>3. \A i \in Payload(p, n) : mem'[i] = Zero
    <3>1. EndOf(p, c) <= LastCell + 1 /\ EndOf(p, c) \in Int /\ p \in 2..LastCell + 1
      <4>1. p \in 2..LastCell + 1
        BY <1>1
      <4> QED BY <1>1, <4>1, BlockSpan
    <3>2. \A i \in Payload(p, n) : i \in Int /\ p <= i /\ i < EndOf(p, c)
      BY <1>1, PayloadFits
    <3>3. \A i \in Payload(p, n) : i \in 1..LastCell /\ i # p - 1
      BY <1>1, <3>1, <3>2
    <3> QED BY <1>1, <3>3
  <2>4. ReturnsZeroed'
    <3>1. ASSUME NEW u \in Giving', call'[u].pc = "unlock"
          PROVE  \A i \in Payload(call'[u].p, call'[u].n) : mem'[i] = Zero
      <4>1. CASE u = t
        BY <1>7, <2>3, <4>1
      <4>2. CASE u # t
        BY <2>1, <3>1, <4>2 DEF Giving
      <4> QED BY <4>1, <4>2
    <3> QED BY <3>1 DEF ReturnsZeroed, Payload
  <2> QED BY <2>2, <2>4
<1>18. OneUser'
  <2>1. \A u \in Threads \ {t} : Uses(u)' = Uses(u)
    BY <1>1, <1>7, <1>11, OthersKept
  <2>2. \A u, v \in Threads : Uses(u)' /\ Uses(v)' /\ u # v => call'[u].p # call'[v].p
    BY <1>1, <1>7, <1>10, <2>1 DEF HInv, OneUser
  <2>3. \A u \in Threads, b \in held' : Uses(u)' => call'[u].p # b.p
    BY <1>1, <1>7, <1>10, <2>1 DEF HInv, OneUser
  <2>4. ASSUME NEW q \in 2..LastCell, mem'[q - 1].tag = "LIVE"
        PROVE  (\E b \in held' : b.p = q) \/ \E u \in Threads : Uses(u)' /\ call'[u].p = q
    <3>1. CASE q = p
      BY <1>7, <1>10, <3>1
    <3>2. CASE q # p
      <4>1. q \in 2..LastCell + 1
        BY <1>1
      <4>2. mem[q - 1].tag = "LIVE"
        BY <1>1, <2>4, <3>2, <4>1, OtherBlocks
      <4>3. (\E b \in held : b.p = q) \/ \E u \in Threads : Uses(u) /\ call[u].p = q
        BY <4>2 DEF HInv, OneUser
      <4> QED BY <1>1, <1>7, <2>1, <3>2, <4>3
    <3> QED BY <3>1, <3>2
  <2> QED BY <2>2, <2>3, <2>4 DEF OneUser
<1>19. Fails'
  BY <1>1 DEF HInv, Fails
<1> QED BY <1>12, <1>13, <1>14, <1>17, <1>18, <1>19 DEF HInv

\* What Put does to the memory, and to whose block.
LEMMA PutWrites ==
  ASSUME HInv, NEW t \in Threads, Put(t)
  PROVE  \E h \in Heaps, n \in Requests, p \in 2..LastCell, c \in Classes, head \in 0..LastCell :
        /\ h = call[t].h /\ n = call[t].n /\ p = call[t].p /\ At(t, "put")
        /\ call[t].op = "free" /\ LiveAt(p, h, n) /\ Uses(t) /\ Mine(t)
        /\ c = ClassOf(n) /\ head = heap[h].heads[c] /\ IsBlock(p, c) /\ WritesBlock(p, c)
        /\ heap' = [heap EXCEPT ![h] = [Counted(h, -1, -n) EXCEPT !.heads[c] = p]]
        /\ call' = [call EXCEPT ![t].pc = "unlock"]
        /\ UNCHANGED <<brk, held, stale, dirty, stopped>>
        /\ LastCell \in Nat /\ HTyped /\ Layout /\ p - 1 \in 1..LastCell /\ p \in 1..LastCell
        /\ p \in 2..LastCell + 1 /\ p # p - 1
        /\ mem' \in [1..LastCell -> Cell] /\ mem'[p - 1] = Header("FREED", h, n) /\ mem'[p] = Link(head)
        /\ \A i \in 1..LastCell : i \notin {p - 1, p} =>
                mem'[i] = IF i \in Payload(p, n) THEN Poison ELSE mem[i]
        /\ EndOf(p, c) \in Int /\ p < EndOf(p, c)
        /\ \A i \in Payload(p, n) : i \in Int /\ p <= i /\ i < EndOf(p, c)
<1>1. PICK h \in Heaps, n \in Requests, p \in 2..LastCell :
        /\ h = call[t].h /\ n = call[t].n /\ p = call[t].p /\ At(t, "put")
        /\ call[t].op = "free" /\ LiveAt(p, h, n)
  BY DEF Put, HInv, HTyped, CallType, Owners, At, Mine, LiveAt
<1>2. Uses(t) /\ Mine(t)
  BY <1>1 DEF Uses, Mine, At
<1>3. PICK c \in Classes : c = ClassOf(n) /\ IsBlock(p, c)
  BY <1>1, <1>2, UsedBlock
<1>4. PICK head \in 0..LastCell : head = heap[h].heads[c]
  BY DEF HInv, HTyped, HeapType
<1>5. /\ mem' = [Junked(p, n) EXCEPT ![p - 1] = [@ EXCEPT !.tag = "FREED", !.a = h], ![p] = Link(head)]
      /\ heap' = [heap EXCEPT ![h] = [Counted(h, -1, -n) EXCEPT !.heads[c] = p]]
      /\ call' = [call EXCEPT ![t].pc = "unlock"]
      /\ UNCHANGED <<brk, held, stale, dirty, stopped>>
  BY <1>1, <1>3, <1>4 DEF Put, Goto
<1>6. LastCell \in Nat /\ HTyped /\ Layout /\ p - 1 \in 1..LastCell /\ p \in 1..LastCell /\ p \in 2..LastCell + 1
      /\ p # p - 1
  BY HeapAssumption DEF HInv
<1>7. /\ mem'[p - 1] = Header("FREED", h, n) /\ mem'[p] = Link(head)
      /\ \A i \in 1..LastCell : i \notin {p - 1, p} => mem'[i] = IF i \in Payload(p, n) THEN Poison ELSE mem[i]
      /\ mem' \in [1..LastCell -> Cell]
  <2>1. mem \in [1..LastCell -> Cell] /\ DOMAIN mem = 1..LastCell
    BY <1>6 DEF HTyped
  <2>2. Header("FREED", h, n) \in Cell /\ Link(head) \in Cell /\ Poison \in Cell
    BY Stored
  <2>3. Junked(p, n) = [i \in 1..LastCell |-> IF i \in Payload(p, n) THEN Poison ELSE mem[i]]
    BY <2>1 DEF Junked, Store
  <2>4. Junked(p, n) \in [1..LastCell -> Cell]
    BY <2>1, <2>2, <2>3
  <2>5. p - 1 \notin Payload(p, n)
    BY <1>6 DEF Payload
  <2>6. Junked(p, n)[p - 1] = Header("LIVE", h, n)
    BY <1>1, <1>6, <2>3, <2>5 DEF LiveAt
  <2>7. [Junked(p, n)[p - 1] EXCEPT !.tag = "FREED", !.a = h] = Header("FREED", h, n)
    <3>1. PICK x : x = Header("LIVE", h, n)
      OBVIOUS
    <3>2. PICK y : y = [x EXCEPT !.tag = "FREED", !.a = h]
      OBVIOUS
    <3>3. y = Header("FREED", h, n)
      BY <3>1, <3>2 DEF Header
    <3> QED BY <2>6, <3>1, <3>2, <3>3
  <2>8. mem' = [Junked(p, n) EXCEPT ![p - 1] = Header("FREED", h, n), ![p] = Link(head)]
    BY <1>5, <1>6, <2>4, <2>7
  <2> QED BY <1>6, <2>2, <2>3, <2>4, <2>8
<1>8. EndOf(p, c) \in Int /\ p < EndOf(p, c) /\ \A i \in Payload(p, n) : i \in Int /\ p <= i /\ i < EndOf(p, c)
  <2>1. EndOf(p, c) \in Int /\ p < EndOf(p, c)
    BY <1>3, <1>6, BlockSpan
  <2> QED BY <1>3, <2>1, PayloadFits
<1>9. WritesBlock(p, c)
  <2>1. \A i \in 1..LastCell : \/ mem'[i] = mem[i] \/ i = p - 1
                               \/ p <= i /\ i < EndOf(p, c) /\ mem'[i].tag \notin {"LIVE", "FREED"}
    BY <1>6, <1>7, <1>8, Stored
  <2> QED BY <1>3, <1>6, <2>1, WritesInside
<1>10. /\ h = call[t].h /\ n = call[t].n /\ p = call[t].p /\ At(t, "put")
       /\ call[t].op = "free" /\ LiveAt(p, h, n) /\ Uses(t) /\ Mine(t)
       /\ c = ClassOf(n) /\ head = heap[h].heads[c] /\ IsBlock(p, c) /\ WritesBlock(p, c)
  BY <1>1, <1>2, <1>3, <1>4, <1>9
<1> WITNESS h \in Heaps, n \in Requests, p \in 2..LastCell, c \in Classes, head \in 0..LastCell
<1> QED BY <1>5, <1>6, <1>7, <1>8, <1>10

LEMMA PutStep ==
  ASSUME HInv, NEW t \in Threads, Put(t)
  PROVE  HInv'
<1>1. PICK h \in Heaps, n \in Requests, p \in 2..LastCell, c \in Classes, head \in 0..LastCell :
        /\ h = call[t].h /\ n = call[t].n /\ p = call[t].p /\ At(t, "put")
        /\ call[t].op = "free" /\ LiveAt(p, h, n) /\ Uses(t) /\ Mine(t)
        /\ c = ClassOf(n) /\ head = heap[h].heads[c] /\ IsBlock(p, c) /\ WritesBlock(p, c)
        /\ heap' = [heap EXCEPT ![h] = [Counted(h, -1, -n) EXCEPT !.heads[c] = p]]
        /\ call' = [call EXCEPT ![t].pc = "unlock"]
        /\ UNCHANGED <<brk, held, stale, dirty, stopped>>
        /\ LastCell \in Nat /\ HTyped /\ Layout /\ p - 1 \in 1..LastCell /\ p \in 1..LastCell
        /\ p \in 2..LastCell + 1 /\ p # p - 1
        /\ mem' \in [1..LastCell -> Cell] /\ mem'[p - 1] = Header("FREED", h, n) /\ mem'[p] = Link(head)
        /\ \A i \in 1..LastCell : i \notin {p - 1, p} =>
                mem'[i] = IF i \in Payload(p, n) THEN Poison ELSE mem[i]
        /\ EndOf(p, c) \in Int /\ p < EndOf(p, c)
        /\ \A i \in Payload(p, n) : i \in Int /\ p <= i /\ i < EndOf(p, c)
  BY PutWrites
<1>10. /\ call'[t].pc = "unlock" /\ call'[t].op = "free"
       /\ call'[t].p = p /\ call'[t].n = n /\ call'[t].h = h
       /\ call' \in [Threads -> CallType]
       /\ \A u \in Threads \ {t} : call'[u] = call[u]
  <2>1. call \in [Threads -> CallType] /\ call[t] \in CallType
    BY DEF HInv, HTyped
  <2>2. PICK x : x = [call[t] EXCEPT !.pc = "unlock"]
    OBVIOUS
  <2>3. /\ x \in CallType /\ x.pc = "unlock" /\ x.op = call[t].op
        /\ x.p = call[t].p /\ x.n = call[t].n /\ x.h = call[t].h
    BY <2>1, <2>2 DEF CallType, Spots
  <2>4. call' = [call EXCEPT ![t] = x]
    BY <1>1, <2>2
  <2>5. /\ call' \in [Threads -> CallType] /\ call'[t] = x
        /\ \A u \in Threads \ {t} : call'[u] = call[u]
    BY ONLY <2>1, <2>3, <2>4
  <2> QED BY <1>1, <2>3, <2>5
<1>11. /\ heap' \in [Heaps -> HeapType] /\ SameChunks
       /\ \A g \in Heaps : heap'[g].lock = heap[g].lock
       /\ heap'[h].heads[c] = p
       /\ \A d \in Classes \ {c} : heap'[h].heads[d] = heap[h].heads[d]
       /\ \A g \in Heaps \ {h} : heap'[g] = heap[g]
  <2>1. -1 \in Int /\ -n \in Int /\ HTyped
    BY HeapAssumption DEF HInv
  <2>2. PICK z \in HeapType :
          /\ z = Counted(h, -1, -n) /\ z.lock = heap[h].lock /\ z.heads = heap[h].heads
          /\ z.cur = heap[h].cur /\ z.end = heap[h].end
    BY <2>1, CountedHeap
  <2>3. PICK y : y = [z EXCEPT !.heads[c] = p]
    OBVIOUS
  <2>4. /\ y \in HeapType /\ y.lock = heap[h].lock /\ y.cur = heap[h].cur /\ y.end = heap[h].end
        /\ y.heads[c] = p /\ \A d \in Classes \ {c} : y.heads[d] = heap[h].heads[d]
    <3>1. p \in 0..LastCell
      BY <1>1
    <3> QED BY <2>2, <2>3, <3>1 DEF HeapType
  <2>5. heap' = [heap EXCEPT ![h] = y]
    BY <1>1, <2>2, <2>3
  <2>6. /\ heap' \in [Heaps -> HeapType] /\ heap'[h] = y /\ SameChunks
        /\ \A g \in Heaps : heap'[g].lock = heap[g].lock
        /\ \A g \in Heaps \ {h} : heap'[g] = heap[g]
    BY ONLY <2>1, h \in Heaps, <2>4, <2>5, CountsSet
  <2> QED BY <2>4, <2>6
<1>12. ~Uses(t)' /\ \A u \in Threads : Filling(u)' = Filling(u) /\ (Filling(u) => call'[u] = call[u] /\ u # t)
  BY <1>1, <1>10 DEF Uses, Filling, At
<1>13. \A u \in Threads \ {t} : Uses(u) => call[u].p # p
  BY <1>1 DEF HInv, OneUser
<1>14. \A u \in Threads : Filling(u) => call[u].p # p
  BY <1>12, <1>13 DEF Uses, Filling
<1>15. /\ Rests' /\ Layout'
       /\ \A q \in 2..LastCell : q # p => Free(q)' = Free(q)
  <2>1. ClassOf(mem'[p - 1].b) = c
    BY <1>1, Stored
  <2>2. \A u \in Threads : Filling(u)' => Filling(u) /\ call'[u].p = call[u].p /\ call'[u].n = call[u].n
    BY <1>12
  <2> QED BY <1>1, <1>11, <1>12, <2>1, <2>2, BlockWrite DEF HInv
<1>16. Free(p)' /\ ~Free(p) /\ mem'[p - 1].a = h /\ ClassOf(mem'[p - 1].b) = c
  <2>1. mem'[p - 1].tag = "FREED" /\ mem'[p - 1].a = h /\ mem'[p - 1].b = n
    BY <1>1, Stored
  <2>2. ~Free(p)
    BY <1>1 DEF LiveAt, Header, Free
  <2> QED BY <1>1, <1>12, <1>14, <2>1, <2>2 DEF Free
<1>17. ASSUME NEW q \in 2..LastCell, q # p, Free(q)
       PROVE  /\ mem'[q - 1] = mem[q - 1] /\ mem'[q] = mem[q]
              /\ WrittenAfterFree(q)' = WrittenAfterFree(q) /\ Free(q)'
  BY <1>1, <1>15, <1>17, OthersFree
<1>18. \A q, g, d : OnList(q, g, d) => OnList(q, g, d)' /\ q # p /\ q \in 2..LastCell
  BY <1>16, <1>17 DEF OnList, Free
<1>19. head # 0 => OnList(head, h, c)
  BY <1>1 DEF HInv, Links
<1>20. ASSUME NEW r \in 2..LastCell, Free(r), mem[r].a # 0 PROVE mem[r].a # head
  <2> SUFFICES ASSUME mem[r].a = head PROVE FALSE
    OBVIOUS
  <2>1. OnList(mem[r].a, mem[r - 1].a, ClassOf(mem[r - 1].b)) /\ head # 0
    BY <1>20 DEF HInv, Links
  <2>2. mem[r - 1].a = h /\ ClassOf(mem[r - 1].b) = c
    BY <1>19, <2>1 DEF OnList
  <2>3. mem[r].a # heap[mem[r - 1].a].heads[ClassOf(mem[r - 1].b)]
    BY <1>20 DEF HInv, Links
  <2> QED BY <1>1, <2>2, <2>3
<1>21. Links'
  <2>1. ASSUME NEW g \in Heaps, NEW d \in Classes, heap'[g].heads[d] # 0
        PROVE  OnList(heap[g].heads[d], g, d)'
    <3>1. CASE g = h /\ d = c
      <4>1. OnList(p, g, d)'
        BY <1>16, <3>1 DEF OnList, Free
      <4> QED BY <1>11, <3>1, <4>1 DEF OnList, Free
    <3>2. CASE ~(g = h /\ d = c)
      <4>1. PICK r : r = heap[g].heads[d] /\ r = heap'[g].heads[d]
        <5>1. heap'[g].heads[d] = heap[g].heads[d]
          <6>1. CASE g = h
            BY ONLY <1>11, <3>2, <6>1, d \in Classes
          <6>2. CASE g # h
            BY ONLY <1>11, <6>2, g \in Heaps
          <6> QED BY ONLY <6>1, <6>2
        <5> QED BY ONLY <5>1
      <4>2. OnList(r, g, d)'
        <5>1. OnList(r, g, d)
          BY <2>1, <4>1 DEF HInv, Links
        <5> QED BY <1>18, <5>1
      <4> QED BY <4>1, <4>2 DEF OnList, Free
    <3> QED BY <3>1, <3>2
  <2>2. ASSUME NEW q \in 2..LastCell, Free(q)'
        PROVE  /\ mem'[q].tag = "link"
               /\ mem'[q].a # 0 => /\ OnList(mem[q].a, mem[q - 1].a, ClassOf(mem[q - 1].b))'
                                   /\ mem'[q].a # heap'[mem'[q - 1].a].heads[ClassOf(mem'[q - 1].b)]
    <3>1. CASE q = p
      <4>1. mem'[q].tag = "link" /\ mem'[q].a = head
        BY <1>1, <3>1, Stored
      <4>2. head # 0 => OnList(head, h, c)' /\ head # p
        BY <1>18, <1>19
      <4>3. head # 0 => OnList(mem[q].a, mem[q - 1].a, ClassOf(mem[q - 1].b))'
        BY <1>16, <3>1, <4>1, <4>2 DEF OnList, Free
      <4> QED BY <1>11, <1>16, <3>1, <4>1, <4>2, <4>3
    <3>2. CASE q # p
      <4>1. Free(q) /\ mem[q - 1].tag = "FREED" /\ q \in 2..LastCell + 1
        BY <1>1, <1>15, <2>2, <3>2 DEF Free
      <4>2. PICK g \in Heaps, d \in Classes : g = mem[q - 1].a /\ d = ClassOf(mem[q - 1].b)
        BY <1>1, <4>1, HeaderBlock
      <4>3. PICK r : r = mem[q].a
        OBVIOUS
      <4>4. mem[q].tag = "link" /\ (r # 0 => OnList(r, g, d) /\ r # heap[g].heads[d])
        BY <4>1, <4>2, <4>3 DEF HInv, Links
      <4>5. mem'[q] = mem[q] /\ mem'[q - 1] = mem[q - 1]
        BY <1>17, <3>2, <4>1
      <4>6. r # 0 => OnList(r, g, d)' /\ r # p
        BY <1>18, <4>4
      <4>7. r # 0 => r # heap'[g].heads[d]
        BY <1>11, <4>4, <4>6
      <4>8. r # 0 => OnList(mem[q].a, mem[q - 1].a, ClassOf(mem[q - 1].b))'
        BY <4>2, <4>3, <4>5, <4>6 DEF OnList, Free
      <4> QED BY <4>2, <4>3, <4>4, <4>5, <4>7, <4>8
    <3> QED BY <3>1, <3>2
  <2>3. ASSUME NEW q \in 2..LastCell, NEW r \in 2..LastCell, Free(q)', Free(r)', q # r, mem'[q].a # 0
        PROVE  mem'[q].a # mem'[r].a
    <3>1. CASE q # p /\ r # p
      <4>1. Free(q) /\ Free(r)
        BY <1>15, <2>3, <3>1
      <4> QED BY <1>17, <2>3, <3>1, <4>1 DEF HInv, Links
    <3>2. CASE q = p /\ r # p
      <4>1. mem'[q].a = head /\ Free(r)
        <5>1. mem'[q].a = head
          BY <1>1, <3>2, Stored
        <5>2. Free(r)
          BY <1>15, <2>3, <3>2
        <5> QED BY ONLY <5>1, <5>2
      <4>2. mem'[r] = mem[r]
        BY <1>17, <3>2, <4>1
      <4> QED BY <1>20, <2>3, <4>1, <4>2
    <3>3. CASE q # p /\ r = p
      <4>1. mem'[r].a = head /\ Free(q)
        <5>1. mem'[r].a = head
          BY <1>1, <3>3, Stored
        <5>2. Free(q)
          BY <1>15, <2>3, <3>3
        <5> QED BY ONLY <5>1, <5>2
      <4>2. mem'[q] = mem[q]
        BY <1>17, <3>3, <4>1
      <4> QED BY <1>20, <2>3, <4>1, <4>2
    <3> QED BY <2>3, <3>1, <3>2, <3>3
  <2>4. ASSUME NEW g \in Heaps, NEW d \in Classes, NEW S \in SUBSET (2..LastCell), Covers(S, g, d)',
               NEW q \in 2..LastCell, OnList(q, g, d)'
        PROVE  q \in S
    <3>1. heap[g].heads[d] \in S \cup {0} /\ (g = h /\ d = c => p \in S)
      <4>1. CASE g = h /\ d = c
        <5>1. p \in S
          <6>1. heap'[g].heads[d] \in S \cup {0}
            BY <2>4 DEF Covers
          <6>2. heap'[g].heads[d] = p
            BY ONLY <1>11, <4>1
          <6>3. p # 0
            BY ONLY p \in 2..LastCell
          <6> QED BY ONLY <6>1, <6>2, <6>3
        <5>2. OnList(p, g, d)'
          BY <1>16, <4>1 DEF OnList, Free
        <5>3. mem'[p].a \in S \cup {0}
          BY <2>4, <5>1, <5>2 DEF Covers
        <5> QED BY <1>1, <4>1, <5>1, <5>3, Stored
      <4>2. CASE ~(g = h /\ d = c)
        BY <1>11, <2>4, <4>2 DEF Covers
      <4> QED BY <4>1, <4>2
    <3>2. ASSUME NEW r \in S, OnList(r, g, d) PROVE mem[r].a \in S \cup {0}
      <4>1. OnList(r, g, d)' /\ r # p /\ Free(r)
        BY <1>18, <3>2 DEF OnList
      <4>2. mem'[r].a \in S \cup {0}
        BY <2>4, <4>1 DEF Covers
      <4> QED BY <1>17, <4>1, <4>2
    <3>3. Covers(S, g, d)
      BY <3>1, <3>2 DEF Covers
    <3>4. CASE q = p
      <4>1. g = h /\ d = c
        BY <1>16, <2>4, <3>4 DEF OnList
      <4> QED BY <3>1, <3>4, <4>1
    <3>5. CASE q # p
      <4>1. Free(q)
        BY <1>15, <2>4, <3>5 DEF OnList
      <4>2. OnList(q, g, d)
        BY <1>17, <2>4, <3>5, <4>1 DEF OnList
      <4> QED BY <3>3, <4>2 DEF HInv, Links
    <3> QED BY <3>4, <3>5
  <2> QED BY <2>1, <2>2, <2>3, <2>4 DEF Links
<1>22. Junk'
  <2>1. ~WrittenAfterFree(p)'
    <3>1. mem'[p - 1].b = n
      BY <1>1, Stored
    <3>2. ASSUME NEW i \in Payload(p, n) \ {p} PROVE mem'[i] = Poison
      <4>1. i \in 1..LastCell /\ i \notin {p - 1, p}
        <5>1. EndOf(p, c) <= LastCell + 1
          BY <1>1, BlockSpan
        <5> QED BY <1>1, <5>1
      <4> QED BY <1>1, <4>1
    <3> QED BY <3>1, <3>2 DEF WrittenAfterFree, Payload
  <2>2. p \notin dirty
    BY <1>16 DEF HInv, Junk
  <2>3. ASSUME NEW q \in 2..LastCell, Free(q)' PROVE q \in dirty' <=> WrittenAfterFree(q)'
    <3>1. CASE q = p
      <4>1. ~WrittenAfterFree(q)'
        BY <2>1, <3>1 DEF WrittenAfterFree
      <4> QED BY <1>1, <2>2, <3>1, <4>1
    <3>2. CASE q # p
      BY <1>1, <1>15, <1>17, <2>3, <3>2 DEF HInv, Junk
    <3> QED BY <3>1, <3>2
  <2>4. \A q \in dirty' : Free(q)'
    <3>1. \A q \in dirty : Free(q) /\ q \in 2..LastCell /\ q # p
      BY <2>2 DEF HInv, Junk, Free
    <3> QED BY <1>1, <1>17, <3>1
  <2> QED BY <1>1, <2>3, <2>4 DEF HInv, Junk
<1>23. HTyped'
  BY <1>1, <1>10, <1>11 DEF HInv, HTyped
<1>24. Locks'
  <2> SUFFICES ASSUME NEW u \in Threads, call'[u].pc \in Inside PROVE heap'[call'[u].h].lock = u
    BY DEF Locks
  <2>1. call[u].h = call'[u].h /\ call[u].pc \in Inside
    BY <1>1, <1>10 DEF At, Inside
  <2>2. heap[call[u].h].lock = u
    BY <2>1 DEF HInv, Locks
  <2>3. call[u].h \in Heaps
    BY <2>1 DEF HInv, HTyped, Inside
  <2> QED BY ONLY <1>11, <2>1, <2>2, <2>3
<1>25. \A b \in held : b.p # p /\ LiveAt(b.p, b.h, b.n)'
  <2>1. ASSUME NEW b \in held PROVE b.p # p /\ LiveAt(b.p, b.h, b.n)'
    <3>1. b.p # p
      BY <1>1 DEF HInv, OneUser
    <3> QED BY <1>1, <3>1, OthersHeld
  <2> QED BY <2>1
<1>26. \A u \in Threads \ {t} :
         /\ Uses(u)' = Uses(u)
         /\ Filling(u)' => call'[u].p \in 2..LastCell /\ mem'[call'[u].p - 1].tag # "LIVE"
         /\ call'[u].op = "raw" /\ call'[u].pc = "unlock" => Mine(u)'
         /\ call'[u].op = "raw" => call'[u].pc \in {"idle", "lock", "take", "fill", "unlock"}
         /\ call'[u].op = "free" => call'[u].pc \in {"check", "lock", "put", "unlock"}
         /\ call'[u].op = "free" /\ call'[u].pc \in {"lock", "put"} => Mine(u)'
         /\ call'[u].pc = "check" => call'[u].p \in 2..LastCell /\ (Mine(u)' \/ Careless)
         /\ u \in Giving' /\ call'[u].pc = "unlock" =>
              \A i \in Payload(call'[u].p, call'[u].n) : mem'[i] = Zero
  BY <1>1, <1>10, <1>13, OthersKept, ZenonT(40)
<1>27. Owners'
  <2>1. \A b \in held' : LiveAt(b.p, b.h, b.n)'
    BY <1>1, <1>25 DEF LiveAt
  <2> QED BY <1>10, <1>12, <1>26, <2>1 DEF Owners
<1>28. ReturnsZeroed'
  BY <1>10, <1>26 DEF ReturnsZeroed, Giving, Payload
<1>29. OneUser'
  <2>2. \A u, v \in Threads : Uses(u)' /\ Uses(v)' /\ u # v => call'[u].p # call'[v].p
    BY <1>10, <1>12, <1>26 DEF HInv, OneUser
  <2>3. \A u \in Threads, b \in held' : Uses(u)' => call'[u].p # b.p
    BY <1>1, <1>10, <1>12, <1>26 DEF HInv, OneUser
  <2>4. ASSUME NEW q \in 2..LastCell, mem'[q - 1].tag = "LIVE"
        PROVE  (\E b \in held' : b.p = q) \/ \E u \in Threads : Uses(u)' /\ call'[u].p = q
    <3>1. q # p /\ q \in 2..LastCell + 1
      BY <1>1, <2>4, Stored
    <3>2. mem[q - 1].tag = "LIVE"
      BY <1>1, <2>4, <3>1, OtherBlocks
    <3>3. (\E b \in held : b.p = q) \/ \E u \in Threads : Uses(u) /\ call[u].p = q
      BY <3>2 DEF HInv, OneUser
    <3> QED BY <1>1, <1>10, <1>26, <3>1, <3>3
  <2> QED BY <2>2, <2>3, <2>4 DEF OneUser
<1>30. Fails'
  BY <1>1 DEF HInv, Fails
<1> QED BY <1>15, <1>21, <1>22, <1>23, <1>24, <1>27, <1>28, <1>29, <1>30 DEF HInv

\* The program writes into a block, and leaves every header as it is.
LEMMA ProgramWrites ==
  ASSUME HInv, NEW t \in Threads, NEW p \in 2..LastCell, NEW c \in Classes, IsBlock(p, c), WritesBlock(p, c),
         mem' \in [1..LastCell -> Cell], mem'[p - 1] = mem[p - 1], UNCHANGED <<brk, heap, call, held, stale, stopped>>,
         dirty' \subseteq 2..LastCell,
         \A u \in Threads : Uses(u) => call[u].p # p
  PROVE  HTyped' /\ Locks' /\ Owners' /\ OneUser' /\ ReturnsZeroed' /\ Fails'
<1>0. LastCell \in Nat /\ HTyped /\ Layout
  BY HeapAssumption DEF HInv
<1>1. \A q \in 2..LastCell : \A h, n : LiveAt(q, h, n)' = LiveAt(q, h, n)
  <2>1. \A h, n : LiveAt(p, h, n)' = LiveAt(p, h, n)
    BY DEF LiveAt
  <2>2. ASSUME NEW q \in 2..LastCell, q # p, NEW h, NEW n PROVE LiveAt(q, h, n)' = LiveAt(q, h, n)
    BY <1>0, <2>2, OtherLive
  <2>3. ASSUME NEW q \in 2..LastCell, NEW h, NEW n PROVE LiveAt(q, h, n)' = LiveAt(q, h, n)
    <3>1. CASE q = p
      BY <2>1, <3>1 DEF LiveAt
    <3> QED BY <2>2, <3>1
  <2> QED BY <2>3
<1>2. \A q, h, n : LiveAt(q, h, n)' = LiveAt(q, h, n)
  BY <1>1 DEF LiveAt
<1>3. \A u \in Threads : Mine(u)' = Mine(u) /\ Uses(u)' = Uses(u) /\ Filling(u)' = Filling(u)
  BY <1>2 DEF Mine, Uses, Filling, LiveAt
<1>4. HTyped'
  BY <1>0 DEF HTyped
<1>5. Locks'
  BY DEF HInv, Locks
<1>6. \A u \in Threads : Uses(u) => /\ mem'[call[u].p - 1] = mem[call[u].p - 1]
                                    /\ \A i \in Payload(call[u].p, call[u].n) : mem'[i] = mem[i]
  BY OtherUser
<1>7. Owners'
  <2>1. \A b \in held' : LiveAt(b.p, b.h, b.n)'
    BY <1>2 DEF HInv, Owners, LiveAt
  <2>2. \A u \in Threads : Filling(u)' => call'[u].p \in 2..LastCell /\ mem'[call'[u].p - 1].tag # "LIVE"
    BY <1>3, <1>6 DEF HInv, Owners, Uses, Filling
  <2> QED BY <1>3, <2>1, <2>2 DEF HInv, Owners
<1>8. OneUser'
  <2>1. ASSUME NEW q \in 2..LastCell, mem'[q - 1].tag = "LIVE"
        PROVE  (\E b \in held' : b.p = q) \/ \E u \in Threads : Uses(u)' /\ call'[u].p = q
    <3>1. q \in 2..LastCell + 1
      BY <1>0
    <3>2. mem[q - 1].tag = "LIVE"
      BY <1>0, <2>1, <3>1, OtherBlocks
    <3> QED BY <1>3, <3>2 DEF HInv, OneUser
  <2> QED BY <1>3, <2>1 DEF HInv, OneUser
<1>9. ReturnsZeroed'
  BY <1>6 DEF HInv, ReturnsZeroed, Giving, Uses, Payload
<1>10. Fails'
  BY DEF HInv, Fails
<1> QED BY <1>4, <1>5, <1>7, <1>8, <1>9, <1>10

\* A program writes inside a block it holds.
LEMMA HeldWrites ==
  ASSUME HInv, NEW t \in Threads, WriteHeld(t)
  PROVE  \E p \in 2..LastCell, n \in Requests, c \in Classes :
        /\ \E b \in held : p = b.p /\ n = b.n
        /\ UNCHANGED <<brk, heap, call, held, stale, dirty, stopped>>
        /\ LastCell \in Nat /\ HTyped /\ Layout /\ p \in 2..LastCell + 1 /\ p - 1 \in 1..LastCell
        /\ mem[p - 1].tag = "LIVE" /\ mem[p - 1].b = n
        /\ c = ClassOf(n) /\ IsBlock(p, c)
        /\ mem' \in [1..LastCell -> Cell] /\ WritesBlock(p, c) /\ mem'[p - 1] = mem[p - 1]
<1>0. LastCell \in Nat /\ HTyped /\ Layout
  BY HeapAssumption DEF HInv
<1>1. PICK b \in held : mem' = Store(Payload(b.p, b.n), Data)
  BY DEF WriteHeld
<1>2. UNCHANGED <<brk, heap, call, held, stale, dirty, stopped>>
  BY DEF WriteHeld
<1>3. PICK p \in 2..LastCell, n \in Requests : p = b.p /\ n = b.n
  BY <1>0 DEF HTyped, BlockType
<1>4. mem[p - 1].tag = "LIVE" /\ mem[p - 1].b = n /\ p \in 2..LastCell + 1 /\ p - 1 \in 1..LastCell
  <2>1. mem[p - 1] = Header("LIVE", b.h, n)
    BY <1>3 DEF HInv, Owners, LiveAt
  <2> QED BY <1>0, <2>1 DEF Header
<1>5. PICK c \in Classes : c = ClassOf(n) /\ IsBlock(p, c)
  BY <1>0, <1>4, HeaderBlock
<1>6. /\ \A i \in 1..LastCell : mem'[i] = IF i \in Payload(p, n) THEN Data ELSE mem[i]
      /\ mem' \in [1..LastCell -> Cell]
  <2>1. mem \in [1..LastCell -> Cell] /\ DOMAIN mem = 1..LastCell
    BY <1>0 DEF HTyped
  <2> QED BY <1>1, <1>3, <2>1, Stored DEF Store
<1>7. \A i \in Payload(p, n) : p <= i /\ i < EndOf(p, c)
  BY <1>5, PayloadFits
<1>8. WritesBlock(p, c) /\ mem'[p - 1] = mem[p - 1]
  <2>1. p - 1 \notin Payload(p, n)
    BY <1>4, <1>7
  <2>2. \A i \in 1..LastCell : \/ mem'[i] = mem[i] \/ i = p - 1
                               \/ p <= i /\ i < EndOf(p, c) /\ mem'[i].tag \notin {"LIVE", "FREED"}
    BY <1>6, <1>7, Stored
  <2> QED BY <1>0, <1>4, <1>5, <1>6, <2>1, <2>2, WritesInside
<1> QED BY <1>0, <1>1, <1>2, <1>3, <1>4, <1>5, <1>6, <1>7, <1>8

LEMMA WriteHeldStep ==
  ASSUME HInv, NEW t \in Threads, WriteHeld(t)
  PROVE  HInv'
<1>0. PICK p \in 2..LastCell, n \in Requests, c \in Classes :
        /\ \E b \in held : p = b.p /\ n = b.n
        /\ UNCHANGED <<brk, heap, call, held, stale, dirty, stopped>>
        /\ LastCell \in Nat /\ HTyped /\ Layout /\ p \in 2..LastCell + 1 /\ p - 1 \in 1..LastCell
        /\ mem[p - 1].tag = "LIVE" /\ mem[p - 1].b = n
        /\ c = ClassOf(n) /\ IsBlock(p, c)
        /\ mem' \in [1..LastCell -> Cell] /\ WritesBlock(p, c) /\ mem'[p - 1] = mem[p - 1]
  BY HeldWrites
<1>9. SameHeaps /\ \A u \in Threads : Filling(u)' = Filling(u)
  BY <1>0 DEF SameHeaps, SameChunks, SameHeads, Filling
<1>10. ~Free(p) /\ ~Free(p)'
  BY <1>0 DEF Free
<1>11. mem'[p - 1].tag \in {"LIVE", "FREED"} => ClassOf(mem'[p - 1].b) = c
  BY <1>0
<1>12. Rests' /\ Layout' /\ Links' /\ Junk'
  BY <1>0, <1>9, <1>10, <1>11, OwnWrite DEF HInv
<1>13. \A u \in Threads : Uses(u) => call[u].p # p
  BY <1>0 DEF HInv, OneUser
<1>14. HTyped' /\ Locks' /\ Owners' /\ OneUser' /\ ReturnsZeroed' /\ Fails'
  <2>1. dirty' \subseteq 2..LastCell
    BY <1>0 DEF HTyped
  <2> QED BY <1>0, <1>13, <2>1, ProgramWrites
<1> QED BY <1>12, <1>14 DEF HInv

\* A write after free lies in the block it is meant for, past its link.
LEMMA FreedWrites ==
  ASSUME HInv, Detectable, NEW t \in Threads, WriteFreed(t)
  PROVE  \E p \in 2..LastCell, c \in Classes, i \in 1..LastCell, b \in stale :
        /\ Dead(b) /\ p = b.p /\ mem[p - 1].tag = "FREED" /\ dirty' = dirty \cup {p}
        /\ UNCHANGED <<brk, heap, call, held, stale, stopped>>
        /\ LastCell \in Nat /\ HTyped /\ Layout /\ p - 1 \in 1..LastCell
        /\ i # p /\ i \in Payload(p, mem[p - 1].b) /\ "write" \in Misuse /\ mem'[i] = Data
        /\ Free(p) /\ IsBlock(p, c) /\ c = ClassOf(mem[p - 1].b) /\ mem[p - 1].b \in Requests
        /\ mem' \in [1..LastCell -> Cell] /\ WritesBlock(p, c)
        /\ mem'[p - 1] = mem[p - 1] /\ mem'[p] = mem[p]
<1>0. LastCell \in Nat /\ HTyped /\ Layout
  BY HeapAssumption DEF HInv
<1>1. PICK b \in stale : \E i \in Payload(b.p, b.n) :
        /\ Dead(b) /\ mem[b.p - 1].tag = "FREED" /\ KindOfWrite(b.p, i) \in Misuse
        /\ mem' = [mem EXCEPT ![i] = Data] /\ dirty' = dirty \cup {b.p}
  BY DEF WriteFreed
<1>2. PICK p \in 2..LastCell : p = b.p
  BY <1>0 DEF HTyped, BlockType
<1>3. PICK i : /\ Dead(b) /\ mem[p - 1].tag = "FREED" /\ KindOfWrite(p, i) \in Misuse
               /\ mem' = [mem EXCEPT ![i] = Data] /\ dirty' = dirty \cup {p}
  BY <1>1, <1>2
<1>4. UNCHANGED <<brk, heap, call, held, stale, stopped>>
  BY DEF WriteFreed
<1>5. i # p /\ i \in Payload(p, mem[p - 1].b) /\ "write" \in Misuse
  BY <1>3 DEF KindOfWrite, Detectable
<1>6. Free(p)
  BY <1>2, <1>3 DEF Free, Dead, Filling
<1>7. PICK c \in Classes :
           /\ IsBlock(p, c) /\ c = ClassOf(mem[p - 1].b) /\ mem[p - 1].b \in Requests
           /\ p - 1 \in 1..LastCell /\ p < EndOf(p, c)
           /\ \A j \in Payload(p, mem[p - 1].b) : j \in 1..LastCell /\ p <= j /\ j < EndOf(p, c)
  BY <1>0, <1>6, FreeSpan
<1>8. /\ i \in 1..LastCell /\ p <= i /\ i < EndOf(p, c) /\ i # p - 1
      /\ \A j \in 1..LastCell : mem'[j] = IF j = i THEN Data ELSE mem[j]
      /\ mem' \in [1..LastCell -> Cell]
  <2>1. mem \in [1..LastCell -> Cell]
    BY <1>0 DEF HTyped
  <2>2. i \in 1..LastCell /\ p <= i /\ i < EndOf(p, c)
    BY <1>5, <1>7
  <2> QED BY <1>3, <2>1, <2>2, Stored
<1>9. WritesBlock(p, c) /\ mem'[p - 1] = mem[p - 1] /\ mem'[p] = mem[p]
  <2>1. \A j \in 1..LastCell : \/ mem'[j] = mem[j] \/ j = p - 1
                               \/ p <= j /\ j < EndOf(p, c) /\ mem'[j].tag \notin {"LIVE", "FREED"}
    BY <1>8, Stored
  <2>2. p \in 1..LastCell
    BY <1>0
  <2> QED BY <1>0, <1>5, <1>7, <1>8, <2>1, <2>2, WritesInside
<1> QED BY <1>0, <1>1, <1>2, <1>3, <1>4, <1>5, <1>6, <1>7, <1>8, <1>9

LEMMA WriteFreedStep ==
  ASSUME HInv, Detectable, NEW t \in Threads, WriteFreed(t)
  PROVE  HInv'
<1>0. PICK p \in 2..LastCell, c \in Classes, i \in 1..LastCell, b \in stale :
        /\ Dead(b) /\ p = b.p /\ mem[p - 1].tag = "FREED" /\ dirty' = dirty \cup {p}
        /\ UNCHANGED <<brk, heap, call, held, stale, stopped>>
        /\ LastCell \in Nat /\ HTyped /\ Layout /\ p - 1 \in 1..LastCell
        /\ i # p /\ i \in Payload(p, mem[p - 1].b) /\ "write" \in Misuse /\ mem'[i] = Data
        /\ Free(p) /\ IsBlock(p, c) /\ c = ClassOf(mem[p - 1].b) /\ mem[p - 1].b \in Requests
        /\ mem' \in [1..LastCell -> Cell] /\ WritesBlock(p, c)
        /\ mem'[p - 1] = mem[p - 1] /\ mem'[p] = mem[p]
  BY FreedWrites
<1>10. SameChunks /\ SameHeads /\ \A u \in Threads : Filling(u)' = Filling(u)
  BY <1>0 DEF SameChunks, SameHeads, Filling
<1>11. ClassOf(mem'[p - 1].b) = c
  BY <1>0
<1>12. /\ Rests' /\ Layout'
       /\ \A q \in 2..LastCell : q # p => Free(q)' = Free(q)
  BY <1>0, <1>10, <1>11, BlockWrite DEF HInv
<1>13. Free(p)'
  BY <1>0, <1>10 DEF Free
<1>14. \A q \in 2..LastCell : Free(q)' = Free(q)
  <2>1. ASSUME NEW q \in 2..LastCell, q = p PROVE Free(q) /\ Free(q)'
    BY <1>0, <1>13, <2>1 DEF Free
  <2>2. ASSUME NEW q \in 2..LastCell, q = p PROVE Free(q)' = Free(q)
    BY <2>1, <2>2 DEF Free
  <2> QED BY <1>12, <2>2
<1>15. ASSUME NEW q \in 2..LastCell, q # p, Free(q)
       PROVE  /\ mem'[q - 1] = mem[q - 1] /\ mem'[q] = mem[q]
              /\ WrittenAfterFree(q)' = WrittenAfterFree(q)
  BY <1>0, <1>15, OthersFree
<1>16. Links'
  <2>1. \A q \in 2..LastCell : Free(q) => mem'[q - 1] = mem[q - 1] /\ mem'[q] = mem[q]
    BY <1>0, <1>15
  <2> QED BY <1>0, <1>10, <1>14, <2>1, LinksKept DEF HInv
<1>17. Junk'
  <2>1. WrittenAfterFree(p)'
    <3>1. i \in Payload(p, mem'[p - 1].b) \ {p} /\ mem'[i] # Poison
      BY <1>0, Stored
    <3> QED BY <3>1 DEF WrittenAfterFree, Payload
  <2>2. ASSUME NEW q \in 2..LastCell, Free(q)' PROVE q \in dirty' <=> WrittenAfterFree(q)'
    <3>1. CASE q = p
      <4>1. WrittenAfterFree(q)'
        BY <2>1, <3>1 DEF WrittenAfterFree
      <4> QED BY <1>0, <3>1, <4>1
    <3>2. CASE q # p
      BY <1>0, <1>14, <1>15, <2>2, <3>2 DEF HInv, Junk
    <3> QED BY <3>1, <3>2
  <2>3. \A q \in dirty' : Free(q)'
    <3>1. \A q \in dirty : Free(q) /\ q \in 2..LastCell
      BY DEF HInv, Junk, Free
    <3>2. ASSUME NEW q \in dirty' PROVE Free(q)'
      <4>1. CASE q = p
        BY <1>13, <4>1 DEF Free
      <4>2. CASE q # p
        BY <1>0, <1>14, <3>1, <4>2
      <4> QED BY <4>1, <4>2
    <3> QED BY <3>2
  <2> QED BY <1>0, <2>2, <2>3 DEF Junk
<1>18. \A u \in Threads : Uses(u) => call[u].p # p
  <2>1. ASSUME NEW u \in Threads, Uses(u) PROVE call[u].p # p
    <3>1. CASE call[u].op = "raw"
      BY <1>0, <3>1 DEF Dead
    <3>2. CASE call[u].op # "raw"
      <4>1. mem[call[u].p - 1].tag = "LIVE"
        BY <2>1, <3>2 DEF Uses, Mine, LiveAt, Header
      <4> QED BY <1>0, <4>1
    <3> QED BY <3>1, <3>2
  <2> QED BY <2>1
<1>19. HTyped' /\ Locks' /\ Owners' /\ OneUser' /\ ReturnsZeroed' /\ Fails'
  <2>1. dirty' \subseteq 2..LastCell
    BY <1>0 DEF HTyped
  <2> QED BY <1>0, <1>18, <2>1, ProgramWrites
<1> QED BY <1>12, <1>16, <1>17, <1>19 DEF HInv

-----------------------------------------------------------------------------
(***************************************************************************)
(* The invariant holds, and what follows from it.                          *)
(***************************************************************************)
LEMMA HeapStarts == Init => HInv
<1> SUFFICES ASSUME Init PROVE HInv
  OBVIOUS
<1>1. LastCell \in Nat /\ Zero.tag = "zero"
  BY HeapAssumption DEF Zero
<1>2. \A i \in 1..LastCell : mem[i].tag = "zero"
  BY <1>1 DEF Init
<1>3. \A t \in Threads : call[t] = Idle /\ call[t].pc = "idle" /\ call[t].op = "raw"
  BY DEF Init, Idle
<1>4. \A p \in 2..LastCell + 1 : p - 1 \in 1..LastCell /\ mem[p - 1].tag = "zero"
  BY <1>1, <1>2
<1>5. HTyped
  <2>1. mem \in [1..LastCell -> Cell]
    BY Stored DEF Init
  <2>2. Idle \in CallType
    BY <1>1 DEF Idle, CallType, Spots
  <2>3. call \in [Threads -> CallType]
    BY <2>2 DEF Init
  <2>4. heap \in [Heaps -> HeapType]
    BY <1>1 DEF Init, HeapType
  <2> QED BY <1>1, <1>3, <2>1, <2>3, <2>4 DEF Init, HTyped
<1>6. Locks
  BY <1>3 DEF Locks, Inside
<1>7. Rests
  BY DEF Rests, Init
<1>8. \A p, c : ~IsBlock(p, c)
  BY <1>3, <1>4 DEF IsBlock, Filling
<1>9. Layout
  BY <1>8 DEF Layout
<1>10. Owners
  BY <1>3 DEF Owners, Filling, Init
<1>11. \A t \in Threads : ~Uses(t)
  BY <1>3 DEF Uses
<1>12. \A q \in 2..LastCell : mem[q - 1].tag = "zero"
  BY <1>1, <1>4
<1>13. OneUser
  BY <1>11, <1>12 DEF OneUser, Init
<1>14. \A q : ~Free(q)
  BY <1>12 DEF Free
<1>15. Links
  BY <1>14 DEF Links, OnList, Init
<1>16. Junk
  BY <1>14 DEF Junk, Init
<1>17. ReturnsZeroed
  BY <1>3 DEF ReturnsZeroed, Giving
<1>18. Fails
  BY DEF Fails, Init
<1> QED BY <1>5, <1>6, <1>7, <1>9, <1>10, <1>13, <1>15, <1>16, <1>17, <1>18 DEF HInv

\* Every step keeps the invariant.
LEMMA HeapSteps ==
  ASSUME Detectable
  PROVE  HInv /\ [Next]_vars => HInv'
<1> SUFFICES ASSUME HInv, [Next]_vars PROVE HInv'
  OBVIOUS
<1>1. ASSUME NEW t \in Threads, CallRaw(t) PROVE HInv'
  BY <1>1, CallRawStep
<1>2. ASSUME NEW t \in Threads, LockHeap(t) PROVE HInv'
  BY <1>2, LockHeapStep
<1>3. ASSUME NEW t \in Threads, TakeFreed(t) PROVE HInv'
  BY <1>3, TakeFreedStep
<1>4. ASSUME NEW t \in Threads, Carve(t) PROVE HInv'
  BY <1>4, CarveStep
<1>5. ASSUME NEW t \in Threads, Fill(t) PROVE HInv'
  BY <1>5, FillStep
<1>6. ASSUME NEW t \in Threads, UnlockHeap(t) PROVE HInv'
  BY <1>6, UnlockHeapStep
<1>7. ASSUME NEW t \in Threads, NEW b \in held, CallFree(t, b) PROVE HInv'
  BY <1>7, CallFreeStep DEF HInv, HTyped
<1>8. ASSUME NEW t \in Threads, CheckFree(t) PROVE HInv'
  BY <1>8, CheckFreeStep
<1>9. ASSUME NEW t \in Threads, Put(t) PROVE HInv'
  BY <1>9, PutStep
<1>10. ASSUME NEW t \in Threads, WriteHeld(t) PROVE HInv'
  BY <1>10, WriteHeldStep
<1>11. ASSUME NEW t \in Threads, FreeAgain(t) PROVE HInv'
  BY <1>11, FreeAgainStep
<1>12. ASSUME NEW t \in Threads, FreeWrong(t) PROVE HInv'
  BY <1>12, FreeWrongStep
<1>13. ASSUME NEW t \in Threads, WriteFreed(t) PROVE HInv'
  BY <1>13, WriteFreedStep
<1>14. CASE UNCHANGED vars
  BY <1>14, StopStep DEF vars, HInv, Fails
<1> QED
  BY <1>1, <1>2, <1>3, <1>4, <1>5, <1>6, <1>7, <1>8, <1>9, <1>10, <1>11, <1>12, <1>13, <1>14 DEF Next

\* The invariant of std/heap, for a program whose misuse the code detects.
THEOREM HeapInvariant ==
  ASSUME Detectable
  PROVE  Spec => []HInv
<1>1. Init => HInv
  BY HeapStarts
<1>2. HInv /\ [Next]_vars => HInv'
  BY HeapSteps
<1> QED BY <1>1, <1>2, PTL DEF Spec

\* No two users' blocks share a cell; each block is an interval of the memory.
UsersApart ==
  /\ \A b, d \in held : b # d => Extent(b) \cap Extent(d) = {}
  /\ \A t \in Threads, b \in held : Uses(t) => Extent(BlockOf(t)) \cap Extent(b) = {}
  /\ \A t, u \in Threads : Uses(t) /\ Uses(u) /\ t # u => Extent(BlockOf(t)) \cap Extent(BlockOf(u)) = {}
  /\ \A b \in held : Extent(b) # {}
  /\ \A t \in Threads : Uses(t) =>
       Extent(BlockOf(t)) # {} /\ \E first, last \in 1..LastCell : Extent(BlockOf(t)) = first..last

LEMMA UsersAreApart == HInv => UsersApart
<1> SUFFICES ASSUME HInv PROVE UsersApart
  OBVIOUS
<1>0. LastCell \in Nat /\ HTyped /\ Layout
  BY HeapAssumption DEF HInv
<1> DEFINE Fits(p, n) == p \in 2..LastCell /\ n \in Requests /\ IsBlock(p, ClassOf(n))
<1>1. ASSUME NEW p, NEW n, Fits(p, n)
      PROVE  /\ p \in 2..LastCell + 1 /\ ClassOf(n) \in Classes
             /\ EndOf(p, ClassOf(n)) \in Int /\ p < EndOf(p, ClassOf(n)) /\ EndOf(p, ClassOf(n)) <= LastCell + 1
  <2>1. p \in 2..LastCell + 1 /\ ClassOf(n) \in Classes
    BY <1>0, <1>1, ClassFits
  <2> QED BY <1>0, <1>1, <2>1, BlockSpan
<1>2. ASSUME NEW b, Fits(b.p, b.n)
      PROVE  /\ Extent(b) = b.p - 1 .. EndOf(b.p, ClassOf(b.n)) - 1
             /\ Extent(b) # {} /\ \E first, last \in 1..LastCell : Extent(b) = first..last
  <2>1. Extent(b) = b.p - 1 .. EndOf(b.p, ClassOf(b.n)) - 1
    <3>1. b.p \in Int /\ ClassCells[ClassOf(b.n)] \in Int
      BY <1>0, <1>2, ClassFits
    <3>2. PICK p \in Int, m \in Int : p = b.p /\ m = ClassCells[ClassOf(b.n)]
      BY <3>1
    <3>3. p + (m - 1) = (p + m) - 1
      OBVIOUS
    <3> QED BY <3>2, <3>3 DEF Extent, EndOf
  <2>2. b.p - 1 \in 1..LastCell /\ EndOf(b.p, ClassOf(b.n)) - 1 \in 1..LastCell
    BY <1>0, <1>1, <1>2
  <2>3. b.p - 1 <= EndOf(b.p, ClassOf(b.n)) - 1
    BY <1>0, <1>1, <1>2
  <2>4. b.p - 1 \in Extent(b)
    BY <2>1, <2>2, <2>3
  <2> QED BY <2>1, <2>2, <2>4
<1>3. ASSUME NEW b, NEW d, Fits(b.p, b.n), Fits(d.p, d.n), b.p # d.p
      PROVE  Extent(b) \cap Extent(d) = {}
  <2>1. Apart(b.p, ClassOf(b.n), d.p, ClassOf(d.n))
    BY <1>0, <1>1, <1>3 DEF Layout
  <2> HIDE DEF Fits
  <2>2. PICK p \in Int, q \in Int, e \in Int, f \in Int :
          p = b.p /\ q = d.p /\ e = EndOf(b.p, ClassOf(b.n)) /\ f = EndOf(d.p, ClassOf(d.n))
    <3>1. b.p \in Int /\ d.p \in Int
      BY <1>0, <1>3 DEF Fits
    <3> QED BY <1>1, <1>3, <3>1
  <2>3. e <= q - 1 \/ f <= p - 1
    BY <2>1, <2>2 DEF Apart
  <2>4. Extent(b) = p - 1 .. e - 1 /\ Extent(d) = q - 1 .. f - 1
    BY <1>2, <1>3, <2>2
  <2> QED BY <2>3, <2>4
<1>4. ASSUME NEW b \in held PROVE Fits(b.p, b.n) /\ b = [h |-> b.h, p |-> b.p, n |-> b.n]
  <2>1. b \in BlockType /\ mem[b.p - 1] = Header("LIVE", b.h, b.n)
    BY <1>0 DEF HInv, HTyped, Owners, LiveAt
  <2>2. b.p \in 2..LastCell /\ b.p \in 2..LastCell + 1 /\ b.n \in Requests
    BY <1>0, <2>1 DEF BlockType
  <2>3. mem[b.p - 1].tag = "LIVE" /\ mem[b.p - 1].b = b.n
    BY <2>1 DEF Header
  <2> QED BY <2>1, <2>2, <2>3 DEF IsBlock, BlockType
<1>5. ASSUME NEW t \in Threads, Uses(t)
      PROVE  Fits(BlockOf(t).p, BlockOf(t).n) /\ BlockOf(t).p = call[t].p
  BY <1>5, UsedBlock DEF BlockOf
<1>6. ASSUME NEW b \in held, NEW d \in held, b # d PROVE b.p # d.p
  <2>1. mem[b.p - 1] = Header("LIVE", b.h, b.n) /\ mem[d.p - 1] = Header("LIVE", d.h, d.n)
    BY DEF HInv, Owners, LiveAt
  <2>2. b.p = d.p => b.h = d.h /\ b.n = d.n
    BY <2>1 DEF Header
  <2> QED BY <1>4, <1>6, <2>2
<1> HIDE DEF Fits
<1>7. \A b, d \in held : b # d => Extent(b) \cap Extent(d) = {}
  BY <1>3, <1>4, <1>6
<1>8. \A t \in Threads, b \in held : Uses(t) => Extent(BlockOf(t)) \cap Extent(b) = {}
  BY <1>3, <1>4, <1>5 DEF HInv, OneUser
<1>9. \A t, u \in Threads : Uses(t) /\ Uses(u) /\ t # u => Extent(BlockOf(t)) \cap Extent(BlockOf(u)) = {}
  BY <1>3, <1>5 DEF HInv, OneUser
<1> QED BY <1>2, <1>4, <1>5, <1>7, <1>8, <1>9 DEF UsersApart

\* raw never hands a block out twice (raw and free_raw, heap.aipl:76, :136).
THEOREM BlocksHandedOutOnce ==
  ASSUME Detectable
  PROVE  Spec => []HandedOutOnce
<1>1. HInv => HandedOutOnce
  <2> SUFFICES ASSUME HInv PROVE HandedOutOnce
    OBVIOUS
  <2>1. UsersApart
    BY UsersAreApart
  <2>2. \A t \in Giving : t \in Threads /\ Uses(t)
    BY DEF Giving, Uses
  <2> QED BY <2>1, <2>2 DEF UsersApart, HandedOutOnce
<1>2. Spec => []HInv
  BY HeapInvariant
<1> QED BY <1>1, <1>2, PTL

\* A freed block that was written to is never handed out again.
THEOREM WritesAfterFreeAreReported ==
  ASSUME Detectable
  PROVE  Spec => []WriteAfterFreeReported
<1>1. HInv => WriteAfterFreeReported
  BY DEF HInv, Junk, Free, Filling, Giving, WriteAfterFreeReported
<1>2. Spec => []HInv
  BY HeapInvariant
<1> QED BY <1>1, <1>2, PTL

\* raw returns zeroed blocks, whatever other threads do.
THEOREM BlocksReturnedZeroed ==
  ASSUME Detectable
  PROVE  Spec => []ReturnsZeroed
<1>1. HInv => ReturnsZeroed
  BY DEF HInv
<1>2. Spec => []HInv
  BY HeapInvariant
<1> QED BY <1>1, <1>2, PTL

\* A correct program never meets one of the heap's failures.
THEOREM CorrectProgramsPass == Spec => []NoFalseAlarm
<1>1. CASE Misuse = {}
  <2>1. Detectable
    BY <1>1 DEF Detectable
  <2>2. Spec => []HInv
    BY <2>1, HeapInvariant
  <2>3. HInv => NoFalseAlarm
    BY DEF HInv, Fails, NoFalseAlarm
  <2> QED BY <2>2, <2>3, PTL
<1>2. CASE Misuse # {}
  <2>1. NoFalseAlarm
    BY <1>2 DEF NoFalseAlarm
  <2> QED BY <2>1, PTL
<1> QED BY <1>1, <1>2

-----------------------------------------------------------------------------
(***************************************************************************)
(* A correct program's heap is an Allocator.                               *)
(***************************************************************************)
Busy(t) == t \in Giving \cup Freeing
Others(t) == {Extent(b) : b \in held} \cup {Extent(BlockOf(u)) : u \in (Giving \cup Freeing) \ {t}}

LEMMA BusyUses == Misuse = {} /\ HInv => \A t \in Threads : Busy(t) <=> Uses(t)
<1> SUFFICES ASSUME Misuse = {}, HInv, NEW t \in Threads PROVE Busy(t) <=> Uses(t)
  OBVIOUS
<1>1. call[t].op = "free" /\ call[t].pc \in {"check", "lock", "put"} => Mine(t)
  BY DEF HInv, Owners, Careless
<1> QED BY <1>1 DEF Busy, Giving, Freeing, Uses

LEMMA LiveParts ==
  ASSUME NEW t \in Threads
  PROVE  /\ Busy(t) => Live = Others(t) \cup {Extent(BlockOf(t))}
         /\ ~Busy(t) => Live = Others(t)
BY DEF Live, Others, Busy

LEMMA LivePartsNext ==
  ASSUME NEW t \in Threads
  PROVE  /\ Busy(t)' => Live' = Others(t)' \cup {Extent(BlockOf(t))'}
         /\ ~Busy(t)' => Live' = Others(t)'
BY DEF Live, Others, Busy

\* Only t's call and what is held change.
LEMMA OthersSame ==
  ASSUME NEW t \in Threads, \A u \in Threads \ {t} : call'[u] = call[u]
  PROVE  /\ {Extent(BlockOf(u)) : u \in (Giving \cup Freeing) \ {t}}'
              = {Extent(BlockOf(u)) : u \in (Giving \cup Freeing) \ {t}}
         /\ held' = held => Others(t)' = Others(t)
<1>1. ((Giving \cup Freeing) \ {t})' = (Giving \cup Freeing) \ {t}
  BY DEF Giving, Freeing
<1>2. \A u \in (Giving \cup Freeing) \ {t} : Extent(BlockOf(u))' = Extent(BlockOf(u))
  BY DEF Giving, Freeing, Extent, BlockOf
<1>3. {Extent(BlockOf(u)) : u \in (Giving \cup Freeing) \ {t}}'
        = {Extent(BlockOf(u)) : u \in (Giving \cup Freeing) \ {t}}
  BY <1>1, <1>2
<1>4. held' = held => {Extent(b) : b \in held}' = {Extent(b) : b \in held}
  BY DEF Extent
<1> QED BY <1>3, <1>4 DEF Others

\* The invariant, and what follows from it for a correct program.
Fine == HInv /\ UsersApart /\ \A t \in Threads : Busy(t) <=> Uses(t)

OnlyCall(t) == \A u \in Threads \ {t} : call'[u] = call[u]

LEMMA BlockSame ==
  ASSUME NEW t \in Threads, call'[t].p = call[t].p, call'[t].n = call[t].n
  PROVE  Extent(BlockOf(t))' = Extent(BlockOf(t))
BY DEF Extent, BlockOf

LEMMA LiveSame ==
  ASSUME NEW t \in Threads, OnlyCall(t), held' = held, Busy(t)' <=> Busy(t),
         Busy(t) => call'[t].p = call[t].p /\ call'[t].n = call[t].n
  PROVE  Live' = Live
<1>1. Others(t)' = Others(t)
  BY OthersSame DEF OnlyCall
<1>2. Busy(t) => Extent(BlockOf(t))' = Extent(BlockOf(t))
  BY BlockSame
<1>3. CASE Busy(t)
  <2>1. Live = Others(t) \cup {Extent(BlockOf(t))}
    BY <1>3, LiveParts
  <2>2. Live' = Others(t)' \cup {Extent(BlockOf(t))'}
    BY <1>3, LivePartsNext
  <2> QED BY <1>1, <1>2, <1>3, <2>1, <2>2
<1>4. CASE ~Busy(t)
  <2>1. Live = Others(t)
    BY <1>4, LiveParts
  <2>2. Live' = Others(t)'
    BY <1>4, LivePartsNext
  <2> QED BY <1>1, <2>1, <2>2
<1> QED BY <1>3, <1>4

LEMMA Allocates ==
  ASSUME NEW t \in Threads, Fine', OnlyCall(t), held' = held, ~Busy(t), Busy(t)'
  PROVE  A!Next
<1>1. Live = Others(t) /\ Others(t)' = Others(t) /\ Live' = Others(t)' \cup {Extent(BlockOf(t))'}
  BY OthersSame, LiveParts, LivePartsNext DEF OnlyCall
<1>2. UsersApart' /\ Uses(t)' /\ \A u \in Threads : Busy(u)' <=> Uses(u)'
  BY DEF Fine
<1>3. PICK first \in 1..LastCell, last \in 1..LastCell : Extent(BlockOf(t))' = first..last
  BY <1>2 DEF UsersApart
<1>4. first..last # {}
  BY <1>2, <1>3 DEF UsersApart
<1>5. ASSUME NEW other \in Others(t)' PROVE (first..last) \cap other = {}
  <2>1. CASE \E b \in held' : other = Extent(b)
    <3>1. PICK b \in held' : other = Extent(b)
      BY <2>1
    <3>2. Extent(BlockOf(t))' \cap Extent(b) = {}
      BY <1>2 DEF UsersApart, Extent
    <3> QED BY <1>3, <3>1, <3>2
  <2>2. CASE \E u \in ((Giving \cup Freeing) \ {t})' : other = Extent(BlockOf(u))'
    <3>1. PICK u \in ((Giving \cup Freeing) \ {t})' : other = Extent(BlockOf(u))'
      BY <2>2
    <3>2. u \in Threads /\ u # t /\ Uses(u)'
      BY <1>2 DEF Busy, Giving, Freeing
    <3>3. Extent(BlockOf(t))' \cap Extent(BlockOf(u))' = {}
      BY <1>2, <3>2 DEF UsersApart
    <3> QED BY <1>3, <3>1, <3>3
  <2>3. (\E b \in held' : other = Extent(b)) \/ \E u \in ((Giving \cup Freeing) \ {t})' : other = Extent(BlockOf(u))'
    BY <1>5 DEF Others, Extent
  <2> QED BY <2>1, <2>2, <2>3
<1>6. A!Allocate(first..last)
  BY <1>1, <1>3, <1>4, <1>5 DEF A!Allocate
<1> QED BY <1>6 DEF A!Next

LEMMA Frees ==
  ASSUME NEW t \in Threads, Fine, OnlyCall(t), held' = held, Busy(t), ~Busy(t)'
  PROVE  A!Next
<1>1. Live = Others(t) \cup {Extent(BlockOf(t))} /\ Others(t)' = Others(t) /\ Live' = Others(t)'
  BY OthersSame, LiveParts, LivePartsNext DEF OnlyCall
<1>2. UsersApart /\ Uses(t) /\ \A u \in Threads : Busy(u) <=> Uses(u)
  BY DEF Fine
<1>3. PICK first \in 1..LastCell, last \in 1..LastCell : Extent(BlockOf(t)) = first..last
  BY <1>2 DEF UsersApart
<1>4. Extent(BlockOf(t)) # {}
  BY <1>2 DEF UsersApart
<1>5. Extent(BlockOf(t)) \notin Others(t)
  <2> SUFFICES ASSUME Extent(BlockOf(t)) \in Others(t) PROVE FALSE
    OBVIOUS
  <2>1. CASE \E b \in held : Extent(BlockOf(t)) = Extent(b)
    <3>1. \A b \in held : Extent(BlockOf(t)) \cap Extent(b) = {}
      BY <1>2 DEF UsersApart
    <3> QED BY <1>4, <2>1, <3>1
  <2>2. CASE \E u \in (Giving \cup Freeing) \ {t} : Extent(BlockOf(t)) = Extent(BlockOf(u))
    <3>1. PICK u \in (Giving \cup Freeing) \ {t} : Extent(BlockOf(t)) = Extent(BlockOf(u))
      BY <2>2
    <3>2. u \in Threads /\ u # t /\ Uses(u)
      BY <1>2 DEF Busy, Giving, Freeing
    <3>3. Extent(BlockOf(t)) \cap Extent(BlockOf(u)) = {}
      BY <1>2, <3>2 DEF UsersApart
    <3> QED BY <1>4, <3>1, <3>3
  <2> QED BY <2>1, <2>2 DEF Others
<1>6. A!Free(first..last)
  BY <1>1, <1>3, <1>5 DEF A!Free
<1> QED BY <1>6 DEF A!Next

\* A block passes between the program and a call: raw returns it, free_raw takes it.
LEMMA Passed ==
  ASSUME NEW t \in Threads, OnlyCall(t), NEW b,
         \/ /\ b \in held /\ held' = held \ {b} /\ ~Busy(t) /\ Busy(t)'
            /\ call'[t].p = b.p /\ call'[t].n = b.n
         \/ /\ held' = held \cup {b} /\ Busy(t) /\ ~Busy(t)'
            /\ call[t].p = b.p /\ call[t].n = b.n
  PROVE  Live' = Live
<1> DEFINE calls == {Extent(BlockOf(u)) : u \in (Giving \cup Freeing) \ {t}}
<1>1. calls' = calls
  BY OthersSame DEF OnlyCall
<1>2. Others(t) = {Extent(d) : d \in held} \cup calls /\ Others(t)' = {Extent(d) : d \in held'} \cup calls
  BY <1>1 DEF Others, Extent
<1> HIDE DEF calls
<1>3. CASE /\ b \in held /\ held' = held \ {b} /\ ~Busy(t) /\ Busy(t)'
           /\ call'[t].p = b.p /\ call'[t].n = b.n
  <2>1. Extent(BlockOf(t))' = Extent(b)
    BY <1>3 DEF Extent, BlockOf
  <2>2. Live = {Extent(d) : d \in held} \cup calls
    BY <1>2, <1>3, LiveParts
  <2>3. Live' = {Extent(d) : d \in held \ {b}} \cup calls \cup {Extent(b)}
    BY <1>2, <1>3, <2>1, LivePartsNext
  <2>4. {Extent(d) : d \in held} = {Extent(d) : d \in held \ {b}} \cup {Extent(b)}
    BY <1>3
  <2> QED BY <2>2, <2>3, <2>4
<1>4. CASE /\ held' = held \cup {b} /\ Busy(t) /\ ~Busy(t)'
           /\ call[t].p = b.p /\ call[t].n = b.n
  <2>1. Extent(BlockOf(t)) = Extent(b)
    BY <1>4 DEF Extent, BlockOf
  <2>2. Live = {Extent(d) : d \in held} \cup calls \cup {Extent(b)}
    BY <1>2, <1>4, <2>1, LiveParts
  <2>3. Live' = {Extent(d) : d \in held \cup {b}} \cup calls
    BY <1>2, <1>4, LivePartsNext
  <2>4. {Extent(d) : d \in held \cup {b}} = {Extent(d) : d \in held} \cup {Extent(b)}
    OBVIOUS
  <2> QED BY <2>2, <2>3, <2>4
<1> QED BY <1>3, <1>4

LEMMA AllocatorSteps ==
  ASSUME Misuse = {}, Fine, Fine', [Next]_vars
  PROVE  [A!Next]_Live
<1>0. /\ call \in [Threads -> CallType] /\ held \subseteq BlockType
      /\ \A t \in Threads : /\ call[t].op \in {"raw", "free"}
                            /\ call[t].op = "raw" => call[t].pc \in {"idle", "lock", "take", "fill", "unlock"}
                            /\ call[t].op = "free" => call[t].pc \in {"check", "lock", "put", "unlock"}
  BY DEF Fine, HInv, HTyped, Owners, CallType
<1>1. ASSUME call' = call, held' = held PROVE Live' = Live
  BY <1>1 DEF Live, Giving, Freeing, BlockOf, Extent
<1>2. ASSUME NEW t \in Threads, CallRaw(t) PROVE Live' = Live
  <2>1. /\ call'[t].pc = "lock" /\ call'[t].op = "raw" /\ call[t].pc = "idle" /\ held' = held
        /\ OnlyCall(t)
    BY <1>0, <1>2 DEF CallRaw, At, OnlyCall
  <2> QED BY <1>0, <2>1, LiveSame DEF Busy, Giving, Freeing
<1>3. ASSUME NEW t \in Threads, LockHeap(t) PROVE Live' = Live
  <2>1. /\ call'[t].pc = (IF call[t].op = "raw" THEN "take" ELSE "put")
        /\ call'[t].op = call[t].op /\ call'[t].p = call[t].p /\ call'[t].n = call[t].n
        /\ call[t].pc = "lock" /\ held' = held /\ OnlyCall(t)
    BY <1>0, <1>3 DEF LockHeap, Goto, At, OnlyCall, CallType
  <2> QED BY <1>0, <2>1, LiveSame DEF Busy, Giving, Freeing
<1>4. ASSUME NEW t \in Threads, TakeFreed(t) PROVE [A!Next]_Live
  <2>1. PICK p : p = heap[call[t].h].heads[ClassOf(call[t].n)]
    OBVIOUS
  <2>2. CASE WrittenAfterFree(p)
    BY <1>1, <1>4, <2>1, <2>2 DEF TakeFreed, Stop
  <2>3. CASE ~WrittenAfterFree(p)
    <3>1. call' = [call EXCEPT ![t].p = p, ![t].pc = "fill"] /\ held' = held /\ call[t].pc = "take"
      BY <1>4, <2>1, <2>3 DEF TakeFreed, At
    <3>2. call'[t].pc = "fill" /\ call'[t].op = "raw" /\ OnlyCall(t)
      BY <1>0, <3>1 DEF OnlyCall, CallType
    <3>3. ~Busy(t) /\ Busy(t)'
      BY <1>0, <3>1, <3>2 DEF Busy, Giving, Freeing
    <3> QED BY <3>1, <3>2, <3>3, Allocates
  <2> QED BY <2>2, <2>3
<1>5. ASSUME NEW t \in Threads, Carve(t) PROVE [A!Next]_Live
  <2>1. \/ call' = call /\ held' = held
        \/ /\ \E p : call' = [call EXCEPT ![t].p = p, ![t].pc = "fill"]
           /\ held' = held /\ call[t].pc = "take"
    BY <1>5 DEF Carve, Stop, At
  <2>2. CASE call' = call /\ held' = held
    BY <1>1, <2>2
  <2>3. CASE (\E p : call' = [call EXCEPT ![t].p = p, ![t].pc = "fill"]) /\ held' = held /\ call[t].pc = "take"
    <3>2. call'[t].pc = "fill" /\ call'[t].op = "raw" /\ OnlyCall(t)
      BY <1>0, <2>3 DEF OnlyCall, CallType
    <3>3. ~Busy(t) /\ Busy(t)'
      BY <1>0, <2>3, <3>2 DEF Busy, Giving, Freeing
    <3> QED BY <2>3, <3>2, <3>3, Allocates
  <2> QED BY <2>1, <2>2, <2>3
<1>6. ASSUME NEW t \in Threads, Fill(t) PROVE Live' = Live
  <2>1. /\ call'[t].pc = "unlock" /\ call'[t].op = call[t].op /\ call[t].pc = "fill"
        /\ call'[t].p = call[t].p /\ call'[t].n = call[t].n /\ held' = held /\ OnlyCall(t)
    BY <1>0, <1>6 DEF Fill, Goto, At, OnlyCall, CallType
  <2> QED BY <1>0, <2>1, LiveSame DEF Busy, Giving, Freeing
<1>7. ASSUME NEW t \in Threads, UnlockHeap(t) PROVE Live' = Live
  <2>1. /\ call'[t] = Idle /\ call[t].pc = "unlock" /\ OnlyCall(t) /\ ~Busy(t)'
        /\ held' = IF call[t].op = "raw" THEN held \cup {BlockOf(t)} ELSE held
    <3>1. call'[t] = Idle /\ call[t].pc = "unlock" /\ OnlyCall(t)
      BY <1>0, <1>7 DEF UnlockHeap, At, OnlyCall
    <3>2. held' = IF call[t].op = "raw" THEN held \cup {BlockOf(t)} ELSE held
      BY <1>7 DEF UnlockHeap, BlockOf
    <3> QED BY <3>1, <3>2 DEF Busy, Giving, Freeing, Idle
  <2>2. CASE call[t].op = "raw"
    <3>1. Busy(t)
      BY <2>1, <2>2 DEF Busy, Giving
    <3>2. PICK b : b = BlockOf(t)
      OBVIOUS
    <3>3. call[t].p = b.p /\ call[t].n = b.n
      BY <3>2 DEF BlockOf
    <3> QED BY <2>1, <2>2, <3>1, <3>2, <3>3, Passed
  <2>3. CASE call[t].op # "raw"
    <3>1. ~Busy(t)
      BY <2>1, <2>3 DEF Busy, Giving, Freeing
    <3> QED BY <2>1, <2>3, <3>1, LiveSame
  <2> QED BY <2>2, <2>3
<1>8. ASSUME NEW t \in Threads, NEW b \in held, CallFree(t, b) PROVE Live' = Live
  <2>1. /\ call'[t].pc = "check" /\ call'[t].op = "free" /\ call'[t].p = b.p /\ call'[t].n = b.n
        /\ call[t].pc = "idle" /\ OnlyCall(t) /\ held' = held \ {b}
    BY <1>0, <1>8 DEF CallFree, At, OnlyCall
  <2>2. ~Busy(t) /\ Busy(t)'
    BY <1>0, <2>1 DEF Busy, Giving, Freeing
  <2> QED BY <2>1, <2>2, Passed
<1>9. ASSUME NEW t \in Threads, CheckFree(t) PROVE Live' = Live
  <2>1. CASE FailedCheck(call[t]) # "none"
    BY <1>1, <1>9, <2>1 DEF CheckFree, Stop
  <2>2. CASE FailedCheck(call[t]) = "none"
    <3>1. /\ call'[t].pc = "lock" /\ call'[t].op = call[t].op /\ call[t].pc = "check"
          /\ call'[t].p = call[t].p /\ call'[t].n = call[t].n /\ held' = held /\ OnlyCall(t)
      BY <1>0, <1>9, <2>2 DEF CheckFree, Goto, At, OnlyCall, CallType
    <3> QED BY <1>0, <3>1, LiveSame DEF Busy, Giving, Freeing
  <2> QED BY <2>1, <2>2
<1>10. ASSUME NEW t \in Threads, Put(t) PROVE A!Next
  <2>1. /\ call'[t].pc = "unlock" /\ call'[t].op = call[t].op /\ call[t].pc = "put" /\ held' = held /\ OnlyCall(t)
    BY <1>0, <1>10 DEF Put, Goto, At, OnlyCall, CallType
  <2>2. Busy(t) /\ ~Busy(t)'
    BY <1>0, <2>1 DEF Busy, Giving, Freeing
  <2> QED BY <2>1, <2>2, Frees
<1>11. ASSUME NEW t \in Threads, WriteHeld(t) PROVE Live' = Live
  BY <1>1, <1>11 DEF WriteHeld
<1>12. \A t \in Threads : ~FreeAgain(t) /\ ~FreeWrong(t) /\ ~WriteFreed(t)
  BY DEF FreeAgain, FreeWrong, WriteFreed
<1>13. CASE UNCHANGED vars
  BY <1>1, <1>13 DEF vars
<1> QED
  BY <1>2, <1>3, <1>4, <1>5, <1>6, <1>7, <1>8, <1>9, <1>10, <1>11, <1>12, <1>13 DEF Next

\* For a correct program the heap implements Allocator: what the program holds
\* never overlaps, and grows only by free cells (raw) and shrinks only by its own (free_raw).
THEOREM HeapIsAllocator ==
  ASSUME Misuse = {}
  PROVE  Spec => ImplementsAllocator
<1>1. Init => A!Init
  BY DEF Init, A!Init, Live, Giving, Freeing, Idle
<1>2. HInv => Fine
  BY UsersAreApart, BusyUses DEF Fine
<1>3. Spec => []HInv
  <2>1. Detectable
    BY DEF Detectable
  <2> QED BY <2>1, HeapInvariant
<1>4. Fine /\ Fine' /\ [Next]_vars => [A!Next]_Live
  BY AllocatorSteps
<1> QED BY <1>1, <1>2, <1>3, <1>4, PTL DEF Spec, ImplementsAllocator, A!Spec

-----------------------------------------------------------------------------
(***************************************************************************)
(* The free lists, followed through memory.                                *)
(***************************************************************************)
After(q) == IF q = 0 THEN 0 ELSE mem[q].a

\* f follows the links of list c of heap h for n steps.
Follows(f, h, c, n) ==
  /\ f = [i \in 0..n |-> f[i]]
  /\ f[0] = heap[h].heads[c]
  /\ \A i \in 1..n : f[i] = After(f[i - 1])

LEMMA WalkFollows ==
  ASSUME NEW h, NEW c
  PROVE  Follows(Walk(h, c), h, c, LastCell)
<1>0. LastCell \in Nat
  BY HeapAssumption
<1> DEFINE T == {n \in Nat : ~ \E f : Follows(f, h, c, n)}
<1>1. T = {}
  <2> SUFFICES ASSUME T # {} PROVE FALSE
    OBVIOUS
  <2>1. PICK m \in T : \A k \in T : m <= k
    BY Least
  <2>2. m \in Nat /\ ~ \E f : Follows(f, h, c, m)
    OBVIOUS
  <2>3. CASE m = 0
    <3>1. PICK f : f = [i \in 0..m |-> heap[h].heads[c]]
      OBVIOUS
    <3>2. Follows(f, h, c, m)
      BY <2>3, <3>1 DEF Follows
    <3> QED BY <2>2, <3>2
  <2>4. CASE m # 0
    <3>1. m - 1 \in Nat /\ m - 1 \notin T
      BY <2>1, <2>2, <2>4
    <3>2. PICK f : Follows(f, h, c, m - 1)
      BY <3>1
    <3>3. PICK g : g = [i \in 0..m |-> IF i = m THEN After(f[m - 1]) ELSE f[i]]
      OBVIOUS
    <3>4. g[0] = heap[h].heads[c] /\ g = [i \in 0..m |-> g[i]]
      BY <2>2, <2>4, <3>2, <3>3 DEF Follows
    <3>5. ASSUME NEW i \in 1..m PROVE g[i] = After(g[i - 1])
      <4>1. CASE i = m
        BY <2>2, <3>3, <4>1
      <4>2. CASE i # m
        <5>1. i \in 1..m - 1 /\ i - 1 \in 0..m /\ i - 1 # m /\ i \in 0..m
          BY <2>2, <4>2
        <5>2. f[i] = After(f[i - 1])
          BY <3>2, <5>1 DEF Follows
        <5> QED BY <3>3, <4>2, <5>1, <5>2
      <4> QED BY <4>1, <4>2
    <3>6. Follows(g, h, c, m)
      BY <3>4, <3>5 DEF Follows
    <3> QED BY <2>2, <3>6
  <2> QED BY <2>3, <2>4
<1>2. PICK f : Follows(f, h, c, LastCell)
  BY <1>0, <1>1
<1> DEFINE Step(g) == [i \in 0..LastCell |-> IF i = 0 THEN heap[h].heads[c]
                                             ELSE IF g[i - 1] = 0 THEN 0 ELSE mem[g[i - 1]].a]
<1>3. f = Step(f)
  <2>1. \A i \in 0..LastCell : f[i] = IF i = 0 THEN heap[h].heads[c]
                                      ELSE IF f[i - 1] = 0 THEN 0 ELSE mem[f[i - 1]].a
    <3> SUFFICES ASSUME NEW i \in 0..LastCell
                 PROVE  f[i] = IF i = 0 THEN heap[h].heads[c]
                               ELSE IF f[i - 1] = 0 THEN 0 ELSE mem[f[i - 1]].a
      OBVIOUS
    <3>1. CASE i = 0
      BY <1>2, <3>1 DEF Follows
    <3>2. CASE i # 0
      <4>1. i \in 1..LastCell
        BY <1>0, <3>2
      <4>2. f[i] = After(f[i - 1])
        BY <1>2, <4>1 DEF Follows
      <4> QED BY <3>2, <4>2 DEF After
    <3> QED BY <3>1, <3>2
  <2>2. f = [i \in 0..LastCell |-> f[i]]
    BY <1>2 DEF Follows
  <2> QED BY <2>1, <2>2
<1>4. Walk(h, c) = CHOOSE g : g = Step(g)
  BY DEF Walk
<1>5. PICK w : w = Walk(h, c) /\ w = Step(w)
  <2> HIDE DEF Step
  <2> QED BY <1>3, <1>4
<1>6. \A i \in 0..LastCell : w[i] = IF i = 0 THEN heap[h].heads[c]
                                    ELSE IF w[i - 1] = 0 THEN 0 ELSE mem[w[i - 1]].a
  BY <1>5
<1>7. Follows(w, h, c, LastCell)
  BY <1>0, <1>5, <1>6 DEF Follows, After
<1> QED BY <1>5, <1>7

\* The walk stays on the list, and ends: no block comes twice, and there are
\* fewer blocks than steps.
LEMMA WalkStays ==
  ASSUME HInv, NEW h \in Heaps, NEW c \in Classes, NEW w, Follows(w, h, c, LastCell)
  PROVE  \A i \in 0..LastCell : w[i] = 0 \/ OnList(w[i], h, c)
<1>0. LastCell \in Nat
  BY HeapAssumption
<1> DEFINE T == {i \in 0..LastCell : ~(w[i] = 0 \/ OnList(w[i], h, c))}
<1> SUFFICES ASSUME T # {} PROVE FALSE
  OBVIOUS
<1>1. T \subseteq Nat
  BY <1>0
<1>2. PICK m \in T : \A k \in T : m <= k
  BY <1>1, Least
<1>3. m # 0
  BY <1>2 DEF Follows, HInv, Links
<1>4. m \in 1..LastCell /\ m - 1 \in 0..LastCell /\ m - 1 < m
  BY <1>0, <1>3
<1>5. w[m - 1] = 0 \/ OnList(w[m - 1], h, c)
  BY <1>2, <1>4
<1>6. w[m] = After(w[m - 1])
  BY <1>4 DEF Follows
<1>7. CASE w[m - 1] = 0
  BY <1>6, <1>7 DEF After
<1>8. CASE w[m - 1] # 0
  <2>1. PICK q : q = w[m - 1]
    OBVIOUS
  <2>2. OnList(q, h, c) /\ w[m] = mem[q].a
    BY <1>5, <1>6, <1>8, <2>1 DEF After
  <2>3. q \in 2..LastCell /\ Free(q) /\ mem[q - 1].a = h /\ ClassOf(mem[q - 1].b) = c
    BY <2>2 DEF OnList, Free
  <2>4. mem[q].a # 0 => OnList(mem[q].a, h, c)
    BY <2>3 DEF HInv, Links
  <2> QED BY <2>2, <2>4
<1> QED BY <1>7, <1>8

LEMMA WalkEnds ==
  ASSUME HInv, NEW h \in Heaps, NEW c \in Classes, NEW w, Follows(w, h, c, LastCell)
  PROVE  w[LastCell] = 0
<1>0. LastCell \in Nat
  BY HeapAssumption
<1>1. \A i \in 0..LastCell : w[i] = 0 \/ OnList(w[i], h, c)
  BY WalkStays
<1>2. \A i \in 1..LastCell : w[i] = After(w[i - 1])
  BY DEF Follows
<1> SUFFICES ASSUME w[LastCell] # 0 PROVE FALSE
  OBVIOUS
\* None before the last is 0: a walk that has ended stays there.
<1>3. ASSUME NEW i \in 0..LastCell PROVE w[i] # 0
  <2> DEFINE T == {k \in Nat : i <= k /\ k <= LastCell /\ w[k] # 0}
  <2> SUFFICES ASSUME w[i] = 0 PROVE FALSE
    OBVIOUS
  <2>1. LastCell \in T
    BY <1>0
  <2>2. PICK m \in T : \A k \in T : m <= k
    BY <2>1, Least
  <2>3. m # i /\ m \in 1..LastCell /\ m - 1 \in Nat /\ i <= m - 1 /\ m - 1 <= LastCell
    BY <1>0, <2>2
  <2>4. m - 1 \notin T
    BY <2>2, <2>3
  <2>5. w[m - 1] = 0
    BY <2>3, <2>4
  <2>6. w[m] = 0
    BY <1>2, <2>3, <2>5 DEF After
  <2> QED BY <2>2, <2>6
<1>4. \A i \in 0..LastCell : OnList(w[i], h, c) /\ w[i] \in 2..LastCell
  BY <1>1, <1>3 DEF OnList, Free
\* No block comes twice: the first of two equal ones would have two links to it,
\* or be the head with a link to it.
<1>5. ASSUME NEW i \in 0..LastCell, NEW j \in 0..LastCell, i < j PROVE w[i] # w[j]
  <2> DEFINE T == {k \in Nat : k <= LastCell /\ \E l \in 0..LastCell : k < l /\ w[k] = w[l]}
  <2> SUFFICES ASSUME w[i] = w[j] PROVE FALSE
    OBVIOUS
  <2>1. i \in T
    BY <1>0, <1>5
  <2>2. PICK m \in T : \A k \in T : m <= k
    BY <2>1, Least
  <2>3. PICK l \in 0..LastCell : m < l /\ w[m] = w[l]
    OBVIOUS
  <2>4. l \in 1..LastCell /\ l - 1 \in 0..LastCell /\ m \in 0..LastCell
    BY <1>0, <2>3
  <2>5. PICK r : r = w[l - 1] /\ OnList(r, h, c) /\ mem[r].a = w[l] /\ w[l] # 0
    BY <1>2, <1>3, <1>4, <2>4 DEF After
  <2>6. r \in 2..LastCell /\ Free(r) /\ mem[r - 1].a = h /\ ClassOf(mem[r - 1].b) = c
    BY <2>5 DEF OnList, Free
  <2>7. CASE m = 0
    <3>1. w[l] = heap[h].heads[c]
      BY <2>3, <2>7 DEF Follows
    <3> QED BY <2>5, <2>6, <3>1 DEF HInv, Links
  <2>8. CASE m # 0
    <3>1. m \in 1..LastCell /\ m - 1 \in 0..LastCell /\ m - 1 \in Nat /\ m - 1 < l - 1 /\ m - 1 < m
      BY <1>0, <2>3, <2>4, <2>8
    <3>2. m - 1 \notin T
      BY <2>2, <3>1
    <3>3. w[m - 1] # w[l - 1]
      BY <1>0, <2>4, <3>1, <3>2
    <3>4. PICK q : q = w[m - 1] /\ OnList(q, h, c) /\ mem[q].a = w[m]
      BY <1>2, <1>3, <1>4, <3>1 DEF After
    <3>5. q \in 2..LastCell /\ Free(q) /\ q # r /\ mem[q].a # 0 /\ mem[q].a = mem[r].a
      BY <2>3, <2>5, <3>3, <3>4 DEF OnList, Free
    <3> QED BY <2>6, <3>5 DEF HInv, Links
  <2> QED BY <2>7, <2>8
<1>6. IsFiniteSet(0..LastCell) /\ Cardinality(0..LastCell) = LastCell + 1
  BY <1>0, FS_Interval
<1>7. LastCell # 0
  BY <1>0, <1>4
<1>8. IsFiniteSet(2..LastCell) /\ Cardinality(2..LastCell) < LastCell + 1
  <2>1. IsFiniteSet(2..LastCell) /\ Cardinality(2..LastCell) = IF 2 > LastCell THEN 0 ELSE LastCell - 2 + 1
    BY <1>0, FS_Interval
  <2> QED BY <1>0, <1>7, <2>1
<1>9. w \in [0..LastCell -> 2..LastCell]
  <2>1. w = [i \in 0..LastCell |-> w[i]]
    BY DEF Follows
  <2> QED BY <1>4, <2>1
<1>10. PICK i \in 0..LastCell, j \in 0..LastCell : i # j /\ w[i] = w[j]
  BY <1>6, <1>8, <1>9, FS_PigeonHole
<1>11. i < j \/ j < i
  BY <1>0, <1>10
<1> QED BY <1>5, <1>10, <1>11

\* Every free list ends and holds only freed blocks of its heap and class, and
\* every block ever cut is held, in a call, or on its list.
LEMMA ListsSound == HInv => FreeListsSound
<1> SUFFICES ASSUME HInv, NEW h \in Heaps, NEW c \in Classes
             PROVE  /\ Walk(h, c)[LastCell] = 0
                    /\ \A p \in FreeList(h, c) :
                         mem[p - 1].tag = "FREED" /\ mem[p - 1].a = h /\ ClassOf(mem[p - 1].b) = c
  BY DEF FreeListsSound
<1>1. PICK w : w = Walk(h, c) /\ Follows(w, h, c, LastCell)
  BY WalkFollows
<1>2. w[LastCell] = 0
  BY <1>1, WalkEnds
<1>3. \A i \in 0..LastCell : w[i] = 0 \/ OnList(w[i], h, c)
  BY <1>1, WalkStays
<1>4. \A p \in FreeList(h, c) : OnList(p, h, c)
  BY <1>1, <1>3 DEF FreeList
<1> QED BY <1>1, <1>2, <1>4 DEF OnList, Free

LEMMA NoneLost == HInv => EveryBlockSomewhere
<1> SUFFICES ASSUME HInv, NEW i \in 1..LastCell, mem[i].tag \in {"LIVE", "FREED"}
             PROVE  \/ \E b \in held : b.p = i + 1
                    \/ \E t \in Threads : call[t].p = i + 1
                    \/ i + 1 \in FreeList(mem[i].a, ClassOf(mem[i].b))
  BY DEF EveryBlockSomewhere
<1>0. LastCell \in Nat /\ HTyped /\ Layout
  BY HeapAssumption DEF HInv
<1>1. PICK q \in 2..LastCell + 1 : q = i + 1 /\ q - 1 = i
  BY <1>0
<1>2. PICK h \in Heaps, n \in Requests, c \in Classes :
        h = mem[q - 1].a /\ n = mem[q - 1].b /\ c = ClassOf(n) /\ IsBlock(q, c)
  BY <1>0, <1>1, HeaderBlock
<1>3. q \in 2..LastCell
  BY <1>0, <1>2, BlockSpan
<1>4. CASE mem[i].tag = "LIVE"
  BY <1>1, <1>3, <1>4 DEF HInv, OneUser
<1>5. CASE mem[i].tag = "FREED" /\ ~Free(q)
  BY <1>1, <1>3, <1>5 DEF Free
<1>6. CASE Free(q)
  <2>1. OnList(q, h, c)
    BY <1>2, <1>6 DEF OnList
  <2>2. PICK w : w = Walk(h, c) /\ Follows(w, h, c, LastCell)
    BY WalkFollows
  <2>3. \A k \in 0..LastCell : w[k] = 0 \/ (OnList(w[k], h, c) /\ w[k] \in 2..LastCell)
    BY <2>2, WalkStays DEF OnList, Free
  <2>4. FreeList(h, c) = {w[k] : k \in 0..LastCell} \ {0}
    BY <2>2 DEF FreeList
  <2>5. FreeList(h, c) \in SUBSET (2..LastCell)
    BY <2>3, <2>4
  <2>6. heap[h].heads[c] \in FreeList(h, c) \cup {0}
    <3>1. w[0] = heap[h].heads[c] /\ 0 \in 0..LastCell
      BY <1>0, <2>2 DEF Follows
    <3> QED BY <2>4, <3>1
  <2>7. ASSUME NEW r \in FreeList(h, c) PROVE mem[r].a \in FreeList(h, c) \cup {0}
    <3>1. PICK k \in 0..LastCell : r = w[k] /\ r # 0
      BY <2>4, <2>7
    <3>2. k # LastCell
      BY <2>2, <3>1, WalkEnds
    <3>3. k + 1 \in 1..LastCell /\ k + 1 \in 0..LastCell /\ (k + 1) - 1 = k
      BY <1>0, <3>2
    <3>4. w[k + 1] = After(w[k])
      BY <2>2, <3>3 DEF Follows
    <3>5. w[k + 1] = mem[r].a
      BY <3>1, <3>4 DEF After
    <3> QED BY <2>4, <3>3, <3>5
  <2>8. Covers(FreeList(h, c), h, c)
    BY <2>6, <2>7 DEF Covers
  <2>9. q \in FreeList(h, c)
    BY <1>3, <2>1, <2>5, <2>8 DEF HInv, Links
  <2> QED BY <1>1, <1>2, <2>9
<1> QED BY <1>1, <1>4, <1>5, <1>6

\* "A freed block goes on the free list of its size class" (free_raw) and raw
\* takes from that list only: the lists never run in a circle, never share a
\* block and hold nothing that is in use.
THEOREM FreeListsAreSound == ASSUME Detectable PROVE Spec => []FreeListsSound
<1>1. HInv => FreeListsSound
  BY ListsSound
<1>2. Spec => []HInv
  BY HeapInvariant
<1> QED BY <1>1, <1>2, PTL

\* cut, raw and free_raw never lose a block: what the program does not hold, and
\* no call has in hand, is on the free list raw will look for it on.
THEOREM NoBlockLost == ASSUME Detectable PROVE Spec => []EveryBlockSomewhere
<1>1. HInv => EveryBlockSomewhere
  BY NoneLost
<1>2. Spec => []HInv
  BY HeapInvariant
<1> QED BY <1>1, <1>2, PTL

-----------------------------------------------------------------------------
(***************************************************************************)
(* Sums over finite sets (MapThenSumSet), of what a function gives.        *)
(***************************************************************************)
Chosen(s) == CHOOSE x \in s : TRUE
Totals(g, wt, S) ==
  g = [s \in SUBSET S |-> IF s = {} THEN 0 ELSE wt[Chosen(s)] + g[s \ {Chosen(s)}]]
Ints(wt, S) == \A x \in S : wt[x] \in Int
Total(wt, S) == (CHOOSE g : Totals(g, wt, S))[S]

\* Among finite sets there is one of least size.
LEMMA SmallestSet ==
  ASSUME NEW C, C # {}, \A s \in C : IsFiniteSet(s)
  PROVE  \E m \in C : \A k \in C : Cardinality(m) <= Cardinality(k)
<1> DEFINE T == {Cardinality(s) : s \in C}
<1>1. T \subseteq Nat /\ T # {}
  BY FS_CardinalityType
<1>2. PICK n \in T : \A k \in T : n <= k
  <2> HIDE DEF T
  <2> QED BY <1>1, Least
<1> QED BY <1>2

LEMMA ChosenIn == ASSUME NEW s, s # {} PROVE Chosen(s) \in s
BY DEF Chosen

\* What is left of a finite set without one of its elements is smaller.
LEMMA Smaller ==
  ASSUME NEW S, IsFiniteSet(S), NEW s \in SUBSET S, NEW x \in s
  PROVE  /\ IsFiniteSet(s) /\ s \ {x} \in SUBSET S /\ IsFiniteSet(s \ {x})
         /\ Cardinality(s) \in Nat /\ Cardinality(s \ {x}) = Cardinality(s) - 1
         /\ Cardinality(s \ {x}) \in Nat
<1>1. IsFiniteSet(s)
  BY FS_Subset
<1> QED BY <1>1, FS_RemoveElement, FS_CardinalityType

\* The recursion has a solution, which gives every subset its sum.
LEMMA TotalsExist ==
  ASSUME NEW S, IsFiniteSet(S), NEW wt
  PROVE  \E g : Totals(g, wt, S)
<1> DEFINE Small(n) == {s \in SUBSET S : Cardinality(s) <= n}
           Upto(g, n) == g = [s \in Small(n) |-> IF s = {} THEN 0 ELSE wt[Chosen(s)] + g[s \ {Chosen(s)}]]
           T == {n \in Nat : ~ \E g : Upto(g, n)}
<1>0. \A s \in SUBSET S : IsFiniteSet(s) /\ Cardinality(s) \in Nat /\ (Cardinality(s) = 0 <=> s = {})
  BY FS_Subset, FS_CardinalityType, FS_EmptySet
<1>1. T = {}
  <2> SUFFICES ASSUME T # {} PROVE FALSE
    OBVIOUS
  <2>1. PICK m \in T : \A k \in T : m <= k
    <3>1. T \subseteq Nat
      OBVIOUS
    <3> HIDE DEF T
    <3> QED BY <3>1, Least
  <2>2. m \in Nat /\ ~ \E g : Upto(g, m)
    OBVIOUS
  <2>3. CASE m = 0
    <3>1. PICK g : g = [s \in Small(m) |-> 0]
      OBVIOUS
    <3>2. \A s \in Small(m) : s = {}
      BY <1>0, <2>3
    <3>3. Upto(g, m)
      BY <3>1, <3>2
    <3> QED BY <2>2, <3>3
  <2>4. CASE m # 0
    <3>1. m - 1 \in Nat /\ m - 1 \notin T
      <4>1. m - 1 \in Nat /\ ~(m <= m - 1)
        BY <2>2, <2>4
      <4> HIDE DEF T
      <4> QED BY <2>1, <4>1
    <3>2. PICK g : Upto(g, m - 1)
      BY <3>1
    <3>3. PICK f : f = [s \in Small(m) |-> IF s = {} THEN 0 ELSE wt[Chosen(s)] + g[s \ {Chosen(s)}]]
      OBVIOUS
    <3>4. ASSUME NEW s \in Small(m - 1) PROVE f[s] = g[s]
      <4>1. s \in Small(m)
        BY <1>0, <2>2, <3>4
      <4> QED BY <3>2, <3>3, <4>1
    <3>5. ASSUME NEW s \in Small(m), s # {} PROVE s \ {Chosen(s)} \in Small(m - 1)
      <4>1. Chosen(s) \in s /\ s \in SUBSET S
        BY <3>5, ChosenIn
      <4>2. /\ s \ {Chosen(s)} \in SUBSET S /\ Cardinality(s) \in Nat
            /\ Cardinality(s \ {Chosen(s)}) = Cardinality(s) - 1
        <5>1. PICK x : x = Chosen(s)
          OBVIOUS
        <5>2. x \in s
          BY <4>1, <5>1
        <5>3. /\ s \ {x} \in SUBSET S /\ Cardinality(s) \in Nat
              /\ Cardinality(s \ {x}) = Cardinality(s) - 1
          BY ONLY <4>1, <5>2, IsFiniteSet(S), Smaller
        <5> QED BY ONLY <5>1, <5>3
      <4> QED BY <2>2, <4>2
    <3>6. Upto(f, m)
      BY <3>3, <3>4, <3>5
    <3> QED BY <2>2, <3>6
  <2> QED BY <2>3, <2>4
<1>2. Cardinality(S) \in Nat
  BY FS_CardinalityType
<1>3. PICK g : Upto(g, Cardinality(S))
  BY <1>1, <1>2
<1>4. Small(Cardinality(S)) = SUBSET S
  BY FS_Subset
<1> QED BY <1>3, <1>4 DEF Totals

\* It adds one chosen element at a time.
LEMMA TotalsStep ==
  ASSUME NEW S, NEW wt, NEW g, Totals(g, wt, S)
  PROVE  /\ g[{}] = 0
         /\ \A s \in SUBSET S : s # {} => g[s] = wt[Chosen(s)] + g[s \ {Chosen(s)}]
BY DEF Totals

\* Where the numbers are the same, so are the sums.
LEMMA TotalsAgree ==
  ASSUME NEW S, IsFiniteSet(S), NEW T \in SUBSET S, NEW wt, NEW vt, \A x \in T : wt[x] = vt[x],
         NEW g, Totals(g, wt, S), NEW h, Totals(h, vt, T)
  PROVE  \A s \in SUBSET T : g[s] = h[s]
<1> DEFINE C == {s \in SUBSET T : g[s] # h[s]}
<1> SUFFICES ASSUME C # {} PROVE FALSE
  OBVIOUS
<1>1. \A s \in C : IsFiniteSet(s)
  BY FS_Subset
<1>2. PICK m \in C : \A k \in C : Cardinality(m) <= Cardinality(k)
  BY <1>1, SmallestSet
<1>3. m # {} /\ m \in SUBSET S /\ m \in SUBSET T
  BY TotalsStep
<1>4. PICK x \in m : x = Chosen(m)
  BY <1>3, ChosenIn
<1>5. m \ {x} \in SUBSET T /\ Cardinality(m \ {x}) = Cardinality(m) - 1 /\ Cardinality(m) \in Nat
  BY <1>3, Smaller
<1>6. m \ {x} \notin C
  BY <1>2, <1>5
<1>7. g[m \ {x}] = h[m \ {x}]
  BY <1>5, <1>6
<1>8. g[m] = wt[x] + g[m \ {x}] /\ h[m] = vt[x] + h[m \ {x}] /\ wt[x] = vt[x]
  BY <1>3, <1>4, TotalsStep
<1> QED BY <1>7, <1>8

\* The sum of integers is one.
LEMMA TotalsInt ==
  ASSUME NEW S, IsFiniteSet(S), NEW wt, Ints(wt, S), NEW g, Totals(g, wt, S)
  PROVE  \A s \in SUBSET S : g[s] \in Int
<1> DEFINE C == {s \in SUBSET S : g[s] \notin Int}
<1> SUFFICES ASSUME C # {} PROVE FALSE
  OBVIOUS
<1>1. \A s \in C : IsFiniteSet(s)
  BY FS_Subset
<1>2. PICK m \in C : \A k \in C : Cardinality(m) <= Cardinality(k)
  BY <1>1, SmallestSet
<1>3. m # {} /\ m \in SUBSET S
  <2>1. g[{}] = 0
    BY TotalsStep
  <2> QED BY <2>1
<1>4. PICK x \in m : x = Chosen(m)
  BY <1>3, ChosenIn
<1>5. m \ {x} \in SUBSET S /\ Cardinality(m \ {x}) = Cardinality(m) - 1 /\ Cardinality(m) \in Nat
  BY <1>3, Smaller
<1>6. m \ {x} \notin C
  BY <1>2, <1>5
<1>7. g[m \ {x}] \in Int /\ wt[x] \in Int
  BY <1>3, <1>5, <1>6 DEF Ints
<1>8. g[m] = wt[x] + g[m \ {x}]
  <2>1. \A s \in SUBSET S : s # {} => g[s] = wt[Chosen(s)] + g[s \ {Chosen(s)}]
    BY DEF Totals
  <2> QED BY <1>3, <1>4, <2>1
<1> QED BY <1>7, <1>8

\* The sum does not depend on the order: any element may be taken first.
LEMMA TotalsRemove ==
  ASSUME NEW S, IsFiniteSet(S), NEW wt, Ints(wt, S), NEW g, Totals(g, wt, S),
         NEW r \in SUBSET S, NEW e \in r
  PROVE  g[r] = wt[e] + g[r \ {e}]
<1> DEFINE C == {s \in SUBSET S : ~ \A x \in s : g[s] = wt[x] + g[s \ {x}]}
<1> SUFFICES ASSUME C # {} PROVE FALSE
  OBVIOUS
<1>1. \A s \in C : IsFiniteSet(s)
  BY FS_Subset
<1>2. PICK m \in C : \A k \in C : Cardinality(m) <= Cardinality(k)
  BY <1>1, SmallestSet
<1>3. m \in SUBSET S
  OBVIOUS
<1>4. PICK x \in m : g[m] # wt[x] + g[m \ {x}]
  BY <1>3
<1>5. PICK y \in m : y = Chosen(m) /\ g[m] = wt[y] + g[m \ {y}]
  <2>1. Chosen(m) \in m
    BY <1>4, ChosenIn
  <2> QED BY <1>3, <2>1 DEF Totals
<1>6. x # y
  BY <1>4, <1>5
<1>7. ASSUME NEW z \in m PROVE m \ {z} \in SUBSET S /\ \A w \in m \ {z} : g[m \ {z}] = wt[w] + g[(m \ {z}) \ {w}]
  <2>1. m \ {z} \in SUBSET S /\ Cardinality(m \ {z}) = Cardinality(m) - 1 /\ Cardinality(m) \in Nat
    BY <1>3, Smaller
  <2>2. m \ {z} \notin C
    BY <1>2, <2>1
  <2> QED BY <2>1, <2>2
<1>8. g[m \ {y}] = wt[x] + g[(m \ {y}) \ {x}] /\ g[m \ {x}] = wt[y] + g[(m \ {x}) \ {y}]
  BY <1>6, <1>7
<1>9. (m \ {y}) \ {x} = (m \ {x}) \ {y} /\ (m \ {y}) \ {x} \in SUBSET S
  BY <1>3
<1>10. g[(m \ {y}) \ {x}] \in Int /\ wt[x] \in Int /\ wt[y] \in Int
  <2>1. wt[x] \in Int /\ wt[y] \in Int
    BY <1>3 DEF Ints
  <2>2. \A s \in SUBSET S : g[s] \in Int
    BY TotalsInt
  <2> QED BY <1>9, <2>1, <2>2
<1>11. PICK a \in Int, b \in Int, c \in Int : a = wt[x] /\ b = wt[y] /\ c = g[(m \ {y}) \ {x}]
  BY <1>10
<1>12. g[m] = b + (a + c) /\ g[m \ {x}] = b + c
  BY <1>5, <1>8, <1>9, <1>11
<1> QED BY <1>4, <1>11, <1>12

\* Total is the value of a solution.
LEMMA TotalIs ==
  ASSUME NEW S, IsFiniteSet(S), NEW wt
  PROVE  \E g : Totals(g, wt, S) /\ Total(wt, S) = g[S]
BY TotalsExist DEF Total

LEMMA TotalInt ==
  ASSUME NEW S, IsFiniteSet(S), NEW wt, Ints(wt, S)
  PROVE  Total(wt, S) \in Int
BY TotalIs, TotalsInt

LEMMA TotalEmpty == ASSUME NEW wt PROVE Total(wt, {}) = 0
<1>1. PICK g : Totals(g, wt, {}) /\ Total(wt, {}) = g[{}]
  BY TotalIs, FS_EmptySet
<1> QED BY <1>1, TotalsStep

LEMMA TotalSame ==
  ASSUME NEW S, IsFiniteSet(S), NEW wt, NEW vt, \A x \in S : wt[x] = vt[x]
  PROVE  Total(wt, S) = Total(vt, S)
<1>1. PICK g : Totals(g, wt, S) /\ Total(wt, S) = g[S]
  BY TotalIs
<1>2. PICK h : Totals(h, vt, S) /\ Total(vt, S) = h[S]
  BY TotalIs
<1>3. S \in SUBSET S
  OBVIOUS
<1> QED BY <1>1, <1>2, <1>3, TotalsAgree

LEMMA TotalRemove ==
  ASSUME NEW S, IsFiniteSet(S), NEW wt, Ints(wt, S), NEW x \in S
  PROVE  Total(wt, S) = wt[x] + Total(wt, S \ {x})
<1>1. PICK g : Totals(g, wt, S) /\ Total(wt, S) = g[S]
  BY TotalIs
<1>2. S \in SUBSET S /\ S \ {x} \in SUBSET S /\ S \ {x} \in SUBSET (S \ {x}) /\ IsFiniteSet(S \ {x})
  BY FS_RemoveElement
<1>3. PICK h : Totals(h, wt, S \ {x}) /\ Total(wt, S \ {x}) = h[S \ {x}]
  BY <1>2, TotalIs
<1>4. g[S] = wt[x] + g[S \ {x}]
  BY <1>1, <1>2, TotalsRemove
<1>5. g[S \ {x}] = h[S \ {x}]
  BY <1>1, <1>2, <1>3, TotalsAgree
<1> QED BY <1>1, <1>3, <1>4, <1>5

\* One more element, or several.
LEMMA TotalAdd ==
  ASSUME NEW S, IsFiniteSet(S), NEW wt, Ints(wt, S), NEW y, y \notin S, wt[y] \in Int
  PROVE  Total(wt, S \cup {y}) = wt[y] + Total(wt, S)
<1>1. IsFiniteSet(S \cup {y}) /\ (S \cup {y}) \ {y} = S /\ y \in S \cup {y}
  BY FS_AddElement
<1>2. Ints(wt, S \cup {y})
  BY DEF Ints
<1> QED BY <1>1, <1>2, TotalRemove

LEMMA TotalUnion ==
  ASSUME NEW S, IsFiniteSet(S), NEW U, IsFiniteSet(U), S \cap U = {},
         NEW wt, Ints(wt, S \cup U)
  PROVE  Total(wt, S \cup U) = Total(wt, S) + Total(wt, U)
<1> DEFINE C == {s \in SUBSET S : Total(wt, s \cup U) # Total(wt, s) + Total(wt, U)}
<1> SUFFICES ASSUME C # {} PROVE FALSE
  OBVIOUS
<1>1. \A s \in C : IsFiniteSet(s)
  BY FS_Subset
<1>2. PICK m \in C : \A k \in C : Cardinality(m) <= Cardinality(k)
  BY <1>1, SmallestSet
<1>3. m \in SUBSET S /\ IsFiniteSet(m) /\ Ints(wt, m) /\ Ints(wt, U) /\ Total(wt, U) \in Int
  <2>1. Ints(wt, m) /\ Ints(wt, U)
    BY DEF Ints
  <2> QED BY <1>1, <2>1, TotalInt
<1>4. m # {}
  <2> SUFFICES ASSUME m = {} PROVE FALSE
    OBVIOUS
  <2>1. m \cup U = U
    OBVIOUS
  <2> QED BY <1>3, <2>1, TotalEmpty
<1>5. PICK x \in m : TRUE
  BY <1>4
<1>6. m \ {x} \in SUBSET S /\ IsFiniteSet(m \ {x}) /\ Cardinality(m \ {x}) = Cardinality(m) - 1 /\ Cardinality(m) \in Nat
  BY <1>3, Smaller
<1>7. m \ {x} \notin C
  BY <1>2, <1>6
<1>8. Total(wt, (m \ {x}) \cup U) = Total(wt, m \ {x}) + Total(wt, U)
  BY <1>6, <1>7
<1>9. Total(wt, m) = wt[x] + Total(wt, m \ {x})
  BY <1>3, TotalRemove
<1>10. Total(wt, m \cup U) = wt[x] + Total(wt, (m \ {x}) \cup U)
  <2>1. (m \cup U) \ {x} = (m \ {x}) \cup U /\ IsFiniteSet(m \cup U) /\ x \in m \cup U
    BY <1>3, FS_Union
  <2>2. Ints(wt, m \cup U)
    BY <1>3 DEF Ints
  <2> QED BY <2>1, <2>2, TotalRemove
<1>11. Total(wt, m \ {x}) \in Int /\ wt[x] \in Int
  <2>1. wt[x] \in Int /\ Ints(wt, m \ {x})
    BY <1>3 DEF Ints
  <2> QED BY <1>6, <2>1, TotalInt
<1> QED BY <1>3, <1>8, <1>9, <1>10, <1>11

\* The sum over an image, when no two elements have the same one.
LEMMA TotalImage ==
  ASSUME NEW S, IsFiniteSet(S), NEW f, \A x, y \in S : x # y => f[x] # f[y],
         NEW wt, NEW vt, Ints(wt, S), \A x \in S : vt[f[x]] = wt[x]
  PROVE  Total(vt, {f[x] : x \in S}) = Total(wt, S)
<1> DEFINE Im(s) == {f[x] : x \in s}
           C == {s \in SUBSET S : Total(vt, Im(s)) # Total(wt, s)}
<1> SUFFICES ASSUME C # {} PROVE FALSE
  OBVIOUS
<1>1. \A s \in C : IsFiniteSet(s)
  BY FS_Subset
<1>2. PICK m \in C : \A k \in C : Cardinality(m) <= Cardinality(k)
  BY <1>1, SmallestSet
<1>3. m \in SUBSET S /\ IsFiniteSet(m) /\ Ints(wt, m)
  BY <1>1 DEF Ints
<1>4. m # {}
  <2> SUFFICES ASSUME m = {} PROVE FALSE
    OBVIOUS
  <2>1. Im(m) = {}
    OBVIOUS
  <2> QED BY <2>1, TotalEmpty
<1>5. PICK x \in m : TRUE
  BY <1>4
<1>6. m \ {x} \in SUBSET S /\ IsFiniteSet(m \ {x}) /\ Cardinality(m \ {x}) = Cardinality(m) - 1 /\ Cardinality(m) \in Nat
  BY <1>3, Smaller
<1>7. m \ {x} \notin C
  BY <1>2, <1>6
<1>8. Total(vt, Im(m \ {x})) = Total(wt, m \ {x})
  BY <1>6, <1>7
<1>9. Total(wt, m) = wt[x] + Total(wt, m \ {x})
  BY <1>3, TotalRemove
<1>10. Total(vt, Im(m)) = vt[f[x]] + Total(vt, Im(m \ {x}))
  <2>1. IsFiniteSet(Im(m))
    <3>1. [y \in m |-> f[y]] \in Surjection(m, Im(m))
      BY DEF Surjection
    <3> QED BY <1>3, <3>1, FS_Surjection
  <2>2. Im(m) \ {f[x]} = Im(m \ {x}) /\ f[x] \in Im(m)
    BY <1>3
  <2>3. Ints(vt, Im(m))
    BY <1>3 DEF Ints
  <2> QED BY <2>1, <2>2, <2>3, TotalRemove
<1> QED BY <1>3, <1>8, <1>9, <1>10

-----------------------------------------------------------------------------
(***************************************************************************)
(* The counts.  live and live_bytes count the headers that say LIVE, at    *)
(* every moment; with no call in the heap those are what the program holds *)
(* and what calls of free_raw have yet to put.                             *)
(***************************************************************************)
LiveCells(h) == {i \in 1..LastCell : mem[i].tag = "LIVE" /\ mem[i].a = h}
Sizes == [i \in 1..LastCell |-> mem[i].b]
Counts == \A h \in Heaps : /\ heap[h].nlive = Cardinality(LiveCells(h))
                           /\ heap[h].live_bytes = Total(Sizes, LiveCells(h))

\* The headers of one heap are finitely many, and carry sizes.
LEMMA LiveSizes ==
  ASSUME HTyped, NEW h
  PROVE  /\ IsFiniteSet(LiveCells(h)) /\ LiveCells(h) \subseteq 1..LastCell
         /\ Cardinality(LiveCells(h)) \in Nat /\ Ints(Sizes, LiveCells(h))
<1>1. LastCell \in Nat
  BY HeapAssumption
<1>2. LiveCells(h) \subseteq 1..LastCell
  BY DEF LiveCells
<1>3. IsFiniteSet(LiveCells(h))
  <2>1. IsFiniteSet(1..LastCell)
    BY <1>1, FS_Interval
  <2> QED BY <1>2, <2>1, FS_Subset
<1>4. Ints(Sizes, LiveCells(h))
  <2>1. ASSUME NEW i \in LiveCells(h) PROVE Sizes[i] \in Int
    <3>1. i \in 1..LastCell /\ mem[i] \in Cell /\ mem[i].tag = "LIVE"
      BY <2>1 DEF HTyped, LiveCells
    <3>2. mem[i].b \in Requests
      BY <3>1, CellKinds
    <3>3. Sizes[i] = mem[i].b
      BY <3>1 DEF Sizes
    <3>4. Requests \subseteq Int
      BY HeapAssumption
    <3> QED BY <3>2, <3>3, <3>4
  <2> QED BY <2>1 DEF Ints
<1> QED BY <1>2, <1>3, <1>4, FS_CardinalityType

\* A write inside one block makes and unmakes no header elsewhere.
LEMMA OtherHeaders ==
  ASSUME HTyped, Layout, NEW p \in 2..LastCell, NEW c \in Classes, IsBlock(p, c), WritesBlock(p, c),
         NEW i \in 1..LastCell, i # p - 1, mem[i].tag = "LIVE" \/ mem'[i].tag = "LIVE"
  PROVE  mem'[i] = mem[i]
<1>1. PICK q \in 2..LastCell + 1 : q - 1 = i /\ q # p
  <2>1. LastCell \in Nat /\ i + 1 \in 2..LastCell + 1 /\ (i + 1) - 1 = i /\ i + 1 # p
    BY HeapAssumption
  <2> QED BY <2>1
<1>2. /\ q # p
      /\ mem[q - 1].tag \in {"LIVE", "FREED"} \/ mem'[q - 1].tag \in {"LIVE", "FREED"}
  BY <1>1
<1>3. mem'[q - 1] = mem[q - 1]
  BY <1>2, OtherBlocks
<1> QED BY <1>1, <1>3

\* So the headers that say LIVE stay but for the one written, sizes and all.
LEMMA OtherCounts ==
  ASSUME HTyped, HTyped', Layout, NEW p \in 2..LastCell, NEW c \in Classes, IsBlock(p, c),
         WritesBlock(p, c), NEW h
  PROVE  /\ LiveCells(h)' \ {p - 1} = LiveCells(h) \ {p - 1}
         /\ \A i \in LiveCells(h) \ {p - 1} : Sizes'[i] = Sizes[i]
<1>1. ASSUME NEW i \in 1..LastCell, i # p - 1 PROVE i \in LiveCells(h)' <=> i \in LiveCells(h)
  <2>1. mem[i].tag = "LIVE" \/ mem'[i].tag = "LIVE" => mem'[i] = mem[i]
    BY <1>1, OtherHeaders
  <2> QED BY <1>1, <2>1 DEF LiveCells
<1>2. LiveCells(h) \subseteq 1..LastCell /\ LiveCells(h)' \subseteq 1..LastCell
  BY DEF LiveCells
<1>3. ASSUME NEW i \in LiveCells(h) \ {p - 1} PROVE Sizes'[i] = Sizes[i]
  <2>1. i \in 1..LastCell /\ i # p - 1 /\ mem[i].tag = "LIVE"
    BY <1>3 DEF LiveCells
  <2>2. mem'[i] = mem[i]
    BY <2>1, OtherHeaders
  <2> QED BY <2>1, <2>2 DEF Sizes
<1> QED BY <1>1, <1>2, <1>3

\* The totals of a heap none of whose headers the step writes.
LEMMA SameTotals ==
  ASSUME HTyped, HTyped', NEW h,
         LiveCells(h)' = LiveCells(h), \A i \in LiveCells(h) : Sizes'[i] = Sizes[i]
  PROVE  /\ Cardinality(LiveCells(h))' = Cardinality(LiveCells(h))
         /\ Total(Sizes, LiveCells(h))' = Total(Sizes, LiveCells(h))
<1>1. PICK s, w, v : s = LiveCells(h) /\ s = LiveCells(h)' /\ w = Sizes /\ v = Sizes'
  OBVIOUS
<1>2. IsFiniteSet(s) /\ \A i \in s : w[i] = v[i]
  BY <1>1, LiveSizes
<1>3. Total(w, s) = Total(v, s)
  BY <1>2, TotalSame
<1> QED BY <1>1, <1>3

\* A step that writes no header and touches no count.
LEMMA CountsKept ==
  ASSUME HInv, HInv', Counts,
         \A h \in Heaps : heap'[h].nlive = heap[h].nlive /\ heap'[h].live_bytes = heap[h].live_bytes,
         \/ mem' = mem
         \/ \E p \in 2..LastCell, c \in Classes :
              IsBlock(p, c) /\ WritesBlock(p, c) /\ mem'[p - 1] = mem[p - 1]
  PROVE  Counts'
<1>0. HTyped /\ HTyped' /\ Layout
  BY DEF HInv
<1>1. ASSUME NEW h \in Heaps
      PROVE  LiveCells(h)' = LiveCells(h) /\ \A i \in LiveCells(h) : Sizes'[i] = Sizes[i]
  <2>1. CASE mem' = mem
    BY <2>1 DEF LiveCells, Sizes
  <2>2. CASE \E p \in 2..LastCell, c \in Classes :
               IsBlock(p, c) /\ WritesBlock(p, c) /\ mem'[p - 1] = mem[p - 1]
    <3>1. PICK p \in 2..LastCell, c \in Classes :
            IsBlock(p, c) /\ WritesBlock(p, c) /\ mem'[p - 1] = mem[p - 1]
      BY <2>2
    <3>2. /\ LiveCells(h)' \ {p - 1} = LiveCells(h) \ {p - 1}
          /\ \A i \in LiveCells(h) \ {p - 1} : Sizes'[i] = Sizes[i]
      BY <1>0, <3>1, OtherCounts
    <3>3. p - 1 \in 1..LastCell
      BY HeapAssumption
    <3>4. (p - 1 \in LiveCells(h)' <=> p - 1 \in LiveCells(h)) /\ Sizes'[p - 1] = Sizes[p - 1]
      BY <3>1, <3>3 DEF LiveCells, Sizes
    <3>5. LiveCells(h)' = LiveCells(h)
      <4>1. PICK s, r, x : s = LiveCells(h) /\ r = LiveCells(h)' /\ x = p - 1
        OBVIOUS
      <4>2. \A i : i \in r <=> i \in s
        BY <3>2, <3>4, <4>1
      <4> QED BY <4>1, <4>2
    <3>6. ASSUME NEW i \in LiveCells(h) PROVE Sizes'[i] = Sizes[i]
      BY <3>2, <3>4
    <3> QED BY <3>5, <3>6
  <2> QED BY <2>1, <2>2
<1>2. \A h \in Heaps : /\ Cardinality(LiveCells(h))' = Cardinality(LiveCells(h))
                       /\ Total(Sizes, LiveCells(h))' = Total(Sizes, LiveCells(h))
  BY <1>0, <1>1, SameTotals
<1> QED BY <1>2 DEF Counts

\* raw counts the block whose header it writes.
LEMMA FillCounts ==
  ASSUME HInv, HInv', Counts, NEW t \in Threads, Fill(t)
  PROVE  Counts'
<1>1. PICK h \in Heaps, n \in Requests, p \in 2..LastCell, c \in Classes :
        /\ h = call[t].h /\ n = call[t].n /\ p = call[t].p /\ At(t, "fill") /\ Filling(t)
        /\ c = ClassOf(n) /\ IsBlock(p, c) /\ WritesBlock(p, c)
        /\ heap' = [heap EXCEPT ![h] = Counted(h, 1, n)]
        /\ LastCell \in Nat /\ HTyped /\ Layout /\ p - 1 \in 1..LastCell
        /\ mem'[p - 1] = Header("LIVE", h, n)
  BY FillWrites
<1>2. HTyped /\ HTyped' /\ Layout
  BY DEF HInv
<1>3. PICK x : x = p - 1 /\ x \in 1..LastCell
  BY <1>1
<1>4. \A g \in Heaps : x \notin LiveCells(g)
  BY <1>1, <1>3 DEF HInv, Owners, LiveCells
<1>5. /\ Sizes'[x] = n /\ n \in Int
      /\ \A g \in Heaps : x \in LiveCells(g)' <=> g = h
  <2>1. mem'[x].tag = "LIVE" /\ mem'[x].a = h /\ mem'[x].b = n
    BY <1>1, <1>3 DEF Header
  <2> QED BY <1>3, <2>1, HeapAssumption DEF Sizes, LiveCells
<1>6. ASSUME NEW g \in Heaps
      PROVE  /\ LiveCells(g)' \ {x} = LiveCells(g)
             /\ \A i \in LiveCells(g) : Sizes'[i] = Sizes[i]
  <2>1. /\ LiveCells(g)' \ {p - 1} = LiveCells(g) \ {p - 1}
        /\ \A i \in LiveCells(g) \ {p - 1} : Sizes'[i] = Sizes[i]
    BY <1>1, <1>2, OtherCounts
  <2> QED BY <1>3, <1>4, <2>1
<1>7. ASSUME NEW g \in Heaps, g # h
      PROVE  /\ heap'[g].nlive = Cardinality(LiveCells(g))'
             /\ heap'[g].live_bytes = Total(Sizes, LiveCells(g))'
  <2>1. LiveCells(g)' = LiveCells(g)
    BY <1>5, <1>6, <1>7
  <2>2. /\ Cardinality(LiveCells(g))' = Cardinality(LiveCells(g))
        /\ Total(Sizes, LiveCells(g))' = Total(Sizes, LiveCells(g))
    BY <1>2, <1>6, <2>1, SameTotals
  <2>3. heap'[g] = heap[g]
    BY <1>1, <1>2, <1>7 DEF HTyped
  <2> QED BY <2>2, <2>3 DEF Counts
<1>8. /\ heap'[h].nlive = Cardinality(LiveCells(h))'
      /\ heap'[h].live_bytes = Total(Sizes, LiveCells(h))'
  <2>1. PICK s, r, w, v : s = LiveCells(h) /\ r = LiveCells(h)' /\ w = Sizes /\ v = Sizes'
    OBVIOUS
  <2>2. x \in r /\ r \ {x} = s /\ v[x] = n /\ \A i \in s : v[i] = w[i]
    BY <1>5, <1>6, <2>1
  <2>3. IsFiniteSet(s) /\ IsFiniteSet(r) /\ Ints(v, r) /\ Cardinality(s) \in Nat
    <3>1. IsFiniteSet(LiveCells(h)) /\ Cardinality(LiveCells(h)) \in Nat
      BY <1>2, LiveSizes
    <3>2. r = s \cup {x}
      BY <2>2
    <3>3. IsFiniteSet(r)
      BY <2>1, <3>1, <3>2, FS_AddElement
    <3>4. Ints(w, s)
      BY <1>2, <2>1, LiveSizes
    <3>5. Ints(v, r)
      BY <1>5, <2>2, <3>2, <3>4 DEF Ints
    <3> QED BY <2>1, <3>1, <3>3, <3>5
  <2>4. Cardinality(r) = Cardinality(s) + 1
    <3>1. Cardinality(r \ {x}) = Cardinality(r) - 1
      BY <2>2, <2>3, FS_RemoveElement
    <3>2. Cardinality(r) \in Nat
      BY <2>3, FS_CardinalityType
    <3>3. Cardinality(r \ {x}) = Cardinality(s)
      BY <2>2
    <3> QED BY <3>1, <3>2, <3>3
  <2>5. Total(v, r) = n + Total(w, s)
    <3>1. Total(v, r) = v[x] + Total(v, r \ {x})
      BY <2>2, <2>3, TotalRemove
    <3>2. Total(v, s) = Total(w, s)
      BY <2>2, <2>3, TotalSame
    <3>3. Total(v, r \ {x}) = Total(v, s) /\ v[x] = n
      BY <2>2
    <3> QED BY <3>1, <3>2, <3>3
  <2>6. Total(w, s) \in Int
    <3>1. Ints(Sizes, LiveCells(h))
      BY <1>2, LiveSizes
    <3> QED BY <2>1, <2>3, <3>1, TotalInt
  <2>7. heap'[h].nlive = heap[h].nlive + 1 /\ heap'[h].live_bytes = heap[h].live_bytes + n
    <3>1. PICK y : y = Counted(h, 1, n)
      OBVIOUS
    <3>2. heap[h] \in HeapType
      BY <1>2 DEF HTyped
    <3>3. y.nlive = heap[h].nlive + 1 /\ y.live_bytes = heap[h].live_bytes + n
      BY <3>1, <3>2 DEF Counted, HeapType
    <3>4. heap'[h] = y
      BY <1>1, <1>2, <3>1 DEF HTyped
    <3> QED BY <3>3, <3>4
  <2>8. heap[h].nlive = Cardinality(s) /\ heap[h].live_bytes = Total(w, s)
    BY <2>1 DEF Counts
  <2> QED BY <1>5, <2>1, <2>3, <2>4, <2>5, <2>6, <2>7, <2>8
<1> QED BY <1>7, <1>8 DEF Counts

\* free_raw no longer counts the block whose header it writes.
LEMMA PutCounts ==
  ASSUME HInv, HInv', Counts, NEW t \in Threads, Put(t)
  PROVE  Counts'
<1>1. PICK h \in Heaps, n \in Requests, p \in 2..LastCell, c \in Classes, head \in 0..LastCell :
        /\ h = call[t].h /\ n = call[t].n /\ p = call[t].p /\ At(t, "put")
        /\ call[t].op = "free" /\ LiveAt(p, h, n) /\ Uses(t) /\ Mine(t)
        /\ c = ClassOf(n) /\ head = heap[h].heads[c] /\ IsBlock(p, c) /\ WritesBlock(p, c)
        /\ heap' = [heap EXCEPT ![h] = [Counted(h, -1, -n) EXCEPT !.heads[c] = p]]
        /\ call' = [call EXCEPT ![t].pc = "unlock"]
        /\ UNCHANGED <<brk, held, stale, dirty, stopped>>
        /\ LastCell \in Nat /\ HTyped /\ Layout /\ p - 1 \in 1..LastCell /\ p \in 1..LastCell
        /\ p \in 2..LastCell + 1 /\ p # p - 1
        /\ mem' \in [1..LastCell -> Cell] /\ mem'[p - 1] = Header("FREED", h, n) /\ mem'[p] = Link(head)
        /\ \A i \in 1..LastCell : i \notin {p - 1, p} =>
                mem'[i] = IF i \in Payload(p, n) THEN Poison ELSE mem[i]
        /\ EndOf(p, c) \in Int /\ p < EndOf(p, c)
        /\ \A i \in Payload(p, n) : i \in Int /\ p <= i /\ i < EndOf(p, c)
  BY PutWrites
<1>2. HTyped /\ HTyped' /\ Layout
  BY DEF HInv
<1>3. PICK x : x = p - 1 /\ x \in 1..LastCell
  BY <1>1
<1>4. \A g \in Heaps : x \notin LiveCells(g)'
  <2>1. mem'[x].tag = "FREED"
    BY <1>1, <1>3 DEF Header
  <2> QED BY <2>1 DEF LiveCells
<1>5. /\ Sizes[x] = n /\ n \in Int
      /\ \A g \in Heaps : x \in LiveCells(g) <=> g = h
  <2>1. mem[x].tag = "LIVE" /\ mem[x].a = h /\ mem[x].b = n
    BY <1>1, <1>3 DEF LiveAt, Header
  <2>2. n \in Int
    BY HeapAssumption
  <2> QED BY <1>3, <2>1, <2>2 DEF Sizes, LiveCells
<1>6. ASSUME NEW g \in Heaps
      PROVE  /\ LiveCells(g) \ {x} = LiveCells(g)'
             /\ \A i \in LiveCells(g)' : Sizes'[i] = Sizes[i]
  <2>1. /\ LiveCells(g)' \ {p - 1} = LiveCells(g) \ {p - 1}
        /\ \A i \in LiveCells(g) \ {p - 1} : Sizes'[i] = Sizes[i]
    BY <1>1, <1>2, OtherCounts
  <2> QED BY <1>3, <1>4, <2>1
<1>7. ASSUME NEW g \in Heaps, g # h
      PROVE  /\ heap'[g].nlive = Cardinality(LiveCells(g))'
             /\ heap'[g].live_bytes = Total(Sizes, LiveCells(g))'
  <2>1. LiveCells(g)' = LiveCells(g)
    BY <1>5, <1>6, <1>7
  <2>2. /\ Cardinality(LiveCells(g))' = Cardinality(LiveCells(g))
        /\ Total(Sizes, LiveCells(g))' = Total(Sizes, LiveCells(g))
    BY <1>2, <1>6, <2>1, SameTotals
  <2>3. heap'[g] = heap[g]
    BY <1>1, <1>2, <1>7 DEF HTyped
  <2> QED BY <2>2, <2>3 DEF Counts
<1>8. /\ heap'[h].nlive = Cardinality(LiveCells(h))'
      /\ heap'[h].live_bytes = Total(Sizes, LiveCells(h))'
  <2>1. PICK s, r, w, v : s = LiveCells(h) /\ r = LiveCells(h)' /\ w = Sizes /\ v = Sizes'
    OBVIOUS
  <2>2. x \in s /\ s \ {x} = r /\ w[x] = n /\ \A i \in r : w[i] = v[i]
    BY <1>5, <1>6, <2>1
  <2>3. IsFiniteSet(s) /\ Cardinality(s) \in Nat /\ Ints(w, s)
    BY <1>2, <2>1, LiveSizes
  <2>4. IsFiniteSet(r) /\ Cardinality(r) = Cardinality(s) - 1
    <3>1. IsFiniteSet(s \ {x}) /\ Cardinality(s \ {x}) = Cardinality(s) - 1
      BY <2>2, <2>3, FS_RemoveElement
    <3> QED BY <2>2, <3>1
  <2>5. Total(w, s) = n + Total(v, r) /\ Total(v, r) \in Int
    <3>1. Total(w, s) = w[x] + Total(w, s \ {x})
      BY <2>2, <2>3, TotalRemove
    <3>2. Total(w, r) = Total(v, r)
      BY <2>2, <2>4, TotalSame
    <3>3. Total(w, s \ {x}) = Total(w, r) /\ w[x] = n
      BY <2>2
    <3>4. Ints(w, r)
      BY <2>2, <2>3 DEF Ints
    <3>5. Total(w, r) \in Int
      BY <2>4, <3>4, TotalInt
    <3> QED BY <3>1, <3>2, <3>3, <3>5
  <2>6. heap'[h].nlive = heap[h].nlive - 1 /\ heap'[h].live_bytes = heap[h].live_bytes - n
    <3>1. PICK z : z = Counted(h, -1, -n)
      OBVIOUS
    <3>2. PICK y : y = [z EXCEPT !.heads[c] = p]
      OBVIOUS
    <3>3. heap[h] \in HeapType
      BY <1>2 DEF HTyped
    <3>4. z.nlive = heap[h].nlive - 1 /\ z.live_bytes = heap[h].live_bytes - n
      BY <1>5, <3>1, <3>3 DEF Counted, HeapType
    <3>5. z \in HeapType
      BY <1>2, <1>5, <3>1, CountedHeap
    <3>6. y.nlive = z.nlive /\ y.live_bytes = z.live_bytes
      BY <3>2, <3>5 DEF HeapType
    <3>7. heap'[h] = y
      BY <1>1, <1>2, <3>1, <3>2 DEF HTyped
    <3> QED BY <3>4, <3>6, <3>7
  <2>7. heap[h].nlive = Cardinality(s) /\ heap[h].live_bytes = Total(w, s)
    BY <2>1 DEF Counts
  <2> QED BY <1>5, <2>1, <2>3, <2>4, <2>5, <2>6, <2>7
<1> QED BY <1>7, <1>8 DEF Counts

\* Every other step leaves the counts and the headers that say LIVE alone.
LEMMA CountsSteps ==
  ASSUME Detectable, HInv, HInv', Counts, [Next]_vars
  PROVE  Counts'
<1>0. HTyped
  BY DEF HInv
<1>1. ASSUME mem' = mem, \A h \in Heaps : /\ heap'[h].nlive = heap[h].nlive
                                          /\ heap'[h].live_bytes = heap[h].live_bytes
      PROVE  Counts'
  BY <1>1, CountsKept
<1>2. ASSUME NEW t \in Threads, CallRaw(t) PROVE Counts'
  BY <1>1, <1>2 DEF CallRaw
<1>3. ASSUME NEW t \in Threads, LockHeap(t) PROVE Counts'
  <2>1. heap' = [heap EXCEPT ![call[t].h].lock = t] /\ mem' = mem
    BY <1>3 DEF LockHeap
  <2> QED BY <1>0, <1>1, <2>1 DEF HTyped, HeapType
<1>4. ASSUME NEW t \in Threads, TakeFreed(t) PROVE Counts'
  <2>1. PICK h, c : h = call[t].h /\ c = ClassOf(call[t].n)
    OBVIOUS
  <2>2. PICK next : next = NextFree(heap[h].heads[c])
    OBVIOUS
  <2>3. mem' = mem /\ (heap' = heap \/ heap' = [heap EXCEPT ![h].heads[c] = next])
    BY <1>4, <2>1, <2>2 DEF TakeFreed, Stop
  <2>4. PICK y : y = [heap[h] EXCEPT !.heads[c] = next]
    OBVIOUS
  <2>5. h \in Heaps => y.nlive = heap[h].nlive /\ y.live_bytes = heap[h].live_bytes
    BY <1>0, <2>4 DEF HTyped, HeapType
  <2>6. heap' = heap \/ heap' = [heap EXCEPT ![h] = y]
    BY <2>3, <2>4
  <2> QED BY <1>0, <1>1, <2>3, <2>5, <2>6 DEF HTyped
<1>5. ASSUME NEW t \in Threads, Carve(t) PROVE Counts'
  <2>1. PICK h, c : h = call[t].h /\ c = ClassOf(call[t].n)
    OBVIOUS
  <2> DEFINE need  == Need(c)
             short == need > heap[h].end - heap[h].cur
             chunk == IF need > Chunk THEN need ELSE Chunk
             cur   == IF short THEN brk ELSE heap[h].cur
  <2>2. PICK x, e, r, y :
          /\ x = cur + need
          /\ e = IF short THEN brk + chunk ELSE heap[h].end
          /\ r = IF short THEN heap[h].reserved + chunk ELSE heap[h].reserved
          /\ y = [heap[h] EXCEPT !.cur = x, !.end = e, !.reserved = r]
    OBVIOUS
  <2>3. CASE short /\ brk + chunk > LastCell + 1
    BY <1>1, <1>5, <2>1, <2>3 DEF Carve, Stop
  <2>4. CASE ~(short /\ brk + chunk > LastCell + 1)
    <3>1. /\ mem' = mem
          /\ heap' = [heap EXCEPT ![h].cur = cur + need,
                                  ![h].end = IF short THEN brk + chunk ELSE @,
                                  ![h].reserved = IF short THEN @ + chunk ELSE @]
      BY <1>5, <2>1, <2>4 DEF Carve
    <3> HIDE DEF need, short, chunk, cur
    <3>2. heap' = [heap EXCEPT ![h] = y]
      BY <1>0, <2>2, <3>1 DEF HTyped, HeapType
    <3>3. h \in Heaps => y.nlive = heap[h].nlive /\ y.live_bytes = heap[h].live_bytes
      BY <1>0, <2>2 DEF HTyped, HeapType
    <3> QED BY <1>0, <1>1, <3>1, <3>2, <3>3 DEF HTyped
  <2> QED BY <2>3, <2>4
<1>6. ASSUME NEW t \in Threads, UnlockHeap(t) PROVE Counts'
  <2>1. heap' = [heap EXCEPT ![call[t].h].lock = None] /\ mem' = mem
    BY <1>6 DEF UnlockHeap
  <2> QED BY <1>0, <1>1, <2>1 DEF HTyped, HeapType
<1>7. ASSUME NEW t \in Threads, NEW b, CallFree(t, b) PROVE Counts'
  BY <1>1, <1>7 DEF CallFree
<1>8. ASSUME NEW t \in Threads, CheckFree(t) PROVE Counts'
  BY <1>1, <1>8 DEF CheckFree, Goto, Stop
<1>9. ASSUME NEW t \in Threads, WriteHeld(t) PROVE Counts'
  <2>1. \E p \in 2..LastCell, c \in Classes :
          heap' = heap /\ IsBlock(p, c) /\ WritesBlock(p, c) /\ mem'[p - 1] = mem[p - 1]
    BY <1>9, HeldWrites
  <2> QED BY <2>1, CountsKept
<1>10. ASSUME NEW t \in Threads, WriteFreed(t) PROVE Counts'
  <2>1. \E p \in 2..LastCell, c \in Classes :
          heap' = heap /\ IsBlock(p, c) /\ WritesBlock(p, c) /\ mem'[p - 1] = mem[p - 1]
    BY <1>10, FreedWrites
  <2> QED BY <2>1, CountsKept
<1>11. CASE UNCHANGED vars
  BY <1>1, <1>11 DEF vars
<1>12. CASE Next
  BY <1>2, <1>3, <1>4, <1>5, <1>6, <1>7, <1>8, <1>9, <1>10, <1>12, FillCounts, PutCounts
     DEF Next, FreeAgain, FreeWrong
<1> QED BY <1>11, <1>12

\* Nothing is counted before the first call.
LEMMA CountsStart == Init => Counts
<1> SUFFICES ASSUME Init, NEW h \in Heaps
             PROVE  /\ heap[h].nlive = Cardinality(LiveCells(h))
                    /\ heap[h].live_bytes = Total(Sizes, LiveCells(h))
  BY DEF Counts
<1>1. LiveCells(h) = {}
  <2>1. Zero.tag # "LIVE"
    BY DEF Zero
  <2> QED BY <2>1 DEF Init, LiveCells
<1>2. heap[h].nlive = 0 /\ heap[h].live_bytes = 0
  BY DEF Init
<1>3. Total(Sizes, {}) = 0 /\ Cardinality({}) = 0
  BY TotalEmpty, FS_EmptySet
<1> QED BY <1>1, <1>2, <1>3

LEMMA CountsInvariant ==
  ASSUME Detectable
  PROVE  Spec => [](HInv /\ Counts)
<1>1. Init => HInv /\ Counts
  BY HeapStarts, CountsStart
<1>2. HInv /\ Counts /\ [Next]_vars => (HInv /\ Counts)'
  BY HeapSteps, CountsSteps
<1> QED BY <1>1, <1>2, PTL DEF Spec

\* Two functions that give a set's elements the same number have the same sum,
\* whatever they are elsewhere: what CountsRight adds up is a Total.
LEMMA SumOfHeld ==
  ASSUME NEW S, IsFiniteSet(S), NEW wt, \A b \in S : wt[b] = b.n
  PROVE  MapThenSumSet(LAMBDA b : b.n, S) = Total(wt, S)
<1> DEFINE P(f) == f = [s \in SUBSET S |-> IF s = {} THEN 0
                                           ELSE Chosen(s).n + f[s \ {Chosen(s)}]]
<1>1. \A s \in SUBSET S : s # {} => wt[Chosen(s)] = Chosen(s).n
  BY ChosenIn
<1>2. \A f : Totals(f, wt, S) <=> P(f)
  BY <1>1 DEF Totals
<1>3. P(CHOOSE f : P(f))
  BY <1>2, TotalsExist
<1>4. MapThenSumSet(LAMBDA b : b.n, S) = (CHOOSE f : P(f))[S]
  BY DEF MapThenSumSet, MapThenFoldSet, Chosen
<1>5. PICK f : Totals(f, wt, S) /\ MapThenSumSet(LAMBDA b : b.n, S) = f[S]
  BY <1>2, <1>3, <1>4
<1>6. PICK g : Totals(g, wt, S) /\ Total(wt, S) = g[S]
  BY TotalIs
<1>7. f[S] = g[S]
  BY <1>5, <1>6, TotalsAgree
<1> QED BY <1>5, <1>6, <1>7

LEMMA SumOfCalls ==
  ASSUME NEW S, IsFiniteSet(S), NEW wt, \A t \in S : wt[t] = call[t].n
  PROVE  MapThenSumSet(LAMBDA t : call[t].n, S) = Total(wt, S)
<1> DEFINE P(f) == f = [s \in SUBSET S |-> IF s = {} THEN 0
                                           ELSE call[Chosen(s)].n + f[s \ {Chosen(s)}]]
<1>1. \A s \in SUBSET S : s # {} => wt[Chosen(s)] = call[Chosen(s)].n
  BY ChosenIn
<1>2. \A f : Totals(f, wt, S) <=> P(f)
  BY <1>1 DEF Totals
<1>3. P(CHOOSE f : P(f))
  BY <1>2, TotalsExist
<1>4. MapThenSumSet(LAMBDA t : call[t].n, S) = (CHOOSE f : P(f))[S]
  BY DEF MapThenSumSet, MapThenFoldSet, Chosen
<1>5. PICK f : Totals(f, wt, S) /\ MapThenSumSet(LAMBDA t : call[t].n, S) = f[S]
  BY <1>2, <1>3, <1>4
<1>6. PICK g : Totals(g, wt, S) /\ Total(wt, S) = g[S]
  BY TotalIs
<1>7. f[S] = g[S]
  BY <1>5, <1>6, TotalsAgree
<1> QED BY <1>5, <1>6, <1>7

\* As many cells as there are things that have one each, and then finitely many.
LEMMA OneEach ==
  ASSUME NEW S, NEW f, \A x \in S : f[x] \in 1..LastCell, \A x, y \in S : x # y => f[x] # f[y]
  PROVE  /\ IsFiniteSet(S) /\ IsFiniteSet({f[x] : x \in S})
         /\ Cardinality({f[x] : x \in S}) = Cardinality(S)
<1> DEFINE Im == {f[x] : x \in S}
           g == [x \in S |-> f[x]]
<1>1. IsFiniteSet(1..LastCell)
  BY HeapAssumption, FS_Interval
<1>2. g \in Injection(S, 1..LastCell)
  BY DEF Injection, IsInjective
<1>3. IsFiniteSet(S)
  BY <1>1, <1>2, FS_Injection
<1>4. g \in Bijection(S, Im)
  BY DEF Bijection, Injection, IsInjective, Surjection
<1> QED BY <1>3, <1>4, FS_Bijection DEF ExistsBijection

\* With no call in a heap, what it counts is what the program holds and what is
\* on its way to Put: each has the header of its own block.
LEMMA CountsAreTrue ==
  ASSUME Misuse \subseteq {"write"}, HInv, Counts
  PROVE  CountsRight
<1> SUFFICES ASSUME NEW h \in Heaps, heap[h].lock = None
             PROVE  LET mine == {b \in held : b.h = h}
                        leaving == {t \in Freeing : call[t].h = h}
                    IN  /\ heap[h].nlive = Cardinality(mine) + Cardinality(leaving)
                        /\ heap[h].live_bytes = MapThenSumSet(LAMBDA b : b.n, mine)
                                               + MapThenSumSet(LAMBDA t : call[t].n, leaving)
  BY DEF CountsRight
<1>1. PICK mine, leaving : mine = {b \in held : b.h = h} /\ leaving = {t \in Freeing : call[t].h = h}
  OBVIOUS
<1>2. PICK f, g, v, w, s :
        /\ f = [b \in mine |-> b.p - 1] /\ g = [t \in leaving |-> call[t].p - 1]
        /\ v = [b \in mine |-> b.n] /\ w = [t \in leaving |-> call[t].n] /\ s = Sizes
  OBVIOUS
<1> DEFINE Kept == {f[b] : b \in mine}
           Going == {g[t] : t \in leaving}
<1>3. LastCell \in Nat /\ HTyped /\ Owners /\ OneUser /\ ~Careless
  BY HeapAssumption DEF HInv, Careless
<1>4. ASSUME NEW b \in mine
      PROVE  /\ f[b] \in 1..LastCell /\ f[b] \in LiveCells(h) /\ v[b] = b.n /\ s[f[b]] = v[b]
             /\ b.p \in 2..LastCell /\ f[b] = b.p - 1 /\ b.n \in Requests
  <2>1. b \in held /\ b.h = h /\ b \in BlockType /\ LiveAt(b.p, b.h, b.n)
    BY <1>1, <1>3, <1>4 DEF HTyped, Owners
  <2>2. b.p \in 2..LastCell /\ b.n \in Requests /\ b.p - 1 \in 1..LastCell
    BY <1>3, <2>1 DEF BlockType
  <2>3. mem[b.p - 1].tag = "LIVE" /\ mem[b.p - 1].a = h /\ mem[b.p - 1].b = b.n
    BY <2>1 DEF LiveAt, Header
  <2> QED BY <1>2, <2>2, <2>3 DEF LiveCells, Sizes
<1>5. ASSUME NEW t \in leaving
      PROVE  /\ g[t] \in 1..LastCell /\ g[t] \in LiveCells(h) /\ w[t] = call[t].n /\ s[g[t]] = w[t]
             /\ call[t].p \in 2..LastCell /\ g[t] = call[t].p - 1 /\ call[t].n \in Requests
             /\ t \in Threads /\ Uses(t)
  <2>1. /\ t \in Threads /\ call[t].h = h /\ call[t].op = "free"
        /\ call[t].pc \in {"check", "lock", "put"}
    BY <1>1, <1>5 DEF Freeing
  <2>2. Mine(t)
    BY <1>3, <2>1 DEF Owners
  <2>3. Uses(t) /\ call[t].p \in 2..LastCell /\ call[t].p - 1 \in 1..LastCell
    BY <1>3, <2>1, <2>2 DEF Uses, Mine, LiveAt
  <2>4. call[t].n \in Requests
    BY <1>3, <2>1 DEF HTyped
  <2>5. mem[call[t].p - 1].tag = "LIVE" /\ mem[call[t].p - 1].a = h /\ mem[call[t].p - 1].b = call[t].n
    BY <2>1, <2>2 DEF Mine, LiveAt, Header
  <2> QED BY <1>2, <2>1, <2>3, <2>4, <2>5 DEF LiveCells, Sizes
<1>6. ASSUME NEW b \in mine, NEW d \in mine, b # d PROVE f[b] # f[d]
  <2>1. b \in BlockType /\ d \in BlockType /\ LiveAt(b.p, b.h, b.n) /\ LiveAt(d.p, d.h, d.n)
    BY <1>1, <1>3 DEF HTyped, Owners
  <2>2. ASSUME b.p = d.p PROVE FALSE
    <3>1. Header("LIVE", b.h, b.n) = Header("LIVE", d.h, d.n)
      BY <2>1, <2>2 DEF LiveAt
    <3>2. b.h = d.h /\ b.n = d.n
      BY <3>1 DEF Header
    <3> QED BY <1>6, <2>1, <2>2, <3>2 DEF BlockType
  <2>3. b.p \in Int /\ d.p \in Int
    BY <2>1 DEF BlockType
  <2> QED BY <1>4, <2>2, <2>3
<1>7. ASSUME NEW t \in leaving, NEW u \in leaving, t # u PROVE g[t] # g[u]
  <2>1. call[t].p # call[u].p
    BY <1>3, <1>5, <1>7 DEF OneUser
  <2> QED BY <1>5, <2>1
<1>8. Kept \cap Going = {}
  <2> SUFFICES ASSUME NEW b \in mine, NEW t \in leaving, f[b] = g[t] PROVE FALSE
    OBVIOUS
  <2>1. b.p = call[t].p
    BY <1>4, <1>5
  <2>2. b \in held
    BY <1>1
  <2> QED BY <1>3, <1>5, <2>1, <2>2 DEF OneUser
<1>9. LiveCells(h) = Kept \cup Going
  <2>1. Kept \cup Going \subseteq LiveCells(h)
    BY <1>4, <1>5
  <2>2. ASSUME NEW i \in LiveCells(h) PROVE i \in Kept \cup Going
    <3>1. PICK p \in 2..LastCell + 1 : p - 1 = i /\ mem[p - 1].tag = "LIVE" /\ mem[p - 1].a = h
      <4>1. i \in 1..LastCell /\ mem[i].tag = "LIVE" /\ mem[i].a = h
        BY DEF LiveCells
      <4>2. i + 1 \in 2..LastCell + 1 /\ (i + 1) - 1 = i
        BY <1>3, <4>1
      <4> QED BY <4>1, <4>2
    <3>2. p \in 2..LastCell
      <4>1. PICK c \in Classes : IsBlock(p, c)
        BY <1>3, <3>1, HeaderBlock
      <4> QED BY <1>3, <4>1, BlockSpan DEF HInv
    <3>3. CASE \E b \in held : b.p = p
      <4>1. PICK b \in held : b.p = p
        BY <3>3
      <4>2. mem[p - 1] = Header("LIVE", b.h, b.n)
        BY <1>3, <4>1 DEF Owners, LiveAt
      <4>3. b \in mine
        BY <1>1, <3>1, <4>1, <4>2 DEF Header
      <4> QED BY <1>4, <3>1, <4>1, <4>3
    <3>4. CASE \E t \in Threads : Uses(t) /\ call[t].p = p
      <4>1. PICK t \in Threads : Uses(t) /\ call[t].p = p
        BY <3>4
      <4>2. ASSUME call[t].op = "raw" PROVE FALSE
        <5>1. call[t].pc = "unlock"
          BY <1>3, <3>1, <4>1, <4>2 DEF Uses, Owners, Filling
        <5>2. Mine(t) /\ heap[call[t].h].lock = t
          BY <1>3, <4>2, <5>1 DEF Owners, HInv, Locks, Inside
        <5>3. call[t].h = h
          BY <3>1, <4>1, <5>2 DEF Mine, LiveAt, Header
        <5> QED BY <5>2, <5>3, HeapAssumption
      <4>3. call[t].op = "free" /\ call[t].pc \in {"check", "lock", "put"} /\ Mine(t)
        BY <4>1, <4>2 DEF Uses
      <4>4. call[t].h = h
        BY <3>1, <4>1, <4>3 DEF Mine, LiveAt, Header
      <4>5. t \in leaving
        BY <1>1, <4>3, <4>4 DEF Freeing
      <4> QED BY <1>5, <3>1, <4>1, <4>5
    <3> QED BY <1>3, <3>1, <3>2, <3>3, <3>4 DEF OneUser
  <2> QED BY <2>1, <2>2
<1>10. IsFiniteSet(mine) /\ IsFiniteSet(Kept) /\ Cardinality(Kept) = Cardinality(mine)
  <2>1. \A b \in mine : f[b] \in 1..LastCell
    BY <1>4
  <2>2. \A b, d \in mine : b # d => f[b] # f[d]
    BY <1>6
  <2> QED BY <2>1, <2>2, OneEach
<1>11. IsFiniteSet(leaving) /\ IsFiniteSet(Going) /\ Cardinality(Going) = Cardinality(leaving)
  <2>1. \A t \in leaving : g[t] \in 1..LastCell
    BY <1>5
  <2>2. \A t, u \in leaving : t # u => g[t] # g[u]
    BY <1>7
  <2> QED BY <2>1, <2>2, OneEach
<1>12. Cardinality(LiveCells(h)) = Cardinality(mine) + Cardinality(leaving)
  <2> HIDE DEF Kept, Going
  <2>1. Cardinality(Kept \cup Going) = Cardinality(Kept) + Cardinality(Going) - Cardinality(Kept \cap Going)
    BY <1>10, <1>11, FS_Union
  <2>2. Cardinality(Kept \cap Going) = 0
    BY <1>8, FS_EmptySet
  <2>3. Cardinality(Kept) \in Nat /\ Cardinality(Going) \in Nat
    BY <1>10, <1>11, FS_CardinalityType
  <2> QED BY <1>9, <1>10, <1>11, <2>1, <2>2, <2>3
<1>13. Ints(v, mine) /\ Ints(w, leaving) /\ Ints(s, LiveCells(h))
  <2>1. Requests \subseteq Int
    BY HeapAssumption
  <2>2. Ints(v, mine)
    BY <1>4, <2>1 DEF Ints
  <2>3. Ints(w, leaving)
    BY <1>5, <2>1 DEF Ints
  <2> QED BY <1>2, <1>3, <2>2, <2>3, LiveSizes
<1>14. Total(s, Kept) = Total(v, mine)
  <2>1. \A b, d \in mine : b # d => f[b] # f[d]
    BY <1>6
  <2>2. \A b \in mine : s[f[b]] = v[b]
    BY <1>4
  <2> QED BY <1>10, <1>13, <2>1, <2>2, TotalImage
<1>15. Total(s, Going) = Total(w, leaving)
  <2>1. \A t, u \in leaving : t # u => g[t] # g[u]
    BY <1>7
  <2>2. \A t \in leaving : s[g[t]] = w[t]
    BY <1>5
  <2> QED BY <1>11, <1>13, <2>1, <2>2, TotalImage
<1>16. Total(s, LiveCells(h)) = Total(v, mine) + Total(w, leaving)
  <2> HIDE DEF Kept, Going
  <2>1. Ints(s, Kept \cup Going)
    BY <1>9, <1>13
  <2>2. Total(s, Kept \cup Going) = Total(s, Kept) + Total(s, Going)
    BY <1>8, <1>10, <1>11, <2>1, TotalUnion
  <2> QED BY <1>9, <1>14, <1>15, <2>2
<1>17. /\ MapThenSumSet(LAMBDA b : b.n, mine) = Total(v, mine)
       /\ MapThenSumSet(LAMBDA t : call[t].n, leaving) = Total(w, leaving)
  <2>1. \A b \in mine : v[b] = b.n
    BY <1>4
  <2>2. \A t \in leaving : w[t] = call[t].n
    BY <1>5
  <2>3. MapThenSumSet(LAMBDA b : b.n, mine) = Total(v, mine)
    BY <1>10, <2>1, SumOfHeld
  <2>4. MapThenSumSet(LAMBDA t : call[t].n, leaving) = Total(w, leaving)
    BY <1>11, <2>2, SumOfCalls
  <2> QED BY <2>3, <2>4
<1>18. heap[h].nlive = Cardinality(LiveCells(h)) /\ heap[h].live_bytes = Total(s, LiveCells(h))
  BY <1>2 DEF Counts
<1> QED BY <1>1, <1>12, <1>16, <1>17, <1>18

\* "Blocks allocated and not yet freed (a test can require 0: no leaks)" (live,
\* live_bytes): with no call in the heap they are what the program holds, block
\* for block and byte for byte; and cut, raw and free_raw lose no block.
THEOREM NothingIsLost ==
  ASSUME Misuse \subseteq {"write"}
  PROVE  Spec => []NothingLost
<1>1. Detectable
  BY DEF Detectable
<1>2. HInv /\ Counts => NothingLost
  BY NoneLost, CountsAreTrue DEF NothingLost
<1>3. Spec => [](HInv /\ Counts)
  BY <1>1, CountsInvariant
<1> QED BY <1>2, <1>3, PTL
=============================================================================
