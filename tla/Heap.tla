--------------------------------- MODULE Heap ---------------------------------
(***************************************************************************)
(* std/heap (aipl_src/std/heap.aipl): an allocator with per-object free,   *)
(* shared by threads.  Memory is a function from cells (8 bytes each) to   *)
(* what they hold, so free lists are the links really stored in the freed  *)
(* blocks, and a mistake in them shows.  raw and free_raw take the heap's  *)
(* lock (FutexLock shows that a lock word is one); free_raw's three checks *)
(* come before it.                                                         *)
(***************************************************************************)
EXTENDS Integers, FiniteSets, FiniteSetsExt

CONSTANTS Threads, Heaps, None,
          Requests,      (* sizes in bytes a program asks for               *)
          CellBytes,     (* bytes in a cell, 8 in the code                  *)
          ClassCells,    (* size classes in cells: [1..k -> Nat], rising    *)
          Chunk,         (* cells taken from mem.alloc at a time, 8192      *)
          LastCell,      (* memory is the cells 1..LastCell                 *)
          Misuse         (* what a faulty program does (see the misuse      *)
                         (* actions); {} for a correct one                  *)

Classes == DOMAIN ClassCells
CellsOf(n) == (n + CellBytes - 1) \div CellBytes
\* The smallest class that holds n bytes (module SizeClasses).
ClassOf(n) == CHOOSE c \in Classes : /\ ClassCells[c] >= CellsOf(n)
                                     /\ \A d \in 1..c-1 : ClassCells[d] < CellsOf(n)

ASSUME HeapAssumption ==
  /\ None \notin Threads
  /\ CellBytes \in Nat \ {0} /\ Chunk \in Nat /\ LastCell \in Nat
  /\ Requests \subseteq Nat \ {0}
  /\ Classes \subseteq Nat \ {0}
  /\ \A c \in Classes : 1..c \subseteq Classes /\ ClassCells[c] \in Nat \ {0}
  /\ \A n \in Requests : \E c \in Classes : ClassCells[c] >= CellsOf(n)

\* What a cell can hold.  Headers carry the heap and the size asked for.
Zero   == [tag |-> "zero",   a |-> 0, b |-> 0]
Poison == [tag |-> "poison", a |-> 0, b |-> 0]
Data   == [tag |-> "data",   a |-> 0, b |-> 0]
Link(p)         == [tag |-> "link", a |-> p, b |-> 0]
Header(s, h, n) == [tag |-> s, a |-> h, b |-> n]      \* s: "LIVE" or "FREED"

VARIABLES mem,      \* the cells
          brk,      \* the next cell mem.alloc will return
          heap,     \* each Heap struct, and who holds its lock
          call,     \* the call each thread is in
          held,     \* the blocks the program holds
          stale,    \* the blocks a faulty program has passed to free_raw
          dirty,    \* freed blocks written since they were freed
          stopped   \* "no", or the failure that ended the program

vars == <<mem, brk, heap, call, held, stale, dirty, stopped>>

Idle == [pc |-> "idle", op |-> "raw", h |-> 0, p |-> 0, n |-> 0]

Init ==
  /\ mem = [i \in 1..LastCell |-> Zero]
  /\ brk = 1
  /\ heap = [h \in Heaps |-> [lock |-> None, heads |-> [c \in Classes |-> 0],
                              cur |-> 0, end |-> 0,
                              nlive |-> 0, live_bytes |-> 0, reserved |-> 0]]
  /\ call = [t \in Threads |-> Idle]
  /\ held = {} /\ stale = {} /\ dirty = {}
  /\ stopped = "no"

At(t, pc) == stopped = "no" /\ call[t].pc = pc
Goto(t, pc) == call' = [call EXCEPT ![t].pc = pc]
Stop(why) == stopped' = why /\ UNCHANGED <<mem, brk, heap, call, held, dirty>>
Payload(p, n) == p .. p + CellsOf(n) - 1
Store(cells, x) == [i \in DOMAIN mem |-> IF i \in cells THEN x ELSE mem[i]]

-----------------------------------------------------------------------------
\* Faulty variants of the operations below, for trying the properties on.

\* leaves no room for the header
NoHeaderNeed(c) == ClassCells[c]
\* loses the rest of the free list; leaves the block on it
NothingAfter(p) == 0
StillFirst(p) == p
\* looks at no cell
NeverWritten(p) == FALSE
\* one cell too few
Short(p, n) == Payload(p, n) \ {p + CellsOf(n) - 1}
ZeroedShort(p, n) == Store(Short(p, n), Zero)
JunkedShort(p, n) == Store(Short(p, n), Poison)
\* counts frees and no allocations; counts no bytes
FreesCounted(h, blocks, bytes) ==
  IF blocks > 0 THEN heap[h] ELSE [heap[h] EXCEPT !.nlive = @ + blocks]
UncountedBytes(h, blocks, bytes) == [heap[h] EXCEPT !.nlive = @ + blocks]
\* checks the size alone; checks everything but the size
SizeCheck(c) == IF mem[c.p - 1].b # c.n THEN "another size" ELSE "none"
StateCheck(c) == IF mem[c.p - 1] = Header("LIVE", c.h, mem[c.p - 1].b)
                   THEN "none" ELSE "not allocated by this heap"

-----------------------------------------------------------------------------
CallRaw(t) ==
  /\ At(t, "idle")
  /\ \E h \in Heaps, n \in Requests :
       call' = [call EXCEPT ![t] = [pc |-> "lock", op |-> "raw", h |-> h, p |-> 0, n |-> n]]
  /\ UNCHANGED <<mem, brk, heap, held, stale, dirty, stopped>>

\* atomic.lock on the heap's first word, in raw and in free_raw.
LockHeap(t) ==
  /\ At(t, "lock")
  /\ heap[call[t].h].lock = None
  /\ heap' = [heap EXCEPT ![call[t].h].lock = t]
  /\ Goto(t, IF call[t].op = "raw" THEN "take" ELSE "put")
  /\ UNCHANGED <<mem, brk, held, stale, dirty, stopped>>

\* The parts of raw and free_raw.  The next block of a free list:
NextFree(p) == mem[p].a
\* What carve takes from the chunk: a block of class c and its header.
Need(c) == ClassCells[c] + 1
Zeroed(p, n) == Store(Payload(p, n), Zero)
Junked(p, n) == Store(Payload(p, n), Poison)
Counted(h, blocks, bytes) ==
  [heap[h] EXCEPT !.nlive = @ + blocks, !.live_bytes = @ + bytes]

\* A freed block's cells after its link must still hold the junk pattern.
WrittenAfterFree(p) == \E i \in Payload(p, mem[p - 1].b) \ {p} : mem[i] # Poison

\* raw, a freed block of the class: checked, and taken off the free list.
TakeFreed(t) ==
  LET h == call[t].h   c == ClassOf(call[t].n)   p == heap[h].heads[c] IN
  /\ At(t, "take")
  /\ p # 0
  /\ IF WrittenAfterFree(p)
       THEN Stop("written after free")
       ELSE /\ heap' = [heap EXCEPT ![h].heads[c] = NextFree(p)]
            /\ call' = [call EXCEPT ![t].p = p, ![t].pc = "fill"]
            /\ UNCHANGED <<mem, brk, held, dirty, stopped>>
  /\ UNCHANGED stale

\* raw, no freed block: cut one from the chunk, or from a new chunk.
Carve(t) ==
  LET h == call[t].h   c == ClassOf(call[t].n)
      need == Need(c)
      short == need > heap[h].end - heap[h].cur
      chunk == IF need > Chunk THEN need ELSE Chunk
      cur == IF short THEN brk ELSE heap[h].cur IN
  /\ At(t, "take")
  /\ heap[h].heads[c] = 0
  /\ IF short /\ brk + chunk > LastCell + 1
       THEN Stop("out of memory")
       ELSE /\ brk' = IF short THEN brk + chunk ELSE brk
            /\ heap' = [heap EXCEPT
                 ![h].cur = cur + need,
                 ![h].end = IF short THEN brk + chunk ELSE @,
                 ![h].reserved = IF short THEN @ + chunk ELSE @]
            /\ call' = [call EXCEPT ![t].p = cur + 1, ![t].pc = "fill"]
            /\ UNCHANGED <<mem, held, dirty, stopped>>
  /\ UNCHANGED stale

\* raw: the header, the zeroed cells, and the counts.
Fill(t) ==
  LET h == call[t].h   p == call[t].p   n == call[t].n IN
  /\ At(t, "fill")
  /\ mem' = [Zeroed(p, n) EXCEPT ![p - 1] = Header("LIVE", h, n)]
  /\ heap' = [heap EXCEPT ![h] = Counted(h, 1, n)]
  /\ dirty' = dirty \ {p}
  /\ Goto(t, "unlock")
  /\ UNCHANGED <<brk, held, stale, stopped>>

\* atomic.unlock; raw returns its block.
UnlockHeap(t) ==
  LET c == call[t] IN
  /\ At(t, "unlock")
  /\ heap' = [heap EXCEPT ![c.h].lock = None]
  /\ held' = IF c.op = "raw" THEN held \cup {[h |-> c.h, p |-> c.p, n |-> c.n]} ELSE held
  /\ call' = [call EXCEPT ![t] = Idle]
  /\ UNCHANGED <<mem, brk, stale, dirty, stopped>>

\* The program calls free_raw for block b.
CallFree(t, b) ==
  /\ At(t, "idle")
  /\ call' = [call EXCEPT ![t] = [pc |-> "check", op |-> "free", h |-> b.h, p |-> b.p, n |-> b.n]]
  /\ held' = held \ {b}
  /\ stale' = IF Misuse = {} THEN stale ELSE stale \cup {b}
  /\ UNCHANGED <<mem, brk, heap, dirty, stopped>>

\* free_raw's three requirements, read from the header before the lock.
FailedCheck(c) ==
  LET header == mem[c.p - 1] IN
  IF header.tag = "FREED" /\ header.a = c.h THEN "freed already"
  ELSE IF ~(header.tag = "LIVE" /\ header.a = c.h) THEN "not allocated by this heap"
  ELSE IF header.b # c.n THEN "another size"
  ELSE "none"

CheckFree(t) ==
  /\ At(t, "check")
  /\ IF FailedCheck(call[t]) = "none"
       THEN Goto(t, "lock") /\ UNCHANGED <<mem, brk, heap, held, dirty, stopped>>
       ELSE Stop(FailedCheck(call[t]))
  /\ UNCHANGED stale

\* free_raw with the lock: the header, the junk, the link, and the counts.
Put(t) ==
  LET h == call[t].h   p == call[t].p   n == call[t].n   c == ClassOf(n) IN
  /\ At(t, "put")
  /\ mem' = [Junked(p, n) EXCEPT
               ![p - 1] = [@ EXCEPT !.tag = "FREED", !.a = h],
               ![p] = Link(heap[h].heads[c])]
  /\ heap' = [heap EXCEPT ![h] = [Counted(h, -1, -n) EXCEPT !.heads[c] = p]]
  /\ Goto(t, "unlock")
  /\ UNCHANGED <<brk, held, stale, dirty, stopped>>

\* The program fills a block it holds with data.
WriteHeld(t) ==
  /\ At(t, "idle")
  /\ \E b \in held : mem' = Store(Payload(b.p, b.n), Data)
  /\ UNCHANGED <<brk, heap, call, held, stale, dirty, stopped>>

-----------------------------------------------------------------------------
\* Faulty programs.  A block is dead when nobody holds it or is being given it.
Dead(b) == /\ \A other \in held : other.p # b.p
           /\ \A t \in Threads : call[t].op = "raw" => call[t].p # b.p

\* Frees a block again ("again"), even while another thread frees it ("race").
FreeAgain(t) ==
  \E b \in stale :
    /\ Misuse \cap {"again", "race"} # {}
    /\ Dead(b)
    /\ "race" \notin Misuse => \A u \in Threads : call[u].p # b.p
    /\ CallFree(t, b)

\* Frees a block it holds with another size, or from another heap.
FreeWrong(t) ==
  \E b \in held, n \in Requests, h \in Heaps :
    /\ "wrong" \in Misuse
    /\ n # b.n \/ h # b.h
    /\ CallFree(t, [h |-> h, p |-> b.p, n |-> n])

\* Writes into a freed block: into its first cell ("link"), into the rest of
\* what was freed last ("write"), or, through a pointer to a larger block that
\* was freed there before, past that ("spare").
KindOfWrite(p, i) == IF i = p THEN "link"
                     ELSE IF i \in Payload(p, mem[p - 1].b) THEN "write"
                     ELSE "spare"
WriteFreed(t) ==
  /\ At(t, "idle")
  /\ \E b \in stale : \E i \in Payload(b.p, b.n) :
       /\ Dead(b) /\ mem[b.p - 1].tag = "FREED"
       /\ KindOfWrite(b.p, i) \in Misuse
       /\ mem' = [mem EXCEPT ![i] = Data]
       /\ dirty' = dirty \cup {b.p}
  /\ UNCHANGED <<brk, heap, call, held, stale, stopped>>

Next == \E t \in Threads :
          \/ CallRaw(t) \/ LockHeap(t) \/ TakeFreed(t) \/ Carve(t) \/ Fill(t)
          \/ UnlockHeap(t) \/ (\E b \in held : CallFree(t, b)) \/ CheckFree(t) \/ Put(t)
          \/ WriteHeld(t) \/ FreeAgain(t) \/ FreeWrong(t) \/ WriteFreed(t)

Spec == Init /\ [][Next]_vars

-----------------------------------------------------------------------------
TypeOK ==
  /\ \A i \in 1..LastCell : mem[i].tag \in {"zero", "poison", "data", "link", "LIVE", "FREED"}
  /\ brk \in 1..LastCell + 1
  /\ \A h \in Heaps : heap[h].lock \in Threads \cup {None} /\ heap[h].nlive \in Nat
  /\ \A t \in Threads : call[t].pc \in {"idle", "lock", "take", "fill", "check", "put", "unlock"}
  /\ \A b \in held \cup stale : b.h \in Heaps /\ b.p \in 2..LastCell /\ b.n \in Requests

Extent(b) == b.p - 1 .. b.p + ClassCells[ClassOf(b.n)] - 1

BlockOf(t) == [h |-> call[t].h, p |-> call[t].p, n |-> call[t].n]
Giving == {t \in Threads : call[t].op = "raw" /\ call[t].pc \in {"fill", "unlock"}}
Freeing == {t \in Threads : /\ call[t].op = "free"
                            /\ call[t].pc \in {"check", "lock", "put"}}

\* No cell, header included, belongs to two blocks the program has been given,
\* or is being given by calls still under way: raw never hands a block out twice.
HandedOutOnce ==
  /\ \A b, d \in held : b # d => Extent(b) \cap Extent(d) = {}
  /\ \A t \in Giving : \A b \in held : Extent(BlockOf(t)) \cap Extent(b) = {}
  /\ \A t, u \in Giving : t # u => Extent(BlockOf(t)) \cap Extent(BlockOf(u)) = {}

\* The blocks on a free list, following the links in memory.
Walk(h, c) ==
  LET at[i \in 0..LastCell] ==
        IF i = 0 THEN heap[h].heads[c] ELSE IF at[i-1] = 0 THEN 0 ELSE mem[at[i-1]].a
  IN at
FreeList(h, c) == {Walk(h, c)[i] : i \in 0..LastCell} \ {0}

\* Every free list ends (no block is linked twice) and holds only freed blocks
\* of its own heap and size class.
FreeListsSound ==
  \A h \in Heaps, c \in Classes :
    /\ Walk(h, c)[LastCell] = 0
    /\ \A p \in FreeList(h, c) :
         mem[p - 1].tag = "FREED" /\ mem[p - 1].a = h /\ ClassOf(mem[p - 1].b) = c

\* Each block ever cut is held, in a call, or on a free list.
EveryBlockSomewhere ==
  \A i \in 1..LastCell : mem[i].tag \in {"LIVE", "FREED"} =>
    \/ \E b \in held : b.p = i + 1
    \/ \E t \in Threads : call[t].p = i + 1
    \/ i + 1 \in FreeList(mem[i].a, ClassOf(mem[i].b))

\* "Blocks allocated and not yet freed (a test can require 0: no leaks)": with
\* no call in the heap, live and live_bytes count what the program holds.
CountsRight ==
  \A h \in Heaps : heap[h].lock = None /\ stopped = "no" =>
    LET mine == {b \in held : b.h = h}
        leaving == {t \in Freeing : call[t].h = h}
    IN  /\ heap[h].nlive = Cardinality(mine) + Cardinality(leaving)
        /\ heap[h].live_bytes = MapThenSumSet(LAMBDA b : b.n, mine)
                               + MapThenSumSet(LAMBDA t : call[t].n, leaving)

\* No block is lost (cut, free_raw), and none is missing from the counts or counted twice.
NothingLost == EveryBlockSomewhere /\ CountsRight

\* "n zeroed bytes": whatever the block held before, raw returns it zeroed, and
\* nothing another thread does in the meantime shows in it.
ReturnsZeroed ==
  \A t \in Giving : call[t].pc = "unlock" =>
    \A i \in Payload(call[t].p, call[t].n) : mem[i] = Zero

\* A correct program never meets one of the heap's failures.
NoFalseAlarm == Misuse = {} => stopped \in {"no", "out of memory"}

\* "a write after free is reported then" (heap.aipl:16-17): a freed block
\* written to is never handed out.
WriteAfterFreeReported ==
  \A t \in Giving : call[t].pc = "fill" => call[t].p \notin dirty

\* For a correct program the heap implements Allocator: raw allocates when it
\* has found its block, free_raw frees when it links it.
Live == {Extent(b) : b \in held} \cup {Extent(BlockOf(t)) : t \in Giving \cup Freeing}
A == INSTANCE Allocator WITH Cells <- 1..LastCell, live <- Live
ImplementsAllocator == A!Spec

=============================================================================
