------------------------------ MODULE BumpAlloc ------------------------------
(***************************************************************************)
(* mem.alloc in compiled code, called by several threads at once           *)
(* (src/compiler/wasm.rs, OpCode::MemAlloc and emit_grow_or_stop): one     *)
(* atomic add on the heap cursor claims a block; then, with no lock, the   *)
(* thread loads the cursor, compares it with memory.size, and, when the    *)
(* cursor is past the end, loads both again and grows memory by the pages  *)
(* between them.  thread.spawn claims its record, and a starting thread    *)
(* its scratch cells, the same way, but they drop a failed memory.grow     *)
(* (emit_grow_to_cursor).                                                  *)
(***************************************************************************)
EXTENDS Integers

CONSTANTS Threads,
          Align,       (* 8 in the code: every block is a multiple of it    *)
          Page,        (* bytes in a page, 65536 in the code                *)
          MaxBytes,    (* what memory.grow may reach: 2 GiB, or --max-memory *)
          Start,       (* the heap start, also where memory's size begins   *)
          Modulus,     (* addresses are i32: 2^32 in the code               *)
          Requests,    (* the sizes mem.alloc is asked for                  *)
          RecordBytes, (* the size of thread.spawn's record                 *)
          ScratchBytes, (* a spawned thread's scratch cells, RT_SCRATCH_SIZE *)
          AppGrows     (* whether the program calls mem.grow itself         *)

Round(n) == (((n + Align - 1) \div Align) * Align) % Modulus

ASSUME SizesAssumption ==
  /\ Align \in Nat \ {0}
  /\ Page \in Nat \ {0}
  /\ Modulus \in Nat \ {0}
  /\ Requests \subseteq Nat
  /\ RecordBytes \in Nat
  /\ ScratchBytes \in Nat
  /\ AppGrows \in BOOLEAN
  /\ Start \in Nat
  /\ MaxBytes \in Nat
  /\ Start < MaxBytes
  /\ MaxBytes < Modulus

VARIABLES cursor,    \* the word at address 0
          size,      \* memory.size in bytes
          pc,        \* where each thread is in its allocation
          kind,      \* "alloc": mem.alloc; "record": thread.spawn's claim;
                     \* "scratch": that of a thread that starts
          claim,     \* the block each thread is claiming, [lo, hi)
          reg,       \* what it has loaded: the cursor, or the bytes to grow
          blocks,    \* the blocks handed out
          stopped    \* "no", "oom" (the message) or "trap" (out of bounds)

vars == <<cursor, size, pc, kind, claim, reg, blocks, stopped>>

NoClaim == [lo |-> 0, hi |-> 0]
Places == {"start", "idle", "load", "compare", "reload", "pages", "grow", "use"}

Init ==
  /\ cursor = Start
  /\ size \in {b \in 1..MaxBytes : b % Page = 0 /\ b >= Start /\ b - Page < Start}
  /\ pc \in [Threads -> {"start", "idle"}]  \* spawned, or the already running
  /\ kind = [t \in Threads |-> "alloc"]
  /\ claim = [t \in Threads |-> NoClaim]
  /\ reg = [t \in Threads |-> 0]
  /\ blocks = {}
  /\ stopped = "no"

Goto(t, place) == pc' = [pc EXCEPT ![t] = place]

-----------------------------------------------------------------------------
\* Faulty variants of the operations below, for trying the properties on.

\* does not wrap; forgets to round up; grows a page too many
SignedGrowBytes(c, s)  == ((c - s + (Page - 1)) \div Page) * Page
RoundedDownBytes(c, s) == (((c - s) % Modulus) \div Page) * Page
OnePageMoreBytes(c, s) == ((c - s + Page) \div Page) * Page
\* advances the cursor by the size rounded down
ShortClaim(t) ==
  /\ stopped = "no" /\ pc[t] = "idle"
  /\ \E n \in Requests :
       /\ cursor' = cursor + (n \div Align) * Align
       /\ claim' = [claim EXCEPT ![t] = [lo |-> cursor, hi |-> cursor + Round(n)]]
  /\ Goto(t, "load")
  /\ UNCHANGED <<size, kind, reg, blocks, stopped>>
\* gives the block back when memory cannot grow
UndoingGrow(t) ==
  /\ stopped = "no" /\ pc[t] = "grow"
  /\ IF size + reg[t] <= MaxBytes
       THEN size' = size + reg[t] /\ UNCHANGED cursor
       ELSE cursor' = claim[t].lo /\ UNCHANGED size
  /\ Goto(t, "use")
  /\ UNCHANGED <<kind, claim, reg, blocks, stopped>>

-----------------------------------------------------------------------------
\* i32.atomic.rmw.add on the cursor: the old value is the block.
Take(t, k, n) ==
  /\ kind' = [kind EXCEPT ![t] = k]
  /\ cursor' = (cursor + Round(n)) % Modulus
  /\ claim' = [claim EXCEPT ![t] = [lo |-> cursor, hi |-> cursor + Round(n)]]
  /\ Goto(t, "load")
  /\ UNCHANGED <<size, reg, blocks, stopped>>

Claim(t) ==
  /\ stopped = "no"
  /\ pc[t] = "idle"
  /\ \/ \E n \in Requests : Take(t, "alloc", n)
     \/ Take(t, "record", RecordBytes)

\* A spawned thread takes its scratch cells before it runs anything.
ClaimScratch(t) ==
  /\ stopped = "no"
  /\ pc[t] = "start"
  /\ Take(t, "scratch", ScratchBytes)

\* The cursor as it is now, which other threads may have moved on.
LoadCursor(t) ==
  /\ stopped = "no"
  /\ \/ pc[t] = "load" /\ Goto(t, "compare")
     \/ pc[t] = "reload" /\ Goto(t, "pages")
  /\ reg' = [reg EXCEPT ![t] = cursor]
  /\ UNCHANGED <<cursor, size, kind, claim, blocks, stopped>>

\* Past the end of memory?  If not, the allocation is over.
Compare(t) ==
  /\ stopped = "no"
  /\ pc[t] = "compare"
  /\ IF reg[t] > size
       THEN Goto(t, "reload")
       ELSE Goto(t, "use")
  /\ UNCHANGED <<cursor, size, kind, claim, reg, blocks, stopped>>

\* The bytes of the pages between the loaded cursor and memory.size: the
\* subtraction wraps, and the shift that divides by the page is unsigned.
GrowBytes(c, s) == (((c - s + (Page - 1)) % Modulus) \div Page) * Page

Pages(t) ==
  /\ stopped = "no"
  /\ pc[t] = "pages"
  /\ reg' = [reg EXCEPT ![t] = GrowBytes(reg[t], size)]
  /\ Goto(t, "grow")
  /\ UNCHANGED <<cursor, size, kind, claim, blocks, stopped>>

\* memory.grow: all of it or nothing.  mem.alloc stops the program on -1;
\* a record's claim and a scratch claim drop it.
Grow(t) ==
  /\ stopped = "no"
  /\ pc[t] = "grow"
  /\ IF size + reg[t] <= MaxBytes
       THEN size' = size + reg[t] /\ Goto(t, "use") /\ UNCHANGED stopped
       ELSE /\ UNCHANGED size
            /\ IF kind[t] = "alloc"
                 THEN stopped' = "oom" /\ UNCHANGED pc
                 ELSE UNCHANGED stopped /\ Goto(t, "use")
  /\ UNCHANGED <<cursor, kind, claim, reg, blocks>>

\* The program has its block.  A record is written at once: past the end of
\* memory that access traps.  Scratch cells are left for a later host call.
Use(t) ==
  /\ stopped = "no"
  /\ pc[t] = "use"
  /\ IF kind[t] = "record" /\ claim[t].hi > size
       THEN stopped' = "trap" /\ UNCHANGED <<pc, claim, blocks>>
       ELSE /\ blocks' = blocks \cup {claim[t]}
            /\ claim' = [claim EXCEPT ![t] = NoClaim]
            /\ Goto(t, "idle")
            /\ UNCHANGED stopped
  /\ UNCHANGED <<cursor, size, kind, reg>>

\* The mem.grow operation: memory grows by whole pages, cursor or no cursor.
MemGrow(t) ==
  /\ stopped = "no"
  /\ AppGrows
  /\ pc[t] = "idle"
  /\ size + Page <= MaxBytes
  /\ size' = size + Page
  /\ UNCHANGED <<cursor, pc, kind, claim, reg, blocks, stopped>>

Next == \E t \in Threads :
          \/ Claim(t) \/ ClaimScratch(t) \/ LoadCursor(t) \/ Compare(t)
          \/ Pages(t) \/ Grow(t) \/ Use(t) \/ MemGrow(t)

Spec == Init /\ [][Next]_vars

-----------------------------------------------------------------------------
Block == [lo : Nat, hi : Nat]

TypeOK ==
  /\ cursor \in Nat
  /\ size \in Nat
  /\ pc \in [Threads -> Places]
  /\ kind \in [Threads -> {"alloc", "record", "scratch"}]
  /\ claim \in [Threads -> Block]
  /\ reg \in [Threads -> Nat]
  /\ blocks \subseteq Block
  /\ stopped \in {"no", "oom", "trap"}

Disjoint(a, b) == a.hi <= b.lo \/ b.hi <= a.lo

\* No byte belongs to two blocks, whether handed out or still being claimed:
\* the one atomic add is enough, however the growing interleaves.
BlocksDisjoint ==
  /\ \A a, b \in blocks : a # b => Disjoint(a, b)
  /\ \A t \in Threads, b \in blocks : Disjoint(claim[t], b)
  /\ \A t, u \in Threads : t # u => Disjoint(claim[t], claim[u])

\* A block that mem.alloc returns lies inside memory: the unlocked loads of
\* the cursor and of memory.size never conclude too early that it fits.
BlocksInMemory ==
  \A t \in Threads :
    pc[t] = "use" /\ kind[t] = "alloc" => claim[t].hi <= size

\* The cursor's add never wraps: what the two properties above rest on.
CursorNeverWraps == [][cursor' >= cursor]_vars

\* "when it cannot [grow], the program stops" (AIPL_SPEC.md 4.A): out of memory
\* is reported only when some claimed block is past what memory may reach.
OnlyTrulyOutOfMemory ==
  stopped = "oom" => \E t \in Threads : claim[t].hi > MaxBytes

=============================================================================
