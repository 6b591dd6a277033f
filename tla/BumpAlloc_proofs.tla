--------------------------- MODULE BumpAlloc_proofs ---------------------------
(* What mem.alloc guarantees to any number of threads, for every size of    *)
(* page, memory and address, as long as the cursor's add does not wrap.     *)
EXTENDS BumpAlloc, FiniteSetTheorems, TLAPS

-----------------------------------------------------------------------------
\* Arithmetic the model is built from.  An add or a subtraction that stays
\* below the modulus is not changed by the wrapping of i32s.
LEMMA ModSmall ==
  ASSUME NEW x \in Nat, NEW m \in Nat \ {0}, x < m
  PROVE  x % m = x
OBVIOUS

\* A wrapped i32 is an address, whatever went into it.
LEMMA ModRange ==
  ASSUME NEW x \in Int, NEW m \in Nat \ {0}
  PROVE  x % m \in 0..(m - 1)
OBVIOUS

\* Dividing by the page and multiplying by it loses less than a page.
LEMMA DivMul ==
  ASSUME NEW x \in Nat, NEW p \in Nat \ {0}
  PROVE  /\ x \div p \in Nat
         /\ (x \div p) * p \in Nat
         /\ x < (x \div p) * p + p
OBVIOUS

\* A multiple of the page that is not zero is at least a page.
LEMMA WholePages ==
  ASSUME NEW x \in Nat, NEW p \in Nat \ {0}, x % p = 0, x > 0
  PROVE  x >= p
OBVIOUS

\* An add that does not come out lower has not wrapped.
LEMMA AddWithoutWrap ==
  ASSUME NEW a \in Nat, NEW b \in Nat, NEW m \in Nat \ {0},
         a < m, b < m, (a + b) % m >= a
  PROVE  (a + b) % m = a + b
<1>1. CASE a + b < m
  BY <1>1, ModSmall
<1>2. CASE a + b >= m
  <2>1. (a + b) % m = a + b - m
    BY <1>2
  <2> QED BY <2>1
<1> QED BY <1>1, <1>2

\* What mem.alloc adds to the cursor is an i32, for every size asked for.
LEMMA RoundType ==
  ASSUME NEW n \in Nat
  PROVE  Round(n) \in Nat /\ Round(n) < Modulus
<1>1. ((n + Align - 1) \div Align) * Align \in Int
  BY SizesAssumption
<1> QED BY <1>1, ModRange, SizesAssumption DEF Round

\* Growing by GrowBytes(c, s) from s or more covers c, also when memory is
\* already past c (then the subtraction wraps and asks for far too much).
LEMMA GrowEnough ==
  ASSUME NEW c \in Nat, NEW s \in Nat, c < Modulus, s >= Page
  PROVE  GrowBytes(c, s) \in Nat /\ s + GrowBytes(c, s) >= c
<1> DEFINE x == (c - s + (Page - 1)) % Modulus
<1>1. x \in Nat
  BY ModRange, SizesAssumption
<1>2. GrowBytes(c, s) = (x \div Page) * Page
  BY DEF GrowBytes
<1>3. GrowBytes(c, s) \in Nat /\ x < GrowBytes(c, s) + Page
  BY <1>1, <1>2, DivMul, SizesAssumption
<1>4. CASE c >= s
  <2>1. x = c - s + (Page - 1)
    BY <1>4, ModSmall, SizesAssumption
  <2> QED BY <1>3, <2>1, SizesAssumption
<1>5. CASE c < s
  BY <1>3, <1>5
<1> QED BY <1>4, <1>5

-----------------------------------------------------------------------------
\* The claims and the blocks all end at or before the cursor and do not meet.
BelowCursor ==
  /\ cursor < Modulus
  /\ \A b \in blocks : b.lo <= b.hi /\ b.hi <= cursor
  /\ \A t \in Threads : claim[t].lo <= claim[t].hi /\ claim[t].hi <= cursor

\* What a thread has loaded covers the block it is claiming.
Covered(t) ==
  /\ pc[t] \in {"compare", "pages"} => reg[t] >= claim[t].hi /\ reg[t] < Modulus
  /\ pc[t] = "grow" => size + reg[t] >= claim[t].hi
  /\ pc[t] = "use" /\ kind[t] = "alloc" => claim[t].hi <= size

IInv ==
  /\ TypeOK
  /\ size >= Page
  /\ BelowCursor
  /\ BlocksDisjoint
  /\ \A t \in Threads : Covered(t)

NoWrap == cursor' >= cursor

\* A claim by atomic add keeps blocks apart.
LEMMA ClaimStep ==
  ASSUME IInv, NEW t \in Threads, Claim(t) \/ ClaimScratch(t), NoWrap
  PROVE  IInv'
<1> USE DEF IInv, TypeOK, Block
<1>0. PICK k \in {"alloc", "record", "scratch"}, n \in Nat : Take(t, k, n)
  BY SizesAssumption DEF Claim, ClaimScratch
<1>1. /\ kind' = [kind EXCEPT ![t] = k]
      /\ cursor' = (cursor + Round(n)) % Modulus
      /\ claim' = [claim EXCEPT ![t] = [lo |-> cursor, hi |-> cursor + Round(n)]]
  BY <1>0 DEF Take
<1>2. n \in Nat
  OBVIOUS
<1>3. Round(n) \in Nat /\ Round(n) < Modulus
  BY <1>2, RoundType
<1>4. cursor' = cursor + Round(n)
  BY <1>1, <1>3, AddWithoutWrap, SizesAssumption DEF NoWrap, BelowCursor
<1>5. cursor' < Modulus
  BY <1>1, <1>3, ModRange, SizesAssumption
<1>6. pc' = [pc EXCEPT ![t] = "load"] /\ UNCHANGED <<size, reg, blocks, stopped>>
  BY <1>0 DEF Take, Goto
<1>7. TypeOK'
  BY <1>1, <1>3, <1>4, <1>6 DEF Places
<1>8. BelowCursor'
  <2>1. \A b \in blocks' : b.lo <= b.hi /\ b.hi <= cursor'
    BY <1>3, <1>4, <1>6 DEF BelowCursor
  <2>2. ASSUME NEW u \in Threads
        PROVE  claim'[u].lo <= claim'[u].hi /\ claim'[u].hi <= cursor'
    <3>1. CASE u = t
      BY <1>1, <1>3, <1>4, <3>1
    <3>2. CASE u # t
      <4>1. claim'[u] = claim[u] /\ claim[u] \in Block
        BY <1>1, <3>2
      <4> QED BY <1>3, <1>4, <4>1 DEF BelowCursor
    <3> QED BY <3>1, <3>2
  <2> QED BY <1>5, <2>1, <2>2 DEF BelowCursor
<1>9. BlocksDisjoint'
  <2>1. \A u \in Threads : u # t => claim'[u] = claim[u]
    BY <1>1
  <2>2. claim'[t].lo = cursor
    BY <1>1
  <2>3. \A b \in blocks : Disjoint(claim'[t], b)
    BY <2>2 DEF BelowCursor, Disjoint
  <2>4. \A u \in Threads : u # t => Disjoint(claim'[t], claim[u]) /\ Disjoint(claim[u], claim'[t])
    BY <2>2 DEF BelowCursor, Disjoint
  <2> QED BY <1>6, <2>1, <2>3, <2>4 DEF BlocksDisjoint
<1>10. ASSUME NEW u \in Threads PROVE Covered(u)'
  BY <1>1, <1>6 DEF Covered
<1> QED BY <1>6, <1>7, <1>8, <1>9, <1>10

\* The steps that only look and grow keep it too.
LEMMA OtherSteps ==
  ASSUME IInv, NEW t \in Threads,
         LoadCursor(t) \/ Compare(t) \/ Pages(t) \/ Grow(t) \/ Use(t) \/ MemGrow(t)
  PROVE  IInv'
<1> USE SizesAssumption DEF IInv, TypeOK, Block, Places
<1>1. CASE LoadCursor(t)
  <2>1. TypeOK' /\ UNCHANGED <<cursor, size, kind, claim, blocks>>
    BY <1>1 DEF LoadCursor, Goto
  <2>2. BelowCursor' /\ BlocksDisjoint'
    BY <2>1 DEF BelowCursor, BlocksDisjoint
  <2>3. ASSUME NEW u \in Threads PROVE Covered(u)'
    BY <1>1, <2>1 DEF LoadCursor, Goto, Covered, BelowCursor
  <2> QED BY <2>1, <2>2, <2>3
<1>2. CASE Compare(t)
  <2>1. TypeOK' /\ UNCHANGED <<cursor, size, kind, claim, blocks, reg>>
    BY <1>2 DEF Compare, Goto
  <2>2. BelowCursor' /\ BlocksDisjoint'
    BY <2>1 DEF BelowCursor, BlocksDisjoint
  <2>3. ASSUME NEW u \in Threads PROVE Covered(u)'
    <3>1. claim[u].hi \in Nat /\ reg[u] \in Nat
      OBVIOUS
    <3> QED BY <1>2, <2>1, <3>1 DEF Compare, Goto, Covered
  <2> QED BY <2>1, <2>2, <2>3
<1>3. CASE Pages(t)
  <2>1. pc[t] = "pages" /\ reg' = [reg EXCEPT ![t] = GrowBytes(reg[t], size)]
        /\ pc' = [pc EXCEPT ![t] = "grow"]
        /\ UNCHANGED <<cursor, size, kind, claim, blocks, stopped>>
    BY <1>3 DEF Pages, Goto
  <2>2. GrowBytes(reg[t], size) \in Nat /\ size + GrowBytes(reg[t], size) >= reg[t]
    BY <2>1, GrowEnough DEF Covered
  <2>3. TypeOK'
    BY <2>1, <2>2
  <2>4. BelowCursor' /\ BlocksDisjoint'
    BY <2>1 DEF BelowCursor, BlocksDisjoint
  <2>5. ASSUME NEW u \in Threads PROVE Covered(u)'
    <3>1. CASE u = t
      <4>1. claim[t].hi \in Nat /\ reg[t] >= claim[t].hi
        BY <2>1 DEF Covered
      <4> QED BY <2>1, <2>2, <3>1, <4>1 DEF Covered
    <3>2. CASE u # t
      BY <2>1, <3>2 DEF Covered
    <3> QED BY <3>1, <3>2
  <2> QED BY <2>1, <2>3, <2>4, <2>5
<1>4. CASE Grow(t)
  <2>1. pc[t] = "grow" /\ UNCHANGED <<cursor, kind, claim, reg, blocks>>
    BY <1>4 DEF Grow
  <2>2. BelowCursor' /\ BlocksDisjoint'
    BY <2>1 DEF BelowCursor, BlocksDisjoint
  <2>3. CASE size + reg[t] <= MaxBytes
    <3>1. size' = size + reg[t] /\ pc' = [pc EXCEPT ![t] = "use"] /\ UNCHANGED stopped
      BY <1>4, <2>3 DEF Grow, Goto
    <3>2. TypeOK' /\ size' >= Page
      BY <2>1, <3>1
    <3>3. ASSUME NEW u \in Threads PROVE Covered(u)'
      <4>1. claim[u].hi \in Nat /\ reg[u] \in Nat /\ reg[t] \in Nat
        OBVIOUS
      <4>2. CASE u = t
        BY <2>1, <3>1, <4>1, <4>2 DEF Covered
      <4>3. CASE u # t
        BY <2>1, <3>1, <4>1, <4>3 DEF Covered
      <4> QED BY <4>2, <4>3
    <3> QED BY <2>2, <3>2, <3>3
  <2>4. CASE ~(size + reg[t] <= MaxBytes)
    <3>1. UNCHANGED size
      BY <1>4, <2>4 DEF Grow
    <3>2. TypeOK'
      BY <1>4, <2>1, <2>4 DEF Grow, Goto
    <3>3. ASSUME NEW u \in Threads PROVE Covered(u)'
      BY <1>4, <2>1, <2>4 DEF Grow, Goto, Covered
    <3> QED BY <2>2, <3>1, <3>2, <3>3
  <2> QED BY <2>3, <2>4
<1>5. CASE Use(t)
  <2>1. pc[t] = "use" /\ UNCHANGED <<cursor, size, kind, reg>>
    BY <1>5 DEF Use
  <2>2. CASE kind[t] = "record" /\ claim[t].hi > size
    <3>1. UNCHANGED <<pc, claim, blocks>> /\ stopped' = "trap"
      BY <1>5, <2>2 DEF Use
    <3> QED BY <2>1, <3>1 DEF BelowCursor, BlocksDisjoint, Covered
  <2>3. CASE ~(kind[t] = "record" /\ claim[t].hi > size)
    <3>1. /\ blocks' = blocks \cup {claim[t]}
          /\ claim' = [claim EXCEPT ![t] = NoClaim]
          /\ pc' = [pc EXCEPT ![t] = "idle"]
          /\ UNCHANGED stopped
      BY <1>5, <2>3 DEF Use, Goto
    <3>2. TypeOK'
      BY <2>1, <3>1 DEF NoClaim
    <3>3. BelowCursor'
      BY <2>1, <3>1 DEF BelowCursor, NoClaim
    <3>4. BlocksDisjoint'
      <4>1. ASSUME NEW a \in blocks', NEW b \in blocks', a # b PROVE Disjoint(a, b)
        BY <3>1, <4>1 DEF BlocksDisjoint, Disjoint
      <4>2. ASSUME NEW u \in Threads, NEW b \in blocks' PROVE Disjoint(claim'[u], b)
        <5>1. CASE u = t
          BY <3>1, <5>1 DEF NoClaim, Disjoint
        <5>2. CASE u # t
          BY <3>1, <5>2 DEF BlocksDisjoint
        <5> QED BY <5>1, <5>2
      <4>3. ASSUME NEW u \in Threads, NEW v \in Threads, u # v
            PROVE  Disjoint(claim'[u], claim'[v])
        <5>1. CASE u = t \/ v = t
          BY <3>1, <4>3, <5>1 DEF NoClaim, Disjoint
        <5>2. CASE u # t /\ v # t
          BY <3>1, <4>3, <5>2 DEF BlocksDisjoint
        <5> QED BY <5>1, <5>2
      <4> QED BY <4>1, <4>2, <4>3 DEF BlocksDisjoint
    <3>5. ASSUME NEW u \in Threads PROVE Covered(u)'
      BY <2>1, <3>1 DEF Covered
    <3> QED BY <2>1, <3>2, <3>3, <3>4, <3>5
  <2> QED BY <2>2, <2>3
<1>6. CASE MemGrow(t)
  <2>1. size' = size + Page /\ UNCHANGED <<cursor, pc, kind, claim, reg, blocks, stopped>>
    BY <1>6 DEF MemGrow
  <2>2. TypeOK' /\ size' >= Page
    BY <2>1
  <2>3. BelowCursor' /\ BlocksDisjoint'
    BY <2>1 DEF BelowCursor, BlocksDisjoint
  <2>4. ASSUME NEW u \in Threads PROVE Covered(u)'
    <3>1. claim[u].hi \in Nat /\ reg[u] \in Nat
      OBVIOUS
    <3> QED BY <2>1, <3>1 DEF Covered
  <2> QED BY <2>2, <2>3, <2>4
<1> QED BY <1>1, <1>2, <1>3, <1>4, <1>5, <1>6

\* A program starts with nothing claimed and memory past the heap start.
LEMMA InitInv == Init => IInv
<1> SUFFICES ASSUME Init PROVE IInv
  OBVIOUS
<1> USE SizesAssumption
<1>1. size \in Nat /\ size > 0 /\ size % Page = 0
  BY DEF Init
<1>2. size >= Page
  BY <1>1, WholePages
<1>3. TypeOK
  BY <1>1 DEF Init, TypeOK, Block, Places, NoClaim
<1>4. BelowCursor /\ BlocksDisjoint /\ \A t \in Threads : Covered(t)
  BY DEF Init, BelowCursor, BlocksDisjoint, Disjoint, Covered, NoClaim
<1> QED BY <1>2, <1>3, <1>4 DEF IInv

-----------------------------------------------------------------------------
\* Any number of threads may allocate at once: as long as the cursor's add
\* does not wrap past 2^32, no two blocks overlap and every block mem.alloc
\* returns is inside memory.
THEOREM ConcurrentAllocationSafe ==
  Spec /\ CursorNeverWraps => [](TypeOK /\ BlocksDisjoint /\ BlocksInMemory)
<1>1. IInv /\ [Next]_vars /\ [NoWrap]_vars => IInv'
  <2> SUFFICES ASSUME IInv, [Next]_vars, [NoWrap]_vars PROVE IInv'
    OBVIOUS
  <2>1. CASE UNCHANGED vars
    BY <2>1 DEF vars, IInv, TypeOK, BelowCursor, BlocksDisjoint, Covered
  <2>2. CASE Next /\ NoWrap
    BY <2>2, ClaimStep, OtherSteps DEF Next
  <2> QED BY <2>1, <2>2
<1>2. IInv => TypeOK /\ BlocksDisjoint /\ BlocksInMemory
  BY DEF IInv, BlocksInMemory, Covered
<1>3. CursorNeverWraps <=> [][NoWrap]_vars
  BY DEF CursorNeverWraps, NoWrap
<1> QED BY <1>1, <1>2, <1>3, InitInv, PTL DEF Spec

\* Every block mem.alloc has returned is in memory to its last byte, though each
\* thread compared a stale cursor with a stale size and other threads grew meanwhile.
THEOREM ReturnedBlocksInMemory == Spec /\ CursorNeverWraps => []BlocksInMemory
BY ConcurrentAllocationSafe, PTL

-----------------------------------------------------------------------------
\* When the cursor's add cannot wrap.  A block or a record past what memory may
\* reach is never handed out, so at any time each such one is what some thread is
\* claiming, and stays so: the cursor passes the limit by one a thread at most.
\* Scratch cells are handed out past the limit too, but once to a thread.
Past == {t \in Threads : kind[t] # "scratch" /\ claim[t].hi > MaxBytes}
Begun == {t \in Threads : pc[t] # "start"}
Room(most, past, begun) ==
  MaxBytes + Cardinality(past) * most + Cardinality(begun) * Round(ScratchBytes)

RoomFor(most) ==
  /\ IsFiniteSet(Threads)
  /\ \A n \in Requests \cup {RecordBytes} : Round(n) <= most
  /\ Room(most, Threads, Threads) < Modulus

AboutToWrap(most) ==
  /\ IInv
  /\ size <= MaxBytes
  /\ \A t \in Threads : pc[t] \in {"start", "idle"} => claim[t] = NoClaim
  /\ cursor <= Room(most, Past, Begun)

\* More threads need at least as much, and one more needs one more.
LEMMA OneMore ==
  ASSUME NEW k \in Nat, NEW l \in Nat, NEW most \in Nat, l >= k
  PROVE  /\ l * most >= k * most /\ (k + 1) * most = k * most + most
         /\ l * most \in Nat /\ k * most \in Nat
<1>1. PICK d \in Nat : l = k + d
  BY l = k + (l - k), l - k \in Nat
<1>2. (k + d) * most = k * most + d * most /\ d * most \in Nat
  OBVIOUS
<1> QED BY <1>1, <1>2

\* One more thread in a set of threads is one more in its size.
LEMMA AddThread ==
  ASSUME NEW S, S \subseteq Threads, IsFiniteSet(Threads), NEW m \in Nat,
         NEW t \in Threads, t \notin S
  PROVE  Cardinality(S \cup {t}) * m = Cardinality(S) * m + m
<1>1. IsFiniteSet(S) /\ Cardinality(S) \in Nat
  BY FS_Subset, FS_CardinalityType
<1>2. Cardinality(S \cup {t}) = Cardinality(S) + 1
  BY <1>1, FS_AddElement
<1> QED BY <1>1, <1>2, OneMore

\* What a set of threads needs is a number, and no more than all of them need.
LEMMA Counts ==
  ASSUME IsFiniteSet(Threads), NEW S, S \subseteq Threads, NEW m \in Nat
  PROVE  /\ Cardinality(S) * m \in Nat
         /\ Cardinality(S) * m <= Cardinality(Threads) * m
         /\ Cardinality(Threads) * m \in Nat
<1>1. /\ Cardinality(S) \in Nat /\ Cardinality(Threads) \in Nat
      /\ Cardinality(S) <= Cardinality(Threads)
  BY FS_Subset, FS_CardinalityType
<1> QED BY <1>1, OneMore

\* A claim of n bytes that fits below the room for all threads does not wrap; it
\* leaves AboutToWrap if the room for those past and begun grows by as much.
LEMMA TakeHasRoom ==
  ASSUME NEW most \in Nat, RoomFor(most), AboutToWrap(most), NEW t \in Threads,
         Claim(t) \/ ClaimScratch(t), NEW k, NEW n \in Nat, Take(t, k, n),
         NEW past \in SUBSET Threads, NEW begun \in SUBSET Threads,
         cursor + Round(n) <= Room(most, past, begun)
  PROVE  /\ NoWrap /\ IInv' /\ cursor' = cursor + Round(n) /\ size' <= MaxBytes
         /\ pc' = [pc EXCEPT ![t] = "load"] /\ kind' = [kind EXCEPT ![t] = k]
         /\ claim' = [claim EXCEPT ![t] = [lo |-> cursor, hi |-> cursor']]
         /\ \A u \in Threads : pc'[u] \in {"start", "idle"} => claim'[u] = NoClaim
<1>1. /\ Round(n) \in Nat /\ cursor \in Nat /\ pc \in [Threads -> Places]
      /\ claim \in [Threads -> Block]
  BY RoundType DEF AboutToWrap, IInv, TypeOK
<1>2. Round(ScratchBytes) \in Nat
  BY RoundType, SizesAssumption
<1>3. Room(most, past, begun) <= Room(most, Threads, Threads)
      /\ Room(most, past, begun) \in Nat /\ Room(most, Threads, Threads) \in Nat
  <2>1. /\ Cardinality(past) * most \in Nat
        /\ Cardinality(past) * most <= Cardinality(Threads) * most
        /\ Cardinality(Threads) * most \in Nat
    BY Counts DEF RoomFor
  <2>2. /\ Cardinality(begun) * Round(ScratchBytes) \in Nat
        /\ Cardinality(begun) * Round(ScratchBytes) <= Cardinality(Threads) * Round(ScratchBytes)
        /\ Cardinality(Threads) * Round(ScratchBytes) \in Nat
    BY <1>2, Counts DEF RoomFor
  <2> DEFINE a == Cardinality(past) * most
             b == Cardinality(Threads) * most
             c == Cardinality(begun) * Round(ScratchBytes)
             d == Cardinality(Threads) * Round(ScratchBytes)
  <2>3. a \in Nat /\ b \in Nat /\ c \in Nat /\ d \in Nat /\ a <= b /\ c <= d
    BY <2>1, <2>2
  <2> HIDE DEF a, b, c, d
  <2>4. /\ MaxBytes + a + c <= MaxBytes + b + d
        /\ MaxBytes + a + c \in Nat /\ MaxBytes + b + d \in Nat
    BY <2>3, SizesAssumption
  <2> QED BY <2>4 DEF Room, a, b, c, d
<1>4. cursor' = cursor + Round(n)
  <2>1. cursor + Round(n) < Modulus
    BY <1>1, <1>3, SizesAssumption DEF RoomFor
  <2> QED BY <1>1, <2>1, ModSmall, SizesAssumption DEF Take
<1>5. NoWrap
  BY <1>1, <1>4 DEF NoWrap
<1>6. IInv'
  BY <1>5, ClaimStep DEF AboutToWrap
<1>7. /\ pc' = [pc EXCEPT ![t] = "load"] /\ kind' = [kind EXCEPT ![t] = k] /\ size' = size
      /\ claim' = [claim EXCEPT ![t] = [lo |-> cursor, hi |-> cursor']]
  BY <1>4 DEF Take, Goto
<1>8. \A u \in Threads : pc'[u] \in {"start", "idle"} => claim'[u] = NoClaim
  BY <1>1, <1>7 DEF AboutToWrap
<1> QED BY <1>4, <1>5, <1>6, <1>7, <1>8 DEF AboutToWrap

\* A claim moves the cursor by no more than a block; past the limit, the thread
\* that claims is one more that will not come back.
LEMMA ClaimHasRoom ==
  ASSUME NEW most \in Nat, RoomFor(most), AboutToWrap(most), NEW t \in Threads, Claim(t)
  PROVE  NoWrap /\ AboutToWrap(most)'
<1>1. PICK k \in {"alloc", "record"}, n \in Requests \cup {RecordBytes} : Take(t, k, n)
  BY DEF Claim
<1>2. /\ n \in Nat /\ Round(n) \in Nat /\ Round(n) <= most /\ cursor \in Nat
      /\ claim \in [Threads -> Block] /\ pc \in [Threads -> Places]
      /\ kind \in [Threads -> {"alloc", "record", "scratch"}]
  BY RoundType, SizesAssumption DEF RoomFor, AboutToWrap, IInv, TypeOK
<1>3. pc[t] = "idle" /\ claim[t] = NoClaim /\ t \notin Past
  BY SizesAssumption DEF Claim, AboutToWrap, Past, NoClaim
<1>4. Past \in SUBSET Threads /\ Past \cup {t} \in SUBSET Threads /\ Begun \in SUBSET Threads
  BY DEF Past, Begun
<1>5. /\ Room(most, Past \cup {t}, Begun) = Room(most, Past, Begun) + most
      /\ Room(most, Past, Begun) \in Nat /\ MaxBytes <= Room(most, Past, Begun)
  <2> DEFINE a == Cardinality(Past) * most
             b == Cardinality(Past \cup {t}) * most
             c == Cardinality(Begun) * Round(ScratchBytes)
  <2>1. a \in Nat /\ b = a + most
    BY <1>3, <1>4, Counts, AddThread DEF RoomFor
  <2>2. c \in Nat
    BY <1>4, Counts, RoundType, SizesAssumption DEF RoomFor
  <2> HIDE DEF a, b, c
  <2>3. MaxBytes + b + c = (MaxBytes + a + c) + most /\ MaxBytes + a + c \in Nat
        /\ MaxBytes <= MaxBytes + a + c
    BY <2>1, <2>2, SizesAssumption
  <2> QED BY <2>3 DEF Room, a, b, c
<1>6. cursor + Round(n) <= Room(most, Past \cup {t}, Begun)
  BY <1>2, <1>5 DEF AboutToWrap
<1>7. /\ NoWrap /\ IInv' /\ cursor' = cursor + Round(n) /\ size' <= MaxBytes
      /\ pc' = [pc EXCEPT ![t] = "load"] /\ kind' = [kind EXCEPT ![t] = k]
      /\ claim' = [claim EXCEPT ![t] = [lo |-> cursor, hi |-> cursor']]
      /\ \A u \in Threads : pc'[u] \in {"start", "idle"} => claim'[u] = NoClaim
  BY <1>1, <1>2, <1>4, <1>6, TakeHasRoom
<1>8. Begun' = Begun
  BY <1>2, <1>3, <1>7 DEF Begun
<1>9. cursor' <= Room(most, Past', Begun)
  <2>1. CASE cursor' > MaxBytes
    <3>1. Past' = Past \cup {t}
      BY <1>2, <1>7, <2>1 DEF Past
    <3> QED BY <1>6, <1>7, <3>1
  <2>2. CASE cursor' <= MaxBytes
    <3>1. Past' = Past
      BY <1>2, <1>3, <1>7, <2>2, SizesAssumption DEF Past
    <3> QED BY <1>2, <1>5, <1>7, <2>2, <3>1, SizesAssumption
  <2> QED BY <1>2, <1>7, <2>1, <2>2, SizesAssumption
<1> QED BY <1>7, <1>8, <1>9 DEF AboutToWrap

\* A thread's scratch cells are the only ones it takes.
LEMMA ScratchHasRoom ==
  ASSUME NEW most \in Nat, RoomFor(most), AboutToWrap(most), NEW t \in Threads, ClaimScratch(t)
  PROVE  NoWrap /\ AboutToWrap(most)'
<1> DEFINE m == Round(ScratchBytes)
<1>1. Take(t, "scratch", ScratchBytes) /\ pc[t] = "start" /\ claim[t] = NoClaim /\ t \notin Past
  BY SizesAssumption DEF ClaimScratch, AboutToWrap, Past, NoClaim
<1>2. /\ m \in Nat /\ cursor \in Nat
      /\ claim \in [Threads -> Block] /\ pc \in [Threads -> Places]
      /\ kind \in [Threads -> {"alloc", "record", "scratch"}]
  BY RoundType, SizesAssumption DEF AboutToWrap, IInv, TypeOK
<1>3. /\ Past \in SUBSET Threads /\ Begun \in SUBSET Threads
      /\ Begun \cup {t} \in SUBSET Threads /\ t \notin Begun
  BY <1>1 DEF Past, Begun
<1>4. Room(most, Past, Begun \cup {t}) = Room(most, Past, Begun) + m
      /\ Room(most, Past, Begun) \in Nat
  <2> DEFINE a == Cardinality(Past) * most
             b == Cardinality(Begun) * m
             c == Cardinality(Begun \cup {t}) * m
  <2>1. b \in Nat /\ c = b + m
    BY <1>2, <1>3, Counts, AddThread DEF RoomFor
  <2>2. a \in Nat
    BY <1>3, Counts DEF RoomFor
  <2>3. Room(most, Past, Begun) = MaxBytes + a + b /\ Room(most, Past, Begun \cup {t}) = MaxBytes + a + c
    BY DEF Room
  <2> HIDE DEF a, b, c, m
  <2> QED BY <1>2, <2>1, <2>2, <2>3, SizesAssumption
<1>5. cursor + m <= Room(most, Past, Begun \cup {t})
  BY <1>2, <1>4 DEF AboutToWrap
<1>6. /\ NoWrap /\ IInv' /\ cursor' = cursor + m /\ size' <= MaxBytes
      /\ pc' = [pc EXCEPT ![t] = "load"] /\ kind' = [kind EXCEPT ![t] = "scratch"]
      /\ claim' = [claim EXCEPT ![t] = [lo |-> cursor, hi |-> cursor']]
      /\ \A u \in Threads : pc'[u] \in {"start", "idle"} => claim'[u] = NoClaim
  BY <1>1, <1>3, <1>5, TakeHasRoom, SizesAssumption
<1>7. Begun' = Begun \cup {t}
  BY <1>2, <1>6 DEF Begun
<1>8. Past' = Past
  BY <1>1, <1>2, <1>6 DEF Past
<1> QED BY <1>5, <1>6, <1>7, <1>8 DEF AboutToWrap

\* No other step moves the cursor, and one that ends a claim had it in memory.
LEMMA OthersKeepRoom ==
  ASSUME NEW most \in Nat, RoomFor(most), AboutToWrap(most), NEW t \in Threads,
         LoadCursor(t) \/ Compare(t) \/ Pages(t) \/ Grow(t) \/ Use(t) \/ MemGrow(t)
  PROVE  NoWrap /\ AboutToWrap(most)'
<1>1. cursor' = cursor /\ cursor \in Nat /\ IInv'
  <2>1. IInv'
    BY OtherSteps DEF AboutToWrap
  <2> QED BY <2>1 DEF LoadCursor, Compare, Pages, Grow, Use, MemGrow, AboutToWrap, IInv, TypeOK
<1>2. /\ pc \in [Threads -> Places] /\ claim \in [Threads -> Block]
      /\ size \in Nat /\ size <= MaxBytes
      /\ \A u \in Threads : pc[u] \in {"start", "idle"} => claim[u] = NoClaim
  BY DEF AboutToWrap, IInv, TypeOK
<1>3. size' <= MaxBytes /\ kind' = kind
  BY <1>2, SizesAssumption DEF LoadCursor, Compare, Pages, Grow, Use, MemGrow
<1>4. CASE /\ UNCHANGED claim
           /\ \A u \in Threads : \/ pc'[u] = pc[u]
                                 \/ {pc[u], pc'[u]} \cap {"start", "idle"} = {}
  <2>1. Past' = Past /\ Begun' = Begun
    BY <1>3, <1>4 DEF Past, Begun
  <2>2. \A u \in Threads : pc'[u] \in {"start", "idle"} => claim'[u] = NoClaim
    BY <1>2, <1>4
  <2> QED BY <1>1, <1>3, <2>1, <2>2 DEF AboutToWrap, NoWrap
<1>5. CASE /\ pc[t] = "use" /\ ~(kind[t] = "record" /\ claim[t].hi > size)
           /\ claim' = [claim EXCEPT ![t] = NoClaim] /\ pc' = [pc EXCEPT ![t] = "idle"]
  <2>1. kind[t] # "scratch" => claim[t].hi <= size
    <3>1. Covered(t) /\ kind[t] \in {"alloc", "record", "scratch"} /\ claim[t] \in Block
      BY DEF AboutToWrap, IInv, TypeOK
    <3> QED BY <1>2, <1>5, <3>1 DEF Covered, Block
  <2>2. t \notin Past /\ \A u \in Threads : claim'[u] = IF u = t THEN NoClaim ELSE claim[u]
    BY <1>2, <1>5, <2>1, SizesAssumption DEF Past, Block
  <2>3. Past' = Past /\ Begun' = Begun
    <3>1. Past' = Past
      BY <1>3, <2>2, SizesAssumption DEF Past, NoClaim
    <3> QED BY <1>2, <1>5, <3>1 DEF Begun
  <2>4. \A u \in Threads : pc'[u] \in {"start", "idle"} => claim'[u] = NoClaim
    BY <1>2, <1>5, <2>2
  <2> QED BY <1>1, <1>3, <2>3, <2>4 DEF AboutToWrap, NoWrap
<1>6. CASE Use(t)
  BY <1>2, <1>4, <1>5, <1>6 DEF Use, Goto
<1>7. CASE LoadCursor(t) \/ Compare(t) \/ Pages(t) \/ Grow(t) \/ MemGrow(t)
  BY <1>2, <1>4, <1>7 DEF LoadCursor, Compare, Pages, Grow, MemGrow, Goto
<1> QED BY <1>6, <1>7

\* Any number of threads that may each have a block past the limit, and the addresses
\* still to say where: then the cursor's add never wraps, so that nothing is left to
\* assume, and blocks never overlap and are in memory (mem.alloc, thread.spawn).
\* With 2 GiB of memory, 15 threads may ask for as much as 128 MiB each at one time.
THEOREM CursorKeepsBelow ==
  ASSUME NEW most \in Nat, RoomFor(most)
  PROVE  Spec => CursorNeverWraps /\ [](TypeOK /\ BlocksDisjoint /\ BlocksInMemory)
<1>1. Init => AboutToWrap(most)
  <2> SUFFICES ASSUME Init PROVE AboutToWrap(most)
    OBVIOUS
  <2> DEFINE a == Cardinality(Past) * most
             b == Cardinality(Begun) * Round(ScratchBytes)
  <2>1. a \in Nat /\ b \in Nat
    BY Counts, RoundType, SizesAssumption DEF RoomFor, Past, Begun
  <2>2. cursor = Start /\ size <= MaxBytes /\ claim = [t \in Threads |-> NoClaim]
    BY DEF Init
  <2>3. Room(most, Past, Begun) = MaxBytes + a + b
    BY DEF Room
  <2> HIDE DEF a, b
  <2>4. cursor <= Room(most, Past, Begun)
    BY <2>1, <2>2, <2>3, SizesAssumption
  <2> QED BY <2>2, <2>4, InitInv DEF AboutToWrap
<1>2. AboutToWrap(most) /\ [Next]_vars => AboutToWrap(most)' /\ [NoWrap]_vars
  <2> SUFFICES ASSUME AboutToWrap(most), [Next]_vars
               PROVE  AboutToWrap(most)' /\ [NoWrap]_vars
    OBVIOUS
  <2>1. CASE UNCHANGED vars
    BY <2>1 DEF vars, AboutToWrap, Past, Begun, IInv, TypeOK, BelowCursor, BlocksDisjoint, Covered
  <2>2. CASE Next
    BY <2>2, ClaimHasRoom, ScratchHasRoom, OthersKeepRoom DEF Next
  <2> QED BY <2>1, <2>2
<1>3. CursorNeverWraps <=> [][NoWrap]_vars
  BY DEF CursorNeverWraps, NoWrap
<1> QED BY <1>1, <1>2, <1>3, ConcurrentAllocationSafe, PTL DEF Spec

=============================================================================
