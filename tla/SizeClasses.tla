----------------------------- MODULE SizeClasses -----------------------------
(***************************************************************************)
(* The size classes of std/heap (aipl_src/std/heap.aipl): class_of, the    *)
(* loop that finds the class of a request, and class_size, in the i32      *)
(* arithmetic they run in: W bits, wrapping, shift counts taken modulo W.  *)
(* Heap uses their result as ClassOf.                                      *)
(***************************************************************************)
EXTENDS Integers

CONSTANTS W,           (* the width of an i32: 32 in the code               *)
          MaxRequest   (* the largest size asked for; raw accepts up to     *)
                       (* Accepted                                          *)

\* heap.raw's precondition, 1879048184 at 32 bits.
Accepted == 7 * 2^(W - 4) - 8
\* The free lists a Heap has, 107 at 32 bits.
NCLASSES == 4 * W - 21

ASSUME WidthAssumption ==
  /\ W \in 8..32
  /\ MaxRequest \in 1..Accepted

\* What W bits make of an integer, and the operations that can leave them.
Wrapped(x) == ((x + 2^(W-1)) % 2^W) - 2^(W-1)
Add(a, b)  == Wrapped(a + b)
Shl(a, b)  == Wrapped(a * 2^(b % W))
RoundUp(x) == Add(x, 7) - (Add(x, 7) % 8)      \* (bitand (+ n 7) -8)

VARIABLES pc, n, s, k, result

vars == <<pc, n, s, k, result>>

Init ==
  /\ pc = "start"
  /\ n \in 1..MaxRequest
  /\ s = 0 /\ k = 0 /\ result = 0

Return(c) == pc' = "done" /\ result' = c

-----------------------------------------------------------------------------
\* Faulty variants of the operations below, for trying the properties on.

\* rounds down to a quarter; rounds up to a whole doubling; does not count
DownToQuarter ==
  /\ pc = "loop" /\ s < Shl(1, k + 1)
  /\ Return(3 + 4 * (k - 5) + Add(s, -Shl(1, k)) \div Shl(1, k - 2))
  /\ UNCHANGED <<n, s, k>>
UpToDoubling ==
  /\ pc = "loop" /\ s < Shl(1, k + 1)
  /\ Return(IF s = Shl(1, k) THEN 3 + 4 * (k - 5) ELSE 3 + 4 * (k - 4))
  /\ UNCHANGED <<n, s, k>>
StuckLoop == pc = "loop" /\ s >= Shl(1, k + 1) /\ UNCHANGED vars

-----------------------------------------------------------------------------
\* 8, 16 and 24 bytes have a class each.
Small ==
  /\ pc = "start"
  /\ s' = RoundUp(n)
  /\ IF s' <= 24
       THEN Return(s' \div 8 - 1) /\ UNCHANGED k
       ELSE pc' = "loop" /\ k' = 5 /\ UNCHANGED result
  /\ UNCHANGED n

\* (while (gte s (shl 1 (+ k 1))) ...): looks for the highest bit of s.  From W
\* on, the shift count depends on k only modulo W: k stays below 2W.
Loop ==
  /\ pc = "loop"
  /\ s >= Shl(1, k + 1)
  /\ k' = IF k = 2 * W - 1 THEN W ELSE k + 1
  /\ UNCHANGED <<pc, n, s, result>>

\* The quarter of [2^k, 2^(k+1)) that s falls in, rounded up.
Quarter ==
  LET base == Shl(1, k)
      step == Shl(1, k - 2)
      j == Add(Add(s, -base), Add(step, -1)) \div step IN
  /\ pc = "loop"
  /\ s < Shl(1, k + 1)
  /\ IF j = 4 THEN Return(3 + 4 * (k + 1 - 5)) ELSE Return(3 + 4 * (k - 5) + j)
  /\ UNCHANGED <<n, s, k>>

Next == Small \/ Loop \/ Quarter

Spec == Init /\ [][Next]_vars /\ WF_vars(Next)

\* class_size: the bytes in blocks of class c.
ClassSize(c) ==
  IF c < 3
    THEN 8 * (c + 1)
    ELSE LET kk == 5 + (c - 3) \div 4
         IN  Add(Shl(1, kk), Wrapped(((c - 3) % 4) * Shl(1, kk - 2)))

-----------------------------------------------------------------------------
\* The class found is one the heap has, and it is the smallest that holds the
\* request: exactly the classes from it on are large enough.  raw relies on it
\* for memory safety (a block from the class's free list must hold n bytes),
\* free_raw for finding the list the block came from.
SmallestClass ==
  pc = "done" =>
    /\ result \in 0..NCLASSES-1
    /\ \A c \in 0..NCLASSES-1 : ClassSize(c) >= n <=> c >= result

\* "so at most a quarter is spare" (heap.aipl:20-22), of the request in words.
AtMostAQuarterSpare ==
  pc = "done" => 4 * (ClassSize(result) - s) <= s

\* The largest request for which the loop of class_of ends, 2^30 - 8 at 32 bits:
\* above it the rounded request has the highest bit but the sign, and no shift of 1
\* is larger.
Largest == 2^(W - 2) - 8

\* Of the requests that raw accepts (heap.aipl:89), class_of returns for exactly those
\* up to Largest; for the others, a gap of 3/4 of a GiB at 32 bits, it runs on, with
\* the heap's lock held, and stops every thread that uses the heap.
ClassFound ==
  /\ (n <= Largest) ~> (pc = "done")
  /\ n > Largest => [](pc # "done")

\* What the precondition of raw promises: every request it accepts is found a class.
AcceptedIsFound == <>(pc = "done")
=============================================================================
