-------------------------------- MODULE Words --------------------------------
(***************************************************************************)
(* Integers of w bits as Rust's methods compute them, with which vm.rs and *)
(* consts.rs do a program's arithmetic.  A number is kept signed; the bits *)
(* of its two's complement are the set of their places.                    *)
(***************************************************************************)
EXTENDS Integers, FiniteSetsExt

Least(w)       == -(2^(w - 1))
Fits(n, w)     == Least(w) <= n /\ n < 2^(w - 1)
Wrap(n, w)     == ((n + 2^(w - 1)) % 2^w) - 2^(w - 1)     \* wrapping_add and the like
Unsigned(n, w) == n % 2^w                                 \* as u32, as u64

Ones(n, w) == {i \in 0..(w - 1) : (Unsigned(n, w) \div 2^i) % 2 = 1}
Number(s)  == FoldSet(LAMBDA i, sum : sum + 2^i, 0, s)    \* not yet signed
Zeros(n, w) == (0..(w - 1)) \ Ones(n, w)

\* x / y and x % y, which round towards zero
Abs(n) == IF n < 0 THEN -n ELSE n
Quotient(x, y)  == IF (x < 0) <=> (y < 0) THEN Abs(x) \div Abs(y) ELSE -(Abs(x) \div Abs(y))
Remainder(x, y) == x - y * Quotient(x, y)

\* A shift's count is taken modulo the width.
ShiftLeft(x, n, w)   == Number({i + (n % w) : i \in Ones(x, w)} \cap 0..(w - 1))   \* wrapping_shl
ShiftRight(x, n, w)  == x \div 2^(n % w)                                          \* wrapping_shr of i32, i64
ShiftRightU(x, n, w) == Unsigned(x, w) \div 2^(n % w)                             \* and of u32, u64
RotateLeft(x, n, w)  == Number({(i + n) % w : i \in Ones(x, w)})
RotateRight(x, n, w) == Number({(i - n) % w : i \in Ones(x, w)})
BitXor(x, y, w) == Number((Ones(x, w) \ Ones(y, w)) \cup (Ones(y, w) \ Ones(x, w)))
BitAnd(x, y, w) == Number(Ones(x, w) \cap Ones(y, w))
BitOr(x, y, w)  == Number(Ones(x, w) \cup Ones(y, w))

LeadingZeros(x, w)  == Cardinality({i \in 0..(w - 1) : \A k \in i..(w - 1) : k \in Zeros(x, w)})
TrailingZeros(x, w) == Cardinality({i \in 0..(w - 1) : \A k \in 0..i : k \in Zeros(x, w)})
CountOnes(x, w)     == Cardinality(Ones(x, w))
=============================================================================
