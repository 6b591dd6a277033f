---------------------------- MODULE WasmMachine ----------------------------
(***************************************************************************)
(* The machine compiled code runs on, which is not part of the repository: *)
(* what WebAssembly asks of a function (Valid) and what it does (Execute). *)
(* Functions are as Codegen makes them.  An i32 has Bits bits and an i64   *)
(* twice as many; a memory address holds a scalar.                         *)
(***************************************************************************)
EXTENDS Integers, Sequences, SequencesExt, TLC
LOCAL INSTANCE Bitwise

CONSTANTS Bits, Word, Dead, Fuel

-----------------------------------------------------------------------------
\* Validation.  A state v has the operand types, whether the code here is
\* after a jump (any operand can be taken then), and whether all is well.
PopOne(v, t) ==
  IF v.stack = <<>> THEN [v EXCEPT !.ok = @ /\ v.dead]
  ELSE [v EXCEPT !.stack = Front(@), !.ok = @ /\ Last(v.stack) = t]
PopAll(v, ts) == FoldLeft(PopOne, v, Reverse(ts))
PushAll(v, ts) == [v EXCEPT !.stack = @ \o ts]
Jumped(v) == [v EXCEPT !.stack = <<>>, !.dead = TRUE]
AnyOne(v) == IF v.stack = <<>> THEN [v EXCEPT !.ok = @ /\ v.dead] ELSE [v EXCEPT !.stack = Front(@)]

Result(t) == IF t = "void" THEN <<>> ELSE <<t>>
Comparisons == {"eq", "ne", "lt_s", "le_s", "gt_s", "ge_s", "lt_u", "le_u", "gt_u", "ge_u"}

\* labels: the types a branch to each takes, the innermost last; fs: the
\* functions; locals: the kinds of the function's.
RECURSIVE Check(_, _, _, _, _), CheckCode(_, _, _, _, _)
CheckCode(code, v, labels, locals, fs) ==       \* one half after the other, which keeps the recursion flat
  LET half == Len(code) \div 2 IN
  CASE code = <<>> \/ ~v.ok -> v
    [] Len(code) = 1 -> Check(code[1], v, labels, locals, fs)
    [] OTHER -> CheckCode(SubSeq(code, half + 1, Len(code)),
                          CheckCode(SubSeq(code, 1, half), v, labels, locals, fs), labels, locals, fs)
CheckBody(code, results, labels, locals, fs) ==
  LET e == CheckCode(code, [stack |-> <<>>, dead |-> FALSE, ok |-> TRUE], labels, locals, fs)
      r == PopAll(e, results)
  IN r.ok /\ r.stack = <<>>

Check(i, v, labels, locals, fs) ==
  LET to == IF i.i < Len(labels) THEN labels[Len(labels) - i.i] ELSE <<>>
      kind == IF i.i < Len(locals) THEN locals[i.i + 1] ELSE "none"
      inside(n, label) == CheckBody(i.as[n], Result(i.t), Append(labels, label), locals, fs)
  IN CASE i.o = "const" -> PushAll(v, <<i.t>>)
       [] i.o = "get"   -> PushAll([v EXCEPT !.ok = @ /\ kind # "none"], <<kind>>)
       [] i.o = "set"   -> PopOne(v, kind)
       [] i.o = "tee"   -> PushAll(PopOne(v, kind), <<kind>>)
       [] i.o = "load"  -> PushAll(PopOne(v, "i32"), <<i.t>>)
       [] i.o = "store" -> PopAll(v, <<"i32", i.t>>)
       [] i.o = "bin"   -> PushAll(PopAll(v, <<i.t, i.t>>), <<IF i.s \in Comparisons THEN "i32" ELSE i.t>>)
       [] i.o = "un"    -> PushAll(PopOne(v, i.t), <<i.t>>)
       [] i.o \in {"extend_s", "extend_u"} -> PushAll(PopOne(v, "i32"), <<"i64">>)
       [] i.o = "eqz"   -> PushAll(PopOne(v, "i32"), <<"i32">>)
       [] i.o \in {"wrap", "gen"} -> PushAll(PopOne(v, "i64"), <<"i32">>)
       [] i.o = "drop"  -> AnyOne(v)
       [] i.o = "emit"  -> PopOne(v, "i32")
       [] i.o \in {"unreachable", "fail"} -> Jumped(v)
       [] i.o = "call"  -> PushAll(PopAll(v, fs[i.s].params), fs[i.s].results)
       [] i.o = "br"    -> Jumped([PopAll(v, to) EXCEPT !.ok = @ /\ i.i < Len(labels)])
       [] i.o = "br_if" -> LET c == PopOne(v, "i32") IN PushAll([PopAll(c, to) EXCEPT !.ok = @ /\ i.i < Len(labels)], to)
       [] i.o = "return" -> Jumped(PopAll(v, labels[1]))
       [] i.o = "block" -> PushAll([v EXCEPT !.ok = @ /\ inside(1, Result(i.t))], Result(i.t))
       [] i.o = "loop"  -> PushAll([v EXCEPT !.ok = @ /\ inside(1, <<>>)], Result(i.t))
       [] i.o = "if"    -> LET c == PopOne(v, "i32") IN
                           PushAll([c EXCEPT !.ok = @ /\ inside(1, Result(i.t)) /\ inside(2, Result(i.t))], Result(i.t))
       [] OTHER         -> [v EXCEPT !.ok = FALSE]

\* A function's body is a block its returns branch to.
Valid(fs) == \A f \in DOMAIN fs :
  CheckBody(fs[f].code, fs[f].results, <<fs[f].results>>, fs[f].params \o fs[f].locals, fs)

-----------------------------------------------------------------------------
\* Execution.  A state w has the operands, the locals (from 0), memory, what
\* was printed, a trap, and the branch being taken: 0 for none, else one more
\* than the blocks still to leave, or Returning.
Returning == 1000
WrapTo(n, bits) == ((n + 2^(bits - 1)) % 2^bits) - 2^(bits - 1)
Truth01(b) == IF b THEN 1 ELSE 0

Push(w, n) == [w EXCEPT !.stack = Append(@, n)]
Top(w) == Last(w.stack)
Cut(w, n) == [w EXCEPT !.stack = SubSeq(@, 1, Len(@) - n)]
\* The top n operands on what was below.
Keep(w, below, n) == [w EXCEPT !.stack = below \o SubSeq(@, Len(@) - n + 1, Len(@))]

\* An access of a dead object's cells is noted in stale: only the properties read it.
Touch(w, a) == [w EXCEPT !.stale = @ \/ \E o \in w.objects : o.base <= a /\ a < o.base + o.size /\ w.mem[o.base - 8] = Dead]

At(w, a) == IF a \in DOMAIN w.mem THEN w.mem[a] ELSE 0

\* Instructions on numbers a and b of n bits; u and v are the same, unsigned.
WidthOf(t) == IF t = "i64" THEN 2 * Bits ELSE Bits
U(a, n)    == a % 2^n
Towards0(a, b) == LET q == (IF a < 0 THEN -a ELSE a) \div (IF b < 0 THEN -b ELSE b)
                  IN IF (a < 0) = (b < 0) THEN q ELSE -q
Turned(u, k, n) == (u % 2^(n - k)) * 2^k + u \div 2^(n - k)
Compute(name, a, b, u, v, n) ==
  CASE name = "add"   -> a + b
    [] name = "sub"   -> a - b
    [] name = "mul"   -> a * b
    [] name = "div_s" -> Towards0(a, b)
    [] name = "rem_s" -> a - b * Towards0(a, b)
    [] name = "div_u" -> u \div v
    [] name = "rem_u" -> u % v
    [] name = "and"   -> u & v
    [] name = "or"    -> u | v
    [] name = "xor"   -> u ^^ v
    [] name = "shl"   -> Turned(u, v % n, n) - u \div 2^(n - (v % n))
    [] name = "shr_s" -> a \div 2^(v % n)
    [] name = "shr_u" -> u \div 2^(v % n)
    [] name = "rotl"  -> Turned(u, v % n, n)
    [] name = "rotr"  -> Turned(u, n - (v % n), n)
Compared(name, a, b, u, v) ==
  CASE name = "eq"   -> a = b
    [] name = "ne"   -> a # b
    [] name = "lt_s" -> a < b
    [] name = "le_s" -> a <= b
    [] name = "gt_s" -> a > b
    [] name = "ge_s" -> a >= b
    [] name = "lt_u" -> u < v
    [] name = "le_u" -> u <= v
    [] name = "gt_u" -> u > v
    [] name = "ge_u" -> u >= v
Trap(name, a, b, n) ==
  CASE name \in {"div_s", "div_u", "rem_s", "rem_u"} /\ b = 0 -> "zero"
    [] name = "div_s" /\ a = -(2^(n - 1)) /\ b = -1 -> "overflow"
    [] OTHER -> ""
Binary(w, name, a, b, n) ==
  CASE Trap(name, a, b, n) # "" -> [w EXCEPT !.trap = Trap(name, a, b, n)]
    [] name \in Comparisons -> Push(Cut(w, 2), Truth01(Compared(name, a, b, U(a, n), U(b, n))))
    [] OTHER -> Push(Cut(w, 2), WrapTo(Compute(name, a, b, U(a, n), U(b, n), n), n))
Counted(name, u, n) ==
  CASE name = "clz" -> CHOOSE k \in 0..n : u < 2^(n - k) /\ (k < n => u >= 2^(n - k - 1))
    [] name = "ctz" -> CHOOSE k \in 0..n : u % 2^k = 0 /\ (k < n => u % 2^(k + 1) # 0)
    [] OTHER        -> Len(SelectSeq([k \in 1..n |-> (u \div 2^(k - 1)) % 2], LAMBDA x : x = 1))

RECURSIVE RunCode(_, _, _), Step(_, _, _), RunLoop(_, _, _), CallFunction(_, _, _)
RunCode(code, w, fs) ==       \* one half after the other, as there
  LET half == Len(code) \div 2 IN
  CASE code = <<>> \/ w.trap # "" \/ w.br # 0 -> w
    [] Len(code) = 1 -> Step(code[1], w, fs)
    [] OTHER -> RunCode(SubSeq(code, half + 1, Len(code)), RunCode(SubSeq(code, 1, half), w, fs), fs)

\* A block's code, its branches to its end taken.
RunBlock(code, t, w, fs) ==
  LET r == RunCode(code, w, fs) IN
  CASE r.trap # "" \/ r.br = 0 \/ r.br = Returning -> r
    [] r.br = 1 -> [Keep(r, w.stack, Len(Result(t))) EXCEPT !.br = 0]
    [] OTHER    -> [r EXCEPT !.br = @ - 1]
RunLoop(i, w, fs) ==
  LET r == RunCode(i.as[1], w, fs) IN
  CASE r.trap # "" \/ r.br \in {0, Returning} -> r
    [] r.br = 1 -> IF r.fuel = 0 THEN [r EXCEPT !.trap = "fuel"]
                   ELSE RunLoop(i, [Keep(r, w.stack, 0) EXCEPT !.br = 0, !.fuel = @ - 1], fs)
    [] OTHER    -> [r EXCEPT !.br = @ - 1]

Step(i, w, fs) ==
  CASE i.o = "const" -> Push(w, i.i)
    [] i.o = "get"   -> Push(w, w.locals[i.i])
    [] i.o = "set"   -> Cut([w EXCEPT !.locals[i.i] = Top(w)], 1)
    [] i.o = "tee"   -> [w EXCEPT !.locals[i.i] = Top(w)]
    [] i.o = "load"  -> LET a == Top(w) + i.i IN Push(Cut(Touch(w, a), 1), At(w, a))
    [] i.o = "store" -> LET a == w.stack[Len(w.stack) - 1] + i.i IN Cut([Touch(w, a) EXCEPT !.mem = (a :> Top(w)) @@ @], 2)
    [] i.o = "bin"   -> Binary(w, i.s, w.stack[Len(w.stack) - 1], Top(w), WidthOf(i.t))
    [] i.o = "un"    -> Push(Cut(w, 1), Counted(i.s, U(Top(w), WidthOf(i.t)), WidthOf(i.t)))
    [] i.o = "extend_s" -> w
    [] i.o = "extend_u" -> Push(Cut(w, 1), U(Top(w), Bits))
    [] i.o = "eqz"   -> Push(Cut(w, 1), Truth01(Top(w) = 0))
    [] i.o = "wrap"  -> Push(Cut(w, 1), WrapTo(Top(w), Bits))
    [] i.o = "gen"   -> Push(Cut(w, 1), Top(w) \div Word)
    [] i.o = "drop"  -> Cut(w, 1)
    [] i.o = "emit"  -> Cut([w EXCEPT !.out = Append(@, Top(w))], 1)
    [] i.o = "fail"  -> [w EXCEPT !.trap = i.s]
    [] i.o = "unreachable" -> [w EXCEPT !.trap = "unreachable"]
    [] i.o = "br"    -> [w EXCEPT !.br = i.i + 1]
    [] i.o = "br_if" -> IF Top(w) = 0 THEN Cut(w, 1) ELSE [Cut(w, 1) EXCEPT !.br = i.i + 1]
    [] i.o = "return" -> [w EXCEPT !.br = Returning]
    [] i.o = "block" -> RunBlock(i.as[1], i.t, w, fs)
    [] i.o = "if"    -> RunBlock(i.as[IF Top(w) # 0 THEN 1 ELSE 2], i.t, Cut(w, 1), fs)
    [] i.o = "loop"  -> RunLoop(i, w, fs)
    [] i.o = "call"  -> LET n == Len(fs[i.s].params)
                            below == SubSeq(w.stack, 1, Len(w.stack) - n)
                            r == CallFunction(i.s, [w EXCEPT !.stack = SubSeq(@, Len(below) + 1, Len(@))], fs)
                        IN [Keep(r, below, Len(fs[i.s].results)) EXCEPT !.locals = w.locals]

\* A function on the operands: its locals begin with them, the others zero.
CallFunction(name, w, fs) ==
  LET f == fs[name]
      n == Len(f.params) + Len(f.locals)
      start == [w EXCEPT !.stack = <<>>, !.locals = [k \in 0..(n - 1) |-> IF k < Len(f.params) THEN w.stack[k + 1] ELSE 0]]
      r == RunCode(f.code, start, fs)
  IN IF r.trap # "" THEN [r EXCEPT !.stack = [k \in DOMAIN f.results |-> 0]]
     ELSE [Keep(r, <<>>, Len(f.results)) EXCEPT !.br = 0]

\* A module run from main with these scalars as its arguments.
Execute(fs, args, mem, objects) ==
  CallFunction("main", [stack |-> args, locals |-> << >>, mem |-> mem, objects |-> objects, out |-> <<>>,
                        trap |-> "", br |-> 0, fuel |-> Fuel, stale |-> FALSE], fs)
=============================================================================
