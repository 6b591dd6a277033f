------------------------------- MODULE Interp -------------------------------
(***************************************************************************)
(* The interpreter (src/src/vm.rs): eval_expr over the expressions of      *)
(* Syntax, invoke with contracts, and the values it keeps in memory.       *)
(*                                                                         *)
(* A state m holds the last value, the scope, memory, what was printed,    *)
(* the pending jump (flow) with a return's value, and an error.  A jump is *)
(* not an exception here: what encloses it goes on with void operands and  *)
(* its errors are thrown away.  Integers have Bits and 2 * Bits bits; a    *)
(* pointer is gen * Word + address.  The check of write addresses always   *)
(* passes: programs have the objects' addresses only.                      *)
(***************************************************************************)
EXTENDS Syntax, Words, TLC

CONSTANTS Bits, Word, Dead, Fuel

VInt(n)  == <<"Int", n>>
VLong(n) == <<"Int64", n>>
VBool(n) == <<"Bool", n>>        \* 0 or 1
Truth(b) == VBool(IF b THEN 1 ELSE 0)
Void     == <<"Void", 0>>
Rec(fs)  == <<"Record", fs>>
Sum(n, fs) == <<"Sum", n, fs>>      \* a union's variant, or a result: 1 ok, 2 err

Nothing == 99                       \* what sys.print makes of a void value

Yield(m, v) == [m EXCEPT !.v = v]
Fail(m, why) == [m EXCEPT !.err = why]
Retain(m, keys) == [m EXCEPT !.scope = [x \in keys \cap DOMAIN @ |-> @[x]]]
Bind(m, n, v) == [m EXCEPT !.scope = (n :> v) @@ @]
BindAll(m, names, vs) == FoldLeft(LAMBDA a, n : Bind(a, names[n], vs[n]), m, [n \in DOMAIN names |-> n])
Then(m, F(_)) == IF m.err = "" THEN F(m) ELSE m

-----------------------------------------------------------------------------
\* to_scalars: a value's scalars as type t, "void" where a jump left none.
\* from_scalars undoes it.
RECURSIVE ToScalars(_, _), FromScalars(_, _)
\* A variant's scalars in the slots of its sum, the others zero.
InSlots(tag, l, inner) ==
  [n \in DOMAIN l.slots |->
     IF n = 1 THEN VInt(tag - 1)
     ELSE IF \E x \in DOMAIN inner : l.map[tag][x] + 1 = n
     THEN inner[CHOOSE x \in DOMAIN inner : l.map[tag][x] + 1 = n]
     ELSE <<IF l.slots[n] = "i32" THEN "Int" ELSE "Int64", 0>>]
ToScalars(t, v) ==
  CASE v[1] = "Record" -> Concat([n \in DOMAIN v[2] |-> ToScalars(Structs[t][n], v[2][n])])
    [] v[1] = "Sum" ->
         InSlots(v[2], Layout(t), Concat([n \in DOMAIN v[3] |-> ToScalars(Sides(t)[v[2]][n], v[3][n])]))
    [] OTHER -> <<v>>

FieldsFrom(types, s) == [n \in DOMAIN types |->
  FromScalars(types[n], SubSeq(s, SlotsBefore(types, n) + 1, SlotsBefore(types, n + 1)))]
FromScalars(t, s) ==
  CASE t \in ValueStructs -> Rec(FieldsFrom(Structs[t], s))
    [] t \in DOMAIN Unions \cup DOMAIN Results ->
         LET variant(tag, at) == Sum(tag, FieldsFrom(Sides(t)[tag], [n \in DOMAIN at |-> s[at[n] + 1]]))
         IN variant(s[1][2] + 1, Layout(t).map[s[1][2] + 1])
    [] OTHER -> s[1]

\* An access of a dead object's cells is noted in stale: only the properties read it.
InDead(m, a) == \E o \in m.objects : o.base <= a /\ a < o.base + o.size /\ m.mem[o.base - 8] = Dead

\* load_val_at and store_val_at: scalar by scalar; the store ends at a void one
Scalar(t, n) == <<IF SlotKind(t) = "i32" THEN "Int" ELSE "Int64", n>>
LoadAt(m, a, t) ==
  LET cells(offs, ss) == [n \in DOMAIN ss |-> Scalar(ss[n], m.mem[a + offs[n]])]
  IN [m EXCEPT !.v = FromScalars(t, cells(Place(t).offs, Scalars(t))), !.stale = @ \/ InDead(m, a)]
StoreAt(m, a, t, v) ==
  IF t \in ValueStructs \cup DOMAIN Unions \cup DOMAIN Results /\ v[1] \notin {"Record", "Sum"}
    THEN Fail(m, "type")
  ELSE LET put(s, x) == IF s.err # "" THEN s
                        ELSE IF x[2] = Void THEN Fail(s, "type")
                        ELSE [s EXCEPT !.mem[a + x[1]] = x[2][2]]
       IN FoldLeft(put, [m EXCEPT !.v = Void, !.stale = @ \/ InDead(m, a)], Zip(Place(t).offs, ToScalars(t, v)))

\* deref: "" if the pointer v can be used
Deref(m, v) == IF v[1] # "Int64" THEN "type"
               ELSE IF v[2] % Word = 0 THEN "null"
               ELSE IF m.mem[(v[2] % Word) - 8] # v[2] \div Word THEN "freed"
               ELSE ""
Jumping(m) == m.flow # "none"

-----------------------------------------------------------------------------
\* Numbers: Value::Int is an i32 and Value::Int64 an i64, in w bits.
IsNumber(v) == v[1] \in {"Int", "Int64"}
Size(v)     == IF v[1] = "Int" THEN Bits ELSE 2 * Bits
Like(v, n)  == <<v[1], Wrap(n, Size(v))>>

Computed(name, x, y, w) ==
  CASE name \in {"add", "checked.add"} -> x + y
    [] name \in {"sub", "checked.sub"} -> x - y
    [] name \in {"mul", "checked.mul"} -> x * y
    [] name = "div"    -> Quotient(x, y)
    [] name = "mod"    -> Remainder(x, y)
    [] name = "divu"   -> Unsigned(x, w) \div Unsigned(y, w)
    [] name = "remu"   -> Unsigned(x, w) % Unsigned(y, w)
    [] name = "bitxor" -> BitXor(x, y, w)
    [] name = "bitand" -> BitAnd(x, y, w)
    [] name = "bitor"  -> BitOr(x, y, w)
    [] name = "shl"    -> ShiftLeft(x, y, w)
    [] name = "shr"    -> ShiftRight(x, y, w)
    [] name = "shru"   -> ShiftRightU(x, y, w)
    [] name = "rotl"   -> RotateLeft(x, y, w)
    [] name = "rotr"   -> RotateRight(x, y, w)

\* Why an operation on x and y fails, or "".
DivisionFault(name, x, y, w) ==
  CASE name \in {"div", "mod", "divu", "remu"} /\ y = 0 -> "zero"
    [] name = "div" /\ x = Least(w) /\ y = -1 -> "overflow"
    [] OTHER -> ""
CheckedFault(name, x, y, w) ==
  IF name \in CheckedOps /\ ~Fits(Computed(name, x, y, w), w) THEN "overflow" ELSE ""
Fault(name, x, y, w) == IF name \in CheckedOps THEN CheckedFault(name, x, y, w) ELSE DivisionFault(name, x, y, w)

Compute(m, name, a, b) ==
  IF Fault(name, a[2], b[2], Size(a)) # "" THEN Fail(m, Fault(name, a[2], b[2], Size(a)))
  ELSE Yield(m, Like(a, Computed(name, a[2], b[2], Size(a))))

Ordered(name, x, y) ==
  CASE name \in {"lt", "ltu"} -> x < y  [] name \in {"lte", "lteu"} -> x <= y
    [] name \in {"gt", "gtu"} -> x > y  [] name \in {"gte", "gteu"} -> x >= y
OrderedUnsigned(name, x, y, w) == Ordered(name, Unsigned(x, w), Unsigned(y, w))

\* eq and neq compare any two values, the others two numbers of one kind.
OnTwo(m, name, a, b) ==
  CASE name = "eq"  -> Yield(m, Truth(a = b))
    [] name = "neq" -> Yield(m, Truth(a # b))
    [] a[1] # b[1] \/ ~IsNumber(a) -> Fail(m, "type")
    [] name \in Orders -> Yield(m, Truth(Ordered(name, a[2], b[2])))
    [] name \in UnsignedOrders -> Yield(m, Truth(OrderedUnsigned(name, a[2], b[2], Size(a))))
    [] OTHER -> Compute(m, name, a, b)

Counted(name, x, w) ==
  CASE name = "clz" -> LeadingZeros(x, w) [] name = "ctz" -> TrailingZeros(x, w) [] OTHER -> CountOnes(x, w)
OnOne(m, name, a) ==
  CASE name = "not" /\ a[1] = "Bool" -> Yield(m, VBool(1 - a[2]))
    [] name = "bitnot" /\ IsNumber(a) -> Yield(m, Like(a, -a[2] - 1))
    [] name \in Unary \ {"bitnot"} /\ IsNumber(a) -> Yield(m, Like(a, Counted(name, a[2], Size(a))))
    [] name = "extend_s" /\ a[1] = "Int" -> Yield(m, VLong(a[2]))
    [] name = "extend_u" /\ a[1] = "Int" -> Yield(m, VLong(Unsigned(a[2], Bits)))
    [] name = "wrap" /\ a[1] = "Int64" -> Yield(m, VInt(Wrap(a[2], Bits)))
    [] OTHER -> Fail(m, "type")
Operate(m, name, vs) == IF Len(vs) = 2 THEN OnTwo(m, name, vs[1], vs[2]) ELSE OnOne(m, name, vs[1])
-----------------------------------------------------------------------------

\* What an expression makes of its operands' values vs, evaluated in order.
LetVar(e, m, v) == IF Jumping(m) THEN Yield(m, Void) ELSE Bind(Yield(m, Void), e.s, v)
SetVar(e, m, v) == IF e.s \in DOMAIN m.scope \/ Jumping(m) THEN LetVar(e, m, v) ELSE Fail(m, "undefined")
ReturnWith(m, v) == IF Jumping(m) THEN Yield(m, Void) ELSE [m EXCEPT !.flow = "return", !.v = Void, !.ret = v]
PrintOut(m, v)  == [m EXCEPT !.v = Void, !.out = Append(@, IF v = Void THEN Nothing ELSE v[2])]
StoreRaw(m, a, t, v) == IF a[1] = "Int" /\ v[1] = Scalar(t, 0)[1] THEN [m EXCEPT !.v = Void, !.mem = (a[2] :> v[2]) @@ @]
                        ELSE Fail(m, "type")
LoadRaw(m, a, t) == IF a[1] = "Int" THEN Yield(m, Scalar(t, IF a[2] \in DOMAIN m.mem THEN m.mem[a[2]] ELSE 0))
                    ELSE Fail(m, "type")
AddressOf(m, v) == IF v[1] = "Int64" THEN Yield(m, VInt(v[2] % Word)) ELSE Fail(m, "type")
Apply(e, m, vs) ==
  CASE e.k = "let"    -> LetVar(e, m, vs[1])
    [] e.k = "set"    -> SetVar(e, m, vs[1])
    [] e.k = "return" -> ReturnWith(m, IF vs = <<>> THEN Void ELSE vs[1])
    [] e.k \in {"break", "continue"} -> [m EXCEPT !.flow = e.k, !.v = Void]
    [] e.k = "op"     -> Operate(m, e.s, vs)
    [] e.k = "ok"     -> Yield(m, Sum(1, vs))
    [] e.k = "err"    -> Yield(m, Sum(2, vs))
    [] e.k = "make"   -> Yield(m, Sum(e.i, vs))
    [] e.k = "record" -> Yield(m, Rec(vs))
    [] e.k = "emit"   -> PrintOut(m, vs[1])
    [] e.k = "drop"   -> Yield(m, Void)
    [] e.k = "abort"  -> Fail(m, "abort")
    [] e.k = "addr"   -> AddressOf(m, vs[1])
    [] e.k = "load"   -> LoadRaw(m, vs[1], e.t)
    [] e.k = "store"  -> StoreRaw(m, vs[1], e.t, vs[2])
    [] OTHER          -> Fail(m, "unlowered")

\* The first scalar's address of an element of an arr, whose length is 4 bytes before.
ElementSize == Place("V").size
Checked(m, p, n) == LET a == p[2] % Word IN
  CASE n[1] # "Int" -> "type"
    [] n[2] < 0 \/ n[2] >= m.mem[a - 4] -> "bounds"
    [] OTHER -> ""
ElementAt(p, n) == (p[2] % Word) + n[2] * ElementSize

RECURSIVE Eval(_, _, _)

Operands(es, m, prog) ==
  FoldLeft(LAMBDA a, x : LET r == Eval(x, a.m, prog) IN [m |-> r, vs |-> Append(a.vs, r.v)],
           [m |-> m, vs |-> <<>>], es)

EvalSeq(es, m, prog) ==       \* eval_seq
  FoldLeft(LAMBDA a, x : IF Jumping(a) THEN a ELSE Eval(x, a, prog), Yield(m, Void), es)
\* Its lets are gone after it.
Scoped(m, F(_)) == Retain(F(m), DOMAIN m.scope)

\* What a loop does after its body: leave (TRUE) or go on, and the jump it took.
Leaves(m) == m.flow \in {"break", "return"}
Landed(m) == IF m.flow = "return" THEN m ELSE [m EXCEPT !.flow = "none"]

RECURSIVE LoopOn(_, _, _, _, _), WhileOn(_, _, _)
LoopOn(e, m, end, by, prog) ==
  IF m.err # "" \/ m.scope[e.s][2] > end THEN m
  ELSE LET r == Scoped(m, LAMBDA x : EvalSeq(Rest(e, 4), x, prog)) IN
       IF r.err # "" THEN r
       ELSE IF Leaves(r) THEN Landed(r)
       ELSE LoopOn(e, Bind(Landed(r), e.s, VInt(Wrap(r.scope[e.s][2] + by, Bits))), end, by, prog)

\* A jump in the condition is neither taken nor looked at.
WhileOn(e, m, prog) ==
  LET c == Eval(Kid(e, 1), m, prog) IN
  IF c.err # "" \/ c.v # VBool(1) THEN c
  ELSE LET r == Scoped(c, LAMBDA x : EvalSeq(Rest(e, 2), x, prog)) IN
       IF r.err # "" THEN r ELSE IF Leaves(r) THEN Landed(r) ELSE WhileOn(e, Landed(r), prog)

\* invoke: nothing while a jump is pending.  Contracts on entry and on return;
\* the body's statements until one leaves a jump, which the function takes.
Holds(es, m, prog) ==
  LET judged(r) == IF r.err = "" /\ r.v # VBool(1) THEN Fail(r, "contract") ELSE r
  IN FoldLeft(LAMBDA a, c : IF a.err # "" THEN a ELSE judged(Eval(c, a, prog)), m, es)

Entered(f, args, m, prog) ==
  LET fresh == BindAll([m EXCEPT !.scope = << >>], Each(LAMBDA p : p[1], f.params), args)
  IN EvalSeq(f.body, Holds(f.req, fresh, prog), prog)
Value(ran) == IF ran.flow = "return" THEN ran.ret ELSE ran.v
Ensured(f, value, m, prog) ==
  LET kept == FoldLeft(LAMBDA a, c : [Holds(<<c>>, Bind(a, "res", value), prog) EXCEPT !.scope = a.scope], m, f.ens)
  IN [kept EXCEPT !.v = value]
Left(f, ran, prog) == Ensured(f, Value(ran), [ran EXCEPT !.flow = "none", !.ret = Void], prog)

Invoke(name, args, m, prog) ==
  IF Jumping(m) THEN Yield(m, Void)
  ELSE [Left(prog[name], Entered(prog[name], args, m, prog), prog) EXCEPT !.scope = m.scope]

\* One operator for each expression that does not evaluate all its operands
\* first.  K: its n-th operand on from m.
K(e, n, m, prog) == Eval(Kid(e, n), m, prog)

IfValue(e, m, prog) ==
  Then(K(e, 1, m, prog), LAMBDA c :
       IF c.v[1] # "Bool" THEN Fail(c, "type")
       ELSE Scoped(c, LAMBDA x : K(e, IF c.v[2] = 1 THEN 2 ELSE 3, x, prog)))
AndOr(e, m, prog) ==
  Then(K(e, 1, m, prog), LAMBDA a :
       IF a.v[1] # "Bool" THEN Fail(a, "type")
       ELSE IF a.v = VBool(IF e.k = "or" THEN 1 ELSE 0) THEN a
       ELSE Then(K(e, 2, a, prog), LAMBDA b : IF b.v[1] # "Bool" THEN Fail(b, "type") ELSE b))
LoopRun(e, m, prog) ==
  Then(K(e, 1, m, prog), LAMBDA from :
       IF from.v[1] # "Int" THEN Fail(from, "type")
       ELSE LET r == Operands(<<Kid(e, 2), Kid(e, 3)>>, Bind(from, e.s, from.v), prog) IN
            IF r.m.err # "" THEN r.m
            ELSE IF r.vs[1][1] # "Int" \/ r.vs[2][1] # "Int" THEN Fail(r.m, "type")
            ELSE Retain(Yield(LoopOn(e, r.m, r.vs[1][2], r.vs[2][2], prog), Void), DOMAIN from.scope))
CallFn(e, m, prog) ==
  LET r == Operands(e.as, m, prog) IN IF r.m.err # "" THEN r.m ELSE Invoke(e.s, r.vs, r.m, prog)

MatchResultRun(e, m, prog) ==
  Then(K(e, 1, m, prog), LAMBDA r :
       IF r.v[1] # "Sum" THEN Fail(r, "type")
       ELSE Scoped(r, LAMBDA x : EvalSeq(Kid(e, r.v[2] + 1).as, Bind(x, e.b[r.v[2]], r.v[3][1]), prog)))
MatchRun(e, m, prog) ==
  Then(K(e, 1, m, prog), LAMBDA r :
       IF r.v[1] # "Sum" THEN Fail(r, "type")
       ELSE LET mine == SelectSeq(Tail(e.as), LAMBDA a : a.k = "else" \/ a.i = r.v[2]) IN
            IF mine = <<>> THEN Fail(r, "unreachable")
            ELSE Scoped(r, LAMBDA x : EvalSeq(mine[1].as, BindAll(x, mine[1].b, r.v[3]), prog)))
WithField(e, m, prog) ==
  Then(K(e, 1, m, prog), LAMBDA r :
       IF r.v[1] # "Record" THEN Fail(r, "type")
       ELSE Then(K(e, 2, r, prog), LAMBDA x : Yield(x, Rec([r.v[2] EXCEPT ![e.i] = x.v]))))

\* With the pointer p that the first operand gives, once it is checked: before
\* any other operand is evaluated.
ThroughPointer(e, m, prog, F(_)) ==
  Then(K(e, 1, m, prog), LAMBDA p : IF Deref(p, p.v) # "" THEN Fail(p, Deref(p, p.v)) ELSE F(p))
GetField(e, m, prog) ==
  IF e.t \in ValueStructs
  THEN Then(K(e, 1, m, prog), LAMBDA r : IF r.v[1] # "Record" THEN Fail(r, "type") ELSE Yield(r, r.v[2][e.i]))
  ELSE ThroughPointer(e, m, prog, LAMBDA p :
         LoadAt(p, (p.v[2] % Word) + FieldOffset(e.t, e.i), FieldType(e.t, e.i)))
PutField(e, m, prog) ==
  ThroughPointer(e, m, prog, LAMBDA p : Then(K(e, 2, p, prog), LAMBDA x :
    StoreAt(x, (p.v[2] % Word) + FieldOffset(e.t, e.i), FieldType(e.t, e.i), x.v)))
ArrayLen(e, m, prog) == ThroughPointer(e, m, prog, LAMBDA p : Yield(p, VInt(p.mem[(p.v[2] % Word) - 4])))
AtIndex(e, m, prog, F(_, _, _)) ==
  ThroughPointer(e, m, prog, LAMBDA p : Then(K(e, 2, p, prog), LAMBDA n :
    IF Checked(n, p.v, n.v) # "" THEN Fail(n, Checked(n, p.v, n.v)) ELSE F(p, n, ElementAt(p.v, n.v))))
ArrayGet(e, m, prog) == AtIndex(e, m, prog, LAMBDA p, n, a : LoadAt(n, a, "V"))
ArraySet(e, m, prog) ==
  AtIndex(e, m, prog, LAMBDA p, n, a : Then(K(e, 3, n, prog), LAMBDA x : StoreAt(x, a, "V", x.v)))

Inner(e, m, prog) ==
  CASE e.k = "num"  -> Yield(m, VInt(e.i))
    [] e.k = "long" -> Yield(m, VLong(e.i))
    [] e.k = "bool" -> Yield(m, VBool(e.i))
    [] e.k = "null" -> Yield(m, VLong(0))
    [] e.k = "var"  -> IF e.s \in DOMAIN m.scope THEN Yield(m, m.scope[e.s]) ELSE Fail(m, "undefined")
    [] e.k = "if"   -> IfValue(e, m, prog)
    [] e.k \in {"and", "or"} -> AndOr(e, m, prog)
    [] e.k = "block" -> Scoped(m, LAMBDA x : EvalSeq(e.as, x, prog))
    [] e.k = "while" -> Yield(Scoped(m, LAMBDA x : WhileOn(e, x, prog)), Void)
    [] e.k = "loop" -> LoopRun(e, m, prog)
    [] e.k = "call" -> CallFn(e, m, prog)
    [] e.k = "match_result" -> MatchResultRun(e, m, prog)
    [] e.k = "match" -> MatchRun(e, m, prog)
    [] e.k = "with" -> WithField(e, m, prog)
    [] e.k = "get"  -> GetField(e, m, prog)
    [] e.k = "put"  -> PutField(e, m, prog)
    [] e.k = "arr.len" -> ArrayLen(e, m, prog)
    [] e.k = "arr.get" -> ArrayGet(e, m, prog)
    [] e.k = "arr.set" -> ArraySet(e, m, prog)
    [] OTHER -> LET r == Operands(e.as, m, prog) IN IF r.m.err # "" THEN r.m ELSE Apply(e, r.m, r.vs)

\* eval_expr: nothing while a jump is pending, and no error then either.
Forgiving(r) == IF r.err \notin {"", "fuel"} /\ Jumping(r) THEN [r EXCEPT !.err = "", !.v = Void] ELSE r
Eval(e, m, prog) ==
  IF m.err # "" THEN m
  ELSE IF Jumping(m) THEN Yield(m, Void)
  ELSE IF m.fuel = 0 THEN Fail(m, "fuel")
  ELSE Forgiving(Inner(e, [m EXCEPT !.fuel = @ - 1], prog))

\* A program run from main on these arguments and memory.
Start(mem, objects) ==
  [v |-> Void, scope |-> << >>, mem |-> mem, objects |-> objects, out |-> <<>>, err |-> "",
   flow |-> "none", ret |-> Void, fuel |-> Fuel, stale |-> FALSE]
Run(prog, args, mem, objects) == Invoke("main", args, Start(mem, objects), prog)
=============================================================================
