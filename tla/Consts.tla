------------------------------- MODULE Consts -------------------------------
(***************************************************************************)
(* Named constants (src/src/consts.rs): each is a literal, or an           *)
(* expression of literals and other constants that is folded; then every   *)
(* use of its name is its value, before the program is checked.            *)
(*                                                                         *)
(* defs gives each name its declared type and its value, an expression of  *)
(* Syntax.  A folded value is <<type, number>>, and an error "error" and   *)
(* why.  Folded values are kept and not folded again, which changes        *)
(* nothing and is left out, as are f64 and str.                            *)
(***************************************************************************)
EXTENDS Syntax, Words, TLC

CONSTANT Bits

\* Faulty variants of the operations below, for trying the properties on.

\* a value of another type than the declared one
OfAnyType(v, t) == v

-----------------------------------------------------------------------------
Error(why) == <<"error", why>>
IsError(v) == v[1] = "error"
WidthOf(t) == IF t = "i32" THEN Bits ELSE 2 * Bits

Numeric == {"add", "sub", "mul", "div", "mod", "bitxor", "shl", "shr", "shru", "rotl", "rotr", "bitand", "bitor"}
Allowed == Numeric \cup Unary \cup {"and", "or", "not"}

\* fold on two numbers of w bits, on one, and on bools
FoldNumbers(op, x, y, w) ==
  CASE op = "add"    -> x + y
    [] op = "sub"    -> x - y
    [] op = "mul"    -> x * y
    [] op = "div"    -> Quotient(x, y)
    [] op = "mod"    -> Remainder(x, y)
    [] op = "bitxor" -> BitXor(x, y, w)
    [] op = "shl"    -> ShiftLeft(x, y, w)
    [] op = "shr"    -> ShiftRight(x, y, w)
    [] op = "shru"   -> ShiftRightU(x, y, w)
    [] op = "rotl"   -> RotateLeft(x, y, w)
    [] op = "rotr"   -> RotateRight(x, y, w)
    [] op = "bitand" -> BitAnd(x, y, w)
    [] op = "bitor"  -> BitOr(x, y, w)
FoldOne(op, x, w) ==
  CASE op = "bitnot" -> -x - 1 [] op = "clz" -> LeadingZeros(x, w)
    [] op = "ctz" -> TrailingZeros(x, w) [] OTHER -> CountOnes(x, w)
FoldBools(op, x, y) == IF op = "and" THEN x * y ELSE x + y - x * y

FoldUnary(op, a) ==
  CASE op = "not" /\ a[1] = "bool" -> <<"bool", 1 - a[2]>>
    [] op # "not" /\ a[1] # "bool" -> <<a[1], Wrap(FoldOne(op, a[2], WidthOf(a[1])), WidthOf(a[1]))>>
    [] OTHER -> Error("does not apply")
FoldBinary(op, t, x, y) ==
  CASE t = "bool" -> IF op \in Numeric THEN Error("does not apply") ELSE <<t, FoldBools(op, x, y)>>
    [] op \notin Numeric -> Error("does not apply")
    [] op \in {"div", "mod"} /\ y = 0 -> Error("by zero")
    [] op = "div" /\ x = Least(WidthOf(t)) /\ y = -1 -> Error("overflows")
    [] OTHER -> <<t, Wrap(FoldNumbers(op, x, y, WidthOf(t)), WidthOf(t))>>
Fold(op, args) ==
  CASE \E n \in DOMAIN args : IsError(args[n]) -> args[CHOOSE n \in DOMAIN args : IsError(args[n])]
    [] op \notin Allowed -> Error("not allowed")
    [] Len(args) # (IF op \in Unary \cup {"not"} THEN 1 ELSE 2) -> Error("operands")
    [] Len(args) = 1 -> FoldUnary(op, args[1])
    [] args[1][1] # args[2][1] -> Error("two types")
    [] OTHER -> FoldBinary(op, args[1][1], args[1][2], args[2][2])

\* eval_const and eval_expr, with the constants whose values are being folded.
Declared(v, t) == IF IsError(v) \/ v[1] = t THEN v ELSE Error("declared otherwise")
RECURSIVE EvalExpr(_, _, _)
EvalConst(name, defs, active) ==
  IF name \in active THEN Error("depends on itself")
  ELSE Declared(EvalExpr(defs[name].v, defs, active \cup {name}), defs[name].t)
EvalExpr(e, defs, active) ==
  CASE e.k = "num"  -> IF -(2^(Bits - 1)) <= e.i /\ e.i < 2^Bits THEN <<"i32", Wrap(e.i, Bits)>> ELSE Error("does not fit")
    [] e.k = "long" -> <<"i64", e.i>>
    [] e.k = "bool" -> <<"bool", e.i>>
    [] e.k = "var"  -> IF e.s \in DOMAIN defs THEN EvalConst(e.s, defs, active) ELSE Error("not a constant")
    [] e.k \in {"op", "and", "or"} ->
         Fold(IF e.k = "op" THEN e.s ELSE e.k, Each(LAMBDA x : EvalExpr(x, defs, active), e.as))
    [] OTHER -> Error("not allowed")

\* read_const and expand: a literal has its declared type and stays as it is.
LiteralOf == [num |-> "i32", long |-> "i64", bool |-> "bool"]
IsLiteral(e) == e.k \in DOMAIN LiteralOf
FitsDeclared(d) == d.t = LiteralOf[d.v.k] /\ (d.v.k = "num" => Least(Bits) <= d.v.i /\ d.v.i < 2^Bits)
ReadConst(name, defs) ==
  CASE defs[name].t \notin {"i32", "i64", "bool"} -> Error("type")
    [] ~IsLiteral(defs[name].v) -> EvalConst(name, defs, {})
    [] FitsDeclared(defs[name]) -> <<defs[name].t, defs[name].v.i>>
    [] OTHER -> Error("not a literal of its type")
Values(defs) == [name \in DOMAIN defs |-> ReadConst(name, defs)]

\* substitute: a name written with a type cannot be a constant's.  The parser
\* reads a literal of 32 bits as signed.
Literal(v) == CASE v[1] = "i32" -> Num(Wrap(v[2], Bits)) [] v[1] = "i64" -> Long(v[2]) [] OTHER -> Bool(v[2])
RECURSIVE Substituted(_, _)
Substituted(e, values) ==
  IF e.k = "var" /\ e.s \in DOMAIN values THEN Literal(values[e.s])
  ELSE [e EXCEPT !.as = Each(LAMBDA x : Substituted(x, values), @)]
NamesConstant(f, values) ==
  \/ \E p \in ToSet(f.params) : p[1] \in DOMAIN values
  \/ \E x \in Nodes(Block(f.req \o f.ens \o f.body)) : x[2].k = "let" /\ x[2].s \in DOMAIN values
Everywhere(f, values) ==
  LET in(es) == Each(LAMBDA x : Substituted(x, values), es)
  IN [f EXCEPT !.req = in(@), !.ens = in(@), !.body = in(@)]

\* expand: whether the constants and their uses are right, and the program without them
Expands(prog, values) == /\ \A name \in DOMAIN values : ~IsError(values[name])
                         /\ \A f \in DOMAIN prog : ~NamesConstant(prog[f], values)
Expanded(prog, values) == [f \in DOMAIN prog |-> Everywhere(prog[f], values)]
=============================================================================
