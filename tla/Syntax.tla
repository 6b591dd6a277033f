------------------------------- MODULE Syntax -------------------------------
(***************************************************************************)
(* AIPL's expressions (src/src/ast.rs), the types they have, and how a     *)
(* value is laid out as scalars (src/src/checker.rs).                      *)
(*                                                                         *)
(* A node keeps its children in evaluation order.  Which names there are,  *)
(* and which structs, unions and results, is fixed below: enough for       *)
(* values in values, a union in a union, and scalars of two widths.        *)
(***************************************************************************)
EXTENDS Integers, Sequences, FiniteSets, SequencesExt

\* Expr: its kind, a name, a number, a type, the names it binds, its children
E(kind, kids) == [k |-> kind, s |-> "", i |-> 0, t |-> "void", b |-> <<>>, as |-> kids]

Num(n)           == [E("num", <<>>) EXCEPT !.i = n]
Long(n)          == [E("long", <<>>) EXCEPT !.i = n]
Bool(n)          == [E("bool", <<>>) EXCEPT !.i = n]
Var(n)           == [E("var", <<>>) EXCEPT !.s = n]
Let(n, t, v)     == [E("let", <<v>>) EXCEPT !.s = n, !.t = t]
Assign(n, v)     == [E("set", <<v>>) EXCEPT !.s = n]
If(c, a, b)      == E("if", <<c, a, b>>)
While(c, body)   == E("while", <<c>> \o body)
Loop(n, from, to, by, body) == [E("loop", <<from, to, by>> \o body) EXCEPT !.s = n]
Break            == E("break", <<>>)
Continue         == E("continue", <<>>)
Return(v)        == E("return", <<v>>)
Leave            == E("return", <<>>)
Block(es)        == E("block", es)
Call(f, args)    == [E("call", args) EXCEPT !.s = f]
Op(name, args)   == [E("op", args) EXCEPT !.s = name]
And(a, b)        == E("and", <<a, b>>)
Or(a, b)         == E("or", <<a, b>>)
Record(t, args)  == [E("record", args) EXCEPT !.t = t]
With(t, f, v, x) == [E("with", <<v, x>>) EXCEPT !.t = t, !.i = f]
Get(t, f, e)     == [E("get", <<e>>) EXCEPT !.t = t, !.i = f]
Put(t, f, p, x)  == [E("put", <<p, x>>) EXCEPT !.t = t, !.i = f]
Ok(t, e)         == [E("ok", <<e>>) EXCEPT !.t = t]
Err(t, e)        == [E("err", <<e>>) EXCEPT !.t = t]
MatchResult(e, x, okBody, y, errBody) ==
                    [E("match_result", <<e, E("arm", okBody), E("arm", errBody)>>) EXCEPT !.b = <<x, y>>]
Make(t, v, args) == [E("make", args) EXCEPT !.t = t, !.i = v]
Arm(t, v, names, body) == [E("arm", body) EXCEPT !.t = t, !.i = v, !.b = names]
Else(body)       == E("else", body)
Match(e, arms)   == E("match", <<e>> \o arms)
ArrGet(a, n)     == E("arr.get", <<a, n>>)
ArrSet(a, n, x)  == E("arr.set", <<a, n, x>>)
ArrLen(a)        == E("arr.len", <<a>>)
Null(t)          == [E("null", <<>>) EXCEPT !.t = t]
AddrOf(e)        == E("addr", <<e>>)        \* ptr.addr
Load(t, a)       == [E("load", <<a>>) EXCEPT !.t = t]       \* mem.load32, mem.load64
Store(t, a, x)   == [E("store", <<a, x>>) EXCEPT !.t = t]   \* mem.store32, mem.store64
Emit(e)          == E("emit", <<e>>)        \* prints e
Drop(e)          == E("drop", <<e>>)
Abort            == E("abort", <<>>)
Try(e)           == E("try", <<e>>)
Defer(es)        == E("defer", es)

Kid(e, n) == e.as[n]
Final(e)  == e.as[Len(e.as)]                \* of a block or an arm
Rest(e, n) == SubSeq(e.as, n, Len(e.as))    \* the children from the n-th

\* Every node of e with its path from e, itself first: walk_expr.
RECURSIVE Nodes(_)
Nodes(e) == {<<<<>>, e>>} \cup
  UNION {{<<<<n>> \o x[1], x[2]>> : x \in Nodes(Kid(e, n))} : n \in DOMAIN e.as}

-----------------------------------------------------------------------------
\* The types of the programs: a value struct is the types of its fields.
Structs == [V |-> <<"i32", "i64">>, W |-> <<"i32", "V">>, P |-> <<"i32", "V">>]
ValueStructs == {"V", "W"}                  \* P is used through a pointer, P*
Unions  == [U |-> <<<<>>, <<"i32">>, <<"V">>>>, T |-> <<<<"U">>, <<"i64", "i32">>>>]
Results == [RV |-> <<"V", "i32">>, RI |-> <<"i32", "V">>, RU |-> <<"U", "i64">>]

IsValue(t) == t \in ValueStructs \cup DOMAIN Unions \cup DOMAIN Results
Pointers   == {"P*", "arr"}

\* slot_kind: which wasm type a scalar goes in
SlotKind(t) == IF t \in {"i64"} \cup Pointers THEN "i64" ELSE "i32"
Kinds == <<"i32", "i64">>

Concat(s) == FlattenSeq(<<>> \o s)      \* s as a tuple: each of its elements is evaluated once
Each(Op1(_), s) == [n \in DOMAIN s |-> Op1(s[n])]
Sides(t) == IF t \in DOMAIN Unions THEN Unions[t] ELSE <<<<Results[t][1]>>, <<Results[t][2]>>>>

\* sum_layout: the tag, then for each kind as many slots as the variant that
\* has most of them; a variant's scalars take its kinds' slots in order.
Count(v, k) == Len(SelectSeq(v, LAMBDA x : x = k))
SumLayout(kinds) ==          \* of a sum whose variants' scalars have these kinds
  LET most == [k \in ToSet(Kinds) |-> CHOOSE n \in {Count(kinds[v], k) : v \in DOMAIN kinds} :
                                        \A v \in DOMAIN kinds : Count(kinds[v], k) <= n]
      laid(at) == [slots |-> <<"i32">> \o Concat(Each(LAMBDA k : [n \in 1..at[k] |-> k], Kinds)),
                   map   |-> Each(LAMBDA v : [n \in DOMAIN v |->
                                    Count(SubSeq(v, 1, n), v[n]) + (IF v[n] = Kinds[1] THEN 0 ELSE at[Kinds[1]])],
                                  kinds)]
  IN laid(most)
RECURSIVE Scalars(_)
Layout(t) == SumLayout(Each(LAMBDA v : Each(SlotKind, Concat(Each(Scalars, v))), Sides(t)))

\* scalars: the scalars of a value of type t, in order
Scalars(t) ==
  CASE t \in ValueStructs -> Concat(Each(Scalars, Structs[t]))
    [] t \in DOMAIN Unions \cup DOMAIN Results -> Layout(t).slots
    [] t = "void" -> <<>>
    [] OTHER -> <<t>>
Width(t) == Len(Scalars(t))

\* field_slots: a field's first scalar among its struct's, counted from 0
SlotsBefore(types, n) == Len(Concat(Each(Scalars, SubSeq(types, 1, n - 1))))
FieldSlot(t, f) == SlotsBefore(Structs[t], f)
FieldType(t, f) == Structs[t][f]
\* layout_at: fields in order, each where its alignment puts it; a sum's slots
\* likewise.  offs is where each scalar is.
Align(n, a) == ((n + a - 1) \div a) * a
After(p, q) ==               \* a struct p with a field q after it
  LET put(at) == [offs |-> p.offs \o Each(LAMBDA o : at + o, q.offs), size |-> at + q.size,
                  align |-> IF q.align > p.align THEN q.align ELSE p.align]
  IN put(Align(p.size, q.align))
RoundedUp(p) == [p EXCEPT !.size = Align(@, p.align)]
RECURSIVE Place(_)
Place(t) ==
  IF t \in DOMAIN Structs \/ IsValue(t)
    THEN RoundedUp(FoldLeft(LAMBDA p, u : After(p, Place(u)), [offs |-> <<>>, size |-> 0, align |-> 1],
                            IF t \in DOMAIN Structs THEN Structs[t] ELSE Layout(t).slots))
    ELSE LET n == IF SlotKind(t) = "i64" THEN 8 ELSE 4 IN [offs |-> <<0>>, size |-> n, align |-> n]
FieldOffset(t, f) == Place(t).offs[FieldSlot(t, f) + 1]

-----------------------------------------------------------------------------
\* diverges: e always leaves its branch.
RECURSIVE Diverges(_)
Diverges(e) ==
  \/ e.k \in {"return", "break", "continue", "abort"}
  \/ e.k \in {"block", "arm", "else"} /\ e.as # <<>> /\ Diverges(Final(e))
  \/ e.k = "if" /\ Diverges(Kid(e, 2)) /\ Diverges(Kid(e, 3))

\* ends_in_jump: it does so by an instruction of its own.
RECURSIVE EndsInJump(_)
EndsInJump(e) ==
  \/ e.k \in {"return", "break", "continue"}
  \/ e.k \in {"block", "arm", "else"} /\ e.as # <<>> /\ EndsInJump(Final(e))

\* The operations of scalars, and what one makes of operands of type t.
Arithmetic  == {"add", "sub", "mul", "div", "mod", "divu", "remu", "bitxor", "bitand", "bitor",
                "shl", "shr", "shru", "rotl", "rotr"}
CheckedOps  == {"checked.add", "checked.sub", "checked.mul"}
Unary       == {"bitnot", "clz", "ctz", "popcnt"}
Orders      == {"lt", "lte", "gt", "gte"}
UnsignedOrders == {"ltu", "lteu", "gtu", "gteu"}
Comparisons == {"eq", "neq"} \cup Orders \cup UnsignedOrders
Conversions == {"extend_s", "extend_u", "wrap"}  \* i64.extend_i32_s, i64.extend_i32_u, i32.wrap_i64
OpType(name, t) == CASE name \in Comparisons \cup {"not"} -> "bool"
                     [] name \in {"extend_s", "extend_u"} -> "i64"
                     [] name = "wrap" -> "i32"
                     [] OTHER -> t
=============================================================================
