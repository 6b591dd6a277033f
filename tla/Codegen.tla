------------------------------ MODULE Codegen ------------------------------
(***************************************************************************)
(* The wasm code generator (src/src/compiler/wasm.rs) on the expressions   *)
(* of Syntax: a lowered function becomes wasm locals and structured code.  *)
(*                                                                         *)
(* An instruction is [o, i, t, s, as]: its name, a number (a local, an     *)
(* offset, a constant, a branch depth), a type, a name, and the code in    *)
(* it.  A node of a function is named by its path: the numbers of the      *)
(* children down to it, the body's statements counted from 1 and the       *)
(* contracts under 0.  In code (Code and Into), cx is the function's       *)
(* locals, types and groups, with the labels around the place, the         *)
(* pointers an enclosing loop has checked, and whether loops may be        *)
(* versioned.  A failed check's message is the name in "fail"; the check   *)
(* of write addresses, which the programs here always pass, is left out.   *)
(***************************************************************************)
EXTENDS Syntax, TLC

CONSTANT Bits       \* of an i32; an i64 has twice as many

Instr(o)        == [o |-> o, i |-> 0, t |-> "void", s |-> "", as |-> <<>>]
Const(n, t)     == [Instr("const") EXCEPT !.i = n, !.t = t]
LocalOp(o, n)   == [Instr(o) EXCEPT !.i = n]                  \* get, set, tee
MemOp(o, t, n)  == [Instr(o) EXCEPT !.i = n, !.t = SlotKind(t)]  \* load, store
Typed(o, name, t) == [Instr(o) EXCEPT !.s = name, !.t = t]    \* bin, un: an instruction of i32s or i64s
Binary(name)    == Typed("bin", name, "i32")
Failed(why)     == [Instr("fail") EXCEPT !.s = why]           \* call the helper; unreachable
Branches(o, n)  == [Instr(o) EXCEPT !.i = n]                  \* br, br_if
Blocks(o, t, c) == [Instr(o) EXCEPT !.t = t, !.as = <<c>>]    \* block, loop
Iff(t, a, b)    == [Instr("if") EXCEPT !.t = t, !.as = <<a, b>>]
Unbound         == Instr("error")                             \* the generator gives up

Larger(a, b)      == IF a > b THEN a ELSE b
GetSlots(base, n) == [k \in 1..n |-> LocalOp("get", base + k - 1)]
SetSlots(base, n) == [k \in 1..n |-> LocalOp("set", base + n - k)]

\* Every node of e, parents first: walk_expr.
RECURSIVE PreOrder(_)
PreOrder(e)     == <<e>> \o Concat(Each(PreOrder, e.as))
PreOrderAll(es) == Concat(Each(PreOrder, es))

\* Faulty variants of the operations below, for trying the properties on.

\* a function frees only what it frees itself
OwnFrees(prog, may) == may
\* a branch that leaves without a jump of its own is left open
Unsealed(branch, valued) == <<>>
\* a loop assigns no more than it declares
LoopsAssign(e) == {x.s : x \in {y \in ToSet(PreOrder(e)) : y.k \in {"let", "loop"}}}

-----------------------------------------------------------------------------
\* type_in and is_void_expr: of an expression, given the locals' types
RECURSIVE TypeIn(_, _), IsVoid(_, _)
LastType(body, cx) == IF body.as = <<>> THEN "void" ELSE TypeIn(Final(body), cx)

\* The branch that gives an if or match its type: the first that does not leave.
TypeBranch(e) ==
  LET stay == SelectSeq(Tail(e.as), LAMBDA a : ~Diverges(a)) IN
  CASE e.k = "match" -> IF stay = <<>> THEN Kid(e, 2) ELSE stay[1]
    [] OTHER         -> Kid(e, IF Diverges(Kid(e, 2)) THEN 3 ELSE 2)

TypeIn(e, cx) ==
  CASE e.k = "num"   -> "i32"
    [] e.k = "long"  -> "i64"
    [] e.k \in {"bool", "and", "or"} -> "bool"
    [] e.k = "var"   -> IF e.s \in DOMAIN cx.types THEN cx.types[e.s] ELSE "i32"
    [] e.k = "if"    -> TypeIn(TypeBranch(e), cx)
    [] e.k = "block" -> LastType(e, cx)
    [] e.k \in {"match", "match_result"} -> LastType(TypeBranch(e), cx)
    [] e.k = "call"  -> cx.prog[e.s].ret
    [] e.k \in {"ok", "err", "make", "record", "with", "null", "load"} -> e.t
    [] e.k = "get"   -> FieldType(e.t, e.i)
    [] e.k = "arr.get" -> "V"
    [] e.k \in {"arr.len", "addr"} -> "i32"
    [] e.k = "op"    -> OpType(e.s, TypeIn(Kid(e, 1), cx))
    [] OTHER         -> "void"

IsVoid(e, cx) ==
  CASE e.k = "block" -> e.as = <<>> \/ IsVoid(Final(e), cx)
    [] e.k = "if"    -> IsVoid(Kid(e, 2), cx) /\ IsVoid(Kid(e, 3), cx)
    [] e.k \in {"match", "match_result"} -> LET arm == TypeBranch(e) IN arm.as = <<>> \/ IsVoid(Final(arm), cx)
    [] e.k = "var"   -> FALSE
    [] OTHER         -> TypeIn(e, cx) = "void"
HasValue(e, cx) == IsValue(TypeIn(e, cx))

\* value_chain: the root of a chain of reads from a value, with its path, and
\* the slot and offset in it that e reads.
RECURSIVE Chain(_, _, _)
Chain(e, p, cx) ==
  IF e.k = "get" /\ HasValue(Kid(e, 1), cx)
  THEN [Chain(Kid(e, 1), Append(p, 1), cx) EXCEPT !.slot = @ + FieldSlot(e.t, e.i), !.off = @ + FieldOffset(e.t, e.i)]
  ELSE [e |-> e, p |-> p, slot |-> 0, off |-> 0]
InPlace(root, cx) == root.k \in {"var", "arr.get"} \/ (root.k = "get" /\ ~HasValue(Kid(root, 1), cx))

-----------------------------------------------------------------------------
\* collect_lets: what a node itself declares.  A match_result's binders get a
\* type later; a match's are its variants' fields.
CheckedLocals == <<<<"#ck_a", "i64">>, <<"#ck_b", "i64">>, <<"#ck_r", "i64">>>>
Lets(e) ==
  CASE e.k = "let"  -> <<<<e.s, e.t>>>>
    [] e.k = "loop" -> <<<<e.s, "i32">>, <<e.s \o "#end", "i32">>, <<e.s \o "#step", "i32">>>>
    [] e.k = "match_result" -> <<<<e.b[1], "i32">>, <<e.b[2], "i32">>>>
    [] e.k = "match" -> Concat(Each(LAMBDA a : [n \in DOMAIN a.b |-> <<a.b[n], Unions[a.t][a.i][n]>>], Tail(e.as)))
    [] e.s \in CheckedOps -> CheckedLocals
    [] OTHER -> <<>>
Contracts(f) == f.req \o f.ens
Declarations(f) ==
  f.params \o Concat(Each(Lets, PreOrderAll(f.body)))
           \o Concat(Each(Lets, SelectSeq(PreOrderAll(Contracts(f)), LAMBDA e : e.k = "let")))
\* The first declaration of a name wins.
Declared(f) == FoldLeft(LAMBDA a, d : IF d[1] \in {x[1] : x \in ToSet(a)} THEN a ELSE Append(a, d),
                        <<>>, Declarations(f))
TypesOf(decls) == [n \in {d[1] : d \in ToSet(decls)} |-> SelectSeq(decls, LAMBDA d : d[1] = n)[1][2]]

\* binder_types: each match_result's binders, in source order
BinderTypes(f, types, prog) ==
  FoldLeft(LAMBDA a, e :
             LET side(t, n) == IF t \in DOMAIN Results THEN Results[t][n] ELSE "i32"
                 given(t) == [n \in ToSet(e.b) \ a.set |-> side(t, IF n = e.b[1] THEN 1 ELSE 2)]
             IN [types |-> given(TypeIn(Kid(e, 1), [prog |-> prog, types |-> a.types])) @@ a.types,
                 set |-> a.set \cup ToSet(e.b)],
           [types |-> types, set |-> {}],
           SelectSeq(PreOrderAll(f.body), LAMBDA e : e.k = "match_result")).types

\* value_groups: the nodes that keep a value in locals of their own ("own"),
\* or whose value waits in some ("spill"), with its type.  into: what e makes
\* goes to another's group.
RECURSIVE Groups(_, _, _, _)
KidGroups(e, p, cx) == Concat([n \in DOMAIN e.as |-> Groups(Kid(e, n), Append(p, n), FALSE, cx)])
BodyGroups(b, p, into, cx) ==
  Concat([n \in DOMAIN b.as |-> Groups(Kid(b, n), Append(p, n), into /\ n = Len(b.as), cx)])
Own(p, t)        == <<<<<<p, "own">>, t>>>>
Spill(e, p, cx)  == <<<<<<p, "spill">>, TypeIn(e, cx)>>>>
ChainGroups(r, cx) == IF InPlace(r.e, cx) THEN KidGroups(r.e, r.p, cx)
                      ELSE Spill(r.e, r.p, cx) \o Groups(r.e, r.p, FALSE, cx)
\* stored_values: the child whose value is stored to memory
Stored(e, cx) == CASE e.k = "put" /\ IsValue(FieldType(e.t, e.i)) -> {2} [] e.k = "arr.set" -> {3} [] OTHER -> {}

TypedGroups(e, p, into, t, v, cx) ==
  LET own == IF v /\ ~into THEN Own(p, t) ELSE <<>> IN
  CASE e.k = "if" -> own \o Concat([n \in 1..3 |-> Groups(Kid(e, n), Append(p, n), n > 1 /\ v, cx)])
       [] e.k \in {"match", "match_result"} ->
            own \o (IF HasValue(Kid(e, 1), cx) /\ Kid(e, 1).k # "var" THEN Spill(Kid(e, 1), Append(p, 1), cx) ELSE <<>>)
                \o Groups(Kid(e, 1), Append(p, 1), FALSE, cx)
                \o Concat([n \in 1..(Len(e.as) - 1) |-> BodyGroups(Kid(e, n + 1), Append(p, n + 1), v, cx)])
       [] e.k = "block" -> BodyGroups(e, p, into, cx)
       [] e.k \in {"ok", "err", "make", "with"} -> Own(p, t) \o KidGroups(e, p, cx)
       [] e.k = "get" /\ HasValue(Kid(e, 1), cx) ->
            ChainGroups(Chain(e, p, cx), cx)
       [] OTHER -> Concat([n \in 1..Cardinality(Stored(e, cx)) |->
                             LET k == CHOOSE x \in Stored(e, cx) : TRUE IN Spill(Kid(e, k), Append(p, k), cx)])
                   \o KidGroups(e, p, cx)
Groups(e, p, into, cx) ==
  LET t == TypeIn(IF e.k = "if" THEN Kid(e, 2) ELSE e, cx) IN TypedGroups(e, p, into, t, IsValue(t), cx)

-----------------------------------------------------------------------------
\* functions_that_may_free: a raw store, or a call of one that may
Direct(f)  == \E e \in ToSet(PreOrderAll(f.body \o Contracts(f))) : e.k = "store"
Callees(f) == {e.s : e \in {x \in ToSet(PreOrderAll(f.body \o Contracts(f))) : x.k = "call"}}
RECURSIVE Spread(_, _)
Spread(prog, may) ==
  LET more == {f \in DOMAIN prog : Callees(prog[f]) \cap may # {}} IN
  IF more \subseteq may THEN may ELSE Spread(prog, may \cup more)
MayFree(prog) == Spread(prog, {f \in DOMAIN prog : Direct(prog[f])})

\* loop_invariant_pointers: those a loop accesses and never assigns, if
\* nothing in it may free.
LoopAssigns(e) ==
  LET all == ToSet(PreOrder(e)) IN
  {x.s : x \in {y \in all : y.k \in {"let", "set", "loop"}}}
    \cup UNION {ToSet(x.b) : x \in {y \in all : y.k \in {"arm", "match_result"}}}
Barrier(e, cx) == \E x \in ToSet(PreOrder(e)) : x.k = "store" \/ (x.k = "call" /\ x.s \in cx.free)
InvariantPointers(e, cx) ==
  LET used == {Kid(x, 1).s : x \in {y \in ToSet(PreOrder(e)) :
                 y.k \in {"get", "put", "arr.get", "arr.set", "arr.len"} /\ Kid(y, 1).k = "var"}}
  IN IF Barrier(e, cx) THEN {}
     ELSE {n \in (used \cap DOMAIN cx.locals) \ (LoopAssigns(e) \cup cx.proven) : cx.types[n] \in Pointers}

\* label_depth: from the innermost label out
Jumps(e) == IF e.k = "break" THEN {"break"} ELSE {"looptop", "continue"}
LabelDepth(labels, kinds) ==
  LET at == {n \in DOMAIN labels : labels[n] \in kinds} IN
  IF at = {} THEN <<Unbound>>
  ELSE <<Branches("br", Len(labels) - CHOOSE n \in at : \A x \in at : x <= n)>>
Deeper(cx, n) == [cx EXCEPT !.labels = @ \o [k \in 1..n |-> "plain"]]
Inside(cx, label) == [cx EXCEPT !.labels = Append(@, label)]

Nowhere == -1       \* no group for what an expression makes: it stays on the stack

\* With an i64 pointer on the stack: its address, once it is checked.
GenerationAt(cx) == <<LocalOp("get", cx.addr), Const(8, "i32"), Binary("sub"), MemOp("load", "i32", 0)>>
NullCheck(cx) ==
  <<LocalOp("tee", cx.fat), Instr("wrap"), LocalOp("tee", cx.addr), Instr("eqz"), Iff("void", <<Failed("null")>>, <<>>)>>
  \o GenerationAt(cx)
  \o <<LocalOp("get", cx.fat), Instr("gen"), Binary("ne"), Iff("void", <<Failed("freed")>>, <<>>), LocalOp("get", cx.addr)>>

\* With an array's address and an index on the stack, which stay there.
BoundsCheck(cx) ==
  <<LocalOp("set", cx.index), LocalOp("tee", cx.addr), LocalOp("get", cx.index), LocalOp("get", cx.addr),
    Const(4, "i32"), Binary("sub"), MemOp("load", "i32", 0), Binary("ge_u"),
    Iff("void", <<Failed("bounds")>>, <<>>), LocalOp("get", cx.index)>>

\* Scalars of a value of type t to or from the address in addr_scratch.
LoadScalars(t, off, cx) ==
  Concat([n \in 1..Width(t) |-> <<LocalOp("get", cx.addr), MemOp("load", Scalars(t)[n], off + Place(t).offs[n])>>])
StoreScalars(t, off, g, cx) ==
  SetSlots(g, Width(t)) \o <<LocalOp("set", cx.addr)>>
  \o Concat([n \in 1..Width(t) |-> <<LocalOp("get", cx.addr), LocalOp("get", g + n - 1),
                                     MemOp("store", Scalars(t)[n], off + Place(t).offs[n])>>])

\* A value's scalars to a variant's slots, from the stack or to a binder.
SetVariant(base, map) == Each(LAMBDA slot : LocalOp("set", base + slot), Reverse(map))
ZeroUnused(t, base, map) ==
  Concat([n \in 1..(Width(t) - 1) |-> IF n \in ToSet(map) THEN <<>>
                                        ELSE <<Const(0, Layout(t).slots[n + 1]), LocalOp("set", base + n)>>])
Seal(branch, valued) ==
  IF valued /\ Diverges(branch) /\ ~EndsInJump(branch) THEN <<Instr("unreachable")>> ELSE <<>>

\* The code of e: what it makes is left on the stack, or put into the locals
\* from dest.
RECURSIVE CodeTo(_, _, _, _)
Code(e, p, cx)       == CodeTo(e, p, Nowhere, cx)
Into(e, p, base, cx) == CodeTo(e, p, base, cx)

Drops(t) == [n \in 1..Larger(Width(t), 1) |-> Instr("drop")]
Dropped(e, cx) == IF IsVoid(e, cx) THEN <<>> ELSE Drops(TypeIn(e, cx))
Stmt(e, p, cx) == Code(e, p, cx) \o Dropped(e, cx)
\* The statements of a body from its m-th child to its n-th.
Stmts(e, p, m, n, cx) == Concat([k \in 1..(n - m + 1) |-> Stmt(Kid(e, m + k - 1), Append(p, m + k - 1), cx)])
Kids(e, p, cx) == Concat([n \in DOMAIN e.as |-> Code(Kid(e, n), Append(p, n), cx)])

\* compile_pointer
Pointer(e, p, cx) ==
  Code(e, p, cx) \o (IF e.k = "var" /\ e.s \in cx.proven THEN <<Instr("wrap"), LocalOp("tee", cx.addr)>>
                     ELSE NullCheck(cx))
\* emit_element_address
Element(e, p, cx) ==
  Pointer(Kid(e, 1), Append(p, 1), cx) \o Code(Kid(e, 2), Append(p, 2), cx) \o BoundsCheck(cx)
  \o <<Const(Place("V").size, "i32"), Binary("mul"), Binary("add")>>
\* emit_store_value, or a scalar's store; the address is on the stack.
StoreKid(e, n, p, t, off, cx) ==
  Code(Kid(e, n), Append(p, n), cx)
  \o (IF IsValue(t) THEN StoreScalars(t, off, cx.groups[<<Append(p, n), "spill">>], cx) ELSE <<MemOp("store", t, off)>>)

\* compile_value_read: the value of type t that r leads to
ChainCode(r, t, cx) ==
  LET rest(g) == Code(r.e, r.p, cx) \o SetSlots(g, Width(TypeIn(r.e, cx))) \o GetSlots(g + r.slot, Width(t)) IN
     CASE r.e.k = "var" -> GetSlots(cx.locals[r.e.s] + r.slot, Width(t))
       [] r.e.k = "get" /\ InPlace(r.e, cx) ->
            Pointer(Kid(r.e, 1), Append(r.p, 1), cx) \o <<LocalOp("set", cx.addr)>>
            \o LoadScalars(t, FieldOffset(r.e.t, r.e.i) + r.off, cx)
       [] r.e.k = "arr.get" -> Element(r.e, r.p, cx) \o <<LocalOp("set", cx.addr)>> \o LoadScalars(t, r.off, cx)
       [] OTHER -> rest(cx.groups[<<r.p, "spill">>])
ValueRead(e, p, cx) == ChainCode(Chain(e, p, cx), TypeIn(e, cx), cx)

\* compile_value_make and compile_value_result: tag, fields, zeros, all in e's group
Mine(map, fields, n) == SubSeq(map, SlotsBefore(fields, n) + 1, SlotsBefore(fields, n + 1))
VariantIn(g, e, p, tag, map, cx) ==
  <<Const(tag - 1, "i32"), LocalOp("set", g)>>
  \o Concat([n \in DOMAIN e.as |-> Code(Kid(e, n), Append(p, n), cx)
                                        \o SetVariant(g, Mine(map, Sides(e.t)[tag], n))])
  \o ZeroUnused(e.t, g, map) \o GetSlots(g, Width(e.t))
Variant(e, p, tag, cx) == VariantIn(cx.groups[<<p, "own">>], e, p, tag, Layout(e.t).map[tag], cx)

\* What a match looks at: a variable's own locals, or a group.
Scrutinee(e, p, cx) ==
  IF e.k = "var" THEN [base |-> cx.locals[e.s], code |-> <<>>]
  ELSE LET g == cx.groups[<<p, "spill">>] IN [base |-> g, code |-> Code(e, p, cx) \o SetSlots(g, Width(TypeIn(e, cx)))]
BlockType(body, dest, cx) ==
  IF dest # Nowhere \/ body.as = <<>> THEN "void"
  ELSE IF IsVoid(Final(body), cx) THEN "void" ELSE SlotKind(TypeIn(Final(body), cx))

\* compile_arm: its last expression into dest, or the block's value, or dropped.
ArmCode(arm, p, t, dest, cx) ==
  LET k == Len(arm.as) IN
  IF k = 0 THEN <<>>
  ELSE Stmts(arm, p, 1, k - 1, cx)
       \o (CASE dest # Nowhere -> Into(Final(arm), Append(p, k), dest, cx)
             [] t # "void"     -> Code(Final(arm), Append(p, k), cx) \o Seal(Final(arm), TRUE)
             [] OTHER          -> Stmt(Final(arm), Append(p, k), cx))

\* A name a pattern binds: its scalars from the slots of what it matches.  A
\* match_result's without a local is left out.
Binder(name, base, slots, missing, cx) ==
  IF name \notin DOMAIN cx.locals THEN missing
  ELSE Each(LAMBDA slot : LocalOp("get", base + slot), slots) \o SetSlots(cx.locals[name], Len(slots))
Binders(names, base, fields, map, missing, cx) ==
  Concat([n \in DOMAIN names |-> Binder(names[n], base, Mine(map, fields, n), missing, cx)])

\* compile_match_result and compile_match, whose arms are tested in order: s
\* is where the value of type t is, block what the arms leave.
MatchedCode(e, p, t, s, block, dest, cx) ==
  LET isMatch == e.k = "match"
      bind(names, tag) ==
        Binders(names, s.base, Sides(t)[tag], Layout(t).map[tag], IF isMatch THEN <<Unbound>> ELSE <<>>, cx)
      arm(n, depth) == ArmCode(Kid(e, n), Append(p, n), block, dest, Deeper(cx, depth))
      names(n) == IF isMatch THEN Kid(e, n).b ELSE <<e.b[n - 1]>>
      tag(n)   == IF isMatch THEN Kid(e, n).i ELSE n - 1
      branch(n, depth) == bind(names(n), tag(n)) \o arm(n, depth)
      named == Cardinality({n \in 2..Len(e.as) : Kid(e, n).k = "arm"})
      last  == IF Final(e).k = "else" THEN arm(Len(e.as), named) ELSE <<Instr("unreachable")>>
      test(n, rest) == <<LocalOp("get", s.base), Const(Kid(e, n).i - 1, "i32"), Binary("eq"),
                         Iff(block, branch(n, n - 1), rest)>>
      either(arms) == <<LocalOp("get", s.base), Instr("eqz"), Iff(block, arms[1], arms[2])>>
  IN s.code \o (IF isMatch THEN FoldRight(test, [k \in 1..named |-> k + 1], last)
                ELSE either([n \in 1..2 |-> branch(n + 1, 1)]))
MatchCode(e, p, dest, cx) ==
  MatchedCode(e, p, TypeIn(Kid(e, 1), cx), Scrutinee(Kid(e, 1), Append(p, 1), cx), BlockType(TypeBranch(e), dest, cx), dest, cx)

\* compile_into: a value into the locals from base
IntoSlots(e, p, base, cx) ==
  CASE e.k = "if" ->
         LET either(bs) == Iff("void", bs[1], bs[2]) IN
         Code(Kid(e, 1), Append(p, 1), cx)
         \o <<either([n \in 1..2 |-> Into(Kid(e, n + 1), Append(p, n + 1), base, Inside(cx, "plain"))])>>
    [] e.k = "block" /\ e.as # <<>> ->
         Stmts(e, p, 1, Len(e.as) - 1, cx) \o Into(Final(e), Append(p, Len(e.as)), base, cx)
    [] e.k \in {"match", "match_result"} -> MatchCode(e, p, base, cx)
    [] OTHER -> Code(e, p, cx) \o SetSlots(base, Width(TypeIn(e, cx)))

-----------------------------------------------------------------------------
\* A loop as it stands: break leaves the outer block, continue goes to the
\* top of a while and to the end of a counted loop's body, before its step.
WhileCode(e, p, cx) ==
  LET in == Inside(Inside(cx, "break"), "looptop") IN
  <<Blocks("block", "void", <<Blocks("loop", "void",
      Code(Kid(e, 1), Append(p, 1), in) \o <<Instr("eqz"), Branches("br_if", 1)>>
      \o Stmts(e, p, 2, Len(e.as), in) \o <<Branches("br", 0)>>)>>)>>

CountedCode(e, p, cx) ==
  LET in == Inside(Inside(cx, "break"), "looptop")
      var == cx.locals[e.s]
      end == cx.locals[e.s \o "#end"]
      by == cx.locals[e.s \o "#step"]
      setOnce(n, local) == Code(Kid(e, n), Append(p, n), cx) \o <<LocalOp("set", local)>>
  IN setOnce(1, var) \o setOnce(2, end) \o setOnce(3, by)
     \o <<Blocks("block", "void", <<Blocks("loop", "void",
            <<LocalOp("get", var), LocalOp("get", end), Binary("gt_s"), Branches("br_if", 1),
              Blocks("block", "void", Stmts(e, p, 4, Len(e.as), Inside(in, "continue"))),
              LocalOp("get", var), LocalOp("get", by), Binary("add"), LocalOp("set", var), Branches("br", 0)>>)>>)>>

\* compile_versioned_loop: a copy without the checks of the pointers that
\* are found live when the loop starts, and the loop with them.
LoopCode(e, p, cx) ==
  LET names == IF cx.versioning THEN SetToSeq(InvariantPointers(e, cx)) ELSE <<>>
      live(n) == <<LocalOp("get", cx.locals[n]), LocalOp("tee", cx.fat), Instr("wrap"), LocalOp("tee", cx.addr),
                   Instr("eqz"), Iff("i32", <<Const(0, "i32")>>,
                                     GenerationAt(cx) \o <<LocalOp("get", cx.fat), Instr("gen"), Binary("eq")>>)>>
      in == Inside(cx, "plain")
  IN IF names = <<>> THEN IF e.k = "while" THEN WhileCode(e, p, cx) ELSE CountedCode(e, p, cx)
     ELSE Concat([n \in DOMAIN names |-> live(names[n]) \o (IF n > 1 THEN <<Binary("and")>> ELSE <<>>)])
          \o <<Iff("void", Code(e, p, [in EXCEPT !.proven = @ \cup ToSet(names)]),
                           Code(e, p, [in EXCEPT !.versioning = FALSE]))>>

\* With a contract on its result, a return goes to the end of the body's block.
ReturnCode(e, p, cx) ==
  LET t == TypeIn(Kid(e, 1), cx) IN
  Kids(e, p, cx)
  \o (IF e.as # <<>> /\ cx.ens /\ IsValue(t) THEN SetSlots(cx.locals["res"], Width(t)) ELSE <<>>)
  \o (IF cx.ens THEN <<Branches("br", Len(cx.labels) - 1)>> ELSE <<Instr("return")>>)

KidCode(e, n, p, cx) == Code(Kid(e, n), Append(p, n), cx)
OwnGroup(p, cx) == cx.groups[<<p, "own">>]

VarCode(e, cx) == IF e.s \in DOMAIN cx.locals
                  THEN GetSlots(cx.locals[e.s], Larger(Width(TypeIn(e, cx)), 1)) ELSE <<Unbound>>
AssignCode(e, p, cx) == KidCode(e, 1, p, cx) \o SetSlots(cx.locals[e.s], Larger(Width(TypeIn(Kid(e, 1), cx)), 1))

\* A value in the locals of its group, on the stack again.
IfValueCode(e, p, cx) == Into(e, p, OwnGroup(p, cx), cx) \o GetSlots(OwnGroup(p, cx), Width(TypeIn(Kid(e, 2), cx)))
IfCode(e, p, cx) ==
  LET typed(t) == Iff(t, KidCode(e, 2, p, Inside(cx, "plain")) \o Seal(Kid(e, 2), t # "void"),
                         KidCode(e, 3, p, Inside(cx, "plain")) \o Seal(Kid(e, 3), t # "void"))
      t(branch) == IF IsVoid(branch, cx) THEN "void" ELSE SlotKind(TypeIn(branch, cx))
  IN KidCode(e, 1, p, cx) \o <<typed(t(TypeBranch(e)))>>
AndCode(e, p, cx) == KidCode(e, 1, p, cx) \o <<Iff("i32", KidCode(e, 2, p, Inside(cx, "plain")), <<Const(0, "i32")>>)>>
OrCode(e, p, cx)  == KidCode(e, 1, p, cx) \o <<Iff("i32", <<Const(1, "i32")>>, KidCode(e, 2, p, Inside(cx, "plain")))>>
BlockCode(e, p, cx) ==
  IF e.as = <<>> THEN <<>> ELSE Stmts(e, p, 1, Len(e.as) - 1, cx) \o KidCode(e, Len(e.as), p, cx)
CallCode(e, p, cx) == Kids(e, p, cx) \o <<[Instr("call") EXCEPT !.s = e.s]>>

WithCode(e, p, cx) ==
  LET own == OwnGroup(p, cx) IN
  KidCode(e, 1, p, cx) \o SetSlots(own, Width(e.t)) \o KidCode(e, 2, p, cx)
  \o SetSlots(own + FieldSlot(e.t, e.i), Width(FieldType(e.t, e.i))) \o GetSlots(own, Width(e.t))
MatchValueCode(e, p, cx) ==
  LET own == IF HasValue(e, cx) THEN OwnGroup(p, cx) ELSE Nowhere IN
  MatchCode(e, p, own, cx) \o (IF own = Nowhere THEN <<>> ELSE GetSlots(own, Width(TypeIn(e, cx))))

GetFieldCode(e, p, cx) ==
  IF HasValue(Kid(e, 1), cx) \/ HasValue(e, cx) THEN ValueRead(e, p, cx)
  ELSE Pointer(Kid(e, 1), Append(p, 1), cx) \o <<MemOp("load", FieldType(e.t, e.i), FieldOffset(e.t, e.i))>>
PutFieldCode(e, p, cx) ==
  Pointer(Kid(e, 1), Append(p, 1), cx) \o StoreKid(e, 2, p, FieldType(e.t, e.i), FieldOffset(e.t, e.i), cx)
ArrGetCode(e, p, cx) == Element(e, p, cx) \o <<LocalOp("set", cx.addr)>> \o LoadScalars("V", 0, cx)
ArrSetCode(e, p, cx) == Element(e, p, cx) \o StoreKid(e, 3, p, "V", 0, cx)
ArrLenCode(e, p, cx) ==
  Pointer(Kid(e, 1), Append(p, 1), cx) \o <<Const(4, "i32"), Binary("sub"), MemOp("load", "i32", 0)>>
AddrCode(e, p, cx)  == KidCode(e, 1, p, cx) \o <<Instr("wrap")>>
LoadCode(e, p, cx)  == KidCode(e, 1, p, cx) \o <<MemOp("load", e.t, 0)>>
StoreCode(e, p, cx) == Kids(e, p, cx) \o <<MemOp("store", e.t, 0)>>
EmitCode(e, p, cx)  == KidCode(e, 1, p, cx) \o <<Instr("emit")>>
DropCode(e, p, cx)  == KidCode(e, 1, p, cx) \o Drops(TypeIn(Kid(e, 1), cx))

-----------------------------------------------------------------------------
\* The operations of scalars.
ArithInstruction ==
  [add |-> "add", sub |-> "sub", mul |-> "mul", div |-> "div_s", mod |-> "rem_s", divu |-> "div_u",
   remu |-> "rem_u", bitxor |-> "xor", bitand |-> "and", bitor |-> "or", shl |-> "shl", shr |-> "shr_s",
   shru |-> "shr_u", rotl |-> "rotl", rotr |-> "rotr"]
CompareInstruction ==
  [eq |-> "eq", neq |-> "ne", lt |-> "lt_s", lte |-> "le_s", gt |-> "gt_s", gte |-> "ge_s",
   ltu |-> "lt_u", lteu |-> "le_u", gtu |-> "gt_u", gteu |-> "ge_u"]
OperandType(e, cx) == TypeIn(Kid(e, 1), cx)
Comparable(name, t) == t \in {"i32", "i64"} \/ (name \in {"eq", "neq"} /\ t \in {"bool"} \cup Pointers)

ArithCode(e, p, cx) == Kids(e, p, cx) \o <<Typed("bin", ArithInstruction[e.s], OperandType(e, cx))>>
CompareCode(e, p, cx) ==
  Kids(e, p, cx) \o (IF Comparable(e.s, OperandType(e, cx))
                     THEN <<Typed("bin", CompareInstruction[e.s], SlotKind(OperandType(e, cx)))>> ELSE <<Unbound>>)
BitNotCode(e, p, cx) ==
  Kids(e, p, cx) \o <<Const(-1, OperandType(e, cx)), Typed("bin", "xor", OperandType(e, cx))>>
CountCode(e, p, cx) == Kids(e, p, cx) \o <<Typed("un", e.s, OperandType(e, cx))>>
ConvertCode(e, p, cx) == Kids(e, p, cx) \o <<Instr(e.s)>>
NotCode(e, p, cx) == Kids(e, p, cx) \o <<Instr("eqz")>>

\* compile_checked: the operation, then a trap, by a division that overflows, if
\* it did.  In an i64 an i32's result is exact; an i64's signs tell, or for a
\* product the way back.
LongOp(name)   == Typed("bin", name, "i64")
TrapIf == <<Iff("void", <<Const(-(2^(Bits - 1)), "i32"), Const(-1, "i32"), Typed("bin", "div_s", "i32"), Instr("drop")>>, <<>>)>>
CheckedShort(e, p, op, r, cx) ==
  KidCode(e, 1, p, cx) \o <<Instr("extend_s")>> \o KidCode(e, 2, p, cx) \o <<Instr("extend_s")>>
  \o <<LongOp(op), LocalOp("tee", r), Const(2^(Bits - 1), "i64"), LongOp("add"), Const(2^Bits, "i64"), LongOp("ge_u")>>
  \o TrapIf \o <<LocalOp("get", r), Instr("wrap")>>
Signs(x, y, z, r) == <<LocalOp("get", x), LocalOp("get", y), LongOp("xor"), LocalOp("get", z), LocalOp("get", r),
                       LongOp("xor"), LongOp("and"), Const(0, "i64"), LongOp("lt_s")>>
WayBack(a, b, r) ==
  <<LocalOp("get", a), Const(0, "i64"), LongOp("ne"),
    Iff("void", <<LocalOp("get", r), LocalOp("get", a), LongOp("div_s"), LocalOp("get", b), LongOp("ne")>> \o TrapIf, <<>>)>>
CheckedLong(e, p, op, a, b, r, cx) ==
  Kids(e, p, cx)
  \o <<LocalOp("set", b), LocalOp("set", a), LocalOp("get", a), LocalOp("get", b), LongOp(op), LocalOp("set", r)>>
  \o (CASE op = "add" -> Signs(a, r, b, r) \o TrapIf
         [] op = "sub" -> Signs(a, b, a, r) \o TrapIf
         [] OTHER      -> WayBack(a, b, r))
  \o <<LocalOp("get", r)>>
PlainOp == ("checked.add" :> "add") @@ ("checked.sub" :> "sub") @@ ("checked.mul" :> "mul")
CheckedCode(e, p, cx) ==
  IF OperandType(e, cx) = "i32" THEN CheckedShort(e, p, PlainOp[e.s], cx.locals["#ck_r"], cx)
  ELSE CheckedLong(e, p, PlainOp[e.s], cx.locals["#ck_a"], cx.locals["#ck_b"], cx.locals["#ck_r"], cx)

OpCode(e, p, cx) ==
  CASE e.s \in Arithmetic  -> ArithCode(e, p, cx)
    [] e.s \in CheckedOps  -> CheckedCode(e, p, cx)
    [] e.s \in Comparisons -> CompareCode(e, p, cx)
    [] e.s \in Conversions -> ConvertCode(e, p, cx)
    [] e.s = "bitnot"      -> BitNotCode(e, p, cx)
    [] e.s = "not"         -> NotCode(e, p, cx)
    [] OTHER               -> CountCode(e, p, cx)

-----------------------------------------------------------------------------
\* compile_expr_at
OnStack(e, p, cx) ==
  CASE e.k \in {"num", "bool"} -> <<Const(e.i, "i32")>>
    [] e.k = "long"  -> <<Const(e.i, "i64")>>
    [] e.k = "null"  -> <<Const(0, "i64")>>
    [] e.k = "var"   -> VarCode(e, cx)
    [] e.k \in {"let", "set"} -> AssignCode(e, p, cx)
    [] e.k = "if"    -> IF HasValue(Kid(e, 2), cx) THEN IfValueCode(e, p, cx) ELSE IfCode(e, p, cx)
    [] e.k = "and"   -> AndCode(e, p, cx)
    [] e.k = "or"    -> OrCode(e, p, cx)
    [] e.k = "block" -> BlockCode(e, p, cx)
    [] e.k \in {"while", "loop"} -> LoopCode(e, p, cx)
    [] e.k \in {"break", "continue"} -> LabelDepth(cx.labels, Jumps(e))
    [] e.k = "return" -> ReturnCode(e, p, cx)
    [] e.k = "call"  -> CallCode(e, p, cx)
    [] e.k = "record" -> Kids(e, p, cx)
    [] e.k \in {"ok", "err", "make"} ->
         Variant(e, p, CASE e.k = "ok" -> 1 [] e.k = "err" -> 2 [] OTHER -> e.i, cx)
    [] e.k = "with"  -> WithCode(e, p, cx)
    [] e.k \in {"match", "match_result"} -> MatchValueCode(e, p, cx)
    [] e.k = "get"   -> GetFieldCode(e, p, cx)
    [] e.k = "put"   -> PutFieldCode(e, p, cx)
    [] e.k = "arr.get" -> ArrGetCode(e, p, cx)
    [] e.k = "arr.set" -> ArrSetCode(e, p, cx)
    [] e.k = "arr.len" -> ArrLenCode(e, p, cx)
    [] e.k = "addr"  -> AddrCode(e, p, cx)
    [] e.k = "op"    -> OpCode(e, p, cx)
    [] e.k = "load"  -> LoadCode(e, p, cx)
    [] e.k = "store" -> StoreCode(e, p, cx)
    [] e.k = "emit"  -> EmitCode(e, p, cx)
    [] e.k = "drop"  -> DropCode(e, p, cx)
    [] e.k = "abort" -> <<Failed("abort")>>
    [] OTHER         -> <<Unbound>>

CodeTo(e, p, dest, cx) == IF dest = Nowhere THEN OnStack(e, p, cx) ELSE IntoSlots(e, p, dest, cx)

-----------------------------------------------------------------------------
\* A function: its locals in order, each name's or group's first, the kinds
\* of all of them after the parameters, and its code.
Numbered(list, from) ==      \* where each of <<key, type>> begins, and the next free local
  FoldLeft(LAMBDA a, d : [at |-> (d[1] :> a.next) @@ a.at, next |-> a.next + Width(d[2])],
           [at |-> << >>, next |-> from], list)
KindsOf(list) == Each(SlotKind, Concat(Each(LAMBDA d : Scalars(d[2]), list)))

\* The locals f declares, with their types and the result's if it keeps it.
Named(f, prog, decls) ==
  LET own(given) == Each(LAMBDA d : <<d[1], given[d[1]]>>, decls)
                    \o (IF f.ens # <<>> /\ f.ret # "void" /\ "res" \notin DOMAIN given THEN <<<<"res", f.ret>>>> ELSE <<>>)
  IN own(BinderTypes(f, TypesOf(decls), prog))
ValueReturn(f) == f.ens # <<>> /\ IsValue(f.ret)
GroupsOf(f, typing) ==
  Concat([k \in DOMAIN f.body |-> Groups(f.body[k], <<k>>, ValueReturn(f) /\ k = Len(f.body), typing)]
             \o [k \in DOMAIN Contracts(f) |-> Groups(Contracts(f)[k], <<0, k>>, FALSE, typing)])

\* Around the contracts; the body of a function that ensures is in a block.
Context(f, prog, all, vars, groups) ==
  [prog |-> prog, types |-> TypesOf(all), locals |-> vars.at, ens |-> f.ens # <<>>, free |-> MayFree(prog),
   addr |-> vars.next, index |-> vars.next + 1, fat |-> vars.next + 2, groups |-> Numbered(groups, vars.next + 3).at,
   labels |-> <<>>, proven |-> {}, versioning |-> TRUE]
InBody(f, base) == IF f.ens # <<>> THEN Inside(base, "plain") ELSE base

\* The parts of f, each compiled into dest and followed by more: the checks of
\* its contracts, and its statements, the last of which is its result.
CheckPart(c, p, base) ==
  [e |-> c, p |-> p, dest |-> Nowhere, cx |-> base,
   more |-> <<Instr("eqz"), Iff("void", <<Failed("contract")>>, <<>>)>>]
StmtPart(f, k, e, cx) ==
  LET isResult == k = Len(f.body) /\ f.ret # "void" IN
  [e |-> e, p |-> <<k>>, dest |-> IF isResult /\ ValueReturn(f) THEN cx.locals["res"] ELSE Nowhere, cx |-> cx,
   more |-> IF isResult THEN <<>> ELSE Dropped(e, cx)]
Parts(f, base, cx) ==
  [k \in DOMAIN Contracts(f) |-> CheckPart(Contracts(f)[k], <<0, k>>, base)]
  \o [k \in DOMAIN f.body |-> StmtPart(f, k, f.body[k], cx)]
CodeOf(parts) == Each(LAMBDA x : CodeTo(x.e, x.p, x.dest, x.cx) \o x.more, parts)
Framed(f, result, checks, body, base) ==
  Concat(SubSeq(checks, 1, Len(f.req)))
  \o (IF f.ens = <<>> THEN body
      ELSE <<Blocks("block", result, body)>>
           \o (IF result # "void" THEN <<LocalOp("set", base.locals["res"])>> ELSE <<>>)
           \o Concat(SubSeq(checks, Len(f.req) + 1, Len(checks)))
           \o (IF f.ret # "void" THEN GetSlots(base.locals["res"], Width(f.ret)) ELSE <<>>))

Assembled(f, result, codes, base) ==
  LET n == Len(Contracts(f)) IN Framed(f, result, SubSeq(codes, 1, n), Concat(SubSeq(codes, n + 1, Len(codes))), base)
FunctionOf(f, all, groups, base) ==
  LET result == IF f.ret = "void" \/ ValueReturn(f) THEN "void" ELSE SlotKind(f.ret) IN
  [params  |-> KindsOf(f.params),
   results |-> KindsOf(<<<<"", f.ret>>>>),
   locals  |-> KindsOf(SubSeq(all, Len(f.params) + 1, Len(all))) \o <<"i32", "i32", "i64">> \o KindsOf(groups),
   code    |-> Assembled(f, result, CodeOf(Parts(f, base, InBody(f, base))), base)]
WithGroups(f, prog, all, groups) == FunctionOf(f, all, groups, Context(f, prog, all, Numbered(all, 0), groups))
WithLocals(f, prog, all) == WithGroups(f, prog, all, GroupsOf(f, [prog |-> prog, types |-> TypesOf(all)]))
FunctionCode(prog, name) == WithLocals(prog[name], prog, Named(prog[name], prog, Declared(prog[name])))

Compiled(prog) == [name \in DOMAIN prog |-> FunctionCode(prog, name)]
=============================================================================
