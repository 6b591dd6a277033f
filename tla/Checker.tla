------------------------------- MODULE Checker -------------------------------
(***************************************************************************)
(* The type checker (src/src/checker.rs) on the expressions of Syntax:     *)
(* the type of an expression in an environment (name |-> type), which a    *)
(* let extends, or "error".  What surrounds the expression is cx: the      *)
(* program, the type a return must have ("contract" in a contract), how    *)
(* many loops are around it, and whether it is in a defer or an unsafe     *)
(* function.  The words of its messages are left out.                      *)
(***************************************************************************)
EXTENDS Syntax, TLC

PointerTo(t) == t \o "*"
Element == "V"          \* what an arr holds

\* The kinds whose children are typed one after the other, and what the types
\* of the children, ts, then make of the expression; see Infer for the others.
Simple == {"num", "long", "bool", "null", "var", "let", "set", "break", "continue", "return",
           "call", "op", "and", "or", "record", "with", "get", "put", "ok", "err", "make",
           "arr.get", "arr.set", "arr.len", "addr", "load", "store", "emit", "drop", "abort", "try"}

Signature(cx, f) == LET d == cx.prog[f] IN [params |-> Each(LAMBDA p : p[2], d.params), ret |-> d.ret]

Unless(ok, t) == IF ok THEN t ELSE "error"

\* Faulty variants of the operations below, for trying the properties on.

\* a branch is as good as any other
ThenBranch(ts, out) == ts[1]

-----------------------------------------------------------------------------
InLoop(cx) == cx.loops > 0

VarType(e, env) == IF e.s \in DOMAIN env THEN env[e.s] ELSE "error"
SetType(e, ts, env) == Unless(e.s \in DOMAIN env /\ ts = <<env[e.s]>>, "void")
JumpType(cx) == Unless(InLoop(cx), "void")
ReturnType(ts, cx) ==
  Unless(~cx.defer /\ cx.ret # "contract" /\ ts \in {<<cx.ret>>} \cup {x \in {<<>>} : cx.ret = "void"}, "void")
CallType(e, ts, cx) ==
  Unless(e.s \in DOMAIN cx.prog /\ (cx.prog[e.s].unsafe => cx.unsafe) /\ ts = Signature(cx, e.s).params,
         cx.prog[e.s].ret)
RecordType(e, ts) == Unless(e.t \in ValueStructs /\ ts = Structs[e.t], e.t)
WithType(e, ts) == Unless(ts = <<e.t, FieldType(e.t, e.i)>>, e.t)
GetType(e, ts) == Unless(ts = <<IF e.t \in ValueStructs THEN e.t ELSE PointerTo(e.t)>>, FieldType(e.t, e.i))
PutType(e, ts) == Unless(e.t \notin ValueStructs /\ ts = <<PointerTo(e.t), FieldType(e.t, e.i)>>, "void")
\* check_try: the error is the function's
TryType(ts, cx) ==
  IF /\ ~cx.defer /\ ts[1] \in DOMAIN Results /\ cx.ret \in DOMAIN Results
     /\ Results[ts[1]][2] = Results[cx.ret][2]
  THEN Results[ts[1]][1] ELSE "error"
\* What the operations of scalars ask of their operands.  A result, and what has
\* no value, may be compared for equality as far as the checker is concerned.
Integers(t) == t \in {"i32", "i64"}
Alike(ts)   == Len(ts) = 2 /\ ts[1] = ts[2]
ArithmeticFits(ts) == Alike(ts) /\ Integers(ts[1])
UnaryFits(ts)      == Len(ts) = 1 /\ Integers(ts[1])
CompareFits(name, ts) ==
  /\ Alike(ts) /\ ts[1] \notin ValueStructs \cup DOMAIN Unions
  /\ name \notin {"eq", "neq"} => Integers(ts[1])
NotFits(ts) == ts = <<"bool">>
ConversionFits(name, ts) == ts = <<IF name = "wrap" THEN "i64" ELSE "i32">>
OperandsFit(name, ts) ==
  CASE name \in Arithmetic \cup CheckedOps -> ArithmeticFits(ts)
    [] name \in Unary       -> UnaryFits(ts)
    [] name \in Comparisons -> CompareFits(name, ts)
    [] name \in Conversions -> ConversionFits(name, ts)
    [] name = "not"         -> NotFits(ts)
LoadType(e, ts, cx)  == Unless(cx.unsafe /\ ts = <<"i32">>, e.t)
StoreType(e, ts, cx) == Unless(cx.unsafe /\ ts = <<"i32", e.t>>, "void")
DropType(ts) == Unless(ts # <<"void">>, "void")

SimpleType(e, ts, env, cx) ==
  CASE e.k = "num"    -> "i32"
    [] e.k = "long"   -> "i64"
    [] e.k = "bool"   -> "bool"
    [] e.k = "null"   -> e.t
    [] e.k = "var"    -> VarType(e, env)
    [] e.k = "let"    -> Unless(ts = <<e.t>>, "void")
    [] e.k = "set"    -> SetType(e, ts, env)
    [] e.k \in {"break", "continue"} -> JumpType(cx)
    [] e.k = "return" -> ReturnType(ts, cx)
    [] e.k = "call"   -> CallType(e, ts, cx)
    [] e.k = "op"     -> Unless(OperandsFit(e.s, ts), OpType(e.s, ts[1]))
    [] e.k \in {"and", "or"} -> Unless(ts = <<"bool", "bool">>, "bool")
    [] e.k = "record" -> RecordType(e, ts)
    [] e.k = "with"   -> WithType(e, ts)
    [] e.k = "get"    -> GetType(e, ts)
    [] e.k = "put"    -> PutType(e, ts)
    [] e.k \in {"ok", "err"} -> Unless(ts = <<Results[e.t][IF e.k = "ok" THEN 1 ELSE 2]>>, e.t)
    [] e.k = "make"   -> Unless(ts = Unions[e.t][e.i], e.t)
    [] e.k = "arr.get" -> Unless(ts = <<"arr", "i32">>, Element)
    [] e.k = "arr.set" -> Unless(ts = <<"arr", "i32", Element>>, "void")
    [] e.k = "arr.len" -> Unless(ts = <<"arr">>, "i32")
    [] e.k = "addr"   -> Unless(ts \in {<<p>> : p \in Pointers}, "i32")
    [] e.k = "load"   -> LoadType(e, ts, cx)
    [] e.k = "store"  -> StoreType(e, ts, cx)
    [] e.k = "emit"   -> Unless(ts = <<"i32">>, "void")
    [] e.k = "drop"   -> DropType(ts)
    [] e.k = "abort"  -> "void"
    [] e.k = "try"    -> TryType(ts, cx)

\* unused: a value that is dropped must not be a result.
Unused(t) == t \in DOMAIN Results

\* The type of branches, given which of them diverge: those take the others'.
Meet(ts, out) ==
  LET stay == {ts[n] : n \in {m \in DOMAIN ts : ~out[m]}} IN
  IF stay = {} THEN "void" ELSE IF Cardinality(stay) = 1 THEN CHOOSE t \in stay : TRUE ELSE "error"

\* Each of es in order, in the environment those before it leave; the values
\* that are dropped are those at the places in dropped.
RECURSIVE Infer(_, _, _)
All(es, env, cx, dropped) ==
  LET typed(a, n, r) == [ts |-> Append(a.ts, IF n \in dropped /\ Unused(r.t) THEN "error" ELSE r.t), env |-> r.env]
  IN FoldLeft(LAMBDA a, n : IF "error" \in ToSet(a.ts) THEN a ELSE typed(a, n, Infer(es[n], a.env, cx)),
              [ts |-> <<>>, env |-> env], [n \in DOMAIN es |-> n])

\* A body's type, its last expression's.
LastType(ts) == IF ts = <<>> THEN "void" ELSE Last(ts)
BodyType(es, env, cx, dropped) == LastType(All(es, env, cx, dropped).ts)
LoopBody(es, env, cx) ==      \* check_loop_body
  Unless(BodyType(es, env, [cx EXCEPT !.loops = @ + 1], DOMAIN es) # "error", "void")
ArmType(es, env, cx) == BodyType(es, env, cx, {})

\* A match's arms: a member once each, its fields bound by new names.
Armed(arm, u, env) ==
  arm.k = "arm" => /\ arm.t = u /\ arm.i \in DOMAIN Unions[u] /\ Len(arm.b) = Len(Unions[u][arm.i])
                   /\ ToSet(arm.b) \cap DOMAIN env = {} /\ Cardinality(ToSet(arm.b)) = Len(arm.b)
Bound(arm, u) == IF arm.k = "else" THEN << >>
                 ELSE [n \in ToSet(arm.b) |-> Unions[u][arm.i][CHOOSE x \in DOMAIN arm.b : arm.b[x] = n]]

\* The branches' type, if none has an error.
Branches(ts, es) == IF "error" \in ToSet(ts) THEN "error" ELSE Meet(ts, Each(Diverges, es))

MatchType(e, u, env, cx) ==
  LET arms == Rest(e, 2)
      Named == {n \in DOMAIN arms : arms[n].k = "arm"}
      seen == {arms[n].i : n \in Named}
  IN IF /\ \A n \in DOMAIN arms : Armed(arms[n], u, env) /\ (arms[n].k = "else" => n = Len(arms))
        /\ Cardinality(seen) = Cardinality(Named)            \* matched twice
        /\ (seen = DOMAIN Unions[u]) <=> (Named = DOMAIN arms) \* missing, or never runs
     THEN Branches(Each(LAMBDA a : ArmType(a.as, Bound(a, u) @@ env, cx), arms), arms) ELSE "error"
MatchArms(e, env, cx) ==
  LET on(u) == IF u \in DOMAIN Unions THEN MatchType(e, u, env, cx) ELSE "error"
  IN on(Infer(Kid(e, 1), env, cx).t)
MatchResultType(e, env, cx) ==
  LET on(r) == IF r \notin DOMAIN Results \/ ToSet(e.b) \cap DOMAIN env # {} THEN "error"
               ELSE Branches([n \in 1..2 |-> ArmType(Kid(e, n + 1).as, (e.b[n] :> Results[r][n]) @@ env, cx)],
                             Tail(e.as))
  IN on(Infer(Kid(e, 1), env, cx).t)

IfType(e, env, cx) ==
  LET on(ts) == IF ts[1] # "bool" THEN "error" ELSE Branches(Tail(ts), Tail(e.as))
  IN on(Each(LAMBDA x : Infer(x, env, cx).t, e.as))
\* The condition is not part of the loop's body: its jumps are an outer loop's.
WhileType(e, env, cx) ==
  IF Infer(Kid(e, 1), env, cx).t # "bool" THEN "error" ELSE LoopBody(Rest(e, 2), env, cx)
LoopType(e, env, cx) ==
  IF All(SubSeq(e.as, 1, 3), env, cx, {}).ts # <<"i32", "i32", "i32">> \/ e.s \in DOMAIN env
  THEN "error" ELSE LoopBody(Rest(e, 4), (e.s :> "i32") @@ env, cx)

Infer(e, env, cx) ==
  IF e.k = "let" /\ e.s \in DOMAIN env THEN [t |-> "error", env |-> env]   \* no shadowing
  ELSE IF e.k \in Simple
  THEN LET made(kids, t) == [t |-> t, env |-> IF e.k = "let" THEN (e.s :> e.t) @@ kids.env ELSE kids.env]
           of(kids) == made(kids, IF "error" \in ToSet(kids.ts) THEN "error"
                                  ELSE SimpleType(e, kids.ts, kids.env, cx))
       IN of(All(e.as, env, cx, {}))
  ELSE [env |-> env, t |->
   CASE e.k = "if" -> IfType(e, env, cx)
     [] e.k = "block" -> BodyType(e.as, env, cx, 1..Len(e.as) - 1)
     [] e.k = "while" -> WhileType(e, env, cx)
     [] e.k = "loop" -> LoopType(e, env, cx)
     [] e.k = "match_result" -> MatchResultType(e, env, cx)
     [] e.k = "match" -> MatchArms(e, env, cx)
     [] OTHER -> "error"]     \* a defer inside an expression

\* check_fn_def: contracts, then the body, whose defers are statements and not
\* its value, and which may end in a return.
DeferType(e, env, cx) ==
  Unless(BodyType(e.as, env, [cx EXCEPT !.defer = TRUE], DOMAIN e.as) # "error", "void")

Params(f) == [n \in {f.params[x][1] : x \in DOMAIN f.params} |->
                f.params[CHOOSE x \in DOMAIN f.params : f.params[x][1] = n][2]]

FunctionChecks(prog, name) ==
  LET f == prog[name]
      cx == [prog |-> prog, ret |-> f.ret, loops |-> 0, defer |-> FALSE, unsafe |-> f.unsafe]
      contract == [cx EXCEPT !.ret = "contract"]
      Dropped(n) == n < Len(f.body) \/ f.ret = "void"
      typed(n, a, r) == IF Dropped(n) /\ Unused(r.t) THEN [a EXCEPT !.t = "error"] ELSE r
      body == FoldLeft(LAMBDA a, n :
                 IF a.t = "error" THEN a
                 ELSE IF f.body[n].k = "defer"
                 THEN [a EXCEPT !.t = IF DeferType(f.body[n], a.env, cx) = "error" THEN "error" ELSE @]
                 ELSE typed(n, a, Infer(f.body[n], a.env, cx)),
               [t |-> "void", env |-> Params(f)], [n \in DOMAIN f.body |-> n])
      own == SelectSeq(f.body, LAMBDA x : x.k # "defer")
      ends(t) == t # "error" /\ (f.ret \in {"void", t} \/ (own # <<>> /\ Last(own).k = "return"))
  IN /\ \A x \in ToSet(f.req) : Infer(x, Params(f), contract).t = "bool"
     /\ \A x \in ToSet(f.ens) : Infer(x, ("res" :> f.ret) @@ Params(f), contract).t = "bool"
     /\ ends(body.t)

Accepted(prog) == \A name \in DOMAIN prog : FunctionChecks(prog, name)
=============================================================================
