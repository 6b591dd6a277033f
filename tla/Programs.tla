----------------------------- MODULE Programs -----------------------------
(***************************************************************************)
(* The programs that Language runs, by family, each with what it is run    *)
(* on.  A program is a function of names to functions; its main takes a    *)
(* number n, a pointer p to a P, and an array a of two V.                  *)
(*                                                                         *)
(* A jump is tried in every place an expression can have one, in each kind *)
(* of loop; a value is made and used in every way; loops use pointers that *)
(* something in them may free; defers, tries and lets are mixed with ways  *)
(* out of a function.                                                      *)
(*                                                                         *)
(* A family is a predicate of a program, so that a set of thousands of     *)
(* programs is never built.                                                *)
(***************************************************************************)
EXTENDS Syntax

Fn(params, ret, body) ==
  [params |-> params, ret |-> ret, req |-> <<>>, ens |-> <<>>, body |-> body, unsafe |-> FALSE]
Main(ret, body) == [Fn(<<<<"n", "i32">>, <<"p", "P*">>, <<"a", "arr">>>>, ret, body) EXCEPT !.unsafe = TRUE]

N == Var("n")
Add(x, y) == Op("add", <<x, y>>)
Is(x, y)  == Op("eq", <<x, y>>)
Lt(x, y)  == Op("lt", <<x, y>>)
V(x, y)   == Record("V", <<x, y>>)
First(v)  == Get("V", 1, v)
Say(e)    == Block(<<Let("said", "i32", e), Emit(Var("said"))>>)  \* prints e, once it is computed

\* What the programs call.
Dead == 7           \* the generation a freed object gets
Library ==
  [f    |-> Fn(<<<<"x", "i32">>>>, "i32", <<Emit(Add(Var("x"), Num(126))), Add(Var("x"), Num(1))>>),
   mk   |-> Fn(<<<<"x", "i32">>>>, "V", <<V(Var("x"), Long(5))>>),
   try  |-> Fn(<<<<"x", "i32">>>>, "RI",
              <<If(Lt(Var("x"), Num(2)), Ok("RI", Var("x")), Err("RI", V(Var("x"), Long(6))))>>),
   void |-> Fn(<<<<"v", "V">>>>, "void", <<Emit(First(Var("v")))>>),
   free |-> [Fn(<<<<"q", "P*">>>>, "void", <<Store("i32", Op("sub", <<AddrOf(Var("q")), Num(8)>>), Num(Dead))>>)
               EXCEPT !.unsafe = TRUE],
   pass |-> [Fn(<<<<"q", "P*">>>>, "void", <<Call("free", <<Var("q")>>)>>) EXCEPT !.unsafe = TRUE],
   see  |-> Fn(<<<<"q", "P*">>>>, "i32", <<Get("P", 1, Var("q"))>>)]
Whole(main) == [name \in {"main"} \cup DOMAIN Library |-> IF name = "main" THEN main ELSE Library[name]]

-----------------------------------------------------------------------------
\* Jumps.  The places of a jump j, taken when c holds, in a body where s is a
\* number so far; either branch of an if may be the one that leaves.
Either(c, j, e) == {If(c, j, e), If(Op("eq", <<If(c, Num(1), Num(0)), Num(0)>>), e, j)}
Places(j, c, x) ==
  UNION {{Let("y", "i32", e), Assign("s", Add(Var("s"), e)), Assign("s", Add(e, Call("f", <<Var("s")>>))),
          Say(Call("f", <<e>>)), Drop(e), Return(e),
          If(Lt(e, Num(1)), Emit(Num(40)), Emit(Num(41))),
          Loop("m", Num(0), e, Num(1), <<Emit(Num(42))>>),
          Say(First(With("V", 1, V(Num(1), Long(2)), e))),
          Match(Make("U", 2, <<e>>), <<Arm("U", 2, <<"b">>, <<Emit(Var("b"))>>), Else(<<>>)>>),
          Say(First(ArrGet(Var("a"), e)))}
         : e \in Either(c, j, x)}
  \cup {While(If(c, w, Bool(0)), <<>>) : w \in {j} \cap {Return(Num(50))}}
  \cup {If(c, j, Block(<<>>)), If(c, Block(<<Emit(Num(43)), j>>), Emit(Num(44))),
        If(And(c, If(c, j, Bool(1))), Emit(Num(45)), Emit(Num(46))),
        If(Or(Is(x, Num(9)), If(c, j, Bool(1))), Emit(Num(45)), Emit(Num(46))),
        MatchResult(Call("try", <<x>>), "r", <<Emit(Var("r"))>>, "q", <<j>>),
        Say(MatchResult(Call("try", <<x>>), "r", <<Var("r")>>, "q", <<j>>)),
        Say(Match(Make("U", 2, <<x>>), <<Arm("U", 1, <<>>, <<j>>), Arm("U", 2, <<"b">>, <<Var("b")>>), Else(<<j>>)>>)),
        Say(If(c, Block(<<Emit(Num(47)), Abort>>), x)), Say(If(c, If(Is(x, Num(0)), j, Return(Num(49))), x)), j}

Counted(x, body) == Loop(x, Num(0), Num(2), Num(1), <<Emit(Var(x))>> \o body \o <<Emit(Add(Var(x), Num(10)))>>)
Whiles(x, body) == Block(<<Let(x, "i32", Num(0)),
  While(Lt(Var(x), Num(3)), <<Assign(x, Add(Var(x), Num(1))), Emit(Var(x))>> \o body \o <<Emit(Add(Var(x), Num(10)))>>)>>)
Straight(x, body) == Block(<<Let(x, "i32", Num(1))>> \o body)

Jumps == {Break, Continue, Return(Num(50))}
InnerLoops == UNION {{Counted("i", <<e>>), Whiles("i", <<e>>), Straight("i", <<e>>)} :
                       e \in UNION {Places(j, Is(Var("i"), N), Var("i")) : j \in Jumps}}
Jumped(pr) == \E i \in InnerLoops : \E w \in {i, Counted("o", <<i>>)} :
  pr = Whole(Main("i32", <<Let("s", "i32", Num(0)), w, Emit(Var("s")), Var("s")>>))

-----------------------------------------------------------------------------
\* Values.  Simple V, and V made of others: x and y, in each way.
Simple == {V(N, Long(5)), Var("v"), Get("W", 2, Var("w")), Call("mk", <<N>>), Get("P", 2, Var("p")), ArrGet(Var("a"), N)}
Cond == Lt(N, Num(1))
Composite(x, y) ==
  {If(Cond, x, y), Block(<<Let("t", "i32", First(y)), Emit(Var("t")), x>>),
   With("V", 1, x, First(y)),
   Get("W", 2, Record("W", <<First(y), x>>)),
   Get("W", 2, With("W", 2, Var("w"), x)),
   MatchResult(If(Cond, Ok("RV", x), Err("RV", First(y))), "k", <<Var("k")>>, "m", <<V(Var("m"), Long(8))>>),
   Match(If(Cond, Make("U", 3, <<x>>), Make("U", 2, <<First(y)>>)),
         <<Arm("U", 3, <<"k">>, <<Var("k")>>), Arm("U", 2, <<"m">>, <<Drop(Var("m")), y>>), Else(<<y>>)>>),
   Match(Make("T", 1, <<Make("U", 3, <<x>>)>>),
         <<Arm("T", 1, <<"k">>, <<Match(Var("k"), <<Arm("U", 3, <<"m">>, <<Var("m")>>), Else(<<y>>)>>)>>),
           Arm("T", 2, <<"k", "m">>, <<V(Var("m"), Var("k"))>>)>>)}
\* What a V is used for.
Uses(x) ==
  {<<Let("z", "V", x), Assign("v", Var("z"))>>, <<Put("P", 2, Var("p"), x)>>, <<ArrSet(Var("a"), Num(1), x)>>,
   <<Call("void", <<x>>)>>, <<Assign("w", Record("W", <<Num(4), x>>))>>, <<Drop(x)>>, <<x>>,
   <<Assign("v", With("V", 1, x, First(x)))>>, <<If(Lt(First(x), Num(2)), Return(x), Block(<<>>))>>}
Vs == <<Let("v", "V", V(Num(1), Long(2))), Let("w", "W", Record("W", <<Num(3), V(Num(4), Long(9))>>))>>
Level1 == UNION {Composite(x, Call("mk", <<Num(6)>>)) : x \in Simple} \cup UNION {Composite(Var("v"), y) : y \in Simple}
ValueMain(use) == Main("V", Vs \o use \o <<Say(First(Get("W", 2, Var("w")))), Var("v")>>)
\* The same with a contract on what it returns.
Ensured(f) == [f EXCEPT !.ens = <<Lt(First(Var("res")), Num(6))>>, !.req = <<Lt(N, Num(2))>>]
Valued(pr) == \E x \in Level1 :
  \/ \E u \in Uses(x) : pr = Whole(ValueMain(u))
  \/ \E u \in {<<>>, <<If(Cond, Return(V(Num(7), Long(1))), Emit(N))>>} : pr = Whole(Ensured(Main("V", Vs \o u \o <<x>>)))
  \/ \E y \in Composite(x, V(Num(6), Long(7))) : pr = Whole(ValueMain(<<Assign("v", y)>>))

-----------------------------------------------------------------------------
\* Pointers.  What a loop's body may do with p, with a copy q of it that it
\* may change, and with the array; at is the counter.
P1(q)  == Get("P", 1, Var(q))
Steps(q, at) ==
  {Assign("s", Add(Var("s"), P1(q))), Put("P", 1, Var(q), Add(P1(q), Num(1))), Assign("s", Add(Var("s"), First(Get("P", 2, Var(q))))),
   Put("P", 2, Var(q), V(at, Long(3))), Assign("q", Var("p")), Assign("q", Null("P*")),
   Call("void", <<ArrGet(Var("a"), at)>>), ArrSet(Var("a"), at, V(P1(q), Long(4))), Assign("s", ArrLen(Var("a"))),
   If(Is(at, N), Call("pass", <<Var("p")>>), Block(<<>>)), If(Is(at, N), Store("i32", Op("sub", <<AddrOf(Var("p")), Num(8)>>), Num(Dead)), Block(<<>>)),
   Emit(Call("see", <<Var(q)>>)), If(Is(at, N), Break, Continue)}
Pointed(pr) == \E y \in Steps("q", Var("i")) :
  \E w \in {Counted("i", <<x, y>>) : x \in Steps("q", Var("i"))}
       \cup {Counted("o", <<x, Whiles("i", <<y>>)>>) : x \in Steps("p", Var("o"))} :
    pr = Whole(Main("i32", <<Let("s", "i32", Num(0)), Let("q", "P*", Var("p")), w, Emit(Var("s")), P1("p")>>))

-----------------------------------------------------------------------------
\* Ways out of a function that returns by `out`, past its defers; and names
\* that come back.
Tag(x, n) == Say(Add(x, Num(n)))
Ways(out) ==
  {Defer(<<Tag(N, 60)>>), Defer(<<Let("x", "i32", Num(61)), Emit(Var("x")), Tag(Var("x"), 1)>>),
   Defer(<<Counted("x", <<If(Is(Var("x"), N), Break, Block(<<>>))>>)>>),
   If(Is(N, Num(0)), out, Emit(Num(64))),
   If(Is(N, Num(1)), Block(<<Let("x", "i32", Num(65)), Emit(Var("x")), out>>),
                     Block(<<Let("x", "V", V(N, Long(1))), Drop(Var("x"))>>)),
   Counted("x", <<If(Is(Var("x"), N), out, Emit(Num(66)))>>),
   If(Is(N, Num(2)), Abort, Block(<<>>))}
Tries ==
  {Let("x", "i32", Try(Call("try", <<Add(N, Num(1))>>))), Tag(Add(Num(1), Try(Call("try", <<N>>))), 67),
   Counted("x", <<If(Is(Var("x"), N), Return(Err("RI", V(Var("x"), Long(2)))), Emit(Num(67)))>>),
   MatchResult(Call("try", <<N>>), "x", <<Emit(Var("x"))>>, "y", <<Let("x", "V", Var("y")), Return(Err("RI", Var("x")))>>)}

Exited(pr) ==
  LET result == Ways(Return(Ok("RI", Num(63)))) \cup Tries
      value  == Ways(Return(V(Add(N, Num(4)), Long(1))))
      number == Ways(Return(Add(N, Num(4))))
  IN \/ \E x, y, z \in result : pr = Whole(Main("RI", <<x, y, z, Ok("RI", N)>>))
     \/ \E x, y \in Ways(Leave) : pr = Whole(Main("void", <<x, y>>))
     \/ \E x, y \in value : pr = Whole(Ensured(Main("V", <<x, y, Call("mk", <<N>>)>>)))
     \/ \E x, y \in number : pr = Whole([Main("i32", <<x, y, N>>) EXCEPT !.ens = <<Lt(Var("res"), Num(6))>>])

-----------------------------------------------------------------------------
\* Programs the checker may have to refuse: something of every type, in every
\* place that wants one.
Fillers == {Num(1), Long(2), Bool(1), Var("v"), Var("p"), Var("a"), Var("gone"), Ok("RI", N), Err("RI", Var("v")),
            Make("U", 2, <<N>>), Make("U", 1, <<>>), Call("void", <<Var("v")>>), Block(<<>>), Break, Return(N), Abort,
            Try(Call("try", <<N>>)), Assign("s", N), Let("gone", "i32", N), If(Cond, Return(N), Abort)}
Wants(e) ==
  {<<e>>, <<Let("y", "i32", e)>>, <<Assign("v", e)>>, <<Assign("gone", e)>>, <<Drop(e)>>, <<Say(Add(e, N))>>, <<Say(Call("f", <<e>>))>>,
   <<Call("void", <<e>>)>>, <<Call("f", <<N, e>>)>>, <<If(e, Emit(N), Block(<<>>))>>, <<Say(If(Cond, e, N))>>,
   <<Assign("v", If(Cond, Var("v"), e))>>, <<While(e, <<Return(N)>>)>>, <<Loop("i", e, N, Num(1), <<e>>)>>,
   <<Assign("v", V(e, Long(1)))>>, <<Assign("v", With("V", 2, Var("v"), e))>>, <<Say(Get("V", 1, e))>>, <<Say(Get("P", 1, e))>>,
   <<Put("P", 1, Var("p"), e)>>, <<Put("P", 2, e, Var("v"))>>, <<Assign("v", ArrGet(e, N))>>, <<ArrSet(Var("a"), e, Var("v"))>>,
   <<Drop(Ok("RI", e))>>, <<Drop(Make("U", 2, <<e>>))>>, <<Say(MatchResult(e, "k", <<Var("k")>>, "m", <<N>>))>>,
   <<Say(MatchResult(Call("try", <<N>>), "k", <<Var("k")>>, "m", <<e>>))>>,
   <<Say(Match(e, <<Arm("U", 2, <<"k">>, <<Var("k")>>), Else(<<N>>)>>))>>,
   <<Match(Make("U", 2, <<N>>), <<Arm("U", 2, <<"k">>, <<e>>), Arm("U", 3, <<"k">>, <<Drop(Var("k"))>>)>>)>>,
   <<Say(Match(Make("U", 2, <<N>>), <<Arm("U", 2, <<"k">>, <<e>>), Arm("U", 3, <<"m">>, <<First(Var("m"))>>), Arm("U", 1, <<>>, <<N>>)>>))>>,
   <<If(And(Cond, e), Return(N), Block(<<>>))>>, <<Return(e)>>, <<Defer(<<e>>)>>, <<Store("i32", N, e)>>, <<Store("i64", e, Long(3))>>, <<Say(Load("i32", e))>>,
   <<Say(Op("checked.mul", <<e, N>>))>>, <<Drop(Op("rotl", <<Long(3), e>>))>>, <<Drop(Op("clz", <<e>>))>>, <<Drop(Op("not", <<e>>))>>,
   <<Drop(Op("extend_s", <<e>>))>>, <<Drop(Op("wrap", <<e>>))>>, <<If(Op("neq", <<e, Var("p")>>), Emit(N), Block(<<>>))>>,
   <<If(Op("gteu", <<N, e>>), Emit(N), Block(<<>>))>>, <<If(Op("lte", <<e, Bool(0)>>), Emit(N), Block(<<>>))>>}
Mixed(pr) == \E e \in Fillers : \E w \in Wants(e), end \in {<<Say(First(Var("v"))), Num(5)>>, <<>>} :
  pr = Whole(Main("i32", <<Block(<<Let("gone", "i32", N)>>), Let("s", "i32", N), Let("v", "V", V(N, Long(5)))>> \o w \o end))

-----------------------------------------------------------------------------
\* Numbers, of 8 and 16 bits: every operation at the edges, with the operands
\* that fail last; and checked operations within checked operations.
Lit(t, n) == IF t = "i32" THEN Num(n) ELSE Long(n)
Edges(t)  == IF t = "i32" THEN <<3, 0, 127, -1, -128>> ELSE <<300, 0, 32767, -1, -32768>>
Others(t) == IF t = "i32" THEN {-128, -1, 0, 1, 7, 9, 127} ELSE {-32768, -256, -1, 0, 1, 15, 17, 32767}
Kept == 100             \* an address of no object
Show(t, e) == IF t = "i32" THEN Say(e)
              ELSE Block(<<Let("r", "i64", e), Store("i64", Num(Kept), Var("r")), Emit(Op("wrap", <<Load("i64", Num(Kept))>>)),
                           Emit(Op("wrap", <<Op("shru", <<Var("r"), Long(8)>>)>>))>>)
Read(t, b) == IF t = "bool" THEN Emit(If(b, Num(1), Num(0))) ELSE Show(t, b)
Given(t)   == IF t = "i32" THEN N ELSE Op("extend_u", <<Op("sub", <<N, Num(2)>>)>>)
Integer == {"i32", "i64"}
Straightly(es) == Whole(Main("i32", es \o <<N>>))
AtEdges(name, t, y) ==
  LET shown(x) == Read(OpType(name, t), Op(name, <<x, y>>))
  IN <<shown(Given(t))>> \o [n \in DOMAIN Edges(t) |-> shown(Lit(t, Edges(t)[n]))]
Nested(name, inner, outer, t, x, y) ==
  Show(t, Op(name, <<Op(inner, <<Given(t), Lit(t, x)>>), Op(outer, <<Lit(t, y), Given(t)>>)>>))
Numbered(pr) ==
  \/ \E name \in Arithmetic \cup Comparisons, t \in Integer :
       \E y \in {Given(t)} \cup {Lit(t, n) : n \in Others("i32") \cup {15, 17, -2}} : pr = Straightly(AtEdges(name, t, y))
  \/ \E name \in CheckedOps, t \in Integer, n \in 1..5, y \in Others("i64") \cap -128..127 :
       pr = Straightly(<<Show(t, Op(name, <<Lit(t, Edges(t)[n]), Lit(t, y)>>))>>)
  \/ \E name \in CheckedOps \cup Arithmetic, n \in 1..5, y \in {-32768, -256, 32767} :
       pr = Straightly(<<Show("i64", Op(name, <<Lit("i64", Edges("i64")[n]), Lit("i64", y)>>))>>)
  \/ \E name, inner, outer \in CheckedOps, t \in Integer, x \in {-1, 5}, y \in {11, -120} :
       pr = Straightly(<<Nested(name, inner, outer, t, x, y)>>)
  \/ \E name \in Unary, t \in Integer : pr = Straightly([n \in 1..5 |-> Show(t, Op(name, <<Lit(t, Edges(t)[n])>>))])
  \/ \E name \in {"extend_s", "extend_u"} :
       pr = Straightly(<<Show("i64", Op(name, <<Op("sub", <<N, Num(2)>>)>>)),
                         If(Op("not", <<Is(N, Num(1))>>), Emit(Num(1)), Emit(Num(0)))>>)

-----------------------------------------------------------------------------
\* Constants: A is a literal, B made of A, C of both, in every way a constant
\* may be, or may not; and what uses them.
Const(t, v) == [t |-> t, v |-> v]
Folded == Arithmetic \cup {"checked.mul", "lt"}
Constants(defs) ==
  \/ \E t \in Integer, name \in Folded, x \in {-128, -1, 0, 3, 9}, y \in {127, -128, -1, 13} :
       defs = [A |-> Const(t, Lit(t, x)), B |-> Const(t, Op(name, <<Lit(t, y), Var("A")>>))]
  \/ \E t \in Integer, name \in Unary, b \in {Bool(0), Num(1), Var("A")} :
       defs = [A |-> Const("i32", Num(200)), B |-> Const(t, Op(name, <<Var("A")>>)), C |-> Const("bool", Op("not", <<b>>))]
  \/ \E t \in {"i32", "bool", "P*"}, v \in {Num(7), Num(300), Long(7), Bool(1)},
        w \in {Var("A"), Op("add", <<Var("A"), Num(100)>>), Op("mul", <<Var("C"), Num(2)>>), Var("B"), Var("N"), Call("f", <<Num(1)>>)},
        u \in {"i32", "i64", "bool"},
        x \in {Num(2), Op("sub", <<Var("B"), Var("A")>>), And(Bool(1), Var("A")), Or(Var("A"), Var("A")), Op("div", <<Num(7), Var("B")>>)} :
       defs = [A |-> Const(t, v), B |-> Const("i32", w), C |-> Const(u, x)]
\* Shows each constant; the second program has a local of a constant's name.
UsesOf(defs) ==
  LET shown(k) == Read(defs[k].t, Var(k))
  IN {Straightly(Each(shown, SetToSeq(DOMAIN defs))), Straightly(<<Let("A", "i32", N)>>)}

-----------------------------------------------------------------------------
\* Jumps where the two ways to run a program are known to part: an operand of
\* a print, or of a value that is being stored, that jumps.
Operand(pr) == \E e \in {Emit(If(Is(Var("i"), N), Break, Var("i"))),
                          Put("P", 2, Var("p"), V(Num(70), If(Is(Var("i"), N), Continue, Long(71))))} :
  pr = Whole(Main("i32", <<Counted("i", <<e>>), N>>))

OfFamily(x, pr, defs) ==
  CASE x = "constants" -> Constants(defs) /\ pr \in UsesOf(defs)
    [] x = "jumps" -> Jumped(pr) /\ defs = <<>> [] x = "values" -> Valued(pr) /\ defs = <<>>
    [] x = "pointers" -> Pointed(pr) /\ defs = <<>> [] x = "mixed" -> Mixed(pr) /\ defs = <<>>
    [] x = "exits" -> Exited(pr) /\ defs = <<>> [] x = "numbers" -> Numbered(pr) /\ defs = <<>>
    [] x = "operands" -> Operand(pr) /\ defs = <<>>
=============================================================================
