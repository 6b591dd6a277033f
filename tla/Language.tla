----------------------------- MODULE Language -----------------------------
(***************************************************************************)
(* A program's way through AIPL: its files are made one (resolver.rs), its *)
(* templates instances (generics.rs), its locals renamed (scopes.rs), its  *)
(* constants folded (consts.rs), it is checked (checker.rs), its tries     *)
(* and defers are lowered (formats.rs), and then it is interpreted (vm.rs) *)
(* and compiled (wasm.rs) and run.  Resolving looks at names, expansion at *)
(* types, neither at expressions, and what comes after knows no file and   *)
(* no template: a behaviour does one of the three, on programs made for    *)
(* it, and has no step of the others.                                      *)
(***************************************************************************)
EXTENDS Programs, TLC

CONSTANTS Bits, Word, Fuel, Families,      \* the expressions,
          Sorts,                            \* files,
          MaxName, MaxInstances, Shapes      \* and templates of the programs

Types   == INSTANCE Checker
Low     == INSTANCE Lowering
VM      == INSTANCE Interp
Gen     == INSTANCE Codegen
Machine == INSTANCE WasmMachine

Fold    == INSTANCE Consts

VARIABLES source,   \* the program as it is written, and
          defs,     \* its constants
          prog,     \* as far as it has come
          stage,    \* which is how far
          runs,     \* the interpreter's results, for each input, or NoRuns
          code,     \* its wasm functions, or NoCode
          execs     \* the compiled program's results
progVars == <<source, defs, prog, stage, runs, code, execs>>

VARIABLES project, stack, st, outcome    \* Resolver
fileVars == <<project, stack, st, outcome>>
VARIABLES text, pass, known, made, work, turn, ended    \* Generics
genericVars == <<text, pass, known, made, work, turn, ended>>
vars == <<progVars, fileVars, genericVars>>

Imports == INSTANCE Projects
Makers  == INSTANCE Templates

NoCode == << >>
NoRuns == << >>
-----------------------------------------------------------------------------
\* What a program is run on: n, and p live, null, or freed before.
PAt == 32
AAt == 72
Live == 3
Memory == [x \in 24..110 |-> CASE x \in {PAt - 8, AAt - 8} -> Live [] x = AAt - 4 -> 2
                                  [] x \in PAt..95 -> x % 5 [] OTHER -> 0]
Objects == {[base |-> PAt, size |-> Place("P").size], [base |-> AAt, size |-> 2 * Place("V").size]}
Fat(g, x) == g * Word + x

\* The pointer matters to a program that names it.
Inputs(pr) == {<<n, x>> : n \in {0, 1, 2}, x \in
  IF \E e \in Nodes(Block(pr["main"].body)) : e[2].k = "var" /\ e[2].s = "p"
  THEN {Fat(Live, PAt), Fat(Live + 1, PAt), 0} ELSE {Fat(Live, PAt)}}
Arguments(in) == <<in[1], in[2], Fat(Live, AAt)>>
Values(in)    == <<VM!VInt(in[1]), VM!VLong(in[2]), VM!VLong(Fat(Live, AAt))>>

ProgramInit ==
  /\ \E x \in Families : OfFamily(x, source, defs)
  /\ prog = source /\ stage = "written" /\ runs = NoRuns /\ code = NoCode /\ execs = NoRuns

Absent == /\ source = << >> /\ defs = << >> /\ prog = << >> /\ stage = "absent"
          /\ runs = NoRuns /\ code = NoCode /\ execs = NoRuns
Init == \/ ProgramInit /\ Imports!Absent /\ Makers!Absent
        \/ Absent /\ Imports!Init /\ Makers!Absent
        \/ Absent /\ Imports!Absent /\ Makers!Init

\* One declaration, one name; then constants' names become their values, if
\* they have any.
ExpandConsts ==
  LET with(named, values) ==
        IF Fold!Expands(named, values) THEN prog' = Fold!Expanded(named, values) /\ stage' = "expanded"
        ELSE prog' = named /\ stage' = "refused"
  IN /\ stage = "written"
     /\ with(Low!Renamed(prog), Fold!Values(defs))
     /\ UNCHANGED <<source, defs, runs, code, execs>>

\* The checker says yes or no.
Check ==
  /\ stage = "expanded"
  /\ stage' = IF Types!Accepted(prog) THEN "checked" ELSE "rejected"
  /\ UNCHANGED <<source, defs, prog, runs, code, execs>>

LowerIt ==
  /\ stage = "checked"
  /\ prog' = Low!Lowered(prog) /\ stage' = "lowered"
  /\ UNCHANGED <<source, defs, runs, code, execs>>

\* The interpreter and the compiler share nothing, so their order is fixed.
Interpret ==
  /\ stage = "lowered"
  /\ runs' = [in \in Inputs(prog) |-> VM!Run(prog, Values(in), Memory, Objects)]
  /\ stage' = "interpreted"
  /\ UNCHANGED <<source, defs, prog, code, execs>>

Compile ==
  /\ stage = "interpreted"
  /\ code' = Gen!Compiled(prog) /\ stage' = "compiled"
  /\ UNCHANGED <<source, defs, prog, runs, execs>>

\* What does not compile to valid code is not run.
Execute ==
  /\ stage = "compiled" /\ Machine!Valid(code)
  /\ execs' = [in \in Inputs(prog) |-> Machine!Execute(code, Arguments(in), Memory, Objects)]
  /\ stage' = "executed"
  /\ UNCHANGED <<source, defs, prog, runs, code>>

ProgramNext == ExpandConsts \/ Check \/ LowerIt \/ Interpret \/ Compile \/ Execute
Next == \/ ProgramNext /\ UNCHANGED <<fileVars, genericVars>>
        \/ Imports!Next /\ UNCHANGED <<progVars, genericVars>>
        \/ Makers!Next /\ UNCHANGED <<progVars, fileVars>>
Spec == Init /\ [][Next]_vars

-----------------------------------------------------------------------------
\* What main means as it is written: its statements in order, each defer noted
\* when it is reached and run, the newest first, when main returns, with the
\* result kept; then what it ensures.
AsFolded == Fold!Expanded(source, Fold!Values(defs))
MeantStep(a, e) ==
  CASE a.m.err # "" \/ VM!Jumping(a.m) -> a
    [] e.k = "defer" -> [a EXCEPT !.defers = <<e.as>> \o @]
    [] OTHER -> [a EXCEPT !.m = VM!EvalSeq(<<e>>, @, AsFolded)]
MeantBody(f, in) ==
  LET entered == VM!BindAll([VM!Start(Memory, Objects) EXCEPT !.scope = << >>], Each(LAMBDA x : x[1], f.params), Values(in))
  IN FoldLeft(MeantStep, [m |-> VM!Holds(f.req, entered, AsFolded), defers |-> <<>>], f.body)
MeantDefers(a) == FoldLeft(LAMBDA m, es : VM!Scoped(m, LAMBDA x : VM!EvalSeq(es, x, AsFolded)),
                           [a.m EXCEPT !.flow = "none"], a.defers)
MeantEnd(f, a) == VM!Ensured(f, VM!Value(a.m), MeantDefers(a), AsFolded)
Meant(f, in) == MeantEnd(f, MeantBody(f, in))

\* Renaming locals and lowering tries and defers (scopes.rs, formats.rs) keep
\* what a program prints, stores, returns and fails with.
Agree(r, m) == /\ r.err = m.err /\ r.out = m.out /\ r.mem = m.mem
               /\ r.err = "" /\ source["main"].ret # "void" => r.v = m.v
LoweringKeepsMeaning ==
  stage = "interpreted" => \A in \in DOMAIN runs : Agree(runs[in], Meant(Low!Tried(AsFolded["main"]), in))

\* The scalars of a value the interpreter returned, as compiled code has them.
Flat(v) == LET ret == source["main"].ret IN
           IF ret = "void" THEN <<>> ELSE Each(LAMBDA s : s[2], VM!ToScalars(ret, v))

\* Both ways to run a program (vm.rs; wasm.rs) print the same, leave the same
\* memory, and return the same or fail alike.
CompiledAsInterpreted ==
  stage = "executed" => \A in \in DOMAIN runs :
    LET r == runs[in]
        w == execs[in]
    IN r.err = w.trap /\ r.out = w.out /\ r.mem = w.mem /\ (r.err = "" => Flat(r.v) = w.stack)

\* A program the checker accepts (checker.rs) compiles (wasm.rs) to code that
\* is valid: no local, group or label is missing, and every operand is of the
\* type its instruction takes.
AcceptedCompiles == stage = "compiled" => Machine!Valid(code)

\* A program the checker accepts fails in the ways the language has, and never
\* because a value is not what an operation of vm.rs expects, nor runs on.
Ended == {"", "null", "freed", "bounds", "contract", "abort", "zero", "overflow"}
NeverStuck == \A in \in DOMAIN runs : runs[in].err \in Ended

\* A constant is what its definition means (consts.rs): with the names in it
\* spelled out, it is of the declared type, and the interpreter makes of it the
\* value the program is given.  Nothing else is refused: not for the order the
\* constants are in, and no fault or cycle is let through.
RECURSIVE Replaced(_)
Replaced(e) == CASE e.k = "var" /\ e.s \in DOMAIN defs -> defs[e.s].v
                 [] e.k = "num" -> Num(Fold!Wrap(e.i, Bits))
                 [] OTHER -> [e EXCEPT !.as = Each(Replaced, @)]
Spelled(name) == FoldLeft(LAMBDA e, other : Replaced(e), defs[name].v, SetToSeq(DOMAIN defs))
Parts(e) == {x[2] : x \in Nodes(e)}
Foldable(e) == \/ e.k \in {"num", "long", "bool"}
               \/ (IF e.k = "op" THEN e.s ELSE e.k) \in Fold!Allowed
Plain == [prog |-> << >>, ret |-> "void", loops |-> 0, defer |-> FALSE, unsafe |-> FALSE]
Worked(e) == VM!EvalSeq(<<e>>, VM!Start(<< >>, {}), << >>)
Sound(e, t) == (\A x \in Parts(e) : Foldable(x)) /\ Types!Infer(e, << >>, Plain).t = t /\ Worked(e).err = ""
InRange(e) == e.k = "num" => e.i \in -(2^(Bits - 1))..(2^Bits - 1)
Right == \A name \in DOMAIN defs : Sound(Spelled(name), defs[name].t) /\ defs[name].t \in {"i32", "i64", "bool"} /\ \A x \in Parts(defs[name].v) : InRange(x)
Fate(right) ==
  /\ stage = "refused" => ~right \/ Fold!NamesConstant(source["main"], defs)
  /\ stage = "expanded" => right /\ \A name \in DOMAIN defs : Worked(Spelled(name)).v[2] = Fold!Literal(Fold!Values(defs)[name]).i
ConstantsMeanTheirValue == stage \in {"refused", "expanded"} => Fate(Right)

\* After scopes.rs, no two declarations in a function that the checker accepts
\* have one name: what wasm.rs gives one local per name relies on.
Names(f) == Each(LAMBDA p : p[1], f.params) \o
  Concat(Each(LAMBDA e : CASE e.k \in {"let", "loop"} -> <<e.s>> [] OTHER -> e.b,
              Gen!PreOrderAll(f.req \o f.ens \o f.body)))
DeclaredOnce == stage = "checked" => \A f \in DOMAIN prog : IsInjective(Names(prog[f]))

\* No field or element is read or written after its object is freed, neither
\* where the interpreter checks each access nor where compiled code has checked
\* a pointer before a loop (wasm.rs, versioned loops).
NoStaleAccess == \A in \in DOMAIN execs : ~runs[in].stale /\ ~execs[in].stale

\* A program of several files (resolver.rs) has every item of its files, once, under a
\* name of its own, and every name in it is that of the item meant where it was written:
\* through an alias, in the importing file's own directory, in a file reached before.
\* And the name of an instance (generics.rs) is that of one instance, of the template
\* applied there, and none is made that nothing applies.
NamesMeanTheSame == Imports!NamesMeanTheSame /\ Makers!EachInstanceOnce
\* "A template is checked once, by itself" (AIPL_SPEC.md:568): a program whose templates
\* archetypes (generics.rs) lets pass is refused for what its ordinary items apply, and
\* for nothing in a template, whatever it is applied to; but for a zero, which not
\* every type has (:348).
TemplatesCheckedOnce == Makers!TemplatesCheckedOnce
\* What a module keeps to itself no other uses (check_item, check_field, check_makes,
\* check_exposure in resolver.rs), and a program is refused for a fault it has alone.
RefusedForCause == Imports!RefusedForCause
\* "Every module a file names, it imports" (AIPL_SPEC.md:1678).
NamesWhatItImports == Imports!NamesWhatItImports
=============================================================================
