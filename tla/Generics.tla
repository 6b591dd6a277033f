------------------------------ MODULE Generics ------------------------------
(***************************************************************************)
(* Generic expansion (src/src/generics.rs) of a flat program: every        *)
(* template is first made once at placeholders for its type parameters,    *)
(* and then the program's items, and each instance they make, are walked   *)
(* and what they apply is made.                                            *)
(*                                                                         *)
(* A type is its tokens, an operator before its arguments: (Box (ptr T))   *)
(* is Box, ptr, T.  A token is <<name, number of arguments, owner>>, the   *)
(* owner of a placeholder being its template.  An instance has the text of *)
(* its application for a name, so an application and the name it becomes   *)
(* are one thing here; a name is as long as its tokens are many.  What a   *)
(* template's body does otherwise, the type checker looks at: left out.    *)
(***************************************************************************)
EXTENDS Integers, Sequences, FiniteSets, SequencesExt, TLC

CONSTANTS MaxName, MaxInstances

VARIABLES text,   \* the items: structs, unions, enums and interfaces, then functions
          pass,   \* "check" (archetypes), then "expand"
          known,  \* Known: templates, interfaces, implementations, and types by kind
          made,   \* Made: the instances, and the items not yet in work
          work,   \* the items to walk,
          turn,   \* and which is next; 0 before they are collected
          ended   \* "" before it is "made", or why it is refused
genericVars == <<text, pass, known, made, work, turn, ended>>

Each(Op1(_), s) == [n \in DOMAIN s |-> Op1(s[n])]
Sym(n)      == <<<<n, 0, "">>>>
Of(n, as)   == <<<<n, Len(as), "">>>> \o FlattenSeq(as)
Sealed(owner, p) == <<<<p, 0, owner>>>>
HeadOf(t)   == t[1][1]

\* An item has types (fields, a signature) and uses.  A template has parameters,
\* of which some are structs or plain, and asks for implementations of some; an
\* interface or an implementation has fns, each [name, types, body], and a module.
Item(head, name, types, body) ==
  [head |-> head, name |-> name, params |-> <<>>, structs |-> {}, plains |-> {}, wheres |-> {}, value |-> FALSE,
   types |-> types, body |-> body, on |-> <<>>, fns |-> <<>>, module |-> ""]
\* (call T), (ref T), (get p T m), (make T m), (zero T), T itself; (call (I.m T))
\* is a call of I applied, with m the function.
Use(k, t, m) == [k |-> k, t |-> t, m |-> m]

\* The term that begins at i, the arguments of a term, and the terms in one,
\* each after those in it.
Wanted(t, i, j) == FoldLeft(LAMBDA n, token : n + token[2] - 1, 1, SubSeq(t, i, j))
EndOf(t, i)  == CHOOSE j \in i..Len(t) : Wanted(t, i, j) = 0 /\ \A m \in i..j - 1 : Wanted(t, i, m) > 0
Term(t, i)   == SubSeq(t, i, EndOf(t, i))
Args(t)      == LET starts == {i \in 2..Len(t) : \A j \in 2..i - 1 : EndOf(t, j) < i}
                IN Each(LAMBDA i : Term(t, i), SetToSortSeq(starts, <))
Inside(t)    == LET before(i, j) == \/ EndOf(t, i) < EndOf(t, j)
                                    \/ EndOf(t, i) = EndOf(t, j) /\ i > j
                IN Each(LAMBDA i : Term(t, i), SetToSortSeq(DOMAIN t, before))

\* substitute
With(t, b) == FlattenSeq(Each(LAMBDA token : IF token[1] \in DOMAIN b /\ token[3] = "" THEN b[token[1]] ELSE <<token>>, t))
Bound(params, args) == [p \in ToSet(params) |-> args[CHOOSE n \in DOMAIN params : params[n] = p]]
UseWith(x, b) == [x EXCEPT !.t = With(@, b)]

-----------------------------------------------------------------------------
\* Collecting the items (expand_with), and what is refused on the way.
Nothing == [templates |-> << >>, order |-> <<>>, ifaces |-> << >>, impls |-> {}, structs |-> {}, plains |-> {},
            defs |-> << >>, work |-> <<>>, why |-> ""]
BuiltIn == {"i32", "ptr", "arr", "result", "fn", "void"}

\* An item to walk; of is the template it is made from, if it is.
Walked(head, name, types, body, of) == [head |-> head, name |-> name, types |-> types, body |-> body, of |-> of]
Stub(w) == IF w.head = "fn" THEN [w EXCEPT !.body = <<>>] ELSE w

InterfaceRight(item, k) ==
  /\ Len(item.params) = 1 /\ item.name \notin DOMAIN k.ifaces \cup BuiltIn
  /\ item.fns # <<>> /\ IsInjective(Each(LAMBDA f : f.name, item.fns))

\* add_impl: the interface's functions for one type, in its module or the type's.
RECURSIVE Owner(_)
Owner(t) == CASE HeadOf(t) \in {"ptr", "arr"} -> Owner(Tail(t))
              [] HeadOf(t) \in BuiltIn -> ""
              [] OTHER -> HeadOf(t)
ModuleOf(name, items) == {i.module : i \in {x \in ToSet(items) : x.name = name /\ x.head # "impl"}}
Asked(iface, t) == Each(LAMBDA f : [f EXCEPT !.types = Each(LAMBDA x : With(x, Bound(iface.params, <<t>>)), @)], iface.fns)
ImplRight(item, k, items) ==
  /\ item.name \in DOMAIN k.ifaces /\ <<item.name, item.on>> \notin k.impls
  /\ IsInjective(Each(LAMBDA f : f.name, item.fns))
  /\ {<<f.name, f.types>> : f \in ToSet(item.fns)}
       = {<<f.name, f.types>> : f \in ToSet(Asked(k.ifaces[item.name], item.on))}
  /\ item.module \in ModuleOf(item.name, items) \cup ModuleOf(Owner(item.on), items)
\* Each function with the interface's contracts before its own.
Implemented(item, iface) ==
  LET asked(f) == CHOOSE g \in ToSet(iface.fns) : g.name = f.name
      uses(f) == Each(LAMBDA x : UseWith(x, Bound(iface.params, <<item.on>>)), asked(f).body) \o f.body
  IN Each(LAMBDA f : Walked("fn", Of(item.name, <<item.on>>), f.types, uses(f), ""), item.fns)

Refused(k, why) == [k EXCEPT !.why = why]
IsTemplate(item) == item.params # <<>> /\ item.head # "interface"
AsStub(w, p) == IF p = "check" THEN Stub(w) ELSE w
Collect(k, item, p, items) ==
  CASE k.why # "" -> k
    [] item.head = "interface" ->
         IF InterfaceRight(item, k) THEN [k EXCEPT !.ifaces = (item.name :> item) @@ @] ELSE Refused(k, "interface")
    [] item.head = "impl" ->
         IF ImplRight(item, k, items)
         THEN [k EXCEPT !.impls = @ \cup {<<item.name, item.on>>},
                        !.work = @ \o Each(LAMBDA w : AsStub(w, p), Implemented(item, k.ifaces[item.name]))]
         ELSE Refused(k, "implementation")
    [] IsTemplate(item) ->
         IF item.name \in DOMAIN k.templates \cup BuiltIn THEN Refused(k, "name")
         ELSE [k EXCEPT !.templates = (item.name :> item) @@ @, !.order = Append(@, item.name)]
    [] OTHER ->
         [k EXCEPT !.structs = @ \cup (IF item.head = "struct" /\ ~item.value THEN {Sym(item.name)} ELSE {}),
                   !.defs = IF item.value \/ item.head \in {"union", "enum"} THEN (Sym(item.name) :> item) @@ @ ELSE @,
                   !.work = Append(@, AsStub(Walked(item.head, Sym(item.name), item.types, item.body, ""), p))]
Collected(items, p) == FoldLeft(LAMBDA k, item : Collect(k, item, p, items), Nothing, items)

-----------------------------------------------------------------------------
\* is_plain: what t holds, at any depth, is no pointer and no array.
ByValue(def) == def.value \/ def.head \in {"union", "enum"}
Holds(t, k) ==
  CASE HeadOf(t) = "result" -> ToSet(Args(t))
    [] t \in DOMAIN k.defs -> ToSet(k.defs[t].types)
    [] HeadOf(t) \in DOMAIN k.templates ->
         LET tm == k.templates[HeadOf(t)] IN {With(x, Bound(tm.params, Args(t))) : x \in ToSet(tm.types)}
    [] OTHER -> {}
Opaque(t, k) ==
  CASE t[1][3] # "" -> t \notin k.plains
    [] HeadOf(t) \in {"i32", "result", "fn"} -> FALSE
    [] HeadOf(t) \in DOMAIN k.templates -> ~ByValue(k.templates[HeadOf(t)])
    [] OTHER -> t \notin DOMAIN k.defs
Depth == 4     \* values in values
HeldBy(t, k) == FoldLeft(LAMBDA ts, n : ts \cup UNION {Holds(x, k) : x \in ts}, {t}, [n \in 1..Depth |-> n])

\* Faulty variants of the operations below, for trying the properties on.

\* a placeholder passes for plain, whatever its template's clauses
PlainIfSealed(t, k) == \A x \in HeldBy(t, k) : x[1][3] # "" \/ ~Opaque(x, k)

IsPlain(t, k) == \A x \in HeldBy(t, k) : ~Opaque(x, k)

\* rewrite, where it makes an instance: the number of its arguments, the length
\* of its name, and, the first time, their kinds and implementations.
Unmade == [names |-> {}, structs |-> {}, created |-> <<>>, why |-> ""]
IsStruct(t, s, k) == t \in k.structs \cup s.structs
KindRight(tm, p, t, s, k) ==
  IF p \in tm.structs THEN IsStruct(t, s, k)
  ELSE ~IsStruct(t, s, k) /\ HeadOf(t) \notin {"void", "result"} /\ (p \in tm.plains => IsPlain(t, k))
WheresRight(tm, b, k) == \A w \in tm.wheres : w[1] \in DOMAIN k.ifaces /\ <<w[1], b[w[2]]>> \in k.impls
Made(t, tm, b) ==
  Walked(tm.head, t, Each(LAMBDA x : With(x, b), tm.types), Each(LAMBDA x : UseWith(x, b), tm.body), tm.name)
NewInstance(t, tm, b, s, k) ==
  CASE \E p \in ToSet(tm.params) : ~KindRight(tm, p, b[p], s, k) -> Refused(s, "kind")
    [] ~WheresRight(tm, b, k) -> Refused(s, "implementation")
    [] OTHER -> [s EXCEPT !.names = @ \cup {t},
                          !.structs = @ \cup (IF tm.head = "struct" /\ ~tm.value THEN {t} ELSE {}),
                          !.created = Append(@, Made(t, tm, b))]
Instance(t, s, k) ==
  LET tm == k.templates[HeadOf(t)] IN
  CASE s.why # "" -> s
    [] t[1][2] # Len(tm.params) -> Refused(s, "arguments")
    [] Len(t) > MaxName -> Refused(s, "runaway")
    [] t \in s.names -> s
    [] OTHER -> NewInstance(t, tm, Bound(tm.params, Args(t)), s, k)

\* A struct's template is applied anywhere, a function's only as a callee.
Applies(t, callee, k) == HeadOf(t) \in DOMAIN k.templates /\ t[1][2] > 0 /\ (callee \/ k.templates[HeadOf(t)].head # "fn")
InstancesIn(t, callee, s, k) ==
  FoldLeft(LAMBDA r, x : IF Applies(x, callee /\ x = t, k) THEN Instance(x, r, k) ELSE r, s, Inside(t))

\* zero_of: instances in a type, and in the fields of a value it is made of.
DefOf(t, k) == IF t \in DOMAIN k.defs THEN k.defs[t]
               ELSE LET tm == k.templates[HeadOf(t)] IN [tm EXCEPT !.types = Each(LAMBDA x : With(x, Bound(tm.params, Args(t))), @)]
HasDef(t, k) == t \in DOMAIN k.defs \/ HeadOf(t) \in DOMAIN k.templates
RECURSIVE Zeroed(_, _, _)
Zeroed(t, s, k) ==
  LET r == InstancesIn(t, FALSE, s, k) IN
  CASE r.why # "" -> r
    [] HeadOf(t) \in {"i32", "ptr", "arr"} -> r
    [] t[1][3] # "" /\ ~IsStruct(t, r, k) -> r
    [] HasDef(t, k) /\ DefOf(t, k).head = "enum" -> r
    [] HasDef(t, k) /\ DefOf(t, k).value -> FoldLeft(LAMBDA a, x : Zeroed(x, a, k), r, DefOf(t, k).types)
    [] OTHER -> Refused(r, "zero")

\* A generic without its arguments; the member after an applied type.
IsBare(x, k) ==
  /\ x.t[1][2] = 0 /\ HeadOf(x.t) \in DOMAIN k.templates
  /\ LET head == k.templates[HeadOf(x.t)].head
     IN \/ x.k \in {"call", "ref"} /\ head = "fn"
        \/ x.k \in {"get", "put", "with"} /\ head = "struct"
        \/ x.k = "make" /\ head = "union"
MemberRight(x, k) ==
  /\ Applies(x.t, FALSE, k)
  /\ x.k \in {"get", "put", "with", "arm"} \/ (x.k = "make" /\ k.templates[HeadOf(x.t)].head = "union")
  => x.m \notin {"", "a.b"}
\* A callee that is applied: an interface's function, or a generic one.
CalleeRight(x, k) ==
  x.k \in {"call", "ref"} /\ Len(x.t) > 1 =>
    IF HeadOf(x.t) \in DOMAIN k.ifaces
    THEN x.t[1][2] = 1 /\ x.m \in {f.name : f \in ToSet(k.ifaces[HeadOf(x.t)].fns)} /\ <<HeadOf(x.t), Tail(x.t)>> \in k.impls
    ELSE HeadOf(x.t) \in DOMAIN k.templates
Rewritten(x, s, k) ==
  LET r == InstancesIn(x.t, x.k \in {"call", "ref"}, s, k) IN
  CASE s.why # "" -> s
    [] IsBare(x, k) -> Refused(s, "bare")
    [] r.why # "" -> r
    [] ~MemberRight(x, k) -> Refused(r, "member")
    [] ~CalleeRight(x, k) -> Refused(r, "implementation")
    [] x.k = "zero" -> Zeroed(x.t, r, k)
    [] OTHER -> r
WalkedThrough(w, s, k) ==
  FoldLeft(LAMBDA r, x : Rewritten(x, r, k), s, Each(LAMBDA t : Use("type", t, ""), w.types) \o w.body)

-----------------------------------------------------------------------------
\* archetypes: placeholders, the functions they are granted, and each template at them.
Placeholders(tm) == Each(LAMBDA p : Sealed(tm.name, p), tm.params)
Owned(names, tm) == {Sealed(tm.name, p) : p \in names}
Granted(tm, k) == {<<w[1], Sealed(tm.name, w[2])>> : w \in {x \in tm.wheres : x[1] \in DOMAIN k.ifaces}}
GrantedWork(tm, k) ==
  FlattenSeq(Each(LAMBDA g : Each(LAMBDA f : Walked("fn", Of(g[1], <<g[2]>>), f.types, <<>>, ""), Asked(k.ifaces[g[1]], g[2])),
                  SetToSeq(Granted(tm, k))))
Seal(k, name) ==
  LET tm == k.templates[name] IN
  [k EXCEPT !.structs = @ \cup Owned(tm.structs, tm), !.plains = @ \cup Owned(tm.plains, tm), !.impls = @ \cup Granted(tm, k),
            !.work = @ \o Each(LAMBDA t : Walked("enum", t, <<>>, <<>>, ""), Placeholders(tm)) \o GrantedWork(tm, k)]
SealedAll(k) == FoldLeft(Seal, k, k.order)
Archetype(tm) == Of(tm.name, Placeholders(tm))
MadeSealed(k) == FoldLeft(LAMBDA s, name : Instance(Archetype(k.templates[name]), s, k), Unmade, k.order)

\* regroup: structs, those made, functions, and those made.
Regrouped(items) ==
  LET group(isFn, isMade) == SelectSeq(items, LAMBDA w : (w.head = "fn") = isFn /\ (w.of # "") = isMade)
  IN group(FALSE, FALSE) \o group(FALSE, TRUE) \o group(TRUE, FALSE) \o group(TRUE, TRUE)

-----------------------------------------------------------------------------
\* expand_with, for archetypes and then for the program; each item is a step.
Generic(k) == k.templates # << >> \/ k.ifaces # << >> \/ \E w \in ToSet(k.work) : \E x \in ToSet(w.body) : x.k = "zero"
InitOn(items) ==
  /\ text = items /\ pass = "check" /\ known = Nothing /\ made = Unmade /\ work = <<>> /\ turn = 0 /\ ended = ""
Absent ==
  /\ text = <<>> /\ pass = "absent" /\ known = Nothing /\ made = Unmade /\ work = <<>> /\ turn = 0 /\ ended = "absent"

Begins(k, s) ==
  /\ known' = k /\ made' = [s EXCEPT !.created = <<>>] /\ work' = k.work \o s.created /\ ended' = s.why
  /\ turn' = 1 /\ UNCHANGED <<text, pass>>
Refuse(why) == ended' = why /\ UNCHANGED <<text, pass, known, made, work, turn>>
BeginCheck ==
  /\ ended = "" /\ turn = 0 /\ pass = "check"
  /\ LET on(k) == CASE k.why # "" -> Refuse(k.why)
                     [] k.why = "" /\ k.templates = << >> -> pass' = "expand" /\ UNCHANGED <<text, known, made, work, turn, ended>>
                     [] OTHER -> LET sealed(r) == Begins(r, MadeSealed(r)) IN sealed(SealedAll(k))
     IN on(Collected(text, "check"))
BeginExpand ==
  /\ ended = "" /\ turn = 0 /\ pass = "expand"
  /\ LET on(k) == CASE k.why # "" -> Refuse(k.why)
                     [] k.why = "" /\ ~Generic(k) ->
                          work' = Regrouped(k.work) /\ ended' = "made" /\ UNCHANGED <<text, pass, known, made, turn>>
                     [] OTHER -> Begins(k, Unmade)
     IN on(Collected(text, "expand"))
WalkItem ==
  /\ ended = "" /\ turn \in DOMAIN work
  /\ LET with(s) ==
           /\ made' = [s EXCEPT !.created = <<>>]
           /\ work' = work \o s.created
           /\ ended' = IF s.why = "" /\ Cardinality(s.names) > MaxInstances THEN "runaway" ELSE s.why
           /\ turn' = IF ended' = "" THEN turn + 1 ELSE turn
     IN with(WalkedThrough(work[turn], made, known))
  /\ UNCHANGED <<text, pass, known>>
CheckDone ==
  /\ ended = "" /\ pass = "check" /\ turn = Len(work) + 1
  /\ pass' = "expand" /\ turn' = 0 /\ work' = <<>> /\ made' = Unmade
  /\ UNCHANGED <<text, known, ended>>
ExpandDone ==
  /\ ended = "" /\ pass = "expand" /\ turn = Len(work) + 1 /\ turn > 0
  /\ work' = Regrouped(work) /\ ended' = "made"
  /\ UNCHANGED <<text, pass, known, made, turn>>
Next == BeginCheck \/ BeginExpand \/ WalkItem \/ CheckDone \/ ExpandDone

-----------------------------------------------------------------------------
\* "A template is checked once, by itself" (AIPL_SPEC.md:568): what is refused when the
\* program is expanded is what an ordinary item says, and nothing in a template, which
\* archetypes has been through; but a zero, which not every type has (:348).
TemplatesCheckedOnce ==
  ended \notin {"", "made", "absent"} /\ pass = "expand" /\ turn > 0 => work[turn].of = "" \/ ended = "zero"

\* What the items mean, by themselves: what an item applies, and all that a
\* program, or a template at its own parameters, comes to apply.
Templates == {i \in ToSet(text) : IsTemplate(i)}
TemplateOf(t) == CHOOSE i \in Templates : i.name = HeadOf(t)
Ordinary == {i \in ToSet(text) : ~IsTemplate(i) /\ i.head # "interface"}
Interfaces == {i \in ToSet(text) : i.head = "interface"}
Contracts(f, impl) == UNION {{UseWith(x, Bound(i.params, <<impl.on>>)) : x \in UNION {ToSet(g.body) : g \in {h \in ToSet(i.fns) : h.name = f.name}}} :
                             i \in {j \in Interfaces : j.name = impl.name}}
UsesOf(i) ==
  {Use("type", t, "") : t \in ToSet(i.types)} \cup ToSet(i.body)
  \cup UNION {{Use("type", t, "") : t \in ToSet(f.types)} \cup ToSet(f.body) \cup Contracts(f, i) : f \in ToSet(i.fns)}
IsApplied(t, callee) == t[1][2] > 0 /\ \E i \in Templates : i.name = HeadOf(t) /\ (i.head # "fn" \/ callee)
AppliedIn(x) == {Term(x.t, i) : i \in {j \in DOMAIN x.t : IsApplied(Term(x.t, j), j = 1 /\ x.k \in {"call", "ref"})}}
MadeOf(t)  == {UseWith(x, Bound(TemplateOf(t).params, Args(t))) : x \in UsesOf(TemplateOf(t))}
Further(ts) == ts \cup UNION {UNION {AppliedIn(x) : x \in MadeOf(t)} : t \in {y \in ts : Len(y) <= MaxName}}
Reached(ts) == FoldLeft(LAMBDA a, n : Further(a), ts, [n \in 1..MaxName |-> n])
FromProgram == Reached(UNION {AppliedIn(x) : x \in UNION {UsesOf(i) : i \in Ordinary}})

\* Each application has the instance of its template for a name, made once
\* (rewrite), and nothing is made that nothing applies.
EachInstanceOnce ==
  ended = "made" =>
    LET instances == SelectSeq(work, LAMBDA w : w.of # "")
    IN /\ IsInjective(Each(LAMBDA w : w.name, instances))
       /\ {w.name : w \in ToSet(instances)} = FromProgram
=============================================================================
