----------------------------- MODULE Templates -----------------------------
(***************************************************************************)
(* Small generic programs for Generics: templates f and g and a main that  *)
(* applies them, among structs, values, unions and an interface.  As in    *)
(* Programs, each family is a predicate.                                   *)
(***************************************************************************)
EXTENDS Generics

I32 == Sym("i32")
T   == Sym("T")
Ptr(t) == Of("ptr", <<t>>)
On(n, t) == Of(n, <<t>>)
Fn(name, types, body) == Item("fn", name, types, body)
Generic1(item) == [item EXCEPT !.params = <<"T">>]
\* What a template asks of its T.
Asking(item, c) ==
  CASE c = "" -> item [] c = "struct" -> [item EXCEPT !.structs = {"T"}] [] c = "plain" -> [item EXCEPT !.plains = {"T"}]
    [] OTHER -> [item EXCEPT !.wheres = {<<c, "T">>}]
Clauses == {"", "struct", "plain", "Hash"}

Hash == [Item("interface", "Hash", <<>>, <<>>) EXCEPT !.params = <<"K">>,
           !.fns = <<[name |-> "hash", types |-> <<Sym("K"), I32>>, body |-> <<Use("new", On("Box", Ptr(Sym("K"))), "")>>]>>]
Impl(iface, t, uses) ==
  [Item("impl", iface, <<>>, <<>>) EXCEPT !.on = t, !.fns = <<[name |-> "hash", types |-> <<t, I32>>, body |-> uses]>>]
Value(name, types) == [Item("struct", name, types, <<>>) EXCEPT !.value = TRUE]
Box  == Generic1(Item("struct", "Box", <<T, Ptr(On("Box", T))>>, <<>>))
Pair == Generic1(Value("Pair", <<T, On("Opt", T)>>))
Opt  == Generic1(Item("union", "Opt", <<T>>, <<>>))
Key  == Asking(Generic1(Item("struct", "Key", <<T>>, <<>>)), "Hash")
Types == <<Hash, Item("struct", "P", <<I32>>, <<>>), Value("V", <<I32, Sym("E")>>), Value("Q", <<Ptr(Sym("P"))>>),
           Item("enum", "E", <<>>, <<>>), Box, Pair, Opt, Key>>
Impls == <<Impl("Hash", I32, <<>>), Impl("Hash", On("Pair", I32), <<Use("zero", Sym("V"), "")>>), Impl("Hash", Ptr(Sym("P")), <<>>), Impl("Hash", Sym("V"), <<>>)>>
Program(fns) == Types \o Impls \o fns
Template(name, c, body) == Asking(Generic1(Fn(name, IF c = "struct" THEN <<Ptr(T)>> ELSE <<T, Ptr(On("Box", T))>>, body)), c)
Calls(name, t) == Use("call", On(name, t), "")
Main(body) == Fn("main", <<I32>>, body)

-----------------------------------------------------------------------------
\* f calls g, which asks something else of its T, for a type made of f's.
Made1(t) == {t, Ptr(t), On("arr", t), On("Box", t), Ptr(On("Box", t)), On("Pair", t), On("Opt", On("Opt", t)), Of("result", <<t, I32>>), Of("fn", <<t, I32>>)}
Given == {I32, Sym("P"), Ptr(Sym("P")), Sym("V"), Sym("Q"), On("Box", I32), On("Pair", I32), On("Pair", Sym("Q"))}
Short(name, c, body) == Asking(Generic1(Fn(name, <<IF c = "struct" THEN Ptr(T) ELSE T>>, body)), c)
Chains(items) ==
  \/ \E c, d \in Clauses, t \in Made1(T) \cup {I32}, x \in Given,
       u \in {Use("zero", T, ""), Use("call", On("Hash", T), "hash"), Calls("f", Ptr(T)), Calls("f", T)} :
       items = Program(<<Template("f", c, <<Calls("g", t)>>), Template("g", d, <<u>>), Main(<<Calls("f", x)>>)>>)
  \/ \E c, d \in Clauses, t \in {T, Ptr(T)}, x \in {I32, Sym("P"), Ptr(Sym("P"))} :
       items = <<Hash, Item("struct", "P", <<>>, <<>>), Impl("Hash", I32, <<>>),
                 Short("f", c, <<Calls("g", t)>>), Short("g", d, <<>>), Main(<<Calls("f", x)>>)>>

-----------------------------------------------------------------------------
\* Every way to use a type, in a template and in main.
Members == {"", "x", "a.b"}
Forms0(t) == {Use(k, On("Box", t), m) : k \in {"get", "with"}, m \in Members} \cup {Use("make", On(n, t), m) : n \in {"Opt", "Pair"}, m \in Members}
            \cup {Use("arm", On("Opt", t), m) : m \in Members} \cup {Use("new", On("Key", t), "")} \cup {Use("zero", x, "") : x \in Made1(t)}
            \cup {Use("call", On("Hash", t), m) : m \in {"hash", "same"}} \cup {Use(k, Of("f", <<t, t>>), "") : k \in {"call", "ref", "type"}}
            \cup {Use(k, Sym(n), "x") : k \in {"call", "get", "make"}, n \in {"f", "Box", "Opt", "P"}} \cup {Calls("h", t)}
Usings(items) ==
  \/ \E c \in Clauses, u \in Forms0(T), x \in Given : items = Program(<<Template("f", c, <<u>>), Main(<<Calls("f", x)>>)>>)
  \/ \E t \in Given : \E u \in Forms0(t) : items = Program(<<Template("f", "", <<>>), Main(<<u>>)>>)
  \/ \E u \in Forms0(I32) : items = <<Main(<<u>>)>>

-----------------------------------------------------------------------------
\* Interfaces and implementations, as they should be and not.
Same == [Hash EXCEPT !.name = "Same", !.fns = <<[name |-> "hash", types |-> <<Sym("K")>>, body |-> <<>>], [name |-> "same", types |-> <<I32>>, body |-> <<>>]>>]
Interfaces0 == {Hash, [Hash EXCEPT !.name = "ptr"], [Hash EXCEPT !.fns = <<>>], [Hash EXCEPT !.params = <<"K", "L">>], Same,
                [Same EXCEPT !.fns = <<@[1], @[1]>>], [Same EXCEPT !.module = "m"]}
Impls0 == {Impl(n, t, <<>>) : n \in {"Hash", "Same"}, t \in {I32, Ptr(Sym("P")), On("arr", On("Box", I32)), Of("fn", <<I32, I32>>)}}
     \cup {[Impl("Hash", Ptr(Sym("P")), <<>>) EXCEPT !.module = m] : m \in {"m", "n"}}
     \cup {[Impl("Same", t, <<>>) EXCEPT !.module = "m", !.fns = <<[name |-> "hash", types |-> <<t>>, body |-> b], [name |-> "same", types |-> <<I32>>, body |-> <<>>]>>] :
             t \in {I32, Sym("P")}, b \in {<<>>, <<Calls("g", I32)>>}}
Declared(items) == \E i \in Interfaces0, j \in Impls0, more \in {<<>>, <<Main(<<Calls("g", I32)>>)>>, <<Template("g", "", <<>>)>>} :
  items = <<i>> \o Types \o <<j, Impl("Hash", I32, <<>>), Template("g", "Same", <<Use("call", On("Same", T), "same")>>)>> \o more

CONSTANT Shapes
OfShape(x, items) == CASE x = "chains" -> Chains(items) [] x = "usings" -> Usings(items) [] x = "declared" -> Declared(items)
Init == \E x \in Shapes : OfShape(x, text) /\ InitOn(text)
=============================================================================
