------------------------------ MODULE Projects ------------------------------
(***************************************************************************)
(* Small programs of several files for Resolver.                           *)
(***************************************************************************)
EXTENDS Resolver

Entry == <<"app", "main">>
A == <<"app", "a">>
B == <<"app", "b">>
Alloc == File("alloc", <<>>, <<[Item("fn", "create", TRUE, <<>>, <<>>) EXCEPT !.generic = TRUE]>>)
Project(files) == [entry |-> Entry, search |-> <<<<"std">>>>, files |-> files @@ (<<"std", "alloc">> :> Alloc)]
Fn(name, pub, body) == Item("fn", name, pub, <<>>, body)
Plain(name) == Import(<<name>>, "")
As(name, alias) == Import(<<name>>, alias)

-----------------------------------------------------------------------------
\* Who imports whom, and what is where: up to five files, two of them b.
Calls(imports) == Each(LAMBDA i : Form("call", <<Last(i.path), "f">>), imports)
Calling(name, imports) == File(name, imports, <<Fn("f", TRUE, Calls(imports) \o <<Form("call", <<"f">>)>>)>>)
Ways == {Plain("a"), Plain("b"), Plain("main"), Import(<<"sub", "b">>, ""), Import(<<"..", "b">>, "")}
Lines == {<<>>} \cup {<<i>> : i \in Ways}
Graph(main, a, b, places) ==
  Project((Entry :> Calling("main", main)) @@ (A :> Calling("a", a)) @@ [p \in places |-> Calling("b", b)])
Graphs(pr) ==
  \E main \in Lines \cup {<<i, j>> : i, j \in Ways}, a \in Lines, b \in {<<>>, <<Plain("a")>>},
     places \in {{B}, {<<"std", "b">>}, {<<"app", "sub", "b">>}, {B, <<"app", "sub", "b">>}, {B, <<"std", "b">>}} :
    pr = Graph(main, a, b, places)

-----------------------------------------------------------------------------
\* What b has, and every way to use it: in the entry, in a, and in b itself.
Num == Form("sym", <<"i32">>)
Struct(name, pub, parts) == Item("struct", name, pub, parts, <<>>)
Value(name, pub, parts)  == [Struct(name, pub, parts) EXCEPT !.value = TRUE]
Generic(item) == [item EXCEPT !.generic = TRUE]
Mixed == <<Part("x", "pub", Num), Part("y", "read", Num), Part("z", "private", Num)>>
Shown == <<Part("x", "pub", Num), Part("y", "pub", Num)>>
Given(own) ==
  <<Fn("open", TRUE, own), Fn("shut", FALSE, <<>>), Struct("S", TRUE, Mixed), Struct("O", TRUE, Shown), Struct("H", FALSE, Shown),
    Value("V", TRUE, Mixed), Value("W", TRUE, Shown), Item("enum", "E", TRUE, <<>>, <<>>), Item("const", "K", FALSE, <<>>, <<>>),
    Generic(Fn("g", TRUE, <<>>)), Generic(Fn("hid", FALSE, <<>>)), Generic(Struct("G", TRUE, Mixed))>>
Forms0(q) ==
  {Form("call", q \o <<n>>) : n \in {"open", "shut", "missing"}} \cup {Form("ref", q \o <<"shut">>)}
  \cup {Form("ptr", q \o <<n>>) : n \in {"S", "H"}}
  \cup {Form("sym", q \o n) : n \in {<<"K">>, <<"V">>, <<"E">>, <<"E", "red">>, <<"K", "red">>}}
  \cup {Access(k, q \o <<n>>, f) : k \in {"get", "put"}, n \in {"S", "O", "H", "V"}, f \in {"x", "y", "z"}}
  \cup {Access(k, q \o <<n>>, f) : k \in {"with", "arr.get", "arr.set"}, n \in {"V", "W"}, f \in {"x", "y", "z"}}
  \cup {Filled("new", q \o <<n>>, fs) : n \in {"S", "O", "H"}, fs \in {<<"x", "y">>, <<"y", "x">>, <<"x", "y", "z">>}}
  \cup {Filled("make", q \o <<n>>, fs) : n \in {"V", "W"}, fs \in {<<"x", "y">>, <<"y", "x">>, <<"x", "y", "z">>}}
  \cup {Apply("apply", q \o <<n>>, <<t>>, "") : n \in {"g", "hid"}, t \in {<<"i32">>} \cup {q \o <<s>> : s \in {"S", "O", "H", "V"}}}
  \cup {Apply(k, q \o <<"G">>, <<<<"i32">>>>, f) : k \in {"get of", "put of"}, f \in {"x", "y", "z"}}
Styles == {<<Plain("b")>>, <<As("b", "u")>>, <<Plain("b"), As("b", "u")>>, <<As("b", "u"), As("a", "b")>>, <<As("a", "u"), As("b", "u")>>}
Using(imports, x) == File("main", imports, <<Fn("main", FALSE, <<x>>), Fn("open", FALSE, <<>>), Value("V", FALSE, Shown)>>)
Library(own) == B :> File("b", <<>>, Given(own))
Twin == A :> File("a", <<>>, Each(LAMBDA i : [i EXCEPT !.pub = ~@], Given(<<>>)))  \* shows what b does not
Usings(pr) ==
  \/ \E s \in Styles, q \in {<<"b">>, <<"u">>} : \E x \in Forms0(q) :
       pr = Project((Entry :> Using(s, x)) @@ Library(<<>>) @@ Twin)
  \/ \E s \in {<<Plain("b")>>, <<As("b", "u")>>}, q \in {<<"b">>, <<"u">>, <<>>} : \E x \in Forms0(q) :
       pr = Project((Entry :> Using(<<Plain("a")>>, Form("call", <<"a", "open">>))) @@ Library(<<>>)
                    @@ (A :> File("a", s, <<Fn("open", TRUE, <<x>>), Value("V", FALSE, Shown)>>)))
  \/ \E x \in Forms0(<<>>) : pr = Project((Entry :> Using(<<Plain("b")>>, Form("call", <<"open">>))) @@ Library(<<x>>))

-----------------------------------------------------------------------------
\* What a module shows of what it keeps: of each pair of its items one uses the other.
Kept(pub) == {Struct("T", pub, Shown), Value("T", pub, Shown), Item("enum", "T", pub, <<>>, <<>>), Fn("T", pub, <<>>)}
Showing(t) ==
  {Item(head, "I", pub, <<Part("x", level, t), Part("y", "pub", Num)>>, <<>>) :
     head \in {"fn", "struct", "union", "const"}, pub \in BOOLEAN, level \in {"pub", "read", "private"}}
Exposed(pr) ==
  \E kept \in Kept(TRUE) \cup Kept(FALSE), x \in {Form("ptr", <<"a", "T">>), Access("put", <<"a", "I">>, "x")},
     t \in {Form("ptr", <<"T">>), Form("sym", <<"T">>), Apply("apply", <<"G">>, <<<<"T">>>>, "")} :
    \E i \in Showing(t) : pr = Project((Entry :> Using(<<Plain("a")>>, x)) @@ (A :> File("a", <<>>, <<i, kept>>)))

-----------------------------------------------------------------------------
\* A module that names another and does not import it.
Unnamed(pr) ==
  \E s \in {<<Plain("a")>>, <<Plain("a"), Plain("b")>>, <<Plain("b"), Plain("a")>>}, n \in {"open", "shut"} :
    pr = Project((Entry :> Using(s, Form("call", <<"a", "open">>))) @@ Library(<<>>)
                 @@ (A :> File("a", <<>>, <<Fn("open", TRUE, <<Form("call", <<"b", n>>)>>)>>)))

-----------------------------------------------------------------------------
OfSort(x, pr) == CASE x = "graphs" -> Graphs(pr) [] x = "uses" -> Usings(pr) [] x = "exposed" -> Exposed(pr) [] x = "unnamed" -> Unnamed(pr)
CONSTANT Sorts
Init == \E x \in Sorts : OfSort(x, project) /\ InitOn(project)
=============================================================================
