------------------------------ MODULE Resolver ------------------------------
(***************************************************************************)
(* Imports (src/src/resolver.rs): from an entry file, the files its        *)
(* imports find are read, depth first and each once, and their items are   *)
(* made one flat program, in which an item has its module's name before    *)
(* its own; each name in them is written so, and what another module keeps *)
(* to itself is refused.                                                   *)
(*                                                                         *)
(* A name is the sequence of its parts, u.Color.red being <<"u", "Color",  *)
(* "red">>, and a file's path its directories and its name.  An item has   *)
(* parts (parameters and a result, fields, or variants' fields), each of a *)
(* type that is a form, and a body of forms.  Forms are walked alike       *)
(* wherever they are, so none is inside another here.  Interfaces, tests,  *)
(* match arms, the messages and the parsing of the text are left out.      *)
(***************************************************************************)
EXTENDS Integers, Sequences, FiniteSets, SequencesExt, TLC

VARIABLES project,  \* the files, the entry, and the directories searched last
          stack,    \* the files being resolved: [path, next: the import it is at]
          st,       \* State and Vis
          outcome   \* "" before it is "resolved", or why it is refused
vars == <<project, stack, st, outcome>>

\* A module's file, an import (as is "" without an alias), an item, a part of it.
File(name, imports, items) == [name |-> name, imports |-> imports, items |-> items]
Import(path, as)  == [path |-> path, as |-> as]
Item(head, name, pub, parts, body) ==
  [head |-> head, name |-> name, pub |-> pub, generic |-> FALSE, value |-> FALSE, parts |-> parts, body |-> body]
Part(n, level, t) == [n |-> n, level |-> level, t |-> t]

\* (call NAME), (ref NAME), (ptr NAME), NAME, (get x NAME.f), (put x NAME.f y),
\* (arr.set V a i NAME.f x), (new NAME a [f:v ...]), (make NAME [f:v ...]),
\* (NAME TYPE ...), (put x (NAME TYPE) f y): the last two "apply" and "put of"
Form(k, n)       == [k |-> k, n |-> n, f |-> "", fs |-> <<>>, as |-> <<>>]
Access(k, n, f)  == [Form(k, n) EXCEPT !.f = f]
Filled(k, n, fs) == [Form(k, n) EXCEPT !.fs = fs]
Apply(k, n, as, f) == [Form(k, n) EXCEPT !.as = as, !.f = f]

Each(Op1(_), s) == [n \in DOMAIN s |-> Op1(s[n])]
NameOf(path)    == Last(path)                       \* module_name
Over(new, old)  == [x \in DOMAIN new \cup DOMAIN old |-> IF x \in DOMAIN new THEN new[x] ELSE old[x]]
Put(map, k, v)  == [x \in {k} \cup DOMAIN map |-> IF x = k THEN v ELSE map[x]]
None == <<>>

-----------------------------------------------------------------------------
\* Faulty variants of the operations below, for trying the properties on.

\* two files may have one name; to write a field takes no more than to read it
NeverTaken(s, path) == FALSE
LevelOf(s, f, state) == IF s \in DOMAIN state.fields /\ f \in DOMAIN state.fields[s] THEN state.fields[s][f] ELSE "private"
ReadIsEnough(s, f, put, state) == LevelOf(s, f, state) # "private"

-----------------------------------------------------------------------------
\* find_module_file: the importing file's directory, the entry's, the others.
Directories(importer, pr) == <<Front(importer), Front(pr.entry)>> \o pr.search
Candidates(import, importer, pr) == Each(LAMBDA dir : dir \o import.path, Directories(importer, pr))
Find(import, importer, pr) ==
  LET candidates == Candidates(import, importer, pr)
      found == {n \in DOMAIN candidates : candidates[n] \in DOMAIN pr.files}
  IN IF found = {} THEN None ELSE candidates[CHOOSE n \in found : \A m \in found : n <= m]
IsImportPath(path) == \A n \in DOMAIN path : path[n] \notin {"", ".", ".."}

\* read_module: new is a call of alloc.create, whose module is then imported.
UsesNew(f) == \E i \in ToSet(f.items) : \E x \in ToSet(i.body) : x.k = "new"
Imports(f) == f.imports \o (IF UsesNew(f) /\ f.name # "alloc" /\ \A i \in ToSet(f.imports) : NameOf(i.path) # "alloc"
                            THEN <<Import(<<"alloc">>, "")>> ELSE <<>>)

-----------------------------------------------------------------------------
\* What emit_module keeps of a module's items for those that use it.
Nothing == [names |-> << >>, included |-> {}, busy |-> {}, templates |-> {}, public |-> {},
            fields |-> << >>, order |-> << >>, values |-> {}, flat |-> <<>>]
Levels(item) == [f \in {p.n : p \in ToSet(item.parts)} |-> (CHOOSE p \in ToSet(item.parts) : p.n = f).level]
Ordered(item) == Each(LAMBDA p : p.n, item.parts)
Structs(items) == {i \in ToSet(items) : i.head = "struct"}
Canonical(prefix, items) == {prefix \o <<i.name>> : i \in items}
OfStructs(prefix, items, Of(_)) ==
  [n \in Canonical(prefix, Structs(items)) |-> Of(CHOOSE i \in Structs(items) : prefix \o <<i.name>> = n)]
Marked(state, prefix, items) ==
  [state EXCEPT !.public = @ \cup Canonical(prefix, {i \in ToSet(items) : i.pub}),
                !.values = @ \cup Canonical(prefix, {i \in Structs(items) : i.value}),
                !.fields = Over(OfStructs(prefix, items, Levels), @),
                !.order  = Over(OfStructs(prefix, items, Ordered), @)]

\* check_exposure: a public item's signature, or a field that others can read,
\* is not of a private type.
Mentions(t) == {t.n} \cup ToSet(t.as)
Exposes(items) ==
  \E i \in ToSet(items), private \in ToSet(items) :
    /\ i.pub /\ i.head \in {"fn", "struct", "union"}
    /\ ~private.pub /\ private.head \in {"struct", "union", "enum"}
    /\ \E p \in ToSet(i.parts) : <<private.name>> \in Mentions(p.t) /\ (i.head = "struct" => p.level # "private")

\* Names: what renaming and checking a module's names goes by.
Those(items, Test(_)) == {i.name : i \in {x \in ToSet(items) : Test(x)}}
LastAs(q, imports) ==
  imports[CHOOSE n \in DOMAIN imports : imports[n].as = q /\ \A m \in DOMAIN imports : imports[m].as = q => m <= n]
Aliases(imports) == [q \in {i.as : i \in ToSet(imports)} \ {""} |-> NameOf(LastAs(q, imports).path)]
Names(f, prefix, state) ==
  [prefix  |-> prefix,
   fns     |-> Those(f.items, LAMBDA i : i.head = "fn"),
   structs |-> Those(f.items, LAMBDA i : i.head = "struct"),
   decls   |-> Those(f.items, LAMBDA i : i.value \/ i.head \in {"const", "enum", "union"}),
   own     |-> Those(f.items, LAMBDA i : i.generic),
   aliases |-> Aliases(f.imports),
   module  |-> IF prefix = <<>> THEN f.name ELSE prefix[1],
   modules |-> DOMAIN state.names,
   uses    |-> {NameOf(i.path) : i \in ToSet(f.imports)}]

-----------------------------------------------------------------------------
\* rename, for a function's name, for a struct's, and in any place; template_ref
IsAliased(t, names) == Len(t) > 1 /\ t[1] \in DOMAIN names.aliases
Unaliased(t, names) == IF IsAliased(t, names) THEN <<names.aliases[t[1]]>> \o Tail(t) ELSE t
Own(t, owned, names) == IF Len(t) = 1 /\ t[1] \in owned THEN names.prefix \o t ELSE Unaliased(t, names)
RenameFn(t, names)     == Own(t, names.fns, names)
RenameStruct(t, names) == Own(t, names.structs \cup names.decls, names)
RenameDecl(t, names) ==
  IF ~IsAliased(t, names) /\ Len(t) <= 2 /\ t[1] \in names.decls THEN names.prefix \o t ELSE Unaliased(t, names)
TemplateRef(h, names, state) ==
  IF Len(h) = 1 /\ h[1] \in names.own THEN names.prefix \o h
  ELSE IF Unaliased(h, names) \in state.templates THEN Unaliased(h, names)
  ELSE IF h \in state.templates THEN h
  ELSE None

\* check_item, check_decl, check_makes, check_field, of canonical names
Foreign(n, names)  == Len(n) > 1 /\ n[1] # names.module /\ n[1] \in names.modules
Imported(n, names) == n[1] \in names.uses \/ n = <<"alloc", "create">>
ItemAllowed(n, names, state) == Foreign(n, names) => Imported(n, names) /\ n \in state.public
DeclAllowed(n, names, state) ==
  Foreign(n, names) => Imported(n, names) /\ ItemAllowed(SubSeq(n, 1, 2), names, state)
MakesAllowed(n, names, state) ==
  Foreign(n, names) => /\ Imported(n, names)
                       /\ n \in DOMAIN state.fields => \A f \in DOMAIN state.fields[n] : state.fields[n][f] = "pub"
IsOpen(s, f, put, state) == LevelOf(s, f, state) \in {"pub"} \cup (IF put THEN {} ELSE {"read"})
FieldAllowed(s, f, put, names, state) == Foreign(s, names) => Imported(s, names) /\ IsOpen(s, f, put, state)

\* walk, form by form: as it is written in the flat program, and whether it may be.
Puts(x) == x.k \in {"put", "with", "arr.set", "put of"}
Argument(t, template, names) == IF template = None THEN RenameDecl(t, names) ELSE RenameStruct(t, names)
Applied(x, names, template) ==
  [x EXCEPT !.n = IF template = None THEN @ ELSE template, !.as = Each(LAMBDA t : Argument(t, template, names), @)]
Written(x, names, state) ==
  CASE x.k \in {"call", "ref"} -> [x EXCEPT !.n = RenameFn(@, names)]
    [] x.k \in {"ptr", "get", "put", "with", "new"} -> [x EXCEPT !.n = RenameStruct(@, names)]
    [] x.k \in {"sym", "make", "arr.get", "arr.set"} -> [x EXCEPT !.n = RenameDecl(@, names)]
    [] OTHER -> Applied(x, names, TemplateRef(x.n, names, state))
ArgumentAllowed(t, names, state) ==
  ItemAllowed(t, names, state) /\ (t \notin state.values => MakesAllowed(t, names, state))
AppliedAllowed(x, names, state) ==
  IF x.n \in state.templates THEN ItemAllowed(x.n, names, state) /\ \A t \in ToSet(x.as) : ArgumentAllowed(t, names, state)
  ELSE \A t \in ToSet(x.as) : DeclAllowed(t, names, state)
GivesAll(x, state) == x.n \in DOMAIN state.order => x.fs = state.order[x.n]      \* named_fields
Allowed(x, names, state) ==
  CASE x.k \in {"call", "ref", "ptr"} -> ItemAllowed(x.n, names, state)
    [] x.k = "sym" -> DeclAllowed(x.n, names, state)
    [] x.k \in {"get", "put", "with"} -> ItemAllowed(x.n, names, state) /\ FieldAllowed(x.n, x.f, Puts(x), names, state)
    [] x.k \in {"arr.get", "arr.set"} -> DeclAllowed(Append(x.n, x.f), names, state) /\ FieldAllowed(x.n, x.f, Puts(x), names, state)
    [] x.k = "new"  -> /\ GivesAll(x, state) /\ ArgumentAllowed(x.n, names, state)
                       /\ ItemAllowed(<<"alloc", "create">>, names, state)
                       /\ \A f \in ToSet(x.fs) : FieldAllowed(x.n, f, TRUE, names, state)
    [] x.k = "make" -> GivesAll(x, state) /\ DeclAllowed(x.n, names, state) /\ MakesAllowed(x.n, names, state)
    [] OTHER -> /\ AppliedAllowed(x, names, state)
                /\ x.f # "" => FieldAllowed(x.n, x.f, Puts(x), names, state)

\* emit_module, once its marks are recorded.  (The flat program is kept in two
\* lists, types and constants before functions; here it is one.)
Forms(item) == Each(LAMBDA p : p.t, item.parts) \o item.body
Flattened(item, path, names, state) ==
  [name |-> names.prefix \o <<item.name>>, path |-> path, as |-> item.name, head |-> item.head,
   forms |-> Each(LAMBDA x : Written(x, names, state), Forms(item))]
EmitAllowed(f, prefix, names, state) ==
  /\ prefix # <<>> => ~Exposes(f.items)
  /\ \A i \in ToSet(f.items) : \A x \in ToSet(Forms(i)) : Allowed(Written(x, names, state), names, state)
Emitted(f, path, names, state) ==
  [state EXCEPT !.flat = @ \o Each(LAMBDA i : Flattened(i, path, names, state), f.items),
                !.templates = @ \cup {names.prefix \o <<t>> : t \in names.own},
                !.busy = @ \ {path}, !.included = @ \cup {path}]

-----------------------------------------------------------------------------
Top     == Last(stack)
TopFile == project.files[Top.path]
Prefix  == IF Len(stack) = 1 THEN <<>> ELSE <<NameOf(Top.path)>>
Turn    == Imports(TopFile)[Top.next]              \* the import it is at
Going   == outcome = "" /\ Top.next <= Len(Imports(TopFile))
Onward  == [stack EXCEPT ![Len(stack)].next = @ + 1]

Refuse(why) == outcome' = why /\ UNCHANGED <<project, stack, st>>
Taken(s, path) == path # None /\ NameOf(path) \in DOMAIN s.names /\ s.names[NameOf(path)] # path

\* Files as they are parsed; one that gives two items a name is refused after all
\* of this (checker.rs), and is left out.
IsList(s) == s \in Seq(ToSet(s))
IsForm(x) ==
  /\ x = [k |-> x.k, n |-> x.n, f |-> x.f, fs |-> x.fs, as |-> x.as]
  /\ IsList(x.n) /\ \A t \in ToSet(x.as) : IsList(t)
  /\ \/ x.k \in {"call", "ref", "ptr", "new", "sym", "make"} /\ x.f = "" /\ x.as = <<>>
     \/ x.k \in {"get", "put", "with", "arr.get", "arr.set"} /\ x.as = <<>>
     \/ x.k \in {"apply", "get of", "put of"} /\ Len(x.n) <= 2
IsFile(f) ==
  /\ IsList(f.imports) /\ \A i \in ToSet(f.imports) : IsList(i.path) /\ i.path # <<>>
  /\ IsList(f.items) /\ \A n, m \in DOMAIN f.items : f.items[n].name = f.items[m].name => n = m
  /\ \A i \in ToSet(f.items) :
       /\ i.head \in {"fn", "struct", "union", "const"} \/ (i.head = "enum" /\ i.parts = <<>>)
       /\ \A x \in ToSet(Forms(i)) : IsForm(x)
IsProject(pr) ==
  /\ IsList(pr.search) /\ \A dir \in ToSet(pr.search) : IsList(dir)
  /\ pr.entry \in DOMAIN pr.files /\ None \notin DOMAIN pr.files
  /\ \A p \in DOMAIN pr.files : IsList(p) /\ IsFile(pr.files[p])

InitOn(pr) == /\ IsProject(pr) /\ project = pr /\ outcome = "" /\ st = Nothing
              /\ stack = <<[path |-> pr.entry, next |-> 1]>>
Absent == project = << >> /\ outcome = "absent" /\ st = Nothing /\ stack = <<>>

\* resolve_import, for the import the newest file is at
NotFound ==
  /\ Going /\ (~IsImportPath(Turn.path) \/ Find(Turn, Top.path, project) = None)
  /\ Refuse("not found")
TwoOfOneName ==
  /\ Going /\ IsImportPath(Turn.path) /\ Taken(st, Find(Turn, Top.path, project))
  /\ Refuse("two of one name")
Named(path) == [st EXCEPT !.names = Put(@, NameOf(path), path)]
Reaches(path) == Going /\ IsImportPath(Turn.path) /\ path # None /\ ~Taken(st, path)
Again ==
  LET path == Find(Turn, Top.path, project) IN
  /\ Reaches(path) /\ path \in st.included
  /\ st' = Named(path) /\ stack' = Onward
  /\ UNCHANGED <<project, outcome>>
Circular ==
  LET path == Find(Turn, Top.path, project) IN
  /\ Reaches(path) /\ path \in st.busy
  /\ Refuse("circular")
Enter ==
  LET path == Find(Turn, Top.path, project) IN
  /\ Reaches(path) /\ path \notin st.included \cup st.busy
  /\ st' = [Named(path) EXCEPT !.busy = @ \cup {path}]
  /\ stack' = Append(Onward, [path |-> path, next |-> 1])
  /\ UNCHANGED <<project, outcome>>

\* Its imports are done: emit_module.
Emit ==
  /\ outcome = "" /\ Top.next > Len(Imports(TopFile))
  /\ LET with(marked, names) ==
           IF EmitAllowed(TopFile, Prefix, names, marked)
           THEN /\ st' = Emitted(TopFile, Top.path, names, marked)
                /\ stack' = Front(stack)
                /\ outcome' = IF Len(stack) = 1 THEN "resolved" ELSE ""
                /\ UNCHANGED project
           ELSE Refuse("private")
         on(marked) == with(marked, Names(TopFile, Prefix, marked))
     IN on(Marked(st, Prefix, TopFile.items))

Next == NotFound \/ TwoOfOneName \/ Again \/ Circular \/ Enter \/ Emit

-----------------------------------------------------------------------------
\* What the source means, by its files alone: the files of the program, the
\* file that a qualifier stands for in another, and the item that a name does.
Finds(path, Test(_)) == {Find(i, path, project) : i \in {x \in ToSet(Imports(project.files[path])) : Test(x)}}
Direct(path)  == {Find(i, path, project) : i \in ToSet(Imports(project.files[path]))} \ {None}
Closed(paths) == \A p \in paths : Direct(p) \subseteq paths
Closure(from) ==
  {p \in DOMAIN project.files :
     \A paths \in SUBSET DOMAIN project.files : from \subseteq paths /\ Closed(paths) => p \in paths}
Modules == Closure(Direct(project.entry))
Program == {project.entry} \cup Modules
ItemsOf(path) == {path} \X ToSet(project.files[path].items)
Everything == UNION {ItemsOf(p) : p \in Program}
Uses == UNION {{x[1]} \X ToSet(Forms(x[2])) : x \in Everything}

Stands(q, path) ==
  LET imports == project.files[path].imports
      aliased == {n \in DOMAIN imports : q # "" /\ imports[n].as = q}
  IN IF aliased # {} THEN {Find(imports[n], path, project) : n \in {x \in aliased : \A m \in aliased : m <= x}}  \* the last
     ELSE Finds(path, LAMBDA i : NameOf(i.path) = q)
Qualified(n, path) == Len(n) > 1 /\ Stands(n[1], path) # {}
Called(path, name) == {x \in UNION {ItemsOf(p) : p \in {path} \ {None}} : x[2].name = name}
Meant(n, path) == IF Qualified(n, path) THEN UNION {Called(p, n[2]) : p \in Stands(n[1], path)} ELSE Called(path, n[1])

\* The item that one of the program was made of, and those that a name denotes.
Source(g)  == CHOOSE x \in ItemsOf(g.path) : x[2].name = g.as
Denoted(n) == {Source(g) : g \in {x \in ToSet(st.flat) : x.name \in {n, SubSeq(n, 1, Len(n) - 1)}}}
Fits(k, item) ==
  CASE k \in {"call", "ref"} -> item.head = "fn"
    [] k = "sym" -> item.value \/ item.head \in {"const", "enum", "union"}
    [] k \in {"make", "arr.get", "arr.set"} -> item.value
    [] k \in {"apply", "get of", "put of"} -> item.generic
    [] OTHER -> item.head = "struct"
Same(n, meant) == meant # {} => Denoted(n) = meant
FormMeansTheSame(x, was, path) ==
  LET meant == {m \in Meant(was.n, path) : Fits(was.k, m[2])}
  IN /\ Same(x.n, meant)
     /\ meant # {} => \A n \in DOMAIN x.as : Same(x.as[n], Meant(was.as[n], path))

\* A program that is resolved has every item of its files, once, under a name of
\* its own (resolve_import, emit_module).
EachItemOnce ==
  outcome = "resolved" =>
    /\ IsInjective([n \in DOMAIN st.flat |-> st.flat[n].name])
    /\ {Source(g) : g \in ToSet(st.flat)} = Everything

\* And every name in it is that of the item meant where it was written
\* (resolve_import, rename): through an alias, in the importing file's own
\* directory, or in a file that was reached before.
NamesMeanTheSame ==
  /\ EachItemOnce
  /\ outcome = "resolved" =>
       \A g \in ToSet(st.flat) : \A n \in DOMAIN g.forms :
         FormMeansTheSame(g.forms[n], Forms(Source(g)[2])[n], g.path)

\* What a use may take: items of other files that are public, and of their
\* fields those that are; every field of what it makes, in order.
Shows(item, f, put) == item.head = "struct" /\ \E p \in ToSet(item.parts) : p.n = f /\ p.level \in {"pub"} \cup (IF put THEN {} ELSE {"read"})
AllShown(item) == \A p \in ToSet(item.parts) : p.level = "pub"
Makes(x) == x.k \in {"new", "make"}
GivenTo(x, item) == item.pub /\ (x.f # "" => Shows(item, x.f, Puts(x))) /\ (Makes(x) => AllShown(item))
PassedTo(item)   == item.pub /\ (item.value \/ AllShown(item))
UseRight(x, path) ==
  /\ \A n \in {x.n} \cup ToSet(x.as) : Qualified(n, path) => Meant(n, path) # {}
  /\ \A m \in Meant(x.n, path) : /\ m[1] = path \/ GivenTo(x, m[2])
                                 /\ Makes(x) => x.fs = Ordered(m[2])
  /\ \A n \in ToSet(x.as) : \A m \in Meant(n, path) : m[1] = path \/ PassedTo(m[2])
ShownTypes(item) ==
  CASE item.head = "const" -> {}
    [] item.head = "struct" -> UNION {Mentions(p.t) : p \in {x \in ToSet(item.parts) : x.level # "private"}}
    [] OTHER -> UNION {Mentions(p.t) : p \in ToSet(item.parts)}
KeepsItsTypes(path) ==
  \A x, t \in ToSet(project.files[path].items) :
    x.pub /\ <<t.name>> \in ShownTypes(x) => t.pub \/ t.head \notin {"struct", "union", "enum"}
ImportsRight ==
  /\ \A p \in Program : \A i \in ToSet(Imports(project.files[p])) : IsImportPath(i.path) /\ Find(i, p, project) # None
  /\ \A p, q \in Modules : NameOf(p) = NameOf(q) => p = q
  /\ \A p \in Modules : p \notin Closure(Direct(p))
TypesShown == \A p \in Modules : KeepsItsTypes(p)
UsesRight  == \A u \in Uses : UseRight(u[2], u[1])

\* A name that only an item of another file can have, and what may be so named.
Clear(n, path) ==
  /\ Qualified(n, path) /\ \A i \in ToSet(project.files[path].items) : i.name # n[1]
  /\ path = project.entry => \A p \in Modules : NameOf(p) # project.files[path].name
UsesPublic(x, path) ==
  /\ Clear(x.n, path) =>
       \A m \in Meant(x.n, path) : Fits(x.k, m[2]) => m[2].pub /\ (x.f # "" => Shows(m[2], x.f, Puts(x)))
  /\ \A t \in ToSet(x.as) : Clear(t, path) => \A m \in Meant(t, path) : m[2].pub
Unimported(n, path) == Len(n) > 1 /\ ~Qualified(n, path) /\ \E p \in Modules \ {path} : NameOf(p) = n[1]
Undeclared == \E u \in Uses : \E n \in {u[2].n} \cup ToSet(u[2].as) : Unimported(n, u[1])

\* A program that is resolved uses of its other files only what is public, and
\* writes only fields that others may write (check_item, check_decl, check_field).
PrivateKept == outcome = "resolved" => \A u \in Uses : UsesPublic(u[2], u[1])

\* A program is refused while its files are read for a fault of its imports, and
\* resolved with none (resolve_import, check_exposure).
ReadForCause ==
  /\ outcome = "resolved" => ImportsRight /\ TypesShown
  /\ outcome \in {"not found", "two of one name", "circular"} => ~ImportsRight

\* What a module keeps to itself, no file that imports it uses, and no file is
\* read that cannot be (check_item, check_field, check_makes, check_exposure):
\* a program is refused for a fault it has and for nothing else.
RefusedForCause ==
  /\ ReadForCause
  /\ PrivateKept
  /\ outcome = "resolved" => UsesRight
  /\ outcome = "private" => ~(TypesShown /\ UsesRight) \/ Undeclared

\* "Every module a file names, it imports" (AIPL_SPEC.md:1678).
NamesWhatItImports == outcome = "resolved" => ~Undeclared
=============================================================================
