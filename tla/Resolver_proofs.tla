--------------------------- MODULE Resolver_proofs ---------------------------
(***************************************************************************)
(* Of any project, whatever its files import: that each item of a program  *)
(* that is resolved is there once, that imports are refused for cause, and *)
(* that what a module keeps to itself is used by no other.                 *)
(* The invariant, ReadInv, is of the files being resolved (Chain, each     *)
(* beyond those below it; Handled, what each has imported so far), of those*)
(* that are in (Done: closed under imports, so that none is beyond itself; *)
(* Marks: what they show), of the names they have taken (NamesKept) and of *)
(* the program so far (FlatSoFar).                                         *)
(***************************************************************************)
EXTENDS Resolver, WellFoundedInduction, SequenceTheorems, TLAPS

-----------------------------------------------------------------------------
Below == {ss \in Nat \X Nat : ss[1] < ss[2]}

\* Every set of natural numbers has a least one.
LEMMA Least ==
  ASSUME NEW T, T \subseteq Nat, T # {}
  PROVE  \E m \in T : \A k \in T : m <= k
<1>1. IsWellFoundedOn(Below, Nat)
  BY NatLessThanWellFounded DEF OpToRel, Below
<1>2. PICK m \in T : \A k \in T : ~ (<<k, m>> \in Below)
  BY <1>1, WFMin
<1>3. ASSUME NEW k \in Nat, NEW i \in Nat, k < i PROVE <<k, i>> \in Below
  <2> DEFINE ss == <<k, i>>
  <2>1. ss \in Nat \X Nat /\ ss[1] = k /\ ss[2] = i
    OBVIOUS
  <2> HIDE DEF ss
  <2>2. ss \in Below
    BY <1>3, <2>1 DEF Below
  <2> QED BY <2>2 DEF ss
<1>4. \A k \in T : m <= k
  <2> SUFFICES ASSUME NEW k \in T, k < m PROVE FALSE
    OBVIOUS
  <2> QED BY <1>2, <1>3
<1> QED BY <1>4

-----------------------------------------------------------------------------
Files == DOMAIN project.files
Imp(p) == Imports(project.files[p])
Target(p, n) == Find(Imp(p)[n], p, project)
Beyond(p) == Closure(Direct(p))

\* What an import finds is a file.
LEMMA FindsFile ==
  ASSUME IsProject(project), NEW i, NEW p, Find(i, p, project) # None
  PROVE  Find(i, p, project) \in Files
<1> DEFINE c == Candidates(i, p, project)
           found == {n \in DOMAIN c : c[n] \in Files}
<1>1. DOMAIN c \subseteq Nat
  BY DEF Candidates, Each, Directories, IsProject, IsList
<1>2. found # {}
  BY DEF Find, Files
<1>3. PICK n \in found : \A m \in found : n <= m
  BY ONLY <1>1, <1>2, Least
<1>4. (CHOOSE x \in found : \A m \in found : x <= m) \in found
  BY ONLY <1>3
<1>5. Find(i, p, project) = c[CHOOSE x \in found : \A m \in found : x <= m]
  BY <1>2 DEF Find, Files
<1> QED BY <1>4, <1>5

\* A sequence and one thing more, or nothing.
LEMMA WithOneMore ==
  ASSUME NEW S, NEW a \in Seq(S), NEW x, NEW b, b = <<>> \/ b = <<x>>
  PROVE  Len(a \o b) \in Nat /\ DOMAIN (a \o b) = 1..Len(a \o b)
<1> DEFINE all == S \cup {x}
<1>1. a \in Seq(all)
  <2>1. S \subseteq all
    OBVIOUS
  <2> QED BY <2>1, SeqMonotonic
<1>2. b \in Seq(all)
  <2>1. x \in all
    OBVIOUS
  <2> HIDE DEF all
  <2>2. <<x>> \in Seq(all)
    BY <2>1
  <2> QED BY <2>2, EmptySeq
<1>3. a \o b \in Seq(all)
  BY <1>1, <1>2, ConcatProperties
<1> QED BY <1>3, LenProperties

\* A file's imports are a sequence, and what they find is Direct.
LEMMA ImportsOf ==
  ASSUME IsProject(project), NEW p \in Files
  PROVE  /\ Len(Imp(p)) \in Nat /\ DOMAIN Imp(p) = 1..Len(Imp(p))
         /\ Direct(p) = {Target(p, n) : n \in 1..Len(Imp(p))} \ {None}
         /\ Direct(p) \subseteq Files
         /\ ToSet(Imp(p)) = {Imp(p)[n] : n \in 1..Len(Imp(p))}
<1> DEFINE f == project.files[p]
<1>1. f.imports \in Seq(ToSet(f.imports))
  BY DEF IsProject, IsList, IsFile, Files
<1>2. Len(Imp(p)) \in Nat /\ DOMAIN Imp(p) = 1..Len(Imp(p))
  <2>1. \E b : Imp(p) = f.imports \o b /\ (b = <<>> \/ b = <<Import(<<"alloc">>, "")>>)
    BY DEF Imp, Imports
  <2> QED BY <1>1, <2>1, WithOneMore
<1>3. ToSet(Imp(p)) = {Imp(p)[n] : n \in 1..Len(Imp(p))}
  BY <1>2 DEF ToSet
<1>4. Direct(p) = {Target(p, n) : n \in 1..Len(Imp(p))} \ {None}
  BY <1>3 DEF Direct, Target, Imp
<1>5. Direct(p) \subseteq Files
  BY <1>4, FindsFile DEF Target
<1> QED BY <1>2, <1>3, <1>4, <1>5

\* Closure(from) is the least set of files that has from and is closed.
LEMMA Reached ==
  ASSUME IsProject(project), NEW from \in SUBSET Files
  PROVE  /\ from \subseteq Closure(from) /\ Closure(from) \subseteq Files /\ Closed(Closure(from))
         /\ \A paths \in SUBSET Files : from \subseteq paths /\ Closed(paths) => Closure(from) \subseteq paths
<1>1. from \subseteq Closure(from) /\ Closure(from) \subseteq Files
  BY DEF Closure, Files
<1>2. \A paths \in SUBSET Files : from \subseteq paths /\ Closed(paths) => Closure(from) \subseteq paths
  BY DEF Closure, Files
<1>3. ASSUME NEW p \in Closure(from), NEW q \in Direct(p) PROVE q \in Closure(from)
  <2>1. q \in Files
    BY <1>1, ImportsOf
  <2>2. ASSUME NEW paths \in SUBSET Files, from \subseteq paths, Closed(paths) PROVE q \in paths
    BY <1>2, <2>2 DEF Closed
  <2> QED BY <2>1, <2>2 DEF Closure, Files
<1> QED BY <1>1, <1>2, <1>3 DEF Closed

\* What a file imports is beyond it, and so is what that imports.
LEMMA Further ==
  ASSUME IsProject(project), NEW p \in Files
  PROVE  /\ Beyond(p) \subseteq Files
         /\ Direct(p) \subseteq Beyond(p)
         /\ \A q \in Beyond(p) : Direct(q) \subseteq Beyond(p)
         /\ \A paths \in SUBSET Files : Direct(p) \subseteq paths /\ Closed(paths) => Beyond(p) \subseteq paths
<1>1. Direct(p) \in SUBSET Files
  BY ImportsOf
<1> QED BY <1>1, Reached DEF Beyond, Closed

-----------------------------------------------------------------------------
\* The invariant, while files are being read.
Good(p, n) == IsImportPath(Imp(p)[n].path) /\ Target(p, n) # None

Typed ==
  /\ IsProject(project)
  /\ st = [names |-> st.names, included |-> st.included, busy |-> st.busy, templates |-> st.templates,
           public |-> st.public, fields |-> st.fields, order |-> st.order, values |-> st.values, flat |-> st.flat]
  /\ st.included \subseteq Files /\ st.busy \subseteq Files
  /\ stack \in Seq([path : Files, next : Nat \ {0}]) /\ Len(stack) > 0

\* The files being resolved: the entry, then those busy, each found by the import
\* before the one that its importer is at.
Chain ==
  /\ stack[1].path = project.entry
  /\ st.busy = {stack[i].path : i \in 2..Len(stack)}
  /\ \A i, j \in 2..Len(stack) : stack[i].path = stack[j].path => i = j
  /\ \A i, j \in 1..Len(stack) : i < j => stack[j].path \in Beyond(stack[i].path)

\* What a file has imported so far is there, and is in; the last of it may be
\* the file that is being resolved next.
Handled(i) ==
  LET p == stack[i].path IN
  /\ stack[i].next <= Len(Imp(p)) + 1
  /\ \A n \in 1..(stack[i].next - 1) :
       /\ Good(p, n)
       /\ \/ Target(p, n) \in st.included
          \/ i < Len(stack) /\ Target(p, n) = stack[i + 1].path

\* A file that uses of others only what is public.
Kept(p) == \A i \in ToSet(project.files[p].items) : \A x \in ToSet(Forms(i)) : UsesPublic(x, p)

\* What is in has all it imports in, so that it is not among what it imports.
Done(p) ==
  /\ p \in Modules \ st.busy
  /\ \A n \in 1..Len(Imp(p)) : Good(p, n)
  /\ Direct(p) \subseteq st.included
  /\ p \notin Beyond(p)
  /\ ~Exposes(project.files[p].items)
  /\ Kept(p)

\* A name is that of the one module that is in, or being resolved.
Known == st.included \cup st.busy
NamesKept ==
  /\ \A p \in Known : NameOf(p) \in DOMAIN st.names /\ st.names[NameOf(p)] = p
  /\ \A k \in DOMAIN st.names : st.names[k] \in Known /\ NameOf(st.names[k]) = k

\* The flat program has every item of what is in, once, under its module's name.
ItemNames(p) == {i.name : i \in ToSet(project.files[p].items)}
FlatSoFar ==
  /\ st.flat \in Seq(ToSet(st.flat))
  /\ \A n \in DOMAIN st.flat :
       LET g == st.flat[n] IN
       g.path \in st.included /\ g.as \in ItemNames(g.path) /\ g.name = <<NameOf(g.path)>> \o <<g.as>>
  /\ \A p \in st.included : \A a \in ItemNames(p) : \E n \in DOMAIN st.flat : st.flat[n].path = p /\ st.flat[n].as = a
  /\ \A n, m \in DOMAIN st.flat : st.flat[n].path = st.flat[m].path /\ st.flat[n].as = st.flat[m].as => n = m

\* What is known of what is in: what it shows, and its templates.
Marks ==
  /\ \A n \in st.public : \E p \in st.included : \E i \in ToSet(project.files[p].items) :
       i.pub /\ n = <<NameOf(p)>> \o <<i.name>>
  /\ \A n \in DOMAIN st.fields : \E p \in st.included : \E i \in ToSet(project.files[p].items) :
       i.head = "struct" /\ n = <<NameOf(p)>> \o <<i.name>> /\ st.fields[n] = Levels(i)
  /\ \A p \in st.included : \A i \in ToSet(project.files[p].items) : i.generic => <<NameOf(p)>> \o <<i.name>> \in st.templates

Reading ==
  /\ Typed
  /\ Chain
  /\ \A i \in 1..Len(stack) : Handled(i)
  /\ \A p \in st.included : Done(p)
  /\ NamesKept
  /\ FlatSoFar
  /\ Marks

ReadInv ==
  /\ outcome # "resolved" => Reading
  /\ EachItemOnce
  /\ ReadForCause
  /\ PrivateKept

\* The files stay what they are.
LEMMA SameFiles ==
  ASSUME project' = project
  PROVE  /\ Files' = Files /\ Modules' = Modules /\ Program' = Program
         /\ IsProject(project)' <=> IsProject(project)
         /\ \A p : Imp(p)' = Imp(p) /\ Direct(p)' = Direct(p) /\ Beyond(p)' = Beyond(p) /\ ItemNames(p)' = ItemNames(p)
         /\ \A p, n : Target(p, n)' = Target(p, n)
         /\ \A p, n : Good(p, n)' <=> Good(p, n)
         /\ ImportsRight' <=> ImportsRight
         /\ TypesShown' <=> TypesShown
         /\ \A p : Kept(p)' <=> Kept(p)
         /\ PrivateKept' <=> (outcome' = "resolved" => \A u \in Uses : UsesPublic(u[2], u[1]))
<1>1. Files' = Files /\ Modules' = Modules /\ Program' = Program
  BY DEF Files, Modules, Program, Closure, Closed, Direct
<1>2. \A p : Imp(p)' = Imp(p) /\ Direct(p)' = Direct(p) /\ ItemNames(p)' = ItemNames(p)
  BY DEF Imp, Direct, ItemNames
<1>3. \A p : Beyond(p)' = Beyond(p)
  BY DEF Beyond, Closure, Closed, Direct
<1>4. \A p, n : Target(p, n)' = Target(p, n) /\ (Good(p, n)' <=> Good(p, n))
  BY DEF Target, Good, Imp
<1>5. ImportsRight' <=> ImportsRight
  BY DEF ImportsRight, Modules, Program, Closure, Closed, Direct
<1>6. TypesShown' <=> TypesShown
  BY DEF TypesShown, KeepsItsTypes, Modules, Closure, Closed, Direct
<1>7. IsProject(project)' <=> IsProject(project)
  BY DEF IsProject, IsList, IsFile
<1>8. \A x, p : UsesPublic(x, p)' <=> UsesPublic(x, p)
  <2>1. \A n, p : Clear(n, p)' <=> Clear(n, p)
    BY <1>1 DEF Clear, Qualified, Stands, Finds
  <2>2. \A n, p : Meant(n, p)' = Meant(n, p)
    BY DEF Meant, Called, ItemsOf, Qualified, Stands, Finds
  <2> QED BY <2>1, <2>2 DEF UsesPublic
<1>9. \A p : Kept(p)' <=> Kept(p)
  BY <1>8 DEF Kept
<1>10. Uses' = Uses
  BY <1>1 DEF Uses, Everything, ItemsOf
<1>11. PrivateKept' <=> (outcome' = "resolved" => \A u \in Uses : UsesPublic(u[2], u[1]))
  BY <1>8, <1>10 DEF PrivateKept
<1> QED BY <1>1, <1>2, <1>3, <1>4, <1>5, <1>6, <1>7, <1>9, <1>11

\* The file that is read, and the import it is at.
LEMMA AtTop ==
  ASSUME Reading
  PROVE  /\ Len(stack) \in Nat \ {0} /\ DOMAIN stack = 1..Len(stack)
         /\ \A i \in 1..Len(stack) : stack[i].path \in Files /\ stack[i].next \in Nat \ {0}
         /\ Top = stack[Len(stack)] /\ Top.path \in Files /\ Top.next \in Nat \ {0}
         /\ Top.path \in Program
         /\ Imports(TopFile) = Imp(Top.path) /\ TopFile = project.files[Top.path]
         /\ Turn = Imp(Top.path)[Top.next] /\ Find(Turn, Top.path, project) = Target(Top.path, Top.next)
         /\ Going => Top.next \in 1..Len(Imp(Top.path))
<1> DEFINE n == Len(stack)
<1>1. stack \in Seq([path : Files, next : Nat \ {0}]) /\ n > 0
  BY DEF Reading, Typed
<1>2. n \in Nat \ {0} /\ DOMAIN stack = 1..n /\ stack[n] \in [path : Files, next : Nat \ {0}]
  <2>1. n \in Nat /\ DOMAIN stack = 1..n
    BY <1>1, LenProperties
  <2>2. n \in 1..Len(stack)
    BY <1>1, <2>1
  <2>3. stack[n] \in [path : Files, next : Nat \ {0}]
    BY ONLY <1>1, <2>2, ElementOfSeq
  <2> QED BY <1>1, <2>1, <2>3
<1>3. Top = stack[n] /\ Top.path \in Files /\ Top.next \in Nat \ {0}
  BY <1>2 DEF Top, Last
<1>4. Top.path \in Program
  <2>1. CASE n = 1
    BY <1>3, <2>1 DEF Reading, Chain, Program
  <2>2. CASE n > 1
    <3>1. stack[n].path \in Beyond(stack[1].path) /\ stack[1].path = project.entry
      BY <1>2, <2>2 DEF Reading, Chain
    <3> QED BY <1>3, <3>1 DEF Program, Modules, Beyond
  <2> QED BY <1>2, <2>1, <2>2
<1>5. /\ Imports(TopFile) = Imp(Top.path) /\ TopFile = project.files[Top.path]
      /\ Turn = Imp(Top.path)[Top.next]
  BY DEF TopFile, Imp, Turn
<1>6. Find(Turn, Top.path, project) = Target(Top.path, Top.next)
  BY <1>5 DEF Target
<1>7. Going => Top.next \in 1..Len(Imp(Top.path))
  <2>1. Len(Imp(Top.path)) \in Nat
    BY <1>2, <1>3, ImportsOf DEF Reading, Typed
  <2>2. ASSUME Going PROVE Top.next <= Len(Imp(Top.path))
    BY <1>5, <2>2 DEF Going
  <2> HIDE DEF n
  <2> QED BY <1>3, <2>1, <2>2
<1>8. \A i \in 1..Len(stack) : stack[i].path \in Files /\ stack[i].next \in Nat \ {0}
  <2>1. \A i \in 1..Len(stack) : stack[i] \in [path : Files, next : Nat \ {0}]
    BY ONLY <1>1, ElementOfSeq
  <2> QED BY ONLY <2>1
<1> QED BY <1>2, <1>3, <1>4, <1>5, <1>6, <1>7, <1>8

\* What is found by the newest file is a module of the program.
LEMMA FoundIsModule ==
  ASSUME Reading, Going, Target(Top.path, Top.next) # None
  PROVE  /\ Target(Top.path, Top.next) \in Direct(Top.path) \cap Modules
         /\ Target(Top.path, Top.next) \in Files
<1> DEFINE path == Target(Top.path, Top.next)
<1>1. IsProject(project) /\ Top.path \in Files /\ Top.path \in Program /\ Top.next \in 1..Len(Imp(Top.path))
  BY AtTop DEF Reading, Typed
<1>2. path \in Direct(Top.path) /\ path \in Files
  BY <1>1, ImportsOf
<1>3. project.entry \in Files /\ Modules = Beyond(project.entry)
  BY <1>1 DEF IsProject, IsList, Files, Modules, Beyond
<1>4. path \in Modules
  BY <1>1, <1>2, <1>3, Further DEF Program
<1> QED BY <1>2, <1>4

\* So is all that is in, or being resolved.
LEMMA KnownAreModules ==
  ASSUME Reading
  PROVE  Known \subseteq Modules
<1>1. st.included \subseteq Modules
  BY DEF Reading, Done
<1>2. ASSUME NEW i \in 2..Len(stack) PROVE stack[i].path \in Modules
  <2>1. 1 \in 1..Len(stack) /\ i \in 1..Len(stack) /\ 1 < i
    BY AtTop
  <2>2. stack[i].path \in Beyond(stack[1].path) /\ stack[1].path = project.entry
    BY <2>1 DEF Reading, Chain
  <2> QED BY <2>2 DEF Modules, Beyond
<1>3. st.busy \subseteq Modules
  BY <1>2 DEF Reading, Chain
<1> QED BY <1>1, <1>3 DEF Known

\* The newest file goes on to its next import.
LEMMA OnwardMoves ==
  ASSUME Reading
  PROVE  /\ Onward \in Seq([path : Files, next : Nat \ {0}]) /\ Len(Onward) = Len(stack)
         /\ \A i \in 1..Len(stack) : Onward[i].path = stack[i].path
         /\ \A i \in 1..Len(stack) : i # Len(stack) => Onward[i] = stack[i]
         /\ Onward[Len(stack)].next = Top.next + 1
<1> DEFINE n == Len(stack)
           R == [path : Files, next : Nat \ {0}]
           e == [stack[n] EXCEPT !.next = @ + 1]
<1>1. n \in Nat \ {0} /\ n \in 1..n /\ stack[n] \in R /\ stack[n] = Top /\ stack \in Seq(R) /\ DOMAIN stack = 1..n
  <2>1. \A i \in 1..n : stack[i] \in R
    BY ElementOfSeq DEF Reading, Typed
  <2> QED BY <2>1, AtTop DEF Reading, Typed
<1>2. e \in R /\ e.path = Top.path /\ e.next = Top.next + 1
  BY <1>1
<1>3. Onward = [stack EXCEPT ![n] = e]
  BY <1>1 DEF Onward
<1> HIDE DEF R, e, n
<1>4. /\ Onward \in Seq(R) /\ Len(Onward) = Len(stack)
      /\ \A i \in 1..n : Onward[i] = IF i = n THEN e ELSE stack[i]
  BY <1>1, <1>2, <1>3, ExceptSeq DEF n
<1> QED BY <1>1, <1>2, <1>4 DEF R, n

\* A name goes on meaning its module, and a new one means the module found.
LEMMA NamePut ==
  ASSUME NamesKept, NEW path, ~Taken(st, path), path # None,
         st'.names = Put(st.names, NameOf(path), path),
         st'.included \cup st'.busy = st.included \cup st.busy \cup {path}
  PROVE  NamesKept'
<1>1. /\ DOMAIN st'.names = {NameOf(path)} \cup DOMAIN st.names
      /\ st'.names[NameOf(path)] = path
      /\ \A k \in DOMAIN st.names : k # NameOf(path) => st'.names[k] = st.names[k]
  BY DEF Put
<1>2. NameOf(path) \in DOMAIN st.names => st.names[NameOf(path)] = path
  BY DEF Taken
<1> QED BY <1>1, <1>2 DEF NamesKept, Known, NameOf

-----------------------------------------------------------------------------
\* A program is refused while it is read for what is wrong with it.
LEMMA NotFoundStep ==
  ASSUME Reading, NotFound
  PROVE  ~ImportsRight
<1>1. /\ Top.path \in Files /\ Top.path \in Program /\ Top.next \in 1..Len(Imp(Top.path))
      /\ Turn = Imp(Top.path)[Top.next] /\ Find(Turn, Top.path, project) = Target(Top.path, Top.next)
  BY AtTop DEF NotFound
<1>2. Turn \in ToSet(Imp(Top.path))
  BY <1>1, ImportsOf DEF Reading, Typed
<1>3. ~IsImportPath(Turn.path) \/ Find(Turn, Top.path, project) = None
  BY DEF NotFound
<1> QED BY <1>1, <1>2, <1>3 DEF ImportsRight, Imp

LEMMA TwoOfOneNameStep ==
  ASSUME Reading, TwoOfOneName
  PROVE  ~ImportsRight
<1> DEFINE path == Target(Top.path, Top.next)
<1>1. Going /\ path # None /\ NameOf(path) \in DOMAIN st.names /\ st.names[NameOf(path)] # path
  BY AtTop DEF TwoOfOneName, Taken
<1>2. path \in Modules
  BY <1>1, FoundIsModule
<1>3. st.names[NameOf(path)] \in Known /\ NameOf(st.names[NameOf(path)]) = NameOf(path)
  BY <1>1 DEF Reading, NamesKept
<1>4. Known \subseteq Modules
  BY KnownAreModules
<1> QED BY <1>1, <1>2, <1>3, <1>4 DEF ImportsRight

LEMMA CircularStep ==
  ASSUME Reading, Circular
  PROVE  ~ImportsRight
<1> DEFINE path == Target(Top.path, Top.next)
           n == Len(stack)
<1>1. Going /\ path # None /\ path \in st.busy /\ n \in Nat \ {0} /\ Top = stack[n]
  BY AtTop DEF Circular, Reaches
<1>2. path \in Direct(Top.path) /\ path \in Modules /\ path \in Files /\ IsProject(project)
  BY <1>1, FoundIsModule DEF Reading, Typed
<1>3. PICK j \in 2..n : path = stack[j].path
  BY <1>1 DEF Reading, Chain
<1>4. path \in Beyond(path)
  <2>1. CASE j = n
    BY <1>1, <1>2, <1>3, <2>1, Further
  <2>2. CASE j # n
    <3>1. j < n /\ j \in 1..n /\ n \in 1..n
      BY <1>1, <2>2
    <3>2. stack[n].path \in Beyond(path)
      BY <1>3, <3>1 DEF Reading, Chain
    <3> QED BY <1>1, <1>2, <3>2, Further
  <2> QED BY <2>1, <2>2
<1> QED BY <1>2, <1>4 DEF ImportsRight, Beyond

-----------------------------------------------------------------------------
\* What a step leaves of the chain and of what is imported.
LEMMA SamePaths ==
  ASSUME Chain, project' = project, st'.busy = st.busy, Len(stack) \in Nat \ {0}, Len(stack') = Len(stack),
         \A i \in 1..Len(stack) : stack'[i].path = stack[i].path
  PROVE  Chain'
<1> DEFINE n == Len(stack)
<1>1. stack'[1].path = project'.entry
  BY DEF Chain
<1>2. st'.busy = {stack'[i].path : i \in 2..n}
  <2>1. \A i \in 2..n : stack'[i].path = stack[i].path
    OBVIOUS
  <2> QED BY <2>1 DEF Chain
<1>3. ASSUME NEW i \in 2..n, NEW j \in 2..n, stack'[i].path = stack'[j].path PROVE i = j
  BY <1>3 DEF Chain
<1>4. ASSUME NEW i \in 1..n, NEW j \in 1..n, i < j PROVE (stack[j].path \in Beyond(stack[i].path))'
  <2>1. stack[j].path \in Beyond(stack[i].path)
    BY <1>4 DEF Chain
  <2> QED BY <2>1, SameFiles
<1> QED BY <1>1, <1>2, <1>3, <1>4 DEF Chain

\* ... and of the program so far.
LEMMA SameFlat ==
  ASSUME FlatSoFar, project' = project, st'.flat = st.flat, st'.included = st.included
  PROVE  FlatSoFar'
BY SameFiles DEF FlatSoFar

LEMMA SameMarks ==
  ASSUME Marks, project' = project, st'.included = st.included, st'.public = st.public, st'.fields = st.fields,
         st'.templates = st.templates
  PROVE  Marks'
<1>1. ASSUME NEW n \in st'.public
      PROVE  \E p \in st'.included : \E i \in ToSet(project'.files[p].items) : i.pub /\ n = <<NameOf(p)>> \o <<i.name>>
  <2>1. n \in st.public
    OBVIOUS
  <2>2. \E p \in st.included : \E i \in ToSet(project.files[p].items) : i.pub /\ n = <<NameOf(p)>> \o <<i.name>>
    BY ONLY <2>1, Marks, Zenon DEF Marks
  <2> QED BY <2>2
<1>2. \A n \in DOMAIN st'.fields : \E p \in st'.included : \E i \in ToSet(project'.files[p].items) :
        i.head = "struct" /\ n = <<NameOf(p)>> \o <<i.name>> /\ st'.fields[n] = Levels(i)
  BY DEF Marks
<1>3. \A p \in st'.included : \A i \in ToSet(project'.files[p].items) :
        i.generic => <<NameOf(p)>> \o <<i.name>> \in st'.templates
  BY DEF Marks
<1> QED BY <1>1, <1>2, <1>3 DEF Marks

\* A place below the top of a stack that has grown.
LEMMA Positions ==
  ASSUME NEW n \in Nat \ {0}, NEW i \in 1..(n + 1), i # n + 1
  PROVE  i \in 1..n /\ (i # n => i < n /\ i + 1 \in 1..n)
OBVIOUS

\* The chain is longer by a file that the newest of them imports.
LEMMA ChainGrows ==
  ASSUME Chain, IsProject(project), project' = project,
         NEW n \in Nat \ {0}, n = Len(stack), Len(stack') = n + 1, \A i \in 1..n : stack[i].path \in Files,
         NEW path \in Files, path \in Direct(stack[n].path), path \notin st.busy, st'.busy = st.busy \cup {path},
         \A i \in 1..n : stack'[i].path = stack[i].path, stack'[n + 1].path = path
  PROVE  Chain'
<1>1. stack'[1].path = project'.entry
  BY DEF Chain
<1>2. st'.busy = {stack'[i].path : i \in 2..(n + 1)}
  <2>1. st.busy = {stack'[i].path : i \in 2..n}
    <3>1. \A i \in 2..n : stack'[i].path = stack[i].path
      OBVIOUS
    <3> QED BY <3>1 DEF Chain
  <2>2. 2..(n + 1) = (2..n) \cup {n + 1}
    OBVIOUS
  <2> QED BY <2>1, <2>2
<1>3. ASSUME NEW i \in 2..(n + 1), NEW j \in 2..(n + 1), i < j PROVE stack'[i].path # stack'[j].path
  <2>1. i \in 2..n /\ i \in 1..n
    BY <1>3
  <2>2. stack'[i].path = stack[i].path /\ stack[i].path \in st.busy
    BY <2>1 DEF Chain
  <2>3. CASE j = n + 1
    BY <2>2, <2>3
  <2>4. CASE j # n + 1
    <3>1. j \in 2..n /\ j \in 1..n
      BY <2>4
    <3>2. stack[i].path # stack[j].path
      BY <1>3, <2>1, <3>1 DEF Chain
    <3> QED BY <2>2, <3>1, <3>2
  <2> QED BY <2>3, <2>4
<1>4. ASSUME NEW i \in 1..(n + 1), NEW j \in 1..(n + 1), i < j PROVE (stack[j].path \in Beyond(stack[i].path))'
  <2>1. i \in 1..n /\ n \in 1..n /\ (i # n => i < n) /\ (j # n + 1 => j \in 1..n)
    BY <1>4
  <2>2. stack'[j].path \in Beyond(stack[i].path)
    <3>1. CASE j # n + 1
      <4>1. stack[j].path \in Beyond(stack[i].path)
        BY <1>4, <2>1, <3>1 DEF Chain
      <4> QED BY <2>1, <3>1, <4>1
    <3>2. CASE j = n + 1 /\ i = n
      <4>1. stack[n].path \in Files
        BY <2>1
      <4> QED BY <3>2, <4>1, Further
    <3>3. CASE j = n + 1 /\ i # n
      <4>1. stack[n].path \in Beyond(stack[i].path) /\ stack[i].path \in Files
        BY <2>1, <3>3 DEF Chain
      <4> QED BY <3>3, <4>1, Further
    <3> QED BY <3>1, <3>2, <3>3
  <2>3. stack'[i].path = stack[i].path
    BY <2>1
  <2> QED BY <2>2, <2>3, SameFiles
<1>5. \A i, j \in 2..(n + 1) : stack'[i].path = stack'[j].path => i = j
  <2> SUFFICES ASSUME NEW i \in 2..(n + 1), NEW j \in 2..(n + 1), i # j PROVE stack'[i].path # stack'[j].path
    OBVIOUS
  <2>1. i < j \/ j < i
    OBVIOUS
  <2> QED BY <1>3, <2>1
<1> QED BY <1>1, <1>2, <1>4, <1>5 DEF Chain

\* What a file has imported stays handled, with its next import when that is found.
LEMMA HandledMore ==
  ASSUME NEW i \in 1..Len(stack), Handled(i), project' = project, st.included \subseteq st'.included,
         Len(stack) \in Nat, stack'[i].path = stack[i].path, stack[i].next \in Nat,
         \/ /\ stack'[i].next = stack[i].next
            /\ i < Len(stack) => \/ i < Len(stack') /\ stack'[i + 1].path = stack[i + 1].path
                                \/ stack[i + 1].path \in st'.included
         \/ /\ stack'[i].next = stack[i].next + 1 /\ stack[i].next \in 1..Len(Imp(stack[i].path))
            /\ Good(stack[i].path, stack[i].next)
            /\ \/ Target(stack[i].path, stack[i].next) \in st'.included
               \/ i < Len(stack') /\ Target(stack[i].path, stack[i].next) = stack'[i + 1].path
            /\ i = Len(stack)
  PROVE  Handled(i)'
<1> DEFINE p == stack[i].path
           m == stack[i].next
<1>1. m <= Len(Imp(p)) + 1
  BY DEF Handled
<1>2. \A n \in 1..(m - 1) : Good(p, n) /\ (Target(p, n) \in st.included \/ (i < Len(stack) /\ Target(p, n) = stack[i + 1].path))
  BY DEF Handled
<1>3. stack'[i].next <= Len(Imp(p)) + 1
  BY <1>1
<1>4. ASSUME NEW n \in 1..(stack'[i].next - 1)
      PROVE  Good(p, n) /\ (Target(p, n) \in st'.included \/ (i < Len(stack') /\ Target(p, n) = stack'[i + 1].path))
  <2>1. CASE n \in 1..(m - 1)
    BY <1>2, <2>1
  <2>2. CASE n \notin 1..(m - 1)
    <3>1. n = m
      BY <2>2
    <3> QED BY <2>2, <3>1
  <2> QED BY <2>1, <2>2
<1> HIDE DEF m
<1>5. stack'[i].path = p
  OBVIOUS
<1> HIDE DEF p
<1> QED BY <1>3, <1>4, <1>5, SameFiles DEF Handled

-----------------------------------------------------------------------------
\* An import of what is in goes on to the next.
LEMMA AgainStep ==
  ASSUME Reading, Again
  PROVE  Reading'
<1> DEFINE path == Target(Top.path, Top.next)
           n == Len(stack)
<1>1. /\ Going /\ path # None /\ path \in st.included /\ ~Taken(st, path) /\ IsImportPath(Turn.path)
      /\ st' = Named(path) /\ stack' = Onward /\ UNCHANGED <<project, outcome>>
  BY AtTop DEF Again, Reaches
<1>2. /\ n \in Nat \ {0} /\ DOMAIN stack = 1..n /\ Top = stack[n] /\ Top.path \in Files
      /\ Top.next \in 1..Len(Imp(Top.path)) /\ Turn = Imp(Top.path)[Top.next]
  BY <1>1, AtTop
<1>3. /\ stack' \in Seq([path : Files, next : Nat \ {0}]) /\ Len(stack') = n
      /\ \A i \in 1..n : stack'[i].path = stack[i].path
      /\ \A i \in 1..n : i # n => stack'[i] = stack[i]
      /\ stack'[n].next = Top.next + 1
  BY <1>1, <1>2, OnwardMoves
<1>4. /\ st'.included = st.included /\ st'.busy = st.busy /\ st'.flat = st.flat
      /\ st'.public = st.public /\ st'.fields = st.fields /\ st'.templates = st.templates
      /\ st'.names = Put(st.names, NameOf(path), path)
      /\ st' = [names |-> st'.names, included |-> st'.included, busy |-> st'.busy, templates |-> st'.templates,
                public |-> st'.public, fields |-> st'.fields, order |-> st'.order, values |-> st'.values, flat |-> st'.flat]
  BY <1>1 DEF Named, Reading, Typed
<1>5. Typed'
  BY <1>1, <1>2, <1>3, <1>4, SameFiles DEF Reading, Typed
<1>6. Chain'
  BY <1>1, <1>2, <1>3, <1>4, SamePaths DEF Reading
<1>7. ASSUME NEW i \in 1..Len(stack') PROVE Handled(i)'
  <2>1. i \in 1..n /\ Handled(i)
    BY <1>3 DEF Reading
  <2>2. i # n => stack'[i].next = stack[i].next
    BY <1>3, <2>1
  <2>3. i = n => /\ stack'[i].next = stack[i].next + 1 /\ stack[i].next \in 1..Len(Imp(stack[i].path))
                 /\ Good(stack[i].path, stack[i].next) /\ Target(stack[i].path, stack[i].next) \in st.included
    BY <1>1, <1>2, <1>3 DEF Good
  <2>4. /\ stack[i].next \in Nat /\ Len(stack) \in Nat /\ i \in 1..Len(stack)
        /\ stack'[i].path = stack[i].path /\ project' = project /\ st.included \subseteq st'.included
    BY <1>1, <1>3, <1>4, <2>1, AtTop
  <2>5. CASE i = n
    BY <2>1, <2>3, <2>4, <2>5, <1>4, HandledMore
  <2>6. CASE i # n
    <3>1. i < Len(stack) => i < Len(stack') /\ stack'[i + 1].path = stack[i + 1].path
      <4>1. i < n => i + 1 \in 1..n
        BY <1>2, <2>1
      <4> QED BY <1>3, <2>1, <4>1
    <3> QED BY <2>1, <2>2, <2>4, <2>6, <3>1, HandledMore
  <2> QED BY <2>5, <2>6
<1>8. \A p \in st'.included : Done(p)'
  BY <1>1, <1>4, SameFiles DEF Reading, Done
<1>9. NamesKept'
  BY <1>1, <1>4, NamePut DEF Reading, Known
<1>10. FlatSoFar'
  BY <1>1, <1>4, SameFlat DEF Reading
<1>11. Marks'
  BY <1>1, <1>4, SameMarks DEF Reading
<1> QED BY <1>5, <1>6, <1>7, <1>8, <1>9, <1>10, <1>11 DEF Reading

\* A file that is found is resolved next.
LEMMA EnterStep ==
  ASSUME Reading, Enter
  PROVE  Reading'
<1> DEFINE path == Target(Top.path, Top.next)
           n == Len(stack)
           new == [path |-> path, next |-> 1]
           R == [path : Files, next : Nat \ {0}]
<1>1. /\ Going /\ path # None /\ path \notin st.included \cup st.busy /\ ~Taken(st, path) /\ IsImportPath(Turn.path)
      /\ st' = [Named(path) EXCEPT !.busy = @ \cup {path}] /\ stack' = Append(Onward, new)
      /\ UNCHANGED <<project, outcome>>
  BY AtTop DEF Enter, Reaches
<1>2. /\ n \in Nat \ {0} /\ DOMAIN stack = 1..n /\ Top = stack[n] /\ Top.path \in Files /\ Top.next \in Nat
      /\ Top.next \in 1..Len(Imp(Top.path)) /\ Turn = Imp(Top.path)[Top.next]
      /\ \A i \in 1..n : stack[i].path \in Files /\ stack[i].next \in Nat \ {0}
  BY <1>1, AtTop
<1>3. path \in Files /\ path \in Direct(Top.path) /\ path \in Modules /\ IsProject(project)
  BY <1>1, FoundIsModule DEF Reading, Typed
<1>4. /\ stack' \in Seq(R) /\ Len(stack') = n + 1
      /\ \A i \in 1..n : stack'[i].path = stack[i].path
      /\ \A i \in 1..n : i # n => stack'[i] = stack[i]
      /\ stack'[n].next = Top.next + 1
      /\ stack'[n + 1] = new
  <2>1. Onward \in Seq(R) /\ Len(Onward) = n /\ new \in R
    BY <1>3, OnwardMoves
  <2> HIDE DEF R, new, n
  <2>2. /\ Append(Onward, new) \in Seq(R) /\ Len(Append(Onward, new)) = n + 1
        /\ \A i \in 1..n : Append(Onward, new)[i] = Onward[i]
        /\ Append(Onward, new)[n + 1] = new
    BY <2>1, AppendProperties
  <2>3. n \in 1..n
    BY <1>2
  <2> QED BY <1>1, <2>2, <2>3, OnwardMoves DEF n
<1>5. /\ st'.included = st.included /\ st'.busy = st.busy \cup {path} /\ st'.flat = st.flat
      /\ st'.public = st.public /\ st'.fields = st.fields /\ st'.templates = st.templates
      /\ st'.names = Put(st.names, NameOf(path), path)
      /\ st' = [names |-> st'.names, included |-> st'.included, busy |-> st'.busy, templates |-> st'.templates,
                public |-> st'.public, fields |-> st'.fields, order |-> st'.order, values |-> st'.values, flat |-> st'.flat]
  BY <1>1 DEF Named, Reading, Typed
<1>6. Typed'
  <2>1. Files' = Files /\ IsProject(project)'
    BY <1>1, <1>3, SameFiles
  <2>2. stack' \in Seq([path : Files', next : Nat \ {0}]) /\ Len(stack') > 0
    <3>1. R = [path : Files', next : Nat \ {0}]
      BY <2>1
    <3> HIDE DEF R, n
    <3> QED BY <1>2, <1>4, <3>1
  <2>3. st'.included \subseteq Files' /\ st'.busy \subseteq Files'
    BY <1>3, <1>5, <2>1 DEF Reading, Typed
  <2> QED BY <1>5, <2>1, <2>2, <2>3 DEF Typed
<1> HIDE DEF path, R
<1>7. Chain'
  <2>1. stack'[n + 1].path = path
    BY <1>4
  <2> HIDE DEF new
  <2> QED BY <1>1, <1>2, <1>3, <1>4, <1>5, <2>1, ChainGrows DEF Reading
<1>8. ASSUME NEW i \in 1..(n + 1) PROVE Handled(i)'
  <2>1. CASE i = n + 1
    <3>1. stack'[i].path = path /\ stack'[i].next = 1 /\ Len(Imp(path)) \in Nat
      BY <1>3, <1>4, <2>1, ImportsOf
    <3>2. project' = project
      BY <1>1
    <3> QED BY ONLY <3>1, <3>2, SameFiles DEF Handled
  <2>2. CASE i # n + 1
    <3>1. i \in 1..n /\ (i # n => i < n /\ i + 1 \in 1..n)
      BY <1>2, <2>2, Positions
    <3>2. /\ stack[i].next \in Nat /\ Len(stack) \in Nat /\ i \in 1..Len(stack) /\ Handled(i)
          /\ stack'[i].path = stack[i].path /\ project' = project /\ st.included \subseteq st'.included
      BY <1>1, <1>2, <1>4, <1>5, <3>1 DEF Reading
    <3>3. CASE i = n
      <4>1. stack'[i].next = stack[i].next + 1 /\ stack'[i + 1].path = path /\ i < Len(stack')
        <5>1. n < n + 1 /\ new.path = path
          BY <1>2
        <5> HIDE DEF n, new
        <5> QED BY <1>2, <1>4, <3>3, <5>1
      <4>2. /\ stack[i].next \in 1..Len(Imp(stack[i].path)) /\ Good(stack[i].path, stack[i].next)
            /\ Target(stack[i].path, stack[i].next) = path
        BY <1>1, <1>2, <3>3 DEF Good, path
      <4> QED BY <3>2, <3>3, <4>1, <4>2, HandledMore
    <3>4. CASE i # n
      <4>1. stack'[i].next = stack[i].next /\ i < n
        BY <1>4, <3>1, <3>4
      <4>2. i < Len(stack') /\ stack'[i + 1].path = stack[i + 1].path
        <5>1. i < n + 1
          <6>1. n \in Nat \ {0}
            BY <1>2
          <6> HIDE DEF n, new
          <6> QED BY ONLY <6>1, <2>2, i \in 1..(n + 1)
        <5> HIDE DEF n, new
        <5> QED BY <1>4, <3>1, <3>4, <5>1
      <4> QED BY <3>2, <4>1, <4>2, HandledMore
    <3> QED BY <3>3, <3>4
  <2> QED BY <2>1, <2>2
<1>9. \A p \in st'.included : Done(p)'
  <2> SUFFICES ASSUME NEW p \in st.included PROVE Done(p)'
    BY <1>5
  <2>1. Done(p) /\ p # path
    BY <1>1 DEF Reading
  <2> QED BY <1>1, <1>5, <2>1, SameFiles DEF Done
<1>10. NamesKept'
  BY <1>1, <1>5, NamePut DEF Reading, Known
<1>11. FlatSoFar'
  BY <1>1, <1>5, SameFlat DEF Reading
<1>12. Marks'
  BY <1>1, <1>5, SameMarks DEF Reading
<1> QED BY <1>4, <1>6, <1>7, <1>8, <1>9, <1>10, <1>11, <1>12 DEF Reading

-----------------------------------------------------------------------------
\* What emit_module does, when what the file uses is allowed: its items go to the
\* end of the program, under its name, and it is in.
Added(new) ==
  /\ new = [n \in DOMAIN TopFile.items |-> new[n]]
  /\ \A n \in DOMAIN new : /\ new[n].path = Top.path /\ new[n].as = TopFile.items[n].name
                          /\ new[n].name = Prefix \o <<new[n].as>>
  /\ st'.flat = st.flat \o new

\* Marked changes no more than what modules that use this one may know of it.
LEMMA MarkedKeeps ==
  ASSUME NEW s, NEW prefix, NEW items, NEW m,
         s = [names |-> s.names, included |-> s.included, busy |-> s.busy, templates |-> s.templates,
              public |-> s.public, fields |-> s.fields, order |-> s.order, values |-> s.values, flat |-> s.flat],
         m = Marked(s, prefix, items)
  PROVE  m = [names |-> s.names, included |-> s.included, busy |-> s.busy, templates |-> s.templates,
              public |-> m.public, fields |-> m.fields, order |-> m.order, values |-> m.values, flat |-> s.flat]
<1>1. PICK a, b, c, d : m = [s EXCEPT !.public = a, !.values = b, !.fields = c, !.order = d]
  BY DEF Marked
<1> QED BY ONLY <1>1, s = [names |-> s.names, included |-> s.included, busy |-> s.busy,
    templates |-> s.templates,
              public |-> s.public, fields |-> s.fields, order |-> s.order, values |-> s.values, flat |-> s.flat]

MarksOn == Marked(st, Prefix, TopFile.items)
NamesOn == Names(TopFile, Prefix, MarksOn)
OwnTemplates == {Prefix \o <<t>> : t \in NamesOn.own}
LEMMA EmitMakes ==
  ASSUME Reading, Emit
  PROVE  /\ project' = project
         /\ \/ outcome' = "private" /\ UNCHANGED <<stack, st>>
            \/ /\ outcome' = (IF Len(stack) = 1 THEN "resolved" ELSE "")
               /\ stack' = Front(stack)
               /\ st' = [names |-> st.names, included |-> st.included \cup {Top.path}, busy |-> st.busy \ {Top.path},
                         templates |-> st.templates \cup OwnTemplates,
                         public |-> MarksOn.public, fields |-> MarksOn.fields,
                         order |-> st'.order, values |-> st'.values, flat |-> st'.flat]
               /\ \E new : Added(new)
               /\ Len(stack) # 1 => ~Exposes(TopFile.items)
               /\ EmitAllowed(TopFile, Prefix, NamesOn, MarksOn)
<1> DEFINE M == MarksOn
           N == NamesOn
           new == Each(LAMBDA i : Flattened(i, Top.path, N, M), TopFile.items)
           own == OwnTemplates
<1>1. M = [names |-> st.names, included |-> st.included, busy |-> st.busy, templates |-> st.templates,
           public |-> M.public, fields |-> M.fields, order |-> M.order, values |-> M.values, flat |-> st.flat]
  <2>1. st = [names |-> st.names, included |-> st.included, busy |-> st.busy, templates |-> st.templates,
              public |-> st.public, fields |-> st.fields, order |-> st.order, values |-> st.values, flat |-> st.flat]
    BY DEF Reading, Typed
  <2>2. M = Marked(st, Prefix, TopFile.items)
    BY DEF MarksOn
  <2> HIDE DEF M
  <2> QED BY ONLY <2>1, <2>2, MarkedKeeps
<1>2. N.prefix = Prefix
  BY DEF Names, NamesOn
<1>3. Len(stack) # 1 => Prefix # <<>>
  BY DEF Prefix
<1>6. own = {N.prefix \o <<t>> : t \in N.own}
  BY <1>2 DEF OwnTemplates
<1>4. CASE ~EmitAllowed(TopFile, Prefix, N, M)
  BY <1>4 DEF Emit, Refuse, MarksOn, NamesOn
<1>5. CASE EmitAllowed(TopFile, Prefix, N, M)
  <2>1. /\ st' = Emitted(TopFile, Top.path, N, M) /\ stack' = Front(stack)
        /\ outcome' = (IF Len(stack) = 1 THEN "resolved" ELSE "") /\ project' = project
    BY <1>5 DEF Emit, MarksOn, NamesOn
  <2>2. Len(stack) # 1 => ~Exposes(TopFile.items)
    BY <1>3, <1>5 DEF EmitAllowed
  <2>3. new = [n \in DOMAIN TopFile.items |-> new[n]]
    BY DEF Each
  <2>4. ASSUME NEW n \in DOMAIN new
        PROVE  /\ new[n].path = Top.path /\ new[n].as = TopFile.items[n].name
               /\ new[n].name = Prefix \o <<new[n].as>>
    BY <1>2 DEF Each, Flattened
  <2> HIDE DEF N, own
  <2>5. st' = [M EXCEPT !.flat = M.flat \o new, !.templates = M.templates \cup own,
                        !.busy = M.busy \ {Top.path}, !.included = M.included \cup {Top.path}]
    BY <1>6, <2>1 DEF Emitted
  <2>6. /\ st'.flat = st.flat \o new
        /\ st' = [names |-> st.names, included |-> st.included \cup {Top.path}, busy |-> st.busy \ {Top.path},
                  templates |-> st.templates \cup own, public |-> M.public, fields |-> M.fields,
                  order |-> st'.order, values |-> st'.values, flat |-> st'.flat]
    <3> DEFINE w == st.flat \o new
               y == st.busy \ {Top.path}
               z == st.included \cup {Top.path}
               x == st.templates \cup own
               b == M.public
               f == M.fields
    <3>1. M.flat = st.flat /\ M.busy = st.busy /\ M.included = st.included /\ M.templates = st.templates
      BY <1>1
    <3> HIDE DEF M, new, own
    <3>2. st' = [M EXCEPT !.flat = w, !.templates = x, !.busy = y, !.included = z]
      BY <2>5, <3>1
    <3>3. M = [names |-> st.names, included |-> st.included, busy |-> st.busy, templates |-> st.templates,
               public |-> b, fields |-> f, order |-> M.order, values |-> M.values, flat |-> st.flat]
      BY <1>1
    <3> HIDE DEF w, x, y, z, b, f
    <3>4. PICK o, v :
            M = [names |-> st.names, included |-> st.included, busy |-> st.busy, templates |-> st.templates,
                 public |-> b, fields |-> f, order |-> o, values |-> v, flat |-> st.flat]
      BY ONLY <3>3
    <3>5. st' = [names |-> st.names, included |-> z, busy |-> y, templates |-> x,
                 public |-> b, fields |-> f, order |-> o, values |-> v, flat |-> w]
      BY ONLY <3>2, <3>4
    <3> QED BY ONLY <3>5 DEF w, x, y, z, b, f
  <2>7. Added(new)
    <3> HIDE DEF new
    <3> QED BY <2>3, <2>4, <2>6 DEF Added
  <2> HIDE DEF M, new
  <2> QED BY ONLY <1>5, <2>1, <2>2, <2>6, <2>7 DEF N, M, own
<1> QED BY <1>4, <1>5

\* What the newest file imports is in, and all beyond it, once it is past its imports.
LEMMA AllIn ==
  ASSUME Reading, Top.next > Len(Imp(Top.path))
  PROVE  /\ \A n \in 1..Len(Imp(Top.path)) : Good(Top.path, n)
         /\ Direct(Top.path) \subseteq st.included /\ Beyond(Top.path) \subseteq st.included
<1> DEFINE p == Top.path
           n == Len(stack)
<1>1. /\ n \in Nat \ {0} /\ n \in 1..n /\ Top = stack[n] /\ p \in Files /\ p = stack[n].path /\ Top.next \in Nat
      /\ IsProject(project) /\ Len(Imp(p)) \in Nat /\ Handled(n)
  <2>1. n \in Nat \ {0} /\ n \in 1..n /\ Top = stack[n] /\ p \in Files /\ Top.next \in Nat
    BY AtTop
  <2>2. IsProject(project) /\ Handled(n)
    BY <2>1 DEF Reading, Typed
  <2> QED BY <2>1, <2>2, ImportsOf
<1>2. stack[n].next = Len(Imp(p)) + 1
  BY <1>1 DEF Handled
<1>3. \A m \in 1..Len(Imp(p)) : Good(p, m) /\ Target(p, m) \in st.included
  <2>1. Len(Imp(p)) + 1 - 1 = Len(Imp(p)) /\ ~(n < n)
    BY <1>1
  <2> QED BY <1>1, <1>2, <2>1 DEF Handled
<1>4. Direct(p) \subseteq st.included
  BY <1>1, <1>3, ImportsOf
<1>5. Closed(st.included) /\ st.included \in SUBSET Files
  BY DEF Closed, Reading, Typed, Done
<1> QED BY <1>1, <1>3, <1>4, <1>5, Further

\* A program and the items of one file more.
LEMMA Joined ==
  ASSUME NEW a, a \in Seq(ToSet(a)), NEW b, b \in Seq(ToSet(b))
  PROVE  /\ a \o b \in Seq(ToSet(a \o b))
         /\ \A n \in DOMAIN (a \o b) :
              \/ n \in DOMAIN a /\ (a \o b)[n] = a[n]
              \/ n - Len(a) \in DOMAIN b /\ (a \o b)[n] = b[n - Len(a)] /\ n \in Int /\ Len(a) \in Int
         /\ \A n \in DOMAIN a : n \in DOMAIN (a \o b) /\ (a \o b)[n] = a[n]
         /\ \A n \in DOMAIN b : n + Len(a) \in DOMAIN (a \o b) /\ (a \o b)[n + Len(a)] = b[n]
<1> DEFINE S == ToSet(a) \cup ToSet(b)
<1>1. a \in Seq(S) /\ b \in Seq(S)
  BY SeqMonotonic
<1>2. /\ Len(a) \in Nat /\ Len(b) \in Nat /\ DOMAIN a = 1..Len(a) /\ DOMAIN b = 1..Len(b)
  BY LenProperties
<1> HIDE DEF S
<1>3. /\ a \o b \in Seq(S) /\ Len(a \o b) = Len(a) + Len(b)
      /\ \A i \in 1..(Len(a) + Len(b)) : (a \o b)[i] = IF i <= Len(a) THEN a[i] ELSE b[i - Len(a)]
  BY <1>1, ConcatProperties
<1>4. DOMAIN (a \o b) = 1..(Len(a) + Len(b))
  BY <1>3, LenProperties
<1>5. a \o b \in Seq(ToSet(a \o b))
  <2> DEFINE c == a \o b
  <2>1. c \in [1..Len(c) -> S] /\ Len(c) \in Nat
    BY <1>3, LenProperties
  <2> HIDE DEF c
  <2>2. c \in [1..Len(c) -> ToSet(c)]
    BY <2>1 DEF ToSet
  <2> QED BY <2>1, <2>2, SeqDef DEF c
<1>6. ASSUME NEW n \in DOMAIN (a \o b)
      PROVE  \/ n \in DOMAIN a /\ (a \o b)[n] = a[n]
             \/ n - Len(a) \in DOMAIN b /\ (a \o b)[n] = b[n - Len(a)] /\ n \in Int /\ Len(a) \in Int
  BY <1>2, <1>3, <1>4
<1>7. ASSUME NEW n \in DOMAIN a PROVE n \in DOMAIN (a \o b) /\ (a \o b)[n] = a[n]
  BY <1>2, <1>3, <1>4
<1>8. ASSUME NEW n \in DOMAIN b PROVE n + Len(a) \in DOMAIN (a \o b) /\ (a \o b)[n + Len(a)] = b[n]
  <2>1. n + Len(a) \in 1..(Len(a) + Len(b)) /\ ~(n + Len(a) <= Len(a)) /\ n + Len(a) - Len(a) = n
    BY <1>2
  <2> QED BY <1>3, <1>4, <2>1
<1> QED BY <1>5, <1>6, <1>7, <1>8

\* A file's items: a sequence, no two of a name.
LEMMA ItemsAre ==
  ASSUME Reading, NEW new, Added(new)
  PROVE  /\ new \in Seq(ToSet(new))
         /\ \A n \in DOMAIN new : /\ new[n].path = Top.path /\ new[n].as \in ItemNames(Top.path)
                                 /\ new[n].name = Prefix \o <<new[n].as>>
         /\ \A a \in ItemNames(Top.path) : \E n \in DOMAIN new : new[n].as = a
         /\ \A n, m \in DOMAIN new : new[n].as = new[m].as => n = m
<1> DEFINE items == TopFile.items
<1>1. Top.path \in Files /\ TopFile = project.files[Top.path] /\ IsFile(TopFile)
  BY AtTop DEF Reading, Typed, IsProject, IsList, Files
<1>2. items \in Seq(ToSet(items)) /\ \A n, m \in DOMAIN items : items[n].name = items[m].name => n = m
  BY <1>1 DEF IsFile, IsList
<1>3. /\ DOMAIN new = DOMAIN items
      /\ \A n \in DOMAIN new : /\ new[n].path = Top.path /\ new[n].as = items[n].name
                              /\ new[n].name = Prefix \o <<new[n].as>>
  BY DEF Added
<1>4. new \in Seq(ToSet(new))
  <2>1. Len(items) \in Nat /\ DOMAIN items = 1..Len(items)
    BY <1>2, LenProperties
  <2>2. new = [n \in 1..Len(items) |-> new[n]]
    BY <2>1 DEF Added
  <2> HIDE DEF items
  <2>3. new \in [1..Len(items) -> ToSet(new)]
    BY <2>2 DEF ToSet
  <2> QED BY <2>1, <2>3, SeqDef
<1>5. ItemNames(Top.path) = {items[n].name : n \in DOMAIN items}
  BY <1>1 DEF ItemNames, ToSet
<1> HIDE DEF items
<1>6. \A n \in DOMAIN new : new[n].as \in ItemNames(Top.path)
  BY <1>3, <1>5
<1>7. ASSUME NEW a \in ItemNames(Top.path) PROVE \E n \in DOMAIN new : new[n].as = a
  <2>1. PICK n \in DOMAIN items : items[n].name = a
    BY <1>5
  <2>2. n \in DOMAIN new /\ new[n].as = a
    BY <1>3, <2>1
  <2> QED BY ONLY <2>2
<1>8. ASSUME NEW n \in DOMAIN new, NEW m \in DOMAIN new, new[n].as = new[m].as PROVE n = m
  <2>1. n \in DOMAIN items /\ m \in DOMAIN items /\ items[n].name = items[m].name
    BY <1>3, <1>8
  <2> QED BY ONLY <1>2, <2>1
<1>9. \A n \in DOMAIN new : /\ new[n].path = Top.path /\ new[n].as \in ItemNames(Top.path)
                             /\ new[n].name = Prefix \o <<new[n].as>>
  BY <1>3, <1>6
<1> QED BY ONLY <1>4, <1>7, <1>8, <1>9

\* The items of a file more: one of each, and none that is there already.
LEMMA FlatGrows ==
  ASSUME Reading, NEW new, Added(new), Top.path \notin st.included
  PROVE  /\ st'.flat \in Seq(ToSet(st'.flat))
         /\ \A n \in DOMAIN st'.flat :
              \/ /\ st'.flat[n].path \in st.included /\ st'.flat[n].as \in ItemNames(st'.flat[n].path)
                 /\ st'.flat[n].name = <<NameOf(st'.flat[n].path)>> \o <<st'.flat[n].as>>
              \/ /\ st'.flat[n].path = Top.path /\ st'.flat[n].as \in ItemNames(st'.flat[n].path)
                 /\ st'.flat[n].name = Prefix \o <<st'.flat[n].as>>
         /\ \A q \in st.included \cup {Top.path} : \A a \in ItemNames(q) :
              \E n \in DOMAIN st'.flat : st'.flat[n].path = q /\ st'.flat[n].as = a
         /\ \A n, m \in DOMAIN st'.flat :
              st'.flat[n].path = st'.flat[m].path /\ st'.flat[n].as = st'.flat[m].as => n = m
<1> DEFINE old == st.flat
           flat == st'.flat
           p == Top.path
           in == st.included
<1>1. flat = old \o new
  BY DEF Added
<1>2. /\ old \in Seq(ToSet(old)) /\ new \in Seq(ToSet(new))
      /\ \A n \in DOMAIN old :
           /\ old[n].path \in in /\ old[n].as \in ItemNames(old[n].path)
           /\ old[n].name = <<NameOf(old[n].path)>> \o <<old[n].as>>
      /\ \A q \in in : \A a \in ItemNames(q) : \E n \in DOMAIN old : old[n].path = q /\ old[n].as = a
      /\ \A n, m \in DOMAIN old : old[n].path = old[m].path /\ old[n].as = old[m].as => n = m
  BY ItemsAre DEF Reading, FlatSoFar
<1>3. /\ \A n \in DOMAIN new : new[n].path = p /\ new[n].as \in ItemNames(p) /\ new[n].name = Prefix \o <<new[n].as>>
      /\ \A a \in ItemNames(p) : \E n \in DOMAIN new : new[n].as = a
      /\ \A n, m \in DOMAIN new : new[n].as = new[m].as => n = m
  BY ItemsAre
<1> DEFINE Both(f) ==
      /\ f \in Seq(ToSet(f))
      /\ \A n \in DOMAIN f :
           \/ n \in DOMAIN old /\ f[n] = old[n]
           \/ n - Len(old) \in DOMAIN new /\ f[n] = new[n - Len(old)] /\ n \in Int /\ Len(old) \in Int
      /\ \A n \in DOMAIN old : n \in DOMAIN f /\ f[n] = old[n]
      /\ \A n \in DOMAIN new : n + Len(old) \in DOMAIN f /\ f[n + Len(old)] = new[n]
<1>4. Both(flat)
  <2>1. old \in Seq(ToSet(old)) /\ new \in Seq(ToSet(new))
    BY <1>2
  <2> HIDE DEF old, flat
  <2>2. Both(old \o new)
    BY ONLY <2>1, Joined
  <2> HIDE DEF Both
  <2> QED BY ONLY <1>1, <2>2
<1>5. p \notin in
  OBVIOUS
<1> HIDE DEF old, flat, p, in
<1>6. ASSUME NEW n \in DOMAIN flat
      PROVE  \/ /\ flat[n].path \in in /\ flat[n].as \in ItemNames(flat[n].path)
                /\ flat[n].name = <<NameOf(flat[n].path)>> \o <<flat[n].as>>
             \/ /\ flat[n].path = p /\ flat[n].as \in ItemNames(flat[n].path)
                /\ flat[n].name = Prefix \o <<flat[n].as>>
  <2>1. CASE n \in DOMAIN old /\ flat[n] = old[n]
    BY <1>2, <2>1
  <2>2. CASE n - Len(old) \in DOMAIN new /\ flat[n] = new[n - Len(old)]
    BY <1>3, <2>2
  <2> QED BY <1>4, <2>1, <2>2
<1>7. ASSUME NEW q \in in \cup {p}, NEW a \in ItemNames(q)
      PROVE  \E n \in DOMAIN flat : flat[n].path = q /\ flat[n].as = a
  <2>1. CASE q \in in
    <3>1. PICK n \in DOMAIN old : old[n].path = q /\ old[n].as = a
      BY <1>2, <2>1
    <3> QED BY <1>4, <3>1
  <2>2. CASE q = p
    <3>1. PICK n \in DOMAIN new : new[n].as = a
      BY <1>3, <2>2
    <3>2. PICK k : k \in DOMAIN flat /\ flat[k] = new[n]
      BY <1>4
    <3>3. new[n].path = p
      BY <1>3
    <3> QED BY <2>2, <3>1, <3>2, <3>3
  <2> QED BY <2>1, <2>2
<1>8. ASSUME NEW n \in DOMAIN flat, NEW m \in DOMAIN flat, flat[n].path = flat[m].path, flat[n].as = flat[m].as
      PROVE  n = m
  <2>1. CASE flat[n].path = p
    <3>1. ~(n \in DOMAIN old /\ flat[n] = old[n])
      BY <1>2, <1>5, <2>1
    <3>2. ~(m \in DOMAIN old /\ flat[m] = old[m])
      BY <1>2, <1>5, <1>8, <2>1
    <3>3. n - Len(old) \in DOMAIN new /\ flat[n] = new[n - Len(old)] /\ n \in Int /\ Len(old) \in Int
      BY <1>4, <3>1
    <3>4. m - Len(old) \in DOMAIN new /\ flat[m] = new[m - Len(old)] /\ m \in Int
      BY <1>4, <3>2
    <3>5. n - Len(old) = m - Len(old)
      BY <1>3, <1>8, <3>3, <3>4
    <3> QED BY <3>3, <3>4, <3>5
  <2>2. CASE flat[n].path # p
    <3>1. \A k \in DOMAIN flat : flat[k].path # p => k \in DOMAIN old /\ flat[k] = old[k]
      <4> SUFFICES ASSUME NEW k \in DOMAIN flat, flat[k].path # p
                   PROVE  ~(k - Len(old) \in DOMAIN new /\ flat[k] = new[k - Len(old)])
        BY <1>4
      <4> QED BY <1>3
    <3>2. n \in DOMAIN old /\ flat[n] = old[n] /\ m \in DOMAIN old /\ flat[m] = old[m]
      BY <1>8, <2>2, <3>1
    <3> QED BY <1>2, <1>8, <3>2
  <2> QED BY <2>1, <2>2
<1>9. flat \in Seq(ToSet(flat))
  BY <1>4
<1> QED BY ONLY <1>6, <1>7, <1>8, <1>9 DEF flat, p, in

\* The places of a stack without its top.
LEMMA Shorter ==
  ASSUME NEW n \in Nat \ {0, 1}
  PROVE  /\ 2..n = (2..(n - 1)) \cup {n} /\ 1 \in 1..(n - 1) /\ n \notin 2..(n - 1)
         /\ \A i \in 1..(n - 1) : i \in 1..n /\ i < n /\ (i # n - 1 => i + 1 \in 1..(n - 1) /\ i < n - 1)
         /\ \A i \in 2..(n - 1) : i \in 2..n /\ i \in 1..(n - 1)
OBVIOUS

\* The chain is shorter by its newest file.
LEMMA ChainShrinks ==
  ASSUME Chain, project' = project,
         NEW n \in Nat \ {0, 1}, n = Len(stack), Len(stack') = n - 1, \A i \in 1..(n - 1) : stack'[i] = stack[i],
         st'.busy = st.busy \ {stack[n].path}
  PROVE  Chain'
<1>1. stack'[1].path = project'.entry
  BY Shorter DEF Chain
<1>2. st'.busy = {stack'[i].path : i \in 2..(n - 1)}
  <2>1. st.busy = {stack[i].path : i \in 2..n} /\ \A i \in 2..(n - 1) : stack[i].path # stack[n].path
    BY Shorter DEF Chain
  <2>2. \A i \in 2..(n - 1) : stack'[i].path = stack[i].path
    BY Shorter
  <2>3. 2..n = (2..(n - 1)) \cup {n}
    BY Shorter
  <2>4. st'.busy = {stack[i].path : i \in 2..(n - 1)}
    BY <2>1, <2>3
  <2> DEFINE places == 2..(n - 1)
  <2>5. st'.busy = {stack[i].path : i \in places} /\ \A i \in places : stack'[i].path = stack[i].path
    BY <2>2, <2>4
  <2> HIDE DEF places
  <2>6. st'.busy = {stack'[i].path : i \in places}
    BY ONLY <2>5
  <2> QED BY ONLY <2>6 DEF places
<1>3. \A i, j \in 2..(n - 1) : stack'[i].path = stack'[j].path => i = j
  <2>1. \A i \in 2..(n - 1) : i \in 2..n /\ stack'[i].path = stack[i].path
    BY Shorter
  <2> QED BY <2>1 DEF Chain
<1>4. ASSUME NEW i \in 1..(n - 1), NEW j \in 1..(n - 1), i < j PROVE (stack[j].path \in Beyond(stack[i].path))'
  <2>1. stack'[i].path = stack[i].path /\ stack'[j].path = stack[j].path /\ i \in 1..n /\ j \in 1..n
    BY Shorter
  <2>2. stack[j].path \in Beyond(stack[i].path)
    BY <1>4, <2>1 DEF Chain
  <2> QED BY <2>1, <2>2, SameFiles
<1> QED BY <1>1, <1>2, <1>3, <1>4 DEF Chain

\* A file's public items show no private type if check_exposure finds none.
LEMMA KeepsTypes ==
  ASSUME IsProject(project), NEW p \in Files, ~Exposes(project.files[p].items)
  PROVE  KeepsItsTypes(p)
<1> DEFINE items == project.files[p].items
<1> SUFFICES ASSUME NEW x \in ToSet(items), NEW t \in ToSet(items), x.pub, <<t.name>> \in ShownTypes(x),
                    ~t.pub, t.head \in {"struct", "union", "enum"}
             PROVE  FALSE
  BY DEF KeepsItsTypes
<1>1. x.head \in {"fn", "struct", "union", "const"} \/ (x.head = "enum" /\ x.parts = <<>>)
  BY DEF IsProject, IsList, IsFile, Files
<1>2. x.head \in {"const", "enum"}
  <2>1. CASE x.head = "struct"
    <3>1. PICK part \in ToSet(x.parts) : part.level # "private" /\ <<t.name>> \in Mentions(part.t)
      BY <2>1 DEF ShownTypes
    <3> QED BY <2>1, <3>1 DEF Exposes
  <2>2. CASE x.head \in {"fn", "union"}
    <3>1. PICK part \in ToSet(x.parts) : <<t.name>> \in Mentions(part.t)
      BY <2>2 DEF ShownTypes
    <3> QED BY <2>2, <3>1 DEF Exposes
  <2> QED BY <1>1, <2>1, <2>2
<1>3. ShownTypes(x) = {}
  <2>1. CASE x.head = "const"
    BY <2>1 DEF ShownTypes
  <2>2. CASE x.head = "enum"
    BY <1>1, <2>2 DEF ShownTypes, ToSet
  <2> QED BY <1>2, <2>1, <2>2
<1> QED BY <1>3

\* The item that a name of the program stands for is the one it was made of.
LEMMA SourceIs ==
  ASSUME IsProject(project), NEW g, g.path \in Files,
         NEW item \in ToSet(project.files[g.path].items), item.name = g.as
  PROVE  Source(g) = <<g.path, item>>
<1> DEFINE items == project.files[g.path].items
<1>1. \A n, m \in DOMAIN items : items[n].name = items[m].name => n = m
  BY DEF IsProject, IsList, IsFile, Files
<1>2. \A i \in ToSet(items) : i.name = item.name => i = item
  BY <1>1 DEF ToSet
<1>3. <<g.path, item>> \in ItemsOf(g.path) /\ <<g.path, item>>[2].name = g.as
  BY DEF ItemsOf
<1>4. ASSUME NEW x \in ItemsOf(g.path), x[2].name = g.as PROVE x = <<g.path, item>>
  BY <1>2, <1>4 DEF ItemsOf
<1> QED BY <1>3, <1>4 DEF Source

\* When the entry is past its imports, the files that are in are all its modules.
LEMMA AllModules ==
  ASSUME Reading, Top.next > Len(Imp(Top.path)), Len(stack) = 1
  PROVE  /\ Top.path = project.entry /\ st.included = Modules
         /\ ImportsRight /\ TypesShown
<1>1. Top = stack[1] /\ Top.path = project.entry /\ IsProject(project) /\ st.included \subseteq Files /\ Top.path \in Files
  BY AtTop DEF Reading, Chain, Typed
<1>2. Modules = Beyond(Top.path)
  BY <1>1 DEF Modules, Beyond
<1>3. st.included = Modules
  BY <1>2, AllIn DEF Reading, Done
<1>4. \A p \in Program : \A n \in 1..Len(Imp(p)) : Good(p, n)
  BY <1>1, <1>3, AllIn DEF Reading, Done, Program
<1>5. ASSUME NEW p \in Program, NEW i \in ToSet(Imports(project.files[p]))
      PROVE  IsImportPath(i.path) /\ Find(i, p, project) # None
  <2>1. p \in Files
    BY <1>1, <1>3 DEF Program
  <2>2. PICK n \in 1..Len(Imp(p)) : i = Imp(p)[n]
    <3>1. i \in ToSet(Imp(p))
      BY DEF Imp
    <3> QED BY <1>1, <2>1, <3>1, ImportsOf
  <2> QED BY <1>4, <2>2 DEF Good, Target
<1>6. \A p, q \in Modules : NameOf(p) = NameOf(q) => p = q
  BY <1>3 DEF Reading, NamesKept, Known
<1>7. \A p \in Modules : p \notin Closure(Direct(p))
  BY <1>3 DEF Reading, Done, Beyond
<1>8. TypesShown
  BY <1>1, <1>3, KeepsTypes DEF TypesShown, Reading, Done
<1> QED BY <1>1, <1>3, <1>5, <1>6, <1>7, <1>8 DEF ImportsRight

\* A name of one part, the entry's, and one of two.
LEMMA Parts ==
  ASSUME NEW q, NEW a
  PROVE  /\ Len(<<q>> \o <<a>>) = 2 /\ (<<q>> \o <<a>>)[1] = q /\ (<<q>> \o <<a>>)[2] = a
         /\ Len(<<>> \o <<a>>) = 1 /\ (<<>> \o <<a>>)[1] = a
<1> DEFINE S == {q, a}
<1>1. <<>> \in Seq(S) /\ <<q>> \in Seq(S) /\ <<a>> \in Seq(S)
  <2>1. q \in S /\ a \in S
    OBVIOUS
  <2> HIDE DEF S
  <2> QED BY <2>1
<1> HIDE DEF S
<1>2. /\ Len(<<q>> \o <<a>>) = Len(<<q>>) + Len(<<a>>)
      /\ \A i \in 1..(Len(<<q>>) + Len(<<a>>)) :
           (<<q>> \o <<a>>)[i] = IF i <= Len(<<q>>) THEN <<q>>[i] ELSE <<a>>[i - Len(<<q>>)]
  BY <1>1, ConcatProperties
<1>3. /\ Len(<<>> \o <<a>>) = Len(<<>>) + Len(<<a>>)
      /\ \A i \in 1..(Len(<<>>) + Len(<<a>>)) :
           (<<>> \o <<a>>)[i] = IF i <= Len(<<>>) THEN <<>>[i] ELSE <<a>>[i - Len(<<>>)]
  BY <1>1, ConcatProperties
<1>4. Len(<<q>>) = 1 /\ Len(<<a>>) = 1 /\ Len(<<>>) = 0 /\ <<q>>[1] = q /\ <<a>>[1] = a
  OBVIOUS
<1> QED BY <1>2, <1>3, <1>4

\* A list of names, the same after its first.
LEMMA FirstIs ==
  ASSUME NEW n, IsList(n), Len(n) > 1, NEW a
  PROVE  /\ Len(<<a>> \o Tail(n)) = Len(n) /\ (<<a>> \o Tail(n))[1] = a /\ (<<a>> \o Tail(n))[2] = n[2]
         /\ IsList(<<a>> \o Tail(n))
         /\ Len(n) = 2 => <<a>> \o Tail(n) = <<a>> \o <<n[2]>>
         /\ <<n[1]>> \o Tail(n) = n
<1> DEFINE S == ToSet(n) \cup {a}
           t == Tail(n)
           u == <<a>> \o t
           v == <<a>> \o <<n[2]>>
<1>1. n \in Seq(S) /\ a \in S
  BY SeqMonotonic DEF IsList
<1> HIDE DEF S
<1>2. Len(n) \in Nat /\ n # <<>> /\ n[2] \in S
  BY <1>1
<1>3. t \in Seq(S) /\ Len(t) = Len(n) - 1 /\ \A i \in 1..Len(t) : t[i] = n[i + 1]
  BY <1>1, <1>2, HeadTailProperties
<1>4. <<a>> \in Seq(S) /\ Len(<<a>>) = 1 /\ <<a>>[1] = a /\ <<n[2]>> \in Seq(S) /\ Len(<<n[2]>>) = 1 /\ <<n[2]>>[1] = n[2]
  BY <1>1, <1>2
<1> HIDE DEF t
<1>5. /\ u \in Seq(S) /\ Len(u) = 1 + Len(t)
      /\ \A i \in 1..(1 + Len(t)) : u[i] = IF i <= 1 THEN a ELSE t[i - 1]
  BY <1>3, <1>4, ConcatProperties
<1>6. /\ v \in Seq(S) /\ Len(v) = 2
      /\ \A i \in 1..2 : v[i] = IF i <= 1 THEN a ELSE n[2]
  BY <1>3, <1>4, ConcatProperties
<1> HIDE DEF u, v
<1>7. Len(u) = Len(n) /\ u[1] = a /\ u[2] = n[2]
  <2>1. 1 \in 1..(1 + Len(t)) /\ 2 \in 1..(1 + Len(t)) /\ 1 \in 1..Len(t)
    BY <1>2, <1>3
  <2> QED BY <1>2, <1>3, <1>5, <2>1
<1>8. Len(n) = 2 => u = v
  <2> SUFFICES ASSUME Len(n) = 2 PROVE u = v
    OBVIOUS
  <2>1. Len(u) = 2 /\ \A i \in 1..2 : u[i] = v[i]
    BY <1>3, <1>5, <1>6, <1>7
  <2> QED BY <1>5, <1>6, <2>1, SeqEqual
<1>9. IsList(u)
  <2>1. u \in [1..Len(u) -> S] /\ Len(u) \in Nat
    BY <1>5, LenProperties
  <2>2. u \in [1..Len(u) -> ToSet(u)]
    BY <2>1 DEF ToSet
  <2> QED BY <2>1, <2>2, SeqDef DEF IsList
<1>10. <<n[1]>> \o Tail(n) = n
  <2> DEFINE b == n[1]
             m == <<b>> \o t
  <2>1. b \in S
    BY <1>1, <1>2
  <2> HIDE DEF b
  <2>2. <<b>> \in Seq(S) /\ Len(<<b>>) = 1 /\ <<b>>[1] = b
    BY <2>1
  <2>3. /\ m \in Seq(S) /\ Len(m) = 1 + Len(t)
        /\ \A i \in 1..(1 + Len(t)) : m[i] = IF i <= 1 THEN b ELSE t[i - 1]
    BY <1>3, <2>2, ConcatProperties
  <2> HIDE DEF m
  <2>4. ASSUME NEW i \in 1..Len(n) PROVE m[i] = n[i]
    <3>1. CASE i = 1
      BY <1>2, <1>3, <2>3, <3>1 DEF b
    <3>2. CASE i # 1
      <4>1. i - 1 \in 1..Len(t) /\ i - 1 + 1 = i /\ ~(i <= 1) /\ i \in 1..(1 + Len(t))
        BY <1>2, <1>3, <3>2
      <4> QED BY <1>3, <2>3, <4>1
    <3> QED BY <3>1, <3>2
  <2>5. Len(m) = Len(n)
    BY <1>2, <1>3, <2>3
  <2> QED BY <1>1, <2>3, <2>4, <2>5, SeqEqual DEF m, b, t
<1> QED BY <1>7, <1>8, <1>9, <1>10 DEF u, v, t

\* The first two parts of a name of two or more, and a name with one part more.
LEMMA FirstTwo ==
  ASSUME NEW n, IsList(n), Len(n) > 1, NEW f
  PROVE  /\ Len(SubSeq(n, 1, 2)) = 2 /\ SubSeq(n, 1, 2)[1] = n[1] /\ SubSeq(n, 1, 2)[2] = n[2]
         /\ Len(Append(n, f)) > 1 /\ Append(n, f)[1] = n[1] /\ Append(n, f)[2] = n[2] /\ IsList(Append(n, f))
<1> DEFINE S == ToSet(n) \cup {f}
           w == Append(n, f)
<1>1. n \in Seq(S) /\ f \in S
  BY SeqMonotonic DEF IsList
<1> HIDE DEF S
<1>2. Len(n) \in Nat /\ 1 \in 1..Len(n) /\ 2 \in 1..Len(n)
  BY <1>1
<1>3. /\ Len(SubSeq(n, 1, 2)) = (IF 1 <= 2 THEN 2 - 1 + 1 ELSE 0)
      /\ \A i \in 1..(2 - 1 + 1) : SubSeq(n, 1, 2)[i] = n[1 + i - 1]
  BY <1>1, <1>2, SubSeqProperties
<1>4. /\ w \in Seq(S) /\ Len(w) = Len(n) + 1 /\ \A i \in 1..Len(n) : w[i] = n[i]
  BY <1>1, AppendProperties
<1> HIDE DEF w
<1>5. IsList(w)
  <2>1. w \in [1..Len(w) -> S] /\ Len(w) \in Nat
    BY <1>4, LenProperties
  <2>2. w \in [1..Len(w) -> ToSet(w)]
    BY <2>1 DEF ToSet
  <2> QED BY <2>1, <2>2, SeqDef DEF IsList
<1> QED BY <1>2, <1>3, <1>4, <1>5 DEF w

\* What an import finds has the name it gives.
LEMMA FoundName ==
  ASSUME IsProject(project), NEW i, IsList(i.path), i.path # <<>>, NEW p \in Files, Find(i, p, project) # None
  PROVE  NameOf(Find(i, p, project)) = NameOf(i.path)
<1> DEFINE c == Candidates(i, p, project)
           D == Directories(p, project)
           found == {n \in DOMAIN c : c[n] \in Files}
<1>1. IsList(p) /\ IsList(project.entry)
  BY DEF IsProject, Files
<1>2. \A n \in DOMAIN D : IsList(D[n])
  <2>1. ASSUME NEW s, IsList(s) PROVE IsList(Front(s))
    <3>1. s \in Seq(ToSet(s)) /\ Len(s) \in Nat
      BY <2>1, LenProperties DEF IsList
    <3> DEFINE S == ToSet(s)
               t == Front(s)
    <3>2. t \in Seq(S)
      <4> HIDE DEF S
      <4> QED BY <3>1 DEF Front, S
    <3> HIDE DEF S, t
    <3>3. t \in [1..Len(t) -> S] /\ Len(t) \in Nat
      BY <3>2, LenProperties
    <3>4. t \in [1..Len(t) -> ToSet(t)]
      BY <3>3 DEF ToSet
    <3> QED BY <3>3, <3>4, SeqDef DEF IsList, t
  <2> DEFINE a == Front(p)
             b == Front(project.entry)
             S == {a, b} \cup ToSet(project.search)
  <2>2. project.search \in Seq(S) /\ a \in S /\ b \in S
    BY SeqMonotonic DEF IsProject, IsList
  <2>3. \A s \in S : IsList(s)
    BY <1>1, <2>1 DEF IsProject
  <2> HIDE DEF S
  <2>4. <<a, b>> \in Seq(S)
    BY <2>2
  <2>5. D \in Seq(S)
    BY <2>2, <2>4, ConcatProperties DEF Directories
  <2> QED BY <2>3, <2>5
<1>3. DOMAIN c \subseteq Nat
  BY DEF Candidates, Each, Directories, IsProject, IsList
<1>4. found # {}
  BY DEF Find, Files
<1>5. PICK n \in found : \A m \in found : n <= m
  BY ONLY <1>3, <1>4, Least
<1>6. (CHOOSE x \in found : \A m \in found : x <= m) \in found
  BY ONLY <1>5
<1>7. Find(i, p, project) = c[CHOOSE x \in found : \A m \in found : x <= m]
  BY <1>4 DEF Find, Files
<1>8. PICK k \in DOMAIN c : Find(i, p, project) = c[k]
  BY <1>6, <1>7
<1>9. k \in DOMAIN D /\ c[k] = D[k] \o i.path
  BY <1>8 DEF Candidates, Each
<1>10. ASSUME NEW d, IsList(d) PROVE Last(d \o i.path) = Last(i.path)
  <2> DEFINE S == ToSet(d) \cup ToSet(i.path)
             w == i.path
  <2>1. d \in Seq(S) /\ w \in Seq(S) /\ w # <<>>
    BY <1>10, SeqMonotonic DEF IsList
  <2> HIDE DEF S, w
  <2>2. Len(d) \in Nat /\ Len(w) \in Nat /\ Len(w) > 0
    BY <2>1, LenProperties, EmptySeq
  <2>3. /\ Len(d \o w) = Len(d) + Len(w)
        /\ \A j \in 1..(Len(d) + Len(w)) : (d \o w)[j] = IF j <= Len(d) THEN d[j] ELSE w[j - Len(d)]
    BY <2>1, ConcatProperties
  <2>4. (d \o w)[Len(d) + Len(w)] = w[Len(w)]
    BY <2>2, <2>3
  <2> QED BY <2>3, <2>4 DEF Last, w
<1> QED BY <1>2, <1>8, <1>9, <1>10 DEF NameOf

\* A file's imports are of files' names, those it is written with the first of them.
LEMMA ImportsAre ==
  ASSUME IsProject(project), NEW p \in Files
  PROVE  /\ \A i \in ToSet(Imp(p)) : IsList(i.path) /\ i.path # <<>>
         /\ ToSet(project.files[p].imports) \subseteq ToSet(Imp(p))
         /\ \A n \in DOMAIN project.files[p].imports : n \in Nat
<1> DEFINE a == project.files[p].imports
           i0 == Import(<<"alloc">>, "")
<1>1. IsList(a) /\ \A i \in ToSet(a) : IsList(i.path) /\ i.path # <<>>
  BY DEF IsProject, IsFile, Files
<1>2. PICK b : Imp(p) = a \o b /\ (b = <<>> \/ b = <<i0>>)
  BY DEF Imp, Imports
<1>3. IsList(i0.path) /\ i0.path # <<>>
  BY DEF Import, IsList, ToSet
<1> HIDE DEF a, i0
<1>4. \A n \in DOMAIN a : n \in Nat
  BY <1>1 DEF IsList
<1>5. b \in Seq(ToSet(b)) /\ ToSet(b) \subseteq {i0}
  <2> DEFINE S == {i0}
  <2>1. i0 \in S
    OBVIOUS
  <2> HIDE DEF S
  <2>5. <<i0>> \in Seq(S) /\ <<>> \in Seq(S)
    BY <2>1
  <2>2. b \in Seq(S)
    BY <1>2, <2>5
  <2>3. b \in [1..Len(b) -> S] /\ Len(b) \in Nat
    BY <2>2, LenProperties
  <2>4. b \in [1..Len(b) -> ToSet(b)] /\ ToSet(b) \subseteq S
    BY <2>3 DEF ToSet
  <2> QED BY <2>3, <2>4, SeqDef DEF S
<1>6. /\ \A n \in DOMAIN (a \o b) : (a \o b)[n] \in ToSet(a) \cup ToSet(b)
      /\ \A n \in DOMAIN a : a[n] \in ToSet(a \o b)
  <2>1. a \in Seq(ToSet(a))
    BY <1>1 DEF IsList
  <2>2. /\ \A n \in DOMAIN (a \o b) :
             \/ n \in DOMAIN a /\ (a \o b)[n] = a[n]
             \/ n - Len(a) \in DOMAIN b /\ (a \o b)[n] = b[n - Len(a)]
        /\ \A n \in DOMAIN a : n \in DOMAIN (a \o b) /\ (a \o b)[n] = a[n]
    BY <2>1, <1>5, Joined
  <2> QED BY <2>2 DEF ToSet
<1>7. ToSet(a) \subseteq ToSet(Imp(p)) /\ ToSet(Imp(p)) \subseteq ToSet(a) \cup ToSet(b)
  BY <1>2, <1>6 DEF ToSet
<1> QED BY <1>1, <1>3, <1>4, <1>5, <1>7 DEF a

LEMMA TwoParts == \A k \in Nat : k > 1 /\ k <= 2 => k = 2 /\ k # 1
OBVIOUS

LEMMA NoMoreNoLess == \A i, j \in Nat : i <= j /\ j <= i => i = j
OBVIOUS

\* The files that a qualifier stands for have the name it is renamed to, and are
\* imported (Aliases).
LEMMA StandsFor ==
  ASSUME IsProject(project), NEW p \in Files, \A k \in 1..Len(Imp(p)) : Good(p, k),
         NEW q, NEW r \in Stands(q, p)
  PROVE  /\ r \in Direct(p)
         /\ NameOf(r) = LET all == Aliases(project.files[p].imports) IN IF q \in DOMAIN all THEN all[q] ELSE q
<1> DEFINE imports == project.files[p].imports
           aliased == {n \in DOMAIN imports : q # "" /\ imports[n].as = q}
           all == Aliases(imports)
<1>1. ASSUME NEW i \in ToSet(Imp(p))
      PROVE  Find(i, p, project) \in Direct(p) /\ NameOf(Find(i, p, project)) = NameOf(i.path)
  <2>1. PICK k \in 1..Len(Imp(p)) : i = Imp(p)[k]
    BY ImportsOf
  <2>2. Find(i, p, project) # None
    BY <2>1 DEF Good, Target
  <2>3. IsList(i.path) /\ i.path # <<>>
    BY ImportsAre
  <2>4. i \in ToSet(Imports(project.files[p]))
    BY DEF Imp
  <2> QED BY <2>2, <2>3, <2>4, FoundName DEF Direct
<1>2. DOMAIN all = {i.as : i \in ToSet(imports)} \ {""}
  BY DEF Aliases
<1>3. CASE aliased # {}
  <2>1. PICK n \in aliased : r = Find(imports[n], p, project) /\ \A m \in aliased : m <= n
    BY <1>3 DEF Stands
  <2>2. q \in DOMAIN all
    BY <1>2, <2>1 DEF ToSet
  <2>3. aliased \subseteq Nat
    BY ImportsAre
  <2>4. LastAs(q, imports) = imports[n]
    <3> DEFINE Is(k) == imports[k].as = q /\ \A m \in DOMAIN imports : imports[m].as = q => m <= k
    <3>1. Is(n) /\ n \in DOMAIN imports
      BY <2>1
    <3>2. ASSUME NEW k \in DOMAIN imports, Is(k) PROVE k = n
      <4>1. k \in aliased
        BY <2>1, <3>2
      <4>2. n <= k /\ k <= n /\ k \in Nat /\ n \in Nat
        BY <2>1, <2>3, <3>1, <3>2, <4>1
      <4> QED BY ONLY <4>2, NoMoreNoLess, Zenon
    <3>3. (CHOOSE k \in DOMAIN imports : Is(k)) = n
      <4> HIDE DEF Is, imports
      <4> QED BY ONLY <3>1, <3>2
    <3> QED BY <3>3 DEF LastAs
  <2>5. imports[n] \in ToSet(Imp(p))
    BY <2>1, ImportsAre DEF ToSet
  <2>6. all[q] = NameOf(imports[n].path)
    BY <1>2, <2>2, <2>4 DEF Aliases
  <2> QED BY <1>1, <2>1, <2>2, <2>5, <2>6
<1>4. CASE aliased = {}
  <2>1. PICK i \in ToSet(Imp(p)) : r = Find(i, p, project) /\ NameOf(i.path) = q
    BY <1>4 DEF Stands, Finds, Imp
  <2>2. q \notin DOMAIN all
    BY <1>2, <1>4 DEF ToSet
  <2> QED BY <1>1, <2>1, <2>2
<1> QED BY <1>3, <1>4

\* ... so that a name qualified by it is renamed to one of the file's name.
LEMMA RenamedFor ==
  ASSUME IsProject(project), NEW p \in Files, \A k \in 1..Len(Imp(p)) : Good(p, k),
         NEW n, IsList(n), Len(n) > 1, NEW r \in Stands(n[1], p),
         NEW names, names.aliases = Aliases(project.files[p].imports)
  PROVE  LET u == Unaliased(n, names) IN
         /\ IsList(u) /\ Len(u) = Len(n) /\ u[1] = NameOf(r) /\ u[2] = n[2]
         /\ Len(n) = 2 => u = <<NameOf(r)>> \o <<n[2]>>
<1> DEFINE all == Aliases(project.files[p].imports)
<1>1. NameOf(r) = IF n[1] \in DOMAIN all THEN all[n[1]] ELSE n[1]
  BY StandsFor
<1>2. Unaliased(n, names) = IF n[1] \in DOMAIN all THEN <<all[n[1]]>> \o Tail(n) ELSE n
  BY DEF Unaliased, IsAliased
<1>3. Unaliased(n, names) = <<NameOf(r)>> \o Tail(n)
  BY <1>1, <1>2, FirstIs
<1> DEFINE v == <<NameOf(r)>> \o Tail(n)
<1>4. IsList(v) /\ Len(v) = Len(n) /\ v[1] = NameOf(r) /\ v[2] = n[2] /\ (Len(n) = 2 => v = <<NameOf(r)>> \o <<n[2]>>)
  BY FirstIs
<1> HIDE DEF v
<1> QED BY <1>3, <1>4 DEF v

\* What is marked when a file is emitted: what was, and its own.
LEMMA MarksAre ==
  ASSUME Reading
  PROVE  /\ MarksOn.names = st.names /\ MarksOn.templates = st.templates
         /\ MarksOn.public = st.public \cup Canonical(Prefix, {i \in ToSet(TopFile.items) : i.pub})
         /\ DOMAIN MarksOn.fields = Canonical(Prefix, Structs(TopFile.items)) \cup DOMAIN st.fields
         /\ \A n \in DOMAIN MarksOn.fields :
              IF n \in Canonical(Prefix, Structs(TopFile.items))
              THEN \E i \in Structs(TopFile.items) : n = Prefix \o <<i.name>> /\ MarksOn.fields[n] = Levels(i)
              ELSE MarksOn.fields[n] = st.fields[n]
<1> DEFINE items == TopFile.items
           own == OfStructs(Prefix, items, Levels)
           C == Canonical(Prefix, Structs(items))
<1>1. st = [names |-> st.names, included |-> st.included, busy |-> st.busy, templates |-> st.templates,
            public |-> st.public, fields |-> st.fields, order |-> st.order, values |-> st.values, flat |-> st.flat]
  BY DEF Reading, Typed
<1>2. /\ MarksOn.names = st.names /\ MarksOn.templates = st.templates
      /\ MarksOn.public = st.public \cup Canonical(Prefix, {i \in ToSet(items) : i.pub})
      /\ MarksOn.fields = Over(own, st.fields)
  <2> DEFINE a == Canonical(Prefix, {i \in ToSet(items) : i.pub})
             b == Canonical(Prefix, {i \in Structs(items) : i.value})
             c == Over(own, st.fields)
             d == Over(OfStructs(Prefix, items, Ordered), st.order)
  <2>1. MarksOn = [st EXCEPT !.public = @ \cup a, !.values = @ \cup b, !.fields = c, !.order = d]
    BY DEF MarksOn, Marked
  <2> HIDE DEF a, b, c, d
  <2>2. MarksOn.names = st.names /\ MarksOn.templates = st.templates /\ MarksOn.public = st.public \cup a /\ MarksOn.fields = c
    BY ONLY <1>1, <2>1
  <2> QED BY <2>2 DEF a, c
<1>3. DOMAIN own = C /\ \A n \in C : own[n] = Levels(CHOOSE i \in Structs(items) : Prefix \o <<i.name>> = n)
  BY DEF OfStructs
<1>4. \A n \in C : \E i \in Structs(items) : n = Prefix \o <<i.name>> /\ own[n] = Levels(i)
  <2> SUFFICES ASSUME NEW n \in C PROVE \E i \in Structs(items) : n = Prefix \o <<i.name>> /\ own[n] = Levels(i)
    OBVIOUS
  <2>1. \E i \in Structs(items) : Prefix \o <<i.name>> = n
    BY DEF Canonical
  <2> DEFINE i == CHOOSE j \in Structs(items) : Prefix \o <<j.name>> = n
  <2>2. i \in Structs(items) /\ Prefix \o <<i.name>> = n
    BY ONLY <2>1
  <2>3. own[n] = Levels(i)
    BY <1>3
  <2> HIDE DEF i, own
  <2> QED BY ONLY <2>2, <2>3
<1> HIDE DEF own, C
<1>5. /\ DOMAIN Over(own, st.fields) = DOMAIN own \cup DOMAIN st.fields
      /\ \A n \in DOMAIN own \cup DOMAIN st.fields :
           Over(own, st.fields)[n] = IF n \in DOMAIN own THEN own[n] ELSE st.fields[n]
  BY DEF Over
<1>6. DOMAIN MarksOn.fields = C \cup DOMAIN st.fields
  BY ONLY <1>2, <1>3, <1>5
<1>7. ASSUME NEW n \in DOMAIN MarksOn.fields
      PROVE  IF n \in C THEN \E i \in Structs(items) : n = Prefix \o <<i.name>> /\ MarksOn.fields[n] = Levels(i)
             ELSE MarksOn.fields[n] = st.fields[n]
  <2>1. MarksOn.fields[n] = IF n \in C THEN own[n] ELSE st.fields[n]
    BY ONLY <1>2, <1>3, <1>5, <1>6
  <2>2. CASE n \in C
    <3>1. PICK i \in Structs(items) : n = Prefix \o <<i.name>> /\ own[n] = Levels(i)
      BY <1>4, <2>2
    <3> QED BY ONLY <2>1, <2>2, <3>1
  <2>3. CASE n \notin C
    BY ONLY <2>1, <2>3
  <2> QED BY ONLY <2>2, <2>3
<1> QED BY ONLY <1>2, <1>6, <1>7 DEF C, items

\* A name that only another file's item can have is that of a file that is in,
\* and is not this one's.
LEMMA ClearIsForeign ==
  ASSUME Reading, Top.next > Len(Imp(Top.path)), Top.path \notin st.included,
         NEW n, Clear(n, Top.path), NEW r \in Stands(n[1], Top.path)
  PROVE  /\ r \in st.included /\ r \in Files
         /\ NameOf(r) # NamesOn.module /\ NameOf(r) \in NamesOn.modules
         /\ Prefix # <<>> => Prefix = <<NameOf(Top.path)>> /\ NameOf(r) # NameOf(Top.path)
<1> DEFINE p == Top.path
<1>1. IsProject(project) /\ p \in Files /\ \A k \in 1..Len(Imp(p)) : Good(p, k)
  BY AtTop, AllIn DEF Reading, Typed
<1>2. r \in Direct(p)
  BY <1>1, StandsFor
<1>3. r \in st.included /\ r \in Files
  BY <1>2, AllIn DEF Reading, Typed
<1>4. NameOf(r) \in NamesOn.modules
  <2>1. NamesOn.modules = DOMAIN st.names
    BY MarksAre DEF NamesOn, Names
  <2> QED BY <1>3, <2>1 DEF Reading, NamesKept, Known
<1>5. CASE Len(stack) = 1
  <2>1. p = project.entry /\ r \in Modules
    BY <1>3, <1>5, AllModules
  <2>2. Prefix = <<>> /\ NamesOn.module = project.files[p].name
    BY <1>5 DEF Prefix, NamesOn, Names, TopFile
  <2> QED BY <1>3, <1>4, <2>1, <2>2 DEF Clear
<1>6. CASE Len(stack) # 1
  <2>1. Prefix = <<NameOf(p)>> /\ <<NameOf(p)>> # <<>> /\ <<NameOf(p)>>[1] = NameOf(p)
    BY <1>6 DEF Prefix
  <2>2. NamesOn.module = NameOf(p)
    BY <2>1 DEF NamesOn, Names
  <2>3. p \in Known /\ r \in Known /\ p # r
    <3>1. p = stack[Len(stack)].path /\ Len(stack) \in 2..Len(stack)
      BY <1>6, AtTop
    <3>2. p \in st.busy
      BY <3>1 DEF Reading, Chain
    <3> QED BY <1>3, <3>2 DEF Known
  <2>4. NameOf(p) # NameOf(r)
    BY <2>3 DEF Reading, NamesKept
  <2> QED BY <1>3, <1>4, <2>1, <2>2, <2>4
<1> QED BY <1>5, <1>6

\* What is marked of such a name is of the items that it means.
LEMMA ClearMarks ==
  ASSUME Reading, Top.next > Len(Imp(Top.path)), Top.path \notin st.included,
         NEW n, Clear(n, Top.path), NEW r \in Stands(n[1], Top.path),
         NEW s, Len(s) > 1, s[1] = NameOf(r), NEW item \in ToSet(project.files[r].items), item.name = s[2]
  PROVE  /\ Foreign(s, NamesOn)
         /\ s \in MarksOn.public => item.pub
         /\ s \in DOMAIN MarksOn.fields => item.head = "struct" /\ MarksOn.fields[s] = Levels(item)
<1>1. /\ r \in st.included /\ r \in Files
      /\ NameOf(r) # NamesOn.module /\ NameOf(r) \in NamesOn.modules
      /\ Prefix # <<>> => Prefix = <<NameOf(Top.path)>> /\ NameOf(r) # NameOf(Top.path)
  BY ClearIsForeign
<1>2. IsProject(project) /\ Marks /\ NamesKept
  BY DEF Reading, Typed
<1>3. Foreign(s, NamesOn)
  BY <1>1 DEF Foreign
<1>4. ASSUME NEW p \in st.included, NEW i \in ToSet(project.files[p].items), s = <<NameOf(p)>> \o <<i.name>>
      PROVE  i = item
  <2> DEFINE q == NameOf(p)
             a == i.name
  <2>1. (<<q>> \o <<a>>)[1] = q /\ (<<q>> \o <<a>>)[2] = a
    BY Parts
  <2>2. NameOf(p) = NameOf(r) /\ i.name = item.name
    <3>1. s = <<q>> \o <<a>>
      BY <1>4
    <3> HIDE DEF q, a
    <3>2. s[1] = q /\ s[2] = a
      BY <2>1, <3>1
    <3> QED BY <3>2 DEF q, a
  <2>3. p = r
    BY <1>1, <1>2, <2>2 DEF NamesKept, Known
  <2>4. \A k, m \in DOMAIN project.files[r].items :
          project.files[r].items[k].name = project.files[r].items[m].name => k = m
    BY <1>1, <1>2 DEF IsProject, IsFile, Files
  <2> QED BY <2>2, <2>3, <2>4 DEF ToSet
<1>5. ASSUME NEW items, s \in Canonical(Prefix, items) PROVE FALSE
  <2>1. PICK i \in items : s = Prefix \o <<i.name>>
    BY <1>5 DEF Canonical
  <2> DEFINE q == NameOf(Top.path)
             a == i.name
  <2>2. /\ Len(<<q>> \o <<a>>) = 2 /\ (<<q>> \o <<a>>)[1] = q /\ Len(<<>> \o <<a>>) = 1
    BY Parts
  <2>3. s = Prefix \o <<a>> /\ (Prefix # <<>> => Prefix = <<q>> /\ s[1] # q)
    BY <1>1, <2>1
  <2> HIDE DEF q, a
  <2> QED BY <2>2, <2>3
<1>6. s \in MarksOn.public => item.pub
  <2> SUFFICES ASSUME s \in MarksOn.public PROVE item.pub
    OBVIOUS
  <2>1. s \in st.public
    BY <1>5, MarksAre
  <2>2. PICK p \in st.included : \E i \in ToSet(project.files[p].items) : i.pub /\ s = <<NameOf(p)>> \o <<i.name>>
    BY <1>2, <2>1 DEF Marks
  <2> QED BY <1>4, <2>2
<1>7. s \in DOMAIN MarksOn.fields => item.head = "struct" /\ MarksOn.fields[s] = Levels(item)
  <2> SUFFICES ASSUME s \in DOMAIN MarksOn.fields PROVE item.head = "struct" /\ MarksOn.fields[s] = Levels(item)
    OBVIOUS
  <2>1. s \in DOMAIN st.fields /\ MarksOn.fields[s] = st.fields[s]
    BY <1>5, MarksAre
  <2>2. PICK p \in st.included : \E i \in ToSet(project.files[p].items) :
          i.head = "struct" /\ s = <<NameOf(p)>> \o <<i.name>> /\ st.fields[s] = Levels(i)
    BY <1>2, <2>1 DEF Marks
  <2> QED BY <1>4, <2>1, <2>2
<1> QED BY <1>3, <1>6, <1>7

\* A field that is open is one that its struct shows.
LEMMA OpenShows ==
  ASSUME NEW item, item.head = "struct", NEW f, NEW put, NEW state, NEW s,
         s \in DOMAIN state.fields, state.fields[s] = Levels(item), IsOpen(s, f, put, state)
  PROVE  Shows(item, f, put)
<1> DEFINE parts == ToSet(item.parts)
           part == CHOOSE p \in parts : p.n = f
<1>1. LevelOf(s, f, state) # "private" /\ LevelOf(s, f, state) \in {"pub"} \cup (IF put THEN {} ELSE {"read"})
  BY DEF IsOpen
<1>2. f \in DOMAIN Levels(item) /\ LevelOf(s, f, state) = Levels(item)[f]
  BY <1>1 DEF LevelOf
<1>3. f \in {p.n : p \in parts} /\ Levels(item)[f] = part.level
  BY <1>2 DEF Levels
<1>4. part \in parts /\ part.n = f
  BY <1>3
<1> QED BY <1>1, <1>2, <1>3, <1>4 DEF Shows

\* A name that only another file's item can have is renamed to that item's, and
\* allowed only if the item is public; its fields, if it shows them.
LEMMA NameAllowed ==
  ASSUME Reading, Top.next > Len(Imp(Top.path)), Top.path \notin st.included,
         NEW n, IsList(n), Clear(n, Top.path), NEW m \in Meant(n, Top.path)
  PROVE  LET u == Unaliased(n, NamesOn) IN
         /\ Len(u) = Len(n)
         /\ RenameFn(n, NamesOn) = u /\ RenameStruct(n, NamesOn) = u /\ RenameDecl(n, NamesOn) = u
         /\ ItemAllowed(u, NamesOn, MarksOn) => m[2].pub
         /\ DeclAllowed(u, NamesOn, MarksOn) => m[2].pub
         /\ \A f : DeclAllowed(Append(u, f), NamesOn, MarksOn) => m[2].pub
         /\ \A f, put : FieldAllowed(u, f, put, NamesOn, MarksOn) => Shows(m[2], f, put)
         /\ Len(n) = 2 /\ m[2].generic => u \in MarksOn.templates
<1> DEFINE p == Top.path
           u == Unaliased(n, NamesOn)
           item == m[2]
<1>1. Len(n) > 1 /\ Qualified(n, p) /\ \A i \in ToSet(project.files[p].items) : i.name # n[1]
  BY DEF Clear, Qualified
<1>2. PICK r \in Stands(n[1], p) : item \in ToSet(project.files[r].items) /\ item.name = n[2]
  BY <1>1 DEF Meant, Called, ItemsOf
<1>3. IsProject(project) /\ p \in Files /\ TopFile = project.files[p] /\ \A k \in 1..Len(Imp(p)) : Good(p, k)
  BY AtTop, AllIn DEF Reading, Typed
<1>4. /\ IsList(u) /\ Len(u) = Len(n) /\ u[1] = NameOf(r) /\ u[2] = n[2]
      /\ Len(n) = 2 => u = <<NameOf(r)>> \o <<n[2]>>
  <2>1. NamesOn.aliases = Aliases(project.files[p].imports)
    BY <1>3 DEF NamesOn, Names
  <2> QED BY <1>1, <1>3, <2>1, RenamedFor
<1>5. RenameFn(n, NamesOn) = u /\ RenameStruct(n, NamesOn) = u /\ RenameDecl(n, NamesOn) = u
  <2>1. n[1] \notin NamesOn.decls
    BY <1>1, <1>3 DEF NamesOn, Names, Those
  <2>2. Len(n) # 1
    BY <1>1
  <2> QED BY <1>1, <2>1, <2>2 DEF RenameFn, RenameStruct, RenameDecl, Own
<1> HIDE DEF u
<1>6. ASSUME NEW s, Len(s) > 1, s[1] = u[1], s[2] = u[2]
      PROVE  /\ Foreign(s, NamesOn)
             /\ s \in MarksOn.public => item.pub
             /\ s \in DOMAIN MarksOn.fields => item.head = "struct" /\ MarksOn.fields[s] = Levels(item)
  BY <1>2, <1>4, <1>6, ClearMarks
<1>7. ItemAllowed(u, NamesOn, MarksOn) => item.pub
  BY <1>1, <1>4, <1>6 DEF ItemAllowed
<1>8. ASSUME NEW s, IsList(s), Len(s) > 1, s[1] = u[1], s[2] = u[2], DeclAllowed(s, NamesOn, MarksOn) PROVE item.pub
  <2>1. Foreign(s, NamesOn)
    BY <1>6, <1>8
  <2>2. ItemAllowed(SubSeq(s, 1, 2), NamesOn, MarksOn)
    BY <1>8, <2>1 DEF DeclAllowed
  <2> DEFINE two == SubSeq(s, 1, 2)
  <2>3. Len(two) = 2 /\ two[1] = u[1] /\ two[2] = u[2]
    BY <1>8, FirstTwo
  <2> HIDE DEF two
  <2>4. Len(two) > 1
    BY <2>3
  <2> QED BY <1>6, <2>2, <2>3, <2>4 DEF ItemAllowed, two
<1>9. DeclAllowed(u, NamesOn, MarksOn) => item.pub
  BY <1>1, <1>4, <1>8
<1>10. ASSUME NEW f, DeclAllowed(Append(u, f), NamesOn, MarksOn) PROVE item.pub
  <2>1. Len(u) > 1
    BY <1>1, <1>4
  <2>2. /\ Len(Append(u, f)) > 1 /\ Append(u, f)[1] = u[1] /\ Append(u, f)[2] = u[2] /\ IsList(Append(u, f))
    BY <1>4, <2>1, FirstTwo
  <2> QED BY <1>8, <1>10, <2>2
<1>11. ASSUME NEW f, NEW put, FieldAllowed(u, f, put, NamesOn, MarksOn) PROVE Shows(item, f, put)
  <2>1. Foreign(u, NamesOn)
    BY <1>1, <1>4, <1>6
  <2>2. IsOpen(u, f, put, MarksOn)
    BY <1>11, <2>1 DEF FieldAllowed
  <2>3. u \in DOMAIN MarksOn.fields
    BY <2>2 DEF IsOpen, LevelOf
  <2>4. item.head = "struct" /\ MarksOn.fields[u] = Levels(item)
    BY <1>1, <1>4, <1>6, <2>3
  <2> HIDE DEF item
  <2> QED BY <2>2, <2>3, <2>4, OpenShows
<1>12. Len(n) = 2 /\ item.generic => u \in MarksOn.templates
  <2>1. r \in st.included
    BY <1>2, ClearIsForeign
  <2>2. item.generic => <<NameOf(r)>> \o <<item.name>> \in st.templates
    BY <1>2, <2>1 DEF Reading, Marks
  <2> QED BY <1>2, <1>4, <2>2, MarksAre
<1> QED BY <1>4, <1>5, <1>7, <1>9, <1>10, <1>11, <1>12 DEF u

\* What is written in a file is allowed only if it takes of others what is public.
LEMMA UseAllowed ==
  ASSUME Reading, Top.next > Len(Imp(Top.path)), Top.path \notin st.included,
         NEW x, IsForm(x), Allowed(Written(x, NamesOn, MarksOn), NamesOn, MarksOn)
  PROVE  UsesPublic(x, Top.path)
<1> DEFINE p == Top.path
           N == NamesOn
           M == MarksOn
           y == Written(x, N, M)
<1>1. /\ x = [k |-> x.k, n |-> x.n, f |-> x.f, fs |-> x.fs, as |-> x.as]
      /\ IsList(x.n) /\ \A t \in ToSet(x.as) : IsList(t)
      /\ \/ x.k \in {"call", "ref", "ptr", "new", "sym", "make"} /\ x.f = "" /\ x.as = <<>>
         \/ x.k \in {"get", "put", "with", "arr.get", "arr.set"} /\ x.as = <<>>
         \/ x.k \in {"apply", "get of", "put of"} /\ Len(x.n) <= 2
  BY DEF IsForm
<1>5. x.as = <<>> => ToSet(x.as) = {}
  BY DEF ToSet
<1>2. CASE x.k \in {"call", "ref", "ptr", "new", "sym", "make"}
  <2> SUFFICES ASSUME Clear(x.n, p), NEW m \in Meant(x.n, p) PROVE m[2].pub
    <3>1. x.f = "" /\ ToSet(x.as) = {}
      BY <1>1, <1>2, <1>5
    <3> QED BY <3>1 DEF UsesPublic
  <2> DEFINE u == Unaliased(x.n, N)
  <2>1. /\ RenameFn(x.n, N) = u /\ RenameStruct(x.n, N) = u /\ RenameDecl(x.n, N) = u
        /\ ItemAllowed(u, N, M) \/ DeclAllowed(u, N, M) => m[2].pub
    BY <1>1, NameAllowed
  <2>2. y = [x EXCEPT !.n = u]
    BY <1>2, <2>1 DEF Written
  <2> HIDE DEF u, y, N, M
  <2>3. y.n = u /\ y.k = x.k
    BY ONLY <1>1, <2>2
  <2>4. ItemAllowed(u, N, M) \/ DeclAllowed(u, N, M)
    BY <1>2, <2>3 DEF Allowed, ArgumentAllowed, y, N, M
  <2> QED BY <2>1, <2>4
<1>3. CASE x.k \in {"get", "put", "with", "arr.get", "arr.set"}
  <2> SUFFICES ASSUME Clear(x.n, p), NEW m \in Meant(x.n, p) PROVE m[2].pub /\ Shows(m[2], x.f, Puts(x))
    <3>1. ToSet(x.as) = {}
      BY <1>1, <1>3, <1>5
    <3> QED BY <3>1 DEF UsesPublic
  <2> DEFINE u == Unaliased(x.n, N)
  <2>1. /\ RenameFn(x.n, N) = u /\ RenameStruct(x.n, N) = u /\ RenameDecl(x.n, N) = u
        /\ ItemAllowed(u, N, M) \/ DeclAllowed(Append(u, x.f), N, M) => m[2].pub
        /\ FieldAllowed(u, x.f, Puts(x), N, M) => Shows(m[2], x.f, Puts(x))
    BY <1>1, NameAllowed
  <2>2. y = [x EXCEPT !.n = u]
    BY <1>3, <2>1 DEF Written
  <2> HIDE DEF u, y, N, M
  <2>3. y.n = u /\ y.k = x.k /\ y.f = x.f
    BY ONLY <1>1, <2>2
  <2>4. /\ ItemAllowed(u, N, M) \/ DeclAllowed(Append(u, x.f), N, M)
        /\ FieldAllowed(u, x.f, Puts(y), N, M)
    BY <1>3, <2>3 DEF Allowed, y, N, M
  <2>5. Puts(y) <=> Puts(x)
    BY <2>3 DEF Puts
  <2>6. FieldAllowed(u, x.f, Puts(x), N, M)
    BY <2>4, <2>5 DEF FieldAllowed, IsOpen
  <2> QED BY <2>1, <2>4, <2>6
<1>4. CASE x.k \in {"apply", "get of", "put of"}
  <2> DEFINE template == TemplateRef(x.n, N, M)
             To(t) == Argument(t, template, N)
             head == IF template = None THEN x.n ELSE template
             args == Each(To, x.as)
  <2>1. y = [x EXCEPT !.n = head, !.as = args]
    BY <1>4 DEF Written, Applied
  <2>2. \A t \in ToSet(x.as) : To(t) \in ToSet(args)
    BY DEF Each, ToSet
  <2> HIDE DEF head, args, y, N, M
  <2>3. y.n = head /\ y.as = args /\ y.k = x.k /\ y.f = x.f
    BY ONLY <1>1, <2>1
  <2>4. AppliedAllowed(y, N, M) /\ (x.f # "" => FieldAllowed(head, x.f, Puts(y), N, M))
    BY <1>4, <2>3 DEF Allowed, y, N, M
  <2>5. ASSUME Clear(x.n, p), NEW m \in Meant(x.n, p), Fits(x.k, m[2])
        PROVE  m[2].pub /\ (x.f # "" => Shows(m[2], x.f, Puts(x)))
    <3> DEFINE u == Unaliased(x.n, N)
    <3>1. /\ ItemAllowed(u, N, M) => m[2].pub
          /\ FieldAllowed(u, x.f, Puts(x), N, M) => Shows(m[2], x.f, Puts(x))
          /\ Len(u) = Len(x.n)
          /\ Len(x.n) = 2 /\ m[2].generic => u \in M.templates
      BY <1>1, <2>5, NameAllowed DEF N, M
    <3>2. Len(x.n) = 2 /\ Len(x.n) # 1
      <4>1. Len(x.n) > 1 /\ Len(x.n) <= 2 /\ Len(x.n) \in Nat
        <5>1. x.n \in Seq(ToSet(x.n))
          BY <1>1 DEF IsList
        <5>2. Len(x.n) \in Nat
          BY <5>1, LenProperties
        <5> QED BY <1>1, <1>4, <2>5, <5>2 DEF Clear, Qualified
      <4> QED BY ONLY <4>1, TwoParts, Zenon
    <3>3. u \in M.templates
      BY <1>4, <2>5, <3>1, <3>2 DEF Fits
    <3>4. template = u /\ u # None
      <4> DEFINE h == x.n
      <4>1. template = (IF Len(h) = 1 /\ h[1] \in N.own THEN N.prefix \o h
                        ELSE IF u \in M.templates THEN u
                        ELSE IF h \in M.templates THEN h
                        ELSE None)
        BY DEF TemplateRef
      <4>2. Len(h) # 1 /\ Len(u) = 2
        BY <3>1, <3>2
      <4> HIDE DEF template, u, h
      <4>3. template = u
        BY ONLY <3>3, <4>1, <4>2
      <4>4. u # None
        BY ONLY <4>2 DEF None
      <4> QED BY <4>3, <4>4
    <3> HIDE DEF u, template
    <3>5. head = u
      BY <3>4 DEF head
    <3>6. ItemAllowed(u, N, M)
      BY <2>3, <2>4, <3>3, <3>5 DEF AppliedAllowed
    <3>7. Puts(y) <=> Puts(x)
      BY <2>3 DEF Puts
    <3>8. x.f # "" => FieldAllowed(u, x.f, Puts(x), N, M)
      BY <2>4, <3>5, <3>7 DEF FieldAllowed, IsOpen
    <3> QED BY <3>1, <3>6, <3>8
  <2>6. ASSUME NEW t \in ToSet(x.as), Clear(t, p), NEW m \in Meant(t, p) PROVE m[2].pub
    <3> DEFINE u == Unaliased(t, N)
    <3>1. /\ RenameStruct(t, N) = u /\ RenameDecl(t, N) = u
          /\ ItemAllowed(u, N, M) \/ DeclAllowed(u, N, M) => m[2].pub
      BY <1>1, <2>6, NameAllowed DEF N, M
    <3> HIDE DEF u
    <3>2. To(t) = u
      BY <3>1 DEF Argument
    <3>3. u \in ToSet(y.as)
      BY <2>2, <2>3, <3>2
    <3>4. ItemAllowed(u, N, M) \/ DeclAllowed(u, N, M)
      BY <2>4, <3>3 DEF AppliedAllowed, ArgumentAllowed
    <3> QED BY <3>1, <3>4
  <2> QED BY <2>5, <2>6 DEF UsesPublic
<1> QED BY <1>1, <1>2, <1>3, <1>4

\* A file that is emitted uses of others only what is public (check_item, check_field).
LEMMA KeptAtEmit ==
  ASSUME Reading, Top.next > Len(Imp(Top.path)), Top.path \notin st.included,
         EmitAllowed(TopFile, Prefix, NamesOn, MarksOn)
  PROVE  Kept(Top.path)
<1> DEFINE f == project.files[Top.path]
<1>1. TopFile = f /\ IsFile(f)
  BY AtTop DEF Reading, Typed, IsProject, Files
<1>2. ASSUME NEW i \in ToSet(f.items), NEW x \in ToSet(Forms(i)) PROVE UsesPublic(x, Top.path)
  <2>1. IsForm(x)
    BY <1>1 DEF IsFile
  <2>2. Allowed(Written(x, NamesOn, MarksOn), NamesOn, MarksOn)
    BY <1>1 DEF EmitAllowed
  <2> QED BY <2>1, <2>2, UseAllowed
<1> QED BY <1>2 DEF Kept

\* What is known of the files that are in, with one more of them.
LEMMA MarksGrow ==
  ASSUME Reading, project' = project, Prefix = <<NameOf(Top.path)>>, st'.included = st.included \cup {Top.path},
         st'.public = MarksOn.public, st'.fields = MarksOn.fields, st'.templates = st.templates \cup OwnTemplates
  PROVE  Marks'
<1> DEFINE p == Top.path
           items == project.files[p].items
           C == Canonical(Prefix, Structs(items))
<1>1. Marks /\ TopFile = project.files[p]
  BY AtTop DEF Reading
<1> DEFINE Marking(is) ==
      /\ MarksOn.public = st.public \cup Canonical(Prefix, {i \in ToSet(is) : i.pub})
      /\ DOMAIN MarksOn.fields = Canonical(Prefix, Structs(is)) \cup DOMAIN st.fields
      /\ \A n \in DOMAIN MarksOn.fields :
           IF n \in Canonical(Prefix, Structs(is))
           THEN \E i \in Structs(is) : n = Prefix \o <<i.name>> /\ MarksOn.fields[n] = Levels(i)
           ELSE MarksOn.fields[n] = st.fields[n]
<1>2. Marking(items)
  <2>1. Marking(TopFile.items)
    BY MarksAre
  <2>2. TopFile.items = items
    BY <1>1
  <2> HIDE DEF Marking, items
  <2> QED BY ONLY <2>1, <2>2
<1>3. ASSUME NEW n \in st'.public
      PROVE  \E q \in st'.included : \E i \in ToSet(project'.files[q].items) : i.pub /\ n = <<NameOf(q)>> \o <<i.name>>
  <2>1. CASE n \in st.public
    <3>1. PICK q \in st.included : \E i \in ToSet(project.files[q].items) : i.pub /\ n = <<NameOf(q)>> \o <<i.name>>
      BY <1>1, <2>1 DEF Marks
    <3>2. q \in st'.included /\ project' = project
      OBVIOUS
    <3> QED BY ONLY <3>1, <3>2
  <2>2. CASE n \notin st.public
    <3> DEFINE public == {i \in ToSet(items) : i.pub}
    <3>1. n \in Canonical(Prefix, public)
      BY <1>2, <2>2
    <3>2. public \subseteq ToSet(items) /\ \A i \in public : i.pub
      OBVIOUS
    <3> HIDE DEF public
    <3>3. PICK i \in public : n = Prefix \o <<i.name>>
      BY <3>1 DEF Canonical
    <3> QED BY <3>2, <3>3
  <2> QED BY <2>1, <2>2
<1>4. ASSUME NEW n \in DOMAIN st'.fields
      PROVE  \E q \in st'.included : \E i \in ToSet(project'.files[q].items) :
               i.head = "struct" /\ n = <<NameOf(q)>> \o <<i.name>> /\ st'.fields[n] = Levels(i)
  <2>1. CASE n \notin C
    <3>1. n \in DOMAIN st.fields /\ st'.fields[n] = st.fields[n]
      BY <1>2, <2>1
    <3>2. PICK q \in st.included : \E i \in ToSet(project.files[q].items) :
            i.head = "struct" /\ n = <<NameOf(q)>> \o <<i.name>> /\ st.fields[n] = Levels(i)
      BY <1>1, <3>1, Zenon DEF Marks
    <3> QED BY <3>1, <3>2
  <2>2. CASE n \in C
    <3>1. PICK i \in Structs(items) : n = Prefix \o <<i.name>> /\ MarksOn.fields[n] = Levels(i)
      BY <1>2, <2>2
    <3> QED BY <3>1 DEF Structs
  <2> QED BY <2>1, <2>2
<1>5. ASSUME NEW q \in st'.included, NEW i \in ToSet(project'.files[q].items), i.generic
      PROVE  <<NameOf(q)>> \o <<i.name>> \in st'.templates
  <2>1. CASE q \in st.included
    BY <1>1, <1>5, <2>1 DEF Marks
  <2>2. CASE q = p
    <3>1. NamesOn.own = {x.name : x \in {y \in ToSet(items) : y.generic}}
      BY <1>1 DEF NamesOn, Names, Those
    <3>2. i.name \in NamesOn.own
      BY <1>5, <2>2, <3>1
    <3> QED BY <2>2, <3>2 DEF OwnTemplates
  <2> QED BY <2>1, <2>2
<1> QED BY <1>3, <1>4, <1>5 DEF Marks

\* A file that is not the entry is in, once it is past its imports.
LEMMA EmitStep ==
  ASSUME Reading, Emit, Len(stack) # 1, outcome' # "private"
  PROVE  Reading'
<1> DEFINE n == Len(stack)
           p == Top.path
           R == [path : Files, next : Nat \ {0}]
<1>1. /\ project' = project /\ stack' = Front(stack)
      /\ st' = [names |-> st.names, included |-> st.included \cup {p}, busy |-> st.busy \ {p},
                templates |-> st'.templates, public |-> st'.public, fields |-> st'.fields,
                order |-> st'.order, values |-> st'.values, flat |-> st'.flat]
      /\ st'.templates = st.templates \cup OwnTemplates /\ st'.public = MarksOn.public /\ st'.fields = MarksOn.fields
      /\ ~Exposes(TopFile.items) /\ EmitAllowed(TopFile, Prefix, NamesOn, MarksOn)
  <2> DEFINE a == st.included \cup {p}
             b == st.busy \ {p}
             c == st.templates \cup OwnTemplates
             d == MarksOn.public
             e == MarksOn.fields
  <2>1. /\ project' = project /\ stack' = Front(stack)
        /\ st' = [names |-> st.names, included |-> a, busy |-> b, templates |-> c, public |-> d, fields |-> e,
                  order |-> st'.order, values |-> st'.values, flat |-> st'.flat]
        /\ ~Exposes(TopFile.items) /\ EmitAllowed(TopFile, Prefix, NamesOn, MarksOn)
    BY EmitMakes
  <2> HIDE DEF a, b, c, d, e
  <2>2. st'.templates = c /\ st'.public = d /\ st'.fields = e
    BY ONLY <2>1
  <2> QED BY <2>1, <2>2 DEF a, b, c, d, e
<1>2. PICK new : Added(new)
  BY EmitMakes
<1>3. /\ n \in Nat \ {0, 1} /\ DOMAIN stack = 1..n /\ stack \in Seq(R) /\ Top = stack[n] /\ p \in Files
      /\ TopFile = project.files[p] /\ Top.next > Len(Imp(p)) /\ IsProject(project)
      /\ \A i \in 1..n : stack[i].path \in Files /\ stack[i].next \in Nat \ {0}
  <2>1. Imports(TopFile) = Imp(p) /\ Top.next > Len(Imports(TopFile))
    BY AtTop DEF Emit
  <2> QED BY <2>1, AtTop DEF Reading, Typed
<1>4. p \in st.busy /\ p \notin st.included /\ p \in Modules
  <2>1. n \in 2..n
    BY <1>3
  <2>2. p \in st.busy
    BY <1>3, <2>1 DEF Reading, Chain
  <2> QED BY <2>2, KnownAreModules DEF Reading, Done, Known
<1>5. st'.names = st.names /\ st'.included = st.included \cup {p} /\ st'.busy = st.busy \ {p}
  BY <1>1
<1>6. /\ stack' \in Seq(R) /\ Len(stack') = n - 1 /\ n - 1 > 0
      /\ \A i \in 1..(n - 1) : stack'[i] = stack[i]
  <2> HIDE DEF n, R
  <2>1. stack' = SubSeq(stack, 1, n - 1) /\ 1 \in 1..(n + 1) /\ n - 1 \in 0..n
    BY <1>1, <1>3 DEF Front, n
  <2>2. /\ SubSeq(stack, 1, n - 1) \in Seq(R)
        /\ Len(SubSeq(stack, 1, n - 1)) = (IF 1 <= n - 1 THEN n - 1 - 1 + 1 ELSE 0)
        /\ \A i \in 1..(n - 1 - 1 + 1) : SubSeq(stack, 1, n - 1)[i] = stack[1 + i - 1]
    BY <1>3, <2>1, SubSeqProperties DEF n
  <2> QED BY <1>3, <2>1, <2>2
<1>7. Typed'
  <2>1. Files' = Files /\ IsProject(project)'
    BY <1>1, <1>3, SameFiles
  <2>2. stack' \in Seq([path : Files', next : Nat \ {0}]) /\ Len(stack') > 0
    BY <1>6, <2>1
  <2>3. st'.included \subseteq Files' /\ st'.busy \subseteq Files'
    BY <1>3, <1>5, <2>1 DEF Reading, Typed
  <2>4. st' = [names |-> st'.names, included |-> st'.included, busy |-> st'.busy, templates |-> st'.templates,
               public |-> st'.public, fields |-> st'.fields, order |-> st'.order, values |-> st'.values, flat |-> st'.flat]
    BY ONLY <1>1
  <2> QED BY <2>1, <2>2, <2>3, <2>4 DEF Typed
<1>8. Chain'
  <2>1. stack[n].path = p
    BY <1>3
  <2> HIDE DEF p
  <2> QED BY <1>1, <1>3, <1>5, <1>6, <2>1, ChainShrinks DEF Reading
<1>9. ASSUME NEW i \in 1..(n - 1) PROVE Handled(i)'
  <2>1. i \in 1..n /\ Handled(i) /\ stack'[i] = stack[i]
    BY <1>3, <1>6, Shorter DEF Reading
  <2>2. \/ i < Len(stack') /\ stack'[i + 1].path = stack[i + 1].path
        \/ stack[i + 1].path \in st'.included
    <3>1. CASE i = n - 1
      <4>1. stack[i + 1].path = p
        BY <1>3, <3>1
      <4> QED BY <1>5, <4>1
    <3>2. CASE i # n - 1
      <4>1. i + 1 \in 1..(n - 1) /\ i < n - 1
        BY <1>3, <3>2, Shorter
      <4> QED BY <1>6, <4>1
    <3> QED BY <3>1, <3>2
  <2>3. /\ stack[i].next \in Nat /\ Len(stack) \in Nat /\ i \in 1..Len(stack)
        /\ stack'[i].path = stack[i].path /\ stack'[i].next = stack[i].next
        /\ project' = project /\ st.included \subseteq st'.included
    BY <1>1, <1>3, <1>5, <2>1
  <2> QED BY <2>1, <2>2, <2>3, HandledMore
<1>10. ASSUME NEW q \in st'.included PROVE Done(q)'
  <2>1. CASE q \in st.included
    BY <1>1, <1>5, <2>1, SameFiles DEF Reading, Done
  <2>2. CASE q = p
    <3>1. /\ \A m \in 1..Len(Imp(p)) : Good(p, m)
          /\ Direct(p) \subseteq st.included /\ Beyond(p) \subseteq st.included
      BY <1>3, AllIn
    <3>2. /\ q \in Modules /\ q \notin st'.busy /\ Direct(q) \subseteq st'.included
          /\ \A m \in 1..Len(Imp(q)) : Good(q, m)
          /\ q \notin Beyond(q) /\ ~Exposes(project.files[q].items)
      BY <1>1, <1>3, <1>4, <1>5, <2>2, <3>1
    <3>4. Kept(q)
      BY <1>1, <1>3, <1>4, <2>2, KeptAtEmit
    <3>3. project' = project
      BY <1>1
    <3> QED BY ONLY <3>2, <3>3, <3>4, SameFiles DEF Done
  <2> QED BY <1>5, <2>1, <2>2
<1>11. NamesKept'
  BY <1>4, <1>5 DEF Reading, NamesKept, Known
<1>12. FlatSoFar'
  <2>1. Prefix = <<NameOf(p)>>
    BY DEF Prefix
  <2>2. project' = project
    BY <1>1
  <2>3. \A q : ItemNames(q)' = ItemNames(q)
    BY <2>2, SameFiles
  <2> QED BY <1>2, <1>4, <1>5, <2>1, <2>3, FlatGrows DEF FlatSoFar
<1>13. Marks'
  <2>1. Prefix = <<NameOf(p)>>
    BY DEF Prefix
  <2> QED BY <1>1, <1>5, <2>1, MarksGrow
<1> QED BY <1>6, <1>7, <1>8, <1>9, <1>10, <1>11, <1>12, <1>13 DEF Reading

\* The entry's own items are the last of the program.
LEMMA EmitLast ==
  ASSUME Reading, Emit, Len(stack) = 1, outcome' # "private"
  PROVE  outcome' = "resolved" /\ EachItemOnce' /\ ImportsRight' /\ TypesShown' /\ PrivateKept'
<1> DEFINE p == Top.path
<1>1. project' = project /\ outcome' = "resolved"
  BY EmitMakes
<1>2. PICK new : Added(new)
  BY EmitMakes
<1>3. Top.next > Len(Imp(p)) /\ IsProject(project) /\ p \in Files
  BY AtTop DEF Emit, Reading, Typed
<1>4. p = project.entry /\ st.included = Modules /\ ImportsRight /\ TypesShown
  BY <1>3, AllModules
<1>5. Program = st.included \cup {p} /\ Program \subseteq Files
  BY <1>3, <1>4 DEF Program, Reading, Typed
<1>6. p \notin st.included
  BY <1>3, <1>4 DEF Reading, Done, Modules, Beyond
<1>14. PrivateKept'
  <2>1. Kept(p)
    BY <1>3, <1>6, EmitMakes, KeptAtEmit
  <2>2. \A q \in Program : Kept(q)
    BY <1>5, <2>1 DEF Reading, Done
  <2>3. ASSUME NEW u \in Uses PROVE UsesPublic(u[2], u[1])
    <3>1. PICK y \in Everything : u \in {y[1]} \X ToSet(Forms(y[2]))
      BY DEF Uses
    <3>2. PICK q \in Program : y \in ItemsOf(q)
      BY DEF Everything
    <3>3. y[1] = q /\ y[2] \in ToSet(project.files[q].items) /\ u[1] = q /\ u[2] \in ToSet(Forms(y[2]))
      BY <3>1, <3>2 DEF ItemsOf
    <3> QED BY <2>2, <3>3 DEF Kept
  <2> QED BY <1>1, <2>3, SameFiles
<1> DEFINE flat == st'.flat
<1>7. /\ \A n \in DOMAIN flat :
           /\ flat[n].path \in st.included \cup {p} /\ flat[n].as \in ItemNames(flat[n].path)
           /\ flat[n].path \in st.included => flat[n].name = <<NameOf(flat[n].path)>> \o <<flat[n].as>>
           /\ flat[n].path = p => flat[n].name = <<>> \o <<flat[n].as>>
      /\ \A q \in st.included \cup {p} : \A a \in ItemNames(q) : \E n \in DOMAIN flat : flat[n].path = q /\ flat[n].as = a
      /\ \A n, m \in DOMAIN flat : flat[n].path = flat[m].path /\ flat[n].as = flat[m].as => n = m
  <2>1. Prefix = <<>>
    BY DEF Prefix
  <2> QED BY <1>2, <1>6, <2>1, FlatGrows
<1> HIDE DEF flat, p
<1>8. ASSUME NEW n \in DOMAIN flat, NEW m \in DOMAIN flat, flat[n].name = flat[m].name PROVE n = m
  <2>1. ASSUME NEW k \in DOMAIN flat
        PROVE  /\ flat[k].path \in st.included \/ flat[k].path = p
               /\ flat[k].path \in st.included =>
                    Len(flat[k].name) = 2 /\ flat[k].name[1] = NameOf(flat[k].path) /\ flat[k].name[2] = flat[k].as
               /\ flat[k].path = p => Len(flat[k].name) = 1 /\ flat[k].name[1] = flat[k].as
    <3> DEFINE name == flat[k].name
               a == flat[k].as
               q == NameOf(flat[k].path)
    <3>1. flat[k].path \in st.included \/ flat[k].path = p
      BY <1>7
    <3>2. flat[k].path \in st.included => name = <<q>> \o <<a>>
      BY <1>7
    <3>3. flat[k].path = p => name = <<>> \o <<a>>
      BY <1>7
    <3> HIDE DEF name, a, q
    <3>4. name = <<q>> \o <<a>> => Len(name) = 2 /\ name[1] = q /\ name[2] = a
      <4>1. Len(<<q>> \o <<a>>) = 2 /\ (<<q>> \o <<a>>)[1] = q /\ (<<q>> \o <<a>>)[2] = a
        BY ONLY Parts, Zenon
      <4> QED BY ONLY <4>1, Zenon
    <3>5. name = <<>> \o <<a>> => Len(name) = 1 /\ name[1] = a
      BY Parts
    <3> QED BY ONLY <3>1, <3>2, <3>3, <3>4, <3>5 DEF name, a, q
  <2>2. \/ flat[n].path \in st.included /\ flat[m].path \in st.included
        \/ flat[n].path = p /\ flat[m].path = p
    BY <1>8, <2>1
  <2>3. flat[n].path = flat[m].path /\ flat[n].as = flat[m].as
    <3>1. CASE flat[n].path \in st.included /\ flat[m].path \in st.included
      <4>1. NameOf(flat[n].path) = NameOf(flat[m].path) /\ flat[n].as = flat[m].as
        BY <1>8, <2>1, <3>1
      <4> QED BY <1>4, <3>1, <4>1 DEF ImportsRight
    <3>2. CASE flat[n].path = p /\ flat[m].path = p
      BY <1>8, <2>1, <3>2
    <3> QED BY <2>2, <3>1, <3>2
  <2> QED BY <1>7, <2>3
<1>9. ASSUME NEW n \in DOMAIN flat PROVE Source(flat[n]) \in Everything
  <2>1. flat[n].path \in Program /\ flat[n].path \in Files
    BY <1>5, <1>7
  <2>2. PICK item \in ToSet(project.files[flat[n].path].items) : item.name = flat[n].as
    <3>1. flat[n].as \in ItemNames(flat[n].path)
      BY <1>7
    <3> QED BY ONLY <3>1 DEF ItemNames
  <2>3. Source(flat[n]) = <<flat[n].path, item>>
    BY <1>3, <2>1, <2>2, SourceIs
  <2> QED BY <2>1, <2>2, <2>3 DEF Everything, ItemsOf
<1>10. ASSUME NEW x \in Everything PROVE \E n \in DOMAIN flat : x = Source(flat[n])
  <2>1. PICK q \in Program : x \in ItemsOf(q)
    BY DEF Everything
  <2>2. PICK item \in ToSet(project.files[q].items) : x = <<q, item>>
    BY <2>1 DEF ItemsOf
  <2>3. item.name \in ItemNames(q)
    BY DEF ItemNames
  <2>4. PICK n \in DOMAIN flat : flat[n].path = q /\ flat[n].as = item.name
    BY <1>5, <1>7, <2>3
  <2>5. Source(flat[n]) = <<q, item>>
    BY <1>3, <1>5, <2>4, SourceIs
  <2> QED BY <2>2, <2>5
<1>11. {Source(g) : g \in ToSet(flat)} = Everything
  BY <1>9, <1>10 DEF ToSet
<1>12. IsInjective([n \in DOMAIN flat |-> flat[n].name])
  BY <1>8 DEF IsInjective
<1>13. EachItemOnce'
  <2>1. Everything' = Everything /\ \A g : Source(g)' = Source(g)
    BY <1>1, SameFiles DEF Everything, Source, ItemsOf
  <2> QED BY <1>11, <1>12, <2>1 DEF EachItemOnce, flat
<1> QED BY <1>1, <1>4, <1>13, <1>14, SameFiles

-----------------------------------------------------------------------------
\* Resolving one project, which stays as it is.
Spec == InitOn(project) /\ [][Next]_vars

\* Nothing is in at first, and the entry is at its first import.
LEMMA ReadInit ==
  ASSUME InitOn(project)
  PROVE  ReadInv
<1>1. /\ IsProject(project) /\ outcome = "" /\ st = Nothing
      /\ stack = <<[path |-> project.entry, next |-> 1]>>
  BY DEF InitOn
<1>2. /\ Len(stack) = 1 /\ stack[1].path = project.entry /\ stack[1].next = 1
      /\ stack \in Seq([path : Files, next : Nat \ {0}])
  <2> DEFINE e == [path |-> project.entry, next |-> 1]
             R == [path : Files, next : Nat \ {0}]
  <2>1. e \in R /\ e.path = project.entry /\ e.next = 1
    <3>1. project.entry \in Files
      BY <1>1 DEF IsProject, IsList, Files
    <3> QED BY <3>1
  <2>2. stack = <<e>>
    BY <1>1
  <2> HIDE DEF e, R
  <2>3. <<e>> \in Seq(R) /\ Len(<<e>>) = 1 /\ <<e>>[1] = e
    BY <2>1
  <2> QED BY <2>1, <2>2, <2>3 DEF R
<1>3. st.included = {} /\ st.busy = {} /\ st.names = << >> /\ st.flat = <<>>
  BY <1>1 DEF Nothing
<1>4. Typed
  <2>1. st = [names |-> st.names, included |-> st.included, busy |-> st.busy, templates |-> st.templates,
              public |-> st.public, fields |-> st.fields, order |-> st.order, values |-> st.values, flat |-> st.flat]
    BY <1>1 DEF Nothing
  <2>2. 1 > 0
    OBVIOUS
  <2> QED BY <1>1, <1>2, <1>3, <2>1, <2>2 DEF Typed
<1>5. Chain
  BY <1>2, <1>3 DEF Chain
<1>6. \A i \in 1..Len(stack) : Handled(i)
  <2>1. Len(Imp(project.entry)) \in Nat
    BY <1>1, ImportsOf DEF IsProject, IsList, Files
  <2> QED BY <1>2, <2>1 DEF Handled
<1>7. NamesKept
  BY <1>3 DEF NamesKept, Known
<1>8. FlatSoFar
  BY <1>3 DEF FlatSoFar, ToSet
<1>9. Marks
  <2>1. st.public = {} /\ st.fields = << >>
    BY <1>1 DEF Nothing
  <2>2. DOMAIN << >> = {}
    OBVIOUS
  <2> QED BY <1>3, <2>1, <2>2 DEF Marks
<1> QED BY <1>1, <1>3, <1>4, <1>5, <1>6, <1>7, <1>8, <1>9
        DEF ReadInv, Reading, EachItemOnce, ReadForCause, PrivateKept

\* A step that leaves the files and what is kept of them leaves the invariant.
LEMMA StillReading ==
  ASSUME Reading, UNCHANGED <<project, stack, st>>
  PROVE  Reading'
<1>1. project' = project /\ stack' = stack /\ st' = st
  OBVIOUS
<1>2. Typed'
  BY <1>1, SameFiles DEF Reading, Typed
<1>3. Chain'
  BY <1>1, SamePaths, AtTop DEF Reading
<1>4. ASSUME NEW i \in 1..Len(stack) PROVE Handled(i)'
  BY <1>1, SameFiles DEF Reading, Handled
<1>5. \A p \in st.included : Done(p)'
  BY <1>1, SameFiles DEF Reading, Done
<1>6. NamesKept'
  BY <1>1 DEF Reading, NamesKept, Known
<1>7. FlatSoFar'
  BY <1>1, SameFlat DEF Reading
<1>8. Marks'
  BY <1>1, SameMarks DEF Reading
<1> QED BY <1>1, <1>2, <1>3, <1>4, <1>5, <1>6, <1>7, <1>8 DEF Reading

\* Every step keeps it, or ends the resolution.
LEMMA ReadStep ==
  ASSUME ReadInv, [Next]_vars
  PROVE  ReadInv'
<1>1. CASE UNCHANGED vars
  <2>1. UNCHANGED <<project, stack, st, outcome>>
    BY <1>1 DEF vars
  <2>2. EachItemOnce'
    <3>1. Everything' = Everything /\ \A g : Source(g)' = Source(g)
      BY <2>1, SameFiles DEF Everything, Source, ItemsOf
    <3> QED BY <2>1, <3>1 DEF ReadInv, EachItemOnce
  <2>3. ReadForCause'
    BY <2>1, SameFiles DEF ReadInv, ReadForCause
  <2>4. PrivateKept'
    BY <2>1, SameFiles DEF ReadInv, PrivateKept
  <2> QED BY <2>1, <2>2, <2>3, <2>4, StillReading DEF ReadInv
<1>2. CASE Next
  <2>1. outcome = "" /\ Reading
    BY <1>2 DEF ReadInv, Next, NotFound, TwoOfOneName, Again, Circular, Enter, Emit, Going, Reaches
  <2>2. ASSUME NEW why \in {"not found", "two of one name", "circular"}, Refuse(why), ~ImportsRight PROVE ReadInv'
    <3>1. outcome' = why /\ UNCHANGED <<project, stack, st>>
      BY <2>2 DEF Refuse
    <3>2. ~ImportsRight'
      BY <2>2, <3>1, SameFiles
    <3> QED BY <2>1, <3>1, <3>2, StillReading DEF ReadInv, EachItemOnce, ReadForCause, PrivateKept
  <2>3. CASE NotFound
    BY <2>1, <2>2, <2>3, NotFoundStep DEF NotFound
  <2>4. CASE TwoOfOneName
    BY <2>1, <2>2, <2>4, TwoOfOneNameStep DEF TwoOfOneName
  <2>5. CASE Circular
    BY <2>1, <2>2, <2>5, CircularStep DEF Circular
  <2>6. ASSUME Reading', outcome' = "" PROVE ReadInv'
    BY <2>6 DEF ReadInv, EachItemOnce, ReadForCause, PrivateKept
  <2>7. CASE Again
    BY <2>1, <2>6, <2>7, AgainStep DEF Again
  <2>8. CASE Enter
    BY <2>1, <2>6, <2>8, EnterStep DEF Enter
  <2>9. CASE Emit
    <3>1. CASE outcome' = "private"
      <4>1. project' = project /\ UNCHANGED <<stack, st>>
        BY <2>1, <2>9, <3>1, EmitMakes
      <4> QED BY <2>1, <3>1, <4>1, StillReading DEF ReadInv, EachItemOnce, ReadForCause, PrivateKept
    <3>2. CASE outcome' # "private" /\ Len(stack) = 1
      BY <2>1, <2>9, <3>2, EmitLast DEF ReadInv, ReadForCause
    <3>3. CASE outcome' # "private" /\ Len(stack) # 1
      <4>1. outcome' = ""
        BY <2>1, <2>9, <3>3, EmitMakes
      <4> QED BY <2>1, <2>6, <2>9, <3>3, <4>1, EmitStep
    <3> QED BY <3>1, <3>2, <3>3
  <2> QED BY <1>2, <2>3, <2>4, <2>5, <2>7, <2>8, <2>9 DEF Next
<1> QED BY <1>1, <1>2

LEMMA ReadInvHolds == Spec => []ReadInv
<1>1. InitOn(project) => ReadInv
  BY ReadInit
<1>2. ReadInv /\ [Next]_vars => ReadInv'
  BY ReadStep
<1> QED BY <1>1, <1>2, PTL DEF Spec

\* In a program that is resolved, every item of the files it imports is there
\* once, under a name that no other item has (resolve_import, emit_module).
THEOREM ItemsOnce == Spec => []EachItemOnce
<1>1. ReadInv => EachItemOnce
  BY DEF ReadInv
<1> QED BY <1>1, ReadInvHolds, PTL

\* A program is refused while its imports are followed only if one of them finds
\* no file, two of its modules have one name or one imports itself, and resolved
\* only if none do, and no module shows a type that it keeps to itself
\* (resolve_import, check_exposure).
THEOREM RefusedAsItReads == Spec => []ReadForCause
<1>1. ReadInv => ReadForCause
  BY DEF ReadInv
<1> QED BY <1>1, ReadInvHolds, PTL

\* In a program that is resolved, each name that only another file's item can
\* have is that of an item which its module makes public, and no field is read
\* or written so that its struct does not show (check_item, check_decl, check_field).
THEOREM PrivateStaysPrivate == Spec => []PrivateKept
<1>1. ReadInv => PrivateKept
  BY DEF ReadInv
<1> QED BY <1>1, ReadInvHolds, PTL
=============================================================================
