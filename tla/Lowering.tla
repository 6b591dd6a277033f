------------------------------ MODULE Lowering ------------------------------
(***************************************************************************)
(* What happens to a function between its text and its two back ends:      *)
(* scopes.rs renames a local that is declared again where its first        *)
(* declaration is no longer visible, and formats.rs rewrites its tries and *)
(* then its defers into matches, lets and returns.                         *)
(*                                                                         *)
(* A function is [params, ret, req, ens, body, unsafe], with params a      *)
(* sequence of <<name, type>> and a defer a statement of the body.         *)
(***************************************************************************)
EXTENDS Syntax, TLC

\* Faulty variants of the operations below, for trying the properties on.

\* a name declared again keeps its name, and its first declaration's local
SameName(n, k) == n
\* the defers in the order they were written
InOrder(d, active) == active \o d

-----------------------------------------------------------------------------
\* A state s of Scopes: how often each name was declared (seen), and what the
\* visible names are written as (env).
NewName(n, k) == IF k = 1 THEN n ELSE "'" \o ToString(k) \o "." \o n

Declare(a, n) ==
  IF n \in DOMAIN a.s.env THEN [a EXCEPT !.names = Append(@, a.s.env[n])]
  ELSE LET k == IF n \in DOMAIN a.s.seen THEN a.s.seen[n] + 1 ELSE 1
       IN [names |-> Append(a.names, NewName(n, k)),
           s |-> [seen |-> (n :> k) @@ a.s.seen, env |-> (n :> NewName(n, k)) @@ a.s.env]]

RECURSIVE Walk(_, _)
Walked(a, r) == [es |-> Append(a.es, r.e), s |-> r.s]
WalkAll(es, s) == FoldLeft(LAMBDA a, x : Walked(a, Walk(x, a.s)), [es |-> <<>>, s |-> s], es)

\* scoped: expressions in a scope of their own, after the names it declares
DeclareAll(names, s) == FoldLeft(Declare, [names |-> <<>>, s |-> s], names)
Scoping(names, es, s) ==
  LET close(d, r) == [names |-> d.names, es |-> r.es, s |-> [r.s EXCEPT !.env = s.env]]
      open(d)     == close(d, WalkAll(es, d.s))
  IN open(DeclareAll(names, s))

\* How many children come before the first scope; whether each later one has
\* a scope of its own, or they share one.
Heads(e) == CASE e.k \in {"if", "while", "match", "match_result"} -> 1 [] e.k = "loop" -> 3 [] OTHER -> 0
Branching(e) == e.k \in {"if", "match", "match_result"}
\* What the n-th child, a branch, binds, and its expressions.
Binds(e, n) == CASE e.k = "match" -> Kid(e, n).b [] e.k = "match_result" -> <<e.b[n - 1]>> [] OTHER -> <<>>
Branch(e, n) == IF e.k = "if" THEN <<Kid(e, n)>> ELSE Kid(e, n).as

WalkBranches(e, s) ==
  LET branch(a, n, r) ==
        LET x == IF e.k = "if" THEN r.es[1] ELSE [Kid(e, n) EXCEPT !.as = r.es]
        IN [s |-> r.s,
            e |-> CASE e.k = "match" -> [a.e EXCEPT !.as[n] = [x EXCEPT !.b = r.names]]
                    [] e.k = "match_result" -> [a.e EXCEPT !.as[n] = x, !.b[n - 1] = r.names[1]]
                    [] OTHER -> [a.e EXCEPT !.as[n] = x]]
  IN FoldLeft(LAMBDA a, n : branch(a, n, Scoping(Binds(e, n), Branch(e, n), a.s)),
              [e |-> e, s |-> s], [n \in 1..(Len(e.as) - 1) |-> n + 1])

Written(n, s) == IF n \in DOMAIN s.env THEN s.env[n] ELSE n

\* What e is with its heads h walked, the rest r of its children, or all of
\* them, h; d is the scope with a let's name in it.
InBranches(e, h) == WalkBranches([e EXCEPT !.as[1] = h.es[1]], h.s)
InOneScope(e, h, r) == [e |-> [e EXCEPT !.as = h.es \o r.es, !.s = IF e.k = "loop" THEN r.names[1] ELSE @], s |-> r.s]
InNone(e, s, h, d) ==
  CASE e.k = "let" -> [e |-> [e EXCEPT !.as = h.es, !.s = d.names[1]], s |-> d.s]
    [] e.k \in {"var", "set"} -> [e |-> [e EXCEPT !.as = h.es, !.s = Written(@, s)], s |-> h.s]
    [] OTHER -> [e |-> [e EXCEPT !.as = h.es], s |-> h.s]

Walk(e, s) ==
  LET around(h) == InOneScope(e, h, Scoping(IF e.k = "loop" THEN <<e.s>> ELSE <<>>, Rest(e, Heads(e) + 1), h.s))
      plain(h)  == InNone(e, s, h, DeclareAll(<<e.s>>, h.s))
      heads     == SubSeq(e.as, 1, Heads(e))
  IN CASE Branching(e) -> InBranches(e, WalkAll(heads, s))
       [] e.k \in {"block", "defer", "while", "loop"} -> around(WalkAll(heads, s))
       [] OTHER -> plain(WalkAll(e.as, s))

\* Contracts come before the body, each a scope.
RenameLocals(f) ==
  LET noted(a, r) == [es |-> a.es \o r.es, s |-> r.s]
      contracts(es, s) == FoldLeft(LAMBDA a, c : noted(a, Scoping(<<>>, <<c>>, a.s)), [es |-> <<>>, s |-> s], es)
      finish(c, body) == [f EXCEPT !.req = SubSeq(c.es, 1, Len(f.req)),
                                   !.ens = SubSeq(c.es, Len(f.req) + 1, Len(c.es)), !.body = body.es]
      whole(c) == finish(c, WalkAll(f.body, c.s))
      fresh == [seen |-> << >>, env |-> << >>]
  IN whole(contracts(f.req \o f.ens, DeclareAll(Each(LAMBDA p : p[1], f.params), fresh).s))

-----------------------------------------------------------------------------
Noted(a, r) == [es |-> Append(a.es, r.e), n |-> r.n]

\* lower_try, its operand first; n counts the function's tries.
RECURSIVE LowerExpr(_, _, _)
LowerAll(es, ret, n) ==
  FoldLeft(LAMBDA a, x : Noted(a, LowerExpr(x, ret, a.n)), [es |-> <<>>, n |-> n], es)
LowerExpr(e, ret, n) ==
  LET try(v, x, r) == [n |-> r.n + 1,
                       e |-> MatchResult(r.es[1], v, <<Var(v)>>, x, <<Return(Err(ret, Var(x)))>>)]
      lower(r) == IF e.k = "try" THEN try("_try_" \o ToString(r.n + 1), "_try_err_" \o ToString(r.n + 1), r)
                  ELSE [n |-> r.n, e |-> [e EXCEPT !.as = r.es]]
  IN lower(LowerAll(e.as, ret, n))

\* wrap_returns: each return runs the defers active after its value, which is
\* numbered before a return in it.
RECURSIVE WrapReturns(_, _, _, _)
WrapReturns(e, active, ret, n) ==
  IF e.k = "return"
  THEN IF e.as = <<>> THEN [e |-> Block(active \o <<Leave>>), n |-> n]
       ELSE LET kept(v, r) == [e |-> Block(<<Let(v, ret, r.e)>> \o active \o <<Return(Var(v))>>), n |-> r.n]
            IN kept("_defer_ret_" \o ToString(n + 1), WrapReturns(Kid(e, 1), active, ret, n + 1))
  ELSE LET inside(r) == [e |-> [e EXCEPT !.as = r.es], n |-> r.n]
       IN inside(FoldLeft(LAMBDA a, x : Noted(a, WrapReturns(x, active, ret, a.n)), [es |-> <<>>, n |-> n], e.as))

\* lower_defers: the newest defer first.
Newest(d, active) == d \o active
LowerDefers(body, ret) ==
  LET after(a, r) == [a EXCEPT !.out = Append(@, r.e), !.n = r.n]
      step(a, e) ==
        IF e.k = "defer" THEN [a EXCEPT !.active = Newest(e.as, @)]
        ELSE IF a.active = <<>> THEN [a EXCEPT !.out = Append(@, e)]
        ELSE after(a, WrapReturns(e, a.active, ret, a.n))
      close(all) ==
        IF all.active = <<>> \/ (all.out # <<>> /\ Diverges(Last(all.out))) THEN all.out
        ELSE IF all.out # <<>> /\ ret # "void"
        THEN Front(all.out) \o <<Let("_defer_val", ret, Last(all.out))>> \o all.active \o <<Var("_defer_val")>>
        ELSE all.out \o all.active
  IN close(FoldLeft(step, [out |-> <<>>, active |-> <<>>, n |-> 0], body))

Tried(f) == LET own(body, c) == [f EXCEPT !.body = body.es, !.req = SubSeq(c, 1, Len(f.req)),
                                          !.ens = SubSeq(c, Len(f.req) + 1, Len(c))]
                given(body) == own(body, LowerAll(f.req \o f.ens, f.ret, body.n).es)
            IN given(LowerAll(f.body, f.ret, 0))
Deferred(f) == [f EXCEPT !.body = LowerDefers(f.body, f.ret)]
Lower(f) == Deferred(Tried(f))

Renamed(prog) == [name \in DOMAIN prog |-> RenameLocals(prog[name])]
Lowered(prog) == [name \in DOMAIN prog |-> Lower(prog[name])]
=============================================================================
