--------------------------- MODULE PredicateFrames ---------------------------
(***************************************************************************)
(* The queries of Predicate, computed frame by frame: up to the current    *)
(* frame an unrolling does not depend on f, and from there on the          *)
(* unrollings of all f advance in step, on the same inputs.                *)
(***************************************************************************)
EXTENDS Predicate, EncoderFrames

\* The current input with f on the unique bits and g on the others.
Join(f, g) == f @@ g

\* One unrolling: is it still a target, its states, the keys it has seen and
\* whether it has met one of them again.  It is Void once it contradicts.
Void == <<"void">>
Start(q) == <<"target", q, {}, FALSE>>

Observe(t) ==
  IF t[1] # "target" THEN t
  ELSE <<"target", t[2], t[3] \cup {KeyOf(t[2])}, t[4] \/ KeyOf(t[2]) \in t[3]>>

Forward(e, t, i1, i2) ==
  IF t = Void \/ ~(e.ok[<<t[2][1], i1>>] /\ e.ok[<<t[2][2], i2>>]) THEN Void
  ELSE LET next == <<e.nxt[<<t[2][1], i1>>], e.nxt[<<t[2][2], i2>>]>>
           same == e.out[<<t[2][1], i1>>] = e.out[<<t[2][2], i2>>]
       IN IF t[1] = "target" /\ same THEN <<"target", next, t[3], t[4]>>
                                     ELSE <<"other", next, {}, FALSE>>

\* The unrollings of all f together, as long as one of them is a target.
Alive(V) == {v \in V : \E f \in DOMAIN v : v[f][1] = "target"}

FirstSheaves(e, U, A) ==
  LET rest == {On(Bits(e) \ U, i) : i \in e.inputs}
      both == {g \in rest \X rest : g[1] # g[2]}
  IN Alive({Table([f \in Values(e, U) |-> Forward(e, Start(s), Join(f, g[1]), Join(f, g[2]))]) :
              s \in A, g \in both})

RECURSIVE Sheaves(_, _, _, _)
Sheaves(e, looping, V, n) ==
  IF n = 0 THEN V
  ELSE LET later == {Table([f \in DOMAIN v |->
                        Forward(e, IF looping THEN Observe(v[f]) ELSE v[f], i[1], i[2])]) :
                       v \in V, i \in e.inputs \X e.inputs}
       IN Sheaves(e, looping, Alive(later), n - 1)

ContextsOf(looping, V) ==
  LET Target(t) == t[1] = "target" /\ (looping => t[4])
      Other(t)  == t # Void /\ ~Target(t)
      answers == {[must |-> {f \in DOMAIN v : Target(v[f])},
                   may  |-> {f \in DOMAIN v : ~Other(v[f])}] : v \in V}
  IN {z \in answers : z.must # {}}

NonloopQueryByFrame(e, U, n0, n1, n2) ==
  ContextsOf(FALSE, Sheaves(e, FALSE, FirstSheaves(e, U, PairsAt(e, n0 + n1, n0)), n2))

LoopQueryByFrame(e, U, n0, n1, n2) ==
  LET atP    == PairsAfterLoop(e, AllFrames(e), Pairs(e), n0)
      before == PairsAfterLoop(e, EqualFrames(e), atP, n1)
  IN ContextsOf(TRUE, Sheaves(e, TRUE, FirstSheaves(e, U, before), n2))
=============================================================================
