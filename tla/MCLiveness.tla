----------------------------- MODULE MCLiveness -----------------------------
(***************************************************************************)
(* Small functions: the skeleton of each is fixed, and the operands of     *)
(* some instructions range over what is defined where they are.            *)
(***************************************************************************)
EXTENDS Liveness, TLC

CONSTANTS a, b, x, y, p, q, t

AllVariables == {a, b, x, y, p, q, t}

Use(S) == S \ {None}
Inst(n, d, uses) ==
  [node |-> n, dest |-> d, uses |-> Use(uses), from |-> <<>>, effect |-> FALSE, redefined |-> FALSE]
Redefine(n, d, uses) == [Inst(n, d, uses) EXCEPT !.redefined = TRUE]
Call(n, d, uses) == [Inst(n, d, uses) EXCEPT !.effect = TRUE]
Branch(n, use) == Inst(n, None, {use})
Phi(n, d, from) ==
  [Inst(n, d, {from[m] : m \in DOMAIN from}) EXCEPT !.from = from]

(***************************************************************************)
(* A loop: 1 enters it, 2 is its header, 3 its latch, 4 follows it.        *)
(***************************************************************************)
Loops ==
  {[nodes |-> 4, succ |-> <<{2}, {3, 4}, {2}, {}>>,
    code |-> <<Inst(1, x, {a}), Branch(1, None),
               Phi(2, p, 1 :> x @@ 3 :> o1), Phi(2, q, 1 :> b @@ 3 :> o2),
               Branch(2, o3),
               Inst(3, y, {o4}), Branch(3, None),
               Branch(4, o5)>>] :
     o1 \in {p, q, x, y}, o2 \in {None, p, q, y}, o3 \in {None, a, p}, o4 \in {b, p, q},
     o5 \in {None, x, p, q}}

(***************************************************************************)
(* A loop of one node that begins with its body.                           *)
(***************************************************************************)
RotatedLoops ==
  {[nodes |-> 3, succ |-> <<{2}, {2, 3}, {}>>,
    code |-> <<Inst(1, x, {a, b}), Branch(1, None),
               Phi(2, p, 1 :> x @@ 2 :> o1), Phi(2, q, 1 :> b @@ 2 :> o2),
               Inst(2, t, {o3}), Redefine(2, t, {t, o4}), Inst(2, y, {t}), Branch(2, o5),
               Branch(3, o6)>>] :
     o1 \in {p, q, y}, o2 \in {p, y}, o3 \in {p, q}, o4 \in {a, q}, o5 \in {None, y},
     o6 \in {None, x, p, q, y}}

(***************************************************************************)
(* A loop without phis, and one with a phi that was lowered: t is read at  *)
(* the start of its block and written again at the end.                    *)
(***************************************************************************)
PlainLoops ==
  {[nodes |-> 4, succ |-> <<{2}, {3, 4}, {2}, {}>>,
    code |-> <<Inst(1, x, {a}), Branch(1, None), Branch(2, o1),
               Inst(3, y, {o2}), Call(3, None, {y}), Branch(3, o3), Branch(4, o4)>>] :
     o1 \in {None, b, x}, o2 \in {a, b, x}, o3 \in {None, b, y}, o4 \in {None, a, x}}
LoweredLoops ==
  {[nodes |-> 3, succ |-> <<{2}, {2, 3}, {}>>,
    code |-> <<Inst(1, t, {a}), Branch(1, None),
               Inst(2, p, {t}), Inst(2, y, {o1}), Inst(2, t, {o2}), Branch(2, o3),
               Branch(3, o4)>>] :
     o1 \in {b, p}, o2 \in {b, p, y}, o3 \in {None, p, y}, o4 \in {None, p, y}}

(***************************************************************************)
(* Two ways that join.                                                     *)
(***************************************************************************)
Diamonds ==
  {[nodes |-> 4, succ |-> <<{2, 3}, {4}, {4}, {}>>,
    code |-> <<Inst(1, x, {o1}), Branch(1, o2),
               Inst(2, t, {x}), Redefine(2, t, {t, b}), Inst(2, y, {t}), Branch(2, None),
               Call(3, o3, {a}), Branch(3, None),
               Phi(4, p, 2 :> y @@ 3 :> o4), Branch(4, o5)>>] :
     o1 \in {a, b}, o2 \in {None, a, x}, o3 \in {None, q}, o4 \in {None, a, x},
     o5 \in {None, a, b, x, p}}

(***************************************************************************)
(* As RotatedLoops, but what follows the loop comes before it.             *)
(***************************************************************************)
CleanupFirst ==
  {[nodes |-> 3, succ |-> <<{3}, {}, {2, 3}>>,
    code |-> <<Inst(1, x, {a}), Branch(1, None),
               Phi(2, y, 3 :> o1), Branch(2, o2),
               Phi(3, p, 1 :> x @@ 3 :> o3), Phi(3, q, 1 :> b @@ 3 :> o4), Branch(3, o5)>>] :
     o1 \in {p, q}, o2 \in {None, p, q}, o3 \in {a, p}, o4 \in {a, p, q}, o5 \in {None, p}}

InOrder == Loops \cup RotatedLoops \cup PlainLoops \cup LoweredLoops \cup Diamonds
AnyOrder == Loops \cup CleanupFirst
=============================================================================
