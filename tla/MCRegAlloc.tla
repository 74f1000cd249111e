------------------------------ MODULE MCRegAlloc ------------------------------
(***************************************************************************)
(* Small functions for register allocation.  Three registers: A and B, and *)
(* the pair AB, for variables of two units.  A (so AB) is scratch.         *)
(***************************************************************************)
EXTENDS RegisterAllocation, TLC

CONSTANTS a, b, x, y, p, q, t, e, UnitA, UnitB

AllVariables == {a, b, x, y, p, q, t, e}
ThreeRegisters == <<<<UnitA>>, <<UnitB>>, <<UnitA, UnitB>>>>
AandAB == {1, 3}
A == 1
B == 2
AB == 3

Use(S) == S \ {None}
Inst(n, d, uses) ==
  [node |-> n, dest |-> d, uses |-> Use(uses), from |-> <<>>, effect |-> FALSE, redefined |-> FALSE,
   copy |-> FALSE, call |-> FALSE, kill |-> FALSE]
Copy(n, d, v) == [Inst(n, d, {v}) EXCEPT !.copy = TRUE]
Redefine(n, d, uses) == [Inst(n, d, uses) EXCEPT !.redefined = TRUE]
Call(n, d, uses) == [Inst(n, d, uses) EXCEPT !.effect = TRUE, !.call = TRUE]
Kill(n) == [Inst(n, None, {}) EXCEPT !.effect = TRUE, !.kill = TRUE]
Branch(n, use) == Inst(n, None, {use})
Phi(n, d, from) == [Inst(n, d, {from[m] : m \in DOMAIN from}) EXCEPT !.from = from]

NoRegs == [v \in AllVariables |-> NoReg]
Function(nodes, succ, code) ==
  [nodes |-> nodes, succ |-> succ, code |-> code, kind |-> "Global", repeat |-> TRUE, reg |-> NoRegs,
   must |-> {}, mustNot |-> {}, wide |-> {}, depth |-> [n \in 1 .. nodes |-> 0], reserve |-> {}]

(***************************************************************************)
(* A loop with copies: who may share a register with whom, and for how     *)
(* long.                                                                   *)
(***************************************************************************)
CopyLoops ==
  {[Function(3, <<{2}, {2, 3}, {}>>,
     <<Copy(1, x, a), Branch(1, None),
       Phi(2, p, 1 :> x @@ 2 :> o1), Copy(2, t, o2), redef, Copy(2, y, o3), Inst(2, q, {o4, t}),
       Branch(2, y), Branch(3, o5)>>) EXCEPT !.depth[2] = 1] :
     o1 \in {q, y, t}, o2 \in {p, x, a}, o3 \in {p, t, x}, o4 \in {p, y}, o5 \in {None, p, a},
     redef \in {Redefine(2, t, {t, b}), Redefine(2, p, {p, b}), Branch(2, b)}}

(***************************************************************************)
(* Two copies of one variable, of which one is evicted when registers get  *)
(* scarce: a register is shared with a copy while the source is in its     *)
(* slot.                                                                   *)
(***************************************************************************)
TwoCopies ==
  {[Function(1, <<{}>>,
     <<Inst(1, x, {a}), Copy(1, t, x), Copy(1, y, o1), Inst(1, q, {o2, y}), Inst(1, p, {q, o3}),
       Inst(1, e, {p, q}), Inst(1, b, {e, o4}), Branch(1, b)>>)
     EXCEPT !.must = {q} \cup o5, !.mustNot = {a}] :
     o1 \in {x, t}, o2 \in {t, x}, o3 \in {None, t}, o4 \in {x, t, y}, o5 \in {{p}, {p, y}}}

(***************************************************************************)
(* Two phis that may exchange their values, of one or two units, and a     *)
(* copy of (a part of) one of them.                                        *)
(***************************************************************************)
PhiLoops ==
  {[Function(3, <<{2}, {2, 3}, {}>>,
     <<Copy(1, x, a), Branch(1, None),
       Phi(2, p, 1 :> x @@ 2 :> o1), Phi(2, q, 1 :> b @@ 2 :> o2), Copy(2, t, o3),
       Inst(2, y, {o4, t}), Branch(2, y), Branch(3, o5)>>) EXCEPT !.wide = o6] :
     o1 \in {p}, o2 \in {q, t, b}, o3 \in {p, q, x}, o4 \in {p, q}, o5 \in {None, p, q},
     o6 \in {{}, {p, x, a}}} \cup
  {Function(3, <<{2}, {2, 3}, {}>>,
     <<Copy(1, x, a), Branch(1, None),
       Phi(2, p, 1 :> x @@ 2 :> o1), Phi(2, q, 1 :> x @@ 2 :> o2), Copy(2, t, o3),
       Copy(2, y, o4), Branch(2, y), Branch(3, o5)>>) :
     o1 \in {q, t, y}, o2 \in {p, t, b}, o3 \in {p, q}, o4 \in {p, t, b}, o5 \in {None, p}}

(***************************************************************************)
(* A call in a loop: its argument and its result are pre-colored with the  *)
(* scratch register, which the call overwrites.                            *)
(***************************************************************************)
Calls ==
  {[Function(3, <<{2}, {2, 3}, {}>>,
     <<Copy(1, x, a), Branch(1, None),
       Phi(2, p, 1 :> x @@ 2 :> o1), Copy(2, e, o2), Call(2, t, {e}), Kill(2), Copy(2, y, t),
       Inst(2, q, {o3, y}), Branch(2, o4), Branch(3, o5)>>)
     EXCEPT !.reg[e] = A, !.reg[t] = A, !.depth[2] = 1, !.must = o6] :
     o1 \in {q, y, p}, o2 \in {p, a}, o3 \in {p, a, b}, o4 \in {None, q, x}, o5 \in {None, p, x},
     o6 \in {{}, {q}}}

(***************************************************************************)
(* Two ways that join: ranges with holes, variables that are defined twice,*)
(* pairs.                                                                  *)
(***************************************************************************)
Diamonds ==
  {[Function(4, <<{2, 3}, {4}, {4}, {}>>,
     <<Inst(1, x, {a}), Inst(1, y, {a}), Branch(1, b),
       Inst(2, p, {o1}), Inst(2, t, {p, y}), Branch(2, t),
       Inst(3, p, {o2}), Branch(3, o3),
       Inst(4, q, {p, o4}), Inst(4, e, {q}), Branch(4, e)>>) EXCEPT !.wide = o5, !.depth[o6] = 1] :
     o1 \in {a, y}, o2 \in {x, y}, o3 \in {None, x}, o4 \in {a, y, p},
     o5 \in {{}, {x}, {p}, {x, p}, {a}}, o6 \in {1, 2}} \cup
  {Function(4, <<{2, 3}, {4}, {4}, {}>>,
     <<Inst(1, p, {a}), Branch(1, o1),
       Inst(2, x, {o2}), Copy(2, t, x), Inst(2, p, {o3}), Inst(2, y, {p, o4}), Branch(2, y),
       Branch(3, p), Inst(4, q, {o5}), Inst(4, e, {q}), Branch(4, e)>>) :
     o1 \in {None, b}, o2 \in {None, a, b}, o3 \in {b, t, x}, o4 \in {t, x, b}, o5 \in {None, p, b}}

(***************************************************************************)
(* Variables of different weight that begin one after the other, with and  *)
(* without a second chance; some must have a register, some must not, and  *)
(* a register may be held in reserve.                                      *)
(***************************************************************************)
Pressure ==
  {[Function(2, <<{2}, {2}>>,
     <<Inst(1, x, {a}), Inst(1, y, {x}), Inst(1, t, {x, y}), Branch(1, y),
       Inst(2, p, {o1, b}), Inst(2, q, {p, o2}), Call(2, None, {q, o1}), Kill(2), Branch(2, p)>>)
     EXCEPT !.depth[2] = 2, !.must = o3, !.mustNot = o4, !.reserve = o5, !.repeat = o6, !.wide = o7] :
     o1 \in {x, y, t}, o2 \in {a, x}, o3 \in {{}, {p}, {p, q}, {x, y, p}}, o4 \in {{}, {a}},
     o5 \in {{}, {B}}, o6 \in BOOLEAN, o7 \in {{}, {q}}}

(***************************************************************************)
(* A pair that holds the reserve register, and a variable that must have a *)
(* register, across a call, while the pair is live.                        *)
(***************************************************************************)
Reserves ==
  {[Function(1, <<{}>>,
     <<Inst(1, p, {a}), Inst(1, q, {a, o1}), Call(1, None, {p, o2}), Kill(1), Inst(1, y, {q, o3}),
       Branch(1, y)>>)
     EXCEPT !.must = {q} \cup o4, !.mustNot = {a}, !.wide = {p}, !.reserve = {B}, !.repeat = o5] :
     o1 \in {None, p, b}, o2 \in {None, q, b}, o3 \in {None, p, b}, o4 \in {{}, {y}, {p}},
     o5 \in BOOLEAN}

(***************************************************************************)
(* Without liveness analysis (-Om1): only pre-colored variables and those  *)
(* that must have a register.                                              *)
(***************************************************************************)
Simple ==
  {[Function(2, <<{2}, {}>>,
     <<Copy(1, x, a), Copy(1, t, o1), Redefine(1, t, {t, o2}), Inst(1, q, {o3}), Copy(1, e, o5),
       Call(1, p, {e}), Kill(1), Copy(1, y, p), Branch(1, None), Inst(2, b, {o4}), Branch(2, b)>>)
     EXCEPT !.kind = "InfOnly", !.must = o6, !.reg[e] = A, !.reg[p] = A] :
     o1 \in {a, x}, o2 \in {x, t}, o3 \in {a, t}, o4 \in {x, y},
     o5 \in {q, t}, o6 \in {{t}, {t, q}, {t, q, b}}}

(***************************************************************************)
(* The block of an edge after phi lowering: copies through temporaries     *)
(* that must have a register, while all registers may hold variables that  *)
(* are live in what follows; and an address that is built up, in the       *)
(* register of the dest if it has one, while a temporary is live (ARM32    *)
(* without sandboxing).                                                    *)
(***************************************************************************)
EdgeBlocks ==
  {[Function(2, <<{2}, {}>>,
     <<Copy(1, t, a), Copy(1, x, t), Copy(1, q, o1), Copy(1, y, q), Branch(1, None),
       Inst(2, None, o2), Branch(2, x)>>)
     EXCEPT !.kind = "Phi", !.must = {t, q}, !.reg = [regs EXCEPT ![x] = IF wide = {} THEN @ ELSE 0],
            !.wide = wide] :
     o1 \in {b, p}, o2 \in {{y}, {y, b}, {y, b, p}, {y, p, e}},
     wide \in {{}, {t, a, x}},
     regs \in {r \in [AllVariables -> 0 .. 2] :
                 /\ r[t] = 0 /\ r[q] = 0 /\ r[a] = 0
                 /\ \A v, w \in {p, b, e, x} : v # w /\ r[v] # 0 => r[v] # r[w]
                 /\ \A v \in {p, b, e, x} : r[v] # 0 => r[v] # r[y]}} \cup
  {[Function(2, <<{2}, {}>>,
     <<Copy(1, t, a), Inst(1, q, {}), Redefine(1, q, {q, t}), Copy(1, y, q), Branch(1, None),
       Inst(2, None, o1), Branch(2, y)>>)
     EXCEPT !.kind = "Phi", !.must = {t} \cup {v \in {q} : regs[q] = 0}, !.reg = regs] :
     o1 \in {{b}, {b, p}, {p, e}},
     regs \in {r \in [AllVariables -> 0 .. 2] :
                 /\ r[t] = 0 /\ r[q] = r[y] /\ r[a] = 0 /\ r[x] = 0
                 /\ \A v, w \in {p, b, e} : v # w /\ r[v] # 0 => r[v] # r[w]
                 /\ \A v \in {p, b, e} : r[v] # 0 => r[v] # r[y]}}

AllFunctions ==
  CopyLoops \cup TwoCopies \cup PhiLoops \cup Calls \cup Diamonds \cup Pressure \cup Reserves \cup Simple \cup EdgeBlocks
=============================================================================
