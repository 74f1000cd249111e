------------------------------- MODULE MCPhi -------------------------------
(***************************************************************************)
(* A block with three phis on one edge.  d1 and d2 take one unit, d3      *)
(* and the further operand s take one or two.  The registers are the units *)
(* a, b, c and the pair ab.                                                *)
(***************************************************************************)
EXTENDS PhiLowering

CONSTANTS d1, d2, d3, s, a, b, c

AllVariables == {d1, d2, d3, s}
Dests == <<d1, d2, d3>>
AllRegisters == {<<a>>, <<b>>, <<c>>, <<a, b>>}
AllWidths ==
  {[v \in AllVariables |-> 1], [v \in AllVariables |-> IF v \in {d3, s} THEN 2 ELSE 1]}
=============================================================================
