------------------------------ MODULE MCBundle ------------------------------
(***************************************************************************)
(* Small functions: regions at every offset in a bundle, one after the     *)
(* other, and branches back at distances around the reach of a short one.  *)
(* A bundle has 16 bytes, as for ARM32; a short branch reaches 24.         *)
(***************************************************************************)
EXTENDS BundleEmission

Plain(kind, option, bytes, targets) ==
  [kind |-> kind, option |-> option, lock |-> 0, size |-> bytes, offset |-> 0, targets |-> targets]
Node(option) == <<Plain("node", option, 0, <<>>)>>
Inst(bytes) == <<Plain("inst", "None", bytes, <<>>)>>
Branch(option, targets) == <<Plain("branch", option, 0, targets)>>

(***************************************************************************)
(* A region of two instructions whose bundle_lock is entry l.              *)
(***************************************************************************)
Region(l, option, size1, size2) ==
  LET In(kind, bytes, offset) ==
        [Plain(kind, option, bytes, <<>>) EXCEPT !.lock = l, !.offset = offset]
  IN <<In("lock", size1 + size2, 0), In("inst", size1, 0), In("inst", size2, size1),
       In("unlock", 0, size1 + size2)>>

Options == {"None", "AlignToEnd", "PadToEnd"}

TwoRegions ==
  {Node("None") \o Inst(fill) \o Region(3, o1, s1, s2) \o Region(7, o2, 0, 5) \o Inst(s3)
     \o Node("Align") \o Inst(1) :
     fill \in 1 .. 16, o1 \in Options, s1 \in {0, 1, 8}, s2 \in {3, 8}, o2 \in Options,
     s3 \in {0, 7}}

Branches ==
  {Node("None") \o Inst(fill) \o Node(align) \o Region(4, "PadToEnd", 3, s1) \o Inst(s2)
     \o Branch(b[1], b[2]) \o Inst(2) \o Node("None") :
     fill \in {1, 4, 9, 12, 16}, align \in {"None", "Align"}, s1 \in {2, 13}, s2 \in 1 .. 16,
     b \in {<<"jmp", <<1>>>>, <<"jmp", <<3>>>>, <<"j", <<3>>>>, <<"j", <<11>>>>,
            <<"jj", <<3, 1>>>>, <<"jj", <<1, 3>>>>, <<"jj", <<11, 3>>>>, <<"jj", <<3, 11>>>>}}

SmallFunctions == TwoRegions \cup Branches
=============================================================================
