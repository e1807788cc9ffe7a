---------------------------- MODULE MC_WctdmCmdq ----------------------------
(* Model-checking instance of WctdmCmdq: an FXS card, optionally beside a  *)
(* VPM100 chip, with one or two foreground slots (plus the two ISR slots),  *)
(* a 4-valued ident counter and a bus holding up to two frames.            *)
EXTENDS WctdmCmdq, TLC

CONSTANTS c1, v1, p1, p2, hookReg, lineReg, ecReg

MC_Cards    == {c1}
MC_CardsVpm == {c1, v1}
MC_Addrs    == {hookReg, lineReg}
MC_AddrsVpm == {hookReg, lineReg, ecReg}
MC_Vals     == {0, 1}

\* Foreground processes are interchangeable.
MC_Symmetry == Permutations({p1, p2})
=============================================================================
