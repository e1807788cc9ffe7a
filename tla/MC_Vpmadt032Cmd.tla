--------------------------- MODULE MC_Vpmadt032Cmd ---------------------------
(* Model values and small sets for checking Vpmadt032Cmd with TLC.         *)
EXTENDS Vpmadt032Cmd, TLC

CONSTANTS p1, k1, k2, k3, noCmd, noPage

MC_Procs  == {p1}
MC_CmdIds == {k1, k2, k3}
MC_Pages  == {0, 1}
MC_Offs   == {0, 1}
MC_Vals   == {0, 1}
MC_OneOff == {0}
=============================================================================
