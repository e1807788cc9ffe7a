---------------------------- MODULE MC_ChangeOrder ----------------------------
(* Model values and small sets for checking ChangeOrder with TLC.          *)
EXTENDS ChangeOrder, TLC

CONSTANTS ch1, ch2, nlpA, nlpB, noOrder

MC_Chans   == {ch1, ch2}
MC_NLP     == {nlpA, nlpB}
MC_TapLens == {0, 128}
=============================================================================
