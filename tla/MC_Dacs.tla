------------------------------- MODULE MC_Dacs -------------------------------
(* Card layouts for checking Dacs. *)
EXTENDS Dacs, TLC

\* Three ProSLIC ports and a QRV module, which bridging refuses.
FxsLayout == (0 :> "FXS" @@ 1 :> "FXS" @@ 2 :> "FXS" @@ 3 :> "QRV")

\* A DAA port and a ProSLIC port.
FxoLayout == (0 :> "FXO" @@ 1 :> "FXS")
=============================================================================
