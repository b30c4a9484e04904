--------------------------- MODULE MCStateHolder ---------------------------
(* Three goroutines: enough for one to run the component while two others   *)
(* race to stop it, pause it or wait for it.                                *)
EXTENDS StateHolder
=============================================================================
