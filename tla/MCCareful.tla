----------------------------- MODULE MCCareful -----------------------------
(***************************************************************************)
(* CarefulCallers on the registries of MCEngine.                           *)
(***************************************************************************)
EXTENDS MCEngine, CarefulCallers
=============================================================================
