------------------------- MODULE MCPresentationFlow -------------------------
(***************************************************************************)
(* PresentationFlow for TLC: the constants are given by the configurations.*)
(***************************************************************************)
EXTENDS PresentationFlow
=============================================================================
