--------------------------- MODULE MCSubmitPipeline ---------------------------
(***************************************************************************)
(* TLC instance of SubmitPipeline.                                         *)
(***************************************************************************)
EXTENDS SubmitPipeline
===============================================================================
