-------------------------- MODULE MCMultimodalFanIn --------------------------
(* MultimodalFanIn for TLC: every constant is a bound the cfg gives. *)
EXTENDS MultimodalFanIn
==============================================================================
