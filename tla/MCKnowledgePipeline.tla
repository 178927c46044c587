------------------------ MODULE MCKnowledgePipeline ------------------------
(***************************************************************************)
(* KnowledgePipeline on small instances.                                   *)
(***************************************************************************)
EXTENDS KnowledgePipeline, TLC

CONSTANTS s1, s2, s3

One   == {s1}
Two   == {s1, s2}
Three == {s1, s2, s3}

\* The subtasks of a fan-out are alike; used by runs without liveness only.
Symmetry == Permutations(Slot)
=============================================================================
