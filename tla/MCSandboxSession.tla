-------------------------- MODULE MCSandboxSession --------------------------
(* SandboxSession on small instances.                                      *)
EXTENDS SandboxSession, TLC

CONSTANTS r1, r2, r3, t1, t2

Symmetry == Permutations({r1, r2, r3}) \cup Permutations({t1, t2})
=============================================================================
