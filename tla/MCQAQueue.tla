------------------------------ MODULE MCQAQueue ------------------------------
(* Small instances of QAQueue. *)
EXTENDS QAQueue, TLC

CONSTANTS i1, i2, u1, u2, q1, q2
==============================================================================
