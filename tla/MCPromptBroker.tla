--------------------------- MODULE MCPromptBroker ---------------------------
(* Small instances of PromptBroker.  Runs and answers are interchangeable  *)
(* up to the first run and the approving answers, prompts altogether.      *)
EXTENDS PromptBroker, TLC

CONSTANTS p1, p2, r1, r2, u1, u2, j1

Symmetric == Permutations(Prompt) \cup Permutations(Run \ {First})

\* Where to stop: once a run has strayed it stays so, and the properties that
\* name it promise nothing any more.
NobodyStrayed == ~strayed
=============================================================================
