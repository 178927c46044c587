--------------------------- MODULE PromptContract ---------------------------
(***************************************************************************)
(* What the prompt broker promises of one prompt, without owners, leases,  *)
(* run state or messages: a prompt takes one answer, an answer is claimed  *)
(* by at most one run, and a claim authorizes one side effect.  A claim    *)
(* may be lost (its run stopped, or the store never confirmed it).         *)
(***************************************************************************)
EXTENDS Naturals

CONSTANT Prompt

VARIABLES phase,    \* unasked, open, answered, claimed, closed
          granted,  \* a run holds the permission to act
          effects   \* side effects run

vars == <<phase, granted, effects>>

Move(p, from, to) ==
    /\ phase[p] \in from
    /\ phase' = [phase EXCEPT ![p] = to]

Init ==
    /\ phase = [p \in Prompt |-> "unasked"]
    /\ granted = [p \in Prompt |-> FALSE]
    /\ effects = [p \in Prompt |-> 0]

Ask(p)    == Move(p, {"unasked"}, "open") /\ UNCHANGED <<granted, effects>>

Answer(p) == Move(p, {"open"}, "answered") /\ UNCHANGED <<granted, effects>>

Claim(p)  ==
    /\ Move(p, {"answered"}, "claimed")
    /\ granted' \in {granted, [granted EXCEPT ![p] = TRUE]}
    /\ UNCHANGED effects

\* A run that closes its prompt gives its permission up.
Close(p)  ==
    /\ Move(p, {"open", "answered", "claimed"}, "closed")
    /\ granted' \in {granted, [granted EXCEPT ![p] = FALSE]}
    /\ UNCHANGED effects

Act(p) ==
    /\ granted[p]
    /\ granted' = [granted EXCEPT ![p] = FALSE]
    /\ effects' = [effects EXCEPT ![p] = @ + 1]
    /\ UNCHANGED phase

Lose(p) ==
    /\ granted[p]
    /\ granted' = [granted EXCEPT ![p] = FALSE]
    /\ UNCHANGED <<phase, effects>>

Next == \E p \in Prompt : Ask(p) \/ Answer(p) \/ Claim(p) \/ Close(p) \/ Act(p) \/ Lose(p)

Spec == Init /\ [][Next]_vars
=============================================================================
