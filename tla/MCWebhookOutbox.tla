-------------------------- MODULE MCWebhookOutbox --------------------------
(* Instances of WebhookOutbox for TLC.                                     *)
EXTENDS WebhookOutbox, TLC

OwnIds == [w \in Workers |-> w]
\* One process has an id of its own; the others are a displaced process and its
\* replacements.
SharedIds ==
    LET own == CHOOSE w \in Workers : TRUE
    IN  [w \in Workers |-> IF w = own THEN "own" ELSE "shared"]

Symmetry == Permutations(Workers) \cup Permutations(Messages)
=============================================================================
