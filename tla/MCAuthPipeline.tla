--------------------------- MODULE MCAuthPipeline ---------------------------
(***************************************************************************)
(* Small instances of AuthPipeline for TLC.                                *)
(***************************************************************************)
EXTENDS AuthPipelineProps, TLC

CONSTANTS small, large, empty, foreign  \* tokens

MCAmount == [t \in Tokens |-> CASE t = small -> 1
                                [] t = large -> 2
                                [] t = empty -> 0
                                [] t = foreign -> 1]

MCTestMints == Tokens \ {foreign}

Symmetry == Permutations(Handlers) \cup Permutations(Macs)

=============================================================================
