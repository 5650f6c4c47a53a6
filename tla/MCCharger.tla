------------------------------ MODULE MCCharger -----------------------------
(***************************************************************************)
(* A small instance of Charger for TLC.                                    *)
(***************************************************************************)
EXTENDS Charger, TLC

CONSTANTS short, long  \* tokens

MCCredit == [t \in Tokens |-> IF t = short THEN 1 ELSE 2]
MCWindow == [t \in Tokens |-> IF t = short THEN 2 ELSE 1]

Symmetry == Permutations(Handlers)

=============================================================================
