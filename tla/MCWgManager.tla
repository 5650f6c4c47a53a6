---------------------------- MODULE MCWgManager -----------------------------
(***************************************************************************)
(* A small instance of WgManager for TLC.                                  *)
(***************************************************************************)
EXTENDS WgManager, TLC

\* Behaviours are followed up to the second trouble: a key left to itself, the
\* address counter going back, or a record that is not on disk.
OneTrouble == Cardinality(stray \cup (IF up THEN Unwritten ELSE {}))
                  + (IF rewound THEN 1 ELSE 0) <= 1

Symmetry == Permutations(Handlers) \cup Permutations(Keys)

=============================================================================
