--------------------------- MODULE MCCredentials ---------------------------
(***************************************************************************)
(* Bounded inputs for Credentials.                                         *)
(***************************************************************************)
EXTENDS Credentials

\* Two of the identifiers differ only in case.
MCFold == [s \in NASIDs \cup Npubs \cup {""} |-> IF s = "AP1" THEN "ap1" ELSE s]

=============================================================================
