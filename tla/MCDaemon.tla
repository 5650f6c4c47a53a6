------------------------------ MODULE MCDaemon ------------------------------
(***************************************************************************)
(* A small instance of Daemon for TLC.                                     *)
(***************************************************************************)
EXTENDS Daemon

\* The ledger is followed through a failed write, a crash or an accounting
\* event with two requests, the shutdown without them.
Apart ==
    \/ failed = {} /\ opened /\ \A e \in Events : acct[e] = "due"
    \/ shutdown = "none" /\ Cardinality({c \in Clients : client[c] # "idle"}) <= 2

=============================================================================
