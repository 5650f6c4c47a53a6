---------------------------- MODULE MCSshGateway ----------------------------
(***************************************************************************)
(* A small instance of SshGateway with its VmHost for TLC.                 *)
(***************************************************************************)
EXTENDS SshGateway

\* One process ends, fcd or the gateway; a machine that fcd left behind has
\* nothing new to do.
OneExit ==
    \/ fcd = "up" /\ orphans = {}
    \/ litter = {} /\ now <= 1

=============================================================================
