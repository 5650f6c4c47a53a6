------------------------------ MODULE AuthGate ------------------------------
(***************************************************************************)
(* What the authentication pipeline promises, whatever its calls           *)
(* interleave with, whichever redemption fails and wherever the process    *)
(* stops: a token is exchanged at most once, for one window of access that *)
(* belongs to one identifier, and an identifier is admitted only while a   *)
(* window of its own is open and for less than Slack ticks beyond it.      *)
(***************************************************************************)
EXTENDS Naturals

CONSTANTS Macs, Tokens,
          Moments,  \* the instants at which access can end
          Slack     \* rounding of a Session-Timeout to whole seconds

VARIABLES clock,
          token,    \* what became of each token: good, sold or void
          windows,  \* the windows of access that were sold
          admitted  \* the admissions under way

gateVars == <<clock, token, windows, admitted>>

Init ==
    /\ clock = 0
    /\ token = [t \in Tokens |-> "good"]
    /\ windows = {}
    /\ admitted = {}

\* Tokens are lost to the gate (spent elsewhere, or consumed with nothing to
\* show for it) and admissions are over.  Neither ever comes back.
Lose ==
    /\ token' \in [Tokens -> {"good", "sold", "void"}]
    /\ \A t \in Tokens : \/ token'[t] = token[t]
                         \/ token[t] = "good" /\ token'[t] = "void"
    /\ admitted' \in SUBSET admitted
    /\ UNCHANGED <<clock, windows>>

\* A good token buys a window, and its buyer is admitted for all of it.
Sell(t) ==
    /\ token[t] = "good"
    /\ token' = [token EXCEPT ![t] = "sold"]
    /\ \E m \in Macs, end \in Moments :
           /\ windows' = windows \cup {[mac |-> m, token |-> t, end |-> end]}
           /\ admitted' = admitted \cup {[mac |-> m, until |-> end]}
    /\ UNCHANGED clock

\* The owner of an open window comes back.
Readmit(w) ==
    /\ clock < w.end
    /\ \E until \in Moments :
           /\ until < w.end + Slack
           /\ admitted' = admitted \cup {[mac |-> w.mac, until |-> until]}
    /\ UNCHANGED <<clock, token, windows>>

Advance ==
    /\ clock' = clock + 1
    /\ UNCHANGED <<token, windows, admitted>>

Next ==
    \/ Lose
    \/ Advance
    \/ \E t \in Tokens : Sell(t)
    \/ \E w \in windows : Readmit(w)

Spec == Init /\ [][Next]_gateVars

=============================================================================
