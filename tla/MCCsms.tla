------------------------------- MODULE MCCsms -------------------------------
(***************************************************************************)
(* A small instance of Csms with its eMSP for TLC.                         *)
(***************************************************************************)
EXTENDS Csms, TLC

MCCdrIds == 1..MaxStarts
MCCharges == [id : 1..MaxStarts, tag : Tokens, serial : 1..MaxStarts]

\* Handshakes, registrations, the sale of tokens and charging share nothing but
\* the process: a behaviour is followed through one of them.  A CSMS that was
\* restarted among transactions, an eMSP in memory-only mode and one that has
\* failed to write a file are followed through two transactions.
Charging == spent # {} \/ now > 1 \/ \E c \in Stations : pc[c] # "idle"
Buying == minted # {} \/ \E b \in Buyers : buys[b] # NoBuy
Registering == providers # {}
Apart ==
    /\ shaken = 0 \/ begun = {}
    /\ Buying => ~Charging /\ ~Registering /\ shaken = 0
    /\ Registering => ~Charging /\ shaken = 0
    /\ before > 0 \/ ~durable \/ upset # {} \/ unsaved # {} => Cardinality(begun) <= 2

Symmetry ==
    Permutations(Stations) \cup Permutations(Buyers) \cup Permutations(Npubs)
        \cup Permutations(EurTokens)

=============================================================================
