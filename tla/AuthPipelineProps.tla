------------------------- MODULE AuthPipelineProps --------------------------
(***************************************************************************)
(* The properties of AuthPipeline that TLC checks and TLAPS proves.        *)
(***************************************************************************)
EXTENDS AuthPipeline

\* What the program counter of a call says about its locals.
CallOK(h) ==
    /\ pc[h] # "idle" => req[h] \in Requests
    /\ pc[h] \notin {"idle", "reply"} => Mac(h) \in Macs
    /\ pc[h] \in {"check", "regain", "stillActive", "redeem", "swapping", "save"}
           => Cred(h) \in Tokens
    /\ IF pc[h] \in {"isActive", "stillActive"}
       THEN rec[h] \in SessionRecord ELSE rec[h] = NoSession
    /\ reply[h].accept => pc[h] = "reply"

\* Every variable of the pipeline holds a value of its type: the session files
\* are records, truncated or missing, and the locals of a call of ProcessAuth
\* are what its program counter says they are.
TypeOK ==
    /\ now \in Nat
    /\ mint \in [Tokens -> {"UNSPENT", "PENDING", "SPENT"}]
    /\ sessions \in [Macs -> SessionRecord \cup {NoSession, Corrupt}]
    /\ pc \in [Handlers -> Labels]
    /\ req \in [Handlers -> Requests \cup {NoRequest}]
    /\ rec \in [Handlers -> SessionRecord \cup {NoSession}]
    /\ secs \in [Handlers -> Nat]
    /\ reply \in [Handlers -> [accept : BOOLEAN, until : Nat]]
    /\ \A h \in Handlers : CallOK(h)
    /\ grants \subseteq SessionRecord
    /\ contended \subseteq Macs
    /\ faulted \subseteq Macs

Open(g) == now < Deadline(g)

\* No token pays for two session windows, whoever presents it, how often and
\* however the calls of ProcessAuth interleave between CheckState and Redeem
\* (auth.go has no replay guard of its own: it relies on Redeem failing).
OneWindowPerToken ==
    \A g1, g2 \in grants : g1.token = g2.token => g1 = g2

\* An Accept is backed by a window that was sold to the same identifier, and
\* its Session-Timeout, in whole seconds and at least one, outlives that
\* window by less than a second.
AdmittedWithinPaidWindow ==
    \A h \in Handlers : reply[h].accept =>
        \E g \in grants : /\ g.mac = Mac(h)
                          /\ reply[h].until < Deadline(g) + TicksPerSec

\* While a window is open its session file is there, unless calls for the same
\* identifier overlapped or a write to the file failed: no expiry check, no
\* Remove and no Cleanup takes away what a customer has paid for.
PaidWindowKept ==
    \A g \in grants :
        Open(g) /\ g.mac \notin contended \cup faulted => sessions[g.mac] = g

\* ProcessAuth removes a session file because it has expired, never one that
\* is open: "When a phone reconnects (sleep/wake), we skip token validation if
\* the session is still within its paid time window. Safe for concurrent use."
\* (auth.go:100-102).
OpenSessionNotRemoved ==
    [][\A m \in Macs : sessions[m] \in grants /\ Open(sessions[m]) =>
           sessions'[m] # NoSession]_sessions

\* A customer whose window is open is not turned away by ProcessAuth, after a
\* restart of the process too, with the exceptions of PaidWindowKept; in
\* delegated mode the customer has to present a token that decodes.
PaidCustomerAdmitted ==
    \A h \in Handlers :
        /\ pc[h] = "reply" /\ ~reply[h].accept
        /\ Mac(h) \in Macs \ (contended \cup faulted)
        /\ AuthMode = "delegated" => Payable(Cred(h))
        => \A g \in grants : g.mac = Mac(h) => ~Open(g)

-----------------------------------------------------------------------------
(* The inductive invariants behind the proofs.                             *)

\* A call that waits for its swap has the token to itself, a call that is
\* about to Save holds a token that is SPENT and sold to nobody, and what is
\* sold is SPENT.
SwapInv ==
    /\ \A h \in Handlers : pc[h] = "swapping" => mint[Cred(h)] = "PENDING"
    /\ \A h \in Handlers : pc[h] = "save" =>
           /\ mint[Cred(h)] = "SPENT"
           /\ \A g \in grants : g.token # Cred(h)
    /\ \A h, k \in Handlers :
           /\ pc[h] \in {"swapping", "save"} /\ pc[k] \in {"swapping", "save"}
           /\ Cred(h) = Cred(k)
           => h = k
    /\ \A g \in grants : mint[g.token] = "SPENT"
    /\ OneWindowPerToken

\* The session files, and the records that calls have read from them, are
\* windows sold to the identifier they are filed under.
SoldInv ==
    /\ \A m \in Macs : sessions[m] \in SessionRecord =>
           sessions[m] \in grants /\ sessions[m].mac = m
    /\ \A h \in Handlers : rec[h] \in SessionRecord =>
           rec[h] \in grants /\ rec[h].mac = Mac(h)
    /\ AdmittedWithinPaidWindow

\* An identifier that no two calls shared and no write damaged.
Quiet(m) == m \in Macs \ (contended \cup faulted)

NoneOpen(m) == \A g \in grants : g.mac = m => ~Open(g)

\* Where a call has established that its identifier has no open window.
PastLookup(h) ==
    \/ pc[h] \in {"remove", "check", "redeem", "swapping", "save"}
    \/ pc[h] \in {"extract", "regain", "stillActive"} /\ AuthMode = "local"

\* A quiet identifier has one call; the record that the call read is the open
\* window, if there is one, and a call goes on to its payment only if there is
\* none.
WindowInv ==
    /\ \A h, k \in Handlers :
           /\ Busy(h) /\ Busy(k) /\ Mac(h) = Mac(k)
           /\ Mac(h) \in Macs \ contended
           => h = k
    /\ \A h \in Handlers : Busy(h) /\ Quiet(Mac(h)) =>
           /\ pc[h] \in {"isActive", "stillActive"} =>
                  \A g \in grants : g.mac = Mac(h) /\ Open(g) => rec[h] = g
           /\ PastLookup(h) => NoneOpen(Mac(h))
    /\ PaidWindowKept
    /\ PaidCustomerAdmitted

-----------------------------------------------------------------------------
(* The pipeline implements AuthGate.                                       *)

WindowOf(g) == [mac |-> g.mac, token |-> g.token, end |-> Deadline(g)]

\* sold once a session window exists for the token, void once the mint has
\* consumed it and no call is left that will turn it into a window.
FateOf(t) ==
    IF \E g \in grants : g.token = t THEN "sold"
    ELSE IF /\ mint[t] = "SPENT"
            /\ ~\E h \in Handlers : pc[h] = "save" /\ Cred(h) = t
    THEN "void" ELSE "good"

Gate == INSTANCE AuthGate WITH
    Moments <- 0..(MaxTime + MaxSeconds * TicksPerSec + TicksPerSec),
    Slack <- TicksPerSec,
    clock <- now,
    token <- [t \in Tokens |-> FateOf(t)],
    windows <- {WindowOf(g) : g \in grants},
    admitted <- {[mac |-> Mac(h), until |-> reply[h].until] :
                    h \in {k \in Handlers : reply[k].accept}}

\* ProcessAuth, its store, redemption failures and crashes implement AuthGate:
\* each token is sold at most once or void for good, and admission happens
\* only within an open window of one's own.
ImplementsGate == Gate!Spec

-----------------------------------------------------------------------------
(* Liveness, under FairSpec.                                               *)

\* Every call of ProcessAuth comes to an end, with an answer or in a crash.
Answered == \A h \in Handlers : Busy(h) ~> ~Busy(h)

\* A file that Cleanup is there to delete: truncated by a crash or a failed
\* write, or expired for longer than the retention.
Garbage(m) ==
    \/ sessions[m] = Corrupt
    \/ /\ sessions[m] \in grants
       /\ now > Deadline(sessions[m]) + Retention

\* Truncated and long expired session files do not stay.
GarbageGoes == \A m \in Macs : Garbage(m) ~> ~Garbage(m)

=============================================================================
