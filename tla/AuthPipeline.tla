---------------------------- MODULE AuthPipeline ----------------------------
(***************************************************************************)
(* The shared authentication pipeline, internal/auth/auth.go: concurrent   *)
(* calls of ProcessAuth, in local mode (the daemon redeems the Cashu token *)
(* itself) or in delegated mode (tollgate-rs / sessiond does), over one    *)
(* SessionStore, a directory with one JSON file per session identifier.    *)
(*                                                                         *)
(* Every access to the store, every request to the mint and every          *)
(* redemption is a step of its own: the store's mutex covers one operation *)
(* and never the sequence Get, IsActive, Remove, Redeem, Save.  The mint,  *)
(* the wallet behind cdk-cli and sessiond are external; their tokens may   *)
(* also be swapped by somebody else.  The process may stop at any point    *)
(* and come back: the files stay, the calls in flight are gone.            *)
(*                                                                         *)
(* Time counts ticks, TicksPerSec to a second, because a deadline is       *)
(* compared with full clock resolution while a Session-Timeout is in whole *)
(* seconds.  A SessionRecord keeps the fields that decide something; the   *)
(* mint URL, unit, amount, guest name, source and signed Class travel with *)
(* the token and are left out.                                             *)
(***************************************************************************)
EXTENDS Naturals

CONSTANTS
    Handlers,       \* calls of ProcessAuth that can be in flight together
    Macs,           \* session identifiers, up to SessionStore.Path
    BadMac,         \* an identifier that MacPattern refuses
    Tokens,         \* Cashu tokens that decode
    Amount,         \* TokenData.Amount of each token
    TestMints,      \* the tokens whose mint passes IsTestMint
    SharedTokens,   \* the tokens that another wallet holds a copy of
    AuthMode,       \* Dependencies.AuthMode
    RateSecPerSat,  \* seconds bought by one sat (10 in the code)
    MaxSeconds,     \* bound on the seconds that one redemption buys
    TicksPerSec,    \* resolution of the clock
    Retention,      \* ticks that Cleanup keeps an expired file (one hour)
    MaxTime,        \* bound on the clock
    NoSession,      \* no session file
    Corrupt,        \* a session file that does not parse
    NoRequest       \* the request of an idle handler

\* A credential that buys nothing: ExtractPayment finds none, or an LNURLw
\* code, or a Cashu string that does not decode.  ProcessAuth rejects all
\* three at the same point and changes nothing.
OtherCreds == {"unusable"}

Requests == [mac : Macs \cup {BadMac}, cred : Tokens \cup OtherCreds]

SessionRecord ==
    [mac : Macs, token : Tokens, started : Nat, duration : Nat]

ASSUME IdentifierAssumption ==
    /\ BadMac \notin Macs
    /\ Tokens \cap OtherCreds = {}
    /\ NoRequest \notin Requests
    /\ NoSession \notin SessionRecord
    /\ Corrupt \notin SessionRecord
    /\ NoSession # Corrupt

ASSUME ParameterAssumption ==
    /\ Amount \in [Tokens -> Nat]
    /\ TestMints \subseteq Tokens
    /\ SharedTokens \subseteq Tokens
    /\ AuthMode \in {"local", "delegated"}
    /\ RateSecPerSat \in Nat \ {0}
    /\ MaxSeconds \in Nat
    /\ \A t \in Tokens : Amount[t] * RateSecPerSat <= MaxSeconds
    /\ TicksPerSec \in Nat \ {0}
    /\ Retention \in Nat
    /\ MaxTime \in Nat

VARIABLES
    now,        \* the clock
    mint,       \* state of each token at its mint (NUT-07)
    sessions,   \* the session files
    pc,         \* where each call of ProcessAuth stands
    req,        \* its arguments
    rec,        \* the record its last Get returned
    secs,       \* the seconds its redemption bought
    reply,      \* its AuthResult
    \* History: what was sold, and where two calls or a write went wrong.
    grants,     \* every session window a payment was turned into
    contended,  \* identifiers that two calls worked on at the same time
    faulted     \* identifiers whose file a failed or torn write damaged

vars == <<now, mint, sessions, pc, req, rec, secs, reply,
          grants, contended, faulted>>
history == <<grants, contended, faulted>>

Labels == {"idle", "get", "isActive", "remove", "extract", "check", "regain",
           "stillActive", "redeem", "swapping", "save", "reply"}

Busy(h) == pc[h] # "idle"
Mac(h) == req[h].mac
Cred(h) == req[h].cred

-----------------------------------------------------------------------------
(* SessionRecord arithmetic.                                               *)

Deadline(r) == r.started + r.duration * TicksPerSec

\* Mutant of IsActive: a record ends a tick early.
IsActiveOffByOne(r) == now + 1 < Deadline(r)

\* SessionStore.IsActive
IsActive(r) == now < Deadline(r)

\* max(1, n)
AtLeastOne(n) == IF n < 1 THEN 1 ELSE n

\* AuthResult: until is the moment at which the Session-Timeout, counted from
\* now, runs out.  A Session-Timeout is in whole seconds.
AcceptFor(seconds) == [accept |-> TRUE, until |-> now + seconds * TicksPerSec]
Rejected == [accept |-> FALSE, until |-> 0]

\* Mutant of Resumed: the whole duration is granted again.
ResumedInFull(r) == AcceptFor(r.duration)

\* A resumed session gets what is left of it, in whole seconds, at least one.
Resumed(r) == AcceptFor(AtLeastOne((Deadline(r) - now) \div TicksPerSec))

-----------------------------------------------------------------------------
(* Steps of a call.                                                        *)

Goto(h, label) == pc' = [pc EXCEPT ![h] = label]

Answer(h, result) ==
    /\ Goto(h, "reply")
    /\ reply' = [reply EXCEPT ![h] = result]
    /\ rec' = [rec EXCEPT ![h] = NoSession]
    /\ secs' = [secs EXCEPT ![h] = 0]

\* Answer and nothing else.
Conclude(h, result) ==
    /\ Answer(h, result)
    /\ UNCHANGED <<now, mint, sessions, req>>
    /\ UNCHANGED history

\* ProcessAuth is called for identifier m with credential c.  Delegated mode
\* does not look at the session files yet.
ProcessAuth(h, m, c) ==
    /\ pc[h] = "idle"
    /\ req' = [req EXCEPT ![h] = [mac |-> m, cred |-> c]]
    /\ Goto(h, IF AuthMode = "delegated" THEN "extract" ELSE "get")
    /\ contended' = contended \cup
           {k \in {m} : \E other \in Handlers \ {h} : Busy(other) /\ Mac(other) = k}
    /\ UNCHANGED <<now, mint, sessions, rec, secs, reply, grants, faulted>>

\* MacPattern refuses the identifier.
RejectBadMac(h, c) ==
    /\ pc[h] = "idle"
    /\ req' = [req EXCEPT ![h] = [mac |-> BadMac, cred |-> c]]
    /\ Answer(h, Rejected)
    /\ UNCHANGED <<now, mint, sessions>>
    /\ UNCHANGED history

\* Mutants of Get: the file of any identifier is taken, or a file that does
\* not parse is.
GetAnyMac(m) ==
    IF \E k \in Macs : sessions[k] \in SessionRecord
    THEN sessions[CHOOSE k \in Macs : sessions[k] \in SessionRecord]
    ELSE NoSession
GetUnparsed(m) == sessions[m]

\* SessionStore.Get: a missing file and one that does not parse look alike.
Get(m) == IF sessions[m] = Corrupt THEN NoSession ELSE sessions[m]

\* Local mode looks for a session before it looks for a payment.
GetSession(h) ==
    /\ pc[h] = "get"
    /\ rec' = [rec EXCEPT ![h] = Get(Mac(h))]
    /\ Goto(h, IF Get(Mac(h)) = NoSession THEN "extract" ELSE "isActive")
    /\ UNCHANGED <<now, mint, sessions, req, secs, reply>>
    /\ UNCHANGED history

\* "Session resumed": no payment is looked at.  IsActive and time.Until read the
\* clock one after the other; both reads are taken in the same instant.
Resume(h) ==
    /\ pc[h] = "isActive"
    /\ IsActive(rec[h])
    /\ Conclude(h, Resumed(rec[h]))

\* The record that Get returned has expired: its file is to be removed.
Expired(h) ==
    /\ pc[h] = "isActive"
    /\ ~IsActive(rec[h])
    /\ rec' = [rec EXCEPT ![h] = NoSession]
    /\ Goto(h, "remove")
    /\ UNCHANGED <<now, mint, sessions, req, secs, reply>>
    /\ UNCHANGED history

\* SessionStore.Remove deletes whatever is in the file by now.
Remove(h) ==
    /\ pc[h] = "remove"
    /\ sessions' = [sessions EXCEPT ![Mac(h)] = NoSession]
    /\ Goto(h, "extract")
    /\ UNCHANGED <<now, mint, req, rec, secs, reply>>
    /\ UNCHANGED history

\* ExtractPayment, Decode, the amount and (local mode only) the mint.
Payable(c) ==
    /\ c \in Tokens
    /\ Amount[c] > 0
    /\ AuthMode = "local" => c \in TestMints

RejectCredential(h) ==
    /\ pc[h] = "extract"
    /\ ~Payable(Cred(h))
    /\ Conclude(h, Rejected)

TakeCredential(h) ==
    /\ pc[h] = "extract"
    /\ Payable(Cred(h))
    /\ Goto(h, IF AuthMode = "delegated" THEN "regain" ELSE "check")
    /\ UNCHANGED <<now, mint, sessions, req, rec, secs, reply>>
    /\ UNCHANGED history

\* Verifier.CheckState, answered by the mint with UNSPENT or SPENT.
CheckState(h) ==
    /\ pc[h] = "check"
    /\ \/ mint[Cred(h)] = "UNSPENT" /\ Goto(h, "redeem")
       \/ mint[Cred(h)] = "SPENT" /\ Goto(h, "regain")
    /\ UNCHANGED <<now, mint, sessions, req, rec, secs, reply>>
    /\ UNCHANGED history

\* PENDING is refused, and so is a mint that cannot be reached or gives no
\* usable answer, whatever the token's state.
CheckStateRejects(h) ==
    /\ pc[h] = "check"
    /\ Conclude(h, Rejected)

\* The second look for a session: in local mode after SPENT, in delegated mode
\* before Bootstrap.
Regain(h) ==
    /\ pc[h] = "regain"
    /\ Get(Mac(h)) # NoSession
    /\ rec' = [rec EXCEPT ![h] = Get(Mac(h))]
    /\ Goto(h, "stillActive")
    /\ UNCHANGED <<now, mint, sessions, req, secs, reply>>
    /\ UNCHANGED history

RegainedActive(h) ==
    /\ pc[h] = "stillActive"
    /\ IsActive(rec[h])
    /\ Conclude(h, Resumed(rec[h]))

\* No record, or an expired one.
NothingToRegain(h) ==
    \/ pc[h] = "regain" /\ Get(Mac(h)) = NoSession
    \/ pc[h] = "stillActive" /\ ~IsActive(rec[h])

RejectSpent(h) ==
    /\ NothingToRegain(h)
    /\ AuthMode = "local"
    /\ Conclude(h, Rejected)

\* Mutant of GoBootstrap: the session is looked for again instead.
GoBootstrapRetries(h) ==
    /\ NothingToRegain(h)
    /\ AuthMode = "delegated"
    /\ rec' = [rec EXCEPT ![h] = NoSession]
    /\ Goto(h, "regain")
    /\ UNCHANGED <<now, mint, sessions, req, secs, reply>>
    /\ UNCHANGED history

GoBootstrap(h) ==
    /\ NothingToRegain(h)
    /\ AuthMode = "delegated"
    /\ rec' = [rec EXCEPT ![h] = NoSession]
    /\ Goto(h, "redeem")
    /\ UNCHANGED <<now, mint, sessions, req, secs, reply>>
    /\ UNCHANGED history

-----------------------------------------------------------------------------
(* Redemption: Verifier.Redeem (cdk-cli receive, a NUT-03 swap) in local   *)
(* mode, Bootstrapper.Bootstrap (sessiond redeems) in delegated mode.      *)

\* The seconds a redemption may buy.
Buys(t) == IF AuthMode = "delegated" THEN 0..MaxSeconds
                                     ELSE {Amount[t] * RateSecPerSat}

\* The mint takes the proofs for a swap.
RedeemBegin(h) ==
    /\ pc[h] = "redeem"
    /\ mint[Cred(h)] = "UNSPENT"
    /\ mint' = [mint EXCEPT ![Cred(h)] = "PENDING"]
    /\ Goto(h, "swapping")
    /\ UNCHANGED <<now, sessions, req, rec, secs, reply>>
    /\ UNCHANGED history

\* Mutant of RedeemFail: the error is not looked at.
RedeemFailIgnored(h) ==
    /\ pc[h] = "redeem"
    /\ \E s \in Buys(Cred(h)) : secs' = [secs EXCEPT ![h] = s]
    /\ Goto(h, "save")
    /\ UNCHANGED <<now, mint, sessions, req, rec, reply>>
    /\ UNCHANGED history

\* The redemption fails and the token is as it was: the mint refuses proofs
\* that are not UNSPENT, or the swap is not carried out.
RedeemFail(h) ==
    /\ \/ /\ pc[h] = "redeem"
          /\ UNCHANGED mint
       \/ /\ pc[h] = "swapping"
          /\ mint' = [mint EXCEPT ![Cred(h)] = "UNSPENT"]
    /\ Answer(h, Rejected)
    /\ UNCHANGED <<now, sessions, req>>
    /\ UNCHANGED history

\* The swap is done and the caller learns of it.
RedeemCommit(h) ==
    /\ pc[h] = "swapping"
    /\ mint' = [mint EXCEPT ![Cred(h)] = "SPENT"]
    /\ \E s \in Buys(Cred(h)) \ {0} :
           secs' = [secs EXCEPT ![h] = s]
    /\ Goto(h, "save")
    /\ UNCHANGED <<now, sessions, req, rec, reply>>
    /\ UNCHANGED history

\* The swap is done and the call rejects all the same.
ConsumeAndReject(h) ==
    /\ pc[h] = "swapping"
    /\ mint' = [mint EXCEPT ![Cred(h)] = "SPENT"]
    /\ Answer(h, Rejected)
    /\ UNCHANGED <<now, sessions, req>>
    /\ UNCHANGED history

\* The answer of the mint, of cdk-cli or of sessiond was lost, or RedeemToken
\* does not take what cdk-cli printed for a success: it counts a line that
\* begins with Received, and passes over one that begins with Recovered.
RedeemLost(h) == ConsumeAndReject(h)

\* sessiond allotted no full second.
ZeroAllotment(h) ==
    /\ AuthMode = "delegated"
    /\ 0 \in Buys(Cred(h))
    /\ ConsumeAndReject(h)

\* The SessionRecord of a payment, started now.
NewRecord(h) == [mac |-> Mac(h), token |-> Cred(h),
                 started |-> now, duration |-> secs[h]]

\* SessionStore.Save and the Accept that follows it.
Save(h) ==
    /\ pc[h] = "save"
    /\ sessions' = [sessions EXCEPT ![Mac(h)] = NewRecord(h)]
    /\ grants' = grants \cup {NewRecord(h)}
    /\ Answer(h, AcceptFor(secs[h]))
    /\ UNCHANGED <<now, mint, req, contended, faulted>>

\* Save's error is not looked at: the call accepts, and the file is as before
\* or truncated.
SaveError(h) ==
    /\ pc[h] = "save"
    /\ \E left \in {sessions[Mac(h)], Corrupt} :
           sessions' = [sessions EXCEPT ![Mac(h)] = left]
    /\ grants' = grants \cup {NewRecord(h)}
    /\ faulted' = faulted \cup {Mac(h)}
    /\ Answer(h, AcceptFor(secs[h]))
    /\ UNCHANGED <<now, mint, req, contended>>

\* The caller has its AuthResult.
Return(h) ==
    /\ pc[h] = "reply"
    /\ Goto(h, "idle")
    /\ req' = [req EXCEPT ![h] = NoRequest]
    /\ reply' = [reply EXCEPT ![h] = Rejected]
    /\ UNCHANGED <<now, mint, sessions, rec, secs>>
    /\ UNCHANGED history

-----------------------------------------------------------------------------
(* The daemon's cleanup goroutine, the clock, the mint's other customers   *)
(* and the end of the process.                                             *)

\* Mutants of Cleanup: the age of a file is counted from its start, or files
\* that do not parse are passed over.
CleanupByStart ==
    /\ sessions' = [m \in Macs |->
           IF sessions[m] # NoSession /\ sessions[m] # Corrupt
              /\ now <= sessions[m].started + Retention
           THEN sessions[m] ELSE NoSession]
    /\ UNCHANGED <<now, mint, pc, req, rec, secs, reply>>
    /\ UNCHANGED history
CleanupSkipsCorrupt ==
    /\ sessions' = [m \in Macs |->
           IF \/ sessions[m] = Corrupt
              \/ /\ sessions[m] # NoSession
                 /\ now <= Deadline(sessions[m]) + Retention
           THEN sessions[m] ELSE NoSession]
    /\ UNCHANGED <<now, mint, pc, req, rec, secs, reply>>
    /\ UNCHANGED history

\* SessionStore.Cleanup deletes what does not parse and what expired longer
\* ago than the retention; it holds the mutex for the whole scan.
Cleanup ==
    /\ sessions' = [m \in Macs |->
           IF sessions[m] # NoSession /\ sessions[m] # Corrupt
              /\ now <= Deadline(sessions[m]) + Retention
           THEN sessions[m] ELSE NoSession]
    /\ UNCHANGED <<now, mint, pc, req, rec, secs, reply>>
    /\ UNCHANGED history

Tick ==
    /\ now < MaxTime
    /\ now' = now + 1
    /\ UNCHANGED <<mint, sessions, pc, req, rec, secs, reply>>
    /\ UNCHANGED history

\* Somebody else who holds the token presents it to the mint.
OutsideSwap(t) ==
    /\ mint[t] = "UNSPENT"
    /\ mint' = [mint EXCEPT ![t] = "PENDING"]
    /\ UNCHANGED <<now, sessions, pc, req, rec, secs, reply>>
    /\ UNCHANGED history

\* The mint ends a swap that no call of ours waits for: one of somebody else,
\* or one that a crash left behind.
MintSettles(t) ==
    /\ mint[t] = "PENDING"
    /\ ~\E h \in Handlers : pc[h] = "swapping" /\ Cred(h) = t
    /\ \E fate \in {"UNSPENT", "SPENT"} : mint' = [mint EXCEPT ![t] = fate]
    /\ UNCHANGED <<now, sessions, pc, req, rec, secs, reply>>
    /\ UNCHANGED history

\* The process stops and is started again.  The file that a Save was writing
\* may be left truncated; only one Save holds the mutex.
Crash ==
    LET saving == {h \in Handlers : pc[h] = "save"}
    IN  /\ \E torn \in {{}} \cup {{h} : h \in saving} :
              /\ sessions' = [m \in Macs |->
                     IF \E h \in torn : Mac(h) = m THEN Corrupt ELSE sessions[m]]
              /\ faulted' = faulted \cup {Mac(h) : h \in torn}
        /\ pc' = [h \in Handlers |-> "idle"]
        /\ req' = [h \in Handlers |-> NoRequest]
        /\ rec' = [h \in Handlers |-> NoSession]
        /\ secs' = [h \in Handlers |-> 0]
        /\ reply' = [h \in Handlers |-> Rejected]
        /\ UNCHANGED <<now, mint, grants, contended>>

-----------------------------------------------------------------------------
Init ==
    /\ now = 0
    /\ mint = [t \in Tokens |-> "UNSPENT"]
    /\ sessions = [m \in Macs |-> NoSession]
    /\ pc = [h \in Handlers |-> "idle"]
    /\ req = [h \in Handlers |-> NoRequest]
    /\ rec = [h \in Handlers |-> NoSession]
    /\ secs = [h \in Handlers |-> 0]
    /\ reply = [h \in Handlers |-> Rejected]
    /\ grants = {}
    /\ contended = {}
    /\ faulted = {}

\* A step of a call that is under way.
Step(h) ==
    \/ GetSession(h) \/ Resume(h) \/ Expired(h) \/ Remove(h)
    \/ RejectCredential(h) \/ TakeCredential(h)
    \/ CheckState(h) \/ CheckStateRejects(h)
    \/ Regain(h) \/ RegainedActive(h) \/ RejectSpent(h) \/ GoBootstrap(h)
    \/ RedeemBegin(h) \/ RedeemFail(h) \/ RedeemCommit(h) \/ RedeemLost(h)
    \/ ZeroAllotment(h) \/ Save(h) \/ SaveError(h) \/ Return(h)

Next ==
    \/ \E h \in Handlers, m \in Macs, c \in Tokens \cup OtherCreds :
           ProcessAuth(h, m, c)
    \/ \E h \in Handlers, c \in Tokens \cup OtherCreds : RejectBadMac(h, c)
    \/ \E h \in Handlers : Step(h)
    \/ \E t \in SharedTokens : OutsideSwap(t)
    \/ \E t \in Tokens : MintSettles(t)
    \/ Cleanup
    \/ Tick
    \/ Crash

Spec == Init /\ [][Next]_vars

\* A call is never abandoned (the mint client has a timeout, cdk-cli and
\* sessiond are assumed to end) and the daemon's cleanup ticker keeps ticking.
Fairness ==
    /\ \A h \in Handlers : WF_vars(Step(h))
    /\ WF_vars(Cleanup)

FairSpec == Spec /\ Fairness

=============================================================================
