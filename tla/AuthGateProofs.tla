--------------------------- MODULE AuthGateProofs ---------------------------
(***************************************************************************)
(* AuthPipeline implements AuthGate: every step of the pipeline is, through *)
(* the mapping of AuthPipelineProps, a step of the gate or no step at all. *)
(***************************************************************************)
EXTENDS AuthPipelineProofs

\* The mapping of the tokens, the windows and the admissions.
GateToken == [t \in Tokens |-> FateOf(t)]
GateWindows == {WindowOf(g) : g \in grants}
GateAdmitted == {[mac |-> Mac(h), until |-> reply[h].until] :
                    h \in {k \in Handlers : reply[k].accept}}

LastDeadline == MaxTime + MaxSeconds * TicksPerSec

\* The clock, what a redemption bought and the end of a window are bounded, so
\* that every instant of the pipeline is one of the gate.
BoundInv ==
    /\ now \in 0..MaxTime
    /\ \A h \in Handlers : secs[h] \in 0..MaxSeconds
    /\ \A g \in grants : Deadline(g) <= LastDeadline

-----------------------------------------------------------------------------
(* Bounds.                                                                 *)

LEMMA TimesMonotone ==
    ASSUME NEW a \in Nat, NEW b \in Nat, NEW c \in Nat, a <= b
    PROVE  a * c \in Nat /\ b * c \in Nat /\ a * c <= b * c
  OBVIOUS

LEMMA LastDeadlineType == MaxTime \in Nat /\ TicksPerSec \in Nat /\ TicksPerSec > 0
                          /\ MaxSeconds \in Nat /\ LastDeadline \in Nat
  BY ParameterAssumption DEF LastDeadline

\* A window that is sold now ends at an instant of the gate.
LEMMA NewWindowEnd ==
    ASSUME TypeOK, BoundInv, NEW h \in Handlers
    PROVE  /\ Deadline(NewRecord(h)) = now + secs[h] * TicksPerSec
           /\ Deadline(NewRecord(h)) \in Nat
           /\ Deadline(NewRecord(h)) <= LastDeadline
<1>1. secs[h] \in Nat /\ secs[h] <= MaxSeconds /\ now \in Nat /\ now <= MaxTime
  BY ParameterAssumption DEF BoundInv
<1>2. secs[h] * TicksPerSec \in Nat /\ MaxSeconds * TicksPerSec \in Nat
      /\ secs[h] * TicksPerSec <= MaxSeconds * TicksPerSec
  BY <1>1, LastDeadlineType, TimesMonotone
<1>3. Deadline(NewRecord(h)) = now + secs[h] * TicksPerSec
  BY DEF Deadline, NewRecord
<1>4. QED
  BY <1>1, <1>2, <1>3, LastDeadlineType DEF LastDeadline

\* What a redemption buys is bounded.
LEMMA BuysBound ==
    ASSUME NEW t \in Tokens PROVE Buys(t) \subseteq 0..MaxSeconds
<1>1. Amount[t] * RateSecPerSat \in Nat /\ Amount[t] * RateSecPerSat <= MaxSeconds
  BY ParameterAssumption
<1>2. QED
  BY <1>1, ParameterAssumption DEF Buys

LEMMA InitBoundInv == Init => BoundInv
  BY LastDeadlineType DEF Init, BoundInv

LEMMA NextBoundInv ==
    ASSUME TypeOK, BoundInv, [Next]_vars
    PROVE  BoundInv'
<1> USE DEF history
<1>1. now' \in 0..MaxTime
  <2>1. CASE Tick
    BY <2>1, LastDeadlineType DEF Tick, BoundInv
  <2>2. CASE ~Tick
    <3>1. now' = now
      BY <2>2 DEF Next, ProcessAuth, RejectBadMac, Step, OutsideSwap, MintSettles, Cleanup, Crash,
         vars, GetSession, Resume, Expired, Remove, RejectCredential, TakeCredential, CheckState,
         CheckStateRejects, Regain, RegainedActive, RejectSpent, GoBootstrap, RedeemBegin,
         RedeemFail, RedeemCommit, RedeemLost, ZeroAllotment, ConsumeAndReject, Save, SaveError,
         Return, Conclude
    <3>2. QED BY <3>1 DEF BoundInv
  <2>3. QED BY <2>1, <2>2
<1>2. ASSUME NEW k \in Handlers PROVE secs'[k] \in 0..MaxSeconds
  <2>1. secs[k] \in 0..MaxSeconds /\ 0 \in 0..MaxSeconds
    BY LastDeadlineType DEF BoundInv
  <2>2. ASSUME NEW h \in Handlers, RedeemCommit(h) PROVE secs'[k] \in 0..MaxSeconds
    <3>1. Cred(h) \in Tokens
      BY <2>2 DEF RedeemCommit, TypeOK, CallOK
    <3>2. PICK n \in Buys(Cred(h)) \ {0} : secs' = [secs EXCEPT ![h] = n]
      BY <2>2 DEF RedeemCommit
    <3>3. n \in 0..MaxSeconds
      BY <3>1, <3>2, BuysBound
    <3>4. QED BY <2>1, <3>2, <3>3 DEF TypeOK
  <2>3. CASE ~\E h \in Handlers : RedeemCommit(h)
    <3>1. secs'[k] \in {secs[k], 0}
      BY <2>3 DEF Next, ProcessAuth, RejectBadMac, Step, OutsideSwap, MintSettles, Cleanup, Crash,
         vars, GetSession, Resume, Expired, Remove, RejectCredential, TakeCredential, CheckState,
         CheckStateRejects, Regain, RegainedActive, RejectSpent, GoBootstrap, RedeemBegin,
         RedeemFail, RedeemLost, ZeroAllotment, ConsumeAndReject, Save, SaveError,
         Return, Conclude, Answer, Tick, TypeOK
    <3>2. QED BY <2>1, <3>1
  <2>4. QED BY <2>2, <2>3
<1>3. ASSUME NEW g \in grants' PROVE Deadline(g) <= LastDeadline
  <2>1. g \in grants \/ \E h \in Handlers : g = NewRecord(h)
    BY <1>3 DEF Next, ProcessAuth, RejectBadMac, Step, OutsideSwap, MintSettles, Cleanup, Crash,
       vars, GetSession, Resume, Expired, Remove, RejectCredential, TakeCredential, CheckState,
       CheckStateRejects, Regain, RegainedActive, RejectSpent, GoBootstrap, RedeemBegin,
       RedeemFail, RedeemCommit, RedeemLost, ZeroAllotment, ConsumeAndReject, Save, SaveError,
       Return, Conclude, Tick
  <2>2. QED BY <2>1, NewWindowEnd DEF BoundInv
<1>4. QED
  BY <1>1, <1>2, <1>3 DEF BoundInv, Deadline, LastDeadline

-----------------------------------------------------------------------------
(* The steps.                                                              *)

Sold(t) == \E g \in grants : g.token = t
Consumed(t) == mint[t] = "SPENT" /\ ~\E h \in Handlers : pc[h] = "save" /\ Cred(h) = t

\* What became of a token.
LEMMA Fates ==
    ASSUME NEW t
    PROVE  /\ Sold(t) => FateOf(t) = "sold"
           /\ ~Sold(t) /\ Consumed(t) => FateOf(t) = "void"
           /\ ~Sold(t) /\ ~Consumed(t) => FateOf(t) = "good"
  BY DEF FateOf, Sold, Consumed

LEMMA InitGate == Init => Gate!Init
<1> SUFFICES ASSUME Init PROVE Gate!Init
  OBVIOUS
<1>1. \A t \in Tokens : FateOf(t) = "good"
  BY DEF Init, FateOf
<1>2. \A h \in Handlers : ~reply[h].accept
  BY DEF Init, Rejected
<1>3. GateAdmitted = {}
  BY <1>2 DEF GateAdmitted
<1>4. GateWindows = {}
  BY DEF Init, GateWindows
<1>5. QED
  BY <1>1, <1>3, <1>4 DEF Init, Gate!Init, GateAdmitted, GateWindows

\* A step that sells nothing: a token that is consumed stays so, and nobody is
\* admitted who was not.
LEMMA LoseStep ==
    ASSUME UNCHANGED <<now, grants>>,
           \A t \in Tokens : Consumed(t) => Consumed(t)',
           \A h \in Handlers : reply'[h].accept =>
               reply[h].accept /\ reply'[h] = reply[h] /\ Mac(h)' = Mac(h)
    PROVE  Gate!Lose
<1>1. GateAdmitted' \in SUBSET GateAdmitted
  BY DEF GateAdmitted
<1>2. GateWindows' = GateWindows
  BY DEF GateWindows, WindowOf, Deadline
<1>3. ASSUME NEW t \in Tokens
      PROVE  /\ FateOf(t)' \in {"good", "sold", "void"}
             /\ \/ FateOf(t)' = FateOf(t)
                \/ FateOf(t) = "good" /\ FateOf(t)' = "void"
  <2>1. Sold(t)' = Sold(t)
    BY DEF Sold
  <2>2. /\ Sold(t)' => FateOf(t)' = "sold"
        /\ ~Sold(t)' /\ Consumed(t)' => FateOf(t)' = "void"
        /\ ~Sold(t)' /\ ~Consumed(t)' => FateOf(t)' = "good"
    BY DEF FateOf, Sold, Consumed
  <2>3. QED BY <2>1, <2>2, Fates
<1>4. /\ GateToken' \in [Tokens -> {"good", "sold", "void"}]
      /\ \A t \in Tokens : \/ GateToken'[t] = GateToken[t]
                           \/ GateToken[t] = "good" /\ GateToken'[t] = "void"
  BY <1>3 DEF GateToken
<1>5. QED
  BY <1>1, <1>2, <1>4 DEF Gate!Lose, GateToken, GateAdmitted, GateWindows

\* Save and SaveError sell the window and admit its buyer.
LEMMA SellStep ==
    ASSUME TypeOK, SwapInv, BoundInv, NEW h \in Handlers, Save(h) \/ SaveError(h),
           NEW t, t = Cred(h), NEW m, m = Mac(h), NEW new, new = NewRecord(h),
           NEW end, end = now + secs[h] * TicksPerSec
    PROVE  Gate!Sell(t)
<1>1. /\ pc[h] = "save" /\ t \in Tokens /\ m \in Macs
      /\ grants' = grants \cup {new} /\ UNCHANGED <<now, mint, req>>
      /\ pc' = [pc EXCEPT ![h] = "reply"]
      /\ reply' = [reply EXCEPT ![h] = AcceptFor(secs[h])]
      /\ ~reply[h].accept
  BY DEF Save, SaveError, Answer, Goto, TypeOK, CallOK
<1>2. /\ new.token = t /\ WindowOf(new) = [mac |-> m, token |-> t, end |-> end]
      /\ end \in 0..(LastDeadline + TicksPerSec)
  BY NewWindowEnd, LastDeadlineType DEF WindowOf, NewRecord
<1>3. reply'[h].accept /\ reply'[h].until = end
      /\ \A k \in Handlers \ {h} : reply'[k] = reply[k]
  BY <1>1 DEF AcceptFor, TypeOK
<1>4. \A k \in Handlers : Mac(k)' = Mac(k) /\ Cred(k)' = Cred(k)
  BY <1>1 DEF Mac, Cred
<1>5. ~Sold(t) /\ ~Consumed(t)
  BY <1>1 DEF SwapInv, Sold, Consumed
<1>6. Sold(t)'
  BY <1>1, <1>2 DEF Sold
<1>7. \A u \in Tokens \ {t} : Sold(u)' = Sold(u) /\ Consumed(u)' = Consumed(u)
  <2>1. \A u \in Tokens \ {t} : Sold(u)' = Sold(u)
    BY <1>1, <1>2 DEF Sold
  <2>2. \A u \in Tokens \ {t} : Consumed(u)' = Consumed(u)
    BY <1>1, <1>4 DEF Consumed, TypeOK
  <2>3. QED BY <2>1, <2>2
<1>8. FateOf(t) = "good" /\ FateOf(t)' = "sold" /\ \A u \in Tokens \ {t} : FateOf(u)' = FateOf(u)
  <2>1. ASSUME NEW u
        PROVE  /\ Sold(u)' => FateOf(u)' = "sold"
               /\ ~Sold(u)' /\ Consumed(u)' => FateOf(u)' = "void"
               /\ ~Sold(u)' /\ ~Consumed(u)' => FateOf(u)' = "good"
    BY DEF FateOf, Sold, Consumed
  <2>2. QED BY <1>5, <1>6, <1>7, <2>1, Fates
<1>9. GateToken' = [GateToken EXCEPT ![t] = "sold"] /\ GateToken[t] = "good"
  BY <1>1, <1>8 DEF GateToken
<1>10. GateWindows' = GateWindows \cup {[mac |-> m, token |-> t, end |-> end]}
  <2>1. GateWindows' = {WindowOf(g) : g \in grants'}
    BY DEF GateWindows, WindowOf, Deadline
  <2>2. QED BY <1>1, <1>2, <2>1 DEF GateWindows
<1>11. GateAdmitted' = GateAdmitted \cup {[mac |-> m, until |-> end]}
  BY <1>1, <1>3, <1>4 DEF GateAdmitted
<1>12. QED
  BY <1>1, <1>2, <1>9, <1>10, <1>11
  DEF Gate!Sell, GateToken, GateWindows, GateAdmitted, LastDeadline

\* Resume and RegainedActive readmit the owner of an open window.
LEMMA ReadmitStep ==
    ASSUME TypeOK, SoldInv, BoundInv, NEW h \in Handlers, Resume(h) \/ RegainedActive(h),
           NEW r, r = rec[h]
    PROVE  \E w \in GateWindows : Gate!Readmit(w)
<1> DEFINE until == Resumed(r).until
<1>1. /\ pc[h] \in {"isActive", "stillActive"} /\ r \in SessionRecord
      /\ UNCHANGED <<now, mint, req, grants>> /\ IsActive(r)
      /\ pc' = [pc EXCEPT ![h] = "reply"]
      /\ reply' = [reply EXCEPT ![h] = Resumed(r)]
      /\ ~reply[h].accept
  BY DEF Resume, RegainedActive, Conclude, Answer, Goto, TypeOK, CallOK, history
<1>2. r \in grants /\ r.mac = Mac(h) /\ Deadline(r) \in Nat /\ Deadline(r) <= LastDeadline
  BY <1>1, DeadlineType DEF SoldInv, BoundInv
<1>3. /\ until \in Nat /\ Resumed(r).accept /\ until < Deadline(r) + TicksPerSec
      /\ now < Deadline(r)
  BY <1>1, ResumedType DEF TypeOK, IsActive
<1>4. PICK u : u = until
  OBVIOUS
<1>5. u \in 0..(LastDeadline + TicksPerSec)
  BY <1>2, <1>3, <1>4, LastDeadlineType
<1>6. /\ reply'[h].accept /\ reply'[h].until = u
      /\ \A k \in Handlers \ {h} : reply'[k] = reply[k]
      /\ \A k \in Handlers : Mac(k)' = Mac(k)
  BY <1>1, <1>3, <1>4 DEF TypeOK, Mac
<1>7. GateAdmitted' = GateAdmitted \cup {[mac |-> r.mac, until |-> u]}
  BY <1>1, <1>2, <1>6 DEF GateAdmitted
<1>8. GateWindows' = GateWindows
  BY <1>1 DEF GateWindows, WindowOf, Deadline
<1>9. GateToken' = GateToken
  <2>1. \A t \in Tokens : Sold(t)' = Sold(t)
    BY <1>1 DEF Sold
  <2>2. \A t \in Tokens : Consumed(t)' = Consumed(t)
    BY <1>1 DEF Consumed, Cred, TypeOK
  <2>3. \A t \in Tokens : FateOf(t)' = FateOf(t)
    BY <2>1, <2>2 DEF FateOf, Sold, Consumed
  <2>4. QED BY <2>3 DEF GateToken
<1>10. PICK w \in GateWindows : w = WindowOf(r)
  BY <1>2 DEF GateWindows
<1>11. w.mac = r.mac /\ w.end = Deadline(r)
  BY <1>10 DEF WindowOf
<1>12. Gate!Readmit(w)
  BY <1>1, <1>3, <1>4, <1>5, <1>7, <1>8, <1>9, <1>11
  DEF Gate!Readmit, GateToken, GateWindows, GateAdmitted, LastDeadline
<1>13. QED BY <1>12

\* Every other step of a call loses something to the gate, or nothing.
LEMMA OtherStep ==
    ASSUME TypeOK, SwapInv, NEW h \in Handlers, Step(h),
           ~Save(h), ~SaveError(h), ~Resume(h), ~RegainedActive(h)
    PROVE  Gate!Lose
<1> USE DEF history, Goto
<1>1. CASE \/ GetSession(h) \/ Expired(h) \/ Remove(h) \/ TakeCredential(h)
           \/ CheckState(h) \/ Regain(h) \/ GoBootstrap(h) \/ RejectCredential(h)
           \/ CheckStateRejects(h) \/ RejectSpent(h) \/ Return(h)
  <2>1. /\ UNCHANGED <<now, mint, grants>> /\ pc[h] # "save" /\ pc'[h] # "save"
        /\ \A k \in Handlers \ {h} : pc'[k] = pc[k] /\ reply'[k] = reply[k] /\ req'[k] = req[k]
        /\ reply'[h] \in {reply[h], Rejected}
        /\ pc[h] = "reply" => reply'[h] = Rejected
    BY <1>1 DEF GetSession, Expired, Remove, TakeCredential, CheckState, Regain, GoBootstrap,
       NothingToRegain, RejectCredential, CheckStateRejects, RejectSpent, Return, Conclude,
       Answer, TypeOK
  <2>2. ~reply'[h].accept
    BY <2>1 DEF TypeOK, CallOK, Rejected
  <2>3. QED
    BY <2>1, <2>2, LoseStep DEF Consumed, Cred, Mac
<1>2. CASE RedeemBegin(h) \/ RedeemFail(h) \/ RedeemCommit(h) \/ RedeemLost(h) \/ ZeroAllotment(h)
  <2>1. /\ UNCHANGED <<now, req, grants>> /\ pc[h] \in {"redeem", "swapping"}
        /\ mint[Cred(h)] # "SPENT" \/ (UNCHANGED mint /\ pc'[h] # "save")
        /\ \A t \in Tokens \ {Cred(h)} : mint'[t] = mint[t]
        /\ \A k \in Handlers \ {h} : pc'[k] = pc[k] /\ reply'[k] = reply[k]
        /\ reply'[h] \in {reply[h], Rejected}
    BY <1>2 DEF RedeemBegin, RedeemFail, RedeemCommit, RedeemLost, ZeroAllotment,
       ConsumeAndReject, Answer, TypeOK, SwapInv
  <2>2. ~reply'[h].accept
    BY <2>1 DEF TypeOK, CallOK, Rejected
  <2>3. \A t \in Tokens : Consumed(t) => Consumed(t)'
    BY <2>1 DEF Consumed, Cred
  <2>4. QED
    BY <2>1, <2>2, <2>3, LoseStep DEF Mac
<1>3. QED
  BY <1>1, <1>2 DEF Step

\* Every step of the pipeline is a step of the gate.
LEMMA NextGate ==
    ASSUME TypeOK, SwapInv, SoldInv, BoundInv, [Next]_vars
    PROVE  [Gate!Next]_(Gate!gateVars)
<1> USE DEF history, Goto
<1>1. ASSUME NEW h \in Handlers, Step(h) PROVE Gate!Next
  <2>1. CASE Save(h) \/ SaveError(h)
    <3>1. PICK t, m, new, end : /\ t = Cred(h) /\ m = Mac(h) /\ new = NewRecord(h)
                                /\ end = now + secs[h] * TicksPerSec
      OBVIOUS
    <3>2. t \in Tokens
      BY <2>1, <3>1 DEF Save, SaveError, TypeOK, CallOK
    <3>3. QED BY <2>1, <3>1, <3>2, SellStep DEF Gate!Next
  <2>2. CASE Resume(h) \/ RegainedActive(h)
    BY <2>2, ReadmitStep DEF Gate!Next, GateWindows
  <2>3. CASE ~(Save(h) \/ SaveError(h) \/ Resume(h) \/ RegainedActive(h))
    BY <1>1, <2>3, OtherStep DEF Gate!Next
  <2>4. QED BY <2>1, <2>2, <2>3
<1>2. CASE \/ \E h \in Handlers, m \in Macs, c \in Tokens \cup OtherCreds : ProcessAuth(h, m, c)
           \/ \E h \in Handlers, c \in Tokens \cup OtherCreds : RejectBadMac(h, c)
  <2>1. PICK h \in Handlers :
            /\ UNCHANGED <<now, mint, grants>> /\ pc[h] = "idle" /\ pc'[h] # "save"
            /\ \A k \in Handlers \ {h} : pc'[k] = pc[k] /\ reply'[k] = reply[k] /\ req'[k] = req[k]
            /\ reply'[h] \in {reply[h], Rejected}
    BY <1>2 DEF ProcessAuth, RejectBadMac, Answer, TypeOK
  <2>2. ~reply'[h].accept
    BY <2>1 DEF TypeOK, CallOK, Rejected
  <2>3. Gate!Lose
    BY <2>1, <2>2, LoseStep DEF Consumed, Cred, Mac
  <2>4. QED BY <2>3 DEF Gate!Next
<1>3. CASE \/ \E t \in SharedTokens : OutsideSwap(t)
           \/ \E t \in Tokens : MintSettles(t)
           \/ Cleanup \/ UNCHANGED vars
  <2>1. /\ UNCHANGED <<now, pc, req, reply, grants>>
        /\ \A t \in Tokens : mint[t] = "SPENT" => mint'[t] = "SPENT"
    BY <1>3 DEF OutsideSwap, MintSettles, Cleanup, vars, TypeOK
  <2>2. Gate!Lose
    BY <2>1, LoseStep DEF Consumed, Cred, Mac
  <2>3. QED BY <2>2 DEF Gate!Next
<1>4. CASE Tick
  <2>1. /\ now' = now + 1 /\ GateToken' = GateToken /\ GateWindows' = GateWindows
        /\ GateAdmitted' = GateAdmitted
    BY <1>4 DEF Tick, GateToken, GateWindows, GateAdmitted, FateOf, Cred, Mac, WindowOf, Deadline
  <2>2. Gate!Advance
    BY <2>1 DEF Gate!Advance, GateToken, GateWindows, GateAdmitted
  <2>3. QED BY <2>2 DEF Gate!Next
<1>5. CASE Crash
  <2>1. /\ UNCHANGED <<now, mint, grants>>
        /\ \A h \in Handlers : pc'[h] = "idle" /\ ~reply'[h].accept
    BY <1>5 DEF Crash, Rejected
  <2>2. Gate!Lose
    BY <2>1, LoseStep DEF Consumed
  <2>3. QED BY <2>2 DEF Gate!Next
<1>6. QED
  BY <1>1, <1>2, <1>3, <1>4, <1>5 DEF Next

\* ProcessAuth with its store, its failed redemptions and its crashes does what
\* AuthGate says: a token is sold at most once or void for good, and admission
\* happens within an open window of one's own only.
THEOREM Refinement == Spec => ImplementsGate
<1>1. TypeOK /\ SwapInv /\ [Next]_vars => SwapInv'
  BY NextSwapInv
<1>2. TypeOK /\ SoldInv /\ [Next]_vars => SoldInv'
  BY NextSoldInv
<1>3. TypeOK /\ BoundInv /\ [Next]_vars => BoundInv'
  BY NextBoundInv
<1>4. TypeOK /\ SwapInv /\ SoldInv /\ BoundInv /\ [Next]_vars => [Gate!Next]_(Gate!gateVars)
  BY NextGate
<1>5. QED
  BY TypeCorrect, InitSwapInv, InitSoldInv, InitBoundInv, InitGate, <1>1, <1>2, <1>3, <1>4, PTL
  DEF Spec, ImplementsGate, Gate!Spec

=============================================================================
