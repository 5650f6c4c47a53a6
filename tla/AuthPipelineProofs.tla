------------------------ MODULE AuthPipelineProofs --------------------------
(***************************************************************************)
(* Proofs of the safety properties of AuthPipeline, for any sets of        *)
(* handlers, identifiers and tokens and in both modes.                     *)
(***************************************************************************)
EXTENDS AuthPipelineProps, TLAPS

\* Rounding down to whole seconds and up to at least one: what is left of an
\* open window is exceeded by less than a second.
LEMMA WholeSeconds ==
    ASSUME NEW n \in Nat, n > 0, NEW d \in Nat, d > 0
    PROVE  AtLeastOne(n \div d) \in Nat /\ AtLeastOne(n \div d) * d < n + d
<1>1. n \div d \in Nat /\ (n \div d) * d <= n
  OBVIOUS
<1>2. QED
  BY <1>1 DEF AtLeastOne

\* A session record has a deadline.
LEMMA DeadlineType ==
    ASSUME NEW r \in SessionRecord PROVE Deadline(r) \in Nat
  BY ParameterAssumption DEF SessionRecord, Deadline

\* An Accept for a number of seconds.
LEMMA AcceptForType ==
    ASSUME NEW k \in Nat, now \in Nat
    PROVE  AcceptFor(k) \in [accept : BOOLEAN, until : Nat]
<1>1. k * TicksPerSec \in Nat
  BY ParameterAssumption
<1>2. QED BY <1>1 DEF AcceptFor

\* What ProcessAuth answers to the owner of an open record.
LEMMA ResumedType ==
    ASSUME NEW r \in SessionRecord, now \in Nat, IsActive(r)
    PROVE  /\ Resumed(r) \in [accept : BOOLEAN, until : Nat]
           /\ Resumed(r).accept
           /\ Resumed(r).until < Deadline(r) + TicksPerSec
<1> DEFINE n == Deadline(r) - now
           k == AtLeastOne(n \div TicksPerSec)
<1>1. n \in Nat /\ n > 0
  BY DeadlineType DEF IsActive
<1>2. k \in Nat /\ k * TicksPerSec < n + TicksPerSec
  <2>1. TicksPerSec \in Nat /\ TicksPerSec > 0
    BY ParameterAssumption
  <2> HIDE DEF n
  <2>2. QED BY <1>1, <2>1, WholeSeconds
<1>3. Resumed(r) = [accept |-> TRUE, until |-> now + k * TicksPerSec]
  BY DEF Resumed, AcceptFor
<1>4. k * TicksPerSec \in Nat
  <2> HIDE DEF k
  <2> QED BY <1>2, ParameterAssumption
<1>5. now + k * TicksPerSec < Deadline(r) + TicksPerSec
  <2>1. Deadline(r) = now + n
    BY DeadlineType
  <2>2. Deadline(r) \in Nat /\ TicksPerSec \in Nat
    BY DeadlineType, ParameterAssumption
  <2> HIDE DEF k, n
  <2>3. QED BY <2>1, <2>2, <1>1, <1>2, <1>4
<1> HIDE DEF k
<1>6. QED BY <1>3, <1>4, <1>5

-----------------------------------------------------------------------------
(* Type correctness.                                                       *)

\* What a redemption buys is a number of seconds.
LEMMA BuysType ==
    ASSUME NEW t \in Tokens PROVE Buys(t) \subseteq Nat
  BY ParameterAssumption DEF Buys

LEMMA InitTypeOK == Init => TypeOK
  BY DEF Init, TypeOK, CallOK, Labels, Rejected

\* A step of a call preserves the type invariant.
LEMMA StepTypeOK ==
    ASSUME TypeOK, NEW h \in Handlers, Step(h)
    PROVE  TypeOK'
<1> USE DEF TypeOK, CallOK, Labels, history, Goto, Mac, Cred
<1>1. CASE GetSession(h)
  BY <1>1, IdentifierAssumption DEF GetSession, Get
<1>2. CASE Resume(h)
  <2>1. Resumed(rec[h]) \in [accept : BOOLEAN, until : Nat]
    BY <1>2, ResumedType DEF Resume
  <2>2. QED BY <1>2, <2>1 DEF Resume, Conclude, Answer
<1>3. CASE Expired(h)
  BY <1>3 DEF Expired
<1>4. CASE Remove(h)
  BY <1>4 DEF Remove
<1>5. CASE RejectCredential(h)
  BY <1>5 DEF RejectCredential, Conclude, Answer, Rejected
<1>6. CASE TakeCredential(h)
  BY <1>6 DEF TakeCredential, Payable
<1>7. CASE CheckState(h)
  BY <1>7 DEF CheckState
<1>8. CASE CheckStateRejects(h)
  BY <1>8 DEF CheckStateRejects, Conclude, Answer, Rejected
<1>9. CASE Regain(h)
  BY <1>9, IdentifierAssumption DEF Regain, Get
<1>10. CASE RegainedActive(h)
  <2>1. Resumed(rec[h]) \in [accept : BOOLEAN, until : Nat]
    BY <1>10, ResumedType DEF RegainedActive
  <2>2. QED BY <1>10, <2>1 DEF RegainedActive, Conclude, Answer
<1>11. CASE RejectSpent(h)
  BY <1>11 DEF RejectSpent, NothingToRegain, Conclude, Answer, Rejected
<1>12. CASE GoBootstrap(h)
  BY <1>12 DEF GoBootstrap, NothingToRegain
<1>13. CASE RedeemBegin(h)
  BY <1>13 DEF RedeemBegin
<1>14. CASE RedeemFail(h)
  BY <1>14 DEF RedeemFail, Answer, Rejected
<1>15. CASE RedeemCommit(h)
  <2>1. Cred(h) \in Tokens
    BY <1>15 DEF RedeemCommit
  <2>2. PICK s \in Buys(Cred(h)) \ {0} : secs' = [secs EXCEPT ![h] = s]
    BY <1>15 DEF RedeemCommit
  <2>3. s \in Nat
    BY <2>1, <2>2, BuysType
  <2>4. QED BY <1>15, <2>1, <2>2, <2>3 DEF RedeemCommit
<1>16. CASE RedeemLost(h) \/ ZeroAllotment(h)
  <2>1. ConsumeAndReject(h)
    BY <1>16 DEF RedeemLost, ZeroAllotment
  <2>2. Cred(h) \in Tokens
    BY <2>1 DEF ConsumeAndReject
  <2>3. QED BY <2>1, <2>2 DEF ConsumeAndReject, Answer, Rejected
<1>17. CASE Save(h) \/ SaveError(h)
  <2>1. pc[h] = "save" /\ Mac(h) \in Macs /\ Cred(h) \in Tokens
    BY <1>17 DEF Save, SaveError
  <2>2. NewRecord(h) \in SessionRecord
    BY <2>1 DEF NewRecord, SessionRecord
  <2>3. AcceptFor(secs[h]) \in [accept : BOOLEAN, until : Nat]
    BY AcceptForType
  <2>4. CASE Save(h)
    BY <2>1, <2>2, <2>3, <2>4 DEF Save, Answer
  <2>5. CASE SaveError(h)
    BY <2>1, <2>2, <2>3, <2>5 DEF SaveError, Answer
  <2>6. QED BY <1>17, <2>4, <2>5
<1>18. CASE Return(h)
  BY <1>18 DEF Return, Rejected
<1>19. QED
  BY <1>1, <1>2, <1>3, <1>4, <1>5, <1>6, <1>7, <1>8, <1>9, <1>10, <1>11,
     <1>12, <1>13, <1>14, <1>15, <1>16, <1>17, <1>18 DEF Step

\* What happens around the calls preserves the type invariant.
LEMMA NextTypeOK ==
    ASSUME TypeOK, [Next]_vars
    PROVE  TypeOK'
<1> USE DEF TypeOK, CallOK, Labels, history, Goto, Mac, Cred
<1>1. ASSUME NEW h \in Handlers, NEW m \in Macs,
             NEW c \in Tokens \cup OtherCreds, ProcessAuth(h, m, c)
      PROVE  TypeOK'
  BY <1>1 DEF ProcessAuth, Requests
<1>2. ASSUME NEW h \in Handlers, NEW c \in Tokens \cup OtherCreds,
             RejectBadMac(h, c)
      PROVE  TypeOK'
  BY <1>2 DEF RejectBadMac, Answer, Rejected, Requests
<1>3. ASSUME NEW h \in Handlers, Step(h) PROVE TypeOK'
  BY <1>3, StepTypeOK
<1>4. ASSUME NEW t \in SharedTokens, OutsideSwap(t) PROVE TypeOK'
  BY <1>4, ParameterAssumption DEF OutsideSwap
<1>5. ASSUME NEW t \in Tokens, MintSettles(t) PROVE TypeOK'
  BY <1>5 DEF MintSettles
<1>6. CASE Cleanup
  BY <1>6 DEF Cleanup
<1>7. CASE Tick
  BY <1>7 DEF Tick
<1>8. CASE Crash
  BY <1>8 DEF Crash, Rejected
<1>9. CASE UNCHANGED vars
  BY <1>9 DEF vars
<1>10. QED
  BY <1>1, <1>2, <1>3, <1>4, <1>5, <1>6, <1>7, <1>8, <1>9 DEF Next

\* The pipeline is type correct.
THEOREM TypeCorrect == Spec => []TypeOK
<1>1. TypeOK /\ [Next]_vars => TypeOK'
  BY NextTypeOK
<1>2. QED
  BY InitTypeOK, <1>1, PTL DEF Spec

-----------------------------------------------------------------------------
(* A token pays for at most one window.                                    *)

LEMMA InitSwapInv == Init => SwapInv
  BY DEF Init, SwapInv, OneWindowPerToken

\* A step that leaves the mint and the windows alone, and makes no call wait
\* for a swap or a Save that did not before, preserves SwapInv.
LEMMA QuietSwapInv ==
    ASSUME TypeOK, SwapInv, UNCHANGED <<mint, grants>>,
           \A k \in Handlers : pc'[k] \in {"swapping", "save"} =>
               pc'[k] = pc[k] /\ req'[k] = req[k]
    PROVE  SwapInv'
  BY DEF SwapInv, OneWindowPerToken, Cred, TypeOK

\* A step of a call preserves SwapInv.
LEMMA StepSwapInv ==
    ASSUME TypeOK, SwapInv, NEW h \in Handlers, Step(h)
    PROVE  SwapInv'
<1> USE DEF history, Goto
<1>1. CASE \/ GetSession(h) \/ Expired(h) \/ Remove(h) \/ TakeCredential(h)
           \/ CheckState(h) \/ Regain(h) \/ GoBootstrap(h) \/ Return(h)
  BY <1>1, QuietSwapInv
  DEF GetSession, Expired, Remove, TakeCredential, CheckState, Regain,
      GoBootstrap, Return, TypeOK
<1>2. CASE \/ Resume(h) \/ RejectCredential(h) \/ CheckStateRejects(h)
           \/ RegainedActive(h) \/ RejectSpent(h)
  BY <1>2, QuietSwapInv
  DEF Resume, RejectCredential, CheckStateRejects, RegainedActive, RejectSpent,
      Conclude, Answer, TypeOK
<1>3. CASE RedeemBegin(h)
  BY <1>3 DEF RedeemBegin, SwapInv, OneWindowPerToken, Cred, TypeOK, CallOK
<1>4. CASE RedeemFail(h)
  <2>1. CASE pc[h] = "redeem" /\ UNCHANGED mint
    BY <1>4, <2>1, QuietSwapInv DEF RedeemFail, Answer, TypeOK
  <2>2. CASE pc[h] = "swapping" /\ mint' = [mint EXCEPT ![Cred(h)] = "UNSPENT"]
    <3>1. /\ pc' = [pc EXCEPT ![h] = "reply"]
          /\ UNCHANGED <<req, grants>>
      BY <1>4 DEF RedeemFail, Answer
    <3>2. QED
      BY <2>2, <3>1 DEF SwapInv, OneWindowPerToken, Cred, TypeOK, CallOK
  <2>3. QED BY <1>4, <2>1, <2>2 DEF RedeemFail
<1>5. CASE RedeemCommit(h)
  BY <1>5 DEF RedeemCommit, SwapInv, OneWindowPerToken, Cred, TypeOK, CallOK
<1>6. CASE RedeemLost(h) \/ ZeroAllotment(h)
  <2>1. ConsumeAndReject(h)
    BY <1>6 DEF RedeemLost, ZeroAllotment
  <2>2. QED
    BY <2>1 DEF ConsumeAndReject, Answer, SwapInv, OneWindowPerToken, Cred,
                TypeOK, CallOK
<1>7. CASE Save(h) \/ SaveError(h)
  <2>1. /\ pc[h] = "save"
        /\ pc' = [pc EXCEPT ![h] = "reply"]
        /\ grants' = grants \cup {NewRecord(h)}
        /\ UNCHANGED <<mint, req>>
    BY <1>7 DEF Save, SaveError, Answer
  <2>2. NewRecord(h).token = Cred(h)
    BY DEF NewRecord
  <2>3. QED
    BY <2>1, <2>2 DEF SwapInv, OneWindowPerToken, Cred, TypeOK
<1>8. QED
  BY <1>1, <1>2, <1>3, <1>4, <1>5, <1>6, <1>7 DEF Step

LEMMA NextSwapInv ==
    ASSUME TypeOK, SwapInv, [Next]_vars
    PROVE  SwapInv'
<1> USE DEF history, Goto
<1>1. ASSUME NEW h \in Handlers, NEW m \in Macs,
             NEW c \in Tokens \cup OtherCreds, ProcessAuth(h, m, c)
      PROVE  SwapInv'
  BY <1>1, QuietSwapInv DEF ProcessAuth, TypeOK
<1>2. ASSUME NEW h \in Handlers, NEW c \in Tokens \cup OtherCreds,
             RejectBadMac(h, c)
      PROVE  SwapInv'
  BY <1>2, QuietSwapInv DEF RejectBadMac, Answer, TypeOK
<1>3. ASSUME NEW h \in Handlers, Step(h) PROVE SwapInv'
  BY <1>3, StepSwapInv
<1>4. ASSUME NEW t \in SharedTokens, OutsideSwap(t) PROVE SwapInv'
  BY <1>4, ParameterAssumption
  DEF OutsideSwap, SwapInv, OneWindowPerToken, Cred, TypeOK, CallOK
<1>5. ASSUME NEW t \in Tokens, MintSettles(t) PROVE SwapInv'
  <2>1. PICK end \in {"UNSPENT", "SPENT"} : mint' = [mint EXCEPT ![t] = end]
    BY <1>5 DEF MintSettles
  <2>2. /\ mint[t] = "PENDING"
        /\ \A h \in Handlers : pc[h] = "swapping" => Cred(h) # t
        /\ UNCHANGED <<pc, req, grants>>
    BY <1>5 DEF MintSettles
  <2>3. QED
    BY <2>1, <2>2 DEF SwapInv, OneWindowPerToken, Cred, TypeOK, CallOK
<1>6. CASE Cleanup \/ Tick \/ UNCHANGED vars
  BY <1>6, QuietSwapInv DEF Cleanup, Tick, vars
<1>7. CASE Crash
  BY <1>7, QuietSwapInv DEF Crash
<1>8. QED
  BY <1>1, <1>2, <1>3, <1>4, <1>5, <1>6, <1>7 DEF Next

\* However the calls interleave, no token is turned into two windows.
THEOREM TokenSoldOnce == Spec => []OneWindowPerToken
<1>1. TypeOK /\ SwapInv /\ [Next]_vars => SwapInv'
  BY NextSwapInv
<1>2. SwapInv => OneWindowPerToken
  BY DEF SwapInv
<1>3. QED
  BY InitSwapInv, TypeCorrect, <1>1, <1>2, PTL DEF Spec

-----------------------------------------------------------------------------
(* An Accept is backed by a window of one's own.                           *)

LEMMA InitSoldInv == Init => SoldInv
  BY IdentifierAssumption
  DEF Init, SoldInv, AdmittedWithinPaidWindow, Rejected

\* A step that only adds windows, after which each file is as before, gone,
\* truncated or a window of its identifier, and that changes the locals of
\* call h alone, to a record and an answer that such windows back.
OneCall(h) ==
    /\ grants \subseteq grants'
    /\ \A m \in Macs : \/ sessions'[m] = sessions[m]
                      \/ sessions'[m] \in {NoSession, Corrupt}
                      \/ sessions'[m] \in {g \in grants' : g.mac = m}
    /\ \A k \in Handlers \ {h} : /\ req'[k] = req[k]
                                 /\ rec'[k] = rec[k]
                                 /\ reply'[k] = reply[k]
    /\ rec'[h] \in SessionRecord =>
           rec'[h] \in grants' /\ rec'[h].mac = req'[h].mac
    /\ reply'[h].accept => \E g \in grants' :
           g.mac = req'[h].mac /\ reply'[h].until < Deadline(g) + TicksPerSec

LEMMA OneCallSoldInv ==
    ASSUME SoldInv, NEW h \in Handlers, OneCall(h)
    PROVE  SoldInv'
<1> USE DEF OneCall
<1>1. \A m \in Macs : sessions'[m] \in SessionRecord =>
          sessions'[m] \in grants' /\ sessions'[m].mac = m
  BY IdentifierAssumption DEF SoldInv
<1>2. \A k \in Handlers : rec'[k] \in SessionRecord =>
          rec'[k] \in grants' /\ rec'[k].mac = req'[k].mac
  BY DEF SoldInv, Mac
<1>3. ASSUME NEW k \in Handlers, reply'[k].accept
      PROVE  \E g \in grants' : /\ g.mac = req'[k].mac
                               /\ reply'[k].until < Deadline(g) + TicksPerSec
  <2>1. CASE k = h
    BY <1>3, <2>1
  <2>2. CASE k # h
    <3>1. PICK g \in grants : /\ g.mac = Mac(k)
                              /\ reply[k].until < Deadline(g) + TicksPerSec
      BY <1>3, <2>2 DEF SoldInv, AdmittedWithinPaidWindow
    <3>2. QED BY <2>2, <3>1 DEF Mac
  <2>3. QED BY <2>1, <2>2
<1>4. QED BY <1>1, <1>2, <1>3 DEF SoldInv, AdmittedWithinPaidWindow, Mac, Deadline

\* A step of a call preserves SoldInv.
LEMMA StepSoldInv ==
    ASSUME TypeOK, SoldInv, NEW h \in Handlers, Step(h)
    PROVE  SoldInv'
<1> USE DEF history, Goto
<1>1. CASE GetSession(h) \/ Regain(h)
  <2>1. /\ rec' = [rec EXCEPT ![h] = Get(Mac(h))]
        /\ UNCHANGED <<sessions, req, reply, grants>>
        /\ pc[h] \in {"get", "regain"}
    BY <1>1 DEF GetSession, Regain
  <2>2. Mac(h) \in Macs /\ req'[h].mac = Mac(h) /\ ~reply[h].accept
    BY <2>1 DEF TypeOK, CallOK, Mac
  <2>3. rec'[h] \in SessionRecord =>
            rec'[h] \in grants' /\ rec'[h].mac = req'[h].mac
    BY <2>1, <2>2, IdentifierAssumption DEF TypeOK, SoldInv, Get
  <2>4. OneCall(h)
    BY <2>1, <2>2, <2>3 DEF TypeOK, OneCall
  <2>5. QED BY <2>4, OneCallSoldInv
<1>2. CASE Resume(h) \/ RegainedActive(h)
  <2>1. /\ IsActive(rec[h]) /\ rec[h] \in SessionRecord
        /\ reply' = [reply EXCEPT ![h] = Resumed(rec[h])]
        /\ rec' = [rec EXCEPT ![h] = NoSession]
        /\ UNCHANGED <<sessions, req, grants>>
    BY <1>2 DEF Resume, RegainedActive, Conclude, Answer, TypeOK, CallOK
  <2>2. rec[h] \in grants' /\ rec[h].mac = req'[h].mac
    BY <2>1 DEF SoldInv, Mac
  <2>3. reply'[h].until < Deadline(rec[h]) + TicksPerSec
    BY <2>1, ResumedType DEF TypeOK
  <2>4. \E g \in grants' : /\ g.mac = req'[h].mac
                          /\ reply'[h].until < Deadline(g) + TicksPerSec
    BY <2>2, <2>3 
  <2>5. rec'[h] \notin SessionRecord
    BY <2>1, IdentifierAssumption DEF TypeOK
  <2>6. OneCall(h)
    BY <2>1, <2>4, <2>5 DEF TypeOK, OneCall
  <2>7. QED BY <2>6, OneCallSoldInv
<1>3. CASE \/ Expired(h) \/ Remove(h) \/ TakeCredential(h) \/ CheckState(h)
           \/ GoBootstrap(h) \/ RedeemBegin(h) \/ RedeemCommit(h)
  <2>1. /\ rec'[h] \in {rec[h], NoSession}
        /\ \A k \in Handlers \ {h} : rec'[k] = rec[k]
        /\ \A m \in Macs : sessions'[m] = sessions[m] \/ sessions'[m] = NoSession
        /\ UNCHANGED <<req, reply, grants>>
        /\ pc[h] # "reply"
    BY <1>3 DEF Expired, Remove, TakeCredential, CheckState, GoBootstrap,
                NothingToRegain, RedeemBegin, RedeemCommit, TypeOK
  <2>2. rec'[h] \in SessionRecord =>
            rec'[h] \in grants' /\ rec'[h].mac = req'[h].mac
    BY <2>1, IdentifierAssumption DEF SoldInv, Mac
  <2>3. ~reply'[h].accept
    BY <2>1 DEF TypeOK, CallOK
  <2>4. OneCall(h)
    BY <2>1, <2>2, <2>3 DEF OneCall
  <2>5. QED BY <2>4, OneCallSoldInv
<1>4. CASE \/ RejectCredential(h) \/ CheckStateRejects(h) \/ RejectSpent(h)
           \/ RedeemFail(h) \/ RedeemLost(h) \/ ZeroAllotment(h) \/ Return(h)
  <2>1. /\ rec'[h] \in {rec[h], NoSession}
        /\ pc[h] = "reply" => rec'[h] = rec[h]
        /\ pc[h] # "reply" => rec'[h] = NoSession
        /\ \A k \in Handlers \ {h} : /\ req'[k] = req[k]
                                      /\ rec'[k] = rec[k]
                                      /\ reply'[k] = reply[k]
        /\ reply'[h] = Rejected
        /\ UNCHANGED <<sessions, grants>>
    BY <1>4 DEF RejectCredential, CheckStateRejects, RejectSpent, NothingToRegain,
                RedeemFail, RedeemLost, ZeroAllotment, ConsumeAndReject, Return,
                Conclude, Answer, TypeOK
  <2>2. rec'[h] \notin SessionRecord
    BY <2>1, IdentifierAssumption DEF TypeOK, CallOK
  <2>3. OneCall(h)
    BY <2>1, <2>2 DEF Rejected, OneCall
  <2>4. QED BY <2>3, OneCallSoldInv
<1>5. CASE Save(h) \/ SaveError(h)
  <2>1. /\ Mac(h) \in Macs /\ req'[h].mac = Mac(h)
        /\ now \in Nat /\ secs[h] \in Nat
    BY <1>5 DEF Save, SaveError, TypeOK, CallOK, Mac
  <2>2. /\ grants' = grants \cup {NewRecord(h)}
        /\ reply' = [reply EXCEPT ![h] = AcceptFor(secs[h])]
        /\ rec' = [rec EXCEPT ![h] = NoSession]
        /\ UNCHANGED req
    BY <1>5 DEF Save, SaveError, Answer
  <2>3. NewRecord(h) \in grants' /\ NewRecord(h).mac = req'[h].mac
    BY <2>1, <2>2 DEF NewRecord
  <2>4. \A m \in Macs : \/ sessions'[m] = sessions[m]
                        \/ sessions'[m] \in {NoSession, Corrupt}
                        \/ sessions'[m] \in {g \in grants' : g.mac = m}
    BY <1>5, <2>1, <2>3 DEF Save, SaveError, TypeOK
  <2>5. \E g \in grants' : /\ g.mac = req'[h].mac
                          /\ reply'[h].until < Deadline(g) + TicksPerSec
    <3>1. Deadline(NewRecord(h)) = now + secs[h] * TicksPerSec
      BY DEF Deadline, NewRecord
    <3>2. reply'[h].until = now + secs[h] * TicksPerSec
      BY <2>2 DEF AcceptFor, TypeOK
    <3>3. now + secs[h] * TicksPerSec \in Nat
      BY <2>1, ParameterAssumption
    <3>4. reply'[h].until < Deadline(NewRecord(h)) + TicksPerSec
      BY <3>1, <3>2, <3>3, ParameterAssumption
    <3>5. QED BY <2>3, <3>4 
  <2>6. rec'[h] \notin SessionRecord
    BY <2>2, IdentifierAssumption DEF TypeOK
  <2>7. OneCall(h)
    BY <2>2, <2>4, <2>5, <2>6 DEF TypeOK, OneCall
  <2>8. QED BY <2>7, OneCallSoldInv
<1>6. QED
  BY <1>1, <1>2, <1>3, <1>4, <1>5 DEF Step

LEMMA NextSoldInv ==
    ASSUME TypeOK, SoldInv, [Next]_vars
    PROVE  SoldInv'
<1> USE DEF history, Goto
<1>1. ASSUME NEW h \in Handlers, NEW m \in Macs,
             NEW c \in Tokens \cup OtherCreds, ProcessAuth(h, m, c)
      PROVE  SoldInv'
  <2>1. rec'[h] \notin SessionRecord /\ ~reply'[h].accept
    BY <1>1, IdentifierAssumption DEF ProcessAuth, TypeOK, CallOK
  <2>2. OneCall(h)
    BY <1>1, <2>1 DEF ProcessAuth, TypeOK, OneCall
  <2>3. QED BY <2>2, OneCallSoldInv
<1>2. ASSUME NEW h \in Handlers, NEW c \in Tokens \cup OtherCreds,
             RejectBadMac(h, c)
      PROVE  SoldInv'
  <2>1. rec'[h] \notin SessionRecord /\ ~reply'[h].accept
    BY <1>2, IdentifierAssumption DEF RejectBadMac, Answer, Rejected, TypeOK
  <2>2. OneCall(h)
    BY <1>2, <2>1 DEF RejectBadMac, Answer, TypeOK, OneCall
  <2>3. QED BY <2>2, OneCallSoldInv
<1>3. ASSUME NEW h \in Handlers, Step(h) PROVE SoldInv'
  BY <1>3, StepSoldInv
<1>4. CASE \/ \E t \in SharedTokens : OutsideSwap(t)
           \/ \E t \in Tokens : MintSettles(t)
           \/ Cleanup \/ Tick \/ UNCHANGED vars
  <2>1. /\ UNCHANGED <<req, rec, reply, grants>>
        /\ \A m \in Macs : sessions'[m] = sessions[m] \/ sessions'[m] = NoSession
    BY <1>4 DEF OutsideSwap, MintSettles, Cleanup, Tick, vars
  <2>2. \A m \in Macs : sessions'[m] \in SessionRecord =>
            sessions'[m] \in grants' /\ sessions'[m].mac = m
    BY <2>1, IdentifierAssumption DEF SoldInv
  <2>3. QED
    BY <2>1, <2>2 DEF SoldInv, AdmittedWithinPaidWindow, Deadline, Mac
<1>5. CASE Crash
  <2>1. /\ \A h \in Handlers : rec'[h] = NoSession /\ reply'[h] = Rejected
        /\ \A m \in Macs : sessions'[m] = sessions[m] \/ sessions'[m] = Corrupt
        /\ UNCHANGED grants
    BY <1>5 DEF Crash
  <2>2. QED
    BY <2>1, IdentifierAssumption DEF SoldInv, AdmittedWithinPaidWindow, Rejected
<1>6. QED
  BY <1>1, <1>2, <1>3, <1>4, <1>5 DEF Next

\* Nobody is admitted without a window of their own, nor for a second longer
\* than it lasts.
THEOREM AdmissionIsPaidFor == Spec => []AdmittedWithinPaidWindow
<1>1. TypeOK /\ SoldInv /\ [Next]_vars => SoldInv'
  BY NextSoldInv
<1>2. SoldInv => AdmittedWithinPaidWindow
  BY DEF SoldInv
<1>3. QED
  BY InitSoldInv, TypeCorrect, <1>1, <1>2, PTL DEF Spec

-----------------------------------------------------------------------------
(* An open window is kept, and its owner is admitted.                      *)

LEMMA InitWindowInv == Init => WindowInv
  BY DEF Init, WindowInv, Busy, PaidWindowKept, PaidCustomerAdmitted

\* What WindowInv says of one call.
CallKnows(h) ==
    /\ pc[h] \in {"isActive", "stillActive"} =>
           \A g \in grants : g.mac = Mac(h) /\ Open(g) => rec[h] = g
    /\ PastLookup(h) => NoneOpen(Mac(h))
    /\ pc[h] = "reply" /\ ~reply[h].accept /\ (AuthMode = "delegated" => Payable(Cred(h)))
           => NoneOpen(Mac(h))

\* WindowInv, call by call.
WindowForm ==
    /\ \A h, k \in Handlers :
           /\ Busy(h) /\ Busy(k) /\ Mac(h) = Mac(k) /\ Mac(h) \in Macs \ contended
           => h = k
    /\ \A h \in Handlers : Busy(h) /\ Quiet(Mac(h)) => CallKnows(h)
    /\ PaidWindowKept

LEMMA WindowInvForm == WindowInv <=> WindowForm
  BY DEF WindowInv, WindowForm, CallKnows, PaidCustomerAdmitted, NoneOpen, Quiet, Busy

\* A step of call h that sells nothing, and takes a file away only where no
\* window is open.
LEMMA OneCallWindows ==
    ASSUME TypeOK, WindowForm, NEW h \in Handlers, Busy(h),
           UNCHANGED <<now, grants, contended, faulted>>,
           \A k \in Handlers \ {h} : /\ pc'[k] = pc[k] /\ req'[k] = req[k]
                                     /\ rec'[k] = rec[k] /\ reply'[k] = reply[k],
           \A m \in Macs : \/ sessions'[m] = sessions[m]
                           \/ Quiet(m) => NoneOpen(m),
           pc'[h] # "idle" => /\ req'[h] = req[h]
                              /\ Quiet(Mac(h)) => CallKnows(h)'
    PROVE  WindowForm'
<1>1. \A m : Quiet(m)' = Quiet(m) /\ NoneOpen(m)' = NoneOpen(m)
  BY DEF Quiet, NoneOpen, Open
<1>2. \A k \in Handlers : Busy(k)' => Busy(k) /\ Mac(k)' = Mac(k) /\ Cred(k)' = Cred(k)
  BY DEF Busy, Mac, Cred
<1>3. ASSUME NEW k \in Handlers, Busy(k)', Quiet(Mac(k)) PROVE CallKnows(k)'
  <2>1. CASE k = h
    BY <1>2, <1>3, <2>1 DEF Busy
  <2>2. CASE k # h
    <3>1. CallKnows(k)
      BY <1>2, <1>3 DEF WindowForm
    <3>2. QED
      BY <1>1, <1>2, <1>3, <2>2, <3>1 DEF CallKnows, PastLookup, Open
  <2>3. QED BY <2>1, <2>2
<1>4. PaidWindowKept'
  BY <1>1 DEF WindowForm, PaidWindowKept, Quiet, NoneOpen, Open, TypeOK, SessionRecord
<1>5. QED
  BY <1>1, <1>2, <1>3, <1>4 DEF WindowForm

\* Looking for the session of a quiet identifier finds its open window.
LEMMA GetFindsWindow ==
    ASSUME TypeOK, PaidWindowKept, NEW m, Quiet(m), NEW g \in grants, g.mac = m, Open(g)
    PROVE  Get(m) = g /\ Get(m) # NoSession
  BY IdentifierAssumption DEF TypeOK, PaidWindowKept, Quiet, Get

\* A step of a call that has found no window, or answers.
LEMMA StepWindows ==
    ASSUME TypeOK, WindowForm, NEW h \in Handlers, Step(h)
    PROVE  WindowForm'
<1> USE DEF history, Goto
<1>1. PaidWindowKept /\ (Busy(h) /\ Quiet(Mac(h)) => CallKnows(h)) /\ (pc[h] \in Labels)
  BY DEF WindowForm, TypeOK
<1>2. \A k \in Handlers : pc[k] \in Labels /\ rec[k] \in SessionRecord \cup {NoSession}
  BY DEF TypeOK
<1>3. CASE GetSession(h) \/ Regain(h)
  <2>1. /\ Busy(h) /\ UNCHANGED <<now, sessions, req, reply, grants, contended, faulted>>
        /\ rec'[h] = Get(Mac(h))
        /\ \/ pc'[h] = "extract" /\ Get(Mac(h)) = NoSession
           \/ pc'[h] = "isActive"
           \/ pc'[h] = "stillActive" /\ pc[h] = "regain"
        /\ \A k \in Handlers \ {h} : pc'[k] = pc[k] /\ rec'[k] = rec[k]
    BY <1>3 DEF GetSession, Regain, TypeOK, Busy
  <2>2. ASSUME Quiet(Mac(h)) PROVE CallKnows(h)'
    <3>1. \A g \in grants : g.mac = Mac(h) /\ Open(g) => Get(Mac(h)) = g /\ Get(Mac(h)) # NoSession
      BY <1>1, <2>2, GetFindsWindow
    <3>2. pc[h] = "regain" /\ AuthMode = "local" => NoneOpen(Mac(h))
      BY <1>1, <2>1, <2>2 DEF CallKnows, PastLookup
    <3>3. Mac(h)' = Mac(h)
      BY <2>1 DEF Mac
    <3>4. QED
      BY <2>1, <3>1, <3>2, <3>3 DEF CallKnows, PastLookup, NoneOpen, Open
  <2>3. QED
    BY <2>1, <2>2, OneCallWindows
<1>4. CASE Resume(h) \/ RegainedActive(h)
  <2>1. /\ Busy(h) /\ UNCHANGED <<now, sessions, req, grants, contended, faulted>>
        /\ pc'[h] = "reply"
        /\ rec[h] \in SessionRecord /\ reply'[h] = Resumed(rec[h]) /\ IsActive(rec[h])
        /\ \A k \in Handlers \ {h} : pc'[k] = pc[k] /\ rec'[k] = rec[k] /\ reply'[k] = reply[k]
    BY <1>4 DEF Resume, RegainedActive, Conclude, Answer, TypeOK, CallOK, Busy
  <2>2. reply'[h].accept
    BY <2>1, ResumedType DEF TypeOK
  <2>3. CallKnows(h)'
    BY <2>1, <2>2 DEF CallKnows, PastLookup
  <2>4. QED
    BY <2>1, <2>3, OneCallWindows
<1>5. CASE Expired(h) \/ (NothingToRegain(h) /\ (RejectSpent(h) \/ GoBootstrap(h)))
  <2>1. /\ Busy(h) /\ UNCHANGED <<now, sessions, req, grants, contended, faulted>>
        /\ pc'[h] \in {"remove", "reply", "redeem"}
        /\ \A k \in Handlers \ {h} : pc'[k] = pc[k] /\ rec'[k] = rec[k] /\ reply'[k] = reply[k]
    BY <1>5 DEF Expired, NothingToRegain, RejectSpent, GoBootstrap, Conclude, Answer, TypeOK, Busy
  <2>2. ASSUME Quiet(Mac(h)) PROVE NoneOpen(Mac(h))
    <3>1. CASE pc[h] = "regain" /\ Get(Mac(h)) = NoSession
      BY <1>1, <2>2, <3>1, GetFindsWindow DEF NoneOpen
    <3>2. CASE pc[h] \in {"isActive", "stillActive"} /\ ~IsActive(rec[h])
      BY <1>1, <2>1, <2>2, <3>2 DEF CallKnows, NoneOpen, IsActive, Open
    <3>3. QED
      BY <1>5, <3>1, <3>2 DEF Expired, NothingToRegain
  <2>3. ASSUME Quiet(Mac(h)) PROVE CallKnows(h)'
    <3>1. Mac(h)' = Mac(h)
      BY <2>1 DEF Mac
    <3>2. QED
      BY <2>1, <2>2, <2>3, <3>1 DEF CallKnows, NoneOpen, Open
  <2>4. QED
    BY <2>1, <2>3, OneCallWindows
<1>6. CASE \/ Remove(h) \/ TakeCredential(h) \/ CheckState(h)
           \/ RedeemBegin(h) \/ RedeemCommit(h)
  <2>1. /\ Busy(h) /\ UNCHANGED <<now, req, reply, rec, grants, contended, faulted>>
        /\ PastLookup(h) \/ (pc[h] = "extract" /\ AuthMode = "delegated")
        /\ pc'[h] \in {"extract", "check", "regain", "redeem", "swapping", "save"}
        /\ pc[h] = "extract" /\ AuthMode = "delegated" => pc'[h] = "regain"
        /\ \A k \in Handlers \ {h} : pc'[k] = pc[k]
    BY <1>6, ParameterAssumption
    DEF Remove, TakeCredential, CheckState, RedeemBegin, RedeemCommit, TypeOK, Busy, PastLookup
  <2>2. \A m \in Macs : sessions'[m] = sessions[m] \/ (m = Mac(h) /\ pc[h] = "remove")
    BY <1>6 DEF Remove, TakeCredential, CheckState, RedeemBegin, RedeemCommit, TypeOK
  <2>3. Quiet(Mac(h)) /\ PastLookup(h) => NoneOpen(Mac(h))
    BY <1>1, <2>1 DEF CallKnows
  <2>4. ASSUME Quiet(Mac(h)) PROVE CallKnows(h)'
    <3>1. Mac(h)' = Mac(h)
      BY <2>1 DEF Mac
    <3>2. QED
      BY <2>1, <2>3, <2>4, <3>1 DEF CallKnows, NoneOpen, Open, PastLookup
  <2>5. \A m \in Macs : sessions'[m] = sessions[m] \/ (Quiet(m) => NoneOpen(m))
    BY <2>2, <2>3 DEF PastLookup
  <2>6. QED
    BY <2>1, <2>4, <2>5, OneCallWindows
<1>7. CASE \/ RejectCredential(h) \/ CheckStateRejects(h)
           \/ RedeemFail(h) \/ RedeemLost(h) \/ ZeroAllotment(h)
  <2>1. /\ Busy(h) /\ UNCHANGED <<now, sessions, req, grants, contended, faulted>>
        /\ PastLookup(h) \/ (pc[h] = "extract" /\ AuthMode = "delegated" /\ ~Payable(Cred(h)))
        /\ pc'[h] = "reply"
        /\ \A k \in Handlers \ {h} : pc'[k] = pc[k] /\ rec'[k] = rec[k] /\ reply'[k] = reply[k]
    BY <1>7, ParameterAssumption
    DEF RejectCredential, CheckStateRejects, RedeemFail, RedeemLost, ZeroAllotment,
        ConsumeAndReject, Conclude, Answer, TypeOK, Busy, PastLookup
  <2>2. Quiet(Mac(h)) /\ PastLookup(h) => NoneOpen(Mac(h))
    BY <1>1, <2>1 DEF CallKnows
  <2>3. ASSUME Quiet(Mac(h)) PROVE CallKnows(h)'
    <3>1. Mac(h)' = Mac(h) /\ Cred(h)' = Cred(h)
      BY <2>1 DEF Mac, Cred
    <3>2. QED
      BY <2>1, <2>2, <2>3, <3>1 DEF CallKnows, NoneOpen, Open, PastLookup, Payable
  <2>4. QED
    BY <2>1, <2>3, OneCallWindows
<1>8. CASE Save(h) \/ SaveError(h)
  <2> DEFINE m == Mac(h)
             new == NewRecord(h)
  <2>1. /\ Busy(h) /\ pc[h] = "save" /\ UNCHANGED <<now, req, contended>>
        /\ pc'[h] = "reply" /\ reply'[h] = AcceptFor(secs[h])
        /\ grants' = grants \cup {new}
        /\ \A k \in Handlers \ {h} : pc'[k] = pc[k] /\ rec'[k] = rec[k] /\ reply'[k] = reply[k]
    BY <1>8 DEF Save, SaveError, Answer, TypeOK, Busy
  <2>2. m \in Macs /\ new.mac = m /\ reply'[h].accept
    BY <2>1 DEF TypeOK, CallOK, NewRecord, AcceptFor
  <2>3. /\ \A n \in Macs \ {m} : sessions'[n] = sessions[n]
        /\ faulted \subseteq faulted' /\ faulted' \subseteq faulted \cup {m}
        /\ sessions'[m] = new \/ m \in faulted'
    BY <1>8, <2>2 DEF Save, SaveError, TypeOK
  <2> HIDE DEF new
  <2>4. \A k \in Handlers : Busy(k)' = Busy(k) /\ Mac(k)' = Mac(k) /\ Cred(k)' = Cred(k)
    BY <2>1 DEF Busy, Mac, Cred
  <2>5. \A n : Quiet(n)' => Quiet(n)
    BY <2>1, <2>3 DEF Quiet
  <2>6. Quiet(m) => NoneOpen(m)
    BY <1>1, <2>1 DEF CallKnows, PastLookup
  <2>7. ASSUME NEW k \in Handlers, Busy(k), Quiet(Mac(k))' PROVE CallKnows(k)'
    <3>1. CASE k = h
      BY <2>1, <2>2, <3>1 DEF CallKnows, PastLookup
    <3>2. CASE k # h
      <4>1. CallKnows(k) /\ Mac(k) # m
        BY <2>1, <2>5, <2>4, <2>7, <3>2 DEF WindowForm, Quiet
      <4>2. \A g \in grants' : g.mac = Mac(k) => g \in grants
        BY <2>1, <2>2, <4>1
      <4>3. QED
        BY <2>1, <2>4, <3>2, <4>1, <4>2 DEF CallKnows, PastLookup, NoneOpen, Open
    <3>3. QED BY <3>1, <3>2
  <2>8. PaidWindowKept'
    <3>1. ASSUME NEW g \in grants', Open(g)', Quiet(g.mac)' PROVE sessions'[g.mac] = g
      <4>1. CASE g = new
        BY <2>2, <2>3, <3>1, <4>1 DEF Quiet
      <4>2. CASE g # new
        <5>1. g \in grants /\ Open(g) /\ Quiet(g.mac)
          BY <2>1, <2>5, <3>1, <4>2 DEF Open
        <5>2. g.mac # m
          BY <2>6, <5>1 DEF NoneOpen
        <5>3. QED
          BY <1>1, <2>3, <5>1, <5>2 DEF PaidWindowKept, Quiet
      <4>3. QED BY <4>1, <4>2
    <3>2. \A g \in grants' : g.mac \in Macs
      BY <2>1, <2>2 DEF TypeOK, SessionRecord
    <3>3. QED
      BY <3>1, <3>2 DEF PaidWindowKept, Quiet
  <2>9. QED
    BY <2>1, <2>4, <2>7, <2>8 DEF WindowForm
<1>9. CASE Return(h)
  <2>1. /\ Busy(h) /\ UNCHANGED <<now, sessions, rec, grants, contended, faulted>> /\ pc'[h] = "idle"
        /\ \A k \in Handlers \ {h} : pc'[k] = pc[k] /\ req'[k] = req[k] /\ reply'[k] = reply[k]
    BY <1>9 DEF Return, TypeOK, Busy
  <2>2. QED
    BY <2>1, OneCallWindows
<1>10. QED
  BY <1>3, <1>4, <1>5, <1>6, <1>7, <1>8, <1>9 DEF Step, RejectSpent, GoBootstrap

LEMMA NextWindows ==
    ASSUME TypeOK, WindowForm, [Next]_vars
    PROVE  WindowForm'
<1> USE DEF history, Goto
<1>1. ASSUME NEW h \in Handlers, NEW m \in Macs,
             NEW c \in Tokens \cup OtherCreds, ProcessAuth(h, m, c)
      PROVE  WindowForm'
  <2>1. /\ UNCHANGED <<now, sessions, rec, reply, grants, faulted>>
        /\ \A k \in Handlers \ {h} : pc'[k] = pc[k] /\ req'[k] = req[k]
        /\ pc'[h] = (IF AuthMode = "delegated" THEN "extract" ELSE "get")
        /\ contended \subseteq contended' /\ contended' \subseteq contended \cup {m}
        /\ (\E k \in Handlers \ {h} : Busy(k) /\ Mac(k) = m) => m \in contended'
        /\ Mac(h)' = m
    BY <1>1 DEF ProcessAuth, TypeOK, Mac
  <2>2. \A k \in Handlers \ {h} : /\ Busy(k)' = Busy(k) /\ Mac(k)' = Mac(k)
                                  /\ Cred(k)' = Cred(k) /\ PastLookup(k)' = PastLookup(k)
    BY <2>1 DEF Busy, Mac, Cred, PastLookup
  <2>3. \A n : (Quiet(n)' => Quiet(n)) /\ NoneOpen(n)' = NoneOpen(n)
    BY <2>1 DEF Quiet, NoneOpen, Open
  <2>4. CallKnows(h)'
    BY <2>1, ParameterAssumption DEF CallKnows, PastLookup
  <2>5. ASSUME NEW k \in Handlers \ {h}, Busy(k), Quiet(Mac(k))' PROVE CallKnows(k)'
    <3>1. CallKnows(k)
      BY <2>2, <2>3, <2>5 DEF WindowForm
    <3>2. QED
      BY <2>1, <2>2, <2>3, <3>1 DEF CallKnows, Open, Payable
  <2>6. PaidWindowKept'
    BY <2>1 DEF WindowForm, PaidWindowKept, Open
  <2>7. \A j, k \in Handlers :
            /\ Busy(j)' /\ Busy(k)' /\ Mac(j)' = Mac(k)' /\ Mac(j)' \in Macs \ contended'
            => j = k
    BY <2>1, <2>2 DEF WindowForm
  <2>8. QED
    BY <2>2, <2>4, <2>5, <2>6, <2>7 DEF WindowForm
<1>2. ASSUME NEW h \in Handlers, NEW c \in Tokens \cup OtherCreds,
             RejectBadMac(h, c)
      PROVE  WindowForm'
  <2>1. /\ UNCHANGED <<now, sessions, grants, contended, faulted>>
        /\ \A k \in Handlers \ {h} : /\ pc'[k] = pc[k] /\ req'[k] = req[k]
                                     /\ rec'[k] = rec[k] /\ reply'[k] = reply[k]
        /\ Mac(h)' \notin Macs
    BY <1>2, IdentifierAssumption DEF RejectBadMac, Answer, TypeOK, Mac
  <2>2. \A k \in Handlers \ {h} : /\ Busy(k)' = Busy(k) /\ Mac(k)' = Mac(k)
                                  /\ Cred(k)' = Cred(k) /\ PastLookup(k)' = PastLookup(k)
    BY <2>1 DEF Busy, Mac, Cred, PastLookup
  <2>3. \A n : Quiet(n)' = Quiet(n) /\ NoneOpen(n)' = NoneOpen(n)
    BY <2>1 DEF Quiet, NoneOpen, Open
  <2>4. ASSUME NEW k \in Handlers, Busy(k)', Quiet(Mac(k))' PROVE CallKnows(k)'
    <3>1. k # h
      BY <2>1, <2>4 DEF Quiet
    <3>2. CallKnows(k)
      BY <2>2, <2>3, <2>4, <3>1 DEF WindowForm
    <3>3. QED
      BY <2>1, <2>2, <2>3, <3>1, <3>2 DEF CallKnows, Open, Payable
  <2>5. PaidWindowKept'
    BY <2>1 DEF WindowForm, PaidWindowKept, Open
  <2>6. \A j, k \in Handlers :
            /\ Busy(j)' /\ Busy(k)' /\ Mac(j)' = Mac(k)' /\ Mac(j)' \in Macs \ contended'
            => j = k
    BY <2>1, <2>2 DEF WindowForm
  <2>7. QED
    BY <2>4, <2>5, <2>6 DEF WindowForm
<1>3. ASSUME NEW h \in Handlers, Step(h) PROVE WindowForm'
  BY <1>3, StepWindows
<1>4. CASE \/ \E t \in SharedTokens : OutsideSwap(t)
           \/ \E t \in Tokens : MintSettles(t)
           \/ Cleanup \/ Tick \/ UNCHANGED vars
  <2>1. /\ UNCHANGED <<pc, req, rec, reply, grants, contended, faulted>>
        /\ now \in Nat /\ now' \in Nat /\ now <= now'
    BY <1>4 DEF OutsideSwap, MintSettles, Cleanup, Tick, vars, TypeOK
  <2>2. ASSUME NEW g \in grants, Open(g)' PROVE Open(g)
    BY <2>1, <2>2, DeadlineType DEF Open, TypeOK
  <2>3. \A n : Quiet(n)' = Quiet(n) /\ (NoneOpen(n) => NoneOpen(n)')
    BY <2>1, <2>2 DEF Quiet, NoneOpen
  <2>4. \A k \in Handlers : /\ Busy(k)' = Busy(k) /\ Mac(k)' = Mac(k)
                            /\ Cred(k)' = Cred(k) /\ PastLookup(k)' = PastLookup(k)
    BY <2>1 DEF Busy, Mac, Cred, PastLookup
  <2>5. ASSUME NEW k \in Handlers, CallKnows(k) PROVE CallKnows(k)'
    BY <2>1, <2>2, <2>3, <2>4, <2>5 DEF CallKnows, Payable
  <2>6. ASSUME NEW g \in grants, Open(g)', sessions[g.mac] = g PROVE sessions'[g.mac] = g
    <3>1. g \in SessionRecord /\ g.mac \in Macs /\ Deadline(g) \in Nat
      BY DeadlineType DEF TypeOK, SessionRecord
    <3>2. CASE Cleanup
      BY <2>1, <2>6, <3>1, <3>2, IdentifierAssumption, ParameterAssumption DEF Cleanup, Open
    <3>3. QED
      BY <1>4, <2>6, <3>2 DEF OutsideSwap, MintSettles, Tick, vars
  <2>7. PaidWindowKept'
    BY <2>1, <2>2, <2>6 DEF WindowForm, PaidWindowKept
  <2>8. QED
    BY <2>1, <2>3, <2>4, <2>5, <2>7 DEF WindowForm
<1>5. CASE Crash
  <2>1. \A k \in Handlers : ~Busy(k)'
    BY <1>5 DEF Crash, Busy
  <2>2. /\ UNCHANGED <<now, grants, contended>> /\ faulted \subseteq faulted'
        /\ \A m \in Macs : sessions'[m] = sessions[m] \/ m \in faulted'
    BY <1>5 DEF Crash
  <2>3. PaidWindowKept'
    BY <2>2 DEF WindowForm, PaidWindowKept, Open, TypeOK, SessionRecord
  <2>4. QED
    BY <2>1, <2>3 DEF WindowForm
<1>6. QED
  BY <1>1, <1>2, <1>3, <1>4, <1>5 DEF Next

LEMMA WindowsInductive == Spec => []WindowInv
<1>1. TypeOK /\ WindowForm /\ [Next]_vars => WindowForm'
  BY NextWindows
<1>2. QED
  BY InitWindowInv, WindowInvForm, TypeCorrect, <1>1, PTL DEF Spec

\* No expiry check, no Remove and no Cleanup takes the file of an open window
\* away, while the identifier has one call at a time and its writes succeed.
THEOREM WindowKept == Spec => []PaidWindowKept
<1>1. WindowInv => PaidWindowKept
  BY DEF WindowInv
<1>2. QED
  BY <1>1, WindowsInductive, PTL

\* The owner of such a window is not turned away.
THEOREM OwnerAdmitted == Spec => []PaidCustomerAdmitted
<1>1. WindowInv => PaidCustomerAdmitted
  BY DEF WindowInv
<1>2. QED
  BY <1>1, WindowsInductive, PTL

=============================================================================
