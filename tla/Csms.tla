-------------------------------- MODULE Csms --------------------------------
(***************************************************************************)
(* The charging station management system, cmd/tollgate-csms/main.go, with *)
(* the stations that drive it over OCPP and the OCPI receiver (Emsp) that  *)
(* it asks and reports to over HTTP.  All state is in memory.  The eMSP is *)
(* asked without the mutex; starts and stops hold it, and the pushes that  *)
(* they make.  A push that fails is logged; so is an authorize request,    *)
(* and the station may charge.                                             *)
(*                                                                         *)
(* Session pushes come as POST, which HandleSessions refuses: they change  *)
(* nothing and do not appear.                                              *)
(***************************************************************************)
EXTENDS Emsp, FiniteSets

CONSTANTS
    Stations,      \* charge points
    MaxStarts,     \* bound on transactions
    NoToken        \* a station that has read no tag

\* A transaction: its number, its IdTag, and how many came before it (history).
Txn == [id : CdrIds, tag : Tokens, serial : Nat]
Pcs == {"idle", "asking", "authorized", "charging"}

ASSUME CsmsAssumption ==
    /\ MaxStarts \in Nat /\ CdrIds = 1..MaxStarts
    /\ Charges = [id : 1..MaxStarts, tag : Tokens, serial : 1..MaxStarts]
    /\ NoToken \notin Tokens

VARIABLES
    pc,         \* what each station does
    tag,        \* the IdTag that it has read
    copy,       \* the record that its authorize request has read
    txnOf,      \* the number of the transaction that it runs
    active,     \* CSMSHandler.activeTxns
    nextTxnID,  \* CSMSHandler.nextTxnID, less 1000
    begun,      \* history: all transactions
    before,     \* history: how many of them began before the CSMS was last started
    acked       \* history: CDRs that the eMSP has answered, as they were sent

stations == <<pc, tag, copy, txnOf>>
csmsVars == <<pc, tag, copy, txnOf, active, nextTxnID, begun, before, acked>>
vars == <<emspVars, csmsVars>>

Goto(c, label) == pc' = [pc EXCEPT ![c] = label]

\* OnAuthorize: the request reaches HandleAuthorize, which reads the record
\* and refuses, or goes on.
OnAuthorize(c, t) ==
    /\ serving
    /\ pc[c] = "idle"
    /\ Allows(prepay[t])
    /\ Goto(c, "asking")
    /\ tag' = [tag EXCEPT ![c] = t]
    /\ copy' = [copy EXCEPT ![c] = prepay[t]]
    /\ UNCHANGED <<txnOf, active, nextTxnID, begun, before, acked>> /\ UNCHANGED emspVars

\* HandleAuthorize marks the record and answers ALLOWED.
Authorized(c) ==
    /\ pc[c] = "asking"
    /\ MarkPrepayAuthorized(tag[c], copy[c])
    /\ Goto(c, "authorized")
    /\ copy' = [copy EXCEPT ![c] = NoRecord]
    /\ UNCHANGED <<tag, txnOf, active, nextTxnID, begun, before, acked>>

\* verifyWithEMSP gets no answer or none that it can read: fail open.
FailOpen(c, t) ==
    /\ \/ pc[c] = "idle"
       \/ pc[c] = "asking" /\ tag[c] = t
    /\ Goto(c, "authorized")
    /\ tag' = [tag EXCEPT ![c] = t]
    /\ copy' = [copy EXCEPT ![c] = NoRecord]
    /\ UNCHANGED <<txnOf, active, nextTxnID, begun, before, acked>> /\ UNCHANGED emspVars

\* Mutant of NewTxnID: the number of active transactions plus 1001.
CountedTxnID == 1 + Cardinality(active)

NewTxnID == nextTxnID

\* OnStartTransaction asks nobody whether the tag was authorized.
OnStartTransaction(c) ==
    LET txn == [id |-> NewTxnID, tag |-> tag[c], serial |-> Cardinality(begun) + 1] IN
    /\ pc[c] = "authorized"
    /\ Cardinality(begun) < MaxStarts
    /\ nextTxnID' = nextTxnID + 1
    /\ active' = {x \in active : x.id # txn.id} \cup {txn}
    /\ begun' = begun \cup {txn}
    /\ txnOf' = [txnOf EXCEPT ![c] = txn.id]
    /\ Goto(c, "charging")
    /\ UNCHANGED <<tag, copy, before, acked>> /\ UNCHANGED emspVars

\* Mutant of Dropped: requests outlive the eMSP.
NotDropped == pc

\* Authorize requests that are with the eMSP when it stops fail open.
Dropped == [c \in Stations |-> IF pc[c] = "asking" THEN "authorized" ELSE pc[c]]

\* The station is free again; p: what all of them do otherwise.
Done(c, p) ==
    /\ pc' = [p EXCEPT ![c] = "idle"]
    /\ tag' = [tag EXCEPT ![c] = NoToken]
    /\ txnOf' = [txnOf EXCEPT ![c] = 0]
    /\ copy' = [i \in Stations |-> IF p[i] = "asking" THEN copy[i] ELSE NoRecord]
    /\ UNCHANGED <<nextTxnID, begun, before>>

\* The CDR is pushed and arrives, arrives at an eMSP that stops while it stores
\* it, or is lost; an error is logged.
pushCDRToEMSP(c, txn, kwh) ==
    LET cdr == [charge |-> txn, kwh |-> kwh, cost |-> Cost(kwh)] IN
    \/ PutCDR(txn.id, cdr, txn.tag) /\ acked' = acked \cup {cdr} /\ Done(c, pc)
    \/ PutCDRDies(txn.id, cdr, txn.tag) /\ acked' = acked /\ Done(c, Dropped)
    \/ UNCHANGED emspVars /\ acked' = acked /\ Done(c, pc)

\* OnStopTransaction: the transaction is over whatever becomes of its CDR.  Its
\* energy, the difference of two meter values, is not negative.
OnStopTransaction(c) ==
    /\ pc[c] = "charging"
    /\ \E txn \in active, kwh \in 0..MaxKwh :
           /\ txn.id = txnOf[c]
           /\ active' = active \ {txn}
           /\ pushCDRToEMSP(c, txn, kwh)

\* The stop of a transaction that the CSMS does not know is ignored.
OnStopUnknown(c) ==
    /\ pc[c] = "charging"
    /\ \A txn \in active : txn.id # txnOf[c]
    /\ Done(c, pc)
    /\ UNCHANGED <<active, acked>> /\ UNCHANGED emspVars

\* The eMSP stops.
EmspStop ==
    /\ Stop
    /\ pc' = Dropped
    /\ copy' = [c \in Stations |-> NoRecord]
    /\ UNCHANGED <<tag, txnOf, active, nextTxnID, begun, before, acked>>

\* newCSMSHandler, after any end of the process (an answer of the eMSP that
\* is no JSON and shorter than 200 bytes is one: verifyWithEMSP panics on it).
\* The stations still run their transactions.
CsmsRestart ==
    /\ active' = {} /\ nextTxnID' = 1
    /\ before' = Cardinality(begun)
    /\ UNCHANGED stations /\ UNCHANGED <<begun, acked>> /\ UNCHANGED emspVars

Init ==
    /\ EmspInit
    /\ pc = [c \in Stations |-> "idle"]
    /\ tag = [c \in Stations |-> NoToken]
    /\ copy = [c \in Stations |-> NoRecord]
    /\ txnOf = [c \in Stations |-> 0]
    /\ active = {} /\ nextTxnID = 1 /\ begun = {} /\ before = 0 /\ acked = {}

Next ==
    \/ EmspNext /\ UNCHANGED csmsVars
    \/ EmspStop
    \/ \E c \in Stations : \/ \E t \in Tokens : OnAuthorize(c, t) \/ FailOpen(c, t)
                           \/ Authorized(c) \/ OnStartTransaction(c)
                           \/ OnStopTransaction(c) \/ OnStopUnknown(c)
    \/ CsmsRestart

Spec == Init /\ [][Next]_vars

-----------------------------------------------------------------------------
(* Properties.                                                             *)

TypeOK ==
    /\ EmspTypeOK
    /\ pc \in [Stations -> Pcs]
    /\ tag \in [Stations -> Tokens \cup {NoToken}]
    /\ copy \in [Stations -> Record \cup {NoRecord}]
    /\ \A c \in Stations : pc[c] = "asking" <=> copy[c] # NoRecord
    /\ txnOf \in [Stations -> 0..MaxStarts]
    /\ begun \subseteq Txn /\ active \subseteq begun
    /\ acked \subseteq CDR /\ \A x \in acked : x.charge \in begun
    /\ nextTxnID \in Nat /\ before \in 0..MaxStarts

\* What main.go says above the counter: the number of a transaction is never
\* given to another one.
IdsNeverReused == \A x, y \in begun : x.id = y.id => x = y

\* As long as the CSMS runs a number denotes one transaction, however starts
\* and stops alternate, and what it pushes under that number is that one's.
IdsDistinct ==
    /\ \A x, y \in begun : x.id = y.id /\ x.serial > before /\ y.serial > before => x = y
    /\ \A x \in active : x.serial > before

\* A prepay whose charge has been billed is used up, whatever authorize
\* requests were under way and through restarts of the eMSP; the exceptions
\* are a record issued again and a record that was not written.
BilledIsUsed ==
    serving => \A x \in acked :
        LET t == x.charge.tag IN t \in upset \/ prepay[t] = NoRecord \/ prepay[t].used

\* A CDR that an eMSP with a directory has answered keeps its charge and its cost
\* through restarts, unless its file was not written (in memory-only mode none
\* is) or its number was given to another transaction.  Of its energy nothing is
\* said: HandleCDRs does not read it.
BilledIsKept ==
    serving /\ durable => \A x \in acked :
        \/ x.charge.id \in unsaved
        \/ \E y \in begun : y.id = x.charge.id /\ y # x.charge
        \/ /\ cdrs[x.charge.id] # NoCdr
           /\ cdrs[x.charge.id].charge = x.charge
           /\ cdrs[x.charge.id].cost = x.cost

=============================================================================
