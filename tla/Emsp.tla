-------------------------------- MODULE Emsp --------------------------------
(***************************************************************************)
(* The OCPI receiver (internal/ocpi): prepay records bought with Cashu     *)
(* tokens (authorize.go), CDRs and the peer (handlers.go, store.go), and   *)
(* their files (store_persist.go), which there are only if the process     *)
(* finds TOLLGATE_BASE_DIR set and can open the directory when it starts.  *)
(* Every access to the store holds its mutex, but authorize and the        *)
(* rotation of credentials read, decide and write in separate critical     *)
(* sections.                                                               *)
(*                                                                         *)
(* Each prepay UID belongs to one Cashu token, whose name it has here.     *)
(* ProcessAuth appears by what it promises (AuthGate).  The same process   *)
(* sells tokens (TokenSale).                                               *)
(***************************************************************************)
EXTENDS Naturals, TokenSale

CONSTANTS
    Tokens,        \* Cashu tokens, and the prepay UIDs made of them
    CdrIds,        \* CDR identifiers
    Charges,       \* the charges that CDRs are about
    MaxKwh,        \* bound on the energy of a charge
    Rotations,     \* PUT credentials requests that can be in flight
    Redeems,       \* TOLLGATE_OCPI_REDEEM: tokens are spent when accepted
    Window,        \* ticks that a Cashu session lasts
    AuthorizeFor,  \* ticks that an authorization can be repeated (2 minutes)
    MaxTime,       \* bound on the clock
    MaxPeers,      \* bound on completed handshakes
    NoRecord,      \* no prepay record
    NoCdr,         \* no CDR
    Unread         \* a rotation that has not read the peer

\* A prepay record: at is AuthorizedAt, 0 if never.
Record == [used : BOOLEAN, at : Nat]
Fresh == [used |-> FALSE, at |-> 0]

\* A CDR: its charge, which stands for its dates and its token, its energy and
\* its cost in halves of a NOK, at 2.50 NOK per kWh.
Cost(kwh) == 5 * kwh
CDR == [charge : Charges, kwh : 0..MaxKwh, cost : Nat]

ASSUME EmspAssumption ==
    /\ Redeems \in BOOLEAN
    /\ Window \in Nat /\ AuthorizeFor \in Nat /\ MaxTime \in Nat /\ MaxPeers \in Nat
    /\ MaxKwh \in Nat
    /\ NoRecord \notin Record /\ NoCdr \notin CDR /\ Unread \notin Nat

VARIABLES
    now,          \* the clock, from 1
    window,       \* end of the Cashu session of each token, 0 if none
    spent,        \* tokens that are SPENT at their mint
    prepay,       \* Store.tokens
    cdrs,         \* Store.cdrs
    durable,      \* Store.dataDir is set
    prepayFiles,  \* prepay/
    cdrFiles,     \* cdrs/
    peer,         \* Store.peer, by the number of its handshake, 0 if none
    rotation,     \* the peer that each PUT credentials request has read
    shaken,       \* handshakes completed
    billed,       \* history: tokens of the CDRs that were stored
    upset,        \* history: tokens whose record was issued again after its
                  \* CDR, or whose record was not written
    unsaved       \* history: CDRs whose file was not written

store == <<durable, prepay, cdrs, prepayFiles, cdrFiles, billed, upset, unsaved>>
payments == <<window, spent>>
credentials == <<peer, rotation, shaken>>
emspVars == <<now, serving, window, spent, durable, prepay, cdrs, prepayFiles, cdrFiles,
              peer, rotation, shaken, billed, upset, unsaved, saleVars>>

-----------------------------------------------------------------------------
(* Prepay and authorize.                                                   *)

\* ProcessAuth accepts t.
Pay(t) ==
    \/ now < window[t] /\ UNCHANGED payments
    \/ /\ ~(now < window[t]) /\ t \notin spent
       /\ window' = [window EXCEPT ![t] = now + Window]
       /\ spent' = IF Redeems THEN spent \cup {t} ELSE spent

\* The contents of a directory after a write, which may fail and is logged then,
\* and is not tried in memory-only mode.
Written(files, key, value) == {files} \cup {f \in {[files EXCEPT ![key] = value]} : durable}

\* PutPrepay and MarkPrepayAuthorized: the record, and its file.
Put(t, r, again) ==
    /\ prepay' = [prepay EXCEPT ![t] = r]
    /\ prepayFiles' \in Written(prepayFiles, t, r)
    /\ upset' = IF again \/ prepayFiles'[t] # r THEN upset \cup {t} ELSE upset

\* IssuePrepay: the new record replaces the one that t has already.  When the
\* process stops in between, the session that was bought stays for a retry.
IssuePrepay(t) ==
    /\ serving
    /\ Pay(t)
    /\ Put(t, Fresh, t \in billed)
    /\ UNCHANGED <<now, serving, durable, cdrs, cdrFiles, billed, unsaved>>
    /\ UNCHANGED credentials
    /\ UNCHANGED saleVars

\* Authorize with a raw Cashu token runs the pipeline and touches no record.
AuthorizeCashu(t) ==
    /\ serving
    /\ Pay(t)
    /\ UNCHANGED <<now, serving>> /\ UNCHANGED store /\ UNCHANGED credentials
    /\ UNCHANGED saleVars

\* What HandleAuthorize decides on the copy that GetPrepay returns.
Allows(r) ==
    /\ r # NoRecord
    /\ ~r.used
    /\ r.at = 0 \/ now - r.at <= AuthorizeFor

\* Mutant of MarkPrepayAuthorized: the copy that was read goes back.
MarkPrepayCopy(t, copy) ==
    /\ serving
    /\ Put(t, [copy EXCEPT !.at = now], FALSE)
    /\ UNCHANGED <<now, serving, durable, cdrs, cdrFiles, billed, unsaved>>
    /\ UNCHANGED payments /\ UNCHANGED credentials
    /\ UNCHANGED saleVars

\* MarkPrepayAuthorized: the current record, whatever became of it since.
MarkPrepayAuthorized(t, copy) ==
    /\ serving
    /\ Put(t, [prepay[t] EXCEPT !.at = now], FALSE)
    /\ UNCHANGED <<now, serving, durable, cdrs, cdrFiles, billed, unsaved>>
    /\ UNCHANGED payments /\ UNCHANGED credentials
    /\ UNCHANGED saleVars

-----------------------------------------------------------------------------
(* CDRs.                                                                   *)

\* The record of the CDR's token is used up, if there is one.
MarkUsed(r) == IF r = NoRecord THEN r ELSE [r EXCEPT !.used = TRUE]

\* What HandleCDRs makes of a pushed CDR: the energy comes under the name kwh,
\* where the type CDR has total_kwh, and is not read.
Decoded(cdr) == [cdr EXCEPT !.kwh = 0]

\* Mutant of PutCDR: the CDR is kept in memory only.
PutCDRInMemory(id, cdr, t) ==
    /\ serving
    /\ cdrs' = [cdrs EXCEPT ![id] = Decoded(cdr)]
    /\ Put(t, MarkUsed(prepay[t]), FALSE)
    /\ billed' = billed \cup {t}
    /\ UNCHANGED <<now, serving, durable, cdrFiles, unsaved>>
    /\ UNCHANGED payments /\ UNCHANGED credentials
    /\ UNCHANGED saleVars

\* PutCDR: the CDR and its file, then the record of its token and its file.
PutCDR(id, cdr, t) ==
    /\ serving
    /\ cdrs' = [cdrs EXCEPT ![id] = Decoded(cdr)]
    /\ cdrFiles' \in Written(cdrFiles, id, Decoded(cdr))
    /\ unsaved' = IF cdrFiles'[id] # Decoded(cdr) THEN unsaved \cup {id} ELSE unsaved
    /\ Put(t, MarkUsed(prepay[t]), FALSE)
    /\ billed' = billed \cup {t}
    /\ UNCHANGED <<now, serving, durable>>
    /\ UNCHANGED payments /\ UNCHANGED credentials
    /\ UNCHANGED saleVars

\* The memory of the process is gone; its requests and rotations with it.
Lost ==
    /\ serving' = FALSE
    /\ prepay' = [t \in Tokens |-> NoRecord]
    /\ cdrs' = [id \in CdrIds |-> NoCdr]
    /\ peer' = 0
    /\ rotation' = [r \in Rotations |-> Unread]
    /\ UNCHANGED <<now, durable, shaken>> /\ UNCHANGED payments
    /\ SaleLost

\* The process stops in the middle of PutCDR, with only the CDR written.
PutCDRDies(id, cdr, t) ==
    /\ serving /\ durable
    /\ cdrFiles' = [cdrFiles EXCEPT ![id] = Decoded(cdr)]
    /\ billed' = billed \cup {t} /\ upset' = upset \cup {t}
    /\ UNCHANGED <<prepayFiles, unsaved>>
    /\ Lost

-----------------------------------------------------------------------------
(* Credentials, restart and time.                                          *)

\* A handshake with the right Token A makes a new peer.
postCredentials ==
    /\ serving /\ shaken < MaxPeers
    /\ shaken' = shaken + 1 /\ peer' = shaken + 1
    /\ UNCHANGED <<now, serving, rotation>> /\ UNCHANGED store /\ UNCHANGED payments
    /\ UNCHANGED saleVars

deleteCredentials ==
    /\ serving
    /\ peer' = 0
    /\ UNCHANGED <<now, serving, rotation, shaken>> /\ UNCHANGED store /\ UNCHANGED payments
    /\ UNCHANGED saleVars

\* putCredentials: GetPeer (nothing to rotate without one), then SetPeer.  What
\* comes in between, a handshake or a DELETE, is undone.
rotateRead(r) ==
    /\ serving /\ rotation[r] = Unread /\ peer # 0
    /\ rotation' = [rotation EXCEPT ![r] = peer]
    /\ UNCHANGED <<now, serving, peer, shaken>>
    /\ UNCHANGED store /\ UNCHANGED payments
    /\ UNCHANGED saleVars

rotateWrite(r) ==
    /\ serving /\ rotation[r] # Unread
    /\ peer' = rotation[r]
    /\ rotation' = [rotation EXCEPT ![r] = Unread]
    /\ UNCHANGED <<now, serving, shaken>>
    /\ UNCHANGED store /\ UNCHANGED payments
    /\ UNCHANGED saleVars

Stop ==
    /\ serving
    /\ Lost
    /\ UNCHANGED <<prepayFiles, cdrFiles, billed, upset, unsaved>>

\* newPersistentStore: what is in the files, or an empty store in memory.  The
\* peer is in no file.
Restart ==
    /\ ~serving /\ serving' = TRUE
    /\ \/ durable' = TRUE /\ prepay' = prepayFiles /\ cdrs' = cdrFiles
       \/ /\ durable' = FALSE
          /\ prepay' = [t \in Tokens |-> NoRecord] /\ cdrs' = [id \in CdrIds |-> NoCdr]
    /\ UNCHANGED <<now, prepayFiles, cdrFiles, billed, upset, unsaved>>
    /\ UNCHANGED payments /\ UNCHANGED credentials
    /\ NewProviderStore

Tick ==
    /\ now < MaxTime
    /\ now' = now + 1
    /\ UNCHANGED serving /\ UNCHANGED store /\ UNCHANGED payments /\ UNCHANGED credentials
    /\ UNCHANGED saleVars

EmspInit ==
    /\ now = 1 /\ serving = TRUE /\ durable \in BOOLEAN
    /\ window = [t \in Tokens |-> 0] /\ spent = {}
    /\ prepay = [t \in Tokens |-> NoRecord] /\ prepayFiles = prepay
    /\ cdrs = [id \in CdrIds |-> NoCdr] /\ cdrFiles = cdrs
    /\ peer = 0 /\ shaken = 0
    /\ rotation = [r \in Rotations |-> Unread]
    /\ billed = {} /\ upset = {} /\ unsaved = {}
    /\ SaleInit

\* All that the eMSP does by itself.
EmspNext ==
    \/ \E t \in Tokens : IssuePrepay(t) \/ AuthorizeCashu(t)
    \/ postCredentials \/ deleteCredentials
    \/ \E r \in Rotations : rotateRead(r) \/ rotateWrite(r)
    \/ Restart \/ Tick
    \/ SaleNext /\ UNCHANGED <<now, window, spent>> /\ UNCHANGED store /\ UNCHANGED credentials

EmspTypeOK ==
    /\ SaleTypeOK
    /\ now \in Nat /\ durable \in BOOLEAN
    /\ window \in [Tokens -> Nat] /\ spent \subseteq Tokens
    /\ prepay \in [Tokens -> Record \cup {NoRecord}]
    /\ prepayFiles \in [Tokens -> Record \cup {NoRecord}]
    /\ cdrs \in [CdrIds -> CDR \cup {NoCdr}] /\ cdrFiles \in [CdrIds -> CDR \cup {NoCdr}]
    /\ peer \in 0..MaxPeers /\ shaken \in 0..MaxPeers
    /\ rotation \in [Rotations -> Nat \cup {Unread}]
    /\ billed \subseteq Tokens /\ upset \subseteq Tokens /\ unsaved \subseteq CdrIds

=============================================================================
