----------------------------- MODULE CsmsProofs -----------------------------
(***************************************************************************)
(* Proofs of the safety properties of Csms with its eMSP (Emsp) and the    *)
(* token sale (TokenSale), for any stations, tokens, requests and bounds.  *)
(*                                                                         *)
(* The inductive invariant is a conjunction of parts that speak of         *)
(* different variables: sale, credentials, records, transactions, CDRs.    *)
(* An effect lemma says what any step does to the variables of a part; the *)
(* part is then preserved whatever the rest of the system does.            *)
(***************************************************************************)
EXTENDS Csms, FiniteSetTheorems, TLAPS

-----------------------------------------------------------------------------
(* The sale of tokens.                                                     *)

\* A purchase has a token of its own, and a delivered token is with no
\* purchase any more, so that no later Bind touches its binding.
TokensApart ==
    /\ \A b \in Buyers : buys[b].token # NoEurToken => buys[b].token \in minted
    /\ \A b, c \in Buyers :
           b # c /\ buys[b].token = buys[c].token => buys[b].token = NoEurToken
    /\ \A d \in delivered :
           /\ d.token \in minted
           /\ \A b \in Buyers : buys[b].token # d.token

SaleInv ==
    /\ SaleTypeOK /\ TokensApart
    /\ ~serving => delivered = {} /\ \A b \in Buyers : buys[b] = NoBuy
    /\ \A b \in Buyers : buys[b].pc = "answer" /\ buys[b].npub # NoNpub =>
           tokenMap[buys[b].token] = buys[b].npub
    /\ DeliveredIsBound

\* What a step of the whole system is to the sale.
LEMMA SaleEffect ==
    ASSUME [Next]_vars
    PROVE  \/ SaleNext
           \/ serving /\ serving' = FALSE /\ SaleLost
           \/ ~serving /\ serving' = TRUE /\ NewProviderStore
           \/ UNCHANGED <<serving, saleVars>>
<1>1. CASE EmspNext
  BY <1>1 DEF EmspNext, IssuePrepay, AuthorizeCashu, postCredentials, deleteCredentials,
              rotateRead, rotateWrite, Restart, Tick
<1>2. CASE EmspStop
  BY <1>2 DEF EmspStop, Stop, Lost
<1>3. ASSUME NEW c \in Stations,
             \/ \E t \in Tokens : OnAuthorize(c, t) \/ FailOpen(c, t)
             \/ Authorized(c) \/ OnStartTransaction(c) \/ OnStopUnknown(c)
      PROVE  UNCHANGED <<serving, saleVars>>
  BY <1>3 DEF OnAuthorize, FailOpen, Authorized, MarkPrepayAuthorized,
              OnStartTransaction, OnStopUnknown, emspVars
<1>4. ASSUME NEW c \in Stations, OnStopTransaction(c)
      PROVE  \/ serving /\ serving' = FALSE /\ SaleLost
             \/ UNCHANGED <<serving, saleVars>>
  <2>1. PICK txn, kwh : pushCDRToEMSP(c, txn, kwh)
    BY <1>4 DEF OnStopTransaction
  <2>2. PICK id, cdr, t : PutCDR(id, cdr, t) \/ PutCDRDies(id, cdr, t) \/ UNCHANGED emspVars
    BY <2>1, Zenon DEF pushCDRToEMSP
  <2>3. CASE PutCDR(id, cdr, t)
    BY <2>3 DEF PutCDR
  <2>4. CASE PutCDRDies(id, cdr, t)
    BY <2>4 DEF PutCDRDies, Lost
  <2>5. QED
    BY <2>2, <2>3, <2>4 DEF emspVars
<1>5. CASE CsmsRestart \/ UNCHANGED vars
  BY <1>5 DEF CsmsRestart, vars, emspVars
<1>6. QED
  BY <1>1, <1>2, <1>3, <1>4, <1>5 DEF Next

LEMMA HandleBuySale ==
    ASSUME SaleInv, NEW b \in Buyers, NEW named \in Npubs \cup {NoNpub},
           NEW signer \in Npubs \cup {NoNpub}, HandleBuy(b, named, signer)
    PROVE  SaleInv'
<1> DEFINE new == [NoBuy EXCEPT !.pc = "minting", !.npub = ProviderOf(named, signer)]
<1>1. new \in Buy /\ new.pc = "minting" /\ new.token = NoEurToken
  BY DEF NoBuy, Buy, ProviderOf
<1> HIDE DEF new
<1>2. /\ buys' = [buys EXCEPT ![b] = new] /\ serving
      /\ UNCHANGED <<serving, providers, tokenMap, minted, delivered>>
  BY DEF HandleBuy, new
<1> USE DEF SaleInv
<1>3. SaleTypeOK'
  BY <1>1, <1>2 DEF SaleTypeOK
<1>4. TokensApart'
  BY <1>1, <1>2, SaleAssumption DEF TokensApart, SaleTypeOK
<1>5. QED
  BY <1>1, <1>2, <1>3, <1>4 DEF DeliveredIsBound, SaleTypeOK

LEMMA mintEurTokenSale ==
    ASSUME SaleInv, NEW b \in Buyers, mintEurToken(b)
    PROVE  SaleInv'
<1> USE DEF SaleInv
<1>1. /\ serving /\ buys[b].pc = "minting"
      /\ UNCHANGED <<serving, providers, tokenMap, delivered>>
  BY DEF mintEurToken
<1>2. ASSUME NEW t \in EurTokens \ minted, minted' = minted \cup {t},
             buys' = [buys EXCEPT ![b].pc = "minted", ![b].token = t]
      PROVE  SaleInv'
  <2>1. /\ buys' \in [Buyers -> Buy]
        /\ buys'[b].pc = "minted" /\ buys'[b].token = t
        /\ \A c \in Buyers : c # b => buys'[c] = buys[c]
    <3>1. buys \in [Buyers -> Buy]
      BY DEF SaleTypeOK
    <3>2. buys[b] \in Buy /\ [[buys[b] EXCEPT !.pc = "minted"] EXCEPT !.token = t] \in Buy
      BY <3>1, <1>2 DEF Buy
    <3>3. QED
      BY <1>2, <3>1, <3>2 DEF Buy
  <2>2. SaleTypeOK'
    BY <1>1, <1>2, <2>1, SaleAssumption DEF SaleTypeOK
  <2>3. TokensApart'
    BY <1>1, <1>2, <2>1 DEF TokensApart
  <2>4. QED
    BY <1>1, <2>1, <2>2, <2>3 DEF DeliveredIsBound
<1>3. CASE UNCHANGED minted /\ buys' = [buys EXCEPT ![b] = NoBuy]
  <2>1. /\ NoBuy \in Buy /\ NoBuy.pc = "idle" /\ NoBuy.token = NoEurToken
    BY DEF NoBuy, Buy
  <2>2. SaleTypeOK'
    BY <1>1, <1>3, <2>1 DEF SaleTypeOK
  <2>3. TokensApart'
    BY <1>1, <1>3, <2>1, SaleAssumption DEF TokensApart, SaleTypeOK
  <2>4. QED
    BY <1>1, <1>3, <2>1, <2>2, <2>3 DEF DeliveredIsBound, SaleTypeOK
<1>4. QED
  BY <1>2, <1>3 DEF mintEurToken

LEMMA BindSale ==
    ASSUME SaleInv, NEW b \in Buyers, Bind(b)
    PROVE  SaleInv'
<1> USE DEF SaleInv
<1> DEFINE t == buys[b].token
           n == buys[b].npub
<1>1. /\ serving /\ buys[b].pc = "minted" /\ t # NoEurToken /\ t \in minted
      /\ UNCHANGED <<serving, providers, minted, delivered>>
  BY DEF Bind, SaleTypeOK, TokensApart
<1>2. t \in EurTokens /\ n \in Npubs \cup {NoNpub}
  BY <1>1 DEF SaleTypeOK, Buy
<1>3. /\ buys' \in [Buyers -> Buy]
      /\ buys'[b].pc = "answer" /\ buys'[b].token = t /\ buys'[b].npub = n
      /\ \A c \in Buyers : c # b => buys'[c] = buys[c]
  BY DEF Bind, SaleTypeOK, Buy
<1>4. /\ tokenMap' \in TokenProvider
      /\ \A u \in EurTokens : u # t => tokenMap'[u] = tokenMap[u]
      /\ n # NoNpub => tokenMap'[t] = n
  BY <1>1, <1>2 DEF Bind, PutTokenProvider, SaleTypeOK, TokenProvider
<1> HIDE DEF t, n
<1>5. SaleTypeOK'
  BY <1>1, <1>3, <1>4 DEF SaleTypeOK
<1>6. TokensApart'
  BY <1>1, <1>3 DEF TokensApart, t
<1>7. ASSUME NEW c \in Buyers, buys'[c].pc = "answer", buys'[c].npub # NoNpub
      PROVE  tokenMap'[buys'[c].token] = buys'[c].npub
  <2>1. CASE c = b
    BY <1>3, <1>4, <1>7, <2>1
  <2>2. CASE c # b
    <3>1. buys[c].token # t /\ buys[c].token \in EurTokens
      BY <1>1, <1>3, <1>7, <2>2 DEF TokensApart, SaleTypeOK, Buy, t
    <3>2. QED
      BY <1>3, <1>4, <1>7, <2>2, <3>1
  <2>3. QED
    BY <2>1, <2>2
<1>8. ASSUME NEW d \in delivered, d.npub # NoNpub
      PROVE  tokenMap'[d.token] = d.npub
  <2>1. d.token # t /\ d.token \in EurTokens
    BY <1>1, <1>8 DEF TokensApart, SaleTypeOK, t
  <2>2. QED
    BY <1>4, <1>8, <2>1 DEF DeliveredIsBound
<1>9. QED
  BY <1>1, <1>5, <1>6, <1>7, <1>8 DEF DeliveredIsBound

LEMMA AnswerBuySale ==
    ASSUME SaleInv, NEW b \in Buyers, AnswerBuy(b)
    PROVE  SaleInv'
<1> USE DEF SaleInv
<1> DEFINE got == [token |-> buys[b].token, npub |-> buys[b].npub]
<1>1. /\ serving /\ buys[b].pc = "answer" /\ delivered' \in {delivered, delivered \cup {got}}
      /\ buys' = [buys EXCEPT ![b] = NoBuy]
      /\ UNCHANGED <<serving, providers, tokenMap, minted>>
  BY DEF AnswerBuy
<1>2. /\ NoBuy \in Buy /\ NoBuy.pc = "idle" /\ NoBuy.token = NoEurToken
  BY DEF NoBuy, Buy
<1>3. /\ got.token \in minted /\ got.token # NoEurToken
      /\ \A c \in Buyers : c # b => buys[c].token # got.token
      /\ got.npub # NoNpub => tokenMap[got.token] = got.npub
  BY <1>1 DEF TokensApart, SaleTypeOK
<1> HIDE DEF got
<1>4. SaleTypeOK'
  BY <1>1, <1>2 DEF SaleTypeOK
<1>5. TokensApart'
  BY <1>1, <1>2, <1>3, SaleAssumption DEF TokensApart, SaleTypeOK
<1>6. QED
  BY <1>1, <1>2, <1>3, <1>4, <1>5 DEF DeliveredIsBound, SaleTypeOK

\* The sale keeps its invariant through every step of the system.
LEMMA SaleStep == SaleInv /\ [Next]_vars => SaleInv'
<1> SUFFICES ASSUME SaleInv, [Next]_vars PROVE SaleInv'
  OBVIOUS
<1>1. ASSUME NEW n \in Npubs, HandleProviderRegister(n)
      PROVE  SaleInv'
  BY <1>1 DEF SaleInv, HandleProviderRegister, SaleTypeOK, TokensApart, DeliveredIsBound
<1>2. CASE SaleNext
  BY <1>1, <1>2, HandleBuySale, mintEurTokenSale, BindSale, AnswerBuySale DEF SaleNext
<1>3. CASE serving /\ serving' = FALSE /\ SaleLost
  <2>1. /\ NoBuy \in Buy /\ NoBuy.pc = "idle" /\ NoBuy.token = NoEurToken
    BY DEF NoBuy, Buy
  <2>2. serving' \in BOOLEAN
    BY <1>3, Zenon
  <2>3. SaleTypeOK'
    BY <1>3, <2>1, <2>2 DEF SaleInv, SaleLost, SaleTypeOK, TokenProvider
  <2>4. TokensApart'
    BY <1>3, <2>1, SaleAssumption DEF SaleInv, SaleLost, TokensApart, SaleTypeOK
  <2>5. QED
    BY <1>3, <2>1, <2>3, <2>4 DEF SaleInv, SaleLost, DeliveredIsBound
<1>4. CASE ~serving /\ serving' = TRUE /\ NewProviderStore
  <2>1. serving' \in BOOLEAN
    BY <1>4, Zenon
  <2>2. SaleTypeOK' /\ TokensApart'
    BY <1>4, <2>1 DEF SaleInv, NewProviderStore, SaleTypeOK, TokensApart, TokenProvider
  <2>3. QED
    BY <1>4, <2>2 DEF SaleInv, NewProviderStore, DeliveredIsBound, NoBuy
<1>5. CASE UNCHANGED <<serving, saleVars>>
  BY <1>5 DEF SaleInv, saleVars, SaleTypeOK, TokensApart, DeliveredIsBound
<1>6. QED
  BY <1>2, <1>3, <1>4, <1>5, SaleEffect

-----------------------------------------------------------------------------
(* Credentials.                                                            *)

PeerInv ==
    /\ peer \in 0..MaxPeers /\ shaken \in 0..MaxPeers
    /\ rotation \in [Rotations -> 0..MaxPeers \cup {Unread}]

\* The peer and the rotations are gone with the process.
PeerLost ==
    /\ peer' = 0 /\ shaken' = shaken
    /\ rotation' = [r \in Rotations |-> Unread]

\* What a step of the whole system is to the credentials.
LEMMA PeerEffect ==
    ASSUME [Next]_vars
    PROVE  \/ postCredentials \/ deleteCredentials
           \/ \E r \in Rotations : rotateRead(r) \/ rotateWrite(r)
           \/ PeerLost
           \/ UNCHANGED credentials
<1>1. CASE EmspNext
  BY <1>1 DEF EmspNext, IssuePrepay, AuthorizeCashu, Restart, Tick
<1>2. CASE EmspStop
  BY <1>2 DEF EmspStop, Stop, Lost, PeerLost
<1>3. ASSUME NEW c \in Stations,
             \/ \E t \in Tokens : OnAuthorize(c, t) \/ FailOpen(c, t)
             \/ Authorized(c) \/ OnStartTransaction(c) \/ OnStopUnknown(c)
      PROVE  UNCHANGED credentials
  BY <1>3 DEF OnAuthorize, FailOpen, Authorized, MarkPrepayAuthorized,
              OnStartTransaction, OnStopUnknown, emspVars, credentials
<1>4. ASSUME NEW c \in Stations, OnStopTransaction(c)
      PROVE  PeerLost \/ UNCHANGED credentials
  <2>1. PICK txn, kwh : pushCDRToEMSP(c, txn, kwh)
    BY <1>4 DEF OnStopTransaction
  <2>2. PICK id, cdr, t : PutCDR(id, cdr, t) \/ PutCDRDies(id, cdr, t) \/ UNCHANGED emspVars
    BY <2>1, Zenon DEF pushCDRToEMSP
  <2>3. CASE PutCDR(id, cdr, t)
    BY <2>3 DEF PutCDR
  <2>4. CASE PutCDRDies(id, cdr, t)
    BY <2>4 DEF PutCDRDies, Lost, PeerLost
  <2>5. QED
    BY <2>2, <2>3, <2>4 DEF emspVars, credentials
<1>5. CASE CsmsRestart \/ UNCHANGED vars
  BY <1>5 DEF CsmsRestart, vars, emspVars, credentials
<1>6. QED
  BY <1>1, <1>2, <1>3, <1>4, <1>5 DEF Next

LEMMA PeerStep == PeerInv /\ [Next]_vars => PeerInv'
<1> SUFFICES ASSUME PeerInv, [Next]_vars PROVE PeerInv'
  OBVIOUS
<1> USE EmspAssumption DEF PeerInv
<1>1. CASE postCredentials \/ deleteCredentials
  BY <1>1 DEF postCredentials, deleteCredentials
<1>2. ASSUME NEW r \in Rotations, rotateRead(r) \/ rotateWrite(r) PROVE PeerInv'
  BY <1>2 DEF rotateRead, rotateWrite
<1>3. CASE PeerLost
  BY <1>3 DEF PeerLost
<1>4. CASE UNCHANGED credentials
  BY <1>4 DEF credentials
<1>5. QED
  BY <1>1, <1>2, <1>3, <1>4, PeerEffect

-----------------------------------------------------------------------------
(* Transactions.                                                           *)

\* A station that is not idle has read a tag.
StationsOK ==
    /\ pc \in [Stations -> Pcs]
    /\ tag \in [Stations -> Tokens \cup {NoToken}]
    /\ \A c \in Stations : pc[c] # "idle" => tag[c] \in Tokens
    /\ txnOf \in [Stations -> 0..MaxStarts]

\* Serial numbers count the transactions; since the last start of the CSMS the
\* number of a transaction is its serial number from there.
TxnInv ==
    /\ IsFiniteSet(begun) /\ Cardinality(begun) \in 0..MaxStarts
    /\ before \in 0..Cardinality(begun)
    /\ nextTxnID = Cardinality(begun) - before + 1
    /\ begun \subseteq Txn /\ active \subseteq begun
    /\ \A x \in acked : x.charge \in begun \ active
    /\ \A x \in begun : /\ x.serial \in 1..Cardinality(begun)
                        /\ x.serial > before => x.id = x.serial - before
    /\ \A x, y \in begun : x.serial = y.serial => x = y
    /\ \A x \in active : x.serial > before

\* What a step of the whole system is to the transactions.
LEMMA TxnEffect ==
    ASSUME [Next]_vars
    PROVE  \/ \E c \in Stations : OnStartTransaction(c)
           \/ CsmsRestart
           \/ /\ UNCHANGED <<begun, before, nextTxnID>>
              /\ active' \subseteq active
              /\ \A x \in acked' : x \in acked \/ x.charge \in active \ active'
<1>1. CASE EmspNext /\ UNCHANGED csmsVars
  BY <1>1 DEF csmsVars
<1>2. CASE EmspStop
  BY <1>2 DEF EmspStop
<1>3. ASSUME NEW c \in Stations,
             \/ \E t \in Tokens : OnAuthorize(c, t) \/ FailOpen(c, t)
             \/ Authorized(c) \/ OnStopUnknown(c)
      PROVE  UNCHANGED <<begun, before, nextTxnID, active, acked>>
  BY <1>3 DEF OnAuthorize, FailOpen, Authorized, OnStopUnknown, Done
<1>4. ASSUME NEW c \in Stations, OnStopTransaction(c)
      PROVE  /\ UNCHANGED <<begun, before, nextTxnID>>
             /\ active' \subseteq active
             /\ \A x \in acked' : x \in acked \/ x.charge \in active \ active'
  BY <1>4 DEF OnStopTransaction, pushCDRToEMSP, Done
<1>5. CASE UNCHANGED vars
  BY <1>5 DEF vars, csmsVars
<1>6. QED
  BY <1>1, <1>2, <1>3, <1>4, <1>5 DEF Next

LEMMA StationsStep == StationsOK /\ TxnInv /\ [Next]_vars => StationsOK'
<1> SUFFICES ASSUME StationsOK, TxnInv, [Next]_vars PROVE StationsOK'
  OBVIOUS
<1> USE DEF StationsOK, Pcs
<1>1. CASE EmspNext /\ UNCHANGED csmsVars
  BY <1>1 DEF csmsVars
<1>2. CASE EmspStop
  BY <1>2 DEF EmspStop, Dropped
<1>3. ASSUME NEW c \in Stations, NEW t \in Tokens, OnAuthorize(c, t) \/ FailOpen(c, t)
      PROVE  StationsOK'
  BY <1>3 DEF OnAuthorize, FailOpen, Goto
<1>4. ASSUME NEW c \in Stations, Authorized(c)
      PROVE  StationsOK'
  BY <1>4 DEF Authorized, Goto
<1>5. ASSUME NEW c \in Stations, OnStartTransaction(c)
      PROVE  StationsOK'
  <2>1. nextTxnID \in 0..MaxStarts
    BY <1>5, CsmsAssumption DEF OnStartTransaction, TxnInv
  <2>2. QED
    BY <1>5, <2>1 DEF OnStartTransaction, Goto, NewTxnID
<1>6. ASSUME NEW c \in Stations, OnStopTransaction(c) \/ OnStopUnknown(c)
      PROVE  StationsOK'
  <2>1. Done(c, pc) \/ Done(c, Dropped)
    BY <1>6 DEF OnStopTransaction, OnStopUnknown, pushCDRToEMSP
  <2>2. ASSUME NEW p \in [Stations -> Pcs], Done(c, p),
               \A i \in Stations : p[i] # "idle" => pc[i] # "idle"
        PROVE  StationsOK'
    BY <2>2, CsmsAssumption DEF Done
  <2>3. /\ Dropped \in [Stations -> Pcs]
        /\ \A i \in Stations : Dropped[i] # "idle" => pc[i] # "idle"
    BY DEF Dropped
  <2>4. QED
    BY <2>1, <2>2, <2>3
<1>7. CASE CsmsRestart \/ UNCHANGED vars
  BY <1>7 DEF CsmsRestart, stations, vars, csmsVars
<1>8. QED
  BY <1>1, <1>2, <1>3, <1>4, <1>5, <1>6, <1>7 DEF Next

LEMMA TxnStep == StationsOK /\ TxnInv /\ [Next]_vars => TxnInv'
<1> SUFFICES ASSUME StationsOK, TxnInv, [Next]_vars PROVE TxnInv'
  OBVIOUS
<1> USE CsmsAssumption
<1>1. ASSUME NEW c \in Stations, OnStartTransaction(c) PROVE TxnInv'
  <2> DEFINE n == Cardinality(begun)
             txn == [id |-> nextTxnID, tag |-> tag[c], serial |-> n + 1]
  <2>1. /\ n < MaxStarts /\ nextTxnID' = nextTxnID + 1
        /\ active' \subseteq active \cup {txn}
        /\ begun' = begun \cup {txn}
        /\ UNCHANGED <<before, acked>>
    BY <1>1 DEF OnStartTransaction, NewTxnID
  <2>2. n \in Nat /\ before \in 0..n /\ nextTxnID = n - before + 1
    BY DEF TxnInv
  <2>3. txn \in Txn /\ txn.serial = n + 1 /\ txn.id = txn.serial - before
    <3>1. tag[c] \in Tokens
      BY <1>1 DEF OnStartTransaction, StationsOK
    <3>2. nextTxnID \in CdrIds
      BY <2>1, <2>2
    <3>3. QED
      BY <2>2, <3>1, <3>2 DEF Txn
  <2>4. \A x \in begun : x.serial \in 1..n /\ x.serial # n + 1
    BY <2>2 DEF TxnInv
  <2>5. txn \notin begun
    BY <2>3, <2>4
  <2>6. IsFiniteSet(begun') /\ Cardinality(begun') = n + 1
    <3> HIDE DEF txn
    <3>1. QED
      BY <2>1, <2>5, FS_AddElement DEF TxnInv
  <2> HIDE DEF txn, n
  <2>7. /\ Cardinality(begun') \in 0..MaxStarts
        /\ before' \in 0..Cardinality(begun')
        /\ nextTxnID' = Cardinality(begun') - before' + 1
    BY <2>1, <2>2, <2>6
  <2>8. /\ begun' \subseteq Txn /\ active' \subseteq begun'
        /\ \A x \in acked' : x.charge \in begun' \ active'
    BY <2>1, <2>3, <2>5 DEF TxnInv
  <2>9. \A x \in begun' : /\ x.serial \in 1..Cardinality(begun')
                          /\ x.serial > before' => x.id = x.serial - before'
    <3>1. \A x \in begun : x.serial > before => x.id = x.serial - before
      BY DEF TxnInv
    <3>2. QED
      BY <2>1, <2>2, <2>3, <2>4, <2>6, <3>1
  <2>10. \A x, y \in begun' : x.serial = y.serial => x = y
    BY <2>1, <2>3, <2>4 DEF TxnInv
  <2>11. \A x \in active' : x.serial > before'
    BY <2>1, <2>2, <2>3 DEF TxnInv
  <2>12. QED
    BY <2>6, <2>7, <2>8, <2>9, <2>10, <2>11 DEF TxnInv
<1>2. CASE CsmsRestart
  BY <1>2 DEF CsmsRestart, TxnInv
<1>3. CASE /\ UNCHANGED <<begun, before, nextTxnID>>
           /\ active' \subseteq active
           /\ \A x \in acked' : x \in acked \/ x.charge \in active \ active'
  BY <1>3 DEF TxnInv
<1>4. QED
  BY <1>1, <1>2, <1>3, TxnEffect

-----------------------------------------------------------------------------
(* Payments and prepay records.                                            *)

PaymentsOK == now \in Nat /\ window \in [Tokens -> Nat] /\ spent \subseteq Tokens

\* What a step of the whole system is to the payments.
LEMMA PaymentsStep == PaymentsOK /\ [Next]_vars => PaymentsOK'
<1> SUFFICES ASSUME PaymentsOK, [Next]_vars PROVE PaymentsOK'
  OBVIOUS
<1> USE DEF PaymentsOK, payments
<1>1. ASSUME NEW t \in Tokens, Pay(t), UNCHANGED now PROVE PaymentsOK'
  BY <1>1, EmspAssumption DEF Pay
<1>2. CASE EmspNext
  BY <1>1, <1>2 DEF EmspNext, IssuePrepay, AuthorizeCashu, postCredentials,
                    deleteCredentials, rotateRead, rotateWrite, Restart, Tick
<1>3. CASE EmspStop
  BY <1>3 DEF EmspStop, Stop, Lost
<1>4. ASSUME NEW c \in Stations,
             \/ \E t \in Tokens : OnAuthorize(c, t) \/ FailOpen(c, t)
             \/ Authorized(c) \/ OnStartTransaction(c) \/ OnStopUnknown(c)
      PROVE  UNCHANGED <<now, window, spent>>
  BY <1>4 DEF OnAuthorize, FailOpen, Authorized, MarkPrepayAuthorized,
              OnStartTransaction, OnStopUnknown, emspVars
<1>5. ASSUME NEW c \in Stations, OnStopTransaction(c)
      PROVE  UNCHANGED <<now, window, spent>>
  BY <1>5 DEF OnStopTransaction, pushCDRToEMSP, PutCDR, PutCDRDies, Lost, emspVars
<1>6. CASE CsmsRestart \/ UNCHANGED vars
  BY <1>6 DEF CsmsRestart, vars, emspVars
<1>7. QED
  BY <1>2, <1>3, <1>4, <1>5, <1>6 DEF Next

\* Whether there is a directory is found out at each start.
LEMMA DurableStep == durable \in BOOLEAN /\ [Next]_vars => durable' \in BOOLEAN
<1> SUFFICES ASSUME durable \in BOOLEAN, [Next]_vars PROVE durable' \in BOOLEAN
  OBVIOUS
<1>1. durable' = durable \/ durable' = TRUE \/ durable' = FALSE
  <2>1. CASE EmspNext
    BY <2>1 DEF EmspNext, IssuePrepay, AuthorizeCashu, postCredentials, deleteCredentials,
                rotateRead, rotateWrite, Restart, Tick, store
  <2>2. CASE EmspStop
    BY <2>2 DEF EmspStop, Stop, Lost
  <2>3. ASSUME NEW c \in Stations,
               \/ \E t \in Tokens : OnAuthorize(c, t) \/ FailOpen(c, t)
               \/ Authorized(c) \/ OnStartTransaction(c) \/ OnStopUnknown(c)
        PROVE  durable' = durable
    BY <2>3 DEF OnAuthorize, FailOpen, Authorized, MarkPrepayAuthorized,
                OnStartTransaction, OnStopUnknown, emspVars
  <2>4. ASSUME NEW c \in Stations, OnStopTransaction(c)
        PROVE  durable' = durable
    BY <2>4 DEF OnStopTransaction, pushCDRToEMSP, PutCDR, PutCDRDies, Lost, emspVars
  <2>5. CASE CsmsRestart \/ UNCHANGED vars
    BY <2>5 DEF CsmsRestart, vars, emspVars
  <2>6. QED
    BY <2>1, <2>2, <2>3, <2>4, <2>5 DEF Next
<1>2. QED
  BY <1>1, Zenon

Records == [Tokens -> Record \cup {NoRecord}]

\* What an authorize request under way has read is still a record: records go
\* only when the eMSP stops, and its requests with them.
AskingOK ==
    /\ copy \in [Stations -> Record \cup {NoRecord}]
    /\ \A c \in Stations : pc[c] = "asking" <=> copy[c] # NoRecord
    /\ \A c \in Stations : pc[c] = "asking" => serving /\ prepay[tag[c]] # NoRecord

\* The record of a token that has been billed is used up on disk, too; what is in
\* memory is on disk, and more may be there that a store in memory has not read.
RecordInv ==
    /\ prepay \in Records /\ prepayFiles \in Records
    /\ billed \subseteq Tokens /\ upset \subseteq Tokens
    /\ AskingOK
    /\ serving => \A t \in Tokens \ upset :
           prepay[t] = prepayFiles[t] \/ (~durable /\ prepay[t] = NoRecord)
    /\ \A t \in billed \ upset : prepayFiles[t] # NoRecord => prepayFiles[t].used
    /\ \A x \in acked : x.charge.tag \in billed

\* A record is written: in memory, and on disk unless its token is upset.
LEMMA PutEffect ==
    ASSUME prepay \in Records, prepayFiles \in Records, upset \subseteq Tokens,
           NEW t \in Tokens, NEW r \in Record \cup {NoRecord}, NEW again, Put(t, r, again)
    PROVE  /\ prepay' \in Records /\ prepayFiles' \in Records
           /\ upset \subseteq upset' /\ upset' \subseteq Tokens
           /\ prepay'[t] = r
           /\ t \notin upset' => prepayFiles'[t] = r /\ ~again
           /\ \A u \in Tokens : u # t => prepay'[u] = prepay[u] /\ prepayFiles'[u] = prepayFiles[u]
BY DEF Put, Written, Records

LEMMA IssuePrepayRecord ==
    ASSUME RecordInv, StationsOK, NEW t \in Tokens, IssuePrepay(t), UNCHANGED csmsVars
    PROVE  RecordInv'
<1>1. /\ serving /\ Put(t, Fresh, t \in billed) /\ UNCHANGED <<serving, durable, billed>>
      /\ UNCHANGED <<pc, tag, copy, acked>>
  BY DEF IssuePrepay, csmsVars
<1>2. Fresh \in Record /\ Fresh # NoRecord
  <2>1. FALSE \in BOOLEAN /\ 0 \in Nat
    BY Zenon
  <2>2. Fresh \in Record
    BY <2>1 DEF Fresh, Record
  <2>3. QED
    BY <2>2, EmspAssumption
<1>3. /\ prepay' \in Records /\ prepayFiles' \in Records
      /\ upset \subseteq upset' /\ upset' \subseteq Tokens
      /\ prepay'[t] = Fresh
      /\ t \notin upset' => prepayFiles'[t] = Fresh /\ t \notin billed
      /\ \A u \in Tokens : u # t => prepay'[u] = prepay[u] /\ prepayFiles'[u] = prepayFiles[u]
  BY <1>1, <1>2, PutEffect DEF RecordInv
<1>4. AskingOK'
  BY <1>1, <1>2, <1>3 DEF RecordInv, AskingOK, StationsOK
<1>5. QED
  BY <1>1, <1>3, <1>4 DEF RecordInv

LEMMA AuthorizedRecord ==
    ASSUME RecordInv, StationsOK, PaymentsOK, NEW c \in Stations, Authorized(c)
    PROVE  RecordInv'
<1> DEFINE t == tag[c]
           r == [prepay[t] EXCEPT !.at = now]
<1>1. /\ serving /\ pc[c] = "asking" /\ Put(t, r, FALSE)
      /\ pc' = [pc EXCEPT ![c] = "authorized"] /\ copy' = [copy EXCEPT ![c] = NoRecord]
      /\ UNCHANGED <<serving, durable, billed, tag, acked>>
  BY DEF Authorized, MarkPrepayAuthorized, Goto
<1>2. t \in Tokens /\ prepay[t] \in Record
  BY <1>1 DEF StationsOK, RecordInv, AskingOK, Records
<1>3. r \in Record /\ r.used = prepay[t].used
  BY <1>2 DEF Record, PaymentsOK
<1> HIDE DEF r, t
<1>4. /\ prepay' \in Records /\ prepayFiles' \in Records
      /\ upset \subseteq upset' /\ upset' \subseteq Tokens
      /\ prepay'[t] = r
      /\ t \notin upset' => prepayFiles'[t] = r
      /\ \A u \in Tokens : u # t => prepay'[u] = prepay[u] /\ prepayFiles'[u] = prepayFiles[u]
  BY <1>1, <1>2, <1>3, PutEffect DEF RecordInv
<1>5. r # NoRecord
  BY <1>3, EmspAssumption
<1>6. AskingOK'
  BY <1>1, <1>4, <1>5 DEF RecordInv, AskingOK, StationsOK
<1>7. t \in billed \ upset' => r.used
  BY <1>1, <1>2, <1>3, <1>4, EmspAssumption DEF RecordInv
<1>8. QED
  BY <1>1, <1>4, <1>6, <1>7 DEF RecordInv

\* Done leaves the authorize requests of the other stations alone.
LEMMA DoneAsking ==
    ASSUME StationsOK, AskingOK, NEW c \in Stations, NEW p \in [Stations -> Pcs], Done(c, p),
           pc[c] = "charging", \A i \in Stations : p[i] = "asking" => pc[i] = "asking"
    PROVE  /\ copy' \in [Stations -> Record \cup {NoRecord}]
           /\ \A i \in Stations : pc'[i] = "asking" <=> copy'[i] # NoRecord
           /\ \A i \in Stations : pc'[i] = "asking" =>
                  p[i] = "asking" /\ pc[i] = "asking" /\ tag'[i] = tag[i]
BY DEF StationsOK, AskingOK, Done, Pcs

\* What MarkUsed makes of a record.
LEMMA Marked ==
    ASSUME NEW r \in Record \cup {NoRecord}
    PROVE  /\ MarkUsed(r) \in Record \cup {NoRecord}
           /\ MarkUsed(r) # NoRecord => MarkUsed(r).used
           /\ r # NoRecord => MarkUsed(r) # NoRecord
<1>1. NoRecord \notin Record
  BY EmspAssumption
<1>2. CASE r = NoRecord
  BY <1>2 DEF MarkUsed
<1>3. CASE r # NoRecord
  <2>1. r \in Record /\ MarkUsed(r) = [r EXCEPT !.used = TRUE]
    BY <1>3 DEF MarkUsed
  <2>2. TRUE \in BOOLEAN
    OBVIOUS
  <2>3. MarkUsed(r) \in Record /\ MarkUsed(r).used
    BY <2>1, <2>2 DEF Record
  <2>4. QED
    BY <1>1, <2>3
<1>4. QED
  BY <1>2, <1>3

LEMMA StopTransactionRecord ==
    ASSUME RecordInv, StationsOK, TxnInv, NEW c \in Stations, OnStopTransaction(c)
    PROVE  RecordInv'
<1>1. PICK txn \in active, kwh \in 0..MaxKwh : pushCDRToEMSP(c, txn, kwh)
  BY DEF OnStopTransaction
<1>2. pc[c] = "charging" /\ txn.tag \in Tokens
  BY DEF OnStopTransaction, TxnInv, Txn
<1> DEFINE t == txn.tag
           cdr == [charge |-> txn, kwh |-> kwh, cost |-> Cost(kwh)]
<1>3. CASE PutCDR(txn.id, cdr, t) /\ acked' = acked \cup {cdr} /\ Done(c, pc)
  <2>1. /\ Put(t, MarkUsed(prepay[t]), FALSE) /\ billed' = billed \cup {t}
        /\ serving /\ UNCHANGED <<serving, durable>>
    BY <1>3 DEF PutCDR
  <2>2. /\ MarkUsed(prepay[t]) \in Record \cup {NoRecord}
        /\ MarkUsed(prepay[t]) # NoRecord => MarkUsed(prepay[t]).used
        /\ prepay[t] # NoRecord => MarkUsed(prepay[t]) # NoRecord
    <3>1. prepay[t] \in Record \cup {NoRecord}
      BY <1>2 DEF RecordInv, Records
    <3>2. QED
      BY <3>1, Marked, Zenon
  <2>3. /\ prepay' \in Records /\ prepayFiles' \in Records
        /\ upset \subseteq upset' /\ upset' \subseteq Tokens
        /\ prepay'[t] = MarkUsed(prepay[t])
        /\ t \notin upset' => prepayFiles'[t] = MarkUsed(prepay[t])
        /\ \A u \in Tokens : u # t => prepay'[u] = prepay[u] /\ prepayFiles'[u] = prepayFiles[u]
    <3>1. prepay \in Records /\ prepayFiles \in Records /\ upset \subseteq Tokens
      BY DEF RecordInv
    <3>2. QED
      BY <1>2, <2>1, <2>2, <3>1, PutEffect
  <2>4. AskingOK'
    BY <1>2, <1>3, <2>1, <2>2, <2>3, DoneAsking DEF RecordInv, AskingOK, StationsOK
  <2>5. \A x \in acked' : x.charge.tag \in billed'
    BY <1>3, <2>1 DEF RecordInv
  <2>6. QED
    BY <1>2, <2>1, <2>2, <2>3, <2>4, <2>5 DEF RecordInv
<1>4. CASE PutCDRDies(txn.id, cdr, t) /\ acked' = acked /\ Done(c, Dropped)
  <2>1. /\ serving' = FALSE /\ prepay' = [u \in Tokens |-> NoRecord]
        /\ billed' = billed \cup {t} /\ upset' = upset \cup {t}
        /\ prepayFiles' = prepayFiles
    BY <1>4 DEF PutCDRDies, Lost
  <2>2. Dropped \in [Stations -> Pcs] /\ \A i \in Stations : Dropped[i] # "asking"
    BY DEF StationsOK, Dropped, Pcs
  <2>3. AskingOK'
    BY <1>2, <1>4, <2>1, <2>2, DoneAsking DEF RecordInv, AskingOK, StationsOK
  <2>4. QED
    BY <1>2, <1>4, <2>1, <2>3 DEF RecordInv, Records
<1>5. CASE UNCHANGED emspVars /\ acked' = acked /\ Done(c, pc)
  <2>1. AskingOK'
    BY <1>2, <1>5, DoneAsking DEF RecordInv, AskingOK, StationsOK, emspVars
  <2>2. QED
    BY <1>5, <2>1 DEF RecordInv, emspVars
<1>6. QED
  BY <1>1, <1>3, <1>4, <1>5 DEF pushCDRToEMSP

LEMMA RecordStep ==
    RecordInv /\ StationsOK /\ TxnInv /\ PaymentsOK /\ [Next]_vars => RecordInv'
<1> SUFFICES ASSUME RecordInv, StationsOK, TxnInv, PaymentsOK, [Next]_vars PROVE RecordInv'
  OBVIOUS
<1>1. ASSUME NEW t \in Tokens, IssuePrepay(t), UNCHANGED csmsVars
      PROVE  RecordInv'
  BY <1>1, IssuePrepayRecord
<1>2. CASE Restart /\ UNCHANGED csmsVars
  <2>1. /\ ~serving /\ UNCHANGED <<prepayFiles, billed, upset, pc, tag, copy, acked>>
        /\ \/ prepay' = prepayFiles
           \/ ~durable' /\ prepay' = [t \in Tokens |-> NoRecord]
    BY <1>2 DEF Restart, csmsVars
  <2>2. AskingOK'
    BY <2>1 DEF RecordInv, AskingOK
  <2>3. QED
    BY <2>1, <2>2 DEF RecordInv, Records
<1>3. CASE /\ UNCHANGED store /\ UNCHANGED serving /\ UNCHANGED csmsVars
  BY <1>3 DEF store, csmsVars, RecordInv, AskingOK
<1>4. CASE EmspNext /\ UNCHANGED csmsVars
  <2>1. CASE SaleNext /\ UNCHANGED store
    <3>1. UNCHANGED serving
      BY <2>1 DEF SaleNext, HandleBuy, mintEurToken, Bind, AnswerBuy, HandleProviderRegister
    <3>2. QED
      BY <1>3, <1>4, <2>1, <3>1
  <2>2. CASE postCredentials \/ deleteCredentials \/ Tick
    BY <1>3, <1>4, <2>2 DEF postCredentials, deleteCredentials, Tick
  <2>3. CASE \E r \in Rotations : rotateRead(r) \/ rotateWrite(r)
    BY <1>3, <1>4, <2>3 DEF rotateRead, rotateWrite
  <2>4. CASE \E t \in Tokens : AuthorizeCashu(t)
    BY <1>3, <1>4, <2>4 DEF AuthorizeCashu
  <2>5. QED
    BY <1>1, <1>2, <1>4, <2>1, <2>2, <2>3, <2>4 DEF EmspNext
<1>5. CASE EmspStop
  <2>1. \A c \in Stations : pc'[c] # "asking"
    BY <1>5 DEF EmspStop, Dropped, StationsOK
  <2>2. QED
    BY <1>5, <2>1 DEF EmspStop, Stop, Lost, RecordInv, AskingOK, Records
<1>6. ASSUME NEW c \in Stations, NEW t \in Tokens, OnAuthorize(c, t)
      PROVE  RecordInv'
  <2>1. AskingOK'
    BY <1>6 DEF OnAuthorize, Allows, Goto, emspVars, RecordInv, AskingOK, Records, StationsOK, Pcs
  <2>2. QED
    BY <1>6, <2>1 DEF OnAuthorize, emspVars, RecordInv
<1>7. ASSUME NEW c \in Stations, NEW t \in Tokens, FailOpen(c, t)
      PROVE  RecordInv'
  <2>1. AskingOK'
    BY <1>7 DEF FailOpen, Goto, emspVars, RecordInv, AskingOK, StationsOK, Pcs
  <2>2. QED
    BY <1>7, <2>1 DEF FailOpen, emspVars, RecordInv
<1>8. ASSUME NEW c \in Stations, OnStartTransaction(c)
      PROVE  RecordInv'
  <2>1. AskingOK'
    BY <1>8 DEF OnStartTransaction, Goto, emspVars, RecordInv, AskingOK, StationsOK, Pcs
  <2>2. QED
    BY <1>8, <2>1 DEF OnStartTransaction, emspVars, RecordInv
<1>9. ASSUME NEW c \in Stations, OnStopUnknown(c)
      PROVE  RecordInv'
  <2>1. AskingOK'
    BY <1>9, DoneAsking DEF OnStopUnknown, emspVars, RecordInv, AskingOK, StationsOK
  <2>2. QED
    BY <1>9, <2>1 DEF OnStopUnknown, emspVars, RecordInv
<1>10. CASE CsmsRestart \/ UNCHANGED vars
  BY <1>10 DEF CsmsRestart, stations, vars, emspVars, csmsVars, RecordInv, AskingOK
<1>11. QED
  BY <1>4, <1>5, <1>6, <1>7, <1>8, <1>9, <1>10, AuthorizedRecord, StopTransactionRecord
  DEF Next

-----------------------------------------------------------------------------
(* CDRs.                                                                   *)

\* The number of x was given to another transaction.
Reused(x) == \E y \in begun : y.id = x.charge.id /\ y # x.charge

\* What was stored of an answered CDR is on disk, and in memory as long as an
\* eMSP runs that reads it from there.
Kept(x) ==
    /\ cdrFiles[x.charge.id] = Decoded(x)
    /\ serving /\ durable => cdrs[x.charge.id] = Decoded(x)

Shelf == [CdrIds -> CDR \cup {NoCdr}]

CdrInv ==
    /\ cdrs \in Shelf /\ cdrFiles \in Shelf
    /\ unsaved \subseteq CdrIds
    /\ acked \subseteq CDR
    /\ \A x \in acked : x.charge.id \in unsaved \/ Kept(x) \/ Reused(x)

\* The CDR of a transaction, and what is left of it when it is decoded.
LEMMA TxnCdr ==
    ASSUME TxnInv, NEW txn \in begun, NEW kwh \in 0..MaxKwh,
           NEW cdr, cdr = [charge |-> txn, kwh |-> kwh, cost |-> Cost(kwh)]
    PROVE  /\ cdr \in CDR /\ Decoded(cdr) \in CDR
           /\ txn.id \in CdrIds /\ cdr.charge = txn
<1>1. txn \in Txn /\ txn.serial \in 1..MaxStarts
  BY CsmsAssumption DEF TxnInv
<1>2. txn \in Charges /\ txn.id \in CdrIds
  BY <1>1, CsmsAssumption DEF Txn
<1>3. kwh \in Nat /\ 0 \in 0..MaxKwh /\ Cost(kwh) \in Nat
  BY EmspAssumption DEF Cost
<1>4. QED
  BY <1>2, <1>3 DEF CDR, Decoded

\* Decoding leaves the charge and the cost alone.
LEMMA DecodedKeeps ==
    ASSUME NEW x \in CDR
    PROVE  /\ Decoded(x) \in CDR /\ Decoded(x) # NoCdr
           /\ Decoded(x).charge = x.charge /\ Decoded(x).cost = x.cost
<1>1. 0 \in 0..MaxKwh
  BY EmspAssumption
<1>2. /\ Decoded(x) \in CDR
      /\ Decoded(x).charge = x.charge /\ Decoded(x).cost = x.cost
  BY <1>1 DEF CDR, Decoded
<1>3. QED
  BY <1>2, EmspAssumption

\* What a step of the whole system is to the CDRs.
LEMMA CdrEffect ==
    ASSUME TxnInv, [Next]_vars
    PROVE  \/ \E txn \in active, cdr \in CDR :
                  /\ begun' = begun /\ cdr.charge = txn
                  /\ \/ PutCDR(txn.id, cdr, txn.tag) /\ acked' = acked \cup {cdr}
                     \/ PutCDRDies(txn.id, cdr, txn.tag) /\ acked' = acked
           \/ /\ UNCHANGED <<cdrFiles, unsaved, acked>> /\ begun \subseteq begun'
              /\ \/ cdrs' = [id \in CdrIds |-> NoCdr] /\ ~(serving' /\ durable')
                 \/ cdrs' = cdrFiles
                 \/ UNCHANGED <<cdrs, serving, durable>>
<1>1. CASE EmspNext /\ UNCHANGED csmsVars
  <2>1. CASE SaleNext /\ UNCHANGED store
    <3>1. UNCHANGED serving
      BY <2>1 DEF SaleNext, HandleBuy, mintEurToken, Bind, AnswerBuy, HandleProviderRegister
    <3>2. QED
      BY <1>1, <2>1, <3>1 DEF store, csmsVars
  <2>2. CASE \E t \in Tokens : IssuePrepay(t) \/ AuthorizeCashu(t)
    BY <1>1, <2>2 DEF IssuePrepay, AuthorizeCashu, store, csmsVars
  <2>3. CASE postCredentials \/ deleteCredentials \/ Restart \/ Tick
    BY <1>1, <2>3 DEF postCredentials, deleteCredentials, Restart, Tick, store, csmsVars
  <2>4. CASE \E r \in Rotations : rotateRead(r) \/ rotateWrite(r)
    BY <1>1, <2>4 DEF rotateRead, rotateWrite, store, csmsVars
  <2>5. QED
    BY <1>1, <2>1, <2>2, <2>3, <2>4 DEF EmspNext
<1>2. CASE EmspStop
  BY <1>2 DEF EmspStop, Stop, Lost
<1>3. ASSUME NEW c \in Stations,
             \/ \E t \in Tokens : OnAuthorize(c, t) \/ FailOpen(c, t)
             \/ Authorized(c) \/ OnStartTransaction(c) \/ OnStopUnknown(c)
      PROVE  /\ UNCHANGED <<cdrFiles, unsaved, acked, cdrs, serving, durable>>
             /\ begun \subseteq begun'
  BY <1>3 DEF OnAuthorize, FailOpen, Authorized, MarkPrepayAuthorized,
              OnStartTransaction, OnStopUnknown, Done, emspVars
<1>4. ASSUME NEW c \in Stations, OnStopTransaction(c)
      PROVE  \/ \E txn \in active, cdr \in CDR :
                    /\ begun' = begun /\ cdr.charge = txn
                    /\ \/ PutCDR(txn.id, cdr, txn.tag) /\ acked' = acked \cup {cdr}
                       \/ PutCDRDies(txn.id, cdr, txn.tag) /\ acked' = acked
             \/ UNCHANGED <<cdrFiles, unsaved, acked, cdrs, serving, durable, begun>>
  <2>1. PICK txn \in active, kwh \in 0..MaxKwh : pushCDRToEMSP(c, txn, kwh)
    BY <1>4 DEF OnStopTransaction
  <2>2. PICK cdr : cdr = [charge |-> txn, kwh |-> kwh, cost |-> Cost(kwh)]
    OBVIOUS
  <2>3. begun' = begun
    BY <2>1 DEF pushCDRToEMSP, Done
  <2>4. cdr \in CDR /\ cdr.charge = txn
    BY <2>2, TxnCdr DEF TxnInv
  <2>5. QED
    BY <2>1, <2>2, <2>3, <2>4 DEF pushCDRToEMSP, emspVars
<1>5. CASE CsmsRestart \/ UNCHANGED vars
  BY <1>5 DEF CsmsRestart, vars, emspVars, csmsVars
<1>6. QED
  BY <1>1, <1>2, <1>3, <1>4, <1>5 DEF Next

LEMMA CdrStep == CdrInv /\ TxnInv /\ [Next]_vars => CdrInv'
<1> SUFFICES ASSUME CdrInv, TxnInv, [Next]_vars PROVE CdrInv'
  OBVIOUS
<1>1. \A x \in begun : x.id \in CdrIds
  BY DEF TxnInv, Txn
<1>2. \A x \in acked : x.charge \in begun \ active /\ x.charge.id \in CdrIds
  BY <1>1 DEF TxnInv, CdrInv
<1>3. ASSUME NEW txn \in active, NEW cdr \in CDR, begun' = begun, cdr.charge = txn,
             PutCDR(txn.id, cdr, txn.tag), acked' = acked \cup {cdr}
      PROVE  CdrInv'
  <2>1. txn \in begun /\ txn.id \in CdrIds /\ Decoded(cdr) \in CDR
    BY <1>1, DecodedKeeps DEF TxnInv
  <2>2. PICK d \in CDR : d = Decoded(cdr)
    BY <2>1
  <2>3. /\ cdrs' \in Shelf /\ cdrFiles' \in Shelf
        /\ unsaved' \subseteq CdrIds /\ unsaved \subseteq unsaved'
        /\ cdrs'[txn.id] = d /\ (txn.id \in unsaved' \/ cdrFiles'[txn.id] = d)
        /\ \A id \in CdrIds : id # txn.id => cdrs'[id] = cdrs[id] /\ cdrFiles'[id] = cdrFiles[id]
        /\ serving' = serving /\ durable' = durable
    BY <1>3, <2>1, <2>2 DEF PutCDR, Written, CdrInv, Shelf
  <2>4. ASSUME NEW x \in acked'
        PROVE  x.charge.id \in unsaved' \/ Kept(x)' \/ Reused(x)'
    <3>1. CASE x = cdr
      BY <1>3, <2>2, <2>3, <3>1 DEF Kept
    <3>2. CASE x # cdr /\ x.charge.id = txn.id
      BY <1>2, <1>3, <2>1, <3>2 DEF Reused
    <3>3. CASE x # cdr /\ x.charge.id # txn.id
      <4>1. x \in acked /\ x.charge.id \in CdrIds
        BY <1>2, <1>3, <3>3
      <4>2. QED
        BY <1>3, <2>3, <3>3, <4>1 DEF CdrInv, Kept, Reused
    <3>4. QED
      BY <3>1, <3>2, <3>3
  <2>5. QED
    BY <1>3, <2>3, <2>4 DEF CdrInv
<1>4. ASSUME NEW txn \in active, NEW cdr \in CDR, begun' = begun, cdr.charge = txn,
             PutCDRDies(txn.id, cdr, txn.tag), acked' = acked
      PROVE  CdrInv'
  <2>1. txn \in begun /\ txn.id \in CdrIds /\ Decoded(cdr) \in CDR
    BY <1>1, DecodedKeeps DEF TxnInv
  <2>2. PICK d \in CDR : d = Decoded(cdr)
    BY <2>1
  <2>3. /\ cdrs' \in Shelf /\ cdrFiles' \in Shelf
        /\ unsaved' = unsaved /\ ~serving'
        /\ \A id \in CdrIds : id # txn.id => cdrFiles'[id] = cdrFiles[id]
    BY <1>4, <2>1, <2>2 DEF PutCDRDies, Lost, CdrInv, Shelf
  <2>4. ASSUME NEW x \in acked
        PROVE  x.charge.id \in unsaved' \/ Kept(x)' \/ Reused(x)'
    <3>1. CASE x.charge.id = txn.id
      BY <1>2, <1>4, <2>1, <3>1 DEF Reused
    <3>2. CASE x.charge.id # txn.id
      BY <1>2, <1>4, <2>3, <3>2 DEF CdrInv, Kept, Reused
    <3>3. QED
      BY <3>1, <3>2
  <2>5. QED
    BY <1>4, <2>3, <2>4 DEF CdrInv
<1>5. CASE /\ UNCHANGED <<cdrFiles, unsaved, acked>> /\ begun \subseteq begun'
           /\ \/ cdrs' = [id \in CdrIds |-> NoCdr] /\ ~(serving' /\ durable')
              \/ cdrs' = cdrFiles
              \/ UNCHANGED <<cdrs, serving, durable>>
  <2>1. cdrs' \in Shelf
    BY <1>5 DEF CdrInv, Shelf
  <2>2. ASSUME NEW x \in acked
        PROVE  x.charge.id \in unsaved \/ Kept(x)' \/ Reused(x)'
    <3>1. Kept(x) => Kept(x)'
      BY <1>5, <2>2 DEF Kept
    <3>2. QED
      BY <1>5, <2>2, <3>1 DEF CdrInv, Reused
  <2>3. QED
    BY <1>5, <2>1, <2>2 DEF CdrInv
<1>6. QED
  BY <1>3, <1>4, <1>5, CdrEffect

-----------------------------------------------------------------------------
(* The theorems.                                                           *)

IInv ==
    /\ SaleInv /\ PeerInv /\ PaymentsOK /\ durable \in BOOLEAN
    /\ StationsOK /\ TxnInv /\ RecordInv /\ CdrInv

LEMMA InitIInv == Init => IInv
<1> SUFFICES ASSUME Init PROVE IInv
  OBVIOUS
<1> USE DEF Init, EmspInit
<1>1. SaleInv
  <2>1. NoBuy \in Buy /\ NoBuy.pc = "idle" /\ NoBuy.token = NoEurToken
    BY DEF NoBuy, Buy
  <2>2. serving \in BOOLEAN
    BY Zenon
  <2>3. SaleTypeOK
    BY <2>1, <2>2 DEF SaleInit, SaleTypeOK, TokenProvider
  <2>4. QED
    BY <2>1, <2>3 DEF SaleInit, SaleInv, TokensApart, DeliveredIsBound
<1>2. PeerInv
  BY EmspAssumption DEF PeerInv
<1>3. PaymentsOK /\ StationsOK
  BY CsmsAssumption DEF PaymentsOK, StationsOK, Pcs
<1>4. TxnInv
  BY CsmsAssumption, FS_EmptySet DEF TxnInv
<1>5. RecordInv /\ CdrInv
  BY DEF RecordInv, CdrInv, AskingOK, Records, Shelf
<1>6. QED
  BY <1>1, <1>2, <1>3, <1>4, <1>5 DEF IInv

LEMMA IInvHolds == Spec => []IInv
<1>1. IInv /\ [Next]_vars => IInv'
  BY SaleStep, PeerStep, PaymentsStep, DurableStep, StationsStep, TxnStep, RecordStep, CdrStep DEF IInv
<1>2. QED
  BY <1>1, InitIInv, PTL DEF Spec

\* Every behaviour of the CSMS and its eMSP stays within its types.
THEOREM TypeCorrect == Spec => []TypeOK
<1>1. IInv => TypeOK
  <2> SUFFICES ASSUME IInv PROVE TypeOK
    OBVIOUS
  <2>1. EmspTypeOK
    BY EmspAssumption DEF IInv, EmspTypeOK, SaleInv, PeerInv, PaymentsOK, RecordInv, Records,
                          CdrInv, Shelf
  <2>2. nextTxnID \in Nat /\ before \in 0..MaxStarts
    BY CsmsAssumption DEF IInv, TxnInv
  <2>3. QED
    BY <2>1, <2>2 DEF IInv, TypeOK, StationsOK, RecordInv, AskingOK, TxnInv, CdrInv
<1>2. QED
  BY <1>1, IInvHolds, PTL

\* As long as the CSMS runs, a transaction number denotes one transaction.
THEOREM TransactionIdsDistinct == Spec => []IdsDistinct
<1>1. IInv => IdsDistinct
  <2> SUFFICES ASSUME TxnInv PROVE IdsDistinct
    BY DEF IInv
  <2>1. ASSUME NEW x \in begun, NEW y \in begun, x.id = y.id, x.serial > before, y.serial > before
        PROVE  x = y
    <3>1. x.serial - before = y.serial - before
      BY <2>1 DEF TxnInv
    <3>2. x.serial \in Nat /\ y.serial \in Nat /\ before \in Nat
      BY DEF TxnInv
    <3>3. QED
      BY <3>1, <3>2 DEF TxnInv
  <2>2. QED
    BY <2>1 DEF IdsDistinct, TxnInv
<1>2. QED
  BY <1>1, IInvHolds, PTL

\* A prepay whose charge has been billed is used up, with any number of tokens
\* and through any restarts on either side.
THEOREM BilledRecordsUsed == Spec => []BilledIsUsed
<1>1. IInv => BilledIsUsed
  BY DEF IInv, BilledIsUsed, RecordInv
<1>2. QED
  BY <1>1, IInvHolds, PTL

\* An answered CDR keeps its charge and its cost in a store with a directory,
\* unless its file was not written or the CSMS has given its number to another
\* transaction.
THEOREM BilledCdrsKept == Spec => []BilledIsKept
<1>1. IInv => BilledIsKept
  <2> SUFFICES ASSUME TxnInv, CdrInv, serving, durable, NEW x \in acked,
                      x.charge.id \notin unsaved, ~Reused(x)
               PROVE  /\ cdrs[x.charge.id] # NoCdr
                      /\ cdrs[x.charge.id].charge = x.charge
                      /\ cdrs[x.charge.id].cost = x.cost
    BY DEF IInv, BilledIsKept, Reused
  <2>1. cdrs[x.charge.id] = Decoded(x) /\ x \in CDR
    BY DEF CdrInv, Kept
  <2>2. QED
    BY <2>1, DecodedKeeps
<1>2. QED
  BY <1>1, IInvHolds, PTL

\* A token that the running process has delivered is bound to the provider it was
\* sold for, however many purchases overlap.
THEOREM DeliveredBound == Spec => []DeliveredIsBound
<1>1. IInv => DeliveredIsBound
  BY DEF IInv, SaleInv
<1>2. QED
  BY <1>1, IInvHolds, PTL

=============================================================================
