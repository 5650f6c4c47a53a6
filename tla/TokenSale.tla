------------------------------ MODULE TokenSale -----------------------------
(***************************************************************************)
(* The sale of EUR tokens and the provider registry of the OCPI server,    *)
(* internal/ocpi/buy.go and provider.go: a token can be bought for one     *)
(* provider, whose chargers alone accept it then (Charger's BoundTokens).  *)
(* Every access to the registry holds its mutex; cdk-cli runs without it.  *)
(* provider.go can keep the registry in files, but only for a DataDir, and *)
(* tollgate-auth-ocpi gives none: it is in memory, and gone with the       *)
(* process.                                                                *)
(***************************************************************************)
CONSTANTS
    Buyers,      \* requests to /api/buy that can be in flight together
    Npubs,       \* keys of providers
    EurTokens,   \* tokens that the mint can issue
    NoNpub,      \* no provider
    NoEurToken   \* no token

ASSUME SaleAssumption == NoNpub \notin Npubs /\ NoEurToken \notin EurTokens

VARIABLES
    serving,        \* the process runs
    providers,      \* ProviderStore.providers
    tokenMap,       \* ProviderStore.tokenMap: the provider of each token
    buys,           \* the requests
    minted,         \* tokens that the mint has issued
    delivered       \* history: tokens that reached their buyers since the
                    \* process began, and for whom

saleVars == <<providers, tokenMap, buys, minted, delivered>>

TokenProvider == [EurTokens -> Npubs \cup {NoNpub}]
Buy == [pc : {"idle", "minting", "minted", "answer"}, npub : Npubs \cup {NoNpub},
        token : EurTokens \cup {NoEurToken}]
NoBuy == [pc |-> "idle", npub |-> NoNpub, token |-> NoEurToken]

\* Whom the token is for: the key that signed the request (verifyNIP98), which
\* a provider in the body must agree with, else the provider in the body.
ProviderOf(named, signer) == IF signer # NoNpub THEN signer ELSE named

HandleBuy(b, named, signer) ==
    /\ serving /\ buys[b] = NoBuy
    /\ signer # NoNpub /\ named # NoNpub => named = signer
    /\ buys' = [buys EXCEPT ![b] = [NoBuy EXCEPT !.pc = "minting",
                                                 !.npub = ProviderOf(named, signer)]]
    /\ UNCHANGED <<serving, providers, tokenMap, minted, delivered>>

\* Mutant of mintEurToken: one wallet for all purchases, from which a send can
\* take what another purchase has minted.
mintEurTokenShared(b) ==
    /\ serving /\ buys[b].pc = "minting"
    /\ \/ \E t \in EurTokens :
              /\ minted' = minted \cup {t}
              /\ buys' = [buys EXCEPT ![b].pc = "minted", ![b].token = t]
       \/ UNCHANGED minted /\ buys' = [buys EXCEPT ![b] = NoBuy]
    /\ UNCHANGED <<serving, providers, tokenMap, delivered>>

\* cdk-cli mints and sends, in a wallet of its own that is removed afterwards:
\* when the second command fails, what the first one minted is gone.
mintEurToken(b) ==
    /\ serving /\ buys[b].pc = "minting"
    /\ \/ \E t \in EurTokens \ minted :
              /\ minted' = minted \cup {t}
              /\ buys' = [buys EXCEPT ![b].pc = "minted", ![b].token = t]
       \/ UNCHANGED minted /\ buys' = [buys EXCEPT ![b] = NoBuy]
    /\ UNCHANGED <<serving, providers, tokenMap, delivered>>

\* persistTokenProviderLocked returns at once, for want of a DataDir.
PutTokenProvider(t, n) == tokenMap' = [tokenMap EXCEPT ![t] = n]

Bind(b) ==
    /\ serving /\ buys[b].pc = "minted"
    /\ IF buys[b].npub # NoNpub THEN PutTokenProvider(buys[b].token, buys[b].npub)
                                ELSE UNCHANGED tokenMap
    /\ buys' = [buys EXCEPT ![b].pc = "answer"]
    /\ UNCHANGED <<serving, providers, minted, delivered>>

\* The answer arrives; or the buyer has left, or 15 s have passed, which is all
\* that the server gives an answer while cdk-cli has 30 s.
AnswerBuy(b) ==
    /\ serving /\ buys[b].pc = "answer"
    /\ delivered' \in {delivered,
                       delivered \cup {[token |-> buys[b].token, npub |-> buys[b].npub]}}
    /\ buys' = [buys EXCEPT ![b] = NoBuy]
    /\ UNCHANGED <<serving, providers, tokenMap, minted>>

HandleProviderRegister(n) ==
    /\ serving
    /\ providers' = providers \cup {n}
    /\ UNCHANGED <<serving, tokenMap, buys, minted, delivered>>

\* The process ends: purchases and bindings are gone, and with them what it had
\* promised to buyers.
SaleLost ==
    /\ providers' = {} /\ tokenMap' = [t \in EurTokens |-> NoNpub]
    /\ buys' = [b \in Buyers |-> NoBuy]
    /\ delivered' = {}
    /\ UNCHANGED minted

\* NewServerWithLedger without a DataDir: an empty registry.
NewProviderStore ==
    /\ providers' = {} /\ tokenMap' = [t \in EurTokens |-> NoNpub]
    /\ UNCHANGED <<buys, minted, delivered>>

SaleInit ==
    /\ providers = {} /\ tokenMap = [t \in EurTokens |-> NoNpub]
    /\ buys = [b \in Buyers |-> NoBuy]
    /\ minted = {} /\ delivered = {}

SaleNext ==
    \/ \E b \in Buyers :
           \/ \E named, signer \in Npubs \cup {NoNpub} : HandleBuy(b, named, signer)
           \/ mintEurToken(b) \/ Bind(b) \/ AnswerBuy(b)
    \/ \E n \in Npubs : HandleProviderRegister(n)

SaleTypeOK ==
    /\ serving \in BOOLEAN
    /\ providers \subseteq Npubs /\ tokenMap \in TokenProvider
    /\ buys \in [Buyers -> Buy]
    /\ minted \subseteq EurTokens
    /\ \A b \in Buyers : buys[b].pc \in {"minted", "answer"} <=> buys[b].token # NoEurToken

\* A token that the running process has sold for a provider is that provider's
\* for the chargers that ask, however purchases overlap: it was bound before its
\* buyer had it, and no other purchase binds it again.  The end of the process
\* ends this: nothing of the registry is kept.
DeliveredIsBound ==
    \A d \in delivered : d.npub # NoNpub => tokenMap[d.token] = d.npub

=============================================================================
