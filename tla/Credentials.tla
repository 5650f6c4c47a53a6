----------------------------- MODULE Credentials -----------------------------
(***************************************************************************)
(* What is made of the fields of a RADIUS request: the payment that is     *)
(* looked for in user name, password and clear-text password               *)
(* (internal/radiusauth/payment.go) and the operator that the request is   *)
(* booked to (internal/operator/registry.go and resolver.go).  Each is     *)
(* computed in one step and compared with a definition that does not       *)
(* follow the code.  Two kinds of program ask for the operator: a server   *)
(* (tollgate-daemon, tollgate-auth-ocpi) once at its start, for no NAS at  *)
(* all, and books every request to the answer; the program that FreeRADIUS *)
(* runs for each request (tollgate-auth-radius) asks for that request's.   *)
(*                                                                         *)
(* A string is what the code tells apart: the prefix it begins with, the   *)
(* alphabet of the rest, and its length.                                   *)
(***************************************************************************)
EXTENDS Integers, Sequences, SequencesExt

CONSTANTS
    Lengths,        \* lengths of strings
    TokenSplitLen,  \* length of the first part of a token that is split: 200
    MaxInputLen,    \* longest token that is put together from two parts: 8192
    MaxOperators,   \* bound on configured operators
    Npubs,          \* Nostr keys
    ClientIPs, NASIDs,
    Fold            \* what strings.EqualFold compares of a NAS identifier

ASSUME CredentialsAssumption ==
    /\ Lengths \subseteq Nat /\ TokenSplitLen \in Lengths
    /\ MaxInputLen \in Nat /\ MaxOperators \in Nat
    /\ DOMAIN Fold = NASIDs \cup Npubs \cup {""}

VARIABLES
    login,     \* the three fields
    payment,   \* what ExtractPayment returned
    config,    \* the operators of the configuration file, in order
    env,       \* TOLLGATE_OPERATOR_NPUB
    program,   \* which kind of program this is: server or exec
    nas,       \* the client's address and NAS identifier, of the last request
    operators, \* OperatorRegistry.operators, as positions in config
    defaultOp, \* OperatorRegistry.defaultOp, likewise, or Nil
    loaded,    \* entries of config that LoadRegistry has seen
    opCtx,     \* the account that Resolve returned, first Nil
    booked     \* the account that the last request was booked to, first Nil

input == <<login, config, env, program>>
registry == <<operators, defaultOp, loaded>>
vars == <<input, nas, registry, payment, opCtx, booked>>

-----------------------------------------------------------------------------
(* Payments.                                                               *)

\* Alphabets: letters and digits; also - and _; also =; anything else.
Strings == {s \in [pre : {"cashu", "lnurlw", ""}, chars : {"alnum", "url", "pad", "other"}, len : Lengths] :
                s.pre # "" => s.len >= 6}
Logins == [username : Strings, password : Strings, cleartext : Strings]

IsCashuToken(s) == s.pre = "cashu"
IsValidCashuToken(s) == s.pre = "cashu" /\ s.len >= 10 /\ s.chars # "other"
IsLNURLw(s) == s.pre = "lnurlw" /\ s.len >= 10
IsValidLNURLw(s) == IsLNURLw(s) /\ s.chars = "alnum"
IsBase64url(s) == s.len > 0 /\ s.chars \in {"alnum", "url"}

\* What is put together has none of the characters that sanitizeInput rejects,
\* both parts having been looked at; its length is left to judge.
sanitizeInput(head, tail) == head.len + tail.len <= MaxInputLen

\* Mutant of IsSplit: without the guard on the first part's length.
IsSplitAnyLength(head, l) ==
    IsValidCashuToken(head) /\ IsBase64url(l.username)
    /\ ~IsCashuToken(l.username) /\ ~IsLNURLw(l.username) /\ sanitizeInput(head, l.username)

\* A field that is the first part of a token whose rest is the user name.
IsSplit(head, l) ==
    /\ IsValidCashuToken(head) /\ head.len = TokenSplitLen
    /\ IsBase64url(l.username) /\ ~IsCashuToken(l.username) /\ ~IsLNURLw(l.username)
    /\ sanitizeInput(head, l.username)

\* A field of the length of a first part is never taken for a whole token, not
\* even when no rest was found for it.
IsWhole(s) == IsValidCashuToken(s) /\ s.len # TokenSplitLen

\* Where a payment is looked for, in this order, and what it is put together from.
Candidates(l) == <<
    [found |-> IsValidCashuToken(l.username), value |-> <<l.username>>],
    [found |-> IsValidLNURLw(l.username),     value |-> <<l.username>>],
    [found |-> IsValidLNURLw(l.password),     value |-> <<l.password>>],
    [found |-> IsValidLNURLw(l.cleartext),    value |-> <<l.cleartext>>],
    [found |-> IsSplit(l.password, l),        value |-> <<l.password, l.username>>],
    [found |-> IsSplit(l.cleartext, l),       value |-> <<l.cleartext, l.username>>],
    [found |-> IsWhole(l.password),           value |-> <<l.password>>],
    [found |-> IsWhole(l.cleartext),          value |-> <<l.cleartext>>] >>

None == <<>>

ExtractPayment(l) ==
    LET found == {k \in DOMAIN Candidates(l) : Candidates(l)[k].found}
    IN IF found = {} THEN None ELSE Candidates(l)[Min(found)].value

-----------------------------------------------------------------------------
(* Operators.                                                              *)

\* An operator of the file: its key, whether it has another payout destination,
\* and what it is matched by.
Entries == [npub : Npubs \cup {""}, payout : BOOLEAN,
            ip : ClientIPs \cup {""}, nasID : NASIDs \cup {""}, default : BOOLEAN]

\* Accounts that are not in the file.
Self == -1       \* the key that the NAS calls itself by
Env == -2        \* TOLLGATE_OPERATOR_NPUB
Anonymous == -3
Nil == 0         \* no operator

ValidateOperatorAccount(e) == e.npub # "" \/ e.payout

\* Mutant of LoadOperator: an operator that is skipped can be the default.
LoadOperatorLate(i) ==
    /\ operators' = IF ValidateOperatorAccount(config[i]) THEN Append(operators, i) ELSE operators
    /\ defaultOp' = IF config[i].default THEN i ELSE defaultOp

\* LoadRegistry skips operators that cannot be paid; the last default counts.
LoadOperator(i) ==
    IF ValidateOperatorAccount(config[i])
    THEN /\ operators' = Append(operators, i)
         /\ defaultOp' = IF config[i].default THEN i ELSE defaultOp
    ELSE UNCHANGED <<operators, defaultOp>>

LoadRegistry ==
    /\ loaded < Len(config)
    /\ LoadOperator(loaded + 1)
    /\ loaded' = loaded + 1
    /\ UNCHANGED <<input, nas, payment, opCtx, booked>>

NASes == [ip : ClientIPs \cup {""}, id : NASIDs \cup Npubs \cup {""}]
NoNas == [ip |-> "", id |-> ""]

\* The first operator of the registry that is among those that fit.
First(fit) ==
    LET found == {k \in DOMAIN operators : operators[k] \in fit}
    IN IF found = {} THEN Nil ELSE operators[Min(found)]

\* OperatorRegistry.Resolve and Resolver.Resolve, asked for NAS a: what is looked
\* at, in this order.
Answers(a) ==
    LET npub == {i \in DOMAIN config : config[i].npub = a.id}
        ip   == {i \in DOMAIN config : config[i].ip # "" /\ config[i].ip = a.ip}
        id   == {i \in DOMAIN config : config[i].nasID # "" /\ Fold[config[i].nasID] = Fold[a.id]}
    IN << IF a.id \in Npubs THEN First(npub) ELSE Nil,
          IF a.id \in Npubs THEN Self ELSE Nil,
          First(ip), First(id), defaultOp,
          IF env THEN Env ELSE Nil,
          Anonymous >>

\* The first answer.
Resolve(a) == Answers(a)[Min({k \in DOMAIN Answers(a) : Answers(a)[k] # Nil})]

\* A server asks at its start, with two empty strings; exec asks with what
\* FreeRADIUS passes it of its one request.
ResolveOperator ==
    /\ loaded = Len(config) /\ opCtx = Nil
    /\ opCtx' = Resolve(IF program = "server" THEN NoNas ELSE nas)
    /\ UNCHANGED <<input, nas, registry, payment, booked>>

\* A request is read.  A server reads more of them, from any NAS.
Request ==
    /\ opCtx # Nil /\ (booked = Nil \/ program = "server")
    /\ nas' \in IF booked = Nil THEN {nas} ELSE NASes
    /\ payment' = ExtractPayment(login)
    /\ booked' = opCtx
    /\ UNCHANGED <<input, registry, opCtx>>

NoString == [pre |-> "", chars |-> "alnum", len |-> 0]
NoLogin == [username |-> NoString, password |-> NoString, cleartext |-> NoString]

\* The two share nothing: a behaviour varies the fields or the operators.
Init ==
    /\ payment = None /\ operators = <<>> /\ defaultOp = Nil /\ loaded = 0
    /\ opCtx = Nil /\ booked = Nil
    /\ \/ /\ login \in Logins /\ config = <<>> /\ env = FALSE
          /\ program = "exec" /\ nas = NoNas
       \/ /\ login = NoLogin
          /\ config \in BoundedSeq(Entries, MaxOperators)
          /\ env \in BOOLEAN
          /\ program \in {"server", "exec"}
          /\ nas \in NASes

Next == LoadRegistry \/ ResolveOperator \/ Request

Spec == Init /\ [][Next]_vars

-----------------------------------------------------------------------------
(* Properties.                                                             *)

\* Ways to pay: a token or an LNURLw in the user name; either of them whole in a
\* password, or a token split over a password and the user name, with nothing
\* that looks like a payment in the other fields.  A whole token in a password as
\* long as a first part is not among them, nor a rest that is padded or begins
\* like a payment, nor two parts that are longer than MaxInputLen together.
Ordinary(s) == s.pre = ""
Pays(l, value) ==
    LET token(s) == IsValidCashuToken(s) /\ s.len # TokenSplitLen
        rest(s)  == /\ s.len > 0 /\ s.chars \in {"alnum", "url"}
                    /\ TokenSplitLen + s.len <= MaxInputLen
        others(f) == \A g \in DOMAIN l \ {f} : Ordinary(l[g])
    IN \/ /\ value = <<l.username>>
          /\ IsValidCashuToken(l.username) \/ IsValidLNURLw(l.username)
       \/ \E f \in {"password", "cleartext"} :
             /\ others(f)
             /\ \/ value = <<l[f]>> /\ (token(l[f]) \/ IsValidLNURLw(l[f]))
                \/ /\ value = <<l[f], l.username>> /\ rest(l.username)
                   /\ IsValidCashuToken(l[f]) /\ l[f].len = TokenSplitLen

\* A payment that a customer makes in one of the usual ways is found and is the
\* one that was made (payment.go:144-185); and what is found is a payment that
\* was made in one field, or in two of which the first has the length of a first
\* part and which are not longer than MaxInputLen (payment_test.go:229-236).
PaymentComesThrough ==
    booked # Nil =>
        /\ \A value \in {<<login[f]>> : f \in DOMAIN login}
                    \cup {<<login[f], login.username>> : f \in DOMAIN login} :
               Pays(login, value) => payment = value
        /\ payment # None => IsValidCashuToken(payment[1]) \/ IsValidLNURLw(payment[1])
        /\ Len(payment) = 2 => /\ payment[1].len = TokenSplitLen
                               /\ payment[1].len + payment[2].len <= MaxInputLen

\* A request of exec is booked to the operator that fits it best of all in the
\* file that can be paid: the key that the NAS shows, else the client's address,
\* else the NAS identifier in any case, else the default; the first of equals,
\* but the last default.  A server has been told of no NAS, so that all its
\* requests go to the default operator, else that of the environment, wherever
\* they come from (cmd/tollgate-daemon/main.go:97); docs/operator-identity.md:28-31
\* has the resolver look at each request.
BookedToBestMatch ==
    LET told == IF program = "server" THEN NoNas ELSE nas
        payable == {i \in DOMAIN config : config[i].npub # "" \/ config[i].payout}
        sameIP(i) == told.ip # "" /\ config[i].ip = told.ip
        sameID(i) == config[i].nasID # "" /\ Fold[config[i].nasID] = Fold[told.id]
        rank(i) == IF told.id \in Npubs THEN IF config[i].npub = told.id THEN 4 ELSE 0
                   ELSE IF sameIP(i) THEN 3
                   ELSE IF sameID(i) THEN 2
                   ELSE IF config[i].default THEN 1 ELSE 0
    IN booked # Nil =>
        \/ /\ booked \in payable /\ rank(booked) > 0
           /\ \A i \in payable \ {booked} :
                  \/ rank(i) < rank(booked)
                  \/ rank(i) = rank(booked) /\ IF rank(i) = 1 THEN i < booked ELSE i > booked
        \/ /\ \A i \in payable : rank(i) = 0
           /\ booked = IF told.id \in Npubs THEN Self ELSE IF env THEN Env ELSE Anonymous

=============================================================================
