-------------------------- MODULE CredentialsProofs --------------------------
(***************************************************************************)
(* Proofs that a payment comes through and that a request is booked to the *)
(* operator that fits it best, for all strings, lengths and configuration  *)
(* files.                                                                  *)
(***************************************************************************)
EXTENDS Credentials, FiniteSetTheorems, TLAPS

\* The least element of a set of naturals.
LEMMA MinNat ==
    ASSUME NEW T, T \subseteq Nat, T # {}
    PROVE  Min(T) \in T /\ \A n \in T : Min(T) <= n
<1> DEFINE R == OpToRel(<, Nat)
<1>1. IsWellFoundedOn(R, Nat)
  BY NatLessThanWellFounded, Zenon
<1> HIDE DEF R
<1>2. PICK m \in T : \A n \in T : ~(<<n, m>> \in R)
  BY <1>1, WFMin
<1>3. \A n \in T : n < m => <<n, m>> \in R
  BY <1>2 DEF OpToRel, R
<1>4. \A n \in T : ~(n < m)
  BY <1>2, <1>3, Zenon
<1>5. \E x \in T : \A y \in T : x <= y
  BY <1>4
<1>6. QED
  BY <1>5 DEF Min

-----------------------------------------------------------------------------
(* Payments.                                                               *)

\* What ExtractPayment finds is the first candidate there is.
LEMMA FirstCandidate ==
    ASSUME NEW l
    PROVE  \/ /\ \A k \in 1..8 : ~Candidates(l)[k].found
              /\ ExtractPayment(l) = None
           \/ \E k \in 1..8 : /\ Candidates(l)[k].found
                              /\ ExtractPayment(l) = Candidates(l)[k].value
                              /\ \A j \in 1..8 : Candidates(l)[j].found => k <= j
<1> DEFINE found == {k \in DOMAIN Candidates(l) : Candidates(l)[k].found}
<1>1. DOMAIN Candidates(l) = 1..8
  BY DEF Candidates
<1>2. ExtractPayment(l) = IF found = {} THEN None ELSE Candidates(l)[Min(found)].value
  BY DEF ExtractPayment
<1>3. CASE found = {}
  BY <1>1, <1>2, <1>3
<1>4. CASE found # {}
  <2>1. found \subseteq Nat
    BY <1>1
  <2>2. Min(found) \in found /\ \A j \in found : Min(found) <= j
    BY <1>4, <2>1, MinNat
  <2>3. QED
    BY <1>1, <1>2, <1>4, <2>2
<1>5. QED
  BY <1>3, <1>4

\* The candidates, one by one.
LEMMA TheCandidates ==
    ASSUME NEW l
    PROVE  /\ Candidates(l)[1].found <=> IsValidCashuToken(l.username)
           /\ Candidates(l)[2].found <=> IsValidLNURLw(l.username)
           /\ Candidates(l)[3].found <=> IsValidLNURLw(l.password)
           /\ Candidates(l)[4].found <=> IsValidLNURLw(l.cleartext)
           /\ Candidates(l)[5].found <=> IsSplit(l.password, l)
           /\ Candidates(l)[6].found <=> IsSplit(l.cleartext, l)
           /\ Candidates(l)[7].found <=> IsWhole(l.password)
           /\ Candidates(l)[8].found <=> IsWhole(l.cleartext)
           /\ Candidates(l)[1].value = <<l.username>> /\ Candidates(l)[2].value = <<l.username>>
           /\ Candidates(l)[3].value = <<l.password>> /\ Candidates(l)[4].value = <<l.cleartext>>
           /\ Candidates(l)[5].value = <<l.password, l.username>>
           /\ Candidates(l)[6].value = <<l.cleartext, l.username>>
           /\ Candidates(l)[7].value = <<l.password>> /\ Candidates(l)[8].value = <<l.cleartext>>
  BY DEF Candidates

\* A payment that is made in one of the usual ways is the first candidate.
LEMMA UsualIsFound ==
    ASSUME NEW l, DOMAIN l = {"username", "password", "cleartext"}, NEW value, Pays(l, value)
    PROVE  ExtractPayment(l) = value
<1> DEFINE whole(s) == value = <<s>> /\ IsValidCashuToken(s) /\ s.len # TokenSplitLen
           split(s) == /\ value = <<s, l.username>> /\ IsValidCashuToken(s) /\ s.len = TokenSplitLen
                       /\ l.username.len > 0 /\ l.username.chars \in {"alnum", "url"}
                       /\ TokenSplitLen + l.username.len <= MaxInputLen
           lnurl(s) == value = <<s>> /\ IsValidLNURLw(s)
<1>1. \/ value = <<l.username>> /\ (IsValidCashuToken(l.username) \/ IsValidLNURLw(l.username))
      \/ (whole(l.password) \/ lnurl(l.password) \/ split(l.password))
         /\ l.username.pre = "" /\ l.cleartext.pre = ""
      \/ (whole(l.cleartext) \/ lnurl(l.cleartext) \/ split(l.cleartext))
         /\ l.username.pre = "" /\ l.password.pre = ""
  BY DEF Pays, Ordinary
<1> USE DEF IsValidCashuToken, IsValidLNURLw, IsLNURLw, IsCashuToken
<1>2. ASSUME NEW k \in 1..8, Candidates(l)[k].found, \A j \in 1..(k - 1) : ~Candidates(l)[j].found
      PROVE  ExtractPayment(l) = Candidates(l)[k].value
  BY <1>2, FirstCandidate
<1>3. CASE value = <<l.username>> /\ (IsValidCashuToken(l.username) \/ IsValidLNURLw(l.username))
  <2>1. CASE IsValidCashuToken(l.username)
    <3>1. Candidates(l)[1].found /\ Candidates(l)[1].value = value
      BY <1>3, <2>1, TheCandidates
    <3>2. QED
      BY <1>2, <3>1
  <2>2. CASE IsValidLNURLw(l.username)
    <3>1. ~Candidates(l)[1].found /\ Candidates(l)[2].found /\ Candidates(l)[2].value = value
      BY <1>3, <2>2, TheCandidates
    <3>2. QED
      BY <1>2, <3>1
  <2>3. QED
    BY <1>3, <2>1, <2>2
<1>4. CASE whole(l.password) /\ l.username.pre = "" /\ l.cleartext.pre = ""
  <2>1. Candidates(l)[7].found /\ Candidates(l)[7].value = value
    BY <1>4, TheCandidates DEF IsWhole
  <2>2. /\ ~Candidates(l)[1].found /\ ~Candidates(l)[2].found /\ ~Candidates(l)[3].found
        /\ ~Candidates(l)[4].found /\ ~Candidates(l)[5].found /\ ~Candidates(l)[6].found
    BY <1>4, TheCandidates DEF IsSplit
  <2>3. QED
    BY <1>2, <2>1, <2>2
<1>5. CASE whole(l.cleartext) /\ l.username.pre = "" /\ l.password.pre = ""
  <2>1. Candidates(l)[8].found /\ Candidates(l)[8].value = value
    BY <1>5, TheCandidates DEF IsWhole
  <2>2. /\ ~Candidates(l)[1].found /\ ~Candidates(l)[2].found /\ ~Candidates(l)[3].found
        /\ ~Candidates(l)[4].found /\ ~Candidates(l)[5].found /\ ~Candidates(l)[6].found
        /\ ~Candidates(l)[7].found
    BY <1>5, TheCandidates DEF IsSplit, IsWhole
  <2>3. QED
    BY <1>2, <2>1, <2>2
<1>6. CASE split(l.password) /\ l.username.pre = "" /\ l.cleartext.pre = ""
  <2>1. Candidates(l)[5].found /\ Candidates(l)[5].value = value
    BY <1>6, TheCandidates DEF IsSplit, IsBase64url, sanitizeInput
  <2>2. /\ ~Candidates(l)[1].found /\ ~Candidates(l)[2].found /\ ~Candidates(l)[3].found
        /\ ~Candidates(l)[4].found
    BY <1>6, TheCandidates
  <2>3. QED
    BY <1>2, <2>1, <2>2
<1>7. CASE split(l.cleartext) /\ l.username.pre = "" /\ l.password.pre = ""
  <2>1. Candidates(l)[6].found /\ Candidates(l)[6].value = value
    BY <1>7, TheCandidates DEF IsSplit, IsBase64url, sanitizeInput
  <2>2. /\ ~Candidates(l)[1].found /\ ~Candidates(l)[2].found /\ ~Candidates(l)[3].found
        /\ ~Candidates(l)[4].found /\ ~Candidates(l)[5].found
    BY <1>7, TheCandidates DEF IsSplit
  <2>3. QED
    BY <1>2, <2>1, <2>2
<1>8. CASE lnurl(l.password) /\ l.username.pre = "" /\ l.cleartext.pre = ""
  <2>1. /\ Candidates(l)[3].found /\ Candidates(l)[3].value = value
        /\ ~Candidates(l)[1].found /\ ~Candidates(l)[2].found
    BY <1>8, TheCandidates
  <2>2. QED
    BY <1>2, <2>1
<1>9. CASE lnurl(l.cleartext) /\ l.username.pre = "" /\ l.password.pre = ""
  <2>1. /\ Candidates(l)[4].found /\ Candidates(l)[4].value = value
        /\ ~Candidates(l)[1].found /\ ~Candidates(l)[2].found /\ ~Candidates(l)[3].found
    BY <1>9, TheCandidates
  <2>2. QED
    BY <1>2, <2>1
<1>10. QED
  BY <1>1, <1>3, <1>4, <1>5, <1>6, <1>7, <1>8, <1>9

\* What is found is a payment, and of two parts only as they are sent.
LEMMA FoundIsPayment ==
    ASSUME NEW l, NEW p, p = ExtractPayment(l), p # None
    PROVE  /\ IsValidCashuToken(p[1]) \/ IsValidLNURLw(p[1])
           /\ Len(p) = 2 => p[1].len = TokenSplitLen /\ p[1].len + p[2].len <= MaxInputLen
<1>1. PICK k \in 1..8 : Candidates(l)[k].found /\ p = Candidates(l)[k].value
  BY FirstCandidate
<1>2. k \in {1, 2, 3, 4, 5, 6, 7, 8}
  OBVIOUS
<1>3. \/ p \in {<<l.username>>, <<l.password>>, <<l.cleartext>>}
      \/ p = <<l.password, l.username>> /\ IsSplit(l.password, l)
      \/ p = <<l.cleartext, l.username>> /\ IsSplit(l.cleartext, l)
  BY <1>1, <1>2, TheCandidates
<1>4. ASSUME NEW s, NEW t, p = <<s>> \/ p = <<s, t>> PROVE p[1] = s
  BY <1>4
<1>5. IsValidCashuToken(p[1]) \/ IsValidLNURLw(p[1])
  BY <1>1, <1>2, <1>4, TheCandidates DEF IsSplit, IsWhole
<1>6. ASSUME NEW s, p = <<s>> PROVE Len(p) # 2
  BY <1>6
<1>7. ASSUME NEW s, p = <<s, l.username>>, IsSplit(s, l)
      PROVE  p[1].len = TokenSplitLen /\ p[1].len + p[2].len <= MaxInputLen
  BY <1>7 DEF IsSplit, sanitizeInput
<1>8. QED
  BY <1>3, <1>5, <1>6, <1>7

-----------------------------------------------------------------------------
(* Operators.                                                              *)

\* The entries of the file that can be paid.
Payable == {i \in DOMAIN config : config[i].npub # "" \/ config[i].payout}

\* x is the first of M, or Nil if there is none.
FirstOf(x, M) == IF M = {} THEN x = Nil ELSE x \in M /\ \A i \in M : x <= i

\* The registry holds the entries that can be paid of those that were seen, in
\* the order of the file, and the last default among them.
RegistryInv ==
    /\ config \in Seq(Entries) /\ loaded \in 0..Len(config)
    /\ operators \in Seq(Nat)
    /\ \A k \in 1..Len(operators) : operators[k] \in Payable /\ operators[k] <= loaded
    /\ \A i \in Payable : i <= loaded => \E k \in 1..Len(operators) : operators[k] = i
    /\ \A j, k \in 1..Len(operators) : j < k => operators[j] < operators[k]
    /\ \/ defaultOp = Nil /\ \A i \in Payable : i <= loaded => ~config[i].default
       \/ /\ defaultOp \in Payable /\ defaultOp <= loaded /\ config[defaultOp].default
          /\ \A i \in Payable : i <= loaded /\ config[i].default => i <= defaultOp

LEMMA PayablePositions == RegistryInv => Payable \subseteq 1..Len(config) /\ Len(config) \in Nat
<1> SUFFICES ASSUME RegistryInv PROVE Payable \subseteq 1..Len(config) /\ Len(config) \in Nat
  OBVIOUS
<1>1. config \in Seq(Entries)
  BY DEF RegistryInv
<1>2. DOMAIN config = 1..Len(config) /\ Len(config) \in Nat
  BY <1>1
<1>3. QED
  BY <1>2 DEF Payable

\* LoadRegistry reads one entry.
LEMMA LoadStep ==
    ASSUME RegistryInv, LoadRegistry
    PROVE  RegistryInv'
<1>1. PICK i : i = loaded + 1
  OBVIOUS
<1>2. /\ i \in DOMAIN config /\ loaded \in Nat /\ loaded' = i /\ UNCHANGED config /\ i = loaded + 1
      /\ i \in 0..Len(config)
  BY <1>1 DEF LoadRegistry, RegistryInv, input
<1>3. Payable' = Payable /\ Payable \subseteq Nat
  <2>1. Payable' = Payable
    BY <1>2 DEF Payable
  <2>2. QED
    BY <2>1, PayablePositions
<1>4. CASE i \in Payable
  <2>1. /\ operators' = Append(operators, i)
        /\ defaultOp' = IF config[i].default THEN i ELSE defaultOp
    BY <1>1, <1>4 DEF LoadRegistry, LoadOperator, ValidateOperatorAccount, Payable
  <2>2. PICK n : n = Len(operators)
    OBVIOUS
  <2>3. /\ n \in Nat /\ operators' \in Seq(Nat) /\ Len(operators') = n + 1 /\ operators'[n + 1] = i
        /\ \A k \in 1..n : operators'[k] = operators[k]
    BY <1>2, <2>1, <2>2 DEF RegistryInv
  <2>4. \A k \in 1..(n + 1) : k \in 1..n \/ k = n + 1
    BY <2>3
  <2>5. \A k \in 1..n : operators[k] \in Payable /\ operators[k] <= loaded /\ operators[k] \in Nat
    BY <1>3, <2>2 DEF RegistryInv
  <2>6. \A k \in 1..Len(operators') : operators'[k] \in Payable' /\ operators'[k] <= loaded'
    BY <1>2, <1>3, <1>4, <2>3, <2>4, <2>5
  <2>7. \A h \in Payable' : h <= loaded' => \E k \in 1..Len(operators') : operators'[k] = h
    <3> SUFFICES ASSUME NEW h \in Payable, h <= i PROVE \E k \in 1..(n + 1) : operators'[k] = h
      BY <1>2, <1>3, <2>3
    <3>1. CASE h = i
      BY <2>3, <3>1
    <3>2. CASE h # i
      <4>1. h <= loaded
        BY <1>2, <1>3, <3>2
      <4>2. PICK k \in 1..n : operators[k] = h
        BY <2>2, <4>1 DEF RegistryInv
      <4>3. QED
        BY <2>3, <4>2
    <3>3. QED
      BY <3>1, <3>2
  <2>8. \A j, k \in 1..Len(operators') : j < k => operators'[j] < operators'[k]
    <3> SUFFICES ASSUME NEW j \in 1..(n + 1), NEW k \in 1..(n + 1), j < k
                 PROVE  operators'[j] < operators'[k]
      BY <2>3
    <3>1. j \in 1..n
      BY <2>3
    <3>2. CASE k = n + 1
      BY <1>2, <2>3, <2>5, <3>1, <3>2
    <3>3. CASE k \in 1..n
      <4>1. operators[j] < operators[k]
        BY <2>2, <3>1, <3>3 DEF RegistryInv
      <4>2. QED
        BY <2>3, <3>1, <3>3, <4>1
    <3>4. QED
      BY <2>4, <3>2, <3>3
  <2>9. \/ defaultOp' = Nil /\ \A h \in Payable' : h <= loaded' => ~config'[h].default
        \/ /\ defaultOp' \in Payable' /\ defaultOp' <= loaded' /\ config'[defaultOp'].default
           /\ \A h \in Payable' : h <= loaded' /\ config'[h].default => h <= defaultOp'
    <3>1. \A h \in Payable : h <= i => h <= loaded \/ h = i
      BY <1>2, <1>3
    <3>2. CASE config[i].default
      BY <1>2, <1>3, <1>4, <2>1, <3>1, <3>2
    <3>3. CASE ~config[i].default
      <4>1. defaultOp' = defaultOp
        BY <2>1, <3>3
      <4>2. CASE defaultOp = Nil /\ \A h \in Payable : h <= loaded => ~config[h].default
        BY <1>2, <1>3, <3>1, <3>3, <4>1, <4>2
      <4>3. CASE /\ defaultOp \in Payable /\ defaultOp <= loaded /\ config[defaultOp].default
                 /\ \A h \in Payable : h <= loaded /\ config[h].default => h <= defaultOp
        BY <1>2, <1>3, <3>1, <3>3, <4>1, <4>3
      <4>4. QED
        BY <4>2, <4>3 DEF RegistryInv
    <3>4. QED
      BY <3>2, <3>3
  <2>10. config' \in Seq(Entries) /\ loaded' \in 0..Len(config')
    BY <1>2 DEF RegistryInv
  <2>11. QED
    BY <2>3, <2>6, <2>7, <2>8, <2>9, <2>10 DEF RegistryInv
<1>5. CASE i \notin Payable
  <2>1. UNCHANGED <<operators, defaultOp>>
    BY <1>1, <1>2, <1>5 DEF LoadRegistry, LoadOperator, ValidateOperatorAccount, Payable
  <2>2. \A h \in Payable : h <= i => h <= loaded
    BY <1>2, <1>3, <1>5
  <2>3. \A h \in Payable : h <= loaded => h <= i
    BY <1>2, <1>3
  <2>4. QED
    BY <1>2, <1>3, <2>1, <2>2, <2>3 DEF RegistryInv
<1>6. QED
  BY <1>4, <1>5

\* What First returns, of a registry that is loaded.
LEMMA FirstFits ==
    ASSUME RegistryInv, loaded = Len(config), NEW M, M \subseteq Payable,
           NEW found, found = {k \in DOMAIN operators : operators[k] \in M},
           NEW x, x = IF found = {} THEN Nil ELSE operators[Min(found)]
    PROVE  FirstOf(x, M)
<1>1. /\ DOMAIN operators = 1..Len(operators) /\ Len(operators) \in Nat
      /\ \A k \in 1..Len(operators) : operators[k] \in Nat
  BY DEF RegistryInv
<1>2. \A i \in M : \E k \in found : operators[k] = i
  <2>1. \A i \in Payable : i <= loaded
    BY PayablePositions
  <2>2. QED
    BY <1>1, <2>1 DEF RegistryInv
<1>3. CASE found = {}
  BY <1>2, <1>3 DEF FirstOf
<1>4. CASE found # {}
  <2>1. found \subseteq Nat
    BY <1>1
  <2>2. Min(found) \in found /\ \A k \in found : Min(found) <= k
    BY <1>4, <2>1, MinNat
  <2>3. PICK m : m = Min(found)
    OBVIOUS
  <2>4. x = operators[m] /\ x \in M
    BY <1>4, <2>2, <2>3
  <2>5. ASSUME NEW i \in M PROVE x <= i
    <3>1. PICK k \in found : operators[k] = i
      BY <1>2
    <3>2. m <= k /\ m \in 1..Len(operators) /\ k \in 1..Len(operators)
      BY <1>1, <2>2, <2>3, <3>1
    <3>3. m = k \/ operators[m] < operators[k]
      <4>1. m = k \/ m < k
        BY <1>1, <3>2
      <4>2. QED
        BY <3>2, <4>1 DEF RegistryInv
    <3>4. QED
      BY <1>1, <2>4, <3>1, <3>2, <3>3
  <2>6. QED
    BY <2>4, <2>5 DEF FirstOf
<1>5. QED
  BY <1>3, <1>4

\* The operators that fit NAS q by their key, by the address, by the identifier.
ByNpub(q) == {i \in Payable : config[i].npub = q.id}
ByIP(q) == {i \in Payable : config[i].ip # "" /\ config[i].ip = q.ip}
ByID(q) == {i \in Payable : config[i].nasID # "" /\ Fold[config[i].nasID] = Fold[q.id]}

\* The answers, one by one.
LEMMA TheAnswers ==
    ASSUME RegistryInv, loaded = Len(config), NEW q, NEW a, a = Answers(q)
    PROVE  /\ DOMAIN a = 1..7
           /\ IF q.id \in Npubs THEN FirstOf(a[1], ByNpub(q)) /\ a[2] = Self
                                  ELSE a[1] = Nil /\ a[2] = Nil
           /\ FirstOf(a[3], ByIP(q)) /\ FirstOf(a[4], ByID(q)) /\ a[5] = defaultOp
           /\ a[6] = IF env THEN Env ELSE Nil
           /\ a[7] = Anonymous
<1>1. PICK x : x = First({i \in DOMAIN config : config[i].npub = q.id})
  OBVIOUS
<1>2. PICK y : y = First({i \in DOMAIN config : config[i].ip # "" /\ config[i].ip = q.ip})
  OBVIOUS
<1>3. PICK z : z = First({i \in DOMAIN config : config[i].nasID # "" /\ Fold[config[i].nasID] = Fold[q.id]})
  OBVIOUS
<1>4. a = << IF q.id \in Npubs THEN x ELSE Nil, IF q.id \in Npubs THEN Self ELSE Nil,
             y, z, defaultOp, IF env THEN Env ELSE Nil, Anonymous >>
  BY <1>1, <1>2, <1>3 DEF Answers
<1>5. \A k \in DOMAIN operators : operators[k] \in Payable
  BY DEF RegistryInv
<1>6. FirstOf(x, ByNpub(q))
  <2> DEFINE fit == {i \in DOMAIN config : config[i].npub = q.id}
             found == {k \in DOMAIN operators : operators[k] \in fit}
  <2>1. x = IF found = {} THEN Nil ELSE operators[Min(found)]
    BY <1>1 DEF First
  <2>2. found = {k \in DOMAIN operators : operators[k] \in ByNpub(q)} /\ ByNpub(q) \subseteq Payable
    BY <1>5 DEF ByNpub, Payable
  <2> HIDE DEF found
  <2>3. QED
    BY <2>1, <2>2, FirstFits
<1>7. FirstOf(y, ByIP(q))
  <2> DEFINE fit == {i \in DOMAIN config : config[i].ip # "" /\ config[i].ip = q.ip}
             found == {k \in DOMAIN operators : operators[k] \in fit}
  <2>1. y = IF found = {} THEN Nil ELSE operators[Min(found)]
    BY <1>2 DEF First
  <2>2. found = {k \in DOMAIN operators : operators[k] \in ByIP(q)} /\ ByIP(q) \subseteq Payable
    BY <1>5 DEF ByIP, Payable
  <2> HIDE DEF found
  <2>3. QED
    BY <2>1, <2>2, FirstFits
<1>8. FirstOf(z, ByID(q))
  <2> DEFINE fit == {i \in DOMAIN config : config[i].nasID # "" /\ Fold[config[i].nasID] = Fold[q.id]}
             found == {k \in DOMAIN operators : operators[k] \in fit}
  <2>1. z = IF found = {} THEN Nil ELSE operators[Min(found)]
    BY <1>3 DEF First
  <2>2. found = {k \in DOMAIN operators : operators[k] \in ByID(q)} /\ ByID(q) \subseteq Payable
    BY <1>5 DEF ByID, Payable
  <2> HIDE DEF found
  <2>3. QED
    BY <2>1, <2>2, FirstFits
<1>9. QED
  BY <1>4, <1>6, <1>7, <1>8

\* Resolve returns the first of them that is not Nil.
LEMMA FirstAnswer ==
    ASSUME RegistryInv, loaded = Len(config), NEW q, NEW a, a = Answers(q), NEW b, b = Resolve(q)
    PROVE  \E k \in 1..7 : b = a[k] /\ a[k] # Nil /\ \A j \in 1..7 : a[j] # Nil => k <= j
<1> DEFINE given == {k \in DOMAIN a : a[k] # Nil}
<1>1. DOMAIN a = 1..7 /\ a[7] = Anonymous
  BY TheAnswers
<1>2. b = a[Min(given)]
  BY DEF Resolve
<1>3. given \subseteq Nat /\ given # {}
  <2>1. 7 \in given
    BY <1>1 DEF Anonymous, Nil
  <2>2. QED
    BY <1>1, <2>1
<1>4. Min(given) \in given /\ \A k \in given : Min(given) <= k
  BY <1>3, MinNat
<1>5. QED
  BY <1>1, <1>2, <1>4

\* How well entry i of the file fits NAS q.
Rank(i, q) ==
    IF q.id \in Npubs THEN IF config[i].npub = q.id THEN 4 ELSE 0
    ELSE IF q.ip # "" /\ config[i].ip = q.ip THEN 3
    ELSE IF config[i].nasID # "" /\ Fold[config[i].nasID] = Fold[q.id] THEN 2
    ELSE IF config[i].default THEN 1 ELSE 0

\* Account b is the best match for q.
Best(b, q) ==
    \/ /\ b \in Payable /\ Rank(b, q) > 0
       /\ \A i \in Payable \ {b} :
              \/ Rank(i, q) < Rank(b, q)
              \/ Rank(i, q) = Rank(b, q) /\ IF Rank(i, q) = 1 THEN i < b ELSE i > b
    \/ /\ \A i \in Payable : Rank(i, q) = 0
       /\ b = IF q.id \in Npubs THEN Self ELSE IF env THEN Env ELSE Anonymous

\* The account that Resolve names is the best match.
LEMMA ResolveIsBest ==
    ASSUME RegistryInv, loaded = Len(config), NEW q, NEW b, b = Resolve(q)
    PROVE  Best(b, q)
<1>1. PICK a : a = Answers(q)
  OBVIOUS
<1>2. /\ IF q.id \in Npubs THEN FirstOf(a[1], ByNpub(q)) /\ a[2] = Self
                             ELSE a[1] = Nil /\ a[2] = Nil
      /\ FirstOf(a[3], ByIP(q)) /\ FirstOf(a[4], ByID(q)) /\ a[5] = defaultOp
      /\ a[6] = IF env THEN Env ELSE Nil
      /\ a[7] = Anonymous
  BY <1>1, TheAnswers
<1>3. PICK k \in 1..7 : b = a[k] /\ a[k] # Nil /\ \A j \in 1..7 : a[j] # Nil => k <= j
  BY <1>1, FirstAnswer
<1>4. Payable \subseteq Nat \ {0} /\ \A i \in Payable : i <= loaded
  BY PayablePositions
<1>5. q.id \in Npubs => \A i \in Payable : Rank(i, q) = IF i \in ByNpub(q) THEN 4 ELSE 0
  BY DEF ByNpub, Rank
<1>6. q.id \notin Npubs =>
          \A i \in Payable : Rank(i, q) = IF i \in ByIP(q) THEN 3 ELSE IF i \in ByID(q) THEN 2
                                       ELSE IF config[i].default THEN 1 ELSE 0
  BY DEF ByIP, ByID, Rank
<1>7. ByNpub(q) \subseteq Payable /\ ByIP(q) \subseteq Payable /\ ByID(q) \subseteq Payable
  BY DEF ByNpub, ByIP, ByID
<1>8. CASE q.id \in Npubs
  <2>1. k \in {1, 2}
    BY <1>2, <1>3, <1>8 DEF Self, Nil
  <2>2. CASE ByNpub(q) # {}
    <3>1. b = a[1] /\ b \in ByNpub(q) /\ \A i \in ByNpub(q) : b <= i
      <4>1. a[1] \in ByNpub(q) /\ \A i \in ByNpub(q) : a[1] <= i
        BY <1>2, <1>8, <2>2 DEF FirstOf
      <4>2. a[1] # Nil
        BY <1>4, <1>7, <4>1 DEF Nil
      <4>3. k = 1
        BY <1>3, <2>1, <4>2
      <4>4. QED
        BY <1>3, <4>1, <4>3
    <3>2. Rank(b, q) = 4 /\ b \in Payable
      BY <1>5, <1>7, <1>8, <3>1
    <3>3. ASSUME NEW i \in Payable \ {b}
          PROVE  Rank(i, q) < 4 \/ (Rank(i, q) = 4 /\ i > b)
      BY <1>4, <1>5, <1>8, <3>1, <3>2
    <3>4. QED
      BY <3>2, <3>3 DEF Best
  <2>3. CASE ByNpub(q) = {}
    <3>1. b = Self
      BY <1>2, <1>3, <1>8, <2>1, <2>3 DEF FirstOf
    <3>2. QED
      BY <1>5, <1>8, <2>3, <3>1 DEF Best
  <2>4. QED
    BY <2>2, <2>3
<1>9. CASE q.id \notin Npubs
  <2>1. k \in {3, 4, 5, 6, 7}
    BY <1>2, <1>3, <1>9
  <2>2. CASE ByIP(q) # {}
    <3>1. b \in ByIP(q) /\ \A i \in ByIP(q) : b <= i
      <4>1. a[3] \in ByIP(q) /\ \A i \in ByIP(q) : a[3] <= i
        BY <1>2, <2>2 DEF FirstOf
      <4>2. a[3] # Nil
        BY <1>4, <1>7, <4>1 DEF Nil
      <4>3. k = 3
        BY <1>3, <2>1, <4>2
      <4>4. QED
        BY <1>3, <4>1, <4>3
    <3>2. Rank(b, q) = 3 /\ b \in Payable
      BY <1>6, <1>7, <1>9, <3>1
    <3>3. ASSUME NEW i \in Payable \ {b}
          PROVE  Rank(i, q) < 3 \/ (Rank(i, q) = 3 /\ i > b)
      BY <1>4, <1>6, <1>9, <3>1, <3>2
    <3>4. QED
      BY <3>2, <3>3 DEF Best
  <2>3. CASE ByIP(q) = {} /\ ByID(q) # {}
    <3>1. b \in ByID(q) /\ \A i \in ByID(q) : b <= i
      <4>1. a[4] \in ByID(q) /\ \A i \in ByID(q) : a[4] <= i
        BY <1>2, <2>3 DEF FirstOf
      <4>2. a[3] = Nil
        BY <1>2, <2>3 DEF FirstOf
      <4>3. a[4] # Nil
        BY <1>4, <1>7, <4>1 DEF Nil
      <4>4. k = 4
        BY <1>3, <2>1, <4>2, <4>3
      <4>5. QED
        BY <1>3, <4>1, <4>4
    <3>2. Rank(b, q) = 2 /\ b \in Payable
      BY <1>6, <1>7, <1>9, <2>3, <3>1
    <3>3. ASSUME NEW i \in Payable \ {b}
          PROVE  Rank(i, q) < 2 \/ (Rank(i, q) = 2 /\ i > b)
      BY <1>4, <1>6, <1>9, <2>3, <3>1, <3>2
    <3>4. QED
      BY <3>2, <3>3 DEF Best
  <2>4. CASE ByIP(q) = {} /\ ByID(q) = {} /\ defaultOp # Nil
    <3>1. b = defaultOp
      BY <1>2, <1>3, <2>1, <2>4 DEF FirstOf
    <3>2. /\ b \in Payable /\ config[b].default
          /\ \A i \in Payable : config[i].default => i <= b
      BY <1>4, <2>4, <3>1 DEF RegistryInv
    <3>3. Rank(b, q) = 1
      BY <1>6, <1>9, <2>4, <3>2
    <3>4. ASSUME NEW i \in Payable \ {b}
          PROVE  Rank(i, q) < 1 \/ (Rank(i, q) = 1 /\ i < b)
      BY <1>4, <1>6, <1>9, <2>4, <3>2
    <3>5. QED
      BY <3>2, <3>3, <3>4 DEF Best
  <2>5. CASE ByIP(q) = {} /\ ByID(q) = {} /\ defaultOp = Nil
    <3>1. \A i \in Payable : Rank(i, q) = 0
      <4>1. \A i \in Payable : ~config[i].default
        BY <1>4, <2>5 DEF RegistryInv, Nil
      <4>2. QED
        BY <1>6, <1>9, <2>5, <4>1
    <3>2. b = IF env THEN Env ELSE Anonymous
      BY <1>2, <1>3, <2>1, <2>5 DEF FirstOf, Env, Nil
    <3>3. QED
      BY <1>9, <3>1, <3>2 DEF Best
  <2>6. QED
    BY <2>2, <2>3, <2>4, <2>5
<1>10. QED
  BY <1>8, <1>9

-----------------------------------------------------------------------------
(* The two functions, in the behaviours of the specification.              *)

\* The NAS that the program tells the resolver of.
Told == IF program = "server" THEN NoNas ELSE nas

\* The operator was asked for when the registry was complete, and for the NAS of
\* every request that exec reads; a request got what the two functions return.
OutcomeInv ==
    /\ DOMAIN login = {"username", "password", "cleartext"}
    /\ opCtx # Nil => loaded = Len(config) /\ opCtx = Resolve(Told)
    /\ booked # Nil => opCtx # Nil /\ booked = opCtx /\ payment = ExtractPayment(login)

LEMMA InitOutcome == Init => RegistryInv /\ OutcomeInv
<1> SUFFICES ASSUME Init PROVE RegistryInv /\ OutcomeInv
  OBVIOUS
<1>1. config \in Seq(Entries)
  <2>1. CASE config = <<>>
    BY <2>1
  <2>2. CASE config \in BoundedSeq(Entries, MaxOperators)
    <3>1. PICK n \in 0..MaxOperators : config \in [1..n -> Entries]
      BY <2>2 DEF BoundedSeq, SeqOf
    <3>2. MaxOperators \in Nat
      BY CredentialsAssumption, Zenon
    <3>3. n \in Nat
      BY <3>1, <3>2
    <3>4. QED
      BY <3>1, <3>3
  <2>3. QED
    BY <2>1, <2>2 DEF Init
<1>2. /\ operators = <<>> /\ loaded = 0 /\ defaultOp = Nil /\ opCtx = Nil /\ booked = Nil
      /\ login \in Logins \/ login = NoLogin
  BY DEF Init
<1>3. Payable \subseteq 1..Len(config) /\ Len(config) \in Nat
  <2>1. DOMAIN config = 1..Len(config) /\ Len(config) \in Nat
    BY <1>1
  <2>2. QED
    BY <2>1 DEF Payable
<1>4. operators \in Seq(Nat) /\ Len(operators) = 0 /\ \A i \in Payable : ~(i <= 0)
  BY <1>2, <1>3
<1>5. RegistryInv
  BY <1>1, <1>2, <1>3, <1>4 DEF RegistryInv
<1>6. OutcomeInv
  BY <1>2 DEF OutcomeInv, Logins, NoLogin
<1>7. QED
  BY <1>5, <1>6

LEMMA SameResolve ==
    ASSUME UNCHANGED <<config, env, operators, defaultOp>>, NEW q
    PROVE  Resolve(q)' = Resolve(q)
  BY DEF Resolve, Answers, First

LEMMA NextOutcome == RegistryInv /\ OutcomeInv /\ [Next]_vars => RegistryInv' /\ OutcomeInv'
<1> SUFFICES ASSUME RegistryInv, OutcomeInv, [Next]_vars PROVE RegistryInv' /\ OutcomeInv'
  OBVIOUS
<1>1. CASE LoadRegistry
  <2>1. /\ loaded < Len(config) /\ UNCHANGED <<login, opCtx, booked>>
        /\ loaded \in Nat /\ Len(config) \in Nat
    BY <1>1, PayablePositions DEF LoadRegistry, RegistryInv, input
  <2>2. opCtx = Nil /\ booked = Nil
    BY <2>1 DEF OutcomeInv
  <2>3. OutcomeInv'
    BY <2>1, <2>2 DEF OutcomeInv
  <2>4. QED
    BY <1>1, <2>3, LoadStep
<1>2. CASE ResolveOperator
  <2>1. /\ UNCHANGED <<login, config, env, program, nas, operators, defaultOp, loaded, payment, booked>>
        /\ loaded = Len(config) /\ opCtx = Nil /\ opCtx' = Resolve(Told)
    BY <1>2 DEF ResolveOperator, input, registry, Told
  <2>2. RegistryInv'
    BY <2>1 DEF RegistryInv, Payable
  <2>3. \A q : Resolve(q)' = Resolve(q)
    BY <2>1, SameResolve
  <2>4. Told' = Told
    BY <2>1 DEF Told
  <2>5. booked = Nil
    BY <2>1 DEF OutcomeInv
  <2>6. opCtx' = Resolve(Told)'
    BY <2>1, <2>3, <2>4
  <2>7. OutcomeInv'
    BY <2>1, <2>5, <2>6 DEF OutcomeInv
  <2>8. QED
    BY <2>2, <2>7
<1>3. CASE Request
  <2>1. /\ UNCHANGED <<login, config, env, program, operators, defaultOp, loaded, opCtx>>
        /\ opCtx # Nil /\ payment' = ExtractPayment(login) /\ booked' = opCtx
        /\ program = "server" \/ nas' = nas
    BY <1>3 DEF Request, input, registry
  <2>2. RegistryInv'
    BY <2>1 DEF RegistryInv, Payable
  <2>3. Told' = Told
    BY <2>1 DEF Told
  <2>4. Resolve(Told)' = Resolve(Told)
    BY <2>1, <2>3 DEF Resolve, Answers, First
  <2>5. loaded = Len(config) /\ opCtx = Resolve(Told)
    BY <2>1 DEF OutcomeInv
  <2>6. OutcomeInv'
    BY <2>1, <2>4, <2>5 DEF OutcomeInv
  <2>7. QED
    BY <2>2, <2>6
<1>4. CASE UNCHANGED vars
  <2>1. /\ UNCHANGED <<login, config, env, program, nas, operators, defaultOp, loaded>>
        /\ UNCHANGED <<payment, opCtx, booked>>
    BY <1>4 DEF vars, input, registry
  <2>2. RegistryInv'
    BY <2>1 DEF RegistryInv, Payable
  <2>3. Resolve(Told)' = Resolve(Told)
    BY <2>1 DEF Resolve, Answers, First, Told
  <2>4. OutcomeInv'
    BY <2>1, <2>3 DEF OutcomeInv
  <2>5. QED
    BY <2>2, <2>4
<1>5. QED
  BY <1>1, <1>2, <1>3, <1>4 DEF Next

LEMMA OutcomeInductive == Spec => [](RegistryInv /\ OutcomeInv)
  BY InitOutcome, NextOutcome, PTL DEF Spec

\* A payment that a customer makes in one of the usual ways, in one field or split
\* over two, is what ExtractPayment returns, for every set of lengths and every
\* TokenSplitLen and MaxInputLen; what it returns begins as a valid payment, and
\* is put together only of a first part and a rest within MaxInputLen.
THEOREM PaymentFound == Spec => []PaymentComesThrough
<1>1. OutcomeInv => PaymentComesThrough
  <2> SUFFICES ASSUME OutcomeInv, booked # Nil
               PROVE  /\ \A value : Pays(login, value) => payment = value
                      /\ payment # None => IsValidCashuToken(payment[1]) \/ IsValidLNURLw(payment[1])
                      /\ Len(payment) = 2 => /\ payment[1].len = TokenSplitLen
                                             /\ payment[1].len + payment[2].len <= MaxInputLen
    BY DEF PaymentComesThrough
  <2>1. payment = ExtractPayment(login) /\ DOMAIN login = {"username", "password", "cleartext"}
    BY DEF OutcomeInv
  <2>2. \A value : Pays(login, value) => payment = value
    BY <2>1, UsualIsFound
  <2>3. payment = None => Len(payment) # 2
    BY DEF None
  <2>4. payment # None =>
            /\ IsValidCashuToken(payment[1]) \/ IsValidLNURLw(payment[1])
            /\ Len(payment) = 2 => /\ payment[1].len = TokenSplitLen
                                   /\ payment[1].len + payment[2].len <= MaxInputLen
    BY <2>1, FoundIsPayment
  <2>5. QED
    BY <2>2, <2>3, <2>4
<1>2. QED
  BY <1>1, OutcomeInductive, PTL

\* However many operators the file has, and whichever of them are skipped, exec
\* books its request to the one that fits it best, and to the key that the NAS
\* shows, the operator of the environment or nobody when none fits; a server
\* books every request, from whichever NAS, as if it came from none.
THEOREM BestMatchBooked == Spec => []BookedToBestMatch
<1>1. RegistryInv /\ OutcomeInv => BookedToBestMatch
  <2> SUFFICES ASSUME RegistryInv, OutcomeInv PROVE BookedToBestMatch
    OBVIOUS
  <2>1. CASE booked = Nil
    BY <2>1, Zenon DEF BookedToBestMatch
  <2>2. CASE booked # Nil
    <3>1. loaded = Len(config) /\ booked = Resolve(Told)
      BY <2>2 DEF OutcomeInv
    <3>2. Best(booked, Told)
      BY <3>1, ResolveIsBest
    <3>3. QED
      BY <3>2 DEF Best, Rank, Told, Payable, BookedToBestMatch
  <2>3. QED
    BY <2>1, <2>2
<1>2. QED
  BY <1>1, OutcomeInductive, PTL

=============================================================================
