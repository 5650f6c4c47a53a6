-------------------------- MODULE SshGatewayProofs --------------------------
(***************************************************************************)
(* Proofs of the safety properties of SshGateway with its VmHost, for any  *)
(* sessions, tokens and machines, any size of the address range and any    *)
(* times that the assumptions allow.                                       *)
(***************************************************************************)
EXTENDS SshGateway, TLAPS

-----------------------------------------------------------------------------
(* The host.                                                               *)

\* How far the counter has gone on since a machine got its address: as many
\* steps as there were calls, or as many less one round.
Round(v) ==
    LET gap == calls - vms[v].serial IN
    /\ gap > 0
    /\ gap <= MaxIp =>
           ipCounter - vms[v].ip = gap \/ ipCounter - vms[v].ip + MaxIp = gap

HostInv ==
    /\ HostTypeOK /\ HostMatchesTable /\ AddressesApart
    /\ fcd = "down" => Known = {}
    /\ \A v \in Known : Round(v)

\* What a step of the whole system is to the host.
LEMMA HostEffect ==
    ASSUME [Next]_vars
    PROVE  \/ \E v \in Vms, ttl \in Nat : createVM(v, ttl)
           \/ \E v \in Vms : createFails(v)
           \/ \E gone \in SUBSET Known, cleared \in SUBSET Vms :
                  cleared \subseteq gone /\ Teardown(gone, cleared) /\ fcd # "down"
                  /\ fcd' \in {fcd, "draining"}
           \/ \E v \in Vms : vmExits(v)
           \/ fcdExit \/ fcdStart
           \/ now < MaxTime /\ now' = now + 1
              /\ UNCHANGED <<vms, ipCounter, calls, procs, taps, dirs, fcd, used, orphans, stuck>>
           \/ UNCHANGED hostVars
<1> USE GatewayAssumption
<1> DEFINE Down == \E gone \in SUBSET Known, cleared \in SUBSET Vms :
                       cleared \subseteq gone /\ Teardown(gone, cleared) /\ fcd # "down"
                       /\ fcd' \in {fcd, "draining"}
<1>1. ASSUME NEW gone \in SUBSET Known, NEW cleared \in SUBSET Vms, cleared \subseteq gone,
             Teardown(gone, cleared), fcd # "down", fcd' \in {fcd, "draining"}
      PROVE  Down
  BY <1>1
<1> HIDE DEF Down
<1>2. Known \subseteq Vms
  BY DEF Known
<1>3. ASSUME NEW v, destroyVM(v) PROVE Down
  <2>1. v \in Known /\ {v} \in SUBSET Known /\ {v} \in SUBSET Vms
    BY <1>2, <1>3 DEF destroyVM
  <2>2. QED
    BY <1>1, <1>3, <2>1 DEF destroyVM
<1>4. ASSUME NEW v, watchExit(v) PROVE Down
  <2>1. v \in Known /\ {v} \in SUBSET Known /\ {} \in SUBSET Vms /\ {} \subseteq {v}
    BY <1>4 DEF watchExit
  <2>2. QED
    BY <1>1, <1>4, <2>1 DEF watchExit
<1>5. CASE reap
  <2>1. Overdue \in SUBSET Known /\ Overdue \in SUBSET Vms
    BY <1>2 DEF Overdue
  <2>2. QED
    BY <1>1, <1>5, <2>1 DEF reap, Down
<1>6. ASSUME destroyAllVMs PROVE Down
  <2>1. Known \in SUBSET Known /\ {} \in SUBSET Vms /\ {} \subseteq Known
    OBVIOUS
  <2>2. QED
    BY <1>1, <1>6, <2>1 DEF destroyAllVMs
<1>7. CASE hostNext
  BY <1>3, <1>4, <1>5, <1>6, <1>7 DEF hostNext, ttlElapsed, Down
<1>8. ASSUME NEW v \in Vms, DirectPost(v) \/ \E s \in Sessions : Serve(s, v)
      PROVE  createFails(v) \/ (\E ttl \in Nat : createVM(v, ttl)) \/ UNCHANGED hostVars
  BY <1>8 DEF DirectPost, Serve, TTLSeconds
<1>9. ASSUME NEW s \in Sessions,
             \/ \E t \in Tokens : Verify(s, t)
             \/ Redeem(s) \/ Reject(s) \/ Answer(s) \/ Dial(s) \/ DialFails(s)
             \/ BridgeEnds(s) \/ CreateJail(s) \/ StartShell(s) \/ ShellEnds(s)
      PROVE  UNCHANGED hostVars
  BY <1>9 DEF Verify, Redeem, Reject, Answer, Dial, DialFails, BridgeEnds, CreateJail,
              StartShell, ShellEnds
<1>10. ASSUME NEW s \in Sessions, Delete(s)
       PROVE  Down \/ UNCHANGED hostVars
  BY <1>3, <1>10 DEF Delete
<1>11. CASE GatewayExit \/ Tick \/ UNCHANGED vars
  BY <1>11 DEF GatewayExit, Tick, vars
<1>12. QED
  BY <1>7, <1>8, <1>9, <1>10, <1>11 DEF Next, Down

\* The counter after a call.
LEMMA AfterIpType ==
    ASSUME NEW n \in 1..MaxIp
    PROVE  AfterIp(n) \in 1..MaxIp /\ (AfterIp(n) = n + 1 \/ (n = MaxIp /\ AfterIp(n) = 1))
BY VmHostAssumption DEF AfterIp

\* A call takes the counter on; the machines that are known keep pace.
LEMMA nextVMIPRound ==
    ASSUME HostTypeOK, nextVMIP, NEW v \in Known, Round(v), vms'[v] = vms[v]
    PROVE  Round(v)'
<1>1. /\ MaxIp \in Nat \ {0} /\ ipCounter \in 1..MaxIp /\ calls \in Nat
      /\ vms[v].ip \in 1..MaxIp /\ vms[v].serial \in Nat
  BY VmHostAssumption DEF HostTypeOK, Known, VM
<1>2. calls' = calls + 1 /\ (ipCounter' = ipCounter + 1 \/ (ipCounter = MaxIp /\ ipCounter' = 1))
  BY <1>1, AfterIpType DEF nextVMIP
<1>3. QED
  BY <1>1, <1>2 DEF Round

LEMMA createVMHost ==
    ASSUME HostInv, NEW v \in Vms, NEW ttl \in Nat, createVM(v, ttl)
    PROVE  HostInv'
<1> USE DEF HostInv
<1> DEFINE new == [ip |-> ipCounter, ttl |-> ttl, expiresAt |-> now + ttl, serial |-> calls]
<1>1. MaxIp \in Nat \ {0} /\ ipCounter \in 1..MaxIp /\ calls \in Nat
      /\ NoVm \notin VM /\ MaxTime \in Nat /\ now \in 0..MaxTime
  BY VmHostAssumption DEF HostTypeOK, VM
<1>2. new \in VM /\ new # NoVm
  <2>1. ttl \in 0..MaxTime /\ now + ttl \in 0..MaxTime
    BY <1>1 DEF createVM
  <2>2. new \in VM
    BY <1>1, <2>1 DEF VM
  <2>3. QED
    BY <1>1, <2>2
<1>3. /\ vms' = [vms EXCEPT ![v] = new] /\ nextVMIP /\ fcd # "down" /\ v \notin used
      /\ procs' = procs \cup {v} /\ taps' = taps \cup {v} /\ dirs' = dirs \cup {v}
      /\ used' = used \cup {v} /\ UNCHANGED <<now, fcd, orphans, stuck>>
  BY DEF createVM, setupTAP
<1>4. ipCounter' \in 1..MaxIp /\ calls' = calls + 1
      /\ (ipCounter' = ipCounter + 1 \/ (ipCounter = MaxIp /\ ipCounter' = 1))
  BY <1>1, <1>3, AfterIpType DEF nextVMIP
<1>5. new.ip = ipCounter /\ new.serial = calls
  OBVIOUS
<1> HIDE DEF new
<1>6. HostTypeOK'
  BY <1>1, <1>2, <1>3, <1>4 DEF HostTypeOK
<1>7. v \notin Known /\ vms'[v] = new /\ \A w \in Vms : w # v => vms'[w] = vms[w]
  BY <1>3 DEF HostTypeOK, HostMatchesTable
<1>8. Known' = Known \cup {v}
  BY <1>2, <1>7 DEF Known
<1>9. HostMatchesTable'
  BY <1>3, <1>8 DEF HostMatchesTable
<1>10. \A w \in Known' : Round(w)'
  <2>1. ASSUME NEW w \in Known PROVE Round(w)'
    <3>1. vms'[w] = vms[w]
      BY <1>7 DEF Known
    <3>2. QED
      BY <1>3, <3>1, nextVMIPRound
  <2>2. Round(v)'
    BY <1>1, <1>4, <1>5, <1>7 DEF Round
  <2>3. QED
    BY <1>8, <2>1, <2>2
<1>11. AddressesApart'
  <2>1. ASSUME NEW w \in Known, vms[w].ip = ipCounter
        PROVE  calls - vms[w].serial > MaxIp - 1
    <3>1. vms[w].serial \in Nat /\ Round(w)
      BY DEF HostTypeOK, Known, VM
    <3>2. QED
      BY <1>1, <2>1, <3>1 DEF Round
  <2>2. ASSUME NEW w \in Known PROVE vms'[w] = vms[w] /\ w # v /\ vms[w].serial \in Nat
    BY <1>7 DEF HostTypeOK, Known, VM
  <2>3. ASSUME NEW w \in Known, NEW u \in Known, vms'[w].ip = vms'[u].ip
        PROVE  w = u \/ vms'[w].serial - vms'[u].serial \notin -(MaxIp - 1)..(MaxIp - 1)
    BY <2>2, <2>3 DEF AddressesApart
  <2>4. ASSUME NEW w \in Known, vms'[w].ip = vms'[v].ip
        PROVE  /\ vms'[w].serial - vms'[v].serial \notin -(MaxIp - 1)..(MaxIp - 1)
               /\ vms'[v].serial - vms'[w].serial \notin -(MaxIp - 1)..(MaxIp - 1)
    BY <1>1, <1>5, <1>7, <2>1, <2>2, <2>4
  <2>5. QED
    BY <1>8, <2>3, <2>4 DEF AddressesApart
<1>12. QED
  BY <1>3, <1>6, <1>9, <1>10, <1>11

\* Machines leave the table with their processes and devices.
LEMMA TeardownHost ==
    ASSUME HostInv, NEW gone \in SUBSET Known, NEW cleared \in SUBSET Vms,
           cleared \subseteq gone, Teardown(gone, cleared), fcd # "down",
           fcd' \in {fcd, "draining"}
    PROVE  HostInv'
<1> USE DEF HostInv
<1>1. PICK kept \in SUBSET gone :
      /\ vms' = [v \in Vms |-> IF v \in gone THEN NoVm ELSE vms[v]]
      /\ procs' = procs \ gone /\ dirs' = dirs \ cleared
      /\ taps' = taps \ (gone \ kept) /\ stuck' = stuck \cup kept
      /\ UNCHANGED <<ipCounter, calls, now, used, orphans>>
  BY DEF Teardown, cleanupTAP
<1>2. HostTypeOK'
  <2>1. kept \subseteq used
    BY DEF HostTypeOK, HostMatchesTable
  <2>2. QED
    BY <1>1, <2>1 DEF HostTypeOK
<1>3. Known' = Known \ gone /\ \A v \in Known' : vms'[v] = vms[v]
  BY <1>1 DEF Known
<1>4. HostMatchesTable'
  BY <1>1, <1>3 DEF HostMatchesTable
<1>5. AddressesApart' /\ \A v \in Known' : Round(v)'
  BY <1>1, <1>3 DEF AddressesApart, Round
<1>6. QED
  BY <1>2, <1>3, <1>4, <1>5

\* The host keeps its invariant through every step of the system.
LEMMA HostStep == HostInv /\ [Next]_vars => HostInv'
<1> SUFFICES ASSUME HostInv, [Next]_vars PROVE HostInv'
  OBVIOUS
<1> USE DEF HostInv
<1>1. ASSUME NEW w \in Vms, createFails(w) PROVE HostInv'
  <2>1. Known' = Known /\ \A v \in Known : vms'[v] = vms[v]
    BY <1>1 DEF createFails, Known
  <2>2. UNCHANGED <<vms, procs, dirs, now, fcd, orphans>>
    BY <1>1 DEF createFails
  <2>3. HostMatchesTable' /\ AddressesApart'
    BY <1>1, <2>1, <2>2 DEF createFails, setupTAP, HostMatchesTable, AddressesApart
  <2>4. /\ procs \subseteq used' /\ taps' \subseteq used' /\ dirs \subseteq used'
        /\ used' \subseteq Vms /\ orphans \subseteq used' /\ stuck' \subseteq used'
    BY <1>1 DEF createFails, setupTAP, HostTypeOK
  <2>5. CASE UNCHANGED <<ipCounter, calls>>
    <3>1. HostTypeOK'
      BY <2>2, <2>4, <2>5 DEF HostTypeOK
    <3>2. QED
      BY <2>1, <2>2, <2>3, <2>5, <3>1 DEF Round
  <2>6. CASE nextVMIP
    <3>1. ipCounter' \in 1..MaxIp /\ calls' \in Nat
      BY <2>6, AfterIpType DEF nextVMIP, HostTypeOK
    <3>2. \A v \in Known' : Round(v)'
      BY <2>1, <2>6, nextVMIPRound
    <3>3. HostTypeOK'
      BY <2>2, <2>4, <3>1 DEF HostTypeOK
    <3>4. QED
      BY <2>1, <2>2, <2>3, <3>2, <3>3
  <2>7. QED
    BY <1>1, <2>5, <2>6 DEF createFails
<1>2. ASSUME NEW v \in Vms, vmExits(v) PROVE HostInv'
  BY <1>2 DEF vmExits, HostTypeOK, HostMatchesTable, AddressesApart, Round, Known
<1>3. CASE fcdExit
  <2>1. Known' = {}
    BY <1>3 DEF fcdExit, Known
  <2>2. HostTypeOK'
    BY <1>3 DEF fcdExit, HostTypeOK
  <2>3. HostMatchesTable'
    BY <1>3, <2>1 DEF fcdExit, HostMatchesTable
  <2>4. QED
    BY <2>1, <2>2, <2>3 DEF AddressesApart
<1>4. CASE fcdStart
  <2>1. Known' = {} /\ fcd' = "up"
    BY <1>4 DEF fcdStart, Known
  <2>2. HostTypeOK' /\ HostMatchesTable'
    BY <1>4, <2>1, VmHostAssumption DEF fcdStart, HostTypeOK, HostMatchesTable
  <2>3. QED
    BY <2>1, <2>2 DEF AddressesApart
<1>5. CASE now < MaxTime /\ now' = now + 1
           /\ UNCHANGED <<vms, ipCounter, calls, procs, taps, dirs, fcd, used, orphans, stuck>>
  BY <1>5, VmHostAssumption DEF HostTypeOK, HostMatchesTable, AddressesApart, Round, Known
<1>6. CASE UNCHANGED hostVars
  BY <1>6 DEF hostVars, HostTypeOK, HostMatchesTable, AddressesApart, Round, Known
<1>7. QED
  BY <1>1, <1>2, <1>3, <1>4, <1>5, <1>6, createVMHost, TeardownHost, HostEffect

-----------------------------------------------------------------------------
(* The sessions.                                                           *)

\* Where a session is once its token is redeemed.
Paying == {"posting", "dialing", "giveup", "bridged", "closing", "jail", "starting", "shell"}

\* A machine, as long as it is in the table, lives until t at least.
Lasts(v, t) == v \in Known => vms[v].expiresAt >= t

\* The machine of a session outlasts what is left of its dial attempts and the
\* paid time after them.
HandlerOK(h) ==
    /\ h \in Handler
    /\ h.pc \in Paying => h.token \in redeemed
    /\ h.pc = "verified" => h.token \in Tokens
    /\ h.vm # NoVm => h.vm \in used
    /\ h.waited => h.pc = "dialing"
    /\ h.pc \in {"idle", "verified", "posting"} => h.attempts = 0
    /\ h.post = "served" => h.pc = "posting" /\ Lasts(h.vm, now + Paid + Margin)
    /\ h.pc = "dialing" =>
           /\ h.attempts < MaxAttempts
           /\ Lasts(h.vm, now + Paid + Margin - h.attempts - (IF h.waited THEN 1 ELSE 0))
    /\ h.pc = "bridged" => Lasts(h.vm, h.endsAt)

\* A redeemed token and a machine belong to one session.
OneOwner ==
    \A s, r \in Sessions :
        \/ s = r
        \/ /\ ses[s].vm # NoVm => ses[s].vm # ses[r].vm
           /\ ses[s].pc \in Paying /\ ses[r].pc \in Paying => ses[s].token # ses[r].token

SesInv ==
    /\ ses \in [Sessions -> Handler]
    /\ redeemed \subseteq Tokens
    /\ \A s \in Sessions : HandlerOK(ses[s])
    /\ OneOwner

JailInv == jails \subseteq redeemed /\ litter \subseteq redeemed /\ JailsMatchSessions

\* A step that is no tick leaves a machine its lifetime as long as it is known.
HostSame ==
    /\ now' = now /\ used \subseteq used'
    /\ \A v \in used : v \in Known' => v \in Known /\ vms'[v] = vms[v]

LEMMA HostSameHolds ==
    ASSUME HostInv, [Next]_vars, now' = now
    PROVE  HostSame
<1> USE DEF HostInv, HostSame, Known
<1>1. ASSUME NEW v \in Vms, NEW ttl \in Nat, createVM(v, ttl) PROVE HostSame
  BY <1>1 DEF createVM, HostTypeOK
<1>2. ASSUME NEW v \in Vms, createFails(v) PROVE HostSame
  BY <1>2 DEF createFails
<1>3. ASSUME NEW gone, NEW cleared, Teardown(gone, cleared) PROVE HostSame
  BY <1>3 DEF Teardown
<1>4. ASSUME NEW v \in Vms, vmExits(v) PROVE HostSame
  BY <1>4 DEF vmExits
<1>5. CASE fcdExit \/ fcdStart
  BY <1>5 DEF fcdExit, fcdStart
<1>6. CASE UNCHANGED hostVars
  BY <1>6 DEF hostVars
<1>7. CASE now' = now + 1
  BY <1>7, VmHostAssumption DEF HostTypeOK
<1>8. QED
  BY <1>1, <1>2, <1>3, <1>4, <1>5, <1>6, <1>7, HostEffect

\* A session that does not move stays in order.
LEMMA StillOK ==
    ASSUME HostInv, HostSame, redeemed \subseteq redeemed',
           NEW s \in Sessions, HandlerOK(ses[s]), ses'[s] = ses[s]
    PROVE  HandlerOK(ses[s])'
<1>1. ses[s].vm \in used /\ ses[s].vm \in Known'
          => ses[s].vm \in Known /\ vms'[ses[s].vm] = vms[ses[s].vm]
  BY DEF HostSame
<1>2. NoVm \notin Known'
  BY VmHostAssumption DEF Known
<1>3. QED
  BY <1>1, <1>2 DEF HandlerOK, HostSame, Lasts

\* One session moves.  A machine that it gets is new, and so is a redeemed token.
LEMMA OneMoves ==
    ASSUME HostInv, SesInv, HostSame, NEW s \in Sessions,
           redeemed \subseteq redeemed', redeemed' \subseteq Tokens,
           ses' \in [Sessions -> Handler],
           \A r \in Sessions \ {s} : ses'[r] = ses[r],
           HandlerOK(ses[s])',
           ses'[s].vm \in {NoVm, ses[s].vm} \/ ses'[s].vm \notin used,
           ses'[s].pc \in Paying =>
               ses'[s].token \notin redeemed
               \/ (ses[s].pc \in Paying /\ ses'[s].token = ses[s].token)
    PROVE  SesInv'
<1>1. \A r \in Sessions : HandlerOK(ses[r])'
  BY StillOK DEF SesInv
<1>2. \A r \in Sessions : /\ ses[r].vm # NoVm => ses[r].vm \in used
                          /\ ses[r].pc \in Paying => ses[r].token \in redeemed
  BY DEF SesInv, HandlerOK
<1>3. OneOwner'
  BY <1>2 DEF SesInv, OneOwner
<1>4. QED
  BY <1>1, <1>3 DEF SesInv

\* What is left of a session whose handler has returned.
LEMMA ReturnedType ==
    ASSUME NEW h \in Handler
    PROVE  /\ Returned(h) \in Handler /\ Returned(h).pc = "over" /\ Returned(h).vm = NoVm
           /\ Returned(h).token = NoToken /\ Returned(h).post \in {"sent", "none"}
           /\ ~Returned(h).waited /\ Returned(h).attempts = 0
<1>1. FALSE \in BOOLEAN
  BY Zenon
<1>2. /\ Fresh \in Handler /\ Fresh.vm = NoVm /\ Fresh.token = NoToken
      /\ Fresh.attempts = 0 /\ ~Fresh.waited
  BY <1>1, GatewayAssumption DEF Fresh, Handler, Pcs
<1>3. PICK p \in {"sent", "none"} : Returned(h) = [Fresh EXCEPT !.pc = "over", !.post = p]
  BY DEF Returned
<1>4. /\ Returned(h).pc = "over" /\ Returned(h).vm = NoVm /\ Returned(h).token = NoToken
      /\ Returned(h).post = p /\ Returned(h).attempts = 0
  BY <1>2, <1>3 DEF Fresh
<1>5. Returned(h) \in Handler
  BY <1>2, <1>3 DEF Handler, Pcs
<1>6. ~Returned(h).waited
  BY <1>2, <1>3 DEF Fresh
<1>7. QED
  BY <1>4, <1>5, <1>6

LEMMA ReturnOK ==
    ASSUME HostInv, SesInv, HostSame, NEW s \in Sessions, Return(s),
           redeemed \subseteq redeemed', redeemed' \subseteq Tokens
    PROVE  SesInv' /\ ses'[s].pc = "over"
<1> DEFINE h == Returned(ses[s])
<1>1. ses[s] \in Handler
  BY DEF SesInv
<1>2. /\ h \in Handler /\ h.pc = "over" /\ h.vm = NoVm
      /\ h.post \in {"sent", "none"} /\ ~h.waited
  BY <1>1, ReturnedType
<1> HIDE DEF h
<1>3. ses' = [ses EXCEPT ![s] = h]
  BY DEF Return, h
<1>4. ses' \in [Sessions -> Handler] /\ ses'[s] = h
  BY <1>2, <1>3 DEF SesInv
<1>5. HandlerOK(ses[s])'
  BY <1>2, <1>4 DEF HandlerOK, Paying
<1>6. QED
  BY <1>2, <1>3, <1>4, <1>5, OneMoves DEF Paying

LEMMA FallbackOK ==
    ASSUME HostInv, SesInv, HostSame, NEW s \in Sessions, Fallback(s),
           ses[s].pc \in Paying, UNCHANGED redeemed
    PROVE  SesInv' /\ ses'[s].pc \in {"over", "jail"}
<1> DEFINE h == Returned(ses[s])
           g == [h EXCEPT !.pc = "jail", !.token = ses[s].token]
<1>1. ses[s] \in Handler /\ ses[s].token \in redeemed /\ redeemed \subseteq Tokens
  BY DEF SesInv, HandlerOK
<1>2. /\ h \in Handler /\ h.pc = "over" /\ h.vm = NoVm
      /\ h.post \in {"sent", "none"} /\ ~h.waited
  BY <1>1, ReturnedType
<1>3. ses' = [ses EXCEPT ![s] = IF VmFallback THEN g ELSE h]
  BY DEF Fallback
<1> HIDE DEF h
<1>4. /\ g \in Handler /\ g.pc = "jail" /\ g.vm = NoVm /\ g.token = ses[s].token
      /\ g.post \in {"sent", "none"} /\ g.waited = h.waited
  BY <1>1, <1>2 DEF Handler, Pcs
<1> HIDE DEF g
<1>5. ses' \in [Sessions -> Handler] /\ ses'[s] \in {g, h}
  BY <1>2, <1>3, <1>4 DEF SesInv
<1>6. CASE ses'[s] = h
  <2>1. HandlerOK(ses[s])'
    BY <1>2, <1>6 DEF HandlerOK, Paying
  <2>2. QED
    BY <1>1, <1>2, <1>3, <1>5, <1>6, <2>1, OneMoves DEF Paying
<1>7. CASE ses'[s] = g
  <2>1. HandlerOK(ses[s])'
    BY <1>1, <1>2, <1>4, <1>7 DEF HandlerOK, Paying
  <2>2. QED
    BY <1>1, <1>3, <1>4, <1>5, <1>7, <2>1, OneMoves DEF Paying
<1>8. QED
  BY <1>5, <1>6, <1>7

\* A handler moves with the same token and machine, not into a dial or a bridge.
LEMMA MovedOn ==
    ASSUME HostInv, SesInv, HostSame, NEW s \in Sessions,
           NEW label \in Paying \ {"posting", "dialing", "bridged"},
           ses' = [ses EXCEPT ![s].pc = label],
           ~ses[s].waited, ses[s].post # "served", ses[s].pc \in Paying,
           UNCHANGED redeemed
    PROVE  SesInv'
<1>1. ses[s] \in Handler /\ HandlerOK(ses[s]) /\ redeemed \subseteq Tokens
  BY DEF SesInv
<1>2. /\ ses' \in [Sessions -> Handler]
      /\ ses'[s].pc = label /\ ses'[s].token = ses[s].token /\ ses'[s].vm = ses[s].vm
      /\ ses'[s].waited = ses[s].waited /\ ses'[s].post = ses[s].post
      /\ \A r \in Sessions \ {s} : ses'[r] = ses[r]
  BY <1>1 DEF SesInv, Handler, Pcs, Paying
<1>3. HandlerOK(ses[s])'
  BY <1>1, <1>2 DEF HandlerOK, HostSame, Handler, Paying
<1>4. QED
  BY <1>1, <1>2, <1>3, OneMoves

\* What is known of a session outside of its dial attempts.
LEMMA NotDialing ==
    ASSUME SesInv, NEW s \in Sessions, ses[s].pc \in Pcs \ {"posting", "dialing"}
    PROVE  ~ses[s].waited /\ ses[s].post # "served"
BY DEF SesInv, HandlerOK

LEMMA VerifySes ==
    ASSUME HostInv, SesInv, HostSame, NEW s \in Sessions, NEW t \in Tokens, Verify(s, t)
    PROVE  SesInv'
<1>1. ses[s].pc = "idle" /\ HandlerOK(ses[s]) /\ UNCHANGED redeemed /\ redeemed \subseteq Tokens
  BY DEF SesInv, Verify
<1>2. ses[s] \in Handler /\ ~ses[s].waited /\ ses[s].post # "served"
  BY <1>1, NotDialing DEF SesInv, Pcs
<1>3. /\ ses' \in [Sessions -> Handler]
      /\ ses'[s].pc = "verified" /\ ses'[s].token = t /\ ses'[s].vm = ses[s].vm
      /\ ses'[s].waited = ses[s].waited /\ ses'[s].post = ses[s].post
      /\ ses'[s].attempts = ses[s].attempts
      /\ \A r \in Sessions \ {s} : ses'[r] = ses[r]
  BY <1>2 DEF Verify, SesInv, Handler, Pcs
<1>4. HandlerOK(ses[s])'
  BY <1>1, <1>2, <1>3 DEF HandlerOK, HostSame, Handler, Paying
<1>5. QED
  BY <1>1, <1>3, <1>4, OneMoves DEF Paying

LEMMA RedeemSes ==
    ASSUME HostInv, SesInv, HostSame, NEW s \in Sessions, Redeem(s)
    PROVE  SesInv'
<1>1. /\ ses[s].pc = "verified" /\ HandlerOK(ses[s]) /\ redeemed \subseteq Tokens
      /\ redeemed' = redeemed \cup {ses[s].token} /\ ses[s].token \notin redeemed
  BY DEF SesInv, Redeem, Redeems
<1>2. ses[s] \in Handler /\ ~ses[s].waited /\ ses[s].token \in Tokens
  BY <1>1, NotDialing DEF SesInv, Pcs, HandlerOK
<1>3. /\ ses' \in [Sessions -> Handler]
      /\ ses'[s].pc = "posting" /\ ses'[s].token = ses[s].token /\ ses'[s].vm = ses[s].vm
      /\ ses'[s].waited = ses[s].waited /\ ses'[s].post = "sent" /\ ses'[s].attempts = ses[s].attempts
      /\ \A r \in Sessions \ {s} : ses'[r] = ses[r]
  BY <1>2 DEF Redeem, SesInv, Handler, Pcs
<1>4. ses[s].attempts = 0
  BY <1>1 DEF HandlerOK
<1>5. HandlerOK(ses[s])'
  BY <1>1, <1>2, <1>3, <1>4 DEF HandlerOK, HostSame, Handler, Paying
<1>6. QED
  BY <1>1, <1>2, <1>3, <1>5, OneMoves

\* The machine of a POST that is answered has all of its lifetime before it.
LEMMA ServeSes ==
    ASSUME HostInv, SesInv, HostSame, NEW s \in Sessions, NEW v \in Vms, Serve(s, v)
    PROVE  SesInv'
<1>1. /\ HandlerOK(ses[s]) /\ redeemed \subseteq Tokens /\ UNCHANGED redeemed
      /\ ses[s].post = "sent" /\ ses[s] \in Handler
  BY DEF SesInv, Serve
<1>2. PICK result \in {"served", "failed"} :
          /\ Served(s, v, result)
          /\ result = "served" => createVM(v, TTLSeconds)
  BY DEF Serve
<1>3. /\ ses' \in [Sessions -> Handler]
      /\ ses'[s].pc = ses[s].pc /\ ses'[s].token = ses[s].token
      /\ ses'[s].waited = ses[s].waited /\ ses'[s].attempts = ses[s].attempts
      /\ ses'[s].endsAt = ses[s].endsAt
      /\ ses'[s].post = IF ses[s].pc = "posting" THEN result ELSE "none"
      /\ ses'[s].vm = IF ses[s].pc = "posting" /\ result = "served" THEN v ELSE ses[s].vm
      /\ \A r \in Sessions \ {s} : ses'[r] = ses[r]
  BY <1>1, <1>2 DEF Served, SesInv, Handler
<1>4. CASE ses[s].pc = "posting" /\ result = "served"
  <2>1. v \notin used /\ v \in used' /\ v \in Vms
    BY <1>2, <1>4 DEF createVM
  <2>2. Lasts(v, now + Paid + Margin)'
    <3>1. vms'[v].expiresAt = now + TTLSeconds /\ now' = now
      BY <1>2, <1>4 DEF createVM, HostInv, HostTypeOK
    <3>2. now \in Nat /\ Paid \in Nat /\ Margin \in Nat
      BY VmHostAssumption, GatewayAssumption DEF HostInv, HostTypeOK
    <3>3. QED
      BY <3>1, <3>2 DEF Lasts, TTLSeconds
  <2>3. HandlerOK(ses[s])'
    BY <1>1, <1>3, <1>4, <2>1, <2>2 DEF HandlerOK, Handler, Paying
  <2>4. QED
    BY <1>1, <1>3, <1>4, <2>1, <2>3, OneMoves
<1>5. CASE ~(ses[s].pc = "posting" /\ result = "served")
  <2>1. ses'[s].vm = ses[s].vm /\ ses'[s].post # "served"
    BY <1>2, <1>3, <1>5
  <2>2. ses'[s].vm \in Known' => ses[s].vm \in Known /\ vms'[ses'[s].vm] = vms[ses[s].vm]
    <3>1. NoVm \notin Known'
      BY VmHostAssumption DEF Known
    <3>2. QED
      BY <1>1, <2>1, <3>1 DEF HandlerOK, HostSame
  <2>3. HandlerOK(ses[s])'
    BY <1>1, <1>3, <2>1, <2>2 DEF HandlerOK, HostSame, Handler, Lasts
  <2>4. QED
    BY <1>1, <1>3, <2>1, <2>3, OneMoves
<1>6. QED
  BY <1>4, <1>5

LEMMA AnswerSes ==
    ASSUME HostInv, SesInv, HostSame, NEW s \in Sessions, Answer(s)
    PROVE  SesInv' /\ ses'[s].pc \in {"dialing", "over", "jail"}
<1>1. /\ HandlerOK(ses[s]) /\ redeemed \subseteq Tokens /\ UNCHANGED redeemed
      /\ ses[s].pc = "posting" /\ ses[s] \in Handler /\ UNCHANGED hostVars
  BY DEF SesInv, Answer
<1>2. CASE ses[s].post = "served" /\ ses' = [ses EXCEPT ![s].pc = "dialing", ![s].post = "none"]
  <2>1. /\ ses' \in [Sessions -> Handler]
        /\ ses'[s].pc = "dialing" /\ ses'[s].token = ses[s].token /\ ses'[s].vm = ses[s].vm
        /\ ses'[s].waited = ses[s].waited /\ ses'[s].attempts = 0 /\ ses'[s].post = "none"
        /\ \A r \in Sessions \ {s} : ses'[r] = ses[r]
    BY <1>1, <1>2 DEF SesInv, HandlerOK, Handler, Pcs
  <2>2. ~ses[s].waited /\ Lasts(ses[s].vm, now + Paid + Margin)
    BY <1>1, <1>2 DEF HandlerOK
  <2>3. Lasts(ses[s].vm, now + Paid + Margin - 0 - 0)'
    <3>1. now \in Nat /\ Paid \in Nat /\ Margin \in Nat
      BY VmHostAssumption, GatewayAssumption DEF HostInv, HostTypeOK
    <3>2. QED
      BY <1>1, <2>1, <2>2, <3>1 DEF Lasts, hostVars, Known
  <2>4. HandlerOK(ses[s])'
    BY <1>1, <2>1, <2>2, <2>3, GatewayAssumption DEF HandlerOK, Handler, Paying, hostVars
  <2>5. QED
    BY <1>1, <2>1, <2>4, OneMoves DEF Paying
<1>3. CASE Fallback(s)
  BY <1>1, <1>3, FallbackOK DEF Paying
<1>4. QED
  BY <1>2, <1>3 DEF Answer

\* The paid time begins before the machine's spare minute is used up.
LEMMA DialSes ==
    ASSUME HostInv, SesInv, HostSame, NEW s \in Sessions, Dial(s)
    PROVE  SesInv' /\ ses'[s].pc = "bridged"
<1>1. /\ HandlerOK(ses[s]) /\ redeemed \subseteq Tokens /\ UNCHANGED redeemed
      /\ ses[s].pc = "dialing" /\ ses[s] \in Handler /\ UNCHANGED hostVars
  BY DEF SesInv, Dial
<1>2. now \in Nat /\ Paid \in Nat /\ Margin \in Nat /\ MaxAttempts \in Nat /\ MaxAttempts < Margin
  BY VmHostAssumption, GatewayAssumption DEF HostInv, HostTypeOK
<1>3. FALSE \in BOOLEAN /\ now + Paid \in Nat
  BY <1>2
<1>4. /\ ses' \in [Sessions -> Handler]
      /\ ses'[s].pc = "bridged" /\ ses'[s].token = ses[s].token /\ ses'[s].vm = ses[s].vm
      /\ ~ses'[s].waited /\ ses'[s].post = ses[s].post /\ ses'[s].endsAt = now + Paid
      /\ \A r \in Sessions \ {s} : ses'[r] = ses[r]
  <2> DEFINE g == [ses[s] EXCEPT !.pc = "bridged", !.endsAt = now + Paid]
             k == [g EXCEPT !.attempts = 0]
             h == [k EXCEPT !.waited = FALSE]
  <2>1. ses' = [ses EXCEPT ![s] = h]
    BY DEF Dial, SesInv
  <2>2. /\ g \in Handler /\ g.pc = "bridged" /\ g.endsAt = now + Paid
        /\ g.token = ses[s].token /\ g.vm = ses[s].vm /\ g.post = ses[s].post
    BY <1>1, <1>3 DEF Handler, Pcs
  <2> HIDE DEF g
  <2>3. /\ k \in Handler /\ k.pc = "bridged" /\ k.endsAt = now + Paid
        /\ k.token = ses[s].token /\ k.vm = ses[s].vm /\ k.post = ses[s].post
    BY <1>2, <2>2 DEF Handler
  <2> HIDE DEF k
  <2>4. /\ h \in Handler /\ h.pc = "bridged" /\ h.endsAt = now + Paid /\ ~h.waited
        /\ h.token = ses[s].token /\ h.vm = ses[s].vm /\ h.post = ses[s].post
    BY <1>3, <2>3 DEF Handler
  <2> HIDE DEF h
  <2>5. QED
    BY <2>1, <2>4 DEF SesInv
<1>5. Lasts(ses[s].vm, now + Paid)
  <2> SUFFICES ASSUME ses[s].vm \in Known PROVE vms[ses[s].vm].expiresAt >= now + Paid
    BY DEF Lasts
  <2>1. /\ ses[s].attempts \in Nat /\ ses[s].attempts < MaxAttempts
        /\ vms[ses[s].vm].expiresAt
               >= now + Paid + Margin - ses[s].attempts - (IF ses[s].waited THEN 1 ELSE 0)
    BY <1>1 DEF HandlerOK, Lasts, Handler
  <2>2. vms[ses[s].vm].expiresAt \in Nat
    BY DEF HostInv, HostTypeOK, Known, VM
  <2>3. QED
    BY <1>2, <2>1, <2>2
<1>6. HandlerOK(ses[s])'
  BY <1>1, <1>4, <1>5 DEF HandlerOK, Handler, Paying, Lasts, hostVars, Known
<1>7. QED
  BY <1>1, <1>4, <1>6, OneMoves DEF Paying

LEMMA DialFailsSes ==
    ASSUME HostInv, SesInv, HostSame, NEW s \in Sessions, DialFails(s)
    PROVE  SesInv' /\ ses'[s].pc \in {"dialing", "giveup"}
<1>1. /\ HandlerOK(ses[s]) /\ redeemed \subseteq Tokens /\ UNCHANGED redeemed
      /\ ses[s].pc = "dialing" /\ ses[s] \in Handler /\ UNCHANGED hostVars
  BY DEF SesInv, DialFails
<1>2. now \in Nat /\ Paid \in Nat /\ Margin \in Nat /\ MaxAttempts \in Nat
  BY VmHostAssumption, GatewayAssumption DEF HostInv, HostTypeOK
<1>3. ses[s].attempts \in 0..MaxAttempts /\ ses[s].attempts < MaxAttempts
  BY <1>1 DEF HandlerOK, Handler
<1>4. FALSE \in BOOLEAN /\ ses[s].attempts + 1 \in 0..MaxAttempts
  BY <1>2, <1>3
<1>5. /\ ses' \in [Sessions -> Handler]
      /\ ses'[s].pc = IF ses[s].attempts + 1 = MaxAttempts THEN "giveup" ELSE "dialing"
      /\ ses'[s].token = ses[s].token /\ ses'[s].vm = ses[s].vm
      /\ ~ses'[s].waited /\ ses'[s].post = ses[s].post
      /\ ses'[s].attempts = ses[s].attempts + 1
      /\ \A r \in Sessions \ {s} : ses'[r] = ses[r]
  BY <1>1, <1>4 DEF DialFails, SesInv, Handler, Pcs
<1>6. Lasts(ses[s].vm, now + Paid + Margin - (ses[s].attempts + 1) - 0)
  <2> SUFFICES ASSUME ses[s].vm \in Known
               PROVE  vms[ses[s].vm].expiresAt >= now + Paid + Margin - (ses[s].attempts + 1) - 0
    BY DEF Lasts
  <2>1. vms[ses[s].vm].expiresAt
            >= now + Paid + Margin - ses[s].attempts - (IF ses[s].waited THEN 1 ELSE 0)
    BY <1>1 DEF HandlerOK, Lasts
  <2>2. vms[ses[s].vm].expiresAt \in Nat
    BY DEF HostInv, HostTypeOK, Known, VM
  <2>3. QED
    BY <1>2, <1>3, <2>1, <2>2
<1>7. HandlerOK(ses[s])'
  <2>1. CASE ses[s].attempts + 1 = MaxAttempts
    BY <1>1, <1>5, <2>1 DEF HandlerOK, Handler, Paying, hostVars
  <2>2. CASE ses[s].attempts + 1 # MaxAttempts
    <3>1. ses'[s].attempts < MaxAttempts
      BY <1>2, <1>3, <1>5, <2>2
    <3>2. QED
      BY <1>1, <1>5, <1>6, <2>2, <3>1 DEF HandlerOK, Handler, Paying, Lasts, hostVars, Known
  <2>3. QED
    BY <2>1, <2>2
<1>8. QED
  BY <1>1, <1>5, <1>7, OneMoves DEF Paying

\* The gateway exits: what is left of any session is a POST on its way.
LEMMA ExitSes ==
    ASSUME HostInv, SesInv, HostSame, GatewayExit
    PROVE  SesInv' /\ \A s \in Sessions : ses'[s].pc \in {"idle", "over"}
<1> DEFINE h(s) == IF ses[s].pc = "idle" THEN Fresh ELSE Returned(ses[s])
<1>1. FALSE \in BOOLEAN
  BY Zenon
<1>2. /\ Fresh \in Handler /\ Fresh.vm = NoVm /\ Fresh.attempts = 0 /\ ~Fresh.waited
      /\ Fresh.pc = "idle" /\ Fresh.post = "none"
  BY <1>1, GatewayAssumption DEF Fresh, Handler, Pcs
<1>3. ASSUME NEW s \in Sessions
      PROVE  /\ h(s) \in Handler /\ h(s).pc \in {"idle", "over"} /\ h(s).vm = NoVm
             /\ h(s).post \in {"sent", "none"} /\ ~h(s).waited /\ h(s).attempts = 0
  BY <1>2, ReturnedType DEF SesInv
<1>4. ses' = [s \in Sessions |-> h(s)] /\ UNCHANGED redeemed
  BY DEF GatewayExit
<1> HIDE DEF h
<1>5. ses' \in [Sessions -> Handler] /\ \A s \in Sessions : ses'[s] = h(s)
  BY <1>3, <1>4
<1>6. ASSUME NEW s \in Sessions PROVE HandlerOK(ses[s])'
  BY <1>3, <1>5 DEF HandlerOK, Paying
<1>7. OneOwner'
  BY <1>3, <1>5 DEF OneOwner, Paying
<1>8. QED
  BY <1>3, <1>4, <1>5, <1>6, <1>7 DEF SesInv

\* A tick in a dial attempt is noted there, so that no second one follows.
LEMMA TickSes ==
    ASSUME HostInv, SesInv, Tick
    PROVE  /\ SesInv'
           /\ \A s \in Sessions : ses'[s].pc = ses[s].pc /\ ses'[s].token = ses[s].token
<1>1. /\ now \in Nat /\ Paid \in Nat /\ Margin \in Nat /\ MaxAttempts \in Nat
      /\ now' = now + 1
  BY VmHostAssumption, GatewayAssumption DEF HostInv, HostTypeOK, Tick
<1>2. /\ UNCHANGED <<vms, used, redeemed>> /\ Known' = Known
      /\ \A s \in Sessions : ~ses[s].waited /\ ses[s].post # "served"
  BY DEF Tick, Known
<1>3. ASSUME NEW s \in Sessions
      PROVE  /\ ses'[s] \in Handler /\ ses'[s].pc = ses[s].pc
             /\ ses'[s].token = ses[s].token /\ ses'[s].vm = ses[s].vm
             /\ ses'[s].post = ses[s].post /\ ses'[s].attempts = ses[s].attempts
             /\ ses'[s].endsAt = ses[s].endsAt
             /\ ses'[s].waited => ses[s].pc = "dialing"
  <2> DEFINE b == ses[s].pc = "dialing"
             g == ses[s]
             h == [g EXCEPT !.waited = b]
  <2>1. ses'[s] = h /\ g \in Handler
    BY DEF Tick, SesInv
  <2>2. b \in BOOLEAN
    BY Zenon
  <2> HIDE DEF b, g
  <2>3. h \in Handler
    BY <2>1, <2>2 DEF Handler
  <2>4. h.pc = g.pc /\ h.token = g.token /\ h.vm = g.vm /\ h.post = g.post
        /\ h.attempts = g.attempts /\ h.endsAt = g.endsAt
    BY <2>1 DEF Handler
  <2>5. h.waited = b
    BY <2>1 DEF Handler
  <2>6. QED
    BY <2>1, <2>3, <2>4, <2>5 DEF b, g
<1>4. ses' \in [Sessions -> Handler]
  <2>1. ses' = [s \in Sessions |-> ses'[s]]
    BY DEF Tick
  <2>2. QED
    BY <1>3, <2>1
<1>5. ASSUME NEW s \in Sessions PROVE HandlerOK(ses[s])'
  <2>1. HandlerOK(ses[s])
    BY DEF SesInv
  <2>2. ASSUME ses[s].pc = "dialing"
        PROVE  Lasts(ses[s].vm, now + Paid + Margin - ses[s].attempts
                                    - (IF ses[s].waited THEN 1 ELSE 0))'
    <3> SUFFICES ASSUME ses[s].vm \in Known
                 PROVE  vms[ses[s].vm].expiresAt
                            >= now' + Paid + Margin - ses[s].attempts - (IF ses'[s].waited THEN 1 ELSE 0)
      BY <1>2, <1>3 DEF Lasts
    <3>1. vms[ses[s].vm].expiresAt >= now + Paid + Margin - ses[s].attempts - 0
      BY <1>2, <2>1, <2>2 DEF HandlerOK, Lasts
    <3>2. ses'[s].waited
      BY <2>2 DEF Tick, SesInv, Handler
    <3>3. vms[ses[s].vm].expiresAt \in Nat /\ ses[s].attempts \in Nat
      BY <2>1 DEF HostInv, HostTypeOK, Known, VM, HandlerOK, Handler
    <3>4. QED
      BY <1>1, <3>1, <3>2, <3>3
  <2>3. QED
    BY <1>2, <1>3, <2>1, <2>2 DEF HandlerOK, Lasts
<1>6. OneOwner'
  BY <1>3 DEF SesInv, OneOwner
<1>7. QED
  BY <1>2, <1>3, <1>4, <1>5, <1>6 DEF SesInv

\* Every step keeps the sessions in order.
LEMMA SesStep == HostInv /\ SesInv /\ [Next]_vars => SesInv'
<1> SUFFICES ASSUME HostInv, SesInv, [Next]_vars PROVE SesInv'
  OBVIOUS
<1>1. ASSUME now' = now PROVE HostSame
  BY <1>1, HostSameHolds
<1>2. ASSUME HostSame, UNCHANGED gatewayVars PROVE SesInv'
  <2>1. \A s \in Sessions : HandlerOK(ses[s])'
    BY <1>2, StillOK DEF SesInv, gatewayVars
  <2>2. QED
    BY <1>2, <2>1 DEF SesInv, gatewayVars, OneOwner
<1>3. CASE hostNext /\ UNCHANGED gatewayVars
  <2>1. now' = now
    BY <1>3 DEF hostNext, ttlElapsed, vmExits, watchExit, reap, destroyAllVMs, destroyVM,
                fcdExit, fcdStart, Teardown
  <2>2. QED
    BY <1>1, <1>2, <1>3, <2>1
<1>4. ASSUME NEW v \in Vms, DirectPost(v) PROVE SesInv'
  <2>1. now' = now /\ UNCHANGED ses
    BY <1>4 DEF DirectPost, createVM, createFails, hostVars
  <2>2. redeemed \subseteq redeemed' /\ redeemed' \subseteq Tokens
    BY <1>4 DEF DirectPost, SesInv
  <2>3. \A s \in Sessions : HandlerOK(ses[s])'
    BY <1>1, <2>1, <2>2, StillOK DEF SesInv
  <2>4. QED
    BY <2>1, <2>2, <2>3 DEF SesInv, OneOwner
<1>5. ASSUME NEW v \in Vms, NEW s \in Sessions, Serve(s, v) PROVE SesInv'
  <2>1. now' = now
    BY <1>5 DEF Serve, createVM, createFails
  <2>2. QED
    BY <1>1, <1>5, <2>1, ServeSes
<1>6. ASSUME NEW s \in Sessions,
             \/ \E t \in Tokens : Verify(s, t)
             \/ Redeem(s) \/ Answer(s) \/ Dial(s) \/ DialFails(s)
      PROVE  SesInv'
  <2>1. now' = now
    BY <1>6 DEF Verify, Redeem, Answer, Dial, DialFails, hostVars
  <2>2. QED
    BY <1>1, <1>6, <2>1, VerifySes, RedeemSes, AnswerSes, DialSes, DialFailsSes
<1>7. ASSUME NEW s \in Sessions, Reject(s) PROVE SesInv'
  <2>1. now' = now /\ Return(s) /\ redeemed \subseteq redeemed'
    BY <1>7 DEF Reject, hostVars
  <2>2. redeemed' \subseteq Tokens
    BY <1>7 DEF Reject, SesInv, HandlerOK
  <2>3. QED
    BY <1>1, <2>1, <2>2, ReturnOK
<1>8. ASSUME NEW s \in Sessions, BridgeEnds(s) PROVE SesInv'
  <2>1. now' = now /\ UNCHANGED redeemed /\ ~ses[s].waited /\ ses[s].post # "served"
    BY <1>8, NotDialing DEF BridgeEnds, hostVars, Pcs
  <2>2. QED
    BY <1>1, <1>8, <2>1, MovedOn DEF BridgeEnds, Goto, Paying
<1>9. ASSUME NEW s \in Sessions, Delete(s) PROVE SesInv'
  <2>1. now' = now /\ UNCHANGED redeemed
    BY <1>9 DEF Delete, destroyVM, Teardown, hostVars
  <2>2. redeemed' \subseteq Tokens
    BY <2>1 DEF SesInv
  <2>3. QED
    BY <1>1, <1>9, <2>1, <2>2, ReturnOK, FallbackOK DEF Delete, Paying
<1>10. ASSUME NEW s \in Sessions, CreateJail(s) \/ StartShell(s) \/ ShellEnds(s) PROVE SesInv'
  <2>1. /\ now' = now /\ UNCHANGED redeemed /\ ses[s].pc \in {"jail", "starting", "shell"}
        /\ Goto(s, "starting") \/ Goto(s, "shell") \/ Return(s)
    BY <1>10 DEF CreateJail, StartShell, ShellEnds, hostVars
  <2>2. ~ses[s].waited /\ ses[s].post # "served" /\ redeemed' \subseteq Tokens
    BY <2>1, NotDialing DEF Pcs, SesInv
  <2>3. QED
    BY <1>1, <2>1, <2>2, MovedOn, ReturnOK DEF Goto, Paying
<1>11. CASE GatewayExit
  BY <1>1, <1>11, ExitSes DEF GatewayExit, hostVars
<1>12. CASE Tick
  BY <1>12, TickSes
<1>13. CASE UNCHANGED vars
  BY <1>1, <1>2, <1>13 DEF vars, hostVars
<1>14. QED
  BY <1>3, <1>4, <1>5, <1>6, <1>7, <1>8, <1>9, <1>10, <1>11, <1>12, <1>13 DEF Next

-----------------------------------------------------------------------------
(* The jails.                                                              *)

Jailed == {s \in Sessions : ses[s].pc \in {"starting", "shell"}}

\* JailInv said with Jailed; that two jailed sessions have two tokens is OneOwner.
LEMMA JailInvForm ==
    ASSUME SesInv
    PROVE  JailInv <=>
               /\ jails \subseteq redeemed /\ litter \subseteq redeemed
               /\ \A s \in Jailed : ses[s].token \in jails
               /\ \A t \in jails \ litter : \E s \in Jailed : ses[s].token = t
<1>1. \A s, r \in Jailed : ses[s].token = ses[r].token => s = r
  BY DEF SesInv, OneOwner, Jailed, Paying
<1>2. QED
  BY <1>1 DEF JailInv, JailsMatchSessions, Jailed

LEMMA JailStep == HostInv /\ SesInv /\ JailInv /\ SesInv' /\ [Next]_vars => JailInv'
<1> SUFFICES ASSUME HostInv, SesInv, JailInv, SesInv', [Next]_vars PROVE JailInv'
  OBVIOUS
<1> DEFINE Form ==
        /\ jails \subseteq redeemed /\ litter \subseteq redeemed
        /\ \A s \in Jailed : ses[s].token \in jails
        /\ \A t \in jails \ litter : \E s \in Jailed : ses[s].token = t
<1>1. Form
  BY JailInvForm
<1>2. JailInv' <=> Form'
  BY JailInvForm, PTL
<1> SUFFICES Form'
  BY <1>2
\* No jail is made or removed, and no jailed session moves.
<1>3. ASSUME UNCHANGED <<jails, litter>>, redeemed \subseteq redeemed',
             \A s \in Sessions : \/ ses'[s].pc = ses[s].pc /\ ses'[s].token = ses[s].token
                                 \/ s \notin Jailed /\ s \notin Jailed'
      PROVE  Form'
  BY <1>1, <1>3 DEF Jailed
<1>4. ASSUME NEW s \in Sessions, UNCHANGED <<jails, litter>>, redeemed \subseteq redeemed',
             ses[s].pc \notin {"starting", "shell"}, ses'[s].pc \notin {"starting", "shell"},
             \A r \in Sessions \ {s} : ses'[r] = ses[r]
      PROVE  Form'
  BY <1>3, <1>4 DEF Jailed
<1>5. ASSUME NEW s \in Sessions, NEW h, ses' = [ses EXCEPT ![s] = h]
      PROVE  ses'[s] = h /\ \A r \in Sessions \ {s} : ses'[r] = ses[r]
  BY <1>5 DEF SesInv
<1>6. ASSUME NEW s \in Sessions, Return(s)
      PROVE  ses'[s].pc = "over" /\ \A r \in Sessions \ {s} : ses'[r] = ses[r]
  <2>1. ses[s] \in Handler
    BY DEF SesInv
  <2>2. Returned(ses[s]).pc = "over"
    BY <2>1, ReturnedType
  <2>3. QED
    BY <1>5, <1>6, <2>2 DEF Return
<1>7. ASSUME NEW s \in Sessions, Fallback(s)
      PROVE  ses'[s].pc \in {"over", "jail"} /\ \A r \in Sessions \ {s} : ses'[r] = ses[r]
  <2> DEFINE h == Returned(ses[s])
             g == [h EXCEPT !.pc = "jail", !.token = ses[s].token]
  <2>1. ses[s] \in Handler
    BY DEF SesInv
  <2>2. h \in Handler /\ h.pc = "over"
    BY <2>1, ReturnedType
  <2>3. ses' = [ses EXCEPT ![s] = IF VmFallback THEN g ELSE h]
    BY <1>7 DEF Fallback
  <2> HIDE DEF h
  <2>4. g.pc = "jail"
    BY <2>2 DEF Handler
  <2> HIDE DEF g
  <2>5. QED
    BY <1>5, <2>2, <2>3, <2>4
<1>8. ASSUME NEW s \in Sessions, NEW label, Goto(s, label)
      PROVE  /\ ses'[s].pc = label /\ ses'[s].token = ses[s].token
             /\ \A r \in Sessions \ {s} : ses'[r] = ses[r]
  BY <1>8 DEF Goto, SesInv, Handler
<1>9. CASE (hostNext /\ UNCHANGED gatewayVars) \/ (\E v \in Vms : DirectPost(v)) \/ UNCHANGED vars
  BY <1>3, <1>9 DEF DirectPost, gatewayVars, vars
<1>10. ASSUME NEW s \in Sessions, NEW v \in Vms, Serve(s, v) PROVE Form'
  <2>1. \A r \in Sessions : ses'[r].pc = ses[r].pc /\ ses'[r].token = ses[r].token
    BY <1>10 DEF Serve, Served, SesInv, Handler
  <2>2. QED
    BY <1>3, <1>10, <2>1 DEF Serve
<1>11. ASSUME NEW s \in Sessions,
              \/ \E t \in Tokens : Verify(s, t)
              \/ Redeem(s) \/ Dial(s) \/ DialFails(s)
       PROVE  Form'
  <2>1. /\ ses[s].pc \in {"idle", "verified", "dialing"}
        /\ ses'[s].pc \in {"verified", "posting", "bridged", "dialing", "giveup"}
        /\ \A r \in Sessions \ {s} : ses'[r] = ses[r]
    BY <1>11 DEF Verify, Redeem, Dial, DialFails, SesInv, Handler
  <2>2. UNCHANGED <<jails, litter>> /\ redeemed \subseteq redeemed'
    BY <1>11 DEF Verify, Redeem, Dial, DialFails
  <2>3. QED
    BY <1>4, <2>1, <2>2
<1>12. ASSUME NEW s \in Sessions, Answer(s) PROVE Form'
  <2>1. CASE ses' = [ses EXCEPT ![s].pc = "dialing", ![s].post = "none"]
    <3>1. ses'[s].pc = "dialing" /\ \A r \in Sessions \ {s} : ses'[r] = ses[r]
      BY <2>1 DEF SesInv, Handler
    <3>2. QED
      BY <1>4, <1>12, <3>1 DEF Answer
  <2>2. CASE Fallback(s)
    BY <1>4, <1>7, <1>12, <2>2 DEF Answer
  <2>3. QED
    BY <1>12, <2>1, <2>2 DEF Answer
<1>13. ASSUME NEW s \in Sessions, Reject(s) \/ BridgeEnds(s) \/ Delete(s) PROVE Form'
  <2>1. /\ ses[s].pc \in {"idle", "verified", "bridged", "closing", "giveup"}
        /\ UNCHANGED <<jails, litter>> /\ redeemed \subseteq redeemed'
        /\ Return(s) \/ Fallback(s) \/ Goto(s, "closing")
    BY <1>13 DEF Reject, BridgeEnds, Delete
  <2>2. /\ ses'[s].pc \in {"over", "jail", "closing"}
        /\ \A r \in Sessions \ {s} : ses'[r] = ses[r]
    BY <1>6, <1>7, <1>8, <2>1
  <2>3. QED
    BY <1>4, <2>1, <2>2
<1>14. ASSUME NEW s \in Sessions, CreateJail(s) PROVE Form'
  <2>1. ses[s].pc = "jail" /\ s \notin Jailed /\ UNCHANGED redeemed /\ ses[s].token \in redeemed
    BY <1>14 DEF CreateJail, Jailed, SesInv, HandlerOK, Paying
  <2>2. CASE UNCHANGED <<jails, litter>> /\ Return(s)
    BY <1>4, <1>6, <2>1, <2>2
  <2>3. CASE jails' = jails \cup {ses[s].token} /\ litter' = litter \cup {ses[s].token} /\ Return(s)
    <3>1. Jailed' = Jailed /\ \A r \in Jailed : ses'[r] = ses[r]
      BY <1>6, <2>1, <2>3 DEF Jailed
    <3>2. QED
      BY <1>1, <2>1, <2>3, <3>1
  <2>4. CASE jails' = jails \cup {ses[s].token} /\ UNCHANGED litter /\ Goto(s, "starting")
    <3>1. Jailed' = Jailed \cup {s} /\ \A r \in Jailed' : ses'[r].token = ses[r].token
      BY <1>8, <2>1, <2>4 DEF Jailed
    <3>2. QED
      BY <1>1, <2>1, <2>4, <3>1
  <2>5. QED
    BY <1>14, <2>2, <2>3, <2>4 DEF CreateJail
<1>15. ASSUME NEW s \in Sessions, StartShell(s) \/ ShellEnds(s) PROVE Form'
  <2>1. /\ s \in Jailed /\ UNCHANGED redeemed
        /\ \/ Goto(s, "shell") /\ UNCHANGED <<jails, litter>>
           \/ Return(s) /\ cleanupJail(s)
    BY <1>15 DEF StartShell, ShellEnds, Jailed
  <2>2. CASE Goto(s, "shell") /\ UNCHANGED <<jails, litter>>
    <3>1. Jailed' = Jailed /\ \A r \in Jailed : ses'[r].token = ses[r].token
      BY <1>8, <2>1, <2>2 DEF Jailed
    <3>2. QED
      BY <1>1, <2>1, <2>2, <3>1
  <2>3. CASE Return(s) /\ cleanupJail(s)
    <3>1. Jailed' = Jailed \ {s} /\ \A r \in Jailed' : ses'[r] = ses[r]
      BY <1>6, <2>3 DEF Jailed
    <3>2. \A r \in Jailed \ {s} : ses[r].token # ses[s].token
      BY <2>1 DEF SesInv, OneOwner, Jailed, Paying
    <3>3. CASE jails' = jails \ {ses[s].token} /\ UNCHANGED litter
      BY <1>1, <2>1, <3>1, <3>2, <3>3
    <3>4. CASE UNCHANGED jails /\ litter' = litter \cup {ses[s].token}
      <4>1. ses[s].token \in redeemed
        BY <1>1, <2>1
      <4>2. QED
        BY <1>1, <2>1, <3>1, <3>4, <4>1
    <3>5. QED
      BY <2>3, <3>3, <3>4 DEF cleanupJail
  <2>4. QED
    BY <2>1, <2>2, <2>3
<1>16. CASE GatewayExit
  <2>1. \A s \in Sessions : ses'[s].pc \in {"idle", "over"}
    BY <1>16, ExitSes, HostSameHolds DEF GatewayExit, hostVars
  <2>2. Jailed' = {} /\ litter' = litter \cup jails /\ UNCHANGED <<redeemed, jails>>
    BY <1>16, <2>1 DEF GatewayExit, Jailed
  <2>3. QED
    BY <1>1, <2>2
<1>17. CASE Tick
  BY <1>3, <1>17, TickSes DEF Tick
<1>18. QED
  BY <1>9, <1>10, <1>11, <1>12, <1>13, <1>14, <1>15, <1>16, <1>17 DEF Next

-----------------------------------------------------------------------------
(* The theorems.                                                           *)

\* The inductive invariant.
IInv == HostInv /\ SesInv /\ JailInv

LEMMA InitIInv == Init => IInv
<1> SUFFICES ASSUME Init PROVE IInv
  OBVIOUS
<1>1. Known = {}
  BY DEF Init, HostInit, Known
<1>2. HostInv
  BY <1>1, VmHostAssumption
     DEF Init, HostInit, HostInv, HostTypeOK, HostMatchesTable, AddressesApart
<1>3. FALSE \in BOOLEAN
  BY Zenon
<1>4. /\ Fresh \in Handler /\ Fresh.vm = NoVm /\ Fresh.attempts = 0 /\ ~Fresh.waited
      /\ Fresh.pc = "idle" /\ Fresh.post = "none"
  BY <1>3, GatewayAssumption DEF Fresh, Handler, Pcs
<1>5. ses \in [Sessions -> Handler] /\ redeemed = {} /\ \A s \in Sessions : ses[s] = Fresh
  BY <1>4 DEF Init
<1>6. HandlerOK(Fresh)
  BY <1>4 DEF HandlerOK, Paying
<1>7. OneOwner
  BY <1>4, <1>5 DEF OneOwner, Paying
<1>8. SesInv
  BY <1>5, <1>6, <1>7 DEF SesInv
<1>9. JailInv
  BY <1>4, <1>5 DEF Init, JailInv, JailsMatchSessions
<1>10. QED
  BY <1>2, <1>8, <1>9 DEF IInv

LEMMA NextIInv == IInv /\ [Next]_vars => IInv'
BY HostStep, SesStep, JailStep DEF IInv

LEMMA Inductive == Spec => []IInv
BY InitIInv, NextIInv, PTL DEF Spec

\* Every variable of the gateway and of the micro-VM daemon keeps its type.
THEOREM TypeCorrect == Spec => []TypeOK
<1>1. IInv => TypeOK
  BY DEF IInv, HostInv, SesInv, JailInv, TypeOK
<1>2. QED
  BY <1>1, Inductive, PTL

\* What the host runs is what tollgate-fcd's table says, in whatever order the
\* exit watcher, the TTL goroutine, the reaper and DELETE come.  Two things are
\* excepted: what a daemon that died left behind, and a device that ip link
\* delete could not remove.
THEOREM HostMatches == Spec => []HostMatchesTable
<1>1. IInv => HostMatchesTable
  BY DEF IInv, HostInv
<1>2. QED
  BY <1>1, Inductive, PTL

\* nextVMIP gives two machines of the table one address only after it has gone
\* through all of them in between.
THEOREM AddressesStayApart == Spec => []AddressesApart
<1>1. IInv => AddressesApart
  BY DEF IInv, HostInv
<1>2. QED
  BY <1>1, Inductive, PTL

\* A jail is there for as long as its session's shell runs, and is nobody
\* else's, although sessions race with one token; a jail whose copy or removal
\* failed, or whose gateway died, can stay.
THEOREM JailsMatch == Spec => []JailsMatchSessions
<1>1. IInv => JailsMatchSessions
  BY DEF IInv, JailInv
<1>2. QED
  BY <1>1, Inductive, PTL

\* No clock of fcd stops the machine of a session that has paid time left: the
\* minute that runVMSession asks for on top outlasts the dial attempts.
LEMMA StepKeepsVm ==
    ASSUME IInv, [Next]_vars, NEW s \in Sessions,
           ses[s].pc = "bridged", now < ses[s].endsAt, ses[s].vm \in procs
    PROVE  ses[s].vm \in procs' \/ vmExits(ses[s].vm) \/ destroyAllVMs
<1> DEFINE v == ses[s].vm
<1>1. /\ Lasts(v, ses[s].endsAt) /\ ses[s].endsAt \in Nat /\ now \in Nat /\ v \in Vms /\ v # NoVm
      /\ HostTypeOK /\ OneOwner
  BY VmHostAssumption DEF IInv, HostInv, HostTypeOK, SesInv, HandlerOK, Handler
<1>2. v \in Known => vms[v].expiresAt \in Nat /\ vms[v].expiresAt > now
  <2>1. v \in Known => vms[v].expiresAt \in Nat /\ vms[v].expiresAt >= ses[s].endsAt
    BY <1>1 DEF Lasts, Known, HostTypeOK, VM
  <2>2. QED
    BY <1>1, <2>1
<1>3. ASSUME NEW w \in Vms, ttlElapsed(w) \/ vmExits(w) \/ watchExit(w)
      PROVE  v \in procs' \/ vmExits(v)
  <2> HIDE DEF v
  <2>1. CASE ttlElapsed(w)
    <3>1. w \in Known /\ vms[w].expiresAt <= now /\ procs' = procs \ {w}
      BY <1>1, <2>1 DEF ttlElapsed, destroyVM, Teardown, Known, HostTypeOK, VM
    <3>2. w # v
      BY <1>1, <1>2, <3>1
    <3>3. QED
      BY <3>1, <3>2 DEF v
  <2>2. CASE vmExits(w) /\ w # v
    BY <2>2 DEF vmExits, v
  <2>3. CASE watchExit(w)
    BY <2>3 DEF watchExit, Teardown, v
  <2>4. QED
    BY <1>3, <2>1, <2>2, <2>3
<1>4. CASE reap
  <2>1. v \notin Overdue
    BY <1>1, <1>2 DEF Overdue
  <2>2. QED
    BY <1>4, <2>1 DEF reap, Teardown
<1>5. CASE fcdExit \/ fcdStart
  BY <1>5 DEF fcdExit, fcdStart
<1>6. CASE hostNext
  BY <1>3, <1>4, <1>5, <1>6 DEF hostNext
<1>7. ASSUME NEW w \in Vms, DirectPost(w) \/ \E r \in Sessions : Serve(r, w)
      PROVE  v \in procs'
  BY <1>7 DEF DirectPost, Serve, createVM, createFails, hostVars
<1>8. ASSUME NEW r \in Sessions, Delete(r) PROVE v \in procs'
  <2>1. ses[r].vm # v
    BY <1>1, <1>8 DEF Delete, OneOwner
  <2>2. QED
    BY <1>8, <2>1 DEF Delete, destroyVM, Teardown, hostVars
<1>9. ASSUME NEW r \in Sessions,
             \/ \E t \in Tokens : Verify(r, t)
             \/ Redeem(r) \/ Reject(r) \/ Answer(r) \/ Dial(r) \/ DialFails(r)
             \/ BridgeEnds(r) \/ CreateJail(r) \/ StartShell(r) \/ ShellEnds(r)
      PROVE  UNCHANGED procs
  BY <1>9 DEF Verify, Redeem, Reject, Answer, Dial, DialFails, BridgeEnds, CreateJail,
              StartShell, ShellEnds, hostVars
<1>10. CASE GatewayExit \/ Tick \/ UNCHANGED vars
  BY <1>10 DEF GatewayExit, Tick, vars, hostVars
<1>11. QED
  BY <1>6, <1>7, <1>8, <1>9, <1>10 DEF Next

\* A session that was bridged to its machine keeps it until its paid time is
\* over, unless the machine stops by itself or the daemon stops all of them.
THEOREM SessionVmKept == Spec => SessionKeepsVm
<1> DEFINE Kept ==
        \A s \in Sessions :
            ses[s].pc = "bridged" /\ now < ses[s].endsAt /\ ses[s].vm \in procs
                => \/ ses[s].vm \in procs'
                   \/ vmExits(ses[s].vm)
                   \/ destroyAllVMs
                   \/ ses'[s].pc # "bridged"
<1>1. IInv /\ [Next]_vars => [Kept]_vars
  BY StepKeepsVm
<1>2. QED
  BY <1>1, Inductive, PTL DEF Spec, SessionKeepsVm

=============================================================================
