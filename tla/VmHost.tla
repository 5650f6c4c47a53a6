------------------------------- MODULE VmHost -------------------------------
(***************************************************************************)
(* The micro-VM daemon, cmd/tollgate-fcd: the table `vms`, and what it     *)
(* stands for on the host, the firecracker processes, their TAP devices    *)
(* and directories.  Every operation on the table holds vmsMutex from its  *)
(* first line to its last, so each is one action.  Machine identifiers are *)
(* 48 random bits and are taken to differ.                                 *)
(*                                                                         *)
(* A machine ends in four ways, which race: the exit watcher, the TTL      *)
(* goroutine, the reaper and a DELETE.  A watcher or a TTL goroutine whose *)
(* machine has left the table does nothing and does not appear.            *)
(***************************************************************************)
EXTENDS Integers, FiniteSets

CONSTANTS
    Vms,      \* identifiers of machines, each used once
    MaxIp,    \* addresses before the counter starts again: 250
    MaxTime,  \* bound on the clock
    MaxCalls, \* bound on the addresses that a daemon hands out
    NoVm

ASSUME VmHostAssumption ==
    /\ IsFiniteSet(Vms) /\ MaxIp \in Nat \ {0} /\ MaxTime \in Nat /\ MaxCalls \in Nat
    /\ NoVm \notin Vms /\ NoVm \notin [ip : 1..MaxIp, ttl : 0..MaxTime, expiresAt : 0..MaxTime, serial : Nat]

VARIABLES
    vms,        \* the table
    ipCounter,  \* nextVMIP's counter
    calls,      \* history: calls of nextVMIP by this process
    procs,      \* firecracker processes that run
    taps,       \* TAP devices
    dirs,       \* VM directories
    now,        \* the clock
    fcd,        \* the daemon: "up", "draining" after destroyAllVMs, "down"
    used,       \* identifiers that have been given out
    orphans,    \* history: machines that a daemon left behind
    stuck       \* history: machines whose device could not be deleted

hostVars == <<vms, ipCounter, calls, procs, taps, dirs, now, fcd, used, orphans, stuck>>

VM == [ip : 1..MaxIp, ttl : 0..MaxTime, expiresAt : 0..MaxTime, serial : Nat]
Known == {v \in Vms : vms[v] # NoVm}

\* Mutant of AfterIp: the counter starts again one too late.
AfterIpLong(n) == IF n > MaxIp THEN 1 ELSE n + 1

\* Mutant of AfterIp: the counter starts again one too early.
AfterIpShort(n) == IF n + 1 > MaxIp - 1 THEN 1 ELSE n + 1

\* nextVMIP's counter after a machine: an address is used, then counted.  The
\* guest CID, which no property is about, is counted and then used.
AfterIp(n) == IF n + 1 > MaxIp THEN 1 ELSE n + 1

nextVMIP ==
    /\ calls < MaxCalls
    /\ calls' = calls + 1
    /\ ipCounter' = AfterIp(ipCounter)

setupTAP(v) == taps' = taps \cup {v}

\* ip link delete, once for each machine; its error is dropped, and the device
\* stays.
cleanupTAP(gone) ==
    \E kept \in SUBSET gone :
        taps' = taps \ (gone \ kept) /\ stuck' = stuck \cup kept

createVM(v, ttl) ==
    /\ fcd # "down" /\ v \notin used
    /\ now + ttl <= MaxTime
    /\ nextVMIP
    /\ vms' = [vms EXCEPT ![v] = [ip |-> ipCounter, ttl |-> ttl,
                                  expiresAt |-> now + ttl, serial |-> calls]]
    /\ procs' = procs \cup {v} /\ setupTAP(v) /\ dirs' = dirs \cup {v}
    /\ used' = used \cup {v}
    /\ UNCHANGED <<now, fcd, orphans, stuck>>

\* createVM fails: before the address is taken, or after it, and then the
\* directory is removed again, and the device as far as it can be.
createFails(v) ==
    /\ fcd # "down"
    /\ \/ UNCHANGED <<ipCounter, calls, taps, used, stuck>>
       \/ nextVMIP /\ UNCHANGED <<taps, used, stuck>>
       \/ /\ nextVMIP /\ v \notin used
          /\ setupTAP(v) /\ used' = used \cup {v} /\ stuck' = stuck \cup {v}
    /\ UNCHANGED <<vms, procs, dirs, now, fcd, orphans>>

\* Mutant of Teardown: the process is not killed.
TeardownKeepsProcess(gone, cleared) ==
    /\ vms' = [v \in Vms |-> IF v \in gone THEN NoVm ELSE vms[v]]
    /\ cleanupTAP(gone)
    /\ dirs' = dirs \ cleared
    /\ UNCHANGED <<ipCounter, calls, procs, now, used, orphans>>

\* The body of destroyVM, and of the reaper for one machine.
Teardown(gone, cleared) ==
    /\ vms' = [v \in Vms |-> IF v \in gone THEN NoVm ELSE vms[v]]
    /\ procs' = procs \ gone
    /\ cleanupTAP(gone)
    /\ dirs' = dirs \ cleared
    /\ UNCHANGED <<ipCounter, calls, now, used, orphans>>

\* Mutant of destroyVM: the test of the process is the wrong way round.
destroyVMOnceExited(v) ==
    fcd # "down" /\ v \in Known \ procs /\ Teardown({v}, {v}) /\ fcd' = fcd

\* DELETE /vms/{id} and the TTL goroutine.
destroyVM(v) == fcd # "down" /\ v \in Known /\ Teardown({v}, {v}) /\ fcd' = fcd

ttlElapsed(v) == v \in Known /\ vms[v].ttl > 0 /\ now >= vms[v].expiresAt /\ destroyVM(v)

Overdue == {v \in Known : vms[v].ttl > 0 /\ now > vms[v].expiresAt}

reap == fcd # "down" /\ Overdue # {} /\ Teardown(Overdue, Overdue) /\ fcd' = fcd

\* The guest powers off or firecracker dies.
vmExits(v) ==
    /\ v \in procs
    /\ procs' = procs \ {v}
    /\ UNCHANGED <<vms, ipCounter, calls, taps, dirs, now, fcd, used, orphans, stuck>>

\* cmd.Wait returns; the directory stays.
watchExit(v) ==
    /\ fcd # "down" /\ v \in Known /\ v \notin procs
    /\ Teardown({v}, {}) /\ fcd' = fcd

\* SIGTERM; requests are served until the process exits.
destroyAllVMs == fcd = "up" /\ Teardown(Known, {}) /\ fcd' = "draining"

\* The process ends, after destroyAllVMs or in a crash.
fcdExit ==
    /\ fcd # "down"
    /\ fcd' = "down"
    /\ orphans' = orphans \cup (taps \cup procs)
    /\ vms' = [v \in Vms |-> NoVm]
    /\ UNCHANGED <<ipCounter, calls, procs, taps, dirs, now, used, stuck>>

\* main: ensureNAT, the reaper and an empty table; nothing on the host is looked at.
fcdStart ==
    /\ fcd = "down"
    /\ fcd' = "up"
    /\ ipCounter' = 1 /\ calls' = 0
    /\ UNCHANGED <<vms, procs, taps, dirs, now, used, orphans, stuck>>

\* What the daemon does without the gateway.
hostNext ==
    \/ \E v \in Vms : ttlElapsed(v) \/ vmExits(v) \/ watchExit(v)
    \/ reap \/ destroyAllVMs \/ fcdExit \/ fcdStart

HostInit ==
    /\ vms = [v \in Vms |-> NoVm]
    /\ ipCounter = 1 /\ calls = 0 /\ now = 0
    /\ procs = {} /\ taps = {} /\ dirs = {} /\ used = {} /\ orphans = {} /\ stuck = {}
    /\ fcd = "up"

-----------------------------------------------------------------------------
(* Properties.                                                             *)

HostTypeOK ==
    /\ vms \in [Vms -> VM \cup {NoVm}]
    /\ ipCounter \in 1..MaxIp /\ calls \in Nat
    /\ procs \subseteq used /\ taps \subseteq used /\ dirs \subseteq used
    /\ used \subseteq Vms /\ orphans \subseteq used /\ stuck \subseteq used
    /\ now \in 0..MaxTime
    /\ fcd \in {"up", "draining", "down"}

\* The host is what the table says, whichever of the four ends a machine: a
\* machine in the table has its device and its directory; no process runs that is
\* not in the table, and no device is left whose removal was not tried.  The
\* exceptions are a daemon that died with the machine and a device that ip link
\* delete has left.
HostMatchesTable ==
    /\ Known \subseteq taps \cap dirs
    /\ procs \subseteq Known \cup orphans
    /\ taps \subseteq Known \cup orphans \cup stuck

\* Two machines of the table have one address only if the counter went round
\* between them.
AddressesApart ==
    \A v, w \in Known :
        vms[v].ip = vms[w].ip =>
            v = w \/ vms[v].serial - vms[w].serial \notin -(MaxIp - 1)..(MaxIp - 1)

=============================================================================
