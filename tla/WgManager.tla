----------------------------- MODULE WgManager ------------------------------
(***************************************************************************)
(* The WireGuard manager of the daemon, cmd/tollgate-daemon/wg.go: the     *)
(* connect and disconnect handlers, the peer table under its mutex, the    *)
(* state file, and the cleanup ticker; the remote path that signs a JWT    *)
(* (jwt_signer.go) takes addresses from the same counter without the       *)
(* mutex.                                                                  *)
(*                                                                         *)
(* The kernel's interface is external: `wg set ... allowed-ips` gives a    *)
(* peer an address and takes it from the peer that had it, and the         *)
(* interface outlives the daemon but not the host.  ProcessAuth appears by *)
(* what it promises: it accepts a key while the window of that key is      *)
(* open, or sells it a new one.                                            *)
(*                                                                         *)
(* Time counts ticks, TicksPerSec to a second.  A window ends at a tick,   *)
(* while a Session-Timeout and the ExpiresAt of a record are whole         *)
(* seconds: what is left of a window is cut off (auth.go), and so is the   *)
(* clock that the record is counted from and compared with (time.Unix).    *)
(***************************************************************************)
EXTENDS Naturals, FiniteSets

CONSTANTS
    Handlers,     \* connect requests that can be in flight together
    Keys,         \* public keys of customers
    Duration,     \* seconds of access that a token buys
    TicksPerSec,  \* resolution of the clock
    ClientStart,  \* wgClientStart
    ClientEnd,    \* wgClientEnd
    LastOctet,    \* greatest last octet that wg accepts
    MaxNextIP,    \* bound on the address counter
    MaxTime,      \* bound on the clock
    NoKey,        \* the key of a handler that has no request
    NoPeer,       \* no record in the peer table
    Absent,       \* a key that the interface does not know
    Bare,         \* a peer of the interface without an address
    Torn          \* a state file that cannot be parsed

Peer == [ip : Nat, expires : Nat]
Tables == [Keys -> Peer \cup {NoPeer}]
Conn == [pc : {"idle", "granted", "bump"}, key : Keys \cup {NoKey},
         timeout : Nat, until : Nat, ip : Nat]
Idle == [pc |-> "idle", key |-> NoKey, timeout |-> 0, until |-> 0, ip |-> 0]

ASSUME WgAssumption ==
    /\ Duration \in Nat \ {0} /\ TicksPerSec \in Nat \ {0}
    /\ ClientStart \in Nat /\ ClientEnd \in Nat /\ ClientStart > 0
    /\ ClientStart <= ClientEnd /\ ClientEnd < LastOctet
    /\ LastOctet \in Nat /\ MaxNextIP \in Nat /\ MaxTime \in Nat
    /\ NoKey \notin Keys
    /\ NoPeer \notin Peer
    /\ Absent \notin Nat /\ Bare \notin Nat /\ Absent # Bare
    /\ Torn \notin Tables

VARIABLES
    now,      \* the clock
    up,       \* the daemon runs
    peers,    \* wgManager.peers
    nextIP,   \* wgManager.nextIP
    file,     \* the state file
    kernel,   \* the address of each peer of the interface
    window,   \* end of the open session window of each key, 0 if there is none
    conn,     \* the connect requests in flight; until, the end of the window
              \* that a request was granted, is history
    rewound,  \* history: the address counter has gone back
    stray     \* history: keys whose access a failed command, a crash or a
              \* record that was not written has left to itself

vars == <<now, up, peers, nextIP, file, kernel, window, conn, rewound, stray>>

NoPeers == [k \in Keys |-> NoPeer]

\* time.Now().Unix()
Unix == now \div TicksPerSec

Expired(p) == {k \in Keys : p[k] # NoPeer /\ p[k].expires < Unix}

\* `wg set wg0 peer k remove`, for a set of keys.
wgRemovePeer(ks) == [k \in Keys |-> IF k \in ks THEN Absent ELSE kernel[k]]

\* `wg set wg0 peer k allowed-ips ip/32`.
wgAddPeer(k, ip) ==
    [j \in Keys |-> IF j = k THEN ip ELSE IF kernel[j] = ip THEN Bare ELSE kernel[j]]

\* The whole table is written over the old file.  The error of os.WriteFile is
\* dropped: the old file may stay, or a torn one.
saveState(p) == file' \in {p, file, Torn}

-----------------------------------------------------------------------------
(* The handler of /v1/wg/connect.  The ledger line that it writes for each *)
(* answer is Daemon's.                                                     *)

\* The handler answers and returns.
Answered(h) == conn' = [conn EXCEPT ![h] = Idle]

\* ProcessAuth accepts: the open window of the key goes on or a token buys one.
Window(k) == IF now < window[k] THEN window
             ELSE [window EXCEPT ![k] = now + Duration * TicksPerSec]

\* max(1, n)
AtLeastOne(n) == IF n < 1 THEN 1 ELSE n

\* The Session-Timeout: all of a new window, or what is left of the open one,
\* in whole seconds and at least one.
Timeout(k) == IF now < window[k]
              THEN AtLeastOne((window[k] - now) \div TicksPerSec) ELSE Duration

Connect(h, k) ==
    /\ up /\ conn[h] = Idle
    /\ window' = Window(k)
    /\ conn' = [conn EXCEPT ![h] = [pc |-> "granted", key |-> k, ip |-> 0,
                           timeout |-> Timeout(k), until |-> window'[k]]]
    /\ UNCHANGED <<now, up, peers, nextIP, file, kernel, rewound, stray>>

\* The same with a server_id.  An unknown server or a bad subnet ends it here:
\* the customer has paid, and its window waits for the next request.  Else the
\* counter is read, without the mutex, for the address in the JWT.
ConnectRemote(h, k) ==
    /\ up /\ conn[h] = Idle
    /\ window' = Window(k)
    /\ \/ conn' = conn
       \/ conn' = [conn EXCEPT ![h] = [Idle EXCEPT !.pc = "bump", !.ip = nextIP]]
    /\ UNCHANGED <<now, up, peers, nextIP, file, kernel, rewound, stray>>

\* The counter after an address has been taken.
assignIP(next) == IF next + 1 > ClientEnd THEN ClientStart ELSE next + 1

\* Mutant of NewPeer: a renewal keeps the old end.
NewPeerOldEnd(h, k) ==
    [ip |-> nextIP, expires |-> IF peers[k] # NoPeer THEN peers[k].expires
                                ELSE Unix + conn[h].timeout]

NewPeer(h, k) == [ip |-> nextIP, expires |-> Unix + conn[h].timeout]

\* Mutant of addPeer: the old peer is removed after the new one was added.
addPeerThenRemove(h) ==
    LET k == conn[h].key IN
    /\ up /\ conn[h].pc = "granted"
    /\ nextIP' = assignIP(nextIP)
    /\ rewound' = (rewound \/ nextIP' <= nextIP)
    /\ nextIP <= LastOctet
    /\ kernel' = IF peers[k] # NoPeer THEN wgRemovePeer({k}) ELSE wgAddPeer(k, nextIP)
    /\ peers' = [peers EXCEPT ![k] = NewPeer(h, k)]
    /\ saveState(peers')
    /\ stray' = stray \ {k}
    /\ Answered(h)
    /\ UNCHANGED <<now, up, window>>

\* addPeer, which holds the mutex throughout and may have waited for it.  The
\* address is used up whether or not wg accepts it; a record that is still valid
\* costs its key the old peer first, and is kept when wg refuses the new one.
addPeer(h) ==
    LET k == conn[h].key IN
    /\ up /\ conn[h].pc = "granted"
    /\ nextIP' = assignIP(nextIP)
    /\ rewound' = (rewound \/ nextIP' <= nextIP)
    /\ \/ /\ nextIP <= LastOctet
          /\ kernel' = wgAddPeer(k, nextIP)
          /\ peers' = [peers EXCEPT ![k] = NewPeer(h, k)]
          /\ saveState(peers')
          /\ stray' = stray \ {k}
       \/ /\ \/ kernel' = kernel
             \/ /\ peers[k] # NoPeer /\ peers[k].expires > Unix
                /\ kernel' = wgRemovePeer({k})
          /\ stray' = stray \cup {k}
          /\ UNCHANGED <<peers, file>>
    /\ Answered(h)
    /\ UNCHANGED <<now, up, window>>

\* A data race: the increment is of the value read, or of the current one.
RemoteBump(h) ==
    /\ up /\ conn[h].pc = "bump"
    /\ nextIP' \in {conn[h].ip + 1, nextIP + 1}
    /\ nextIP' <= MaxNextIP
    /\ rewound' = (rewound \/ nextIP' < nextIP)
    /\ Answered(h)
    /\ UNCHANGED <<now, up, peers, file, kernel, window, stray>>

-----------------------------------------------------------------------------
(* Disconnect, cleanup, crash and restart.                                 *)

\* The record goes even if wg fails.
removePeer(k) ==
    /\ peers' = [peers EXCEPT ![k] = NoPeer]
    /\ saveState(peers')
    /\ \/ kernel' = wgRemovePeer({k}) /\ stray' = stray
       \/ kernel' = kernel /\ stray' = stray \cup {k}
    /\ UNCHANGED <<now, up, nextIP, window, conn, rewound>>

\* The handler of /v1/wg/disconnect.
Disconnect(k) == up /\ removePeer(k)

\* Mutant of cleanup: the peers are left on the interface.
cleanupTableOnly ==
    /\ up
    /\ peers' = [k \in Keys |-> IF k \in Expired(peers) THEN NoPeer ELSE peers[k]]
    /\ saveState(peers')
    /\ UNCHANGED <<now, up, nextIP, kernel, window, conn, rewound, stray>>

\* The ticker's pass over the table: records go even if wg fails.
cleanup ==
    /\ up
    /\ peers' = [k \in Keys |-> IF k \in Expired(peers) THEN NoPeer ELSE peers[k]]
    /\ saveState(peers')
    /\ \E failed \in SUBSET Expired(peers) :
           /\ kernel' = wgRemovePeer(Expired(peers) \ failed)
           /\ stray' = stray \cup failed
    /\ UNCHANGED <<now, up, nextIP, window, conn, rewound>>

\* Keys with a request in flight, whose handlers die with the daemon.
Pending == {conn[h].key : h \in Handlers} \ {NoKey}

\* Keys for which a restart would load a record that is not the one in memory,
\* after a failed write.
Unwritten == IF file = Torn THEN {}
             ELSE {k \in Keys \ Expired(file) : file[k] # peers[k]}

\* The daemon stops: between two steps, or after a wg command whose record is
\* not written yet or only half, or together with the host and its interface.
Crash ==
    /\ up /\ up' = FALSE
    /\ peers' = NoPeers /\ nextIP' = ClientStart
    /\ conn' = [h \in Handlers |-> Idle]
    /\ LET lost == stray \cup Pending \cup Unwritten IN
       \/ kernel' = kernel /\ stray' = lost
       \/ \E h \in Handlers :
              /\ conn[h].pc = "granted" /\ nextIP <= LastOctet
              /\ kernel' = wgAddPeer(conn[h].key, nextIP)
              /\ stray' = lost
       \/ \E k \in Keys : kernel' = wgRemovePeer({k}) /\ stray' = lost \cup {k}
       \/ kernel' = [k \in Keys |-> Absent] /\ stray' = Keys
    /\ file' \in {file, Torn}
    /\ UNCHANGED <<now, window, rewound>>

Used(p) == {p[k].ip : k \in {j \in Keys : p[j] # NoPeer}}
Highest(p) ==
    LET used == Used(p) \cup {ClientStart - 1}
    IN  CHOOSE ip \in used : \A other \in used : other <= ip

\* Mutants of NextAfter: the highest address again, and the number of records.
NextAgain(p) == Highest(p)
NextByCount(p) == ClientStart + Cardinality(Used(p))

NextAfter(p) == Highest(p) + 1

\* newWGManager: a file that does not parse is no file; records that have
\* expired are forgotten without a word to the interface.
loadState ==
    LET read == IF file = Torn THEN NoPeers ELSE file
        live == [k \in Keys |-> IF k \in Expired(read) THEN NoPeer ELSE read[k]]
    IN
    /\ ~up /\ up' = TRUE
    /\ peers' = live
    /\ nextIP' = NextAfter(live)
    /\ stray' = stray \cup {k \in Keys : live[k] = NoPeer /\ kernel[k] # Absent}
    /\ UNCHANGED <<now, file, kernel, window, conn, rewound>>

Tick ==
    /\ now < MaxTime
    /\ now' = now + 1
    /\ window' = [k \in Keys |-> IF window[k] > now' THEN window[k] ELSE 0]
    /\ UNCHANGED <<up, peers, nextIP, file, kernel, conn, rewound, stray>>

Init ==
    /\ now = 0 /\ up = TRUE
    /\ peers = NoPeers /\ file = NoPeers
    /\ nextIP = ClientStart
    /\ kernel = [k \in Keys |-> Absent]
    /\ window = [k \in Keys |-> 0]
    /\ conn = [h \in Handlers |-> Idle]
    /\ rewound = FALSE /\ stray = {}

Next ==
    \/ \E h \in Handlers, k \in Keys : Connect(h, k) \/ ConnectRemote(h, k)
    \/ \E h \in Handlers : addPeer(h) \/ RemoteBump(h)
    \/ \E k \in Keys : Disconnect(k)
    \/ cleanup \/ Crash \/ loadState \/ Tick

Spec == Init /\ [][Next]_vars


-----------------------------------------------------------------------------
(* Properties.                                                             *)

TypeOK ==
    /\ now \in Nat /\ up \in BOOLEAN
    /\ peers \in Tables /\ file \in Tables \cup {Torn}
    /\ nextIP \in Nat /\ nextIP >= ClientStart
    /\ kernel \in [Keys -> Nat \cup {Absent, Bare}]
    /\ window \in [Keys -> Nat]
    /\ conn \in [Handlers -> Conn]
    /\ rewound \in BOOLEAN /\ stray \subseteq Keys

\* As long as the counter has not gone back (at the end of the range, or by the
\* race of the remote path), no two records have the same address, through
\* any number of restarts: loadState continues above the highest address.
AddressesDistinct ==
    ~rewound => \A j, k \in Keys :
        j # k /\ peers[j] # NoPeer /\ peers[k] # NoPeer => peers[j].ip # peers[k].ip

\* A key that has access has a record which cleanup will find; the exceptions
\* are keys that a failed wg command or a restart has left to themselves.
AccessIsRecorded ==
    up => \A k \in Keys \ stray : kernel[k] # Absent => peers[k] # NoPeer

\* A recorded customer can use the address that it was told, through renewals
\* by overlapping requests, expiry of others and restarts; the exceptions are
\* addresses handed out twice, and keys left to themselves by a failed command,
\* by a stop in the middle of their request, or by a stop after a failed write
\* of their record.
PaidAccessWorks ==
    up /\ ~rewound => \A k \in Keys \ stray : peers[k] # NoPeer => kernel[k] = peers[k].ip

\* The moment at which cleanup takes a record for expired.
CutOff(peer) == (peer.expires + 1) * TicksPerSec

\* A request of k still waits for addPeer although its window has ended.
Late(k) == \E h \in Handlers :
               conn[h].pc = "granted" /\ conn[h].key = k /\ conn[h].until <= now

\* A record that addPeer writes is cut off less than a second before the end of
\* the window that was paid for, also when a second request of the same key
\* overtakes the first, and although seconds are cut off twice (auth.go:241,
\* wg.go:106).  The exception is a request that waits for the mutex until its
\* window has ended: its addPeer can replace the record of a later window.
PaidTimeServed ==
    [][\A k \in Keys : /\ up /\ ~Late(k)
                       /\ peers'[k] \notin {peers[k], NoPeer}
                       => window[k] < CutOff(peers'[k]) + TicksPerSec]_vars

=============================================================================
