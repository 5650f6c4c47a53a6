-------------------------- MODULE WgManagerProofs ---------------------------
(***************************************************************************)
(* Proofs of the safety properties of WgManager, for any handlers, keys,   *)
(* address range and duration, through any number of crashes and restarts. *)
(***************************************************************************)
EXTENDS WgManager, WellFoundedInduction, TLAPS

\* A request that was granted a window: as long as the window is open it is
\* that of its key, and its timeout, counted from now, ends less than a second
\* before it.
Granted(c) ==
    /\ c.key \in Keys
    /\ now < c.until => window[c.key] = c.until
    /\ c.until < now + c.timeout * TicksPerSec + TicksPerSec

\* A request in flight is idle, or granted a window of its key, or has read an
\* address from the counter.
ConnOK ==
    \A h \in Handlers :
        /\ conn[h].pc = "granted" => Granted(conn[h])
        /\ conn[h].pc = "bump" => conn[h].ip >= ClientStart

\* wg has accepted every address of a table.
Bounded(p) == \A k \in Keys : p[k] # NoPeer => p[k].ip <= LastOctet

Distinct(p) ==
    \A j, k \in Keys :
        j # k /\ p[j] # NoPeer /\ p[k] # NoPeer => p[j].ip # p[k].ip

\* The counter is above every address that is in use.
BelowCounter ==
    up /\ ~rewound => \A k \in Keys : peers[k] # NoPeer => peers[k].ip < nextIP

\* A daemon that is down has no memory.
DownIsEmpty == ~up => peers = NoPeers /\ conn = [h \in Handlers |-> Idle]

\* What a restart reads is fit to continue from.
FileOK == file # Torn => Bounded(file) /\ (~rewound => Distinct(file))

\* While it is down, the interface still serves the valid records of the file.
FileWorks ==
    ~up /\ ~rewound /\ file # Torn => \A k \in Keys \ stray :
        file[k] # NoPeer /\ ~(file[k].expires < Unix) => kernel[k] = file[k].ip

IInv ==
    /\ TypeOK /\ ConnOK /\ DownIsEmpty
    /\ Bounded(peers) /\ (~rewound => Distinct(peers)) /\ BelowCounter
    /\ FileOK /\ FileWorks
    /\ AccessIsRecorded /\ PaidAccessWorks

-----------------------------------------------------------------------------
(* The counter that loadState computes: CHOOSE finds a greatest address,   *)
(* because the addresses of a table are bounded.                           *)

\* A non-empty set of naturals has a least element.
LEMMA LeastNat ==
    ASSUME NEW T, T \subseteq Nat, T # {}
    PROVE  \E m \in T : \A n \in T : m <= n
<1> DEFINE R == OpToRel(<, Nat)
<1>1. IsWellFoundedOn(R, Nat)
  BY NatLessThanWellFounded
<1> HIDE DEF R
<1>2. PICK m \in T : \A n \in T : ~(<<n, m>> \in R)
  BY <1>1, WFMin
<1>3. \A n \in T : n < m => <<n, m>> \in R
  BY <1>2 DEF OpToRel, R
<1>4. \A n \in T : ~(n < m)
  BY <1>2, <1>3, Zenon
<1>5. QED
  BY <1>4

\* A non-empty set of naturals with an upper bound has a greatest element.
LEMMA BoundedHasMax ==
    ASSUME NEW S, S \subseteq Nat, S # {}, NEW b \in Nat, \A n \in S : n <= b
    PROVE  \E m \in S : \A n \in S : n <= m
<1> DEFINE Upper == {u \in Nat : \A n \in S : n <= u}
<1>1. PICK m \in Upper : \A u \in Upper : m <= u
  <2>1. Upper \subseteq Nat /\ Upper # {}
    OBVIOUS
  <2>2. QED
    BY <2>1, LeastNat
<1>2. SUFFICES ASSUME m \notin S PROVE FALSE
  BY <1>1
<1>3. m - 1 \in Nat
  <2>1. PICK n \in S : TRUE
    OBVIOUS
  <2>2. n \in Nat /\ n <= m /\ n # m
    BY <1>1, <1>2, <2>1
  <2>3. QED
    BY <2>2
<1>4. m - 1 \in Upper
  BY <1>1, <1>2, <1>3
<1>5. QED
  BY <1>1, <1>3, <1>4

\* NextAfter is above every address of a table that wg has accepted, and not
\* below the start of the range.
LEMMA NextAfterAbove ==
    ASSUME NEW p \in Tables, Bounded(p)
    PROVE  /\ NextAfter(p) \in Nat /\ NextAfter(p) >= ClientStart
           /\ \A k \in Keys : p[k] # NoPeer => p[k].ip < NextAfter(p)
<1> DEFINE used == Used(p) \cup {ClientStart - 1}
           b == LastOctet + ClientStart
<1>1. \A k \in Keys : p[k] # NoPeer => p[k].ip \in Nat /\ p[k].ip \in used
  BY DEF Tables, Peer, Used
<1>2. used \subseteq Nat /\ used # {} /\ b \in Nat
  BY <1>1, WgAssumption DEF Used
<1>3. \A n \in used : n <= b
  BY <1>1, WgAssumption DEF Used, Bounded
<1>4. PICK m \in used : \A n \in used : n <= m
  <2> HIDE DEF used, b
  <2> QED BY <1>2, <1>3, BoundedHasMax
<1>5. Highest(p) \in used /\ \A n \in used : n <= Highest(p)
  BY <1>4 DEF Highest
<1>6. ClientStart - 1 \in used /\ Highest(p) \in Nat
  BY <1>2, <1>5
<1>7. ClientStart - 1 <= Highest(p)
  BY <1>5, <1>6
<1> HIDE DEF used
<1>8. QED
  BY <1>1, <1>5, <1>6, <1>7, WgAssumption DEF NextAfter

-----------------------------------------------------------------------------
(* Seconds.                                                                *)

\* What whole seconds leave of a number of ticks.
LEMMA SecondsOf ==
    ASSUME NEW n \in Nat
    PROVE  /\ n \div TicksPerSec \in Nat
           /\ (n \div TicksPerSec) * TicksPerSec <= n
           /\ n < (n \div TicksPerSec) * TicksPerSec + TicksPerSec
BY WgAssumption

\* Unix seconds do not go back.
LEMMA UnixMonotone ==
    ASSUME NEW m \in Nat, NEW n \in Nat, m <= n
    PROVE  m \div TicksPerSec <= n \div TicksPerSec
<1> DEFINE a == m \div TicksPerSec
           b == n \div TicksPerSec
<1>1. a \in Nat /\ b \in Nat /\ a * TicksPerSec <= m
      /\ n < b * TicksPerSec + TicksPerSec
  BY SecondsOf
<1> HIDE DEF a, b
<1>2. SUFFICES ASSUME b + 1 <= a PROVE FALSE
  BY <1>1 DEF a, b
<1>3. (b + 1) * TicksPerSec <= a * TicksPerSec
  BY <1>1, <1>2, WgAssumption
<1>4. (b + 1) * TicksPerSec = b * TicksPerSec + TicksPerSec
  BY <1>1, WgAssumption
<1>5. a * TicksPerSec \in Nat /\ b * TicksPerSec \in Nat /\ TicksPerSec \in Nat
  BY <1>1, WgAssumption
<1>6. QED
  BY <1>1, <1>3, <1>4, <1>5

\* The Session-Timeout of a window ends less than a second before it.
LEMMA TimeoutReaches ==
    ASSUME TypeOK, NEW k \in Keys
    PROVE  /\ Timeout(k) \in Nat
           /\ Window(k)[k] < now + Timeout(k) * TicksPerSec + TicksPerSec
<1>1. CASE now < window[k]
  <2> DEFINE n == window[k] - now
             q == n \div TicksPerSec
  <2>1. n \in Nat /\ window[k] = now + n
    BY <1>1 DEF TypeOK
  <2>2. q \in Nat /\ n < q * TicksPerSec + TicksPerSec
    BY <2>1, SecondsOf
  <2> HIDE DEF n, q
  <2>3. AtLeastOne(q) \in Nat /\ q <= AtLeastOne(q)
    BY <2>2 DEF AtLeastOne
  <2>4. q * TicksPerSec <= AtLeastOne(q) * TicksPerSec
    BY <2>2, <2>3, WgAssumption
  <2>5. Timeout(k) = AtLeastOne(q) /\ Window(k)[k] = window[k]
    BY <1>1 DEF Timeout, Window, q, n
  <2>6. q * TicksPerSec \in Nat /\ AtLeastOne(q) * TicksPerSec \in Nat
        /\ TicksPerSec \in Nat /\ now \in Nat
    BY <2>2, <2>3, WgAssumption DEF TypeOK
  <2>7. QED
    BY <2>1, <2>2, <2>3, <2>4, <2>5, <2>6
<1>2. CASE ~(now < window[k])
  <2>1. Timeout(k) = Duration /\ Window(k)[k] = now + Duration * TicksPerSec
    BY <1>2 DEF Timeout, Window, TypeOK
  <2>2. Duration * TicksPerSec \in Nat /\ now \in Nat
    BY WgAssumption DEF TypeOK
  <2>3. QED
    BY <2>1, <2>2, WgAssumption
<1>3. QED
  BY <1>1, <1>2

-----------------------------------------------------------------------------
(* Each action preserves the inductive invariant.                          *)

LEMMA InitIInv == Init => IInv
<1> SUFFICES ASSUME Init PROVE IInv
  OBVIOUS
<1>1. TypeOK
  <2>1. Idle \in Conn
    BY DEF Idle, Conn
  <2>2. up \in BOOLEAN /\ rewound \in BOOLEAN
    BY Zenon DEF Init
  <2>3. QED
    BY <2>1, <2>2, WgAssumption DEF Init, TypeOK, NoPeers, Tables
<1>2. ConnOK /\ DownIsEmpty
  BY DEF Init, ConnOK, DownIsEmpty, Idle
<1>3. Bounded(peers) /\ Distinct(peers) /\ BelowCounter
  BY DEF Init, NoPeers, Bounded, Distinct, BelowCounter
<1>4. FileOK /\ FileWorks
  BY DEF Init, NoPeers, FileOK, Bounded, Distinct, FileWorks
<1>5. AccessIsRecorded /\ PaidAccessWorks
  BY DEF Init, NoPeers, AccessIsRecorded, PaidAccessWorks
<1>6. QED
  BY <1>1, <1>2, <1>3, <1>4, <1>5 DEF IInv

\* The window that ProcessAuth leaves open for a key.
LEMMA WindowOpen ==
    ASSUME TypeOK, NEW k \in Keys
    PROVE  /\ Window(k) \in [Keys -> Nat]
           /\ now < Window(k)[k]
           /\ \A j \in Keys : now < window[j] => Window(k)[j] = window[j]
<1>1. Duration * TicksPerSec \in Nat /\ Duration * TicksPerSec > 0
  BY WgAssumption
<1>2. QED
  BY <1>1 DEF TypeOK, Window

\* A request that leaves table, counter, file and interface alone.
LEMMA RequestOnly ==
    ASSUME IInv, TypeOK', ConnOK', up,
           UNCHANGED <<now, up, peers, nextIP, file, kernel, rewound, stray>>
    PROVE  IInv'
<1>1. DownIsEmpty' /\ BelowCounter'
  BY DEF IInv, DownIsEmpty, BelowCounter
<1>2. Bounded(peers)' /\ (~rewound => Distinct(peers))'
  BY DEF IInv, Bounded, Distinct
<1>3. FileOK' /\ FileWorks'
  BY DEF IInv, FileOK, FileWorks, Unix, Bounded, Distinct
<1>4. AccessIsRecorded' /\ PaidAccessWorks'
  BY DEF IInv, AccessIsRecorded, PaidAccessWorks
<1>5. QED
  BY <1>1, <1>2, <1>3, <1>4 DEF IInv

LEMMA ConnectIInv ==
    ASSUME IInv, NEW h \in Handlers, NEW k \in Keys, Connect(h, k)
    PROVE  IInv'
<1> USE DEF IInv, TypeOK
<1>1. window' \in [Keys -> Nat] /\ now < window'[k]
  BY WindowOpen DEF Connect
<1>2. \A j \in Keys : now < window[j] => window'[j] = window[j]
  BY WindowOpen DEF Connect
<1>3. Timeout(k) \in Nat
      /\ window'[k] < now + Timeout(k) * TicksPerSec + TicksPerSec
  BY TimeoutReaches DEF Connect
<1>4. TypeOK'
  BY <1>1, <1>3 DEF Connect, Conn
<1>5. ConnOK'
  <2> SUFFICES ASSUME NEW g \in Handlers
               PROVE  /\ (conn[g].pc = "granted" => Granted(conn[g]))'
                      /\ conn'[g].pc = "bump" => conn'[g].ip >= ClientStart
    BY DEF ConnOK
  <2>1. CASE g = h
    BY <1>1, <1>3, <2>1 DEF Connect, Granted
  <2>2. CASE g # h
    BY <1>2, <2>2 DEF Connect, ConnOK, Granted, Conn
  <2>3. QED
    BY <2>1, <2>2
<1>6. QED
  BY <1>4, <1>5, RequestOnly DEF Connect

LEMMA ConnectRemoteIInv ==
    ASSUME IInv, NEW h \in Handlers, NEW k \in Keys, ConnectRemote(h, k)
    PROVE  IInv'
<1> USE DEF IInv, TypeOK
<1>1. window' \in [Keys -> Nat]
  BY WindowOpen DEF ConnectRemote
<1>2. \A j \in Keys : now < window[j] => window'[j] = window[j]
  BY WindowOpen DEF ConnectRemote
<1>3. TypeOK'
  <2>1. [Idle EXCEPT !.pc = "bump", !.ip = nextIP] \in Conn
    BY DEF Idle, Conn
  <2>2. conn' \in [Handlers -> Conn]
    BY <2>1 DEF ConnectRemote
  <2>3. QED
    BY <1>1, <2>2 DEF ConnectRemote
<1>4. ConnOK'
  <2> SUFFICES ASSUME NEW g \in Handlers
               PROVE  /\ (conn[g].pc = "granted" => Granted(conn[g]))'
                      /\ conn'[g].pc = "bump" => conn'[g].ip >= ClientStart
    BY DEF ConnOK
  <2>1. CASE conn'[g] = conn[g]
    BY <1>2, <2>1 DEF ConnectRemote, ConnOK, Granted, Conn
  <2>2. CASE conn'[g] # conn[g]
    <3>1. conn'[g] = [Idle EXCEPT !.pc = "bump", !.ip = nextIP]
      BY <2>2 DEF ConnectRemote
    <3>2. QED
      BY <3>1 DEF Idle
  <2>3. QED
    BY <2>1, <2>2
<1>5. QED
  BY <1>3, <1>4, RequestOnly DEF ConnectRemote

\* What assignIP makes of the counter.
LEMMA AssignIPType ==
    ASSUME NEW n \in Nat, n >= ClientStart
    PROVE  assignIP(n) \in Nat /\ assignIP(n) >= ClientStart
BY WgAssumption DEF assignIP

\* A handler that has answered asks nothing of its window any more.
LEMMA AnsweredConn ==
    ASSUME TypeOK, ConnOK, NEW h \in Handlers, Answered(h), UNCHANGED <<now, window>>
    PROVE  conn' \in [Handlers -> Conn] /\ ConnOK'
<1>1. Idle \in Conn
  BY DEF Idle, Conn
<1>2. conn' \in [Handlers -> Conn]
  BY <1>1 DEF TypeOK, Answered
<1>3. ConnOK'
  BY DEF TypeOK, ConnOK, Granted, Answered, Idle
<1>4. QED
  BY <1>2, <1>3

\* addPeer when wg accepts the address: the record is new and the highest.
LEMMA addPeerAccepted ==
    ASSUME IInv, NEW h \in Handlers, NEW k \in Keys, k = conn[h].key,
           up, conn[h].pc = "granted",
           nextIP' = assignIP(nextIP),
           rewound' = (rewound \/ nextIP' <= nextIP),
           nextIP <= LastOctet,
           kernel' = wgAddPeer(k, nextIP),
           peers' = [peers EXCEPT ![k] = NewPeer(h, k)],
           saveState(peers'),
           stray' = stray \ {k},
           Answered(h),
           UNCHANGED <<now, up, window>>
    PROVE  IInv'
<1> USE DEF IInv
<1>1. NewPeer(h, k) \in Peer /\ NewPeer(h, k).ip = nextIP
  BY SecondsOf DEF NewPeer, Unix, Peer, TypeOK, Conn
<1>2. NewPeer(h, k) # NoPeer
  BY <1>1, WgAssumption
<1>3. /\ peers'[k] = NewPeer(h, k) /\ peers' \in Tables
      /\ file' \in {peers', file, Torn}
      /\ \A j \in Keys : j # k => peers'[j] = peers[j]
  BY <1>1 DEF TypeOK, Tables, saveState
<1>4. /\ kernel' \in [Keys -> Nat \cup {Absent, Bare}] /\ kernel'[k] = nextIP
      /\ \A j \in Keys : j # k /\ kernel[j] # nextIP => kernel'[j] = kernel[j]
      /\ \A j \in Keys : j # k /\ kernel[j] = nextIP => kernel'[j] = Bare
  BY DEF TypeOK, wgAddPeer
<1>5. TypeOK' /\ ConnOK' /\ DownIsEmpty'
  <2>1. rewound' \in BOOLEAN
    BY Zenon
  <2>2. QED
    BY <1>3, <1>4, <2>1, AssignIPType, AnsweredConn DEF TypeOK, DownIsEmpty
<1>7. Bounded(peers)'
  BY <1>1, <1>3 DEF Bounded
<1>8. ~rewound' => ~rewound /\ nextIP < nextIP'
  <2>1. ~rewound' => ~rewound /\ ~(nextIP' <= nextIP)
    BY Zenon
  <2>2. nextIP \in Nat /\ nextIP' \in Nat
    BY <1>5 DEF TypeOK
  <2>3. QED
    BY <2>1, <2>2
<1>9. ~rewound' => \A j \in Keys \ {k} : peers[j] # NoPeer => peers[j].ip < nextIP /\ peers[j].ip \in Nat
  BY <1>8 DEF BelowCounter, TypeOK, Tables, Peer
<1>10. (~rewound => Distinct(peers))'
  BY <1>1, <1>3, <1>8, <1>9 DEF Distinct, TypeOK
<1>11. BelowCounter'
  BY <1>1, <1>3, <1>5, <1>8, <1>9 DEF BelowCounter, TypeOK
<1>12. FileOK' /\ FileWorks'
  <2>1. file' = peers' => FileOK'
    BY <1>7, <1>10 DEF FileOK, Bounded, Distinct
  <2>2. file' = file => FileOK'
    BY <1>8 DEF FileOK, Bounded, Distinct
  <2>3. FileOK'
    BY <1>3, <2>1, <2>2 DEF FileOK
  <2>4. QED
    BY <2>3 DEF FileWorks
<1>13. AccessIsRecorded'
  <2> SUFFICES ASSUME NEW j \in Keys \ stray', kernel'[j] # Absent PROVE peers'[j] # NoPeer
    BY DEF AccessIsRecorded
  <2>1. CASE j = k
    BY <2>1, <1>2, <1>3
  <2>2. CASE j # k
    <3>1. kernel[j] # Absent
      BY <2>2, <1>4, WgAssumption DEF TypeOK
    <3>2. QED
      BY <2>2, <3>1, <1>3 DEF AccessIsRecorded
  <2>3. QED
    BY <2>1, <2>2
<1>14. PaidAccessWorks'
  <2> SUFFICES ASSUME ~rewound', NEW j \in Keys \ stray', peers'[j] # NoPeer
               PROVE  kernel'[j] = peers'[j].ip
    BY DEF PaidAccessWorks
  <2>1. CASE j = k
    BY <2>1, <1>1, <1>3, <1>4
  <2>2. CASE j # k
    <3>1. kernel[j] = peers[j].ip
      BY <2>2, <1>3, <1>8 DEF PaidAccessWorks
    <3>2. QED
      BY <2>2, <3>1, <1>3, <1>4, <1>9 DEF TypeOK
  <2>3. QED
    BY <2>1, <2>2
<1>15. QED
  BY <1>5, <1>7, <1>10, <1>11, <1>12, <1>13, <1>14

\* The key of a request that has been granted a window.
LEMMA GrantedKey ==
    ASSUME IInv, NEW h \in Handlers, conn[h].pc = "granted"
    PROVE  conn[h].key \in Keys
BY DEF IInv, ConnOK, Granted

\* A wg command that takes keys off the interface.
LEMMA wgRemovePeerEffect ==
    ASSUME TypeOK, NEW ks, kernel' = wgRemovePeer(ks)
    PROVE  /\ kernel' \in [Keys -> Nat \cup {Absent, Bare}]
           /\ \A k \in Keys : k \in ks => kernel'[k] = Absent
           /\ \A k \in Keys : k \notin ks => kernel'[k] = kernel[k]
BY DEF TypeOK, wgRemovePeer

LEMMA addPeerIInv ==
    ASSUME IInv, NEW h \in Handlers, addPeer(h)
    PROVE  IInv'
<1> DEFINE k == conn[h].key
<1>1. k \in Keys
  BY GrantedKey DEF addPeer
<1>2. CASE kernel' = wgAddPeer(k, nextIP)
           /\ nextIP <= LastOctet
           /\ peers' = [peers EXCEPT ![k] = NewPeer(h, k)]
           /\ saveState(peers')
           /\ stray' = stray \ {k}
  BY <1>1, <1>2, addPeerAccepted DEF addPeer
<1>3. CASE (kernel' = kernel \/ kernel' = wgRemovePeer({k}))
           /\ stray' = stray \cup {k}
           /\ UNCHANGED <<peers, file>>
  <2> USE DEF IInv
  <2>1. /\ up /\ up' = up /\ nextIP' = assignIP(nextIP) /\ Answered(h)
        /\ rewound' = (rewound \/ nextIP' <= nextIP)
        /\ UNCHANGED <<now, window>>
    BY DEF addPeer
  <2>2. /\ kernel' \in [Keys -> Nat \cup {Absent, Bare}]
        /\ \A j \in Keys : j # k => kernel'[j] = kernel[j]
    BY <1>3, wgRemovePeerEffect DEF TypeOK
  <2>3. TypeOK' /\ ConnOK' /\ DownIsEmpty'
    <3>1. rewound' \in BOOLEAN
      BY <2>1, Zenon
    <3>2. QED
      BY <1>1, <1>3, <2>1, <2>2, <3>1, AssignIPType, AnsweredConn DEF TypeOK, DownIsEmpty
  <2>4. ~rewound' => ~rewound /\ nextIP < nextIP'
    <3>1. ~rewound' => ~rewound /\ ~(nextIP' <= nextIP)
      BY <2>1, Zenon
    <3>2. nextIP \in Nat /\ nextIP' \in Nat
      BY <2>3 DEF TypeOK
    <3>3. QED
      BY <3>1, <3>2
  <2>5. Bounded(peers)' /\ (~rewound => Distinct(peers))'
    BY <1>3, <2>4 DEF Bounded, Distinct
  <2>6. BelowCounter'
    BY <1>3, <2>1, <2>3, <2>4 DEF BelowCounter, TypeOK, Tables, Peer
  <2>7. FileOK' /\ FileWorks'
    BY <1>3, <2>1, <2>4 DEF FileOK, FileWorks, Bounded, Distinct
  <2>8. AccessIsRecorded' /\ PaidAccessWorks'
    BY <1>3, <2>1, <2>2, <2>4 DEF AccessIsRecorded, PaidAccessWorks
  <2>9. QED
    BY <2>3, <2>5, <2>6, <2>7, <2>8
<1>4. QED
  BY <1>2, <1>3 DEF addPeer

LEMMA RemoteBumpIInv ==
    ASSUME IInv, NEW h \in Handlers, RemoteBump(h)
    PROVE  IInv'
<1> USE DEF IInv
<1>1. /\ up /\ Answered(h) /\ rewound' = (rewound \/ nextIP' < nextIP)
      /\ UNCHANGED <<now, up, peers, file, kernel, window, stray>>
  BY DEF RemoteBump
<1>2. nextIP' \in Nat /\ nextIP' >= ClientStart
  BY WgAssumption DEF RemoteBump, ConnOK, TypeOK, Conn
<1>3. TypeOK' /\ ConnOK' /\ DownIsEmpty'
  <2>1. rewound' \in BOOLEAN
    BY <1>1, Zenon
  <2>2. QED
    BY <1>1, <1>2, <2>1, AnsweredConn DEF TypeOK, DownIsEmpty
<1>4. ~rewound' => ~rewound /\ nextIP <= nextIP'
  <2>1. ~rewound' => ~rewound /\ ~(nextIP' < nextIP)
    BY <1>1, Zenon
  <2>2. QED
    BY <1>2, <2>1 DEF TypeOK
<1>5. Bounded(peers)' /\ (~rewound => Distinct(peers))'
  BY <1>1, <1>4 DEF Bounded, Distinct
<1>6. BelowCounter'
  BY <1>1, <1>2, <1>4 DEF BelowCounter, TypeOK, Tables, Peer
<1>7. FileOK' /\ FileWorks'
  BY <1>1, <1>4 DEF FileOK, FileWorks, Bounded, Distinct
<1>8. AccessIsRecorded' /\ PaidAccessWorks'
  BY <1>1, <1>4 DEF AccessIsRecorded, PaidAccessWorks
<1>9. QED
  BY <1>3, <1>5, <1>6, <1>7, <1>8

\* Records go from the table and the file, and their keys from the interface
\* unless a command fails.
LEMMA RecordsDropped ==
    ASSUME IInv, NEW gone \in SUBSET Keys, NEW failed \in SUBSET gone, up,
           peers' \in Tables,
           \A k \in gone : peers'[k] = NoPeer,
           \A k \in Keys \ gone : peers'[k] = peers[k],
           saveState(peers'),
           kernel' = wgRemovePeer(gone \ failed),
           stray' = stray \cup failed,
           UNCHANGED <<now, up, nextIP, window, conn, rewound>>
    PROVE  IInv'
<1> USE DEF IInv
<1>1. file' \in {peers', file, Torn}
  BY DEF saveState
<1>2. /\ kernel' \in [Keys -> Nat \cup {Absent, Bare}]
      /\ \A k \in gone : kernel'[k] = Absent \/ k \in stray'
      /\ \A k \in Keys \ gone : kernel'[k] = kernel[k]
  BY wgRemovePeerEffect
<1>3. TypeOK' /\ ConnOK' /\ DownIsEmpty'
  <2>1. stray' \subseteq Keys
    BY DEF TypeOK
  <2>2. ConnOK'
    BY DEF ConnOK, Granted
  <2>3. QED
    BY <1>1, <1>2, <2>1, <2>2 DEF TypeOK, DownIsEmpty
<1>4. Bounded(peers)' /\ (~rewound => Distinct(peers))'
  BY DEF Bounded, Distinct
<1>5. BelowCounter'
  BY DEF BelowCounter
<1>6. FileOK' /\ FileWorks'
  BY <1>1, <1>4 DEF FileOK, FileWorks, Bounded, Distinct
<1>7. AccessIsRecorded' /\ PaidAccessWorks'
  BY <1>2 DEF AccessIsRecorded, PaidAccessWorks
<1>8. QED
  BY <1>3, <1>4, <1>5, <1>6, <1>7

LEMMA DisconnectIInv ==
    ASSUME IInv, NEW k \in Keys, Disconnect(k)
    PROVE  IInv'
<1> USE DEF Disconnect, removePeer
<1>1. peers' \in Tables /\ peers'[k] = NoPeer
      /\ \A j \in Keys \ {k} : peers'[j] = peers[j]
  BY DEF IInv, TypeOK, Tables
<1>2. CASE kernel' = wgRemovePeer({k}) /\ stray' = stray
  <2>1. {k} \ {} = {k} /\ stray' = stray \cup {}
    BY <1>2
  <2>2. QED
    BY <1>1, <1>2, <2>1, RecordsDropped
<1>3. CASE kernel' = kernel /\ stray' = stray \cup {k}
  <2> DEFINE gone == {k}
             failed == {k}
  <2>1. kernel' = wgRemovePeer(gone \ failed)
    BY <1>3 DEF IInv, TypeOK, wgRemovePeer
  <2>2. /\ gone \in SUBSET Keys /\ failed \in SUBSET gone
        /\ \A j \in gone : peers'[j] = NoPeer
        /\ \A j \in Keys \ gone : peers'[j] = peers[j]
        /\ stray' = stray \cup failed
    BY <1>1, <1>3
  <2> HIDE DEF gone, failed
  <2>3. QED
    BY <1>1, <2>1, <2>2, RecordsDropped
<1>4. QED
  BY <1>2, <1>3

LEMMA cleanupIInv ==
    ASSUME IInv, cleanup
    PROVE  IInv'
<1>1. PICK failed \in SUBSET Expired(peers) :
          /\ kernel' = wgRemovePeer(Expired(peers) \ failed)
          /\ stray' = stray \cup failed
  BY DEF cleanup
<1>2. Expired(peers) \subseteq Keys
  BY DEF Expired
<1>3. /\ peers' \in Tables
      /\ \A k \in Expired(peers) : peers'[k] = NoPeer
      /\ \A k \in Keys \ Expired(peers) : peers'[k] = peers[k]
  BY <1>2 DEF cleanup, IInv, TypeOK, Tables
<1>4. QED
  BY <1>1, <1>2, <1>3, RecordsDropped DEF cleanup

LEMMA CrashIInv ==
    ASSUME IInv, Crash
    PROVE  IInv'
<1> USE DEF IInv
<1>1. /\ up /\ ~up' /\ peers' = NoPeers /\ nextIP' = ClientStart
      /\ conn' = [h \in Handlers |-> Idle] /\ file' \in {file, Torn}
      /\ UNCHANGED <<now, window, rewound>>
  BY DEF Crash
<1>2. Pending \subseteq Keys /\ Unwritten \subseteq Keys
  BY DEF TypeOK, Conn, Pending, Unwritten
<1>3. /\ kernel' \in [Keys -> Nat \cup {Absent, Bare}]
      /\ stray' \subseteq Keys
  BY <1>2 DEF Crash, TypeOK, wgAddPeer, wgRemovePeer
<1>4. TypeOK' /\ ConnOK' /\ DownIsEmpty'
  <2>1. Idle \in Conn /\ Idle.pc = "idle"
    BY DEF Idle, Conn
  <2>2. up' \in BOOLEAN
    BY Zenon DEF Crash
  <2>3. QED
    BY <1>1, <1>3, <2>1, <2>2, WgAssumption
    DEF TypeOK, Tables, NoPeers, ConnOK, DownIsEmpty
<1>5. Bounded(peers)' /\ Distinct(peers)' /\ BelowCounter'
  BY <1>1 DEF Bounded, Distinct, BelowCounter, NoPeers
<1>6. FileOK'
  BY <1>1 DEF FileOK, Bounded, Distinct
<1>7. FileWorks'
  <2> SUFFICES ASSUME ~rewound, file' # Torn, NEW k \in Keys \ stray',
                      file'[k] # NoPeer, ~(file'[k].expires < Unix)
               PROVE  kernel'[k] = file'[k].ip
    BY <1>1 DEF FileWorks, Unix
  <2>1. file' = file /\ file[k] = peers[k] /\ peers[k] # NoPeer
    <3>1. file' = file /\ file # Torn
      BY <1>1
    <3>2. k \notin Unwritten
      BY <3>1 DEF Crash
    <3>3. k \notin Expired(file)
      BY <3>1 DEF Expired
    <3>4. QED
      BY <3>1, <3>2, <3>3 DEF Unwritten
  <2>2. k \notin stray /\ kernel[k] = peers[k].ip
    <3>1. k \notin stray
      BY DEF Crash, TypeOK
    <3>2. QED
      BY <1>1, <2>1, <3>1 DEF PaidAccessWorks
  <2>3. kernel[k] # nextIP
    BY <1>1, <2>1, <2>2 DEF BelowCounter, TypeOK, Tables, Peer
  <2>4. CASE kernel' = kernel
    BY <2>1, <2>2, <2>4
  <2>5. ASSUME NEW h \in Handlers, conn[h].pc = "granted",
               kernel' = wgAddPeer(conn[h].key, nextIP), Pending \subseteq stray'
        PROVE  kernel'[k] = file'[k].ip
    <3>1. conn[h].key \in Pending
      BY <2>5, GrantedKey, WgAssumption DEF Pending
    <3>2. k # conn[h].key
      BY <2>5, <3>1
    <3>3. QED
      BY <2>1, <2>2, <2>3, <2>5, <3>2 DEF wgAddPeer
  <2>6. ASSUME NEW j \in Keys, kernel' = wgRemovePeer({j}),
               j \in stray'
        PROVE  kernel'[k] = file'[k].ip
    BY <2>1, <2>2, <2>6 DEF wgRemovePeer
  <2>7. QED
    BY <2>4, <2>5, <2>6 DEF Crash
<1>8. AccessIsRecorded' /\ PaidAccessWorks'
  BY <1>1 DEF AccessIsRecorded, PaidAccessWorks
<1>9. QED
  BY <1>4, <1>5, <1>6, <1>7, <1>8

\* loadState: the counter continues above every address that it keeps.
LEMMA loadStateIInv ==
    ASSUME IInv, loadState
    PROVE  IInv'
<1> USE DEF IInv
<1> DEFINE read == IF file = Torn THEN NoPeers ELSE file
           live == [k \in Keys |-> IF k \in Expired(read) THEN NoPeer ELSE read[k]]
<1>1. /\ ~up /\ up' /\ peers' = live /\ nextIP' = NextAfter(live)
      /\ stray' = stray \cup {k \in Keys : live[k] = NoPeer /\ kernel[k] # Absent}
      /\ UNCHANGED <<now, file, kernel, window, conn, rewound>>
  BY DEF loadState
<1>2. read \in Tables /\ Bounded(read) /\ (~rewound => Distinct(read))
  BY DEF TypeOK, FileOK, NoPeers, Tables, Bounded, Distinct
<1>3. \A k \in Keys : live[k] # NoPeer => /\ read[k] = live[k] /\ ~(read[k].expires < Unix)
                                          /\ file # Torn
  BY DEF Expired, NoPeers
<1>4. live \in Tables
  BY <1>2 DEF Tables
<1>5. Bounded(live) /\ (~rewound => Distinct(live))
  BY <1>2, <1>3 DEF Bounded, Distinct
<1>7. ~rewound => \A k \in Keys \ stray : live[k] # NoPeer => kernel[k] = live[k].ip
  BY <1>1, <1>3 DEF FileWorks
<1> HIDE DEF read, live
<1>8. /\ NextAfter(live) \in Nat /\ NextAfter(live) >= ClientStart
      /\ \A k \in Keys : live[k] # NoPeer => live[k].ip < NextAfter(live)
  BY <1>4, <1>5, NextAfterAbove
<1>9. TypeOK' /\ ConnOK' /\ DownIsEmpty'
  <2>1. up' \in BOOLEAN
    BY Zenon DEF loadState
  <2>2. QED
    BY <1>1, <1>4, <1>8, <2>1 DEF TypeOK, ConnOK, Granted, DownIsEmpty
<1>10. Bounded(peers)' /\ (~rewound => Distinct(peers))' /\ BelowCounter'
  BY <1>1, <1>5, <1>8 DEF BelowCounter, Bounded, Distinct
<1>11. FileOK' /\ FileWorks'
  BY <1>1 DEF FileOK, FileWorks, Bounded, Distinct
<1>12. AccessIsRecorded' /\ PaidAccessWorks'
  BY <1>1, <1>7 DEF AccessIsRecorded, PaidAccessWorks
<1>13. QED
  BY <1>9, <1>10, <1>11, <1>12

LEMMA TickIInv ==
    ASSUME IInv, Tick
    PROVE  IInv'
<1> USE DEF IInv
<1>1. /\ now \in Nat /\ now' = now + 1
      /\ window' = [k \in Keys |-> IF window[k] > now' THEN window[k] ELSE 0]
      /\ UNCHANGED <<up, peers, nextIP, file, kernel, conn, rewound, stray>>
  BY DEF Tick, TypeOK
<1>2. TypeOK'
  BY <1>1 DEF TypeOK
<1>3. ConnOK'
  <2> SUFFICES ASSUME NEW h \in Handlers, conn[h].pc = "granted"
               PROVE  Granted(conn[h])'
    BY <1>1 DEF ConnOK
  <2>1. /\ conn[h].key \in Keys /\ conn[h].until \in Nat /\ conn[h].timeout \in Nat
        /\ now < conn[h].until => window[conn[h].key] = conn[h].until
        /\ conn[h].until < now + conn[h].timeout * TicksPerSec + TicksPerSec
    BY DEF ConnOK, Granted, TypeOK, Conn
  <2>2. conn[h].timeout * TicksPerSec \in Nat /\ TicksPerSec \in Nat
    BY <2>1, WgAssumption
  <2>3. conn[h].until < now' + conn[h].timeout * TicksPerSec + TicksPerSec
    BY <1>1, <2>1, <2>2
  <2>4. now' < conn[h].until => window'[conn[h].key] = conn[h].until
    BY <1>1, <2>1
  <2>5. QED
    BY <1>1, <2>1, <2>3, <2>4 DEF Granted
<1>4. Bounded(peers)' /\ (~rewound => Distinct(peers))' /\ BelowCounter' /\ DownIsEmpty'
  BY <1>1 DEF BelowCounter, Bounded, Distinct, DownIsEmpty
<1>5. FileOK'
  BY <1>1 DEF FileOK, Bounded, Distinct
<1>6. Unix \in Nat /\ Unix' \in Nat /\ Unix <= Unix'
  <2>1. now' \in Nat /\ now <= now'
    BY <1>1
  <2>2. now \div TicksPerSec \in Nat /\ now' \div TicksPerSec \in Nat
    BY <1>1, <2>1, SecondsOf
  <2>3. now \div TicksPerSec <= now' \div TicksPerSec
    BY <1>1, <2>1, UnixMonotone
  <2>4. QED
    BY <2>2, <2>3 DEF Unix
<1>7. file # Torn => \A k \in Keys : file[k] # NoPeer => file[k].expires \in Nat
  BY DEF TypeOK, Tables, Peer
<1>8. FileWorks'
  BY <1>1, <1>6, <1>7 DEF FileWorks
<1>9. AccessIsRecorded' /\ PaidAccessWorks'
  BY <1>1 DEF AccessIsRecorded, PaidAccessWorks
<1>10. QED
  BY <1>2, <1>3, <1>4, <1>5, <1>8, <1>9

\* IInv is inductive.
LEMMA NextIInv == IInv /\ [Next]_vars => IInv'
<1> SUFFICES ASSUME IInv, [Next]_vars PROVE IInv'
  OBVIOUS
<1>1. CASE \E h \in Handlers, k \in Keys : Connect(h, k) \/ ConnectRemote(h, k)
  BY <1>1, ConnectIInv, ConnectRemoteIInv
<1>2. CASE \E h \in Handlers : addPeer(h) \/ RemoteBump(h)
  BY <1>2, addPeerIInv, RemoteBumpIInv
<1>3. CASE \E k \in Keys : Disconnect(k)
  BY <1>3, DisconnectIInv
<1>4. CASE cleanup \/ Crash \/ loadState \/ Tick
  BY <1>4, cleanupIInv, CrashIInv, loadStateIInv, TickIInv
<1>5. CASE UNCHANGED vars
  BY <1>5 DEF vars, IInv, TypeOK, ConnOK, Granted, Unix, DownIsEmpty, Bounded, Distinct,
              BelowCounter, FileOK, FileWorks,
              AccessIsRecorded, PaidAccessWorks
<1>6. QED
  BY <1>1, <1>2, <1>3, <1>4, <1>5 DEF Next

LEMMA IInvHolds == Spec => []IInv
BY InitIInv, NextIInv, PTL DEF Spec

-----------------------------------------------------------------------------
(* The theorems.                                                           *)

\* Every behaviour of the manager stays within its types; the address counter
\* in particular never falls below wgClientStart.
THEOREM TypeCorrect == Spec => []TypeOK
<1>1. IInv => TypeOK
  BY DEF IInv
<1>2. QED
  BY <1>1, IInvHolds, PTL

\* No two records have the same address until the counter goes back, whatever
\* the crashes, the torn files and the restarts of newWGManager.
THEOREM NoAddressTwice == Spec => []AddressesDistinct
<1>1. IInv => AddressesDistinct
  BY DEF IInv, AddressesDistinct, Distinct
<1>2. QED
  BY <1>1, IInvHolds, PTL

\* cleanup finds every key that has access, but for the keys in stray.
THEOREM AccessRecorded == Spec => []AccessIsRecorded
<1>1. IInv => AccessIsRecorded
  BY DEF IInv
<1>2. QED
  BY <1>1, IInvHolds, PTL

\* The address in a record is the one that the interface serves.
THEOREM AccessWorks == Spec => []PaidAccessWorks
<1>1. IInv => PaidAccessWorks
  BY DEF IInv
<1>2. QED
  BY <1>1, IInvHolds, PTL

\* The record of a request whose window is open reaches the window's last
\* second.
LEMMA NewPeerReaches ==
    ASSUME IInv, NEW h \in Handlers, NEW k \in Keys, conn[h].pc = "granted",
           conn[h].key = k, now < conn[h].until
    PROVE  window[k] < CutOff(NewPeer(h, k)) + TicksPerSec
<1>1. /\ window[k] = conn[h].until
      /\ conn[h].until < now + conn[h].timeout * TicksPerSec + TicksPerSec
  BY DEF IInv, ConnOK, Granted
<1>2. /\ now \in Nat /\ conn[h].timeout \in Nat /\ conn[h].until \in Nat
  BY DEF IInv, TypeOK, Conn
<1>3. PICK t \in Nat : t = conn[h].timeout
  BY <1>2
<1>4. PICK u \in Nat : /\ u = now \div TicksPerSec
                      /\ now < u * TicksPerSec + TicksPerSec
  BY <1>2, SecondsOf
<1>5. CutOff(NewPeer(h, k)) = (u + t + 1) * TicksPerSec
  BY <1>3, <1>4 DEF CutOff, NewPeer, Unix
<1>6. (u + t + 1) * TicksPerSec = u * TicksPerSec + t * TicksPerSec + TicksPerSec
  BY WgAssumption
<1>7. u * TicksPerSec \in Nat /\ t * TicksPerSec \in Nat /\ TicksPerSec \in Nat
  BY WgAssumption
<1>8. QED
  BY <1>1, <1>2, <1>3, <1>4, <1>5, <1>6, <1>7

\* The only step that writes a new record is addPeer, and its record reaches
\* the last second of the window of its key.
LEMMA NewRecordLasts ==
    ASSUME IInv, [Next]_vars, NEW k \in Keys, up, ~Late(k),
           peers'[k] \notin {peers[k], NoPeer}
    PROVE  window[k] < CutOff(peers'[k]) + TicksPerSec
<1>1. CASE \E h \in Handlers, j \in Keys : Connect(h, j) \/ ConnectRemote(h, j)
  BY <1>1 DEF Connect, ConnectRemote
<1>2. ASSUME NEW h \in Handlers, addPeer(h)
      PROVE  window[k] < CutOff(peers'[k]) + TicksPerSec
  <2>1. conn[h].key = k /\ peers'[k] = NewPeer(h, k)
    BY <1>2, GrantedKey DEF addPeer, IInv, TypeOK, Tables
  <2>2. conn[h].pc = "granted"
    BY <1>2 DEF addPeer
  <2>3. now < conn[h].until
    BY <2>1, <2>2 DEF Late, IInv, TypeOK, Conn
  <2>4. QED
    BY <2>1, <2>2, <2>3, NewPeerReaches
<1>3. CASE \E h \in Handlers : RemoteBump(h)
  BY <1>3 DEF RemoteBump
<1>4. CASE \E j \in Keys : Disconnect(j)
  BY <1>4 DEF Disconnect, removePeer, IInv, TypeOK, Tables
<1>5. CASE cleanup \/ Crash \/ loadState \/ Tick
  BY <1>5 DEF cleanup, Crash, loadState, Tick, NoPeers
<1>6. CASE UNCHANGED vars
  BY <1>6 DEF vars
<1>7. QED
  BY <1>1, <1>2, <1>3, <1>4, <1>5, <1>6 DEF Next

\* A new record is cut off less than a second before the window that its key
\* has open, for any resolution of the clock, also when a second request of the
\* key is acted on between the grant and addPeer.
THEOREM TimeServed == Spec => PaidTimeServed
<1>1. IInv /\ [Next]_vars
        => [\A k \in Keys : /\ up /\ ~Late(k)
                            /\ peers'[k] \notin {peers[k], NoPeer}
                            => window[k] < CutOff(peers'[k]) + TicksPerSec]_vars
  BY NewRecordLasts
<1>2. QED
  BY <1>1, IInvHolds, PTL DEF Spec, PaidTimeServed
=============================================================================
