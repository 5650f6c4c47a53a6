---------------------------- MODULE DaemonProofs ----------------------------
(***************************************************************************)
(* Proofs of the safety properties of Daemon, for any numbers of shims, of *)
(* clients of the HTTP port, of slots and of accounting events.  The three *)
(* invariants are about the counters, the shutdown and the ledger.         *)
(***************************************************************************)
EXTENDS Daemon, FiniteSetTheorems, TLAPS

Stages == {"none", "backlog", "hand"} \cup Working

Metrics == [total : Nat, accept : Nat, reject : Nat, errors : Nat]

\* The types of the server's variables.
ServerOK ==
    /\ client \in [Clients -> {"idle", "waiting", "accepted", "rejected"}]
    /\ stage \in [Clients -> Stages]
    /\ result \in [Clients -> {"none", "accept", "reject"}]
    /\ sem \in Nat /\ authWG \in Nat /\ metrics \in Metrics
    /\ late \subseteq Clients

\* The accept loop holds one connection at most, a shim's; a request that has
\* been processed has a result; a client that has not called has no request.
StageInv ==
    /\ \A c \in Clients : stage[c] = "hand" => c \in Shims /\ loop = "hand"
    /\ \A c, d \in Clients : stage[c] = "hand" /\ stage[d] = "hand" => c = d
    /\ \A c \in Clients : stage[c] \in {"newline", "answer", "record"} => result[c] # "none"
    /\ \A c \in Clients : client[c] = "idle" => stage[c] = "none"

\* CountsMatch, also of a daemon that does not run.
CountInv ==
    /\ IsFiniteSet(Handlers)
    /\ authWG = Cardinality(Handlers)
    /\ sem = Cardinality(Handlers \cap Shims) /\ sem <= MaxAuth
    /\ metrics.total = metrics.accept + metrics.reject + metrics.errors + authWG

-----------------------------------------------------------------------------
(* The counters.                                                           *)

LEMMA InitServer == Init => ServerOK /\ StageInv /\ CountInv
<1> SUFFICES ASSUME Init PROVE ServerOK /\ StageInv /\ CountInv
  OBVIOUS
<1>1. Handlers = {}
  BY DEF Init, Handlers, Working
<1>2. ServerOK /\ StageInv
  BY DEF Init, ServerOK, StageInv, Stages, NoMetrics, Metrics
<1>3. CountInv
  <2>1. Handlers \cap Shims = {}
    BY <1>1
  <2>2. QED
    BY <1>1, <2>1, FS_EmptySet, DaemonAssumption DEF Init, CountInv, NoMetrics
<1>4. QED
  BY <1>2, <1>3

\* A request is counted.
LEMMA HandlerStarts ==
    ASSUME ServerOK, CountInv, NEW c \in Clients, stage[c] \notin Working,
           NEW to \in Working, Goto(c, to), authWG' = authWG + 1, Count("total"),
           sem' = IF c \in Shims THEN sem + 1 ELSE sem,
           c \in Shims => sem < MaxAuth
    PROVE  CountInv'
<1>1. Handlers' = Handlers \cup {c} /\ c \notin Handlers
  BY DEF Handlers, Goto, ServerOK
<1>2. IsFiniteSet(Handlers') /\ Cardinality(Handlers') = Cardinality(Handlers) + 1
  BY <1>1, FS_AddElement DEF CountInv
<1>3. Cardinality(Handlers' \cap Shims) =
          IF c \in Shims THEN Cardinality(Handlers \cap Shims) + 1 ELSE Cardinality(Handlers \cap Shims)
  <2>1. IsFiniteSet(Handlers \cap Shims)
    BY FS_Subset DEF CountInv
  <2>2. CASE c \in Shims
    <3>1. Handlers' \cap Shims = (Handlers \cap Shims) \cup {c} /\ c \notin Handlers \cap Shims
      BY <1>1, <2>2
    <3>2. QED
      BY <2>1, <2>2, <3>1, FS_AddElement
  <2>3. CASE c \notin Shims
    <3>1. Handlers' \cap Shims = Handlers \cap Shims
      BY <1>1, <2>3
    <3>2. QED
      BY <2>3, <3>1
  <2>4. QED
    BY <2>2, <2>3
<1>4. /\ metrics'.total = metrics.total + 1 /\ metrics'.accept = metrics.accept
      /\ metrics'.reject = metrics.reject /\ metrics'.errors = metrics.errors
      /\ metrics \in Metrics
  BY DEF Count, ServerOK, Metrics
<1>5. sem' <= MaxAuth
  BY DaemonAssumption DEF CountInv, ServerOK
<1>6. authWG' = Cardinality(Handlers') /\ sem' = Cardinality(Handlers' \cap Shims)
  BY <1>2, <1>3 DEF CountInv
<1>7. metrics'.total = metrics'.accept + metrics'.reject + metrics'.errors + authWG'
  BY <1>4 DEF CountInv, ServerOK, Metrics
<1>8. QED
  BY <1>2, <1>5, <1>6, <1>7 DEF CountInv

\* A handler returns, its result or its error counted.
LEMMA HandlerReturns ==
    ASSUME ServerOK, CountInv, NEW c \in Clients, stage[c] \in Working, Return(c),
           NEW k \in {"accept", "reject", "errors"}, Count(k)
    PROVE  CountInv' /\ authWG' \in Nat /\ sem' \in Nat /\ metrics' \in Metrics
<1>1. Handlers' = Handlers \ {c} /\ c \in Handlers
  BY DEF Handlers, Goto, ServerOK, Return, Working
<1>2. /\ IsFiniteSet(Handlers') /\ Cardinality(Handlers') = Cardinality(Handlers) - 1
      /\ Cardinality(Handlers') \in Nat
  BY <1>1, FS_RemoveElement, FS_CardinalityType DEF CountInv
<1>3. /\ Cardinality(Handlers' \cap Shims) =
          IF c \in Shims THEN Cardinality(Handlers \cap Shims) - 1 ELSE Cardinality(Handlers \cap Shims)
      /\ Cardinality(Handlers' \cap Shims) \in Nat
  <2>1. IsFiniteSet(Handlers \cap Shims) /\ IsFiniteSet(Handlers' \cap Shims)
    BY <1>2, FS_Subset DEF CountInv
  <2>2. CASE c \in Shims
    <3>1. Handlers' \cap Shims = (Handlers \cap Shims) \ {c} /\ c \in Handlers \cap Shims
      BY <1>1, <2>2
    <3>2. Cardinality(Handlers' \cap Shims) \in Nat
      BY <2>1, FS_CardinalityType
    <3>3. Cardinality(Handlers' \cap Shims) = Cardinality(Handlers \cap Shims) - 1
      BY <2>1, <3>1, FS_RemoveElement
    <3>4. QED
      BY <2>2, <3>2, <3>3
  <2>3. CASE c \notin Shims
    <3>1. Handlers' \cap Shims = Handlers \cap Shims
      BY <1>1, <2>3
    <3>2. QED
      BY <2>1, <2>3, <3>1, FS_CardinalityType
  <2>4. QED
    BY <2>2, <2>3
<1>4. /\ metrics \in Metrics /\ metrics' \in Metrics /\ metrics'.total = metrics.total
      /\ metrics'.accept + metrics'.reject + metrics'.errors
             = metrics.accept + metrics.reject + metrics.errors + 1
  <2>1. CASE k = "accept"
    BY <2>1 DEF Count, ServerOK, Metrics
  <2>2. CASE k = "reject"
    BY <2>2 DEF Count, ServerOK, Metrics
  <2>3. CASE k = "errors"
    BY <2>3 DEF Count, ServerOK, Metrics
  <2>4. QED
    BY <2>1, <2>2, <2>3
<1>5. /\ authWG' = authWG - 1 /\ sem' = IF c \in Shims THEN sem - 1 ELSE sem
      /\ authWG \in Nat /\ sem \in Nat /\ MaxAuth \in Nat
  BY DaemonAssumption DEF Return, ServerOK
<1>6. authWG' = Cardinality(Handlers') /\ sem' = Cardinality(Handlers' \cap Shims) /\ sem' <= MaxAuth
  BY <1>2, <1>3, <1>5 DEF CountInv
<1>7. metrics'.total = metrics'.accept + metrics'.reject + metrics'.errors + authWG'
  BY <1>4, <1>5 DEF CountInv, Metrics
<1>8. QED
  BY <1>2, <1>3, <1>4, <1>6, <1>7 DEF CountInv

\* What the counters count, and who holds what, in one invariant.
ServerInv == ServerOK /\ StageInv /\ CountInv

\* A request moves and no counter does.
LEMMA QuietCounts ==
    ASSUME CountInv, UNCHANGED <<sem, authWG, metrics>>, Handlers' = Handlers
    PROVE  CountInv'
  BY DEF CountInv

\* A client that is answered, gives up or is hung up on is no longer idle, and
\* one that is idle stays so.
LEMMA HungUpType ==
    ASSUME ServerOK, NEW cs, client' = HungUp(cs)
    PROVE  /\ client' \in [Clients -> {"idle", "waiting", "accepted", "rejected"}]
           /\ \A c \in Clients : (client'[c] = "idle") = (client[c] = "idle")
           /\ \A c \in Clients : client'[c] = "accepted" => client[c] = "accepted"
  BY DEF ServerOK, HungUp

\* The step of one request.
LEMMA HandleServer ==
    ASSUME ServerInv, NEW c \in Clients, Accept(c) \/ Handle(c)
    PROVE  ServerInv'
<1> USE DEF ServerInv, Working
<1>1. CASE Accept(c)
  <2>1. Handlers' = Handlers
    BY <1>1 DEF Accept, Goto, Handlers, ServerOK
  <2>2. ServerOK' /\ StageInv'
    BY <1>1, DaemonAssumption DEF Accept, Goto, ServerOK, StageInv, Stages
  <2>3. QED
    BY <1>1, <2>1, <2>2, QuietCounts DEF Accept
<1>2. CASE Spawn(c)
  <2>1. stage[c] = "hand" /\ c \in Shims /\ sem < MaxAuth
    BY <1>2 DEF Spawn, HasSlot, StageInv
  <2>2. CountInv'
    <3>1. "reading" \in Working /\ stage[c] \notin Working /\ sem' = IF c \in Shims THEN sem + 1 ELSE sem
      BY <1>2, <2>1 DEF Spawn
    <3>2. QED
      BY <1>2, <2>1, <3>1, HandlerStarts DEF Spawn
  <2>3. metrics' \in Metrics
    BY <1>2 DEF Spawn, Count, ServerOK, Metrics
  <2>4. ServerOK'
    BY <1>2, <2>3 DEF Spawn, Goto, ServerOK, Stages
  <2>5. StageInv'
    BY <1>2 DEF Spawn, Goto, ServerOK, StageInv
  <2>6. QED
    BY <2>2, <2>4, <2>5
<1>3. CASE Refuse(c)
  <2>1. Handlers' = Handlers
    BY <1>3 DEF Refuse, Goto, Handlers, ServerOK
  <2>2. client' = HungUp({c})
    BY <1>3 DEF Refuse
  <2>3. ServerOK' /\ StageInv'
    BY <1>3, <2>2, HungUpType DEF Refuse, Goto, ServerOK, StageInv, Stages
  <2>4. QED
    BY <1>3, <2>1, <2>3, QuietCounts DEF Refuse
<1>4. CASE Post(c)
  <2>1. stage[c] = "backlog" /\ c \notin Shims
    BY <1>4, DaemonAssumption DEF Post
  <2>2. CountInv'
    <3>1. "processing" \in Working /\ stage[c] \notin Working /\ sem' = IF c \in Shims THEN sem + 1 ELSE sem
      BY <1>4, <2>1 DEF Post
    <3>2. QED
      BY <1>4, <2>1, <3>1, HandlerStarts DEF Post
  <2>3. metrics' \in Metrics
    BY <1>4 DEF Post, Count, ServerOK, Metrics
  <2>4. ServerOK' /\ StageInv'
    BY <1>4, <2>3 DEF Post, Goto, ServerOK, StageInv, Stages
  <2>5. QED
    BY <2>2, <2>4
<1>5. CASE Read(c)
  <2>1. CASE Goto(c, "processing") /\ UNCHANGED <<client, result, sem, authWG, metrics>>
    <3>1. Handlers' = Handlers
      BY <1>5, <2>1 DEF Read, Goto, Handlers, ServerOK
    <3>2. ServerOK' /\ StageInv'
      BY <1>5, <2>1 DEF Read, Goto, ServerOK, StageInv, Stages
    <3>3. QED
      BY <2>1, <3>1, <3>2, QuietCounts
  <2>2. CASE Return(c) /\ Count("errors") /\ client' = HungUp({c})
    <3>1. CountInv' /\ authWG' \in Nat /\ sem' \in Nat /\ metrics' \in Metrics
      BY <1>5, <2>2, HandlerReturns DEF Read
    <3>2. /\ client' \in [Clients -> {"idle", "waiting", "accepted", "rejected"}]
          /\ \A d \in Clients : client'[d] = "idle" => client[d] = "idle"
      BY <2>2, HungUpType
    <3>3. UNCHANGED <<loop, late>> /\ stage' = [stage EXCEPT ![c] = "none"]
          /\ result' = [result EXCEPT ![c] = "none"]
      BY <1>5, <2>2 DEF Read, Return, Goto
    <3>4. ServerOK'
      BY <3>1, <3>2, <3>3 DEF ServerOK, Stages
    <3>5. StageInv'
      BY <3>2, <3>3 DEF ServerOK, StageInv
    <3>6. QED
      BY <3>1, <3>4, <3>5
  <2>3. QED
    BY <1>5, <2>1, <2>2 DEF Read
<1>6. CASE ProcessAuth(c)
  <2>1. Handlers' = Handlers
    BY <1>6 DEF ProcessAuth, Goto, Handlers, ServerOK
  <2>2. ServerOK' /\ StageInv'
    BY <1>6 DEF ProcessAuth, Goto, ServerOK, StageInv, Stages, serverVars
  <2>3. QED
    BY <1>6, <2>1, <2>2, QuietCounts DEF ProcessAuth, serverVars
<1>7. CASE RecordAuth(c) \/ RecordNewline(c) \/ RecordFails(c)
  <2>1. Handlers' = Handlers
    BY <1>7 DEF RecordAuth, RecordNewline, RecordFails, Goto, Handlers, ServerOK
  <2>2. ServerOK' /\ StageInv'
    BY <1>7 DEF RecordAuth, RecordNewline, RecordFails, Goto, ServerOK, StageInv, Stages,
               serverVars
  <2>3. QED
    BY <1>7, <2>1, <2>2, QuietCounts DEF RecordAuth, RecordNewline, RecordFails, serverVars
<1>8. CASE Answer(c)
  <2>1. result[c] \in {"accept", "reject"} /\ stage[c] \in Working
    BY <1>8 DEF Answer, StageInv, ServerOK
  <2>2. CountInv' /\ authWG' \in Nat /\ sem' \in Nat /\ metrics' \in Metrics
    BY <1>8, <2>1, HandlerReturns DEF Answer
  <2>3. /\ client' \in [Clients -> {"idle", "waiting", "accepted", "rejected"}]
        /\ \A d \in Clients : client'[d] = "idle" => client[d] = "idle"
    BY <1>8 DEF Answer, ServerOK
  <2>4. ServerOK' /\ StageInv'
    BY <1>8, <2>2, <2>3 DEF Answer, Return, Goto, ServerOK, StageInv, Stages
  <2>5. QED
    BY <2>2, <2>4
<1>9. QED
  BY <1>1, <1>2, <1>3, <1>4, <1>5, <1>6, <1>7, <1>8 DEF Handle

\* The process ends, and everything that it counted with it.
LEMMA GoneServer ==
    ASSUME ServerInv, Gone
    PROVE  ServerInv'
<1>1. Handlers' = {}
  BY DEF Gone, Handlers, Working
<1>2. ServerOK' /\ StageInv'
  <2>1. client' = HungUp({c \in Clients : stage[c] # "none"})
    BY DEF Gone
  <2>2. client' \in [Clients -> {"idle", "waiting", "accepted", "rejected"}]
    BY <2>1, HungUpType DEF ServerInv
  <2>3. QED
    BY <2>2 DEF Gone, ServerOK, StageInv, Stages, NoMetrics, Metrics
<1>3. CountInv'
  <2>1. Handlers' \cap Shims = {}
    BY <1>1
  <2>2. QED
    BY <1>1, <2>1, FS_EmptySet, DaemonAssumption DEF Gone, CountInv, NoMetrics
<1>4. QED
  BY <1>2, <1>3 DEF ServerInv

LEMMA NextServer == ServerInv /\ [Next]_vars => ServerInv'
<1> SUFFICES ASSUME ServerInv, [Next]_vars PROVE ServerInv'
  OBVIOUS
<1> USE DEF ServerInv
<1>1. ASSUME NEW c \in Clients, Call(c) PROVE ServerInv'
  <2>1. Handlers' = Handlers
    BY <1>1 DEF Call, Goto, Handlers, ServerOK, StageInv, Working
  <2>2. ServerOK' /\ StageInv'
    BY <1>1 DEF Call, Goto, ServerOK, StageInv, Stages, serverVars
  <2>3. QED
    BY <1>1, <2>1, <2>2, QuietCounts DEF Call, serverVars
<1>2. ASSUME NEW c \in Clients, TimesOut(c) PROVE ServerInv'
  <2>1. Handlers' = Handlers
    BY <1>2 DEF TimesOut, Handlers
  <2>2. ServerOK' /\ StageInv'
    BY <1>2 DEF TimesOut, ServerOK, StageInv, serverVars
  <2>3. QED
    BY <1>2, <2>1, <2>2, QuietCounts DEF TimesOut, serverVars
<1>3. CASE \/ \E e \in Events : AccountNewline(e) \/ \E s \in StatusTypes : Account(e, s)
           \/ Signal \/ HttpDone \/ CloseListener \/ WaitDone \/ RemoveSocket \/ Expire
           \/ Restart \/ UNCHANGED vars
  <2>1. UNCHANGED <<client, stage, result, sem, authWG, metrics, loop, late>>
    BY <1>3 DEF AccountNewline, Account, Signal, HttpDone, CloseListener, WaitDone, RemoveSocket,
       Step, Expire, Restart, vars, serverVars
  <2>2. Handlers' = Handlers
    BY <2>1 DEF Handlers
  <2>3. QED
    BY <2>1, <2>2, QuietCounts DEF ServerOK, StageInv
<1>4. CASE LoopEnds
  <2>1. Handlers' = Handlers
    BY <1>4 DEF LoopEnds, Handlers
  <2>2. ServerOK' /\ StageInv'
    BY <1>4 DEF LoopEnds, ServerOK, StageInv
  <2>3. QED
    BY <1>4, <2>1, <2>2, QuietCounts DEF LoopEnds
<1>5. CASE Exit \/ Crash
  BY <1>5, GoneServer DEF Exit, Crash
<1>6. QED
  BY <1>1, <1>2, <1>3, <1>4, <1>5, HandleServer DEF Next

LEMMA ServerInductive == Spec => []ServerInv
<1>1. Init => ServerInv
  BY InitServer DEF ServerInv
<1>2. QED
  BY <1>1, NextServer, PTL DEF Spec

\* The semaphore, the wait group and the counters agree with the requests that
\* are under way, however each of them ends.
THEOREM CountsAgree == Spec => []CountsMatch
<1>1. ServerInv => CountsMatch
  BY DEF ServerInv, CountInv, CountsMatch
<1>2. QED
  BY <1>1, ServerInductive, PTL

-----------------------------------------------------------------------------
(* The shutdown.                                                           *)

\* Once the listener is closed no connection comes to the accept loop; once the
\* wait is over, and not because its time was, what works is the connection
\* that the loop still had in its hands.
DrainInv ==
    /\ shutdown \in {"wait", "remove", "complete"} => ~listening
    /\ late # {} => /\ shutdown \in {"remove", "complete"} /\ loop # "hand"
                    /\ \E c \in Clients : late = {c}
    /\ shutdown \notin {"none", "http"} /\ ~expired => \A c \in WebClients : stage[c] = "none"
    /\ shutdown \in {"remove", "complete"} /\ ~expired => Handlers \subseteq late

LEMMA InitDrain == Init => DrainInv
  BY DEF Init, DrainInv

\* A step of a request other than Spawn and Post: no handler begins.
LEMMA QuietDrain ==
    ASSUME DrainInv, UNCHANGED <<shutdown, expired, listening, late>>,
           late = {} \/ loop' # "hand",
           Handlers' \subseteq Handlers,
           \A c \in WebClients : shutdown # "none" /\ stage[c] = "none" => stage'[c] = "none"
    PROVE  DrainInv'
  BY DEF DrainInv

LEMMA NextDrain == ServerInv /\ DrainInv /\ [Next]_vars => DrainInv'
<1> SUFFICES ASSUME ServerInv, DrainInv, [Next]_vars PROVE DrainInv'
  OBVIOUS
<1> USE DEF ServerInv
<1>1. ASSUME NEW c \in Clients, Call(c) \/ TimesOut(c) PROVE DrainInv'
  <2>1. UNCHANGED <<shutdown, expired, listening, late, loop>>
    BY <1>1 DEF Call, TimesOut, serverVars
  <2>2. Handlers' \subseteq Handlers
    BY <1>1 DEF Call, TimesOut, Goto, Handlers, ServerOK, StageInv, Working
  <2>3. \A d \in WebClients : shutdown # "none" /\ stage[d] = "none" => stage'[d] = "none"
    BY <1>1, DaemonAssumption DEF Call, TimesOut, Goto, ServerOK, Clients
  <2>4. QED
    BY <2>1, <2>2, <2>3, QuietDrain DEF DrainInv
<1>2. ASSUME NEW c \in Clients,
             \/ Accept(c) \/ Refuse(c) \/ Read(c) \/ ProcessAuth(c) \/ RecordAuth(c)
             \/ RecordNewline(c) \/ RecordFails(c) \/ Answer(c)
      PROVE  DrainInv'
  <2>1. UNCHANGED <<shutdown, expired, listening, late>>
    BY <1>2 DEF Accept, Refuse, Read, ProcessAuth, RecordAuth, RecordNewline, RecordFails,
       Answer, serverVars
  <2>2. late = {} \/ loop' # "hand"
    BY <1>2 DEF DrainInv, Accept, Refuse, Read, ProcessAuth, RecordAuth, RecordNewline,
       RecordFails, Answer, serverVars
  <2>3. stage[c] # "none" /\ \A d \in Clients \ {c} : stage'[d] = stage[d]
    BY <1>2 DEF Accept, Refuse, Read, ProcessAuth, RecordAuth, RecordNewline, RecordFails, Answer,
       Return, Goto, ServerOK
  <2>4. stage[c] \in Working \/ stage'[c] \notin Working
    BY <1>2 DEF Accept, Refuse, Read, ProcessAuth, RecordAuth, RecordNewline, RecordFails, Answer,
       Return, Goto, ServerOK, Working
  <2>5. Handlers' \subseteq Handlers /\ \A d \in WebClients : stage[d] = "none" => stage'[d] = "none"
    BY <2>3, <2>4 DEF Handlers, Clients
  <2>6. QED
    BY <2>1, <2>2, <2>5, QuietDrain
<1>3. ASSUME NEW c \in Clients, Spawn(c) PROVE DrainInv'
  <2>1. /\ UNCHANGED <<shutdown, expired, listening>> /\ c \in Shims /\ loop = "hand" /\ loop' = "accept"
        /\ \A d \in Clients \ {c} : stage'[d] = stage[d]
        /\ late' = IF shutdown \in {"remove", "complete"} THEN late \cup {c} ELSE late
    BY <1>3 DEF Spawn, Goto, ServerOK, StageInv
  <2>2. late = {} /\ Handlers' \subseteq Handlers \cup {c}
    BY <2>1 DEF DrainInv, Handlers
  <2>3. \A d \in WebClients : stage'[d] = stage[d]
    BY <2>1, DaemonAssumption DEF Clients
  <2>4. late' # {} => shutdown \in {"remove", "complete"} /\ late' = {c}
    BY <2>1, <2>2
  <2>5. shutdown \in {"remove", "complete"} /\ ~expired => Handlers' \subseteq late'
    BY <2>1, <2>2 DEF DrainInv
  <2>6. QED
    BY <2>1, <2>3, <2>4, <2>5 DEF DrainInv
<1>4. ASSUME NEW c \in Clients, Post(c) PROVE DrainInv'
  <2>1. /\ UNCHANGED <<shutdown, expired, listening, late, loop>> /\ c \in WebClients
        /\ stage[c] = "backlog" /\ \A d \in Clients \ {c} : stage'[d] = stage[d]
    BY <1>4 DEF Post, Goto, ServerOK
  <2>2. expired \/ shutdown \in {"none", "http"}
    BY <2>1 DEF DrainInv
  <2>3. QED
    BY <2>1, <2>2 DEF DrainInv
<1>5. CASE \/ \E e \in Events : AccountNewline(e) \/ \E s \in StatusTypes : Account(e, s)
           \/ UNCHANGED vars \/ LoopEnds
  <2>1. UNCHANGED <<stage, shutdown, expired, listening, late>> /\ loop' \in {loop, "ended"}
    BY <1>5 DEF AccountNewline, Account, vars, serverVars, LoopEnds
  <2>2. QED
    BY <2>1 DEF DrainInv, Handlers
<1>6. CASE Expire
  BY <1>6 DEF Expire, DrainInv, Handlers
<1>7. CASE Signal \/ RemoveSocket
  <2>1. /\ UNCHANGED <<stage, expired, listening, late, loop>>
        /\ (shutdown = "none" /\ shutdown' = "http") \/ (shutdown = "remove" /\ shutdown' = "complete")
    BY <1>7 DEF Signal, RemoveSocket, Step
  <2>2. QED
    BY <2>1 DEF DrainInv, Handlers
<1>8. CASE HttpDone
  <2>1. /\ UNCHANGED <<stage, expired, listening, late, loop>>
        /\ shutdown = "http" /\ shutdown' = "close"
        /\ expired \/ \A c \in WebClients : stage[c] = "none"
    BY <1>8 DEF HttpDone, Step
  <2>2. QED
    BY <2>1 DEF DrainInv
<1>9. CASE CloseListener
  <2>1. UNCHANGED <<stage, expired, late, loop>> /\ shutdown = "close" /\ shutdown' = "wait"
    BY <1>9 DEF CloseListener, Step
  <2>2. ~listening'
    BY <1>9 DEF CloseListener
  <2>3. QED
    BY <2>1, <2>2 DEF DrainInv
<1>10. CASE WaitDone
  <2>1. /\ UNCHANGED <<stage, expired, listening, late, loop>>
        /\ shutdown = "wait" /\ shutdown' = "remove"
        /\ expired \/ authWG = 0
    BY <1>10 DEF WaitDone, Waited, Step
  <2>2. authWG = 0 => Handlers = {}
    BY FS_EmptySet DEF CountInv
  <2>3. QED
    BY <2>1, <2>2 DEF DrainInv, Handlers
<1>11. CASE Exit \/ Crash
  <2>1. Gone
    BY <1>11 DEF Exit, Crash
  <2>2. /\ late' = {} /\ ~listening' /\ \A c \in Clients : stage'[c] = "none"
        /\ Handlers' = {}
    BY <2>1 DEF Gone, Handlers, Working
  <2>3. QED
    BY <2>2 DEF DrainInv, Clients
<1>12. CASE Restart
  BY <1>12 DEF Restart, DrainInv
<1>13. QED
  BY <1>1, <1>2, <1>3, <1>4, <1>5, <1>6, <1>7, <1>8, <1>9, <1>10, <1>11, <1>12 DEF Next, Handle

\* A daemon that ends before its 30 s are over leaves no request behind that
\* it had counted when it began to wait, and one later request at most.
THEOREM ExitIsDrained == Spec => DrainedExit
<1>1. Init => DrainInv
  BY InitDrain
<1>2. DrainInv => (Exit /\ ~expired => Handlers \subseteq late /\ Cardinality(late) <= 1)
  <2> SUFFICES ASSUME DrainInv, Exit, ~expired
               PROVE  Handlers \subseteq late /\ Cardinality(late) <= 1
    OBVIOUS
  <2>1. Handlers \subseteq late
    BY DEF Exit, DrainInv
  <2>2. late = {} \/ \E c \in Clients : late = {c}
    BY DEF DrainInv
  <2>3. Cardinality(late) \in {0, 1}
    <3>1. CASE late = {}
      BY <3>1, FS_EmptySet
    <3>2. ASSUME NEW c, late = {c} PROVE Cardinality(late) = 1
      BY <3>2, FS_Singleton
    <3>3. QED
      BY <2>2, <3>1, <3>2
  <2>4. QED
    BY <2>1, <2>3
<1>3. QED
  BY <1>1, <1>2, NextDrain, ServerInductive, PTL DEF Spec, DrainedExit

-----------------------------------------------------------------------------
(* The file of the ledger.                                                 *)

\* What is written to it.
Kinds == {"auth_accept", "auth_reject", "accounting_start", "accounting_stop",
          "accounting_update", "accounting_on", "accounting_off", "newline", "fragment"}
Written == [event : Kinds, who : Clients \cup Events \cup {Nobody}, sats : Nat]

AcceptPositions(f) == {i \in Positions(f) : f[i].event = "auth_accept"}
Payers(f) == {c \in Clients : \E e \in Entries(f) : e.who = c /\ e.event = "auth_accept"}

\* A set of naturals has a least element.
LEMMA LeastNat ==
    ASSUME NEW T, T \subseteq Nat, T # {}
    PROVE  \E m \in T : \A n \in T : m <= n
<1> DEFINE R == OpToRel(<, Nat)
<1>1. IsWellFoundedOn(R, Nat)
  BY NatLessThanWellFounded, Zenon
<1> HIDE DEF R
<1>2. PICK m \in T : \A n \in T : ~(<<n, m>> \in R)
  BY <1>1, WFMin
<1>3. \A n \in T : n < m => <<n, m>> \in R
  BY <1>2 DEF OpToRel, R
<1>4. \A n \in T : ~(n < m)
  BY <1>2, <1>3, Zenon
<1>5. QED
  BY <1>4

\* The sum that RevenueSummary folds over entries of one price.
LEMMA SumOfEqual ==
    ASSUME NEW f, NEW S, IsFiniteSet(S), NEW p \in Nat, \A i \in S : f[i].sats = p
    PROVE  FoldSet(LAMBDA i, sum : sum + f[i].sats, 0, S) = p * Cardinality(S)
<1> DEFINE any(s) == CHOOSE x \in s : TRUE
           Sums(g) == g = [s \in SUBSET S |-> IF s = {} THEN 0
                                              ELSE g[s \ {any(s)}] + f[any(s)].sats]
           F == CHOOSE g : Sums(g)
<1>1. FoldSet(LAMBDA i, sum : sum + f[i].sats, 0, S) = F[S]
  BY DEF FoldSet, MapThenFoldSet
<1>2. ASSUME NEW s \in SUBSET S PROVE IsFiniteSet(s) /\ Cardinality(s) \in Nat
  BY FS_Subset, FS_CardinalityType
<1>3. ASSUME NEW s \in SUBSET S, s # {}
      PROVE  /\ any(s) \in s /\ f[any(s)].sats = p /\ s \ {any(s)} \in SUBSET S
             /\ Cardinality(s \ {any(s)}) = Cardinality(s) - 1
  <2>1. any(s) \in s
    BY <1>3
  <2> HIDE DEF any
  <2>2. QED
    BY <1>2, <2>1, FS_RemoveElement
<1> HIDE DEF any
<1>4. Sums([s \in SUBSET S |-> p * Cardinality(s)])
  <2> DEFINE g == [s \in SUBSET S |-> p * Cardinality(s)]
  <2>1. ASSUME NEW s \in SUBSET S
        PROVE  g[s] = IF s = {} THEN 0 ELSE g[s \ {any(s)}] + f[any(s)].sats
    <3>1. CASE s = {}
      BY <3>1, FS_EmptySet
    <3>2. CASE s # {}
      <4>1. g[s \ {any(s)}] = p * (Cardinality(s) - 1) /\ g[s] = p * Cardinality(s)
        BY <1>3, <3>2
      <4>2. p * Cardinality(s) = p * (Cardinality(s) - 1) + p
        BY <1>2
      <4>3. QED
        BY <1>3, <3>2, <4>1, <4>2
    <3>3. QED
      BY <3>1, <3>2
  <2>2. QED
    BY <2>1
<1>5. Sums(F)
  BY <1>4
<1> HIDE DEF F
<1>6. ASSUME NEW s \in SUBSET S
      PROVE  F[s] = IF s = {} THEN 0 ELSE F[s \ {any(s)}] + f[any(s)].sats
  BY <1>5
<1>7. F[{}] = 0 /\ p * Cardinality({}) = 0
  <2>1. {} \in SUBSET S
    OBVIOUS
  <2>2. F[{}] = 0
    BY <1>6, <2>1
  <2>3. Cardinality({}) = 0
    BY FS_EmptySet
  <2>4. QED
    BY <2>2, <2>3
<1> DEFINE Wrong == {s \in SUBSET S : F[s] # p * Cardinality(s)}
           Sizes == {Cardinality(s) : s \in Wrong}
<1>8. Wrong = {}
  <2> SUFFICES ASSUME Wrong # {} PROVE FALSE
    OBVIOUS
  <2>1. Sizes \subseteq Nat /\ Sizes # {}
    BY <1>2
  <2>2. PICK n \in Sizes : \A k \in Sizes : n <= k
    BY <2>1, LeastNat
  <2>3. PICK s \in Wrong : n = Cardinality(s)
    BY <2>2
  <2>4. s \in SUBSET S /\ F[s] # p * Cardinality(s) /\ s # {}
    BY <1>7, <2>3
  <2>5. PICK u : u = s \ {any(s)}
    OBVIOUS
  <2>6. u \in SUBSET S /\ Cardinality(u) = Cardinality(s) - 1 /\ Cardinality(s) \in Nat
    BY <1>2, <1>3, <2>4, <2>5
  <2>7. u \notin Wrong
    <3> SUFFICES ASSUME u \in Wrong PROVE FALSE
      OBVIOUS
    <3>1. Cardinality(u) \in Sizes
      OBVIOUS
    <3>2. Cardinality(s) <= Cardinality(u)
      BY <2>2, <2>3, <3>1
    <3>3. QED
      BY <2>6, <3>2
  <2>8. F[u] = p * (Cardinality(s) - 1)
    BY <2>6, <2>7
  <2>9. p * Cardinality(s) = p * (Cardinality(s) - 1) + p
    BY <2>6
  <2>10. QED
    BY <1>3, <1>6, <2>4, <2>5, <2>8, <2>9
<1>9. QED
  BY <1>1, <1>8

\* g is f with e at its end.
OneMore(f, e, g) ==
    /\ g \in Seq(Written) /\ Len(f) \in Nat /\ Len(g) = Len(f) + 1
    /\ g[Len(f) + 1] = e /\ \A i \in 1..Len(f) : g[i] = f[i]
    /\ Entries(f) \subseteq Entries(g)
    /\ e # Newline => e \in Entries(g)
    /\ Entries(g) \subseteq Entries(f) \cup {e}
    /\ Positions(g) = IF e = Newline THEN Positions(f) ELSE Positions(f) \cup {Len(f) + 1}

\* An entry or a newline is appended.
LEMMA Appended ==
    ASSUME NEW f \in Seq(Written), NEW e \in Written, NEW g, g = Append(f, e)
    PROVE  OneMore(f, e, g)
<1>1. /\ g \in Seq(Written) /\ Len(f) \in Nat /\ Len(g) = Len(f) + 1
      /\ g[Len(f) + 1] = e /\ \A i \in 1..Len(f) : g[i] = f[i]
  OBVIOUS
<1>2. 1..Len(g) = 1..Len(f) \cup {Len(f) + 1}
  BY <1>1
<1>3. Positions(g) = IF e = Newline THEN Positions(f) ELSE Positions(f) \cup {Len(f) + 1}
  BY <1>1, <1>2 DEF Positions
<1>4. \A i \in Positions(f) : i \in 1..Len(f) /\ g[i] = f[i] /\ i \in Positions(g)
  BY <1>1, <1>3 DEF Positions
<1>5. Entries(f) \subseteq Entries(g) /\ (e # Newline => e \in Entries(g))
      /\ Entries(g) \subseteq Entries(f) \cup {e}
  BY <1>1, <1>3, <1>4 DEF Entries
<1>6. QED
  BY <1>1, <1>3, <1>5 DEF OneMore

\* OnlyFailuresSpoil, of a file f and the requests F that failed.
LinesInv(f, F) ==
    \A i \in Positions(f) :
        /\ f[i].event = "fragment" => f[i].who \in F \cup Events
        /\ i + 1 \in Positions(f) =>
               f[i].who \in F \/ f[i].who \in Events \/ f[i + 1].who \in Events

\* A last line that is open was left by a request of F, an accounting process,
\* or the handler m that holds the mutex.
LastInv(f, F, m) ==
    Len(f) \in Positions(f) => f[Len(f)].who \in F \cup Events \cup ({m} \cap Clients)

\* The lines stay in order when e is written, to a complete line or by an
\* accounting process or after a failure; a beginning of an entry is a failure.
LEMMA LinesAppend ==
    ASSUME NEW f \in Seq(Written), NEW e \in Written, NEW g, g = Append(f, e),
           NEW F, NEW G, F \subseteq G, LinesInv(f, F),
           Len(f) \in Positions(f) /\ e # Newline =>
               f[Len(f)].who \in G \cup Events \/ e.who \in Events,
           e.event = "fragment" => e.who \in G \cup Events
    PROVE  LinesInv(g, G)
<1>1. /\ Len(f) \in Nat /\ g[Len(f) + 1] = e /\ \A i \in 1..Len(f) : g[i] = f[i]
      /\ Positions(g) = IF e = Newline THEN Positions(f) ELSE Positions(f) \cup {Len(f) + 1}
  <2>1. OneMore(f, e, g)
    BY Appended, Zenon
  <2>2. QED
    BY <2>1 DEF OneMore
<1>2. Positions(f) \subseteq 1..Len(f)
  BY DEF Positions
<1>3. ASSUME NEW i \in Positions(g)
      PROVE  /\ g[i].event = "fragment" => g[i].who \in G \cup Events
             /\ i + 1 \in Positions(g) =>
                    g[i].who \in G \/ g[i].who \in Events \/ g[i + 1].who \in Events
  <2>1. CASE i = Len(f) + 1
    <3>1. i + 1 \notin Positions(g)
      BY <1>1, <1>2, <2>1
    <3>2. QED
      BY <1>1, <2>1, <3>1
  <2>2. CASE i # Len(f) + 1
    <3>1. i \in Positions(f) /\ i \in 1..Len(f) /\ g[i] = f[i]
      BY <1>1, <1>2, <1>3, <2>2
    <3>2. CASE i = Len(f)
      <4>1. i + 1 \in Positions(g) => e # Newline /\ g[i + 1] = e
        BY <1>1, <1>2, <3>1, <3>2
      <4>2. QED
        BY <3>1, <3>2, <4>1 DEF LinesInv
    <3>3. CASE i # Len(f)
      <4>1. i + 1 \in 1..Len(f) /\ g[i + 1] = f[i + 1]
        BY <1>1, <3>1, <3>3
      <4>2. i + 1 \in Positions(g) => i + 1 \in Positions(f)
        BY <1>1, <4>1
      <4>3. QED
        BY <3>1, <4>1, <4>2 DEF LinesInv
    <3>4. QED
      BY <3>2, <3>3
  <2>3. QED
    BY <2>1, <2>2
<1>4. QED
  BY <1>3 DEF LinesInv

\* What is last after e was written.
LEMMA LastAppend ==
    ASSUME NEW f \in Seq(Written), NEW e \in Written, NEW g, g = Append(f, e), NEW G, NEW m,
           e # Newline => e.who \in G \cup Events \cup ({m} \cap Clients)
    PROVE  LastInv(g, G, m)
<1>1. /\ Len(f) \in Nat /\ Len(g) = Len(f) + 1 /\ g[Len(f) + 1] = e
      /\ Positions(g) = IF e = Newline THEN Positions(f) ELSE Positions(f) \cup {Len(f) + 1}
  <2>1. OneMore(f, e, g)
    BY Appended, Zenon
  <2>2. QED
    BY <2>1 DEF OneMore
<1>2. Positions(f) \subseteq 1..Len(f)
  BY DEF Positions
<1>3. Len(g) \in Positions(g) => e # Newline
  BY <1>1, <1>2
<1>4. QED
  BY <1>1, <1>3 DEF LastInv

\* The accepts of a file: each has the price, and no client has two.
FileInv(f) ==
    /\ f \in Seq(Written)
    /\ \A i \in AcceptPositions(f) : f[i].sats = Price
    /\ IsFiniteSet(AcceptPositions(f)) /\ IsFiniteSet(Payers(f))
    /\ Cardinality(AcceptPositions(f)) = Cardinality(Payers(f))

\* What is not an accept changes nothing of this.
LEMMA OtherWrite ==
    ASSUME NEW f, FileInv(f), NEW e \in Written, e.event # "auth_accept", NEW g, g = Append(f, e)
    PROVE  FileInv(g) /\ Payers(g) = Payers(f)
<1>1. OneMore(f, e, g)
  <2>1. f \in Seq(Written)
    BY DEF FileInv
  <2>2. QED
    BY <2>1, Appended, Zenon
<1>2. /\ g \in Seq(Written) /\ Len(f) \in Nat /\ g[Len(f) + 1] = e /\ \A i \in 1..Len(f) : g[i] = f[i]
      /\ Entries(f) \subseteq Entries(g) /\ Entries(g) \subseteq Entries(f) \cup {e}
      /\ Positions(g) = IF e = Newline THEN Positions(f) ELSE Positions(f) \cup {Len(f) + 1}
  BY <1>1 DEF OneMore
<1>3. AcceptPositions(g) = AcceptPositions(f) /\ \A i \in AcceptPositions(f) : g[i] = f[i]
  <2>1. Positions(f) \subseteq 1..Len(f)
    BY DEF Positions
  <2>2. QED
    BY <1>2, <2>1 DEF AcceptPositions
<1>4. Payers(g) = Payers(f)
  BY <1>2 DEF Payers
<1>5. QED
  BY <1>2, <1>3, <1>4 DEF FileInv

\* The first accept of a client is one entry and one payer more.
LEMMA AcceptWrite ==
    ASSUME NEW f, FileInv(f), NEW c \in Clients, c \notin Payers(f), NEW g,
           g = Append(f, Entry("auth_accept", c, Price))
    PROVE  FileInv(g) /\ Payers(g) = Payers(f) \cup {c}
<1>1. PICK e : e = Entry("auth_accept", c, Price)
  OBVIOUS
<1>2. e \in Written /\ e # Newline /\ e.event = "auth_accept" /\ e.who = c /\ e.sats = Price
  <2>1. Price \in Nat
    BY DaemonAssumption
  <2>2. e.event = "auth_accept" /\ e.who = c /\ e.sats = Price /\ e \in Written
    BY <1>1, <2>1 DEF Entry, Written, Kinds
  <2>3. Newline.event = "newline"
    BY DEF Entry, Newline
  <2>4. QED
    BY <2>2, <2>3
<1>3. OneMore(f, e, g)
  <2>1. f \in Seq(Written) /\ g = Append(f, e)
    BY <1>1 DEF FileInv
  <2>2. QED
    BY <1>2, <2>1, Appended, Zenon
<1>4. /\ g \in Seq(Written) /\ Len(f) \in Nat /\ g[Len(f) + 1] = e /\ \A i \in 1..Len(f) : g[i] = f[i]
      /\ Entries(f) \subseteq Entries(g) /\ Entries(g) \subseteq Entries(f) \cup {e} /\ e \in Entries(g)
      /\ Positions(g) = Positions(f) \cup {Len(f) + 1}
  BY <1>2, <1>3 DEF OneMore
<1>5. PICK k : k = Len(f) + 1
  OBVIOUS
<1>6. /\ AcceptPositions(g) = AcceptPositions(f) \cup {k} /\ k \notin AcceptPositions(f)
      /\ \A i \in AcceptPositions(f) : g[i] = f[i]
      /\ g[k].sats = Price
  <2>1. Positions(f) \subseteq 1..Len(f) /\ k \notin 1..Len(f)
    BY <1>4, <1>5 DEF Positions
  <2>2. QED
    BY <1>2, <1>4, <1>5, <2>1 DEF AcceptPositions
<1>7. Payers(g) = Payers(f) \cup {c}
  BY <1>2, <1>4 DEF Payers
<1>8. /\ IsFiniteSet(AcceptPositions(g)) /\ IsFiniteSet(Payers(g))
      /\ Cardinality(AcceptPositions(g)) = Cardinality(Payers(g))
  <2>1. /\ IsFiniteSet(AcceptPositions(g))
        /\ Cardinality(AcceptPositions(g)) = Cardinality(AcceptPositions(f)) + 1
    BY <1>6, FS_AddElement DEF FileInv
  <2>2. IsFiniteSet(Payers(g)) /\ Cardinality(Payers(g)) = Cardinality(Payers(f)) + 1
    BY <1>7, FS_AddElement DEF FileInv
  <2>3. QED
    BY <2>1, <2>2 DEF FileInv
<1>9. QED
  BY <1>4, <1>6, <1>7, <1>8 DEF FileInv

\* The file is well-formed, and its open lines are someone's.
TextInv ==
    /\ FileInv(file)
    /\ LinesInv(file, failed)
    /\ LastInv(file, failed, mu)

\* The handler between two writes has the mutex.  Whoever was accepted, or is
\* about to be told so, is booked or has failed; whoever has not been recorded is
\* not booked; and ProcessAuth accepted whoever is or will be booked.
ReqOK(c) ==
    /\ stage[c] = "newline" => mu = c
    /\ \/ client[c] = "accepted"
       \/ stage[c] \in {"newline", "answer"} /\ result[c] = "accept"
       => c \in Payers(file) \cup failed
    /\ \/ client[c] = "idle"
       \/ stage[c] \in {"backlog", "hand", "reading", "processing", "record"}
       => c \notin Payers(file)
    /\ \/ c \in Payers(file)
       \/ stage[c] \in {"record", "newline", "answer"} /\ result[c] = "accept"
       => accepts[c] # "none"

PayInv ==
    /\ accepts \in [Clients -> {"none", "paid", "resumed"}]
    /\ \A c \in Clients : ReqOK(c)

\* What an accounting event is recorded as.
LEMMA StatusKinds ==
    ASSUME NEW s
    PROVE  mapStatusType(s) = "none" \/ mapStatusType(s) \in Kinds \ {"auth_accept", "newline"}
  BY DEF mapStatusType, Kinds

LEMMA NewlineWritten == Newline \in Written /\ Newline.event # "auth_accept"
  BY DEF Newline, Entry, Written, Kinds, Nobody

\* Only what failed grows, and whoever is in the middle of a line keeps the mutex
\* or has failed.
LEMMA TextGrows ==
    ASSUME TextInv, UNCHANGED file, failed \subseteq failed',
           mu' = mu \/ {mu} \cap Clients \subseteq failed'
    PROVE  TextInv'
  BY DEF TextInv, FileInv, LinesInv, LastInv, AcceptPositions, Payers

\* Something other than an accept is written.
LEMMA TextWrite ==
    ASSUME TextInv, NEW e \in Written, file' = Append(file, e), FileInv(file'),
           failed \subseteq failed',
           e # Newline => mu = Nobody \/ e.who \in Events,
           e # Newline => e.who \in failed' \cup Events \cup ({mu'} \cap Clients),
           e.event = "fragment" => e.who \in failed' \cup Events
    PROVE  TextInv'
<1>1. file \in Seq(Written) /\ LinesInv(file, failed)
  BY DEF TextInv, FileInv
<1>2. Len(file) \in Positions(file) /\ e # Newline =>
          file[Len(file)].who \in failed' \cup Events \/ e.who \in Events
  BY DaemonAssumption DEF TextInv, LastInv, Nobody, Clients
<1>3. LinesInv(file', failed')
  BY <1>1, <1>2, LinesAppend
<1>4. LastInv(file', failed', mu')
  BY <1>1, LastAppend
<1>5. QED
  BY <1>3, <1>4 DEF TextInv

\* What recordAuthLedger writes.
LEMMA EntryForType ==
    ASSUME NEW c \in Clients
    PROVE  /\ EntryFor(c) \in Written /\ EntryFor(c) # Newline /\ EntryFor(c).who = c
           /\ EntryFor(c).event # "fragment"
           /\ result[c] = "accept" => EntryFor(c) = Entry("auth_accept", c, Price)
           /\ result[c] # "accept" => EntryFor(c).event # "auth_accept"
<1>1. Price \in Nat
  BY DaemonAssumption
<1>2. Newline.event = "newline"
  BY DEF Newline, Entry
<1>3. PICK e : e = EntryFor(c)
  OBVIOUS
<1>4. e \in Written /\ e.who = c /\ e.event \in {"auth_accept", "auth_reject"}
      /\ (result[c] # "accept" => e.event # "auth_accept")
  BY <1>1, <1>3 DEF EntryFor, Entry, Written, Kinds
<1>5. QED
  BY <1>2, <1>3, <1>4 DEF EntryFor

LEMMA FragmentType ==
    ASSUME NEW e, e.who \in Clients \cup Events, NEW x, x = Entry("fragment", e.who, 0)
    PROVE  x \in Written /\ x # Newline /\ x.who = e.who /\ x.event = "fragment"
<1>1. Newline.event = "newline"
  BY DEF Newline, Entry
<1>2. x \in Written /\ x.who = e.who /\ x.event = "fragment"
  BY DEF Entry, Written, Kinds
<1>3. QED
  BY <1>1, <1>2

LEMMA RecordEffect ==
    ASSUME TextInv, PayInv, NEW c \in Clients, RecordAuth(c)
    PROVE  /\ TextInv'
           /\ \A d \in Clients : d # c => (d \in Payers(file') <=> d \in Payers(file))
           /\ c \in Payers(file') <=> result[c] = "accept"
<1>1. c \notin Payers(file) /\ FileInv(file) /\ mu = Nobody /\ mu' = c /\ failed' = failed
  BY DEF RecordAuth, PayInv, ReqOK, TextInv, Locked
<1>2. PICK e : e = EntryFor(c)
  OBVIOUS
<1>3. file' = Append(file, e) /\ e \in Written /\ e # Newline /\ e.who = c /\ e.event # "fragment"
  BY <1>2, EntryForType DEF RecordAuth, WriteEntry
<1>4. /\ FileInv(file')
      /\ \A d \in Clients : d # c => (d \in Payers(file') <=> d \in Payers(file))
      /\ c \in Payers(file') <=> result[c] = "accept"
  <2>1. CASE result[c] = "accept"
    <3>1. file' = Append(file, Entry("auth_accept", c, Price))
      BY <1>2, <1>3, <2>1, EntryForType
    <3>2. FileInv(file') /\ Payers(file') = Payers(file) \cup {c}
      BY <1>1, <3>1, AcceptWrite, Zenon
    <3>3. QED
      BY <2>1, <3>2
  <2>2. CASE result[c] # "accept"
    <3>1. e.event # "auth_accept"
      BY <1>2, <2>2, EntryForType
    <3>2. FileInv(file') /\ Payers(file') = Payers(file)
      BY <1>1, <1>3, <3>1, OtherWrite, Zenon
    <3>3. QED
      BY <1>1, <2>2, <3>2
  <2>3. QED
    BY <2>1, <2>2
<1>5. TextInv'
  BY <1>1, <1>3, <1>4, TextWrite
<1>6. QED
  BY <1>4, <1>5

\* The newline is written or not, by the one whose line it is.
LEMMA NewlineEffect ==
    ASSUME TextInv, PayInv, NEW c \in Clients, RecordNewline(c)
    PROVE  TextInv' /\ Payers(file') = Payers(file) /\ failed \subseteq failed'
<1>1. mu = c /\ FileInv(file)
  BY DEF RecordNewline, PayInv, ReqOK, TextInv
<1>2. CASE file' = WriteNewline(file) /\ UNCHANGED failed
  <2>1. file' = Append(file, Newline) /\ Newline \in Written /\ Newline.event # "auth_accept"
        /\ Newline.event # "fragment"
    BY <1>2, NewlineWritten DEF WriteNewline, Newline, Entry
  <2>2. FileInv(file') /\ Payers(file') = Payers(file)
    BY <1>1, <2>1, OtherWrite, Zenon
  <2>3. QED
    BY <1>2, <2>1, <2>2, TextWrite
<1>3. CASE failed' = failed \cup {c} /\ UNCHANGED file
  BY <1>1, <1>3, TextGrows
<1>4. QED
  BY <1>2, <1>3 DEF RecordNewline

\* Nothing is written, or the beginning of an entry.
LEMMA FailEffect ==
    ASSUME TextInv, NEW c \in Clients, RecordFails(c)
    PROVE  TextInv' /\ Payers(file') = Payers(file) /\ failed' = failed \cup {c}
<1>1. FileInv(file) /\ failed' = failed \cup {c} /\ mu' = mu
  BY DEF RecordFails, TextInv
<1>2. CASE UNCHANGED file
  BY <1>1, <1>2, TextGrows
<1>3. CASE file' = ShortWrite(file, EntryFor(c)) /\ mu = Nobody
  <2>1. PICK x : x = Entry("fragment", EntryFor(c).who, 0)
    OBVIOUS
  <2>2. file' = Append(file, x) /\ EntryFor(c).who = c
    BY <1>3, <2>1, EntryForType DEF ShortWrite
  <2>3. x \in Written /\ x # Newline /\ x.who = c /\ x.event = "fragment"
    BY <2>1, <2>2, FragmentType
  <2>4. FileInv(file') /\ Payers(file') = Payers(file)
    BY <1>1, <2>2, <2>3, OtherWrite, Zenon
  <2>5. QED
    BY <1>1, <1>3, <2>2, <2>3, <2>4, TextWrite
<1>4. QED
  BY <1>2, <1>3 DEF RecordFails, Locked

\* What the accounting process writes.
LEMMA AccountEffect ==
    ASSUME TextInv, NEW e \in Events,
           AccountNewline(e) \/ \E s \in StatusTypes : Account(e, s)
    PROVE  TextInv' /\ Payers(file') = Payers(file)
<1>1. FileInv(file) /\ UNCHANGED <<mu, failed>>
  BY DEF AccountNewline, Account, TextInv
<1>2. ASSUME NEW x \in Written, file' = Append(file, x), x.event # "auth_accept",
             x = Newline \/ x.who = e, x = Newline => x.event # "fragment"
      PROVE  TextInv' /\ Payers(file') = Payers(file)
  <2>1. FileInv(file') /\ Payers(file') = Payers(file)
    BY <1>1, <1>2, OtherWrite, Zenon
  <2>2. QED
    BY <1>1, <1>2, <2>1, TextWrite
<1>3. CASE file' = file
  BY <1>1, <1>3, TextGrows
<1>4. CASE file' = WriteNewline(file)
  BY <1>2, <1>4, NewlineWritten DEF WriteNewline, Newline, Entry
<1>5. ASSUME NEW s, mapStatusType(s) # "none",
             file' = WriteEntry(file, Entry(mapStatusType(s), e, 0))
      PROVE  TextInv' /\ Payers(file') = Payers(file)
  <2>1. PICK x : x = Entry(mapStatusType(s), e, 0)
    OBVIOUS
  <2>2. mapStatusType(s) \in Kinds \ {"auth_accept", "newline"}
    BY <1>5, StatusKinds
  <2>3. x \in Written /\ x.event # "auth_accept" /\ x.who = e /\ x.event # "newline"
    BY <2>1, <2>2 DEF Entry, Written
  <2>4. x # Newline
    BY <2>3 DEF Newline, Entry
  <2>5. QED
    BY <1>2, <1>5, <2>1, <2>3, <2>4 DEF WriteEntry
<1>6. ASSUME NEW s, file' = ShortWrite(file, Entry(mapStatusType(s), e, 0))
      PROVE  TextInv' /\ Payers(file') = Payers(file)
  <2>1. PICK y : y = Entry(mapStatusType(s), e, 0)
    OBVIOUS
  <2>2. PICK x : x = Entry("fragment", y.who, 0)
    OBVIOUS
  <2>3. y.who = e
    BY <2>1 DEF Entry
  <2>4. x \in Written /\ x # Newline /\ x.who = e /\ x.event = "fragment"
    BY <2>2, <2>3, FragmentType
  <2>5. QED
    BY <1>2, <1>6, <2>1, <2>2, <2>4 DEF ShortWrite
<1>7. QED
  BY <1>3, <1>4, <1>5, <1>6 DEF AccountNewline, Account

-----------------------------------------------------------------------------
(* Who has been recorded.                                                  *)

\* A request that does not move.
LEMMA StaysOK ==
    ASSUME NEW d \in Clients, ReqOK(d),
           client'[d] = client[d], stage'[d] = stage[d], result'[d] = result[d],
           accepts'[d] = accepts[d],
           d \in Payers(file') <=> d \in Payers(file), failed \subseteq failed',
           stage[d] = "newline" => mu' = mu
    PROVE  ReqOK(d)'
  BY DEF ReqOK

\* A request moves while the ledger stays as it is.
LEMMA MovesOK ==
    ASSUME ServerOK, PayInv, NEW c \in Clients, UNCHANGED <<file, mu, failed, accepts>>,
           \A d \in Clients : d # c => client'[d] = client[d] /\ stage'[d] = stage[d]
                                       /\ result'[d] = result[d],
           stage'[c] # "newline",
           client'[c] = "accepted" =>
               client[c] = "accepted" \/ (stage[c] = "answer" /\ result[c] = "accept"),
           stage'[c] \in {"record", "answer"} => stage'[c] = stage[c] /\ result'[c] = result[c],
           client'[c] = "idle" => client[c] = "idle",
           stage'[c] \in {"backlog", "hand", "reading", "processing"} =>
               client[c] = "idle" \/ stage[c] \in {"backlog", "hand", "reading", "processing"}
    PROVE  PayInv'
<1>1. ASSUME NEW d \in Clients, d # c PROVE ReqOK(d)'
  BY <1>1, StaysOK DEF PayInv
<1>2. ReqOK(c)'
  BY DEF PayInv, ReqOK
<1>3. QED
  BY <1>1, <1>2 DEF PayInv

\* A client and its request take a step.
LEMMA HandlePay ==
    ASSUME ServerInv, TextInv, PayInv, NEW c \in Clients,
           Call(c) \/ TimesOut(c) \/ Accept(c) \/ Handle(c)
    PROVE  TextInv' /\ PayInv'
<1> USE DEF ServerInv
<1>1. ASSUME UNCHANGED ledgerVars PROVE TextInv'
  BY <1>1, TextGrows DEF ledgerVars
<1>2. CASE Call(c)
  <2>1. UNCHANGED <<file, mu, failed, accepts, result>>
    BY <1>2 DEF Call, ledgerVars
  <2>2. /\ \A d \in Clients : d # c => client'[d] = client[d] /\ stage'[d] = stage[d]
        /\ client[c] = "idle" /\ client'[c] \in {"waiting", "rejected"}
        /\ stage'[c] \in {"backlog", "none"}
    BY <1>2 DEF Call, Goto, ServerOK, StageInv
  <2>3. QED
    BY <1>1, <1>2, <2>1, <2>2, MovesOK DEF Call
<1>3. CASE TimesOut(c)
  <2>1. UNCHANGED <<file, mu, failed, accepts, result, stage>>
    BY <1>3 DEF TimesOut, ledgerVars
  <2>2. client'[c] = "rejected" /\ \A d \in Clients : d # c => client'[d] = client[d]
    BY <1>3 DEF TimesOut, ServerOK
  <2>3. ReqOK(c)' /\ \A d \in Clients : d # c => ReqOK(d)'
    BY <2>1, <2>2, StaysOK DEF PayInv, ReqOK
  <2>4. QED
    BY <1>1, <1>3, <2>1, <2>3 DEF TimesOut, PayInv
<1>4. CASE Accept(c) \/ Spawn(c) \/ Post(c)
  <2>1. UNCHANGED <<file, mu, failed, accepts, result, client>>
    BY <1>4 DEF Accept, Spawn, Post, ledgerVars
  <2>2. /\ \A d \in Clients : d # c => stage'[d] = stage[d]
        /\ stage[c] \in {"backlog", "hand"} /\ stage'[c] \in {"hand", "reading", "processing"}
    BY <1>4 DEF Accept, Spawn, Post, Goto, ServerOK
  <2>3. QED
    BY <1>1, <1>4, <2>1, <2>2, MovesOK DEF Accept, Spawn, Post
<1>5. CASE Refuse(c)
  <2>1. UNCHANGED <<file, mu, failed, accepts, result>>
        /\ stage' = [stage EXCEPT ![c] = "none"] /\ client' = HungUp({c})
    BY <1>5 DEF Refuse, ledgerVars, Goto
  <2>2. /\ \A d \in Clients : d # c => client'[d] = client[d] /\ stage'[d] = stage[d]
        /\ client'[c] \in {client[c], "rejected"} /\ stage'[c] = "none"
    BY <2>1 DEF HungUp, ServerOK
  <2>3. QED
    BY <1>1, <1>5, <2>1, <2>2, MovesOK DEF Refuse
<1>6. CASE Read(c)
  <2>1. UNCHANGED <<file, mu, failed, accepts>> /\ stage[c] = "reading"
    BY <1>6 DEF Read, ledgerVars
  <2>2. CASE Goto(c, "processing") /\ UNCHANGED <<client, result>>
    <3>1. stage'[c] = "processing" /\ \A d \in Clients : d # c => stage'[d] = stage[d]
      BY <2>2 DEF Goto, ServerOK
    <3>2. QED
      BY <1>1, <1>6, <2>1, <2>2, <3>1, MovesOK DEF Read
  <2>3. CASE Return(c) /\ client' = HungUp({c})
    <3>1. /\ \A d \in Clients : d # c => /\ client'[d] = client[d] /\ stage'[d] = stage[d]
                                         /\ result'[d] = result[d]
          /\ client'[c] \in {client[c], "rejected"} /\ stage'[c] = "none"
      BY <2>3 DEF HungUp, ServerOK, Return, Goto
    <3>2. QED
      BY <1>1, <1>6, <2>1, <3>1, MovesOK DEF Read
  <2>4. QED
    BY <1>6, <2>2, <2>3 DEF Read
<1>7. CASE ProcessAuth(c)
  <2>1. /\ UNCHANGED <<file, mu, failed, client>> /\ stage[c] = "processing"
        /\ \A d \in Clients : d # c => stage'[d] = stage[d] /\ result'[d] = result[d]
        /\ stage'[c] = "record"
    BY <1>7 DEF ProcessAuth, Goto, ServerOK
  <2>2. /\ accepts' \in [Clients -> {"none", "paid", "resumed"}]
        /\ \A d \in Clients : d # c => accepts'[d] = accepts[d]
        /\ result'[c] = "accept" => accepts'[c] # "none"
    <3>1. CASE result' = [result EXCEPT ![c] = "reject"] /\ UNCHANGED accepts
      BY <3>1 DEF PayInv, ServerOK
    <3>2. ASSUME NEW how \in {"paid", "resumed"}, accepts' = [accepts EXCEPT ![c] = how]
          PROVE  /\ accepts' \in [Clients -> {"none", "paid", "resumed"}]
                 /\ accepts'[c] # "none" /\ \A d \in Clients : d # c => accepts'[d] = accepts[d]
      BY <3>2 DEF PayInv
    <3>3. QED
      BY <1>7, <3>1, <3>2 DEF ProcessAuth
  <2>3. ASSUME NEW d \in Clients, d # c PROVE ReqOK(d)'
    BY <2>1, <2>2, <2>3, StaysOK DEF PayInv
  <2>4. ReqOK(c)'
    <3>1. c \notin Payers(file) /\ client[c] # "idle"
      BY <2>1 DEF PayInv, ReqOK, StageInv
    <3>2. client[c] = "accepted" => c \in failed
      BY <3>1 DEF PayInv, ReqOK
    <3>3. QED
      BY <2>1, <2>2, <3>1, <3>2 DEF ReqOK
  <2>5. TextInv'
    BY <2>1, TextGrows
  <2>6. QED
    BY <2>2, <2>3, <2>4, <2>5 DEF PayInv
<1>8. CASE RecordAuth(c)
  <2>1. /\ TextInv'
        /\ \A d \in Clients : d # c => (d \in Payers(file') <=> d \in Payers(file))
        /\ c \in Payers(file') <=> result[c] = "accept"
    BY <1>8, RecordEffect
  <2>2. /\ UNCHANGED <<client, result, accepts, failed>> /\ stage[c] = "record"
        /\ stage'[c] = "newline" /\ mu = Nobody /\ mu' = c
        /\ \A d \in Clients : d # c => stage'[d] = stage[d]
    BY <1>8 DEF RecordAuth, Goto, ServerOK, Locked
  <2>3. ASSUME NEW d \in Clients, d # c PROVE ReqOK(d)'
    <3>1. stage[d] # "newline"
      BY <2>2, DaemonAssumption DEF PayInv, ReqOK, Nobody, Clients
    <3>2. QED
      BY <2>1, <2>2, <2>3, <3>1, StaysOK DEF PayInv
  <2>4. ReqOK(c)'
    <3>1. c \notin Payers(file) /\ client[c] # "idle"
      BY <2>2 DEF PayInv, ReqOK, StageInv
    <3>2. client[c] = "accepted" => c \in failed
      BY <3>1 DEF PayInv, ReqOK
    <3>3. result[c] = "accept" => accepts[c] # "none"
      BY <2>2 DEF PayInv, ReqOK
    <3>4. QED
      BY <2>1, <2>2, <3>1, <3>2, <3>3 DEF ReqOK
  <2>5. QED
    BY <2>1, <2>2, <2>3, <2>4 DEF PayInv
<1>9. CASE RecordNewline(c) \/ RecordFails(c)
  <2>1. /\ TextInv' /\ Payers(file') = Payers(file) /\ failed \subseteq failed'
        /\ RecordFails(c) => c \in failed'
    BY <1>9, NewlineEffect, FailEffect
  <2>2. /\ UNCHANGED <<client, result, accepts>> /\ stage[c] \in {"record", "newline"}
        /\ stage'[c] = "answer" /\ \A d \in Clients : d # c => stage'[d] = stage[d]
        /\ RecordFails(c) => mu' = mu
        /\ RecordNewline(c) => stage[c] = "newline"
    BY <1>9 DEF RecordNewline, RecordFails, Goto, ServerOK
  <2>3. ASSUME NEW d \in Clients, d # c PROVE ReqOK(d)'
    <3>1. stage[d] = "newline" => mu' = mu
      BY <1>9, <2>2, <2>3 DEF PayInv, ReqOK
    <3>2. QED
      BY <2>1, <2>2, <2>3, <3>1, StaysOK DEF PayInv
  <2>4. ReqOK(c)'
    <3>1. client[c] # "idle"
      BY <2>2 DEF StageInv
    <3>2. RecordNewline(c) /\ result[c] = "accept" => c \in Payers(file) \cup failed
      BY <2>2 DEF PayInv, ReqOK
    <3>3. /\ client[c] = "accepted" => c \in Payers(file) \cup failed
          /\ c \in Payers(file) \/ result[c] = "accept" => accepts[c] # "none"
      BY <2>2 DEF PayInv, ReqOK
    <3>4. QED
      BY <1>9, <2>1, <2>2, <3>1, <3>2, <3>3 DEF ReqOK
  <2>5. QED
    BY <2>1, <2>2, <2>3, <2>4 DEF PayInv
<1>10. CASE Answer(c)
  <2>1. UNCHANGED <<file, mu, failed, accepts>> /\ stage[c] = "answer" /\ Return(c)
    BY <1>10 DEF Answer, ledgerVars
  <2>2. /\ \A d \in Clients : d # c => stage'[d] = stage[d] /\ result'[d] = result[d]
        /\ stage'[c] = "none"
    BY <2>1 DEF Return, Goto, ServerOK
  <2>3. /\ \A d \in Clients : d # c => client'[d] = client[d]
        /\ client'[c] = "accepted" => client[c] = "accepted" \/ result[c] = "accept"
        /\ client'[c] = "idle" => client[c] = "idle"
    BY <1>10 DEF Answer, ServerOK
  <2>4. QED
    BY <1>1, <1>10, <2>1, <2>2, <2>3, MovesOK DEF Answer
<1>11. QED
  BY <1>2, <1>3, <1>4, <1>5, <1>6, <1>7, <1>8, <1>9, <1>10 DEF Handle

LEMMA NextLedger == ServerInv /\ TextInv /\ PayInv /\ [Next]_vars => TextInv' /\ PayInv'
<1> SUFFICES ASSUME ServerInv, TextInv, PayInv, [Next]_vars PROVE TextInv' /\ PayInv'
  OBVIOUS
<1>1. ASSUME NEW e \in Events, AccountNewline(e) \/ \E s \in StatusTypes : Account(e, s)
      PROVE  TextInv' /\ PayInv'
  <2>1. UNCHANGED <<client, stage, result, mu, failed, accepts>>
    BY <1>1 DEF AccountNewline, Account
  <2>2. TextInv' /\ Payers(file') = Payers(file)
    BY <1>1, AccountEffect
  <2>3. \A d \in Clients : ReqOK(d)'
    BY <2>1, <2>2, StaysOK DEF PayInv
  <2>4. QED
    BY <2>1, <2>2, <2>3 DEF PayInv
<1>2. CASE Signal \/ HttpDone \/ CloseListener \/ WaitDone \/ RemoveSocket \/ Expire
           \/ LoopEnds \/ Restart \/ UNCHANGED vars
  <2>1. UNCHANGED <<client, stage, result, file, mu, failed, accepts>>
    BY <1>2 DEF Signal, HttpDone, CloseListener, WaitDone, RemoveSocket, Step, Expire, LoopEnds,
       Restart, vars, ledgerVars
  <2>2. \A d \in Clients : ReqOK(d)'
    BY <2>1, StaysOK DEF PayInv
  <2>3. QED
    BY <2>1, <2>2, TextGrows DEF PayInv
<1>3. CASE Exit \/ Crash
  <2>1. /\ UNCHANGED <<file, accepts>> /\ mu' = Nobody /\ failed' = failed \cup ({mu} \cap Clients)
        /\ client' = HungUp({c \in Clients : stage[c] # "none"})
        /\ stage' = [c \in Clients |-> "none"]
    BY <1>3 DEF Exit, Crash, Gone
  <2>2. TextInv'
    BY <2>1, TextGrows
  <2>3. \A c \in Clients : /\ client'[c] = "accepted" => client[c] = "accepted"
                           /\ client'[c] = "idle" => client[c] = "idle"
    BY <2>1, HungUpType DEF ServerInv
  <2>4. \A c \in Clients : ReqOK(c)'
    BY <2>1, <2>3 DEF PayInv, ReqOK
  <2>5. QED
    BY <2>1, <2>2, <2>4 DEF PayInv
<1>4. QED
  BY <1>1, <1>2, <1>3, HandlePay DEF Next

LEMMA InitLedger == Init => TextInv /\ PayInv
<1> SUFFICES ASSUME Init PROVE TextInv /\ PayInv
  OBVIOUS
<1>1. file = <<>> /\ Len(file) = 0 /\ Positions(file) = {} /\ file \in Seq(Written)
  BY DEF Init, Positions
<1>2. Entries(file) = {} /\ AcceptPositions(file) = {}
  BY <1>1 DEF Entries, AcceptPositions
<1>3. Payers(file) = {}
  BY <1>2 DEF Payers
<1>4. FileInv(file)
  BY <1>1, <1>2, <1>3, FS_EmptySet DEF FileInv
<1>5. TextInv
  BY <1>1, <1>4 DEF TextInv, LinesInv, LastInv
<1>6. PayInv
  BY <1>3 DEF Init, PayInv, ReqOK
<1>7. QED
  BY <1>5, <1>6

LEMMA LedgerSum ==
    ASSUME FileInv(file)
    PROVE  RevenueSummary(file) = Price * Cardinality(Payers(file))
<1>1. /\ IsFiniteSet(AcceptPositions(file)) /\ Price \in Nat
      /\ \A i \in AcceptPositions(file) : file[i].sats = Price
      /\ Cardinality(AcceptPositions(file)) = Cardinality(Payers(file))
  BY DaemonAssumption DEF FileInv
<1>2. FoldSet(LAMBDA i, sum : sum + file[i].sats, 0, AcceptPositions(file))
          = Price * Cardinality(AcceptPositions(file))
  BY <1>1, SumOfEqual
<1>3. QED
  BY <1>1, <1>2 DEF RevenueSummary, AcceptPositions

LEMMA LedgerInductive == Spec => [](TextInv /\ PayInv)
BY InitLedger, NextLedger, ServerInductive, PTL DEF Spec

\* Whoever was told that he is accepted is in the ledger unless his own line
\* failed; ProcessAuth accepted whoever is in it as accepted; and RevenueSummary
\* is the price times these requests, those that resumed a session included.
THEOREM LedgerTells == Spec => []LedgerTellsAnswers
<1>1. TextInv /\ PayInv => LedgerTellsAnswers
  <2> SUFFICES ASSUME TextInv, PayInv PROVE LedgerTellsAnswers
    OBVIOUS
  <2>1. Booked = Payers(file)
    BY DEF Booked, Payers
  <2>2. RevenueSummary(file) = Price * Cardinality(Payers(file))
    BY LedgerSum DEF TextInv
  <2>3. QED
    BY <2>1, <2>2 DEF LedgerTellsAnswers, PayInv, ReqOK, Payers
<1>2. QED
  BY <1>1, LedgerInductive, PTL

\* A line of the ledger that cannot be read was begun by a request whose own
\* write failed, or an accounting process has written to it: no two handlers of
\* the daemon meet on one line.
THEOREM LinesKept == Spec => []OnlyFailuresSpoil
<1>1. TextInv => OnlyFailuresSpoil
  BY DEF TextInv, LinesInv, OnlyFailuresSpoil
<1>2. QED
  BY <1>1, LedgerInductive, PTL

=============================================================================
