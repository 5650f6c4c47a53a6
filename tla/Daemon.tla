------------------------------- MODULE Daemon -------------------------------
(***************************************************************************)
(* The authentication daemon, cmd/tollgate-daemon/main.go, with the shims  *)
(* (cmd/tollgate-shim) that call it over its socket, the clients of its    *)
(* HTTP port, and the ledger, which the accounting process of              *)
(* cmd/tollgate-auth-radius also appends to.  Threads: the accept loop,    *)
(* one handler for each request, and the shutdown goroutine.  ProcessAuth  *)
(* answers as it likes here: AuthPipeline is about what it answers.        *)
(***************************************************************************)
EXTENDS Ledger

CONSTANTS
    Shims,        \* requests of shim processes
    WebClients,   \* requests of clients of POST /v1/auth
    MaxAuth,      \* maxConcurrentAuth: 100
    Price,        \* what the token is worth
    Events,       \* accounting events
    StatusTypes,  \* what FreeRADIUS says they are
    MaxFaults,    \* bound on the writes to the ledger that fail
    Crashes       \* the daemon may be killed

Clients == Shims \cup WebClients

ASSUME DaemonAssumption ==
    /\ Shims \cap WebClients = {} /\ "nobody" \notin Shims \cup WebClients
    /\ Events \cap (Shims \cup WebClients) = {} /\ MaxFaults \in Nat
    /\ MaxAuth \in Nat \ {0} /\ Price \in Nat \ {0}
    /\ Crashes \in BOOLEAN

VARIABLES
    client,    \* what each client does: "idle", "waiting", "accepted", "rejected"
    stage,     \* its request in the daemon: "none", "backlog", "hand" (of the accept
               \* loop), "reading", "processing", "record", "newline", "answer"
    result,    \* ProcessAuth's answer to it
    accepts,   \* history: what it accepted the request for, a token or a session
    sem,       \* slots that are taken
    authWG,    \* the wait group
    metrics,   \* the counters
    loop,      \* the accept loop: "accept", "hand", "ended"
    shutdown,  \* the shutdown goroutine: "none", "http", "close", "wait", "remove", "complete"
    expired,   \* its 30 s are over
    listening, \* the socket is open
    running,   \* the daemon runs
    opened,    \* OpenLedger has succeeded; otherwise there is no ledger
    file,      \* the ledger
    mu,        \* the handler that holds the ledger's mutex
    acct,      \* accounting events: "due", "newline", "done"
    late,      \* history: requests that the wait group counted after the wait
    failed     \* history: requests whose line was not written, or not to its end

serverVars == <<sem, authWG, metrics, loop, shutdown, expired, listening, running, late>>
ledgerVars == <<file, mu, acct, failed, opened, accepts>>
vars == <<client, stage, result, sem, authWG, metrics, loop, shutdown, expired,
          listening, running, file, mu, acct, late, failed, opened, accepts>>

NoMetrics == [total |-> 0, accept |-> 0, reject |-> 0, errors |-> 0]
Nobody == "nobody"

Goto(c, s) == stage' = [stage EXCEPT ![c] = s]
Count(k) == metrics' = [metrics EXCEPT ![k] = @ + 1]

\* Handlers of the socket and of the port that have been counted.
Working == {"reading", "processing", "record", "newline", "answer"}
Handlers == {c \in Clients : stage[c] \in Working}

\* sendRequest dials and writes its line, or cannot.
Call(c) ==
    /\ client[c] = "idle"
    /\ IF running /\ IF c \in Shims THEN listening ELSE shutdown = "none"
       THEN client' = [client EXCEPT ![c] = "waiting"] /\ Goto(c, "backlog")
       ELSE client' = [client EXCEPT ![c] = "rejected"] /\ UNCHANGED stage
    /\ UNCHANGED result /\ UNCHANGED serverVars /\ UNCHANGED ledgerVars

\* The deadline of 15 s: the shim closes the connection and answers a reject.
TimesOut(c) ==
    /\ client[c] = "waiting"
    /\ client' = [client EXCEPT ![c] = "rejected"]
    /\ UNCHANGED <<stage, result>> /\ UNCHANGED serverVars /\ UNCHANGED ledgerVars

\* listener.Accept returns a connection.
Accept(c) ==
    /\ running /\ loop = "accept" /\ listening
    /\ c \in Shims /\ stage[c] = "backlog"
    /\ loop' = "hand" /\ Goto(c, "hand")
    /\ UNCHANGED <<result, sem, authWG, metrics, shutdown, expired, listening, running, late>>
    /\ UNCHANGED client /\ UNCHANGED ledgerVars

\* A slot of the semaphore is free.
HasSlot == sem < MaxAuth

\* The select on the semaphore, and the start of handleSocketConn.
Spawn(c) ==
    /\ running /\ stage[c] = "hand" /\ loop = "hand"
    /\ HasSlot
    /\ sem' = sem + 1 /\ authWG' = authWG + 1 /\ Count("total")
    /\ loop' = "accept" /\ Goto(c, "reading")
    /\ late' = IF shutdown \in {"remove", "complete"} THEN late \cup {c} ELSE late
    /\ UNCHANGED <<result, shutdown, expired, listening, running>>
    /\ UNCHANGED client /\ UNCHANGED ledgerVars

\* What a client whose connection is closed without an answer does.
HungUp(cs) == [c \in Clients |-> IF c \in cs /\ client[c] = "waiting" THEN "rejected" ELSE client[c]]

\* No slot: the connection is closed.
Refuse(c) ==
    /\ running /\ stage[c] = "hand" /\ loop = "hand"
    /\ ~HasSlot
    /\ loop' = "accept" /\ Goto(c, "none")
    /\ client' = HungUp({c})
    /\ UNCHANGED <<result, sem, authWG, metrics, shutdown, expired, listening, running, late>>
    /\ UNCHANGED ledgerVars

\* POST /v1/auth: no slot is needed.
Post(c) ==
    /\ running /\ c \in WebClients /\ stage[c] = "backlog"
    /\ authWG' = authWG + 1 /\ Count("total")
    /\ Goto(c, "processing")
    /\ UNCHANGED <<result, sem, loop, shutdown, expired, listening, running, late>>
    /\ UNCHANGED client /\ UNCHANGED ledgerVars

\* Mutant of Return: a slot is not given back.
ReturnKeepsSlot(c) ==
    /\ UNCHANGED sem
    /\ authWG' = authWG - 1
    /\ Goto(c, "none")
    /\ result' = [result EXCEPT ![c] = "none"]

\* The deferred calls of a handler that returns.
Return(c) ==
    /\ sem' = IF c \in Shims THEN sem - 1 ELSE sem
    /\ authWG' = authWG - 1
    /\ Goto(c, "none")
    /\ result' = [result EXCEPT ![c] = "none"]

\* The line is read; or the shim is gone, or sent no JSON.
Read(c) ==
    /\ running /\ stage[c] = "reading"
    /\ \/ Goto(c, "processing") /\ UNCHANGED <<client, result, sem, authWG, metrics>>
       \/ Return(c) /\ Count("errors") /\ client' = HungUp({c})
    /\ UNCHANGED <<loop, shutdown, expired, listening, running, late>>
    /\ UNCHANGED ledgerVars

\* ProcessAuth accepts the request for its token, accepts it because a session
\* that was paid for earlier still runs, or rejects it.
ProcessAuth(c) ==
    /\ running /\ stage[c] = "processing"
    /\ \/ /\ result' = [result EXCEPT ![c] = "accept"]
          /\ \E how \in {"paid", "resumed"} :
                 /\ how = "resumed" => \E d \in Clients : accepts[d] = "paid"
                 /\ accepts' = [accepts EXCEPT ![c] = how]
       \/ result' = [result EXCEPT ![c] = "reject"] /\ UNCHANGED accepts
    /\ Goto(c, "record")
    /\ UNCHANGED <<file, mu, acct, failed, opened>>
    /\ UNCHANGED client /\ UNCHANGED serverVars

\* Mutant of Locked: the two writes are not one critical section.
LockedNot(c) == mu \in Clients \cup {Nobody}

\* The ledger's mutex, which is free for c.
Locked(c) == mu = Nobody

\* Mutant of EntryFor: a reject keeps the event type that it was given first.
EntryForAccept(c) == Entry("auth_accept", c, IF result[c] = "accept" THEN Price ELSE 0)

\* recordAuthLedger's entry; a resumed session is entered with its amount.
EntryFor(c) ==
    IF result[c] = "accept" THEN Entry("auth_accept", c, Price) ELSE Entry("auth_reject", c, 0)

Faulty == Cardinality(failed) < MaxFaults

\* RecordAuth: the entry ...
RecordAuth(c) ==
    /\ running /\ stage[c] = "record" /\ opened /\ Locked(c)
    /\ mu' = c
    /\ file' = WriteEntry(file, EntryFor(c))
    /\ Goto(c, "newline")
    /\ UNCHANGED <<result, acct, failed, opened, accepts>>
    /\ UNCHANGED client /\ UNCHANGED serverVars

\* ... and its newline, which may fail.
RecordNewline(c) ==
    /\ running /\ stage[c] = "newline"
    /\ mu' = Nobody
    /\ \/ file' = WriteNewline(file) /\ UNCHANGED failed
       \/ Faulty /\ failed' = failed \cup {c} /\ UNCHANGED file
    /\ Goto(c, "answer")
    /\ UNCHANGED <<result, acct, opened, accepts>> /\ UNCHANGED client /\ UNCHANGED serverVars

\* There is no ledger, it cannot be opened, or the write is short; the error is
\* dropped and the request answered.
RecordFails(c) ==
    /\ running /\ stage[c] = "record"
    /\ \/ ~opened /\ UNCHANGED file
       \/ opened /\ Locked(c) /\ Faulty /\ file' \in {file, ShortWrite(file, EntryFor(c))}
    /\ failed' = failed \cup {c}
    /\ Goto(c, "answer")
    /\ UNCHANGED <<result, mu, acct, opened, accepts>> /\ UNCHANGED client /\ UNCHANGED serverVars

\* The result is counted and written; a shim that waits for it prints it and
\* exits.
Answer(c) ==
    /\ running /\ stage[c] = "answer"
    /\ Count(result[c])
    /\ client' = IF client[c] # "waiting" THEN client
                 ELSE [client EXCEPT ![c] = IF result[c] = "accept" THEN "accepted" ELSE "rejected"]
    /\ Return(c)
    /\ UNCHANGED <<loop, shutdown, expired, listening, running, late>>
    /\ UNCHANGED ledgerVars

\* handleAccounting in a process of its own: the ledger's mutex is not shared.
\* Its writes, too, may fail.
Account(e, s) ==
    /\ acct[e] = "due"
    /\ \/ /\ mapStatusType(s) # "none"
          /\ file' = WriteEntry(file, Entry(mapStatusType(s), e, 0))
          /\ acct' = [acct EXCEPT ![e] = "newline"]
       \/ /\ file' \in {file, ShortWrite(file, Entry(mapStatusType(s), e, 0))}
          /\ mapStatusType(s) = "none" => file' = file
          /\ acct' = [acct EXCEPT ![e] = "done"]
    /\ UNCHANGED <<stage, result, mu, failed, opened, accepts>>
    /\ UNCHANGED client /\ UNCHANGED serverVars

AccountNewline(e) ==
    /\ acct[e] = "newline"
    /\ acct' = [acct EXCEPT ![e] = "done"]
    /\ file' \in {file, WriteNewline(file)}
    /\ UNCHANGED <<stage, result, mu, failed, opened, accepts>>
    /\ UNCHANGED client /\ UNCHANGED serverVars

-----------------------------------------------------------------------------
(* Shutdown.                                                               *)

Step(from, to) ==
    /\ running /\ shutdown = from /\ shutdown' = to
    /\ UNCHANGED <<stage, result, sem, authWG, metrics, loop, expired, running, late>>
    /\ UNCHANGED client /\ UNCHANGED ledgerVars

\* SIGTERM: the HTTP listener closes.
Signal == Step("none", "http") /\ UNCHANGED listening

\* httpServer.Shutdown returns.
HttpDone ==
    /\ expired \/ \A c \in WebClients : stage[c] = "none"
    /\ Step("http", "close") /\ UNCHANGED listening

CloseListener == listening' = FALSE /\ Step("close", "wait")

\* Mutant of Waited: nobody is waited for.
WaitedNot == authWG \in Nat

\* authWG.Wait has returned, or the 30 s are over.
Waited == expired \/ authWG = 0

WaitDone == Waited /\ Step("wait", "remove") /\ UNCHANGED listening

RemoveSocket == Step("remove", "complete") /\ UNCHANGED listening

Expire ==
    /\ running /\ shutdown \notin {"none", "complete"} /\ ~expired
    /\ expired' = TRUE
    /\ UNCHANGED <<stage, result, sem, authWG, metrics, loop, shutdown, listening, running, late>>
    /\ UNCHANGED client /\ UNCHANGED ledgerVars

\* Mutant of isClosedErr: the wrapped error is compared with ==.
isClosedErrNever == listening /\ ~listening

\* Accept's error says that the listener is closed.
isClosedErr == ~listening

LoopEnds ==
    /\ running /\ loop = "accept" /\ isClosedErr
    /\ loop' = "ended"
    /\ UNCHANGED <<stage, result, sem, authWG, metrics, shutdown, expired, listening, running, late>>
    /\ UNCHANGED client /\ UNCHANGED ledgerVars

\* The process is gone, and every connection with it.
Gone ==
    /\ running' = FALSE /\ listening' = FALSE
    /\ client' = HungUp({c \in Clients : stage[c] # "none"})
    /\ stage' = [c \in Clients |-> "none"]
    /\ result' = [c \in Clients |-> "none"]
    /\ sem' = 0 /\ authWG' = 0 /\ metrics' = NoMetrics
    /\ loop' = "accept" /\ expired' = FALSE /\ late' = {}
    /\ mu' = Nobody
    /\ failed' = failed \cup ({mu} \cap Clients)
    /\ UNCHANGED <<shutdown, file, acct, opened, accepts>>

\* main returns.
Exit == running /\ loop = "ended" /\ shutdown = "complete" /\ Gone

Crash == Crashes /\ running /\ shutdown = "none" /\ Gone

\* main: the stale socket is removed and a new one opened; the daemon goes on
\* without a ledger that cannot be opened.
Restart ==
    /\ ~running /\ shutdown = "none"
    /\ running' = TRUE /\ listening' = TRUE
    /\ opened' \in BOOLEAN
    /\ UNCHANGED <<stage, result, sem, authWG, metrics, loop, shutdown, expired, late>>
    /\ UNCHANGED <<file, mu, acct, failed, accepts>> /\ UNCHANGED client

Init ==
    /\ client = [c \in Clients |-> "idle"]
    /\ stage = [c \in Clients |-> "none"]
    /\ result = [c \in Clients |-> "none"]
    /\ sem = 0 /\ authWG = 0 /\ metrics = NoMetrics
    /\ loop = "accept" /\ shutdown = "none" /\ expired = FALSE
    /\ listening = TRUE /\ running = TRUE /\ late = {}
    /\ opened \in BOOLEAN
    /\ file = <<>> /\ mu = Nobody /\ failed = {}
    /\ accepts = [c \in Clients |-> "none"]
    /\ acct = [e \in Events |-> "due"]

Handle(c) ==
    \/ Spawn(c) \/ Refuse(c) \/ Post(c) \/ Read(c) \/ ProcessAuth(c)
    \/ RecordAuth(c) \/ RecordNewline(c) \/ RecordFails(c) \/ Answer(c)

Next ==
    \/ \E c \in Clients : Call(c) \/ TimesOut(c) \/ Accept(c) \/ Handle(c)
    \/ \E e \in Events : AccountNewline(e) \/ \E s \in StatusTypes : Account(e, s)
    \/ Signal \/ HttpDone \/ CloseListener \/ WaitDone \/ RemoveSocket \/ Expire
    \/ LoopEnds \/ Exit \/ Crash \/ Restart

\* The goroutines of the shutdown and the accept loop run, and the context
\* expires.  Nothing is assumed of ProcessAuth, which can hang.
Fairness ==
    /\ WF_vars(HttpDone) /\ WF_vars(CloseListener) /\ WF_vars(WaitDone)
    /\ WF_vars(RemoveSocket) /\ WF_vars(Expire) /\ WF_vars(LoopEnds) /\ WF_vars(Exit)
    /\ \A c \in Shims : WF_vars(Spawn(c)) /\ WF_vars(Refuse(c))

Spec == Init /\ [][Next]_vars /\ Fairness

-----------------------------------------------------------------------------
(* Properties.                                                             *)

\* The semaphore, the wait group and the counters agree with the requests that
\* are under way, whichever way each of them ends.
CountsMatch ==
    running =>
        /\ sem = Cardinality(Handlers \cap Shims) /\ sem <= MaxAuth
        /\ authWG = Cardinality(Handlers)
        /\ metrics.total = metrics.accept + metrics.reject + metrics.errors + authWG

\* Requests that the ledger has as accepted.
Booked == {c \in Clients : \E e \in Entries(file) : e.who = c /\ e.event = "auth_accept"}

\* The ledger says what was answered.  Whoever was told that he is accepted is
\* booked, whatever ends the daemon and when, unless his own line could not be
\* written; nobody is booked whom ProcessAuth did not accept; and the revenue
\* of a file that can be read is the price for each accept in it, once.  A
\* session that is resumed is such an accept, so this is not the sats redeemed.
LedgerTellsAnswers ==
    /\ \A c \in Clients : client[c] = "accepted" => c \in Booked \cup failed
    /\ \A c \in Booked : accepts[c] # "none"
    /\ Readable(file) => RevenueSummary(file) = Price * Cardinality(Booked)

\* The handlers, with their mutex, do not spoil each other's lines: a line that
\* cannot be read begins with one whose own write failed or whose daemon died
\* before the newline, or an accounting process has written to it.
OnlyFailuresSpoil ==
    \A i \in Positions(file) :
        /\ file[i].event = "fragment" => file[i].who \in failed \cup Events
        /\ i + 1 \in Positions(file) =>
               \/ file[i].who \in failed
               \/ file[i].who \in Events \/ file[i + 1].who \in Events

\* A daemon that ends before its 30 s are over leaves no request behind that
\* was counted when it began to wait; the one connection that the accept loop
\* had in its hands is the exception.
DrainedExit ==
    [][Exit /\ ~expired => Handlers \subseteq late /\ Cardinality(late) <= 1]_vars

\* Told to stop, the daemon stops, although requests hang and connections
\* still come in.
ShutdownEnds == shutdown # "none" ~> ~running

=============================================================================
