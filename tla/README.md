# A TLA+ verification project for tollgate-auth

tollgate-auth sells network access, EV charging, VPN addresses and micro-VMs for
Cashu tokens. A token is a bearer instrument that its mint swaps once; everything
the program promises its operators and customers depends on what it does between
"the token looks good", "the mint has taken it" and "the customer is let in", with
several requests under way and with processes that may stop at any point. This
project models that logic in TLA+, checks it with TLC on small instances and
proves every safety property that it checks with TLAPS, for every value of the
parameters.

## 1. The system

| component (source) | state | operations | talks to |
|---|---|---|---|
| auth pipeline, `internal/auth/auth.go` | none of its own | `ProcessAuth` (local or delegated) | session store, mint, wallet or sessiond |
| session store, `internal/auth/auth.go` | one JSON file per session identifier, one mutex | Get, IsActive, Save, Remove, Cleanup | file system |
| mint check and wallet, `internal/cashu` | the mint's token states | CheckTokenState, RedeemToken (runs cdk-cli) | mint over HTTP, cdk-cli |
| sessiond client, `internal/sessiond` | none | Bootstrap, GetUsage, GetSession, ReportUsage | tollgate-rs / sessiond |
| payment extraction, `internal/radiusauth` | none | ExtractPayment | pure |
| daemon, `cmd/tollgate-daemon/main.go` | semaphore of 100, wait group, cleanup ticker | accept, handle, shutdown | ProcessAuth, ledger, shim |
| RADIUS shim, `cmd/tollgate-shim` | none | one request over the socket, 15 s deadline | daemon, FreeRADIUS |
| virtual charger, `internal/ocpi/charger.go` | AVAILABLE / STARTING / CHARGING, live session, monitors | start, stop, chargeMonitor, finishCharging | ProcessAuth, provider registry, OCPI store, ledger |
| OCPI server and store, `internal/ocpi` | prepay records, sessions, CDRs, credentials; JSON files if `TOLLGATE_BASE_DIR` is set | issue, authorize, CDR push, handshake | ProcessAuth, peers over HTTP |
| provider registry and token sale, `internal/ocpi/provider.go`, `buy.go` | providers and the provider of each token, in memory (the code can keep files, but only for a `DataDir`, which no program sets) | buy, register | cdk-cli, charger |
| ledger, `internal/ledger` | an append-only JSONL file | RecordAuth, RecordAccounting, RecordCoA, queries | every front end |
| WireGuard manager, `cmd/tollgate-daemon/wg.go` | peers, next address, state file | register, expire, restore | `wg` commands, remote VPS |
| micro-VM daemon, `cmd/tollgate-fcd` | VM table, address counter | create, delete, exit watcher, TTL timer, reaper | firecracker, NAT |
| CSMS, `cmd/tollgate-csms` | open transactions, next transaction number | OCPP authorize, start, meter values, stop | chargers, OCPI server |
| SSH gateway, `cmd/tollgate-auth-ssh` | timers and jails of sessions | verify, redeem, session | wallet, micro-VM daemon, jail |
| operator registry, `internal/operator` | the configured operators | LoadRegistry, Resolve | servers at their start, RADIUS exec handler |
| RADIUS exec handler, `cmd/tollgate-auth-radius` | none | authenticate, account, CoA | ProcessAuth's parts, ledger, NAS |
| settlement, class signing, dashboards, tools | reports | lookups | - |

What is hard to get right, and hard to reach with a unit test:

- the store's mutex covers single operations; the sequence Get, IsActive, Remove,
  CheckState, Redeem, Save of one call interleaves with those of other calls and
  with the cleanup goroutine;
- the mint is the only replay guard: two calls can both see a token UNSPENT;
- a redemption may be carried out although the caller sees an error;
- a crash may fall between redemption and Save, or into the write of a file;
- durations are compared at clock resolution and handed out in whole seconds;
- the charger lets its mutex go while it waits for a payment, monitors of earlier
  charges may still be there, and its state is saved by whichever request ends
  next;
- address pools and transaction numbers wrap or start again;
- a ledger entry is two writes, either may fail, and two processes append to the file;
- errors of writes and of clean-up commands are dropped (`wg.go:83`, `nat.go:50`,
  `main.go:383`), after which memory, disk and host differ;
- a client gives up while the server goes on: the shim after 15 s, the gateway's
  HTTP client after 30 s, the buyer of a token after 15 s;
- a machine can be ended by four parties, each of which must leave the host clean.

`PROJECT.json` lists these hazards with their lines.

What makes each component correct:

- *pipeline and store*: a token is sold at most once; nobody is admitted without
  an open window of his own; an open window is not lost; every call ends; unusable
  files disappear;
- *charger*: one start at a time; a charge is always watched, ends within a round of its
  monitor after its credit and survives a restart; a token pays for one charge;
- *prepay and CSMS*: a billed prepay is used up and its CDR kept; a transaction
  number denotes one transaction;
- *token sale*: a token bought for a provider is that provider's when it is used;
- *ledger and daemon*: the ledger says who was accepted, handlers do not spoil each
  other's lines, slots and counters match the calls, an orderly exit drains them, and it
  comes;
- *WireGuard and VMs*: no two live customers share an address; what was paid for
  works until it ends, and what has ended is taken down;
- *SSH*: a session is not cut short; a jail belongs to one session;
- *extraction and operators*: a payment made in a usual way is found, and booked to
  the operator that fits best.

## 2. Modules

| module | content |
|---|---|
| `AuthPipeline` | ProcessAuth with its store, the mint, the wallet or sessiond, cleanup and crash |
| `AuthGate` | abstract specification: what the pipeline promises |
| `AuthPipelineProps` | the properties, the inductive invariants and the refinement mapping |
| `AuthPipelineProofs` | theorems about the pipeline |
| `AuthGateProofs` | the pipeline implements the gate |
| `MCAuthPipeline` | instance for TLC: tokens `small` (1 sat), `large` (2), `empty` (0), `foreign` (not a test mint) |
| `Charger` | the virtual charger with its persistence wrapper, and its properties |
| `ChargerProofs` | theorems about the charger |
| `MCCharger` | instance for TLC: tokens `short` (credit 1, window 2) and `long` (credit 2, window 1) |
| `WgManager`, `MCWgManager` | the WireGuard manager with the interface it commands |
| `WgManagerProofs` | theorems about it |
| `TokenSale` | the sale of EUR tokens and the provider registry |
| `Emsp` | the OCPI receiver: prepay, CDRs, credentials, files; EXTENDS `TokenSale` (one process) |
| `Csms`, `MCCsms` | the CSMS and its stations, composed with `Emsp` |
| `CsmsProofs` | theorems about the three together |
| `VmHost` | the micro-VM daemon and the host |
| `SshGateway`, `MCSshGateway` | the SSH gateway, composed with `VmHost` |
| `SshGatewayProofs` | theorems about the two together |
| `Ledger` | the ledger file as a value: what a write does, what a reader makes of it |
| `Daemon`, `MCDaemon` | shims, HTTP clients, daemon and accounting process over one `Ledger` file |
| `DaemonProofs` | theorems about counters, shutdown and ledger |
| `Credentials`, `MCCredentials` | payment extraction and operator resolution, against reference definitions |
| `CredentialsProofs` | theorems about both |

### AuthPipeline

Each call of `ProcessAuth` is a handler `h` with a program counter `pc[h]`. A step
ends where another goroutine can get in between: at every store operation, at the
request to the mint and around the redemption.

| state | code |
|---|---|
| `sessions` | the session files, a `SessionRecord`, `Corrupt` (does not parse) or `NoSession` |
| `mint` | NUT-07 state of each token: UNSPENT, PENDING, SPENT |
| `req`, `rec`, `secs`, `reply` | the call's arguments, `rec` of the last Get, the bought duration, the `AuthResult` |
| `now` | the clock, `TicksPerSec` ticks to a second |
| `grants`, `contended`, `faulted` | history: windows sold, identifiers that two calls worked on together, identifiers whose file a write damaged |

Actions in code order: `ProcessAuth` / `RejectBadMac` (identifier), `GetSession`,
`Resume`, `Expired`, `Remove` (the first look at the store, local mode only),
`RejectCredential` / `TakeCredential` (extraction, decoding, amount, test mint),
`CheckState` / `CheckStateRejects`, `Regain`, `RegainedActive`, `RejectSpent` (the
second look, after SPENT) or `GoBootstrap` (delegated mode), `RedeemBegin`, then
one of `RedeemCommit`, `RedeemFail`, `RedeemLost`, `ZeroAllotment`, then `Save` or
`SaveError`, `Return`. The environment: `Cleanup`, `Tick`, `OutsideSwap` (someone
else holds a copy of the token), `MintSettles` (the mint ends a swap that no call
waits for) and `Crash`, which keeps the files, ends every call and may truncate
the file that is being written.

A swap takes two steps, because a call may find the token PENDING in between and
because a crash between them leaves the outcome to the mint. The code's `Save`
error is ignored, and so is it here: `SaveError` accepts. `Resume` reads the clock once,
where the code reads it twice within microseconds (`IsActive`, then `time.Until`); a
deadline that falls between the two reads is answered with one second.

Left out because nothing here depends on them: the mint URL, unit, guest name,
signed Class and all messages. LNURLw credentials, missing credentials and
strings that do not decode are one credential that buys nothing: the code rejects
all three at the same point without a change of state. Where the code resolves
overlapping writes to one file, the last one wins, as in the code.

`AuthGate` has four moves: a good token is sold for one window and its buyer
admitted, the owner of an open window is admitted again for less than `Slack`
(one second) beyond its end, tokens and admissions are lost for good, time passes.
`ImplementsGate` maps the pipeline to it: a token is *sold* when a window exists,
*void* when the mint has consumed it and no call is left to sell it, else *good*.

### Charger

| state | code |
|---|---|
| `state`, `session` | `ChargerState.State`, `.Session` |
| `monitors` | the chargeMonitor goroutines, counted by the ticks that are left until they must have looked |
| `disk` | `charger.json` |
| `pc`, `tok`, `named` | start and stop requests, their token, whether they name a provider |
| `window`, `spent` | ProcessAuth's part: the token's session window, tokens SPENT |
| `cdrs` | the store's CDRs, one key per token |
| `adopted` | history: this charge was loaded from disk (`ofAdopted`: the same of a CDR's charge) |

`Start`/`Refuse` are the guard section of `HandleChargeStart`, `AuthAccept` and
`AuthReject` its call of ProcessAuth (no mutex held), `GiveBack` its two failure
paths, `BeginCharging` and `SpawnMonitor` its success path; `Stop` is
`HandleChargeStop`; the three `Monitor...` actions are one round of
`chargeMonitor`; `Persist` and `PersistFails` are the end of
`withChargerPersist`, which runs after every request, refused ones too; `Restart`
loads the file.

ProcessAuth appears by the promise of `AuthGate`: accepted while the token's
window is open, or in exchange for an unspent token. `Redeems` is the redeem
switch of the OCPI server. `BoundTokens` is what the provider registry answers.
Energy is a number of ticks; power and price only scale it. `Credit[t]` is the first tick
at which the float `creditRemaining` is no longer positive; it need not be one at which a
monitor looks. The ledger line and
the OCPI session object that the handlers write beside the charger's own state
are left out: the charger never reads them.

A monitor looks once in `Period` ticks, counted from its own start, and up to `Lag` ticks
after its ticker has fired: `MonitorWaits` sets it back by a period, not to a full one.
Nothing clamps what a charge has used, so a charge overdraws its credit until the next
look; `OverdrawnByLessThanAPeriod` bounds this by a period and the lateness. `Tick` keeps
looks within `Lag` and lets no time pass between `BeginCharging` and the `go` statement.
At `MaxTime` the clock stands still while the tickers go on, so that what is due still
happens.

### WgManager

| state | code |
|---|---|
| `peers`, `nextIP` | `wgManager.peers`, `.nextIP` |
| `file` | the state file, or `Torn` |
| `kernel` | the address that the interface has for each key, `Bare` after another peer took it, `Absent` |
| `conn` | connect requests between ProcessAuth and addPeer, or between the two accesses of the remote path to the counter |
| `window` | the session window that ProcessAuth keeps for each key; `conn[h].until` is the one that a request was granted |
| `rewound`, `stray` | history: the counter has gone back; keys whose access a failed command, a crash or a record that was not written left to itself |

`Connect` and `addPeer` are the two halves of the local connect handler (the second
holds the mutex), `ConnectRemote` and `RemoteBump` those of the remote path, which
reads and increments the counter without the mutex: the increment applies to the
value read or to the current one. `Disconnect`, `cleanup` and `loadState` are the
functions of those names; each `wg` command may fail, and so may `saveState`, whose error
the code drops: the old file stays, or a torn one. `Crash` may fall between a
command and its record and may take the host, and with it the interface, along.

The clock has `TicksPerSec` ticks to a second. A window ends at a tick; a
Session-Timeout is what is left of it in whole seconds and at least one (`Timeout`,
`auth.go:241`), and a record's end is that many seconds after the current Unix second
(`NewPeer`, `wg.go:106`). A request may wait for the mutex, which is held during `wg`
commands, for any time, past the end of its window too (`Late`).

### TokenSale, Emsp, Csms

One process serves `Emsp` and `TokenSale`; `serving` says whether it runs.

| state | code |
|---|---|
| `providers`, `tokenMap` | `ProviderStore`, which is in memory: tollgate-auth-ocpi sets no `DataDir` |
| `buys`, `minted`, `delivered` | purchases under way, tokens issued; history: tokens that reached their buyers since the process began |
| `prepay`, `cdrs`, `durable`, `prepayFiles`, `cdrFiles` | `Store.tokens`, `.cdrs`, whether the store has a directory (`TOLLGATE_BASE_DIR`, chosen at each start), and the files |
| `window`, `spent` | ProcessAuth's part |
| `peer`, `rotation`, `shaken` | `Store.peer` by the number of its handshake, PUT requests between their read and their write, handshakes completed |
| `pc`, `tag`, `copy`, `txnOf` | the stations, with the record that an authorize request has read |
| `active`, `nextTxnID` | `CSMSHandler.activeTxns`, `.nextTxnID` |
| `begun`, `before`, `acked`, `billed`, `upset`, `unsaved` | history: transactions, those before the last start of the CSMS, answered CDRs, tokens that were ever billed, records issued again or not written, CDRs not written |

`HandleBuy`, `mintEurToken`, `Bind`, `AnswerBuy` are the stages of a purchase; the
process may stop between any two, and the answer may be lost. With the process the
registry goes (`SaleLost`, `NewProviderStore`): a token that was bought for a provider
is nobody's afterwards, and `DeliveredIsBound` speaks of the running process only.
`IssuePrepay` is the prepay handler; `OnAuthorize` and `Authorized` are the two critical
sections of HandleAuthorize, called by a station through the CSMS; `FailOpen` is
verifyWithEMSP without a usable answer. `OnStopTransaction` pushes the CDR, which
arrives (`PutCDR`), arrives at a process that stops between its two writes
(`PutCDRDies`), or is lost. `Decoded` is what the receiver makes of the pushed JSON:
charge and cost arrive, the energy does not, because the CSMS sends it as `kwh` and the
type has `total_kwh`. `postCredentials`, `deleteCredentials`, `rotateRead` and
`rotateWrite` are the credentials handlers. `Stop` and `Restart` lose the memory and
load the files, if the next process has a directory; the peer is not saved.
`CsmsRestart` loses the CSMS's memory, after which the stop of an earlier transaction is
`OnStopUnknown`. A session push of the CSMS is a POST, which HandleSessions refuses, so
it changes nothing. `IssuePrepay` joins ProcessAuth and PutPrepay: when the process
stops between them, the session that was bought stays for a retry.

### VmHost, SshGateway

| state | code |
|---|---|
| `vms`, `ipCounter` | the table, and nextVMIP's counter, which is used and then counted (the guest CID is counted and then used, and no property is about it) |
| `procs`, `taps`, `dirs` | the host: firecracker processes, TAP devices, directories |
| `fcd` | the daemon: up, draining, down |
| `ses`, `redeemed` | the handler of each login: its place, token, POST, machine, dial attempts and timer; tokens received by the wallet |
| `jails` | jail directories, named after the token |
| `calls`, `used`, `orphans`, `stuck`, `litter` | history: addresses handed out, identifiers used, machines a dead daemon left, machines whose TAP device could not be deleted, jails that a failed copy, a failed removal or a dead gateway left |

`createVM`, `destroyVM`, `ttlElapsed`, `reap`, `watchExit`, `destroyAllVMs` hold
`vmsMutex` from begin to end and are one action each. The errors of `ip link delete` and
of `rm -rf` are dropped by the code: `cleanupTAP` may leave a device and `cleanupJail` a
jail, while table and session go on as if they had not. `createFails` is createVM that
gives up before or after the address is taken, with a device left or not. The gateway's
`Redeem` sends a POST that `Serve` answers, possibly after `Answer` has given up; `Dial`
and `DialFails` are one attempt of the vsock dialer, which lasts a tick at most;
`BridgeEnds` and `Delete` end the session, and the DELETE may be lost. Without a machine
the chroot path follows: `CreateJail`, `StartShell`, `ShellEnds`. `DirectPost` is any
other client of fcd, which may pay with a token: fcd redeems it before it makes the
machine.

### Ledger, Daemon

| state | code |
|---|---|
| `file` | the ledger: entries, newlines and the fragments that short writes left, in the order of the writes |
| `opened`, `mu` | whether there is a ledger (the daemon runs without one when it cannot be opened), and its mutex, which covers one process |
| `client`, `stage`, `result` | each shim or HTTP client, its request in the daemon, ProcessAuth's answer |
| `sem`, `authWG`, `metrics` | semaphore, wait group, counters |
| `loop`, `shutdown`, `expired`, `listening`, `running` | accept loop, shutdown goroutine, its 30 s, listener, process |
| `acct` | accounting events, each in a process of its own |
| `accepts`, `late`, `failed` | history: whether ProcessAuth accepted for a token or resumed a session, requests counted after the wait, requests whose line was not written to its end |

A socket request goes through `Call`, `Accept`, `Spawn` or `Refuse`, `Read`,
`ProcessAuth`, `RecordAuth`, `RecordNewline`, `Answer`; an HTTP request through `Post`
instead of the slot. `RecordFails` and the second half of `RecordNewline` are failed or
short writes, and the lack of a ledger: the daemon drops RecordAuth's error
(`main.go:383`) and answers all the same. `MaxFaults` bounds how many of them a run
follows. `TimesOut` is the shim's deadline: the daemon goes on. The shutdown goroutine
is `Signal`, `HttpDone`, `CloseListener`, `WaitDone`, `RemoveSocket`; main is
`LoopEnds`, `Exit`. What ProcessAuth answers is `AuthPipeline`'s subject; here it may
answer anything, or never.

### Credentials

A string is what the code tells apart of it: its prefix, the alphabet of the rest and
its length. `ExtractPayment` takes the first of eight candidates in the code's order;
what two fields are joined to is measured by `sanitizeInput`. `LoadRegistry` and
`Resolve` are the loop of that name and the first answer in the chain of lookups; NAS
identifiers are compared by `Fold`, as `strings.EqualFold` does. `program` says who
asks: a server (tollgate-daemon, tollgate-auth-ocpi) resolves once at its start, with
two empty strings, and books every request to that; exec (tollgate-auth-radius) resolves
for the NAS of its one request. The references, `Pays` and the rank in
`BookedToBestMatch`, say what a customer or an operator may expect, without the order of
the code.

## 3. Runs

| run | instance | checks | result |
|---|---|---|---|
| `auth_local` | 2 calls, 2 identifiers, 2 tokens (one of them shared), half-second ticks, clock to 3 | type, OneWindowPerToken, AdmittedWithinPaidWindow, PaidWindowKept, PaidCustomerAdmitted, ImplementsGate | hold (1.8 million states) |
| `auth_delegated` | 2 calls, 1 identifier, 3 tokens, one without value, allotments 0..1 s, clock to 3, fairness | PaidWindowKept, PaidCustomerAdmitted, Answered, GarbageGoes | hold (258 thousand states) |
| `auth_contended` | as `auth_local`, clock to 4 | OpenSessionNotRemoved | violated, finding 1 |
| `charger` | 2 requests, 2 tokens, 1 left-over monitor, 2 ticks to a monitor's period, no lateness, clock to 4, fairness | type, OneStartAtATime, ChargeIsWatched, OverdrawnByLessThanAPeriod, HeldUpEnds | hold (1.5 million states) |
| `charger_restart` | the same, looks up to a tick late, clock to 3 | RestartResumes | violated, finding 2 |
| `charger_reuse` | the same, looks up to a tick late, clock to 3 | OneChargePerToken | violated, finding 3 |
| `wireguard` | 2 keys, 2 requests, 3 addresses in the range and one beyond, access of a second of 2 ticks, clock to 4 | type, AddressesDistinct, AccessIsRecorded, PaidAccessWorks, PaidTimeServed | hold (1.1 million states) |
| `roaming` | 2 stations, 1 prepay, 3 transactions, 2 buyers, 2 providers, 2 tokens for sale, 2 handshakes, 1 rotation, with and without a directory, clock to 3 | type, IdsDistinct, BilledIsUsed, BilledIsKept, DeliveredIsBound | hold (887 thousand states) |
| `csms_restart` | the same | IdsNeverReused | violated, finding 4 |
| `microvm` | 2 logins with 1 token, 2 machines, 2 addresses, lifetimes of 3 ticks and none, clock to 4, fairness | type, HostMatchesTable, AddressesApart, JailsMatchSessions, SessionKeepsVm, MachinesEnd | hold (694 thousand states) |
| `daemon` | 2 shims for 1 slot, 1 HTTP client, 1 accounting event, 1 failing write, with and without a ledger, crash, shutdown, fairness | CountsMatch, LedgerTellsAnswers, OnlyFailuresSpoil, DrainedExit, ShutdownEnds | hold (752 thousand states) |
| `credentials` | strings of lengths 0, 8, 60, 200, 7992 and 7993; registries of up to 2 operators, 2 NAS identifiers that differ in case | PaymentComesThrough, BookedToBestMatch | hold (1.2 million states) |

Bounds. Two calls are enough for every race on a token or a file that the code has,
since each access concerns one token and one file; the theorems drop the bound. The
clock reaches the end of a one-second window and beyond it, with a moment in the middle
of the last second, so that expiry, rounding, resumption and retention all occur; a
two-second window stays open for the whole run. `Retention` is 0 there (Cleanup acts on
the first tick after expiry), the least favourable value to a file. In the charger run a
credit of one tick ends between two looks and one of two ticks with one; a charge can
end, be stopped, be followed by another one and meet the monitor that it left behind,
whose looks fall between those of the new one. `MaxMonitors` bounds only how many of
those are there when a charge begins. Symmetry (handlers, identifiers) is used in the
safety runs of the pipeline, of WireGuard and of roaming only.

`wireguard`: with three addresses and two keys a renewal takes the third, the next one
wraps, and a restart can start beyond the range. With two ticks to a second the end of a
window and that of its record fall apart, and a request can wait past its window.
`OneTrouble` follows a behaviour until the second fault (a key left to itself, a record
that is not on disk, the counter going back), since what the properties except is a
key's or the counter's first. `roaming`: three transactions on two stations overlap an
authorization, a stop and a restart of either side; `Apart` follows charging,
handshakes, registrations and purchases one at a time, because they share nothing but
the process, and a restart of the CSMS, a store without a directory or a failed write
through two transactions, which is when numbers meet. `microvm`: the third address is
the first again; two logins with one token race for it; `OneExit` lets one of the two
processes end, and not both. The margin exceeds the dial attempts as it does in the code
(60 s and 55 s), and `SessionKeepsVm` needs no more than that. `daemon`: the second shim
meets a full semaphore; `Apart` keeps crash, failed writes and accounting out of the
shutdown, which does not touch the ledger. `credentials`: 200 is the length of a first
part, 8 is shorter than any payment, 60 is a token that is shorter than a first part; a
rest of 7992 bytes just fits into `MaxInputLen` and one of 7993 does not; two operators
give every precedence a rival.

Fairness. `WF(Step(h))`: a call goes on. The mint client has a 15 s timeout; that
cdk-cli and sessiond end is an assumption (the code waits for them). No fairness is
assumed for arriving requests, other wallets, restarts or the mint. `WF(Cleanup)`: the
daemon's ticker fires every minute. `WF(Monitor)`, `WF(Tick)`: so does the charger's
every second, and time passes. `microvm`: time passes, the goroutine of a TTL that is
due runs, and calls with a timeout (the POST, a dial attempt) return; neither the
reaper, nor the exit watcher, nor any DELETE is relied on. `daemon`: the shutdown
goroutine and the accept loop run and the 30 s end; nothing is assumed of ProcessAuth or
of the handlers, which may hang.

`contended` and `faulted` make the exceptions of `PaidWindowKept` and
`PaidCustomerAdmitted` explicit: overlapping calls for one identifier (finding 1)
and a write that failed. In every other behaviour, restarts included, a customer
who has paid is let in until the window ends.

## 4. Findings

1. **An expired record's Remove can delete a fresh session** (`auth.go:252`). A call
   reads an expired record; a second call for the same identifier does the same,
   removes it, redeems a token and saves the new session; the first call's Remove
   then deletes that. The customer has paid, is on line, and on the next reconnection
   finds no session and a SPENT token. The comment at `auth.go:99-102` promises
   the opposite, "Safe for concurrent use" included.
2. **A restarted charger does not resume** (`server.go:262`). Nothing starts a
   monitor for a charge that is loaded from disk, so it runs beyond its credit until
   somebody stops it; and a request that is refused while another one is being paid
   for writes STARTING to disk, from which, after a restart, neither a start nor a
   stop leads out. The comment at `server.go:258-259` says "so a restart can resume
   it".
3. **A token starts more than one charge** (`charger.go:102`). Inside the token's
   session window ProcessAuth resumes without a look at the mint, and the charge
   gets the full credit again; the second CDR has the name of the first and replaces
   it. `docs/ARCHITECTURE.md:191-192` describes a replay guard that does not exist.

4. **The CSMS reuses transaction numbers after a restart**
   (`cmd/tollgate-csms/main.go:45`). The counter starts at 1001 in every process and is
   not saved, while stations go on charging under numbers of the earlier process. The
   stop of one ends the other's transaction, and the later CDR replaces the earlier one.
   `main.go:70` says "IDs must never be reused, even after stops". Within one process
   (`IdsDistinct`) they are not.

Exceptions in the properties of the passing runs say what else the code does not
exclude: an address is given to two peers once the counter has gone round, or when the
remote path's unlocked increment undoes a local one (`rewound`); a key whose `wg`
command failed, or whose record was not written before a restart, keeps or loses its
access unrecorded (`stray`); a request that waits for the mutex past its window can
replace the record of a later one (`Late`); a prepay issued again inside its session
window is unused although it was billed (`upset`; that it was billed is remembered in
`billed`, since a CSMS that reuses a number replaces the CDR that would say so); a store
without a directory forgets its CDRs (`durable`); an accept whose ledger line could not
be written is answered all the same, and such a line, or one of an accounting process,
can make the file unreadable, after which every query fails (`failed`); a TAP device
whose deletion failed stays (`stuck`), and so do the machines of a dead fcd (`orphans`)
and the jails of a failed removal or a dead gateway (`litter`); one connection can be
accepted after the shutdown has stopped waiting (`late`).

Disagreements between the code and a text of the repository that the models follow the
code in, without a run of their own:

- The CSMS pushes the energy of a CDR as `kwh` (`cmd/tollgate-csms/main.go:181`) and the
  receiver decodes `total_kwh` (`internal/ocpi/types.go:172`): the stored energy is 0.
  `Decoded` drops it, and `BilledIsKept` speaks of charge and cost.
- The provider registry can be kept in files (`internal/ocpi/provider.go:146`,
  `server.go:60`), but tollgate-auth-ocpi gives it no `DataDir` (`main.go:109-116`): each
  restart forgets the bindings of all tokens that were sold.
- The daemon and tollgate-auth-ocpi resolve the operator once, with two empty strings
  (`cmd/tollgate-daemon/main.go:97`, `cmd/tollgate-auth-ocpi/main.go:70`);
  `docs/operator-identity.md:28-31` ("For each auth request") and
  `docs/operator-guide.md:232` have the NAS looked at in each request. The second half of
  `BookedToBestMatch` is what the servers do.
- A resumed session is recorded as an accept with the amount of its session
  (`auth.go:245,341,384`) and summed again by RevenueSummary (`ledger.go:200`), while
  `docs/operator-guide.md:339-373` reconciles the wallet with that sum and
  `docs/settlement.md:25,54` calls it revenue from redeemed tokens. `LedgerTellsAnswers`
  counts accepts, not redeemed tokens.
- `docs/radius-federation.md:143` calls the ledger crash-safe. An entry is two writes
  (`ledger.go:62-67`), either of which may be cut short or not happen, and the daemon
  drops the error (`main.go:383`); `OnlyFailuresSpoil` says whose lines this concerns.
- PUT credentials reads the peer and writes it back in two critical sections
  (`handlers.go:178`), so that a handshake or a DELETE in between is undone.
- `cashu/wallet.go:14-19` counts a line "Recovered 0 operations, N compensated" as a
  success; `wallet.go:41` skips every line that begins so before it is looked at. For the
  pipeline such a redemption is `RedeemLost`: carried out, and answered with a reject.
- The comments at `payment.go:138,175` want a whole token in a password to be longer than
  `TokenSplitLen`; any length but exactly that one is accepted. The comment at
  `payment.go:36` gives `MaxInputLen` as a limit of the fields; it is tested on joined
  tokens only.

## 5. Proofs

Every invariant of the passing runs, every action property and the refinement is a
theorem, for any number of handlers, tokens, stations, sessions, clients or operators
and for any parameters that satisfy the named assumptions:

| assumption | content |
|---|---|
| `IdentifierAssumption`, `ParameterAssumption` (pipeline) | special values are no ordinary ones; amounts and durations are natural numbers, a second has at least one tick |
| `ChargerAssumption` | likewise; credits and the period of the monitors are at least a tick |
| `WgAssumption` | a token buys at least a second and a second has at least one tick; the range of addresses is not empty, starts above 0 and ends below the last octet |
| `SaleAssumption`, `EmspAssumption`, `CsmsAssumption` | special values are no ordinary ones; CDRs are those of the transactions |
| `VmHostAssumption`, `GatewayAssumption` | finitely many machines, at least one address; the margin is longer than the dial attempts (60 s and 55 s in the code), which only `SessionVmKept` needs |
| `DaemonAssumption` | a shim is no HTTP client, `Nobody`, who holds a free mutex, is neither, and accounting events are no clients; at least one slot; a price above 0 |
| `CredentialsAssumption` | lengths and limits are natural numbers; every identifier has a form that is compared (`Fold`) |

The constraints of the runs (`OneTrouble`, `Apart`, `OneExit`) are not used in any proof:
the theorems cover what the runs cut off.

**Pipeline** (`AuthPipelineProofs`).
- `TypeCorrect`: `TypeOK` is inductive because it contains `CallOK`, which ties the
  locals of a call to its program counter (a call that compares a deadline has a
  record, a call that redeems has a token, only a finished call has an Accept).
- `TokenSoldOnce`: `OneWindowPerToken` alone is not inductive, since `Save` might
  sell what is sold. `SwapInv` adds that a call that swaps has its token PENDING and
  to itself, that a call about to Save holds a SPENT token which nobody has been sold
  a window for, and that whatever is sold is SPENT. The mint's refusal of anything but
  UNSPENT does the rest.
- `AdmissionIsPaidFor`: `SoldInv` adds that files, and the records that calls have
  read, are sold windows of the right identifier; the arithmetic of whole seconds
  (`Resumed`) is a lemma.
- `WindowKept`, `OwnerAdmitted`: `WindowInv` says that an identifier which is not
  contended has one call at a time, that the record this call has read is the open
  window if there is one, and that a call which has gone on to its payment has
  established that there is none. Both properties are proved together, because a call
  that rejects relies on the file and the file on the calls.

**Refinement** (`AuthGateProofs`). `Refinement` proves `Spec => ImplementsGate`: the
initial states map to initial states, and each action is a sale, a loss, a readmission,
a tick of the gate or a stutter. It uses `SwapInv` (a token that is sold was good
before), `SoldInv` (an admission is within a window) and `BoundInv` (every instant is
one of the gate).

**Charger** (`ChargerProofs`).
- `TypeCorrect` and `StartsExcludeEachOther` are proved together: that the charger
  charges exactly when it has a session needs that no second start finds it free.
- `ChargesAreWatched` and `OverdraftBounded` follow from `CreditInv`: a charge of this
  process has begun in this instant and is about to get its monitor, or one of the
  monitors, its own or one that an earlier charge left, looks before the charge is
  overdrawn by a period and the lateness (`LooksInTime`). Every tick brings that look
  nearer by as much as the charge goes on, and a look that finds credit left is followed
  by another one a period after the moment at which its ticker fired.

**WireGuard** (`WgManagerProofs`). One inductive invariant `IInv` for all five theorems.
`NoAddressTwice` needs that all addresses are below the counter, and, because a restart
computes the counter from the file, that the file is as good as the table (`FileOK`,
`FileMatches`). `AccessWorks` needs that the interface of a daemon that is down still
serves the records of the file (`FileWorks`), but for the keys whose last record a
failed write kept from it: they are `stray` from the moment the memory is lost.
`TimeServed` needs that the timeout of a granted request comes within a second of the
end of its window and that this is the window which its key has open, as long as it is
(`Granted`); the two truncations then add up to less than a second (`CutOff`).

**Roaming** (`CsmsProofs`). `IInv` has one part for each concern, each with a lemma that
says what a step of the whole system is to it.
- `TransactionIdsDistinct`: since the last start of the CSMS a number is the serial
  number from there (`TxnInv`).
- `BilledRecordsUsed`: the record of a billed token is used up on disk too, and what an
  authorize request has read is still a record (`RecordInv`). The proof showed that
  which tokens were billed cannot be read off the CDRs: with two tokens and a CSMS that
  was restarted, one CDR replaces the other.
- `BilledCdrsKept`: the file of an answered CDR has what was decoded of it, and so has the
  memory of a store with a directory, unless the file was not written or the number was
  given to another transaction (`Kept`, `CdrInv`).
- `DeliveredBound`: no token is in two purchases, or in one and with a buyer
  (`TokensApart`), so that nothing rebinds a token that was delivered (`SaleInv`).

**Micro-VMs** (`SshGatewayProofs`). `HostMatches` is inductive with the type of the
table: whichever of the four ends a machine, it takes process, device and record, or the
device is `stuck`. `AddressesStayApart` needs `Round`: the counter is as far from a
machine's address as there were calls since, modulo the range. `JailsMatch` needs that
jails are named after redeemed tokens and that a redeemed token belongs to one session
(`JailInv`, `OneOwner`). `SessionVmKept` needs a bound, for every place of a handler, on
what is left of the machine's lifetime (`Lasts`): paid time and margin less the attempts
made so far.

**Daemon** (`DaemonProofs`).
- `CountsAgree`: `ServerInv` adds that the accept loop holds one connection at most and
  that a request that was processed has a result.
- `ExitIsDrained`: `DrainInv` says that what is under way once the wait is over was
  counted late, and that the loop, which holds one connection, takes no other after the
  listener is closed.
- `LedgerTells`: `TextInv` says that every accept in the file has the price and that there
  are as many as payers; `PayInv` that a request which was not recorded has no entry, that
  one which was accepted is booked or its write has failed, and that ProcessAuth accepted
  whatever is or will be booked. What `RevenueSummary` folds is a lemma (`SumOfEqual`).
- `LinesKept`: an entry that is not followed by a newline is the last one and its writer
  holds the mutex, or it is one of a failed write or of an accounting event (`LinesInv`,
  `LastInv`).

**Credentials** (`CredentialsProofs`).
- `PaymentFound`: for each usual way to pay, the candidates before it are not found; what
  is found of two fields is one of the two candidates that join them, which test both
  lengths.
- `BestMatchBooked`: the registry holds, in the order of the file, what can be paid of
  the entries seen so far (`RegistryInv`); so the first that fits in it is the first in
  the file, and the rank decides between the lookups. `OutcomeInv` says that the operator
  was asked for once the registry was complete, for the NAS that the program was told of
  (`Told`): none, for a server.

Where a definition is recursive or takes a minimum, the proofs use a least element
(`LeastNat`, `MinNat`, from the library's well-foundedness of the natural numbers)
instead of induction: `SumOfEqual` shows that the fold has a solution and that the
smallest set on which it could differ does not exist.

Only model-checked: `Answered`, `GarbageGoes`, `HeldUpEnds`, `MachinesEnd` and
`ShutdownEnds`, because TLAPS does not handle liveness under fairness. Checked on a part
and proved for all: `AdmittedWithinPaidWindow` is checked in local mode and proved for
both.

## 6. Not modelled, and the plan

Not modelled: cryptography (class signing, JWT and NIP-98 signatures, curve
arithmetic), token encodings, HTTP routing, dashboards, terminals, the web shell, which
copies bytes, and one-shot clients, which keep no state. Of the OCPI store the session
and location objects and the authorization log are only kept and shown; of the ledger
the query filters and GetActiveSession, which nothing calls. The settlement report is a
layout of the revenue summary. Of the RADIUS exec handler the local mode repeats the
steps of `AuthPipeline` in a process of its own; the delegated mode and CoA are planned.

Plan, in this order:

1. *done*: `AuthPipeline`, `AuthGate`, `Charger`, `WgManager`, `TokenSale`, `Emsp`,
   `Csms`, `VmHost`, `SshGateway`, `Ledger`, `Daemon`, `Credentials`.
2. *done*: the proofs of all invariants, action properties and the refinement.
3. The delegated exec handler and CoA (`cmd/tollgate-auth-radius`).
4. Pure operators against reference definitions: the aggregation in CheckTokenState and
   the reading of the wallet's output.
