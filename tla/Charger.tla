------------------------------ MODULE Charger -------------------------------
(***************************************************************************)
(* The virtual charger of the OCPI server, internal/ocpi/charger.go:       *)
(* HandleChargeStart, HandleChargeStop and the chargeMonitor goroutine     *)
(* share one ChargerState under a mutex that each of them takes several    *)
(* times, and withChargerPersist (server.go) writes that state to disk     *)
(* after every start and stop request, refused ones included.              *)
(*                                                                         *)
(* ProcessAuth appears by what it promises (AuthGate): it accepts a token  *)
(* while the window that it bought is open, or exchanges it for a new      *)
(* window.  The window and the charge are two clocks: the window runs from *)
(* the purchase, the credit from the start of the charge.                  *)
(*                                                                         *)
(* Time counts ticks, Period of them to the second of a monitor's ticker.  *)
(* Energy counts in ticks of charging: Credit[t] is the first number of    *)
(* them at which the float creditRemaining of t is no longer positive, a   *)
(* moment that need not be one at which a monitor looks.                   *)
(***************************************************************************)
EXTENDS Integers, Functions

CONSTANTS
    Handlers,      \* requests that can be in flight together
    Tokens,        \* Cashu tokens that buy something
    Credit,        \* ticks of charging that each token pays for
    Period,        \* ticks of the monitor's ticker (one second)
    Lag,           \* ticks by which a look may come after its ticker has fired
    Window,        \* ticks that the session window of each token lasts
    BoundTokens,   \* tokens that were issued for this charger's provider
    Redeems,       \* TOLLGATE_OCPI_REDEEM: the token is spent when accepted
    MaxTime,       \* bound on the clock
    MaxMonitors,   \* bound on the monitors that are still there at a start
    NoToken,       \* the token of a request that has none
    NoSession,     \* no LiveSession
    NoCDR          \* no CDR

LiveSession == [token : Tokens, started : Nat]

\* A CDR bills the time between the start and the stop of its charge.
\* ofAdopted is history: the charge was loaded from disk.
CDR == [used : Int, ofAdopted : BOOLEAN]

ASSUME ChargerAssumption ==
    /\ Credit \in [Tokens -> Nat \ {0}]
    /\ Period \in Nat \ {0}
    /\ Lag \in Nat
    /\ Window \in [Tokens -> Nat]
    /\ BoundTokens \subseteq Tokens
    /\ Redeems \in BOOLEAN
    /\ MaxTime \in Nat
    /\ MaxMonitors \in Nat
    /\ NoToken \notin Tokens
    /\ NoSession \notin LiveSession
    /\ NoCDR \notin CDR

VARIABLES
    now,       \* the clock
    state,     \* ChargerState.State
    session,   \* ChargerState.Session
    monitors,  \* chargeMonitor goroutines, by the ticks left to their next look
    disk,      \* charger.json
    pc,        \* where each request stands
    tok,       \* its token
    named,     \* it names a provider
    window,    \* end of the session window that a token bought, 0 if none
    spent,     \* tokens that are SPENT at their mint
    cdrs,      \* Store.cdrs, which has one for each token
    adopted    \* history: the charger was busy when it was loaded from disk

vars == <<now, state, session, monitors, disk, pc, tok, named,
          window, spent, cdrs, adopted>>
requests == <<pc, tok, named>>
charger == <<state, session, cdrs, adopted>>
payments == <<window, spent>>

States == {"AVAILABLE", "STARTING", "CHARGING"}
Labels == {"idle", "auth", "accepted", "rejected", "spawn", "persist"}

\* The requests that have moved the charger to STARTING.
Claims(h) == pc[h] \in {"auth", "accepted", "rejected"}

\* Mutant of ExhaustedAt: creditRemaining < 0.
OverdrawnAt(s, t) == t - s.started > Credit[s.token]

\* creditRemaining <= 0 at time t.
ExhaustedAt(s, t) == t - s.started >= Credit[s.token]

\* A monitor has to have looked when 0 ticks are left to it, and may do so from
\* the moment at which Lag are, when its ticker fires.
Slots == 0..(Period + Lag)
NoMonitors == [d \in Slots |-> 0]

\* The monitors that are there.
Watchers == FoldFunction(+, 0, monitors)

Goto(h, label) == pc' = [pc EXCEPT ![h] = label]

-----------------------------------------------------------------------------
(* HandleChargeStart.                                                      *)

\* Mutant of Start: any start may take the charger.
StartAnyway(h, t, p) ==
    /\ pc[h] = "idle"
    /\ Watchers <= MaxMonitors
    /\ state' = "STARTING"
    /\ Goto(h, "auth")
    /\ tok' = [tok EXCEPT ![h] = t]
    /\ named' = [named EXCEPT ![h] = p]
    /\ UNCHANGED <<now, session, monitors, disk, cdrs, adopted>>
    /\ UNCHANGED payments

\* The charger is free and is claimed, for token t; p: with a provider's npub.
Start(h, t, p) ==
    /\ pc[h] = "idle"
    /\ state = "AVAILABLE"
    /\ Watchers <= MaxMonitors
    /\ state' = "STARTING"
    /\ Goto(h, "auth")
    /\ tok' = [tok EXCEPT ![h] = t]
    /\ named' = [named EXCEPT ![h] = p]
    /\ UNCHANGED <<now, session, monitors, disk, cdrs, adopted>>
    /\ UNCHANGED payments

\* A start request that is malformed (in any state) or that finds the charger
\* in use, or a malformed stop request.  Its handler returns without a change,
\* and withChargerPersist goes on.
Refuse(h) ==
    /\ pc[h] = "idle"
    /\ Goto(h, "persist")
    /\ UNCHANGED <<now, monitors, disk, tok, named>>
    /\ UNCHANGED charger /\ UNCHANGED payments

\* ProcessAuth accepts: the session of the token is resumed, or the token is
\* exchanged for a session.  Without redemption the token stays UNSPENT.
AuthAccept(h) ==
    /\ pc[h] = "auth"
    /\ \/ now < window[tok[h]] /\ UNCHANGED payments
       \/ /\ ~(now < window[tok[h]])
          /\ tok[h] \notin spent
          /\ window' = [window EXCEPT ![tok[h]] = now + Window[tok[h]]]
          /\ spent' = IF Redeems THEN spent \cup {tok[h]} ELSE spent
    /\ Goto(h, "accepted")
    /\ UNCHANGED <<now, monitors, disk, tok, named>>
    /\ UNCHANGED charger

\* ProcessAuth rejects: no open session, and the token is spent, or becomes so
\* with its receipt lost, or its mint or wallet gives no good answer.
AuthReject(h) ==
    /\ pc[h] = "auth"
    /\ ~(now < window[tok[h]])
    /\ \/ UNCHANGED spent
       \/ Redeems /\ spent' = spent \cup {tok[h]}
    /\ Goto(h, "rejected")
    /\ UNCHANGED <<now, monitors, disk, tok, named, window>>
    /\ UNCHANGED charger

\* The request names a provider and the token was not issued for it.  This is
\* found out after the payment.
WrongProvider(h) == named[h] /\ tok[h] \notin BoundTokens

\* The token of a request is of no further use.
DropToken(h) ==
    /\ tok' = [tok EXCEPT ![h] = NoToken]
    /\ named' = [named EXCEPT ![h] = FALSE]

\* Mutant of GiveBack: a token of the wrong provider leaves the charger claimed.
GiveBackUnpaid(h) ==
    /\ \/ pc[h] = "rejected" /\ state' = "AVAILABLE"
       \/ pc[h] = "accepted" /\ WrongProvider(h) /\ UNCHANGED state
    /\ Goto(h, "persist")
    /\ DropToken(h)
    /\ UNCHANGED <<now, session, monitors, disk, cdrs, adopted>>
    /\ UNCHANGED payments

\* The charger is given back.
GiveBack(h) ==
    /\ \/ pc[h] = "rejected"
       \/ pc[h] = "accepted" /\ WrongProvider(h)
    /\ state' = "AVAILABLE"
    /\ Goto(h, "persist")
    /\ DropToken(h)
    /\ UNCHANGED <<now, session, monitors, disk, cdrs, adopted>>
    /\ UNCHANGED payments

BeginCharging(h) ==
    /\ pc[h] = "accepted"
    /\ ~WrongProvider(h)
    /\ state' = "CHARGING"
    /\ session' = [token |-> tok[h], started |-> now]
    /\ Goto(h, "spawn")
    /\ DropToken(h)
    /\ UNCHANGED <<now, monitors, disk, cdrs, adopted>>
    /\ UNCHANGED payments

\* go s.chargeMonitor()
SpawnMonitor(h) ==
    /\ pc[h] = "spawn"
    /\ monitors' = [monitors EXCEPT ![Period + Lag] = @ + 1]
    /\ Goto(h, "persist")
    /\ UNCHANGED <<now, disk, tok, named>>
    /\ UNCHANGED charger /\ UNCHANGED payments

-----------------------------------------------------------------------------
(* The end of a charge.                                                    *)

Charging == state = "CHARGING" /\ session # NoSession

\* Mutant of FinishCharging: the session is left behind.
FinishKeepsSession ==
    /\ state' = "AVAILABLE"
    /\ adopted' = FALSE
    /\ cdrs' = [cdrs EXCEPT ![session.token] =
           [used |-> now - session.started, ofAdopted |-> adopted]]
    /\ UNCHANGED session

\* finishCharging, which its callers run under the mutex.  The CDR that it
\* stores is named after the token and replaces an earlier one.
FinishCharging ==
    /\ state' = "AVAILABLE"
    /\ session' = NoSession
    /\ adopted' = FALSE
    /\ cdrs' = [cdrs EXCEPT ![session.token] =
           [used |-> now - session.started, ofAdopted |-> adopted]]

\* HandleChargeStop; finishCharging does nothing unless the charger charges.
Stop(h) ==
    /\ pc[h] = "idle"
    /\ IF Charging THEN FinishCharging ELSE UNCHANGED charger
    /\ Goto(h, "persist")
    /\ UNCHANGED <<now, monitors, disk, tok, named>>
    /\ UNCHANGED payments

\* The ticker of a monitor has fired and it is about to look.
Fired(d) == d <= Lag /\ monitors[d] > 0

Gone(d) == [monitors EXCEPT ![d] = @ - 1]

\* A monitor looks at the charger while nothing charges, and ends.
MonitorLeaves(d) ==
    /\ Fired(d)
    /\ ~Charging
    /\ monitors' = Gone(d)
    /\ UNCHANGED <<now, disk>>
    /\ UNCHANGED charger /\ UNCHANGED requests /\ UNCHANGED payments

\* Mutant of MonitorWaits: the monitor ends after one look.
MonitorLooksOnce(d) ==
    /\ Fired(d)
    /\ Charging
    /\ ~ExhaustedAt(session, now)
    /\ monitors' = Gone(d)
    /\ UNCHANGED <<now, disk>>
    /\ UNCHANGED charger /\ UNCHANGED requests /\ UNCHANGED payments

\* There is credit left: the monitor waits for the ticker, which fires in step
\* with its start, however late this look was.
MonitorWaits(d) ==
    /\ Fired(d)
    /\ Charging
    /\ ~ExhaustedAt(session, now)
    /\ monitors' = [monitors EXCEPT ![d] = @ - 1, ![d + Period] = @ + 1]
    /\ UNCHANGED <<now, disk>>
    /\ UNCHANGED charger /\ UNCHANGED requests /\ UNCHANGED payments

\* The credit is used up: the monitor ends the charge and itself.  Nothing
\* writes this to disk.
MonitorFinishes(d) ==
    /\ Fired(d)
    /\ Charging
    /\ ExhaustedAt(session, now)
    /\ FinishCharging
    /\ monitors' = Gone(d)
    /\ UNCHANGED <<now, disk>>
    /\ UNCHANGED requests /\ UNCHANGED payments

Monitor ==
    \E d \in Slots : MonitorLeaves(d) \/ MonitorWaits(d) \/ MonitorFinishes(d)

-----------------------------------------------------------------------------
(* Persistence and restart.                                                *)

\* withChargerPersist: SaveState of what the charger is by now.
Persist(h) ==
    /\ pc[h] = "persist"
    /\ disk' = [state |-> state, session |-> session]
    /\ Goto(h, "idle")
    /\ UNCHANGED <<now, monitors, tok, named>>
    /\ UNCHANGED charger /\ UNCHANGED payments

\* SaveState fails, which is logged; the file is replaced as a whole or not.
PersistFails(h) ==
    /\ pc[h] = "persist"
    /\ Goto(h, "idle")
    /\ UNCHANGED <<now, monitors, disk, tok, named>>
    /\ UNCHANGED charger /\ UNCHANGED payments

\* The server stops, by itself or not, and NewServer loads charger.json.
Restart ==
    /\ state' = disk.state
    /\ session' = disk.session
    /\ adopted' = (disk.state # "AVAILABLE")
    /\ monitors' = NoMonitors
    /\ pc' = [h \in Handlers |-> "idle"]
    /\ tok' = [h \in Handlers |-> NoToken]
    /\ named' = [h \in Handlers |-> FALSE]
    /\ UNCHANGED <<now, disk, cdrs>>
    /\ UNCHANGED payments

\* Time passes.  No look is later than Lag, and nothing blocks between the start
\* of a charge and that of its monitor.  The clock stands still at its bound
\* while the tickers go on.
Tick ==
    /\ monitors[0] = 0
    /\ \A h \in Handlers : pc[h] # "spawn"
    /\ now' = IF now < MaxTime THEN now + 1 ELSE now
    /\ monitors' = [d \in Slots |-> IF d = Period + Lag THEN 0 ELSE monitors[d + 1]]
    /\ UNCHANGED disk
    /\ UNCHANGED charger /\ UNCHANGED requests /\ UNCHANGED payments

-----------------------------------------------------------------------------
Init ==
    /\ now = 0
    /\ state = "AVAILABLE"
    /\ session = NoSession
    /\ monitors = NoMonitors
    /\ disk = [state |-> "AVAILABLE", session |-> NoSession]
    /\ pc = [h \in Handlers |-> "idle"]
    /\ tok = [h \in Handlers |-> NoToken]
    /\ named = [h \in Handlers |-> FALSE]
    /\ window = [t \in Tokens |-> 0]
    /\ spent = {}
    /\ cdrs = [t \in Tokens |-> NoCDR]
    /\ adopted = FALSE

\* A step of a request that is under way.
Step(h) ==
    \/ AuthAccept(h) \/ AuthReject(h) \/ GiveBack(h) \/ BeginCharging(h)
    \/ SpawnMonitor(h) \/ Persist(h) \/ PersistFails(h)

Next ==
    \/ \E h \in Handlers, t \in Tokens, p \in BOOLEAN : Start(h, t, p)
    \/ \E h \in Handlers : Refuse(h) \/ Stop(h) \/ Step(h)
    \/ Monitor
    \/ Restart
    \/ Tick

Spec == Init /\ [][Next]_vars

\* Requests are carried through (ProcessAuth is assumed to end), time passes and
\* the monitors look when their tickers have fired.
Fairness ==
    /\ \A h \in Handlers : WF_vars(Step(h))
    /\ WF_vars(Monitor)
    /\ WF_vars(Tick)

FairSpec == Spec /\ Fairness

-----------------------------------------------------------------------------
(* Properties.                                                             *)

\* Every variable of the charger and of its requests holds a value of its
\* type, and a charger that charges has a session.
TypeOK ==
    /\ now \in Nat
    /\ state \in States
    /\ session \in LiveSession \cup {NoSession}
    /\ state = "CHARGING" <=> session # NoSession
    /\ monitors \in [Slots -> Nat]
    /\ disk \in [state : States, session : LiveSession \cup {NoSession}]
    /\ disk.state = "CHARGING" <=> disk.session # NoSession
    /\ pc \in [Handlers -> Labels]
    /\ tok \in [Handlers -> Tokens \cup {NoToken}]
    /\ \A h \in Handlers : Claims(h) => tok[h] \in Tokens
    /\ named \in [Handlers -> BOOLEAN]
    /\ window \in [Tokens -> Nat]
    /\ spent \subseteq Tokens
    /\ cdrs \in [Tokens -> CDR \cup {NoCDR}]
    /\ adopted \in BOOLEAN

\* Of all start requests only one is between its claim of the charger and its
\* outcome, and until then the charger stays STARTING for it: no stop, monitor
\* or second start gets in between, although the mutex is not held.
OneStartAtATime ==
    \A h, k \in Handlers :
        Claims(h) => state = "STARTING" /\ (Claims(k) => h = k)

\* A charge that this process has started is watched by a monitor, or will be
\* as soon as its handler goes on, whatever monitors earlier charges left.
ChargeIsWatched ==
    state = "CHARGING" /\ ~adopted =>
        \/ \E d \in Slots : monitors[d] > 0
        \/ \E h \in Handlers : pc[h] = "spawn"

\* A charge that begins and ends in one process overdraws its token's credit by
\* less than one period of the monitor's ticker and the lateness of a look,
\* whichever monitors of earlier charges are still about, and however the end
\* of the credit lies between two looks: CreditUsed is not cut off at the
\* credit (charger.go:208), so that this is all that bounds it.
OverdrawnByLessThanAPeriod ==
    \A t \in Tokens : cdrs[t] # NoCDR /\ ~cdrs[t].ofAdopted =>
        cdrs[t].used < Credit[t] + Period + Lag

\* A monitor with d ticks left looks before the charge is overdrawn.
LooksInTime(d) ==
    /\ monitors[d] > 0
    /\ (now - session.started) + d < Credit[session.token] + Period + Lag

\* The inductive invariant behind it: a charge of this process has just begun
\* and is about to get its monitor, or one of the monitors looks in time.
CreditInv ==
    /\ state = "CHARGING" /\ ~adopted =>
           /\ session.started <= now
           /\ (\E h \in Handlers : pc[h] = "spawn") => session.started = now
           /\ \/ \E h \in Handlers : pc[h] = "spawn"
              \/ \E d \in Slots : LooksInTime(d)
    /\ OverdrawnByLessThanAPeriod

\* The charger is held up: a start without an outcome, or a charge that has no
\* credit left.
HeldUp ==
    \/ state = "STARTING"
    \/ state = "CHARGING" /\ ExhaustedAt(session, now)

\* A start comes to its outcome, and a charge to its end when the credit is
\* used up, as long as the process that began it lives.
HeldUpEnds == HeldUp /\ ~adopted ~> ~HeldUp \/ adopted

\* The same for a charger that was loaded from disk: "withChargerPersist runs
\* the charger handler, then durably snapshots the charger state to disk so a
\* restart can resume it" (server.go:258-259), and a refused start is told
\* "charger already in use -- stop current session first" (charger.go:95).
RestartResumes == HeldUp ~> ~HeldUp

\* A token is good for one charge: "Double-spend rejected (token already in
\* spent list -> check mint state -> reject if SPENT)"
\* (docs/ARCHITECTURE.md:191-192).
OneChargePerToken ==
    [][\A h \in Handlers : pc[h] = "accepted" /\ pc'[h] = "spawn" =>
           cdrs[tok[h]] = NoCDR]_vars

=============================================================================
