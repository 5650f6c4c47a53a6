--------------------------- MODULE ChargerProofs ----------------------------
(***************************************************************************)
(* Proofs of the safety properties of Charger, for any number of requests  *)
(* and any tokens, credits and windows, restarts included.                 *)
(***************************************************************************)
EXTENDS Charger, TLAPS

LEMMA InitTypeOK == Init => TypeOK
<1> SUFFICES ASSUME Init PROVE TypeOK
  OBVIOUS
<1>1. named \in [Handlers -> BOOLEAN] /\ adopted \in BOOLEAN
  BY Zenon DEF Init
<1>2. disk \in [state : States, session : LiveSession \cup {NoSession}]
  BY DEF Init, States
<1>3. QED
  BY <1>1, <1>2, ChargerAssumption
  DEF Init, TypeOK, States, Labels, Claims, NoMonitors

\* Counting and looking keep the monitors a function of their slots.
LEMMA MonitorsTyped ==
    ASSUME monitors \in [Slots -> Nat]
    PROVE  /\ Period + Lag \in Slots
           /\ NoMonitors \in [Slots -> Nat]
           /\ [monitors EXCEPT ![Period + Lag] = @ + 1] \in [Slots -> Nat]
           /\ [d \in Slots |-> IF d = Period + Lag THEN 0 ELSE monitors[d + 1]]
                  \in [Slots -> Nat]
           /\ \A d \in Slots : Fired(d) =>
                  /\ Gone(d) \in [Slots -> Nat]
                  /\ d + Period \in Slots /\ d + Period # d
                  /\ [monitors EXCEPT ![d] = @ - 1, ![d + Period] = @ + 1]
                         \in [Slots -> Nat]
<1>1. Period \in Nat \ {0} /\ Lag \in Nat
  BY ChargerAssumption
<1>2. Period + Lag \in Slots /\ NoMonitors \in [Slots -> Nat]
  BY <1>1 DEF Slots, NoMonitors
<1>3. [monitors EXCEPT ![Period + Lag] = @ + 1] \in [Slots -> Nat]
  BY <1>2
<1>4. \A d \in Slots : d = Period + Lag \/ d + 1 \in Slots
  BY <1>1 DEF Slots
<1>5. [d \in Slots |-> IF d = Period + Lag THEN 0 ELSE monitors[d + 1]]
          \in [Slots -> Nat]
  BY <1>4
<1>6. ASSUME NEW d \in Slots, Fired(d)
      PROVE  /\ Gone(d) \in [Slots -> Nat]
             /\ d + Period \in Slots /\ d + Period # d
             /\ [monitors EXCEPT ![d] = @ - 1, ![d + Period] = @ + 1]
                    \in [Slots -> Nat]
  <2>1. d + Period \in Slots /\ d + Period # d /\ monitors[d] - 1 \in Nat
    BY <1>1, <1>6 DEF Slots, Fired
  <2>2. Gone(d) \in [Slots -> Nat]
    BY <2>1 DEF Gone
  <2>3. [monitors EXCEPT ![d] = @ - 1, ![d + Period] = @ + 1] \in [Slots -> Nat]
    BY <2>1
  <2>4. QED BY <2>1, <2>2, <2>3
<1>7. QED BY <1>2, <1>3, <1>5, <1>6

\* A step of a request preserves the type invariant.
LEMMA StepTypeOK ==
    ASSUME TypeOK, OneStartAtATime, NEW h \in Handlers, Step(h)
    PROVE  TypeOK'
<1> USE DEF TypeOK, States, Labels, Claims, Goto, DropToken, charger, payments
<1>1. CASE AuthAccept(h)
  <2>1. tok[h] \in Tokens
    BY <1>1 DEF AuthAccept
  <2>2. now + Window[tok[h]] \in Nat
    BY <2>1, ChargerAssumption
  <2>3. QED BY <1>1, <2>1, <2>2 DEF AuthAccept
<1>2. CASE AuthReject(h)
  <2>1. tok[h] \in Tokens
    BY <1>2 DEF AuthReject
  <2>2. spent' \subseteq Tokens
    BY <1>2, <2>1 DEF AuthReject
  <2>3. QED BY <1>2, <2>2 DEF AuthReject
<1>3. CASE GiveBack(h)
  <2>1. state = "STARTING"
    BY <1>3 DEF GiveBack, OneStartAtATime
  <2>2. QED BY <1>3, <2>1 DEF GiveBack
<1>4. CASE BeginCharging(h)
  <2>1. [token |-> tok[h], started |-> now] \in LiveSession
    BY <1>4 DEF BeginCharging, LiveSession
  <2>2. QED BY <1>4, <2>1, ChargerAssumption DEF BeginCharging
<1>5. CASE SpawnMonitor(h)
  BY <1>5, MonitorsTyped DEF SpawnMonitor
<1>6. CASE Persist(h)
  BY <1>6 DEF Persist
<1>7. CASE PersistFails(h)
  BY <1>7 DEF PersistFails
<1>8. QED
  BY <1>1, <1>2, <1>3, <1>4, <1>5, <1>6, <1>7 DEF Step

\* finishCharging stores a CDR and frees the charger.
LEMMA FinishTypeOK ==
    ASSUME TypeOK, Charging, FinishCharging
    PROVE  /\ state' \in States /\ session' = NoSession
           /\ state' # "CHARGING"
           /\ cdrs' \in [Tokens -> CDR \cup {NoCDR}]
           /\ adopted' \in BOOLEAN
<1>1. session \in LiveSession
  BY DEF TypeOK, Charging
<1>2. [used |-> now - session.started, ofAdopted |-> adopted] \in CDR
  BY <1>1 DEF TypeOK, LiveSession, CDR
<1>3. QED BY <1>1, <1>2 DEF TypeOK, FinishCharging, States

LEMMA NextTypeOK ==
    ASSUME TypeOK, OneStartAtATime, [Next]_vars
    PROVE  TypeOK'
<1> USE DEF TypeOK, States, Labels, Claims, Goto, charger, payments, requests
<1>1. ASSUME NEW h \in Handlers, NEW t \in Tokens, NEW p \in BOOLEAN,
             Start(h, t, p)
      PROVE  TypeOK'
  BY <1>1 DEF Start
<1>2. ASSUME NEW h \in Handlers, Refuse(h) PROVE TypeOK'
  BY <1>2 DEF Refuse
<1>3. ASSUME NEW h \in Handlers, Stop(h) PROVE TypeOK'
  <2>1. CASE Charging
    BY <1>3, <2>1, FinishTypeOK DEF Stop
  <2>2. CASE ~Charging
    BY <1>3, <2>2 DEF Stop
  <2>3. QED BY <2>1, <2>2
<1>4. ASSUME NEW h \in Handlers, Step(h) PROVE TypeOK'
  BY <1>4, StepTypeOK
<1>5. ASSUME NEW d \in Slots, MonitorLeaves(d) PROVE TypeOK'
  BY <1>5, MonitorsTyped DEF MonitorLeaves
<1>6. ASSUME NEW d \in Slots, MonitorWaits(d) PROVE TypeOK'
  BY <1>6, MonitorsTyped DEF MonitorWaits
<1>7. ASSUME NEW d \in Slots, MonitorFinishes(d) PROVE TypeOK'
  BY <1>7, MonitorsTyped, FinishTypeOK DEF MonitorFinishes
<1>8. CASE Restart
  <2>1. named' \in [Handlers -> BOOLEAN] /\ adopted' \in BOOLEAN
    BY <1>8, Zenon DEF Restart
  <2>2. QED BY <1>8, <2>1, MonitorsTyped DEF Restart
<1>9. CASE Tick
  <2>1. now' \in Nat
    BY <1>9, ChargerAssumption DEF Tick
  <2>2. QED BY <1>9, <2>1, MonitorsTyped DEF Tick
<1>10. CASE UNCHANGED vars
  BY <1>10 DEF vars
<1>11. QED
  BY <1>1, <1>2, <1>3, <1>4, <1>5, <1>6, <1>7, <1>8, <1>9, <1>10
  DEF Next, Monitor

\* No step lets a second start in.
LEMMA NextOneStart ==
    ASSUME TypeOK, OneStartAtATime, [Next]_vars
    PROVE  OneStartAtATime'
<1> USE DEF OneStartAtATime, Claims, Goto, charger, payments, requests
<1>1. ASSUME NEW h \in Handlers, NEW t \in Tokens, NEW p \in BOOLEAN,
             Start(h, t, p)
      PROVE  OneStartAtATime'
  BY <1>1 DEF Start, TypeOK
<1>2. ASSUME NEW h \in Handlers, Refuse(h) PROVE OneStartAtATime'
  BY <1>2 DEF Refuse, TypeOK
<1>3. ASSUME NEW h \in Handlers, Stop(h) PROVE OneStartAtATime'
  BY <1>3 DEF Stop, Charging, FinishCharging, TypeOK
<1>4. ASSUME NEW h \in Handlers, Step(h) PROVE OneStartAtATime'
  <2>1. CASE AuthAccept(h) \/ AuthReject(h)
    BY <2>1 DEF AuthAccept, AuthReject, TypeOK
  <2>2. CASE GiveBack(h) \/ BeginCharging(h)
    BY <2>2 DEF GiveBack, BeginCharging, TypeOK
  <2>3. CASE SpawnMonitor(h) \/ Persist(h) \/ PersistFails(h)
    BY <2>3 DEF SpawnMonitor, Persist, PersistFails, TypeOK
  <2>4. QED BY <1>4, <2>1, <2>2, <2>3 DEF Step
<1>5. CASE Monitor
  BY <1>5 DEF Monitor, MonitorLeaves, MonitorWaits, MonitorFinishes,
              Charging, FinishCharging
<1>6. CASE Restart
  BY <1>6 DEF Restart
<1>7. CASE Tick \/ UNCHANGED vars
  BY <1>7 DEF Tick, vars
<1>8. QED
  BY <1>1, <1>2, <1>3, <1>4, <1>5, <1>6, <1>7 DEF Next

\* The two invariants hold together: that the charger is given back without a
\* session rests on its being STARTING until then.
LEMMA Claimed == Spec => [](TypeOK /\ OneStartAtATime)
<1>1. Init => OneStartAtATime
  BY DEF Init, OneStartAtATime, Claims
<1>2. TypeOK /\ OneStartAtATime /\ [Next]_vars => TypeOK' /\ OneStartAtATime'
  BY NextTypeOK, NextOneStart
<1>3. QED
  BY InitTypeOK, <1>1, <1>2, PTL DEF Spec

\* The charger is type correct.
THEOREM TypeCorrect == Spec => []TypeOK
  BY Claimed, PTL

\* Only one start has the charger, whatever other requests and monitors do.
THEOREM StartsExcludeEachOther == Spec => []OneStartAtATime
  BY Claimed, PTL

-----------------------------------------------------------------------------
(* No charge is overdrawn by a whole period.                               *)

\* The charger is left, or given, with no charge that this process began.
LEMMA IdleCreditInv ==
    ASSUME CreditInv, UNCHANGED cdrs, state' # "CHARGING" \/ adopted'
    PROVE  CreditInv'
  BY DEF CreditInv, OverdrawnByLessThanAPeriod

\* No charge, monitor or spawn is lost, and no time passes.
LEMMA QuietCreditInv ==
    ASSUME CreditInv, UNCHANGED <<now, charger, monitors>>,
           \A h \in Handlers : pc[h] = "spawn" <=> pc'[h] = "spawn"
    PROVE  CreditInv'
  BY DEF CreditInv, OverdrawnByLessThanAPeriod, LooksInTime, charger

\* A charge of this process: its parts are numbers, and it has not been
\* overdrawn by a period.
LEMMA ChargeBounded ==
    ASSUME TypeOK, CreditInv, state = "CHARGING", ~adopted
    PROVE  /\ session.token \in Tokens /\ session.started \in Nat
           /\ Credit[session.token] \in Nat \ {0}
           /\ now - session.started < Credit[session.token] + Period + Lag
<1>1. /\ session.token \in Tokens /\ session.started \in Nat /\ now \in Nat
      /\ Credit[session.token] \in Nat \ {0}
      /\ Period \in Nat \ {0} /\ Lag \in Nat
  BY ChargerAssumption DEF TypeOK, LiveSession
<1>2. CASE \E h \in Handlers : pc[h] = "spawn"
  <2>1. session.started = now
    BY <1>2 DEF CreditInv
  <2>2. QED BY <1>1, <2>1
<1>3. CASE \E d \in Slots : LooksInTime(d)
  BY <1>1, <1>3 DEF LooksInTime, Slots
<1>4. QED BY <1>1, <1>2, <1>3 DEF CreditInv

\* finishCharging ends a charge before it is overdrawn by a period.
LEMMA FinishCreditInv ==
    ASSUME TypeOK, CreditInv, Charging, FinishCharging
    PROVE  CreditInv'
<1>1. session \in LiveSession /\ session.token \in Tokens
  BY DEF TypeOK, Charging, LiveSession
<1>2. ~adopted =>
          now - session.started < Credit[session.token] + Period + Lag
  BY ChargeBounded DEF Charging
<1>3. OverdrawnByLessThanAPeriod'
  BY <1>1, <1>2 DEF CreditInv, OverdrawnByLessThanAPeriod, FinishCharging, TypeOK
<1>4. QED
  BY <1>3 DEF CreditInv, FinishCharging

\* A new charge has taken nothing yet and its monitor is about to start.
LEMMA BeginCreditInv ==
    ASSUME TypeOK, CreditInv, NEW h \in Handlers, BeginCharging(h)
    PROVE  CreditInv'
<1>1. /\ session' = [token |-> tok[h], started |-> now]
      /\ pc'[h] = "spawn" /\ now' = now /\ now \in Nat
      /\ UNCHANGED cdrs
  BY DEF BeginCharging, Goto, TypeOK
<1>2. session'.started = now'
  BY <1>1
<1>3. QED
  BY <1>1, <1>2 DEF CreditInv, OverdrawnByLessThanAPeriod, TypeOK

\* The monitor of a charge that has just begun looks in time.
LEMMA SpawnCreditInv ==
    ASSUME TypeOK, CreditInv, NEW h \in Handlers, SpawnMonitor(h)
    PROVE  CreditInv'
<1>1. CASE state = "CHARGING" /\ ~adopted
  <2>1. /\ session.started = now /\ pc[h] = "spawn" /\ now \in Nat
        /\ Credit[session.token] \in Nat \ {0}
        /\ Period \in Nat \ {0} /\ Lag \in Nat
    BY <1>1, ChargeBounded, ChargerAssumption DEF SpawnMonitor, CreditInv, TypeOK
  <2>2. /\ UNCHANGED <<now, state, session, cdrs, adopted>>
        /\ Period + Lag \in Slots /\ monitors'[Period + Lag] > 0
    BY MonitorsTyped DEF SpawnMonitor, charger, TypeOK
  <2>3. LooksInTime(Period + Lag)'
    BY <2>1, <2>2 DEF LooksInTime
  <2>4. QED
    BY <1>1, <2>1, <2>2, <2>3
    DEF CreditInv, OverdrawnByLessThanAPeriod, SpawnMonitor, Goto, TypeOK
<1>2. CASE ~(state = "CHARGING" /\ ~adopted)
  BY <1>2, IdleCreditInv DEF SpawnMonitor, charger
<1>3. QED BY <1>1, <1>2

\* A monitor that waits looks again in time: there was credit left.
LEMMA WaitCreditInv ==
    ASSUME TypeOK, CreditInv, NEW d \in Slots, MonitorWaits(d)
    PROVE  CreditInv'
<1>1. CASE state = "CHARGING" /\ ~adopted
  <2>1. /\ now \in Nat /\ session.started \in Nat
        /\ Credit[session.token] \in Nat \ {0}
        /\ Period \in Nat \ {0} /\ Lag \in Nat
    BY <1>1, ChargeBounded, ChargerAssumption DEF TypeOK
  <2>2. /\ d <= Lag /\ monitors[d] \in Nat
        /\ now - session.started < Credit[session.token]
    BY <2>1 DEF MonitorWaits, Fired, ExhaustedAt, TypeOK
  <2>3. /\ d + Period \in Slots
        /\ monitors' = [monitors EXCEPT ![d] = @ - 1, ![d + Period] = @ + 1]
        /\ UNCHANGED <<now, state, session, cdrs, adopted, pc>>
    BY MonitorsTyped DEF MonitorWaits, charger, requests, TypeOK
  <2>4. d + Period # d /\ monitors[d + Period] \in Nat
    BY <2>1, <2>3 DEF TypeOK, Slots
  <2>5. monitors'[d + Period] > 0
    BY <2>3, <2>4 DEF TypeOK
  <2>6. now - session.started + (d + Period)
            < Credit[session.token] + Period + Lag
    BY <2>1, <2>2 DEF Slots
  <2>7. LooksInTime(d + Period)'
    BY <2>3, <2>5, <2>6 DEF LooksInTime
  <2>8. QED
    BY <2>3, <2>7 DEF CreditInv, OverdrawnByLessThanAPeriod
<1>2. CASE ~(state = "CHARGING" /\ ~adopted)
  BY <1>2, IdleCreditInv DEF MonitorWaits, charger
<1>3. QED BY <1>1, <1>2

\* Time brings a monitor as much nearer to its look as it lengthens the charge.
LEMMA TickCreditInv ==
    ASSUME TypeOK, CreditInv, Tick
    PROVE  CreditInv'
<1>1. /\ monitors[0] = 0
      /\ \A h \in Handlers : pc[h] # "spawn"
      /\ now' = (IF now < MaxTime THEN now + 1 ELSE now)
      /\ monitors' = [d \in Slots |->
             IF d = Period + Lag THEN 0 ELSE monitors[d + 1]]
      /\ UNCHANGED <<state, session, cdrs, adopted, pc>>
  BY DEF Tick, charger, requests
<1>2. CASE state = "CHARGING" /\ ~adopted
  <2>1. /\ now \in Nat /\ session.started \in Nat
        /\ Credit[session.token] \in Nat \ {0}
        /\ Period \in Nat \ {0} /\ Lag \in Nat
        /\ session.started <= now
    BY <1>2, ChargeBounded, ChargerAssumption DEF TypeOK, CreditInv
  <2>2. PICK d \in Slots : LooksInTime(d)
    BY <1>1, <1>2 DEF CreditInv
  <2>3. d # 0 /\ d \in Nat
    BY <1>1, <2>2 DEF LooksInTime, Slots
  <2>4. /\ d - 1 \in Slots /\ d - 1 # Period + Lag /\ (d - 1) + 1 = d
    BY <2>1, <2>3 DEF Slots
  <2>5. monitors'[d - 1] = monitors[d]
    BY <1>1, <2>4
  <2>6. now' \in Nat /\ now <= now' /\ now' <= now + 1
    BY <1>1, <2>1
  <2>7. now' - session.started + (d - 1) < Credit[session.token] + Period + Lag
    BY <2>1, <2>2, <2>3, <2>6 DEF LooksInTime
  <2>8. LooksInTime(d - 1)'
    BY <1>1, <2>2, <2>5, <2>7 DEF LooksInTime
  <2>9. session'.started <= now'
    BY <1>1, <2>1, <2>6
  <2>10. QED
    BY <1>1, <2>4, <2>8, <2>9 DEF CreditInv, OverdrawnByLessThanAPeriod
<1>3. CASE ~(state = "CHARGING" /\ ~adopted)
  BY <1>1, <1>3, IdleCreditInv
<1>4. QED BY <1>2, <1>3

LEMMA NextCreditInv ==
    ASSUME TypeOK, OneStartAtATime, CreditInv, [Next]_vars
    PROVE  CreditInv'
<1> USE DEF Goto, payments, requests
<1>1. ASSUME NEW h \in Handlers, NEW t \in Tokens, NEW p \in BOOLEAN,
             Start(h, t, p)
      PROVE  CreditInv'
  BY <1>1, IdleCreditInv DEF Start
<1>2. ASSUME NEW h \in Handlers, Refuse(h) PROVE CreditInv'
  BY <1>2, QuietCreditInv DEF Refuse, TypeOK
<1>3. ASSUME NEW h \in Handlers, Stop(h) PROVE CreditInv'
  <2>1. CASE Charging
    BY <1>3, <2>1, FinishCreditInv DEF Stop
  <2>2. CASE ~Charging
    BY <1>3, <2>2, QuietCreditInv DEF Stop, TypeOK
  <2>3. QED BY <2>1, <2>2
<1>4. ASSUME NEW h \in Handlers, Step(h) PROVE CreditInv'
  <2>1. CASE AuthAccept(h) \/ AuthReject(h) \/ Persist(h) \/ PersistFails(h)
    BY <2>1, QuietCreditInv
    DEF AuthAccept, AuthReject, Persist, PersistFails, TypeOK
  <2>2. CASE SpawnMonitor(h)
    BY <2>2, SpawnCreditInv
  <2>3. CASE GiveBack(h)
    BY <2>3, IdleCreditInv DEF GiveBack
  <2>4. CASE BeginCharging(h)
    BY <2>4, BeginCreditInv
  <2>5. QED BY <1>4, <2>1, <2>2, <2>3, <2>4 DEF Step
<1>5. ASSUME NEW d \in Slots, MonitorLeaves(d) PROVE CreditInv'
  <2>1. state # "CHARGING" /\ UNCHANGED <<state, cdrs>>
    BY <1>5 DEF MonitorLeaves, Charging, charger, TypeOK
  <2>2. QED BY <2>1, IdleCreditInv
<1>6. ASSUME NEW d \in Slots, MonitorWaits(d) PROVE CreditInv'
  BY <1>6, WaitCreditInv
<1>7. ASSUME NEW d \in Slots, MonitorFinishes(d) PROVE CreditInv'
  BY <1>7, FinishCreditInv DEF MonitorFinishes
<1>8. CASE Restart
  BY <1>8, IdleCreditInv DEF Restart
<1>9. CASE Tick
  BY <1>9, TickCreditInv
<1>10. CASE UNCHANGED vars
  BY <1>10, QuietCreditInv DEF vars, charger
<1>11. QED
  BY <1>1, <1>2, <1>3, <1>4, <1>5, <1>6, <1>7, <1>8, <1>9, <1>10
  DEF Next, Monitor

LEMMA CreditInvariant == Spec => []CreditInv
<1>1. Init => CreditInv
  BY DEF Init, CreditInv, OverdrawnByLessThanAPeriod
<1>2. TypeOK /\ OneStartAtATime /\ CreditInv /\ [Next]_vars => CreditInv'
  BY NextCreditInv
<1>3. QED
  BY Claimed, <1>1, <1>2, PTL DEF Spec

\* Every charge that this process began has, or is about to get, a monitor.
THEOREM ChargesAreWatched == Spec => []ChargeIsWatched
<1>1. CreditInv => ChargeIsWatched
  BY DEF CreditInv, ChargeIsWatched, LooksInTime
<1>2. QED BY CreditInvariant, <1>1, PTL

\* No charge within one process overdraws its token's credit by as much as a
\* period of the ticker and the lateness of a look, for any period, lateness
\* and credits, aligned with each other or not.
THEOREM OverdraftBounded == Spec => []OverdrawnByLessThanAPeriod
<1>1. CreditInv => OverdrawnByLessThanAPeriod
  BY DEF CreditInv
<1>2. QED BY CreditInvariant, <1>1, PTL

=============================================================================
