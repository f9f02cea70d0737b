--------------------------- MODULE RiskGateProofs ---------------------------
(***************************************************************************)
(* Theorems about the risk service, for any staleness threshold, sync      *)
(* interval, fetch timeout and snapshot period the start-up guard admits,  *)
(* any equities and order sizes, and any number of checks and cron runs.   *)
(***************************************************************************)
EXTENDS RiskGate, TLAPS

-----------------------------------------------------------------------------
(* The inductive invariant.                                                *)

\* What a check knows: a row that lets the request through, now or when it
\* was read, has been noticed; a verdict is there only when the check is done.
ChecksNotice ==
    \A c \in Checks :
        /\ check[c].pc = "asked" /\ Verdict(state, check[c].notional) = "allowed" =>
              check[c].could
        /\ check[c].pc = "read" /\ Verdict(check[c].seen, check[c].notional) = "allowed" =>
              check[c].could
        /\ check[c].pc # "done" => check[c].verdict = "none"

\* A snapshot's own time stamp tells the age of the equity up to the time of
\* the portfolio's sync.
StampTells(s) == s.own => s.real <= s.age + SyncTime

StampsTell ==
    /\ StampTells(state)
    /\ \A c \in Checks : StampTells(check[c].seen)

\* Runs of the cron come one after the other.
OneRun ==
    /\ \A r \in Runs : run[r].pc # "idle" => inFlight
    /\ \A r, q \in Runs : run[r].pc # "idle" /\ run[q].pc # "idle" => r = q

\* A run that has not faltered started when the timer fired last, and what it
\* carries was good then.
RunsOnSchedule ==
    \A r \in Runs : run[r].pc # "idle" =>
        /\ run[r].well \/ ~outage => run[r].waited + due = SyncInterval
        /\ run[r].well /\ run[r].pc # "fetch" => run[r].copy.age <= SnapInterval + run[r].waited

\* The age of the row, as long as nothing has faltered: within one snapshot
\* period of the last firing of the timer, or of the one before it while a run
\* is under way.
RowOnSchedule ==
    ~outage /\ state.value # NoValue =>
        IF inFlight
        THEN state.age + due <= SnapInterval + 2 * SyncInterval
        ELSE state.age + due <= SnapInterval + SyncInterval

InFlightIsRun == inFlight => \E r \in Runs : run[r].pc # "idle"

\* The newest snapshot is not older than what was taken from it, and what is
\* on its way not older than what an earlier run has written; a time stamp that
\* was made up tells nothing of the next.
NewestIsYoungest ==
    /\ lastBy = "cron" /\ state.own => snap.age <= state.age
    /\ \A r \in Runs : run[r].pc \in {"reply", "write"} =>
          /\ run[r].copy.own => snap.age <= run[r].copy.age
          /\ lastBy = "cron" /\ state.own => run[r].copy.age <= state.age

\* What is about to be written has been received, and comes with its stamp.
Carried ==
    /\ StampTells(snap)
    /\ \A r \in Runs :
          /\ run[r].pc = "write" => run[r].copy.value # NoValue
          /\ StampTells(run[r].copy)

Answers  == ChecksNotice /\ StampsTell /\ AllowedAtOneInstant /\ AllowedOnFreshValue
Schedule == OneRun /\ InFlightIsRun /\ RunsOnSchedule /\ RowOnSchedule
IInv     == TypeOK /\ Carried /\ Answers /\ Schedule /\ NewestIsYoungest

-----------------------------------------------------------------------------
LEMMA IntervalFacts ==
    /\ Staleness \in Nat /\ FetchTimeout \in Nat /\ SnapInterval \in Nat
    /\ SyncTime \in Nat /\ Old \in Nat /\ RealOld = Old + SyncTime
    /\ SyncInterval \in Nat /\ SyncInterval > 0
    /\ 0 \in 0 .. SyncInterval /\ SyncInterval \in 0 .. SyncInterval
    /\ 0 \in 0 .. MaxLoss
  BY IntervalGuard DEF Old, RealOld

LEMMA IdleTypes ==
    /\ 0 \in Age /\ Old \in Age
    /\ RealOld \in RealAge /\ 0 .. SyncTime \subseteq RealAge /\ 0 \in RealAge
    /\ FreshRow \in RiskState /\ NoSnapshot \in Snapshot
    /\ IdleRun \in RunType /\ IdleCheck \in CheckType
  <1>1. /\ 0 \in Age /\ Old \in Age
        /\ RealOld \in RealAge /\ 0 .. SyncTime \subseteq RealAge /\ 0 \in RealAge
    BY IntervalGuard DEF Age, Old, RealAge, RealOld
  <1>2. FreshRow \in RiskState
    BY <1>1, IntervalGuard DEF FreshRow, RiskState
  <1>3. NoSnapshot \in Snapshot
    BY <1>1 DEF NoSnapshot, Snapshot
  <1>4. IdleRun \in RunType
    BY <1>3, IntervalGuard DEF IdleRun, RunType
  <1>5. IdleCheck \in CheckType
    BY <1>2 DEF IdleCheck, CheckType
  <1>6. QED
    BY <1>1, <1>2, <1>3, <1>4, <1>5

\* What nobody has stamped yet is as old as it may be.
LEMMA IdleStamps ==
    /\ StampTells(FreshRow) /\ StampTells(NoSnapshot) /\ StampTells(IdleRun.copy)
    /\ StampTells(IdleCheck.seen)
  BY IntervalFacts DEF StampTells, FreshRow, NoSnapshot, IdleRun, IdleCheck

\* A tick of the clock ages by one, saturates, and keeps the order of ages.
LEMMA OlderFacts ==
    ASSUME NEW a \in Age, NEW b \in Age
    PROVE  /\ Older(a) \in Age /\ a <= Older(a) /\ Older(a) <= a + 1
           /\ a <= b => Older(a) <= Older(b)
  BY IntervalGuard DEF Age, Old, Older

\* It keeps what a stamp tells of the equity's age.
LEMMA StalerFacts ==
    ASSUME NEW a \in Age, NEW b \in RealAge
    PROVE  /\ Staler(b) \in RealAge
           /\ b <= a + SyncTime => Staler(b) <= Older(a) + SyncTime
  BY IntervalGuard DEF Age, Old, Older, RealAge, RealOld, Staler

LEMMA RiskStateUpdates ==
    ASSUME NEW s \in RiskState
    PROVE  /\ \A k \in BOOLEAN : [s EXCEPT !.kill = k] \in RiskState
           /\ \A l \in 0 .. MaxLoss : [s EXCEPT !.loss = l] \in RiskState
           /\ \A v \in Values, a \in Age, b \in RealAge, o \in BOOLEAN :
                [s EXCEPT !.value = v, !.age = a, !.real = b, !.own = o] \in RiskState
           /\ \A a \in Age, b \in RealAge : [s EXCEPT !.age = a, !.real = b] \in RiskState
  BY DEF RiskState

\* Watching changes nothing but `could`, and sets it when the row allows.
LEMMA WatchFacts ==
    ASSUME NEW checks \in [Checks -> CheckType], NEW s
    PROVE  /\ Watch(checks, s) \in [Checks -> CheckType]
           /\ \A c \in Checks :
                /\ Watch(checks, s)[c].pc = checks[c].pc
                /\ Watch(checks, s)[c].notional = checks[c].notional
                /\ Watch(checks, s)[c].seen = checks[c].seen
                /\ Watch(checks, s)[c].verdict = checks[c].verdict
                /\ Watch(checks, s)[c].fresh = checks[c].fresh
                /\ checks[c].could => Watch(checks, s)[c].could
                /\ checks[c].pc = "asked" /\ Verdict(s, checks[c].notional) = "allowed" =>
                      Watch(checks, s)[c].could
  <1>1. ASSUME NEW c \in Checks, checks[c].pc = "asked", NEW b \in BOOLEAN
        PROVE  [checks[c] EXCEPT !.could = b] \in CheckType
    BY <1>1 DEF CheckType
  <1>2. ASSUME NEW c \in Checks
        PROVE  (checks[c].could \/ Verdict(s, checks[c].notional) = "allowed") \in BOOLEAN
    OBVIOUS
  <1>3. ASSUME NEW c \in Checks
        PROVE  [checks[c] EXCEPT !.could = @ \/ Verdict(s,
        checks[c].notional) = "allowed"] \in CheckType
    <2>1. CASE checks[c].could \/ Verdict(s, checks[c].notional) = "allowed"
      BY <2>1 DEF CheckType
    <2>2. CASE ~(checks[c].could \/ Verdict(s, checks[c].notional) = "allowed")
      BY <2>2 DEF CheckType
    <2>3. QED
      BY <2>1, <2>2
  <1>4. Watch(checks, s) \in [Checks -> CheckType]
    BY <1>3 DEF Watch
  <1>5. QED
    BY <1>4 DEF Watch, CheckType

LEMMA InitIInv == Init => IInv
  <1> SUFFICES ASSUME Init PROVE IInv
    OBVIOUS
  <1>1. TypeOK
    <2>1. run \in [Runs -> RunType] /\ check \in [Checks -> CheckType]
      BY IdleTypes DEF Init
    <2>2. state \in RiskState /\ snap \in Snapshot /\ due \in 0 .. SyncInterval
      BY IdleTypes, IntervalFacts DEF Init
    <2>3. QED
      BY <2>1, <2>2 DEF Init, TypeOK
  <1>2. Answers
    <2>1. StampsTell
      BY IdleStamps DEF Init, StampsTell
    <2> QED
      BY <2>1 DEF Init, Answers, ChecksNotice, AllowedAtOneInstant, AllowedOnFreshValue,
                  IdleCheck, FreshRow
  <1>3. Schedule
    BY DEF Init, Schedule, OneRun, InFlightIsRun, RunsOnSchedule, RowOnSchedule, IdleRun,
       FreshRow
  <1>4. NewestIsYoungest
    BY DEF Init, NewestIsYoungest, IdleRun
  <1>5. Carried
    BY IdleStamps DEF Init, Carried, IdleRun
  <1>6. QED
    BY <1>1, <1>2, <1>3, <1>4, <1>5 DEF IInv

\* Every step keeps the types.
LEMMA NextTypeOK ==
    ASSUME IInv, [Next]_vars
    PROVE  TypeOK'
  <1> USE DEF IInv, TypeOK, cronVars
  <1>1. ASSUME NEW c \in Checks, NEW n \in Notionals, AskCheck(c, n) PROVE TypeOK'
    <2>1. [check EXCEPT ![c] = [IdleCheck EXCEPT !.pc = "asked", !.notional = n]]
             \in [Checks -> CheckType]
      BY IdleTypes DEF IdleCheck, CheckType
    <2>2. check' \in [Checks -> CheckType]
      BY <1>1, <2>1, WatchFacts DEF AskCheck
    <2>3. QED
      BY <1>1, <2>2 DEF AskCheck
  <1>2. ASSUME NEW c \in Checks, ReadState(c) PROVE TypeOK'
    <2>1. check' \in [Checks -> CheckType]
      BY <1>2, ZenonT(40) DEF ReadState, CheckType
    <2>2. QED
      BY <1>2, <2>1 DEF ReadState
  <1>3. ASSUME NEW c \in Checks, ReadStateFails(c) PROVE TypeOK'
    <2>1. check' \in [Checks -> CheckType]
      BY <1>3, IdleTypes DEF ReadStateFails
    <2>2. QED
      BY <1>3, <2>1 DEF ReadStateFails, IdleCheck
  <1>4. ASSUME NEW c \in Checks, Decide(c) PROVE TypeOK'
    <2>1. Verdict(check[c].seen, check[c].notional)
             \in {"none", "allowed", "blocked", "unavailable"}
      BY DEF Verdict
    <2>2. PICK f \in BOOLEAN : f = Fresh(check[c].seen)
      BY DEF Fresh, CheckType, RiskState
    <2>3. check' \in [Checks -> CheckType]
      <3>1. \A v \in {"none", "allowed", "blocked", "unavailable"}, g \in BOOLEAN :
              [check[c] EXCEPT !.pc = "done", !.seen = FreshRow, !.verdict = v, !.fresh = g]
                  \in CheckType
        BY IdleTypes DEF CheckType
      <3> QED
        BY <1>4, <2>1, <2>2, <3>1 DEF Decide
    <2>4. QED
      BY <1>4, <2>3 DEF Decide
  <1>5. ASSUME NEW r \in Runs, FetchRead(r) PROVE TypeOK'
    <2>1. run' \in [Runs -> RunType]
      <3>1. \A w \in BOOLEAN :
              [run[r] EXCEPT !.pc = "reply", !.copy = snap, !.well = w] \in RunType
        BY DEF RunType
      <3>2. \E w \in BOOLEAN :
              run' = [run EXCEPT ![r] = [run[r] EXCEPT !.pc = "reply", !.copy = snap, !.well = w]]
        <4>1. CASE run[r].well /\ snap.age <= SnapInterval
          BY <1>5, <4>1, ZenonT(40) DEF FetchRead
        <4>2. CASE ~(run[r].well /\ snap.age <= SnapInterval)
          BY <1>5, <4>2, ZenonT(40) DEF FetchRead
        <4>3. QED
          BY <4>1, <4>2
      <3>3. QED
        BY <3>1, <3>2
    <2>2. QED
      BY <1>5, <2>1 DEF FetchRead
  <1>6. ASSUME NEW r \in Runs, FetchReceive(r) PROVE TypeOK'
    <2>1. run' \in [Runs -> RunType]
      BY <1>6 DEF FetchReceive, RunType
    <2>2. QED
      BY <1>6, <2>1 DEF FetchReceive
  <1>6b. ASSUME NEW r \in Runs, FetchUnstamped(r) PROVE TypeOK'
    <2>1. run' \in [Runs -> RunType]
      <3>1. [run[r].copy EXCEPT !.age = 0, !.real = RealOld, !.own = FALSE] \in Snapshot
        BY IdleTypes DEF RunType, Snapshot
      <3>2. \A copy \in Snapshot : [run[r] EXCEPT !.pc = "write", !.copy = copy] \in RunType
        BY DEF RunType
      <3> QED
        BY <1>6b, <3>1, <3>2 DEF FetchUnstamped
    <2>2. QED
      BY <1>6b, <2>1 DEF FetchUnstamped
  <1>7. ASSUME NEW r \in Runs, FetchSkips(r) \/ FetchFails(r), EndRun(r) PROVE TypeOK'
    BY <1>7, IdleTypes DEF EndRun
  <1>8. ASSUME NEW r \in Runs, WriteValue(r) PROVE TypeOK'
    <2>1. PICK copy \in Snapshot : copy = run[r].copy /\ copy.value # NoValue
      BY <1>8 DEF WriteValue, RunType, Carried
    <2>2. SyncedRow(copy) \in RiskState
      BY <2>1, RiskStateUpdates DEF SyncedRow, Snapshot
    <2>3. check' \in [Checks -> CheckType] /\ state' \in RiskState
      BY <1>8, <2>1, <2>2, WatchFacts DEF WriteValue, Write
    <2>4. outage' \in BOOLEAN
      BY <1>8 DEF WriteValue
    <2>5. run' \in [Runs -> RunType]
      BY <1>8, IdleTypes DEF WriteValue
    <2>6. QED
      BY <1>8, <2>3, <2>4, <2>5 DEF WriteValue
  <1>9. ASSUME TimerFires PROVE TypeOK'
    <2>1. CASE inFlight
      <3>1. \A r \in Runs : Faltered(run[r]) \in RunType
        BY DEF Faltered, RunType
      <3>2. QED
        BY <1>9, <2>1, <3>1, IntervalFacts DEF TimerFires
    <2>2. CASE ~inFlight
      <3>1. [IdleRun EXCEPT !.pc = "fetch"] \in RunType
        BY IdleTypes DEF RunType
      <3>2. PICK r \in Runs : run' = [run EXCEPT ![r] = [IdleRun EXCEPT !.pc = "fetch"]]
        BY <1>9, <2>2 DEF TimerFires
      <3>3. run' \in [Runs -> RunType]
        BY <3>1, <3>2
      <3>4. due' \in 0 .. SyncInterval /\ inFlight' \in BOOLEAN
        BY <1>9, <2>2, IntervalFacts DEF TimerFires
      <3>5. QED
        BY <1>9, <2>2, <3>3, <3>4 DEF TimerFires
    <2>3. QED
      BY <2>1, <2>2
  <1>10. ASSUME Operator PROVE TypeOK'
    <2>1. ASSUME NEW s \in RiskState, Write(s)
          PROVE  state' \in RiskState /\ check' \in [Checks -> CheckType]
      BY <2>1, WatchFacts DEF Write
    <2>2. CASE \E v \in Values : PostPortfolio(v)
      <3>1. PICK v \in Values : PostPortfolio(v)
        BY <2>2
      <3>2. [state EXCEPT !.value = v, !.age = 0, !.real = 0, !.own = TRUE] \in RiskState
        BY RiskStateUpdates, IdleTypes
      <3>3. QED
        BY <2>1, <3>1, <3>2 DEF PostPortfolio
    <2>3. CASE /\ Halt \/ Resume \/ ResetDailyLoss \/ \E l \in 0 .. MaxLoss : SetDailyLoss(l)
               /\ UNCHANGED <<snap, cronVars, lastBy, outage>>
      <3>1. \E s \in RiskState : Write(s)
        <4>1. CASE Halt \/ Resume
          BY <4>1, RiskStateUpdates DEF Halt, Resume
        <4>2. CASE ResetDailyLoss
          <5>1. [state EXCEPT !.loss = 0] \in RiskState
            BY RiskStateUpdates, IntervalFacts
          <5>2. QED
            BY <4>2, <5>1 DEF ResetDailyLoss
        <4>3. CASE \E l \in 0 .. MaxLoss : SetDailyLoss(l)
          BY <4>3, RiskStateUpdates DEF SetDailyLoss
        <4>4. QED
          BY <2>3, <4>1, <4>2, <4>3
      <3>2. QED
        BY <2>1, <2>3, <3>1
    <2>4. QED
      BY <1>10, <2>2, <2>3 DEF Operator
  <1>11. ASSUME NEW v \in Values, NEW held \in 0 .. SyncTime, SaveSnapshot(v, held) PROVE TypeOK'
    BY <1>11, IdleTypes DEF SaveSnapshot, Snapshot
  <1>12. ASSUME Tick PROVE TypeOK'
    <2>1. state' \in RiskState
      <3>1. state.age \in Age /\ state.real \in RealAge
        BY DEF RiskState
      <3>2. QED
        BY <1>12, <3>1, OlderFacts, StalerFacts, RiskStateUpdates DEF Tick
    <2>2. snap' \in Snapshot
      BY <1>12, OlderFacts, StalerFacts DEF Tick, Snapshot
    <2>3. run' \in [Runs -> RunType]
      <3>1. ASSUME NEW r \in Runs PROVE run'[r] \in RunType
        <4>1. /\ run[r] \in RunType /\ Older(run[r].copy.age) \in Age
              /\ Staler(run[r].copy.real) \in RealAge
          BY OlderFacts, StalerFacts DEF RunType, Snapshot
        <4>2. CASE run[r].pc = "idle"
          BY <1>12, <4>1, <4>2 DEF Tick
        <4>3. CASE run[r].pc # "idle" /\ run[r].waited = FetchTimeout
          BY <1>12, <4>1, <4>3 DEF Tick, Faltered, RunType, Snapshot
        <4>4. CASE run[r].pc # "idle" /\ run[r].waited # FetchTimeout
          <5>1. run[r].waited + 1 \in 0 .. FetchTimeout
            BY <4>4, IntervalGuard DEF RunType
          <5>2. QED
            BY <1>12, <4>1, <4>4, <5>1 DEF Tick, RunType, Snapshot
        <4>5. QED
          BY <4>2, <4>3, <4>4
      <3>2. QED
        BY <1>12, <3>1 DEF Tick
    <2>4. check' \in [Checks -> CheckType]
      <3>1. ASSUME NEW c \in Checks PROVE check'[c] \in CheckType
        <4>1. /\ check[c].seen.age \in Age /\ check[c].seen.real \in RealAge
              /\ check[c] \in CheckType
          BY DEF CheckType, RiskState
        <4>2. Older(check[c].seen.age) \in Age /\ Staler(check[c].seen.real) \in RealAge
          BY <4>1, OlderFacts, StalerFacts
        <4>3. QED
          BY <1>12, <4>1, <4>2 DEF Tick, CheckType, RiskState
      <3>2. QED
        BY <1>12, <3>1 DEF Tick
    <2>5. due' \in 0 .. SyncInterval
      <3>1. due > 0 /\ due' = due - 1
        BY <1>12 DEF Tick
      <3>2. due \in 0 .. SyncInterval /\ SyncInterval \in Nat
        BY IntervalFacts
      <3>3. QED
        BY <3>1, <3>2
    <2>6. outage' \in BOOLEAN
      BY <1>12 DEF Tick
    <2>7. QED
      BY <1>12, <2>1, <2>2, <2>3, <2>4, <2>5, <2>6 DEF Tick
  <1>13. ASSUME Restart PROVE TypeOK'
    BY <1>13, IdleTypes, IntervalFacts DEF Restart
  <1>14. CASE UNCHANGED vars
    BY <1>14 DEF vars, cronVars
  <1>15. QED
    BY <1>1, <1>2, <1>3, <1>4, <1>5, <1>6, <1>6b, <1>7, <1>8, <1>9,
       <1>10, <1>11, <1>12, <1>13, <1>14
    DEF Next, CheckStep, RunStep, FetchSkips, FetchFails


\* What the operator's endpoints do to the row: the time stamps stay, or the
\* operator's own value is stamped now.
LEMMA OperatorFacts ==
    ASSUME TypeOK, Operator
    PROVE  /\ \E s \in RiskState :
                /\ Write(s)
                /\ \/ /\ s.age = state.age /\ s.real = state.real /\ s.own = state.own
                      /\ s.value = state.value /\ lastBy' = lastBy
                   \/ s.age = 0 /\ s.real = 0 /\ lastBy' = "operator"
           /\ UNCHANGED <<snap, cronVars, outage>>
  <1> USE DEF TypeOK
  <1>1. CASE \E v \in Values : PostPortfolio(v)
    <2>1. PICK v \in Values : PostPortfolio(v)
      BY <1>1
    <2> DEFINE s == [state EXCEPT !.value = v, !.age = 0, !.real = 0, !.own = TRUE]
    <2>2. s \in RiskState
      BY RiskStateUpdates, IdleTypes
    <2>3. s.age = 0 /\ s.real = 0
      BY DEF RiskState
    <2>4. QED
      BY <2>1, <2>2, <2>3 DEF PostPortfolio
  <1>2. CASE /\ Halt \/ Resume \/ ResetDailyLoss \/ \E l \in 0 .. MaxLoss : SetDailyLoss(l)
             /\ UNCHANGED <<snap, cronVars, lastBy, outage>>
    <2> DEFINE Same(s) == /\ s.age = state.age /\ s.real = state.real
                          /\ s.own = state.own /\ s.value = state.value
    <2>1. \E s \in RiskState : Write(s) /\ Same(s)
      <3>1. CASE Halt \/ Resume
        <4>1. PICK k \in BOOLEAN : Write([state EXCEPT !.kill = k])
          BY <3>1 DEF Halt, Resume
        <4>2. Same([state EXCEPT !.kill = k]) /\ [state EXCEPT !.kill = k] \in RiskState
          BY DEF RiskState
        <4>3. QED
          BY <4>1, <4>2
      <3>2. CASE ResetDailyLoss \/ \E l \in 0 .. MaxLoss : SetDailyLoss(l)
        <4>1. PICK l \in 0 .. MaxLoss : Write([state EXCEPT !.loss = l])
          BY <3>2, IntervalFacts DEF ResetDailyLoss, SetDailyLoss
        <4>2. Same([state EXCEPT !.loss = l]) /\ [state EXCEPT !.loss = l] \in RiskState
          BY DEF RiskState
        <4>3. QED
          BY <4>1, <4>2
      <3>3. QED
        BY <1>2, <3>1, <3>2
    <2>2. QED
      BY <1>2, <2>1
  <1>3. QED
    BY <1>1, <1>2 DEF Operator

\* A write to the row is seen by the checks that wait to read it.
LEMMA WriteAnswers ==
    ASSUME IInv, NEW s \in RiskState, StampTells(s), Write(s)
    PROVE  Answers'
  <1> USE DEF IInv, TypeOK
  <1>1. state' = s /\ check' = Watch(check, s)
    BY DEF Write
  <1>2. ChecksNotice'
    BY <1>1, WatchFacts DEF Answers, ChecksNotice
  <1>3. StampsTell'
    BY <1>1, WatchFacts DEF Answers, StampsTell
  <1>4. AllowedAtOneInstant' /\ AllowedOnFreshValue'
    BY <1>1, WatchFacts DEF Answers, AllowedAtOneInstant, AllowedOnFreshValue
  <1>5. QED
    BY <1>2, <1>3, <1>4 DEF Answers

\* The row a tick later.
Aged(s) == [s EXCEPT !.age = Older(@), !.real = Staler(@)]

LEMMA AgedFacts ==
    ASSUME NEW s \in RiskState
    PROVE  /\ Aged(s).age = Older(s.age) /\ Aged(s).real = Staler(s.real)
           /\ Aged(s).own = s.own
           /\ StampTells(s) => StampTells(Aged(s))
  <1>1. /\ Aged(s).age = Older(s.age) /\ Aged(s).real = Staler(s.real)
        /\ Aged(s).own = s.own /\ s.age \in Age /\ s.real \in RealAge
    BY DEF RiskState, Aged
  <1> QED
    BY <1>1, StalerFacts DEF StampTells

\* A row that lets a request through did so a moment before.
LEMMA VerdictAges ==
    ASSUME NEW s \in RiskState, NEW n
    PROVE  Verdict(Aged(s), n) = "allowed" => Verdict(s, n) = "allowed"
  <1>1. s.age \in Age /\ s.age <= Older(s.age) /\ Older(s.age) \in Age
    BY OlderFacts DEF RiskState
  <1>2. s.age \in Nat /\ Older(s.age) \in Nat /\ Staleness \in Nat
    BY <1>1, IntervalFacts DEF Age
  <1> DEFINE t == Aged(s)
  <1>3. t.age = Older(s.age) /\ t.kill = s.kill /\ t.value = s.value /\ t.loss = s.loss
    BY DEF RiskState, Aged
  <1>4. s.age > Staleness => t.age > Staleness
    BY <1>1, <1>2, <1>3
  <1>5. QED
    BY <1>3, <1>4 DEF Verdict

\* Every step keeps what the checks know.
LEMMA NextAnswers ==
    ASSUME IInv, [Next]_vars
    PROVE  Answers'
  <1> USE DEF IInv, TypeOK, cronVars
  <1>1. ASSUME NEW c \in Checks, NEW n \in Notionals, AskCheck(c, n) PROVE Answers'
    <2> DEFINE asked == [check EXCEPT ![c] = [IdleCheck EXCEPT !.pc = "asked", !.notional = n]]
    <2>1. asked \in [Checks -> CheckType] /\ check' = Watch(asked, state) /\ state' = state
      BY <1>1, IdleTypes DEF AskCheck, IdleCheck, CheckType
    <2>2. /\ asked[c].pc = "asked" /\ asked[c].verdict = "none" /\ asked[c].seen = FreshRow
          /\ \A d \in Checks \ {c} : asked[d] = check[d]
      BY IdleTypes DEF IdleCheck
    <2>3. ASSUME NEW d \in Checks
          PROVE  /\ check'[d].pc = asked[d].pc /\ check'[d].notional = asked[d].notional
                 /\ check'[d].seen = asked[d].seen /\ check'[d].verdict = asked[d].verdict
                 /\ check'[d].fresh = asked[d].fresh /\ (asked[d].could => check'[d].could)
                 /\ asked[d].pc = "asked" /\ Verdict(state, asked[d].notional) = "allowed" =>
                       check'[d].could
      <3> HIDE DEF asked
      <3>1. QED
        BY <2>1, WatchFacts
    <2> HIDE DEF asked
    <2>4. ChecksNotice'
      <3>1. ASSUME NEW d \in Checks
            PROVE  /\ /\ check'[d].pc = "asked"
                      /\ Verdict(state', check'[d].notional) = "allowed"
                      => check'[d].could
                   /\ /\ check'[d].pc = "read"
                      /\ Verdict(check'[d].seen, check'[d].notional) = "allowed"
                      => check'[d].could
                   /\ check'[d].pc # "done" => check'[d].verdict = "none"
        <4>1. CASE d = c
          BY <2>1, <2>2, <2>3, <4>1
        <4>2. CASE d # c
          BY <2>1, <2>2, <2>3, <4>2 DEF Answers, ChecksNotice
        <4>3. QED
          BY <4>1, <4>2
      <3>2. QED
        BY <3>1 DEF ChecksNotice
    <2>5. StampsTell'
      BY <2>1, <2>2, <2>3, IdleStamps DEF Answers, StampsTell
    <2>6. AllowedAtOneInstant' /\ AllowedOnFreshValue'
      <3>1. ASSUME NEW d \in Checks, check'[d].verdict = "allowed"
            PROVE  check'[d].could /\ check'[d].fresh
        <4>1. d # c /\ check[d].verdict = "allowed"
          BY <2>2, <2>3, <3>1
        <4>2. QED
          BY <2>2, <2>3, <4>1 DEF Answers, AllowedAtOneInstant, AllowedOnFreshValue
      <3>2. QED
        BY <3>1 DEF AllowedAtOneInstant, AllowedOnFreshValue
    <2>7. QED
      BY <2>4, <2>5, <2>6 DEF Answers
  <1>2. ASSUME NEW c \in Checks, ReadState(c) PROVE Answers'
    <2>1. /\ check'[c].pc = "read" /\ check'[c].could = check[c].could
          /\ check'[c].verdict = check[c].verdict /\ check'[c].fresh = check[c].fresh
          /\ check'[c].notional = check[c].notional /\ check'[c].seen = state
      BY <1>2 DEF ReadState, CheckType
    <2>2. /\ \A d \in Checks \ {c} : check'[d] = check[d]
          /\ state' = state
      BY <1>2 DEF ReadState
    <2>3. QED
      BY <1>2, <2>1, <2>2 DEF ReadState, Answers, ChecksNotice, StampsTell,
         AllowedAtOneInstant, AllowedOnFreshValue
  <1>3. ASSUME NEW c \in Checks, ReadStateFails(c) PROVE Answers'
    <2>1. /\ check'[c] = IdleCheck /\ state' = state
          /\ \A d \in Checks \ {c} : check'[d] = check[d]
      BY <1>3 DEF ReadStateFails
    <2>2. StampsTell'
      BY <2>1, IdleStamps DEF Answers, StampsTell
    <2> QED
      BY <2>1, <2>2 DEF IdleCheck, Answers, ChecksNotice, AllowedAtOneInstant,
                        AllowedOnFreshValue
  <1>4. ASSUME NEW c \in Checks, Decide(c) PROVE Answers'
    <2>1. /\ check'[c].pc = "done" /\ check'[c].could = check[c].could
          /\ check'[c].verdict = Verdict(check[c].seen, check[c].notional)
          /\ check'[c].fresh = Fresh(check[c].seen)
          /\ check'[c].seen = FreshRow
      BY <1>4 DEF Decide, CheckType
    <2>2. \A d \in Checks \ {c} : check'[d] = check[d]
      BY <1>4 DEF Decide
    <2>3. state' = state
      BY <1>4 DEF Decide
    <2>4. ChecksNotice' /\ StampsTell'
      BY <2>1, <2>2, <2>3, IdleStamps DEF Answers, ChecksNotice, StampsTell
    <2>5. AllowedAtOneInstant'
      BY <1>4, <2>1, <2>2 DEF Decide, Answers, ChecksNotice, AllowedAtOneInstant
    <2>6. check'[c].verdict = "allowed" => check'[c].fresh
      <3>1. /\ check[c].seen.age \in Nat /\ Staleness \in Nat /\ SyncTime \in Nat
            /\ check[c].seen.real \in Nat
        BY IntervalFacts DEF CheckType, RiskState, Age, RealAge
      <3>2. StampTells(check[c].seen)
        BY DEF Answers, StampsTell
      <3>3. Verdict(check[c].seen, check[c].notional) = "allowed" =>
              ~(check[c].seen.age > Staleness)
        BY DEF Verdict
      <3>4. Verdict(check[c].seen, check[c].notional) = "allowed" => Fresh(check[c].seen)
        BY <3>1, <3>2, <3>3 DEF StampTells, Fresh
      <3> HIDE DEF IInv, TypeOK
      <3>5. QED
        BY <2>1, <3>4, Zenon
    <2>7. AllowedOnFreshValue'
      BY <2>2, <2>6 DEF Answers, AllowedOnFreshValue
    <2>8. QED
      BY <2>4, <2>5, <2>7 DEF Answers
  <1>5. ASSUME NEW r \in Runs, FetchRead(r) PROVE Answers'
    BY <1>5 DEF FetchRead,
           Answers, ChecksNotice, StampsTell, AllowedAtOneInstant, AllowedOnFreshValue
  <1>6. ASSUME NEW r \in Runs, FetchReceive(r) PROVE Answers'
    BY <1>6 DEF FetchReceive,
           Answers, ChecksNotice, StampsTell, AllowedAtOneInstant, AllowedOnFreshValue
  <1>6b. ASSUME NEW r \in Runs, FetchUnstamped(r) PROVE Answers'
    BY <1>6b DEF FetchUnstamped,
           Answers, ChecksNotice, StampsTell, AllowedAtOneInstant, AllowedOnFreshValue
  <1>7. ASSUME NEW r \in Runs, FetchSkips(r) \/ FetchFails(r), EndRun(r) PROVE Answers'
    BY <1>7 DEF EndRun, FetchSkips, FetchFails, IdleRun,
           Answers, ChecksNotice, StampsTell, AllowedAtOneInstant, AllowedOnFreshValue
  <1>8. ASSUME NEW r \in Runs, WriteValue(r) PROVE Answers'
    <2>1. PICK copy \in Snapshot : copy = run[r].copy /\ copy.value # NoValue
      BY <1>8 DEF WriteValue, RunType, Carried
    <2>2. SyncedRow(copy) \in RiskState
      BY <2>1, RiskStateUpdates DEF SyncedRow, Snapshot
    <2>3. StampTells(SyncedRow(copy))
      <3>1. StampTells(copy)
        BY <2>1 DEF Carried
      <3> QED
        BY <3>1 DEF SyncedRow, RiskState, StampTells
    <2>4. QED
      BY <1>8, <2>1, <2>2, <2>3, WriteAnswers DEF WriteValue
  <1>9. ASSUME TimerFires PROVE Answers'
    BY <1>9 DEF TimerFires, Faltered, IdleRun,
           Answers, ChecksNotice, StampsTell, AllowedAtOneInstant, AllowedOnFreshValue
  <1>10. ASSUME Operator PROVE Answers'
    <2>1. PICK s \in RiskState :
            /\ Write(s)
            /\ \/ s.age = state.age /\ s.real = state.real /\ s.own = state.own
               \/ s.age = 0 /\ s.real = 0
      BY <1>10, OperatorFacts
    <2>2. StampTells(state) /\ SyncTime \in Nat
      BY IntervalFacts DEF Answers, StampsTell
    <2>3. StampTells(s)
      <3>1. CASE s.age = 0 /\ s.real = 0
        BY <2>2, <3>1 DEF StampTells
      <3>2. CASE s.age = state.age /\ s.real = state.real /\ s.own = state.own
        BY <2>2, <3>2 DEF StampTells
      <3> QED
        BY <2>1, <3>1, <3>2
    <2> QED
      BY <2>1, <2>3, WriteAnswers
  <1>11. ASSUME NEW v \in Values, NEW held \in 0 .. SyncTime, SaveSnapshot(v, held) PROVE Answers'
    BY <1>11 DEF SaveSnapshot,
           Answers, ChecksNotice, StampsTell, AllowedAtOneInstant, AllowedOnFreshValue
  <1>12. ASSUME Tick PROVE Answers'
    <2>1. /\ state' = Aged(state)
          /\ check' = [c \in Checks |->
                  IF check[c].pc = "read"
                  THEN [check[c] EXCEPT !.seen.age = Older(@), !.seen.real = Staler(@)]
                  ELSE check[c]]
      BY <1>12 DEF Tick, Aged
    <2>2. ASSUME NEW c \in Checks
          PROVE  /\ check'[c].pc = check[c].pc /\ check'[c].could = check[c].could
                 /\ check'[c].verdict = check[c].verdict /\ check'[c].fresh = check[c].fresh
                 /\ check'[c].notional = check[c].notional
                 /\ check'[c].seen =
                      IF check[c].pc = "read"
                      THEN Aged(check[c].seen)
                      ELSE check[c].seen
      BY <2>1 DEF CheckType, RiskState, Aged
    <2>3. ChecksNotice'
      <3>1. ASSUME NEW c \in Checks, check'[c].pc = "asked",
                   Verdict(state', check'[c].notional) = "allowed"
            PROVE  check'[c].could
        BY <2>1, <2>2, <3>1, VerdictAges DEF Answers, ChecksNotice
      <3>2. ASSUME NEW c \in Checks, check'[c].pc = "read",
                   Verdict(check'[c].seen, check'[c].notional) = "allowed"
            PROVE  check'[c].could
        <4>1. check[c].seen \in RiskState
          BY DEF CheckType
        <4>2. check[c].pc = "read" /\ Verdict(Aged(check[c].seen),
        check[c].notional) = "allowed"
          BY <2>2, <3>2
        <4>3. Verdict(check[c].seen, check[c].notional) = "allowed"
          BY <4>1, <4>2, VerdictAges
        <4>4. check[c].could
          BY <4>2, <4>3 DEF Answers, ChecksNotice
        <4>5. QED
          BY <2>2, <4>4
      <3>3. ASSUME NEW c \in Checks PROVE check'[c].pc # "done" => check'[c].verdict = "none"
        BY <2>2, <3>3 DEF Answers, ChecksNotice
      <3>4. QED
        BY <3>1, <3>2, <3>3 DEF ChecksNotice
    <2>4. StampsTell'
      <3>1. StampTells(state)'
        <4>1. StampTells(Aged(state))
          BY AgedFacts DEF Answers, StampsTell
        <4> QED
          BY <2>1, <4>1 DEF StampTells
      <3>2. ASSUME NEW c \in Checks PROVE StampTells(check[c].seen)'
        <4>1. check[c].seen \in RiskState /\ StampTells(check[c].seen)
          BY DEF CheckType, Answers, StampsTell
        <4>2. StampTells(Aged(check[c].seen))
          BY <4>1, AgedFacts
        <4>3. QED
          BY <2>2, <4>1, <4>2 DEF StampTells
      <3>3. QED
        BY <3>1, <3>2 DEF StampsTell
    <2>5. AllowedAtOneInstant' /\ AllowedOnFreshValue'
      BY <2>2 DEF Answers, AllowedAtOneInstant, AllowedOnFreshValue
    <2>6. QED
      BY <2>3, <2>4, <2>5 DEF Answers
  <1>13. ASSUME Restart PROVE Answers'
    <2>1. (\A c \in Checks : check'[c] = IdleCheck) /\ state' = state
      BY <1>13 DEF Restart
    <2>2. StampsTell'
      BY <2>1, IdleStamps DEF Answers, StampsTell
    <2> QED
      BY <2>1, <2>2 DEF IdleCheck, Answers, ChecksNotice, AllowedAtOneInstant,
                        AllowedOnFreshValue
  <1>14. CASE UNCHANGED vars
    BY <1>14 DEF vars, Answers, ChecksNotice, StampsTell, AllowedAtOneInstant,
       AllowedOnFreshValue
  <1>15. QED
    BY <1>1, <1>2, <1>3, <1>4, <1>5, <1>6, <1>6b, <1>7, <1>8, <1>9,
       <1>10, <1>11, <1>12, <1>13, <1>14
    DEF Next, CheckStep, RunStep, FetchSkips, FetchFails

\* A tick leaves every run where it is, and ages what it carries.
LEMMA TickRuns ==
    ASSUME TypeOK, Tick, NEW r \in Runs
    PROVE  /\ run'[r].pc = run[r].pc
           /\ run[r].pc # "idle" =>
                /\ run'[r].copy.age = Older(run[r].copy.age)
                /\ run'[r].copy.value = run[r].copy.value
                /\ run'[r].copy.real = Staler(run[r].copy.real)
                /\ run'[r].copy.own = run[r].copy.own
                /\ IF run[r].waited = FetchTimeout
                   THEN ~run'[r].well /\ outage'
                   ELSE run'[r].waited = run[r].waited + 1 /\ run'[r].well = run[r].well
  BY DEF Tick, TypeOK, Faltered, RunType, Snapshot

\* Ages and times are numbers.
LEMMA AgesAreNumbers ==
    ASSUME TypeOK
    PROVE  /\ state.age \in Age /\ state.age \in Nat
           /\ snap.age \in Age /\ snap.age \in Nat
           /\ due \in Nat
           /\ \A r \in Runs :
                 /\ run[r].copy.age \in Age /\ run[r].copy.age \in Nat
                 /\ run[r].waited \in Nat
  BY IntervalFacts DEF TypeOK, RiskState, Snapshot, RunType, Age, Old

\* What is written has been received.
LEMMA NextCarried ==
    ASSUME IInv, [Next]_vars
    PROVE  Carried'
  <1> USE DEF IInv, TypeOK, cronVars, Carried
  <1>1. ASSUME NEW c \in Checks, NEW n \in Notionals, AskCheck(c, n) PROVE Carried'
    BY <1>1 DEF AskCheck, Watch, IdleCheck, StampTells
  <1>2. ASSUME NEW c \in Checks, ReadState(c) PROVE Carried'
    BY <1>2 DEF ReadState, StampTells
  <1>3. ASSUME NEW c \in Checks, ReadStateFails(c) PROVE Carried'
    BY <1>3 DEF ReadStateFails, IdleCheck, StampTells
  <1>4. ASSUME NEW c \in Checks, Decide(c) PROVE Carried'
    BY <1>4 DEF Decide, StampTells
  <1>5. ASSUME NEW r \in Runs, FetchRead(r) PROVE Carried'
    <2>1. /\ run'[r].pc = "reply" /\ run'[r].copy = snap /\ snap' = snap
          /\ \A q \in Runs \ {r} : run'[q] = run[q]
      BY <1>5 DEF FetchRead, RunType
    <2> QED
      BY <2>1 DEF StampTells
  <1>6. ASSUME NEW r \in Runs, FetchReceive(r) PROVE Carried'
    <2>1. /\ run'[r].copy = run[r].copy /\ run[r].copy.value # NoValue /\ snap' = snap
          /\ \A q \in Runs \ {r} : run'[q] = run[q]
      BY <1>6 DEF FetchReceive, RunType
    <2> QED
      BY <2>1 DEF StampTells
  <1>6b. ASSUME NEW r \in Runs, FetchUnstamped(r) PROVE Carried'
    <2>1. /\ ~run'[r].copy.own /\ run'[r].copy.value = run[r].copy.value
          /\ run[r].copy.value # NoValue /\ snap' = snap
          /\ \A q \in Runs \ {r} : run'[q] = run[q]
      BY <1>6b DEF FetchUnstamped, RunType, Snapshot
    <2> QED
      BY <2>1 DEF StampTells
  <1>7. ASSUME NEW r \in Runs, FetchSkips(r) \/ FetchFails(r), EndRun(r) PROVE Carried'
    <2>1. run'[r] = IdleRun /\ snap' = snap /\ \A q \in Runs \ {r} : run'[q] = run[q]
      BY <1>7 DEF EndRun
    <2> QED
      BY <2>1, IdleStamps DEF StampTells, IdleRun
  <1>8. ASSUME NEW r \in Runs, WriteValue(r) PROVE Carried'
    <2>1. run'[r] = IdleRun /\ snap' = snap /\ \A q \in Runs \ {r} : run'[q] = run[q]
      BY <1>8 DEF WriteValue
    <2> QED
      BY <2>1, IdleStamps DEF StampTells, IdleRun
  <1>9. ASSUME TimerFires PROVE Carried'
    <2>1. snap' = snap
      BY <1>9 DEF TimerFires
    <2>2. ASSUME NEW q \in Runs
          PROVE  /\ run'[q].pc = "write" => run[q].pc = "write"
                 /\ run'[q].copy \in {run[q].copy, IdleRun.copy}
                 /\ run'[q].pc = "write" => run'[q].copy = run[q].copy
      <3>1. CASE inFlight
        BY <1>9, <3>1 DEF TimerFires, Faltered, RunType
      <3>2. CASE ~inFlight
        BY <1>9, <3>2 DEF TimerFires, IdleRun, RunType
      <3> QED
        BY <3>1, <3>2
    <2> QED
      BY <2>1, <2>2, IdleStamps DEF StampTells
  <1>10. ASSUME Operator PROVE Carried'
    BY <1>10, OperatorFacts DEF StampTells
  <1>11. ASSUME NEW v \in Values, NEW held \in 0 .. SyncTime, SaveSnapshot(v, held) PROVE Carried'
    BY <1>11, IntervalFacts DEF SaveSnapshot, StampTells
  <1>12. ASSUME Tick PROVE Carried'
    <2>1. StampTells(snap)'
      <3>1. snap.age \in Age /\ snap.real \in RealAge
        BY DEF Snapshot
      <3>2. /\ snap'.age = Older(snap.age) /\ snap'.real = Staler(snap.real)
            /\ snap'.own = snap.own
        BY <1>12 DEF Tick, Snapshot
      <3> QED
        BY <3>1, <3>2, StalerFacts DEF StampTells
    <2>2. ASSUME NEW r \in Runs PROVE StampTells(run[r].copy)'
      <3>1. CASE run[r].pc = "idle"
        BY <1>12, <3>1 DEF Tick, StampTells
      <3>2. CASE run[r].pc # "idle"
        <4>1. run[r].copy.age \in Age /\ run[r].copy.real \in RealAge
          BY DEF RunType, Snapshot
        <4> QED
          BY <1>12, <3>2, <4>1, TickRuns, StalerFacts DEF StampTells
      <3> QED
        BY <3>1, <3>2
    <2> QED
      BY <1>12, <2>1, <2>2, TickRuns
  <1>13. ASSUME Restart PROVE Carried'
    <2>1. snap' = snap /\ \A r \in Runs : run'[r] = IdleRun
      BY <1>13 DEF Restart
    <2> QED
      BY <2>1, IdleStamps DEF StampTells, IdleRun
  <1>14. CASE UNCHANGED vars
    BY <1>14 DEF vars, cronVars, StampTells
  <1>15. QED
    BY <1>1, <1>2, <1>3, <1>4, <1>5, <1>6, <1>6b, <1>7, <1>8, <1>9,
       <1>10, <1>11, <1>12, <1>13, <1>14
    DEF Next, CheckStep, RunStep, FetchSkips, FetchFails

\* Every step keeps the order of the snapshots.
LEMMA NextYoungest ==
    ASSUME IInv, [Next]_vars
    PROVE  NewestIsYoungest'
  <1> USE DEF IInv, TypeOK, cronVars, NewestIsYoungest
  <1>1. ASSUME NEW c \in Checks, NEW n \in Notionals, AskCheck(c, n) PROVE NewestIsYoungest'
    BY <1>1 DEF AskCheck, Watch, IdleCheck
  <1>2. ASSUME NEW c \in Checks, ReadState(c) PROVE NewestIsYoungest'
    BY <1>2 DEF ReadState
  <1>3. ASSUME NEW c \in Checks, ReadStateFails(c) PROVE NewestIsYoungest'
    BY <1>3 DEF ReadStateFails, IdleCheck
  <1>4. ASSUME NEW c \in Checks, Decide(c) PROVE NewestIsYoungest'
    BY <1>4 DEF Decide
  <1>5. ASSUME NEW r \in Runs, FetchRead(r) PROVE NewestIsYoungest'
    <2>1. /\ run'[r].pc = "reply" /\ run'[r].copy = snap
          /\ \A q \in Runs \ {r} : run'[q] = run[q]
      BY <1>5 DEF FetchRead, RunType
    <2>2. UNCHANGED <<state, snap, lastBy>>
      BY <1>5 DEF FetchRead
    <2>3. QED
      BY <2>1, <2>2, AgesAreNumbers
  <1>6. ASSUME NEW r \in Runs, FetchReceive(r) PROVE NewestIsYoungest'
    BY <1>6 DEF FetchReceive
  <1>6b. ASSUME NEW r \in Runs, FetchUnstamped(r) PROVE NewestIsYoungest'
    <2>1. /\ run'[r].copy.age = 0 /\ ~run'[r].copy.own
          /\ \A q \in Runs \ {r} : run'[q] = run[q]
      BY <1>6b DEF FetchUnstamped, RunType, Snapshot
    <2>2. UNCHANGED <<state, snap, lastBy>>
      BY <1>6b DEF FetchUnstamped
    <2>3. QED
      BY <2>1, <2>2, AgesAreNumbers
  <1>7. ASSUME NEW r \in Runs, FetchSkips(r) \/ FetchFails(r), EndRun(r) PROVE NewestIsYoungest'
    BY <1>7 DEF EndRun, FetchSkips, FetchFails, IdleRun
  <1>8. ASSUME NEW r \in Runs, WriteValue(r) PROVE NewestIsYoungest'
    <2>1. run' = [run EXCEPT ![r] = IdleRun] /\ run[r].pc = "write"
      BY <1>8 DEF WriteValue
    <2>2. \A q \in Runs : run'[q].pc = "idle"
      BY <2>1 DEF Schedule, OneRun, IdleRun
    <2>3. state'.age = run[r].copy.age /\ state'.own = run[r].copy.own /\ snap' = snap
      BY <1>8 DEF WriteValue, Write, SyncedRow, RiskState
    <2>4. QED
      BY <2>1, <2>2, <2>3
  <1>9. ASSUME TimerFires PROVE NewestIsYoungest'
    <2>1. ASSUME NEW q \in Runs, run'[q].pc \in {"reply", "write"}
          PROVE  run'[q].pc = run[q].pc /\ run'[q].copy = run[q].copy
      <3>1. CASE inFlight
        BY <1>9, <2>1, <3>1 DEF TimerFires, Faltered, RunType
      <3>2. CASE ~inFlight
        BY <1>9, <2>1, <3>2 DEF TimerFires, IdleRun, RunType
      <3>3. QED
        BY <3>1, <3>2
    <2>2. UNCHANGED <<state, snap, lastBy>>
      BY <1>9 DEF TimerFires
    <2>3. QED
      BY <2>1, <2>2
  <1>10. ASSUME Operator PROVE NewestIsYoungest'
    BY <1>10, OperatorFacts, IntervalFacts DEF Write
  <1>11. ASSUME NEW v \in Values, NEW held \in 0 .. SyncTime, SaveSnapshot(v, held) PROVE NewestIsYoungest'
    BY <1>11, AgesAreNumbers DEF SaveSnapshot
  <1>12. ASSUME Tick PROVE NewestIsYoungest'
    <2>1. /\ state' = Aged(state) /\ snap'.age = Older(snap.age)
          /\ lastBy' = lastBy
      BY <1>12 DEF Tick, Aged, Snapshot
    <2>2. state'.age = Older(state.age) /\ state'.own = state.own
      BY <2>1, AgedFacts DEF Snapshot
    <2> HIDE DEF NewestIsYoungest
    <2>3. lastBy' = "cron" /\ state'.own => snap'.age <= state'.age
      BY <2>1, <2>2, AgesAreNumbers, OlderFacts DEF NewestIsYoungest
    <2>4. ASSUME NEW r \in Runs, run'[r].pc \in {"reply", "write"}
          PROVE  /\ run'[r].copy.own => snap'.age <= run'[r].copy.age
                 /\ lastBy' = "cron" /\ state'.own => run'[r].copy.age <= state'.age
      <3>1. /\ run[r].pc \in {"reply", "write"} /\ run'[r].copy.age = Older(run[r].copy.age)
            /\ run'[r].copy.own = run[r].copy.own
        BY <1>12, <2>4, TickRuns
      <3>2. /\ run[r].copy.own => snap.age <= run[r].copy.age
            /\ lastBy = "cron" /\ state.own => run[r].copy.age <= state.age
        BY <3>1 DEF NewestIsYoungest
      <3>3. QED
        BY <2>1, <2>2, <3>1, <3>2, AgesAreNumbers, OlderFacts
    <2>5. QED
      BY <2>3, <2>4 DEF NewestIsYoungest
  <1>13. ASSUME Restart PROVE NewestIsYoungest'
    BY <1>13 DEF Restart, IdleRun, IdleCheck
  <1>14. CASE UNCHANGED vars
    BY <1>14 DEF vars, cronVars
  <1>15. QED
    BY <1>1, <1>2, <1>3, <1>4, <1>5, <1>6, <1>6b, <1>7, <1>8, <1>9,
       <1>10, <1>11, <1>12, <1>13, <1>14
    DEF Next, CheckStep, RunStep, FetchSkips, FetchFails

\* Every step keeps the schedule of the syncs.
LEMMA NextSchedule ==
    ASSUME IInv, [Next]_vars
    PROVE  Schedule'
  <1> USE DEF IInv, TypeOK, cronVars, Schedule
  <1>1. ASSUME NEW c \in Checks, NEW n \in Notionals, AskCheck(c, n) PROVE Schedule'
    BY <1>1 DEF AskCheck, OneRun, InFlightIsRun, RunsOnSchedule, RowOnSchedule
  <1>2. ASSUME NEW c \in Checks, ReadState(c) PROVE Schedule'
    BY <1>2 DEF ReadState, OneRun, InFlightIsRun, RunsOnSchedule, RowOnSchedule
  <1>3. ASSUME NEW c \in Checks, ReadStateFails(c) PROVE Schedule'
    BY <1>3 DEF ReadStateFails, OneRun, InFlightIsRun, RunsOnSchedule, RowOnSchedule
  <1>4. ASSUME NEW c \in Checks, Decide(c) PROVE Schedule'
    BY <1>4 DEF Decide, OneRun, InFlightIsRun, RunsOnSchedule, RowOnSchedule
  <1>5. ASSUME NEW r \in Runs, FetchRead(r) PROVE Schedule'
    <2>1. /\ run'[r].pc = "reply" /\ run'[r].copy = snap /\ run'[r].waited = run[r].waited
          /\ run'[r].well => run[r].well /\ snap.age <= SnapInterval
          /\ \A q \in Runs \ {r} : run'[q] = run[q]
          /\ run[r].pc = "fetch"
      <3>1. run'[r].well = (run[r].well /\ snap.age <= SnapInterval)
        BY <1>5 DEF FetchRead, RunType
      <3>2. QED
        BY <1>5, <3>1 DEF FetchRead, RunType
    <2>2. UNCHANGED <<state, due, inFlight, outage>>
      BY <1>5 DEF FetchRead
    <2>3. OneRun' /\ InFlightIsRun'
      BY <2>1, <2>2 DEF OneRun, InFlightIsRun
    <2>4. RunsOnSchedule'
      BY <2>1, <2>2, AgesAreNumbers, IntervalFacts DEF RunsOnSchedule
    <2>5. RowOnSchedule'
      BY <2>2 DEF RowOnSchedule
    <2>6. QED
      BY <2>3, <2>4, <2>5
  <1>6. ASSUME NEW r \in Runs, FetchReceive(r) PROVE Schedule'
    <2>1. /\ run'[r].pc = "write" /\ run'[r].copy = run[r].copy
          /\ run'[r].waited = run[r].waited /\ run'[r].well = run[r].well
          /\ \A q \in Runs \ {r} : run'[q] = run[q]
          /\ run[r].pc = "reply"
      BY <1>6 DEF FetchReceive, RunType
    <2>2. UNCHANGED <<state, due, inFlight, outage>>
      BY <1>6 DEF FetchReceive
    <2>3. QED
      BY <2>1, <2>2 DEF OneRun, InFlightIsRun, RunsOnSchedule, RowOnSchedule
  <1>6b. ASSUME NEW r \in Runs, FetchUnstamped(r) PROVE Schedule'
    <2>1. /\ run'[r].pc = "write" /\ run'[r].copy.age = 0
          /\ run'[r].waited = run[r].waited /\ run'[r].well = run[r].well
          /\ \A q \in Runs \ {r} : run'[q] = run[q]
          /\ run[r].pc = "reply"
      BY <1>6b DEF FetchUnstamped, RunType, Snapshot
    <2>2. UNCHANGED <<state, due, inFlight, outage>>
      BY <1>6b DEF FetchUnstamped
    <2>3. RunsOnSchedule'
      BY <2>1, <2>2, AgesAreNumbers, IntervalFacts DEF RunsOnSchedule
    <2>4. QED
      BY <2>1, <2>2, <2>3 DEF OneRun, InFlightIsRun, RowOnSchedule
  <1>7. ASSUME NEW r \in Runs, FetchSkips(r) \/ FetchFails(r), EndRun(r) PROVE Schedule'
    <2>1. /\ outage' /\ ~inFlight'
          /\ run'[r].pc = "idle" /\ \A q \in Runs \ {r} : run'[q] = run[q]
      BY <1>7 DEF EndRun, IdleRun
    <2>2. run[r].pc # "idle"
      BY <1>7 DEF FetchSkips, FetchFails
    <2>3. \A q \in Runs : run'[q].pc = "idle"
      BY <2>1, <2>2 DEF OneRun
    <2>4. QED
      BY <2>1, <2>3 DEF OneRun, InFlightIsRun, RunsOnSchedule, RowOnSchedule
  <1>8. ASSUME NEW r \in Runs, WriteValue(r) PROVE Schedule'
    <2>1. run' = [run EXCEPT ![r] = IdleRun] /\ run[r].pc = "write" /\ ~inFlight'
          /\ outage' = ~run[r].well /\ due' = due
      BY <1>8 DEF WriteValue
    <2>2. \A q \in Runs : run'[q].pc = "idle"
      BY <2>1 DEF OneRun, IdleRun
    <2>3. state'.age = run[r].copy.age
      BY <1>8 DEF WriteValue, Write, SyncedRow, RiskState
    <2>4. OneRun' /\ InFlightIsRun' /\ RunsOnSchedule'
      BY <2>1, <2>2 DEF OneRun, InFlightIsRun, RunsOnSchedule
    <2>5. ~outage' => state'.age + due' <= SnapInterval + SyncInterval
      <3>1. ASSUME run[r].well
            PROVE  /\ run[r].waited + due = SyncInterval
                   /\ run[r].copy.age <= SnapInterval + run[r].waited
        BY <2>1, <3>1 DEF RunsOnSchedule
      <3>2. run[r].well => state'.age + due' <= SnapInterval + SyncInterval
        BY <2>1, <2>3, <3>1, AgesAreNumbers, IntervalFacts
      <3>3. ~outage' => run[r].well
        BY <2>1
      <3>4. QED
        BY <3>2, <3>3
    <2>6. QED
      BY <2>1, <2>4, <2>5 DEF RowOnSchedule
  <1>9. ASSUME TimerFires PROVE Schedule'
    <2>1. CASE inFlight
      <3>1. ASSUME NEW q \in Runs
            PROVE  run'[q].pc = run[q].pc /\ (run[q].pc # "idle" => ~run'[q].well)
        BY <1>9, <2>1 DEF TimerFires, Faltered, RunType
      <3>2. outage' /\ inFlight' = inFlight
        BY <1>9, <2>1 DEF TimerFires
      <3>3. QED
        BY <3>1, <3>2 DEF OneRun, InFlightIsRun, RunsOnSchedule, RowOnSchedule
    <2>2. CASE ~inFlight
      <3>1. PICK r \in Runs : run' = [run EXCEPT ![r] = [IdleRun EXCEPT !.pc = "fetch"]]
        BY <1>9, <2>2 DEF TimerFires
      <3>2. /\ run'[r].pc = "fetch" /\ run'[r].waited = 0
            /\ \A q \in Runs \ {r} : run'[q].pc = "idle"
        BY <2>2, <3>1 DEF IdleRun, OneRun
      <3>3. inFlight' /\ due = 0 /\ due' = SyncInterval /\ UNCHANGED <<state, outage>>
        BY <1>9, <2>2 DEF TimerFires
      <3>4. OneRun' /\ InFlightIsRun' /\ RunsOnSchedule'
        BY <3>2, <3>3, IntervalFacts DEF OneRun, InFlightIsRun, RunsOnSchedule
      <3>5. RowOnSchedule'
        BY <2>2, <3>3, IntervalFacts, AgesAreNumbers DEF RowOnSchedule
      <3>6. QED
        BY <3>4, <3>5
    <2>3. QED
      BY <2>1, <2>2
  <1>10. ASSUME Operator PROVE Schedule'
    <2>1. PICK s \in RiskState :
              /\ state' = s
              /\ (s.age = state.age /\ s.value = state.value) \/ s.age = 0
      BY <1>10, OperatorFacts DEF Write
    <2>2. UNCHANGED <<due, inFlight, run, outage>>
      BY <1>10, OperatorFacts
    <2>3. OneRun' /\ InFlightIsRun' /\ RunsOnSchedule'
      BY <2>2 DEF OneRun, InFlightIsRun, RunsOnSchedule
    <2>4. RowOnSchedule'
      <3>1. due <= SyncInterval
        BY IntervalFacts
      <3>2. CASE s.age = 0
        BY <2>1, <2>2, <3>1, <3>2, AgesAreNumbers, IntervalFacts DEF RowOnSchedule
      <3>3. CASE s.age = state.age /\ s.value = state.value
        BY <2>1, <2>2, <3>3 DEF RowOnSchedule
      <3>4. QED
        BY <2>1, <3>2, <3>3
    <2>5. QED
      BY <2>3, <2>4
  <1>11. ASSUME NEW v \in Values, NEW held \in 0 .. SyncTime, SaveSnapshot(v, held) PROVE Schedule'
    BY <1>11 DEF SaveSnapshot, RunsOnSchedule, RowOnSchedule, OneRun, InFlightIsRun
  <1>12. ASSUME Tick PROVE Schedule'
    <2>1. state'.age = Older(state.age) /\ state'.value = state.value
      <3>1. state' = Aged(state)
        BY <1>12 DEF Tick, Aged
      <3>2. QED
        BY <3>1, AgedFacts DEF RiskState, Aged
    <2>2. due > 0 /\ due' = due - 1 /\ inFlight' = inFlight /\ (outage => outage')
      BY <1>12 DEF Tick
    <2>3. \A q \in Runs : run'[q].pc = run[q].pc
      BY <1>12, TickRuns
    <2>4. OneRun' /\ InFlightIsRun'
      BY <2>2, <2>3 DEF OneRun, InFlightIsRun
    <2>5. RowOnSchedule'
      <3>1. state'.age <= state.age + 1 /\ state'.age \in Age
        BY <2>1, AgesAreNumbers, OlderFacts
      <3>2. state'.age \in Nat
        BY <3>1, IntervalFacts DEF Age, Old
      <3>3. QED
        BY <2>1, <2>2, <3>1, <3>2, AgesAreNumbers, IntervalFacts DEF RowOnSchedule
    <2>6. ASSUME NEW q \in Runs, run'[q].pc # "idle"
          PROVE  /\ run'[q].well \/ ~outage' => run'[q].waited + due' = SyncInterval
                 /\ run'[q].well /\ run'[q].pc # "fetch" =>
                      run'[q].copy.age <= SnapInterval + run'[q].waited
      <3>1. /\ run[q].pc # "idle"
            /\ run[q].well \/ ~outage => run[q].waited + due = SyncInterval
            /\ run[q].well /\ run[q].pc # "fetch" =>
                  run[q].copy.age <= SnapInterval + run[q].waited
        BY <2>3, <2>6 DEF RunsOnSchedule
      <3>2. CASE run[q].waited = FetchTimeout
        BY <1>12, <3>1, <3>2, TickRuns
      <3>3. CASE run[q].waited # FetchTimeout
        <4>1. /\ run'[q].waited = run[q].waited + 1 /\ run'[q].well = run[q].well
              /\ run'[q].copy.age = Older(run[q].copy.age)
          BY <1>12, <3>1, <3>3, TickRuns
        <4>2. run'[q].copy.age <= run[q].copy.age + 1 /\ run'[q].copy.age \in Age
          BY <4>1, AgesAreNumbers, OlderFacts
        <4>3. run'[q].copy.age \in Nat
          BY <4>2, IntervalFacts DEF Age, Old
        <4>4. run'[q].well \/ ~outage' => run'[q].waited + due' = SyncInterval
          <5>1. run'[q].waited + due' = run[q].waited + due
            BY <2>2, <4>1, AgesAreNumbers
          <5>2. QED
            BY <2>2, <3>1, <4>1, <5>1
        <4>5. run'[q].well /\ run'[q].pc # "fetch" =>
                  run'[q].copy.age <= SnapInterval + run'[q].waited
          BY <2>3, <3>1, <4>1, <4>2, <4>3, AgesAreNumbers, IntervalFacts
        <4>6. QED
          BY <4>4, <4>5
      <3>4. QED
        BY <3>2, <3>3
    <2>7. RunsOnSchedule'
      BY <2>6 DEF RunsOnSchedule
    <2>8. QED
      BY <2>4, <2>5, <2>7
  <1>13. ASSUME Restart PROVE Schedule'
    BY <1>13 DEF Restart, IdleRun, OneRun, InFlightIsRun, RunsOnSchedule, RowOnSchedule
  <1>14. CASE UNCHANGED vars
    BY <1>14 DEF vars, OneRun, InFlightIsRun, RunsOnSchedule, RowOnSchedule
  <1>15. QED
    BY <1>1, <1>2, <1>3, <1>4, <1>5, <1>6, <1>6b, <1>7, <1>8, <1>9,
       <1>10, <1>11, <1>12, <1>13, <1>14
    DEF Next, CheckStep, RunStep, FetchSkips, FetchFails

LEMMA InvariantHolds == Spec => []IInv
  <1>1. ASSUME IInv, [Next]_vars PROVE IInv'
    BY <1>1, NextTypeOK, NextCarried, NextAnswers, NextSchedule, NextYoungest DEF IInv
  <1>2. QED
    BY InitIInv, <1>1, PTL DEF Spec

-----------------------------------------------------------------------------
(* The theorems.                                                           *)

\* The row, the syncs and the checks keep their types: no column of
\* risk_state is cleared and no timer runs past its bound.
THEOREM TypeCorrect == Spec => []TypeOK
  BY InvariantHolds, PTL DEF IInv

\* Every order the gate lets through was allowed by kill switch, equity and
\* daily loss together at one instant while its check was open.
THEOREM GateIsConsistent == Spec => []AllowedAtOneInstant
  BY InvariantHolds, PTL DEF IInv, Answers

\* Every order the gate lets through on a snapshot's own time stamp is sized
\* against equity that Alpaca gave, at the most, the staleness threshold and one
\* sync of the portfolio service before the answer.
THEOREM GateIsFresh == Spec => []AllowedOnFreshValue
  BY InvariantHolds, PTL DEF IInv, Answers

\* While nothing falters the row is at most one sync interval, one fetch and
\* one snapshot period old.
THEOREM RowIsFresh == Spec => []HealthyRowIsFresh
  <1>1. ASSUME IInv PROVE HealthyRowIsFresh
    <2> USE DEF IInv, Schedule
    <2>1. SUFFICES ASSUME state.value # NoValue, ~outage
                   PROVE  state.age <= SyncInterval + FetchTimeout + SnapInterval
      BY DEF HealthyRowIsFresh
    <2>2. CASE ~inFlight
      BY <1>1, <2>1, <2>2, AgesAreNumbers, IntervalFacts DEF RowOnSchedule
    <2>3. CASE inFlight
      <3>1. PICK r \in Runs : run[r].pc # "idle"
        BY <1>1, <2>3 DEF InFlightIsRun
      <3>2. run[r].waited + due = SyncInterval /\ run[r].waited <= FetchTimeout
        BY <1>1, <2>1, <3>1, IntervalFacts DEF RunsOnSchedule, TypeOK, RunType
      <3>3. state.age + due <= SnapInterval + 2 * SyncInterval
        BY <1>1, <2>1, <2>3 DEF RowOnSchedule
      <3>4. QED
        BY <1>1, <3>2, <3>3, AgesAreNumbers, IntervalFacts
    <2>4. QED
      BY <2>2, <2>3
  <1>2. QED
    BY InvariantHolds, <1>1, PTL

\* No sync overwrites the snapshot of an earlier sync with one stored before it.
THEOREM SyncsAreInOrder == Spec => SyncMovesForward
  <1>1. ASSUME IInv
        PROVE  \A r \in Runs :
                  WriteValue(r) /\ lastBy = "cron" /\ state.own => run[r].copy.age <= state.age
    BY <1>1 DEF IInv, NewestIsYoungest, WriteValue
  <1>2. IInv => [\A r \in Runs :
                  WriteValue(r) /\ lastBy = "cron" /\ state.own => run[r].copy.age <= state.age]_vars
    BY <1>1
  <1>3. QED
    BY InvariantHolds, <1>2, PTL DEF SyncMovesForward

\* While no sync falters, a gate that knows its equity answers by its rules and
\* is never shut for stale equity.
HealthyGateIsOpen ==
    state.value # NoValue /\ ~outage =>
        \A n \in Notionals : Verdict(state, n) # "unavailable"

\* So it is when interval, fetch and snapshot period fit into the threshold
\* together, as they do with the defaults (packages/config/src/index.ts:49-52);
\* the start-up guard alone does not see to that.
THEOREM GateStaysOpen ==
    ASSUME SyncInterval + FetchTimeout + SnapInterval <= Staleness
    PROVE  Spec => []HealthyGateIsOpen
  <1>1. TypeOK /\ HealthyRowIsFresh => HealthyGateIsOpen
    BY AgesAreNumbers, IntervalFacts DEF HealthyRowIsFresh, HealthyGateIsOpen, Verdict
  <1> QED BY <1>1, TypeCorrect, RowIsFresh, PTL

-----------------------------------------------------------------------------
(* The service implements RiskContract.                                    *)

\* A check that has been asked for has a size.
ChecksHaveSize == \A c \in Checks : check[c].pc = "asked" => check[c].notional \in Notionals

\* A step leaves a check alone, or it comes, reads the row, goes or is decided;
\* or the row it has read grows older.
Untouched(c) ==
    /\ check'[c].pc = check[c].pc /\ check'[c].notional = check[c].notional
    /\ check'[c].seen = check[c].seen /\ check'[c].verdict = check[c].verdict

CheckMoves(c) ==
    \/ Untouched(c)
    \/ \E n \in Notionals : check'[c].pc = "asked" /\ check'[c].notional = n
    \/ /\ check[c].pc = "asked" /\ check'[c].pc = "read"
       /\ check'[c].notional = check[c].notional /\ check'[c].seen = state
    \/ check'[c].pc = "idle"
    \/ /\ check[c].pc = "read" /\ check'[c].pc = "done"
       /\ check'[c].notional = check[c].notional
       /\ check'[c].verdict = Verdict(check[c].seen, check[c].notional)
    \/ /\ check[c].pc = "read" /\ check'[c].pc = "read"
       /\ check'[c].notional = check[c].notional
       /\ check'[c].seen = Aged(check[c].seen)

LEMMA WriteMoves ==
    ASSUME TypeOK, NEW s, Write(s), NEW c \in Checks
    PROVE  CheckMoves(c)
  BY WatchFacts DEF TypeOK, Write, Untouched, CheckMoves

LEMMA StepMoves ==
    ASSUME TypeOK, [Next]_vars, NEW c \in Checks
    PROVE  CheckMoves(c)
  <1> USE DEF TypeOK, CheckMoves, Untouched
  <1>1. ASSUME NEW d \in Checks, NEW n \in Notionals, AskCheck(d, n) PROVE CheckMoves(c)
    <2> DEFINE asked == [check EXCEPT ![d] = [IdleCheck EXCEPT !.pc = "asked", !.notional = n]]
    <2>1. asked \in [Checks -> CheckType] /\ check' = Watch(asked, state)
      BY <1>1, IdleTypes DEF AskCheck, IdleCheck, CheckType
    <2>2. asked[d].pc = "asked" /\ asked[d].notional = n /\ \A e \in Checks \ {d} : asked[e] = check[e]
      BY IdleTypes DEF IdleCheck
    <2> HIDE DEF asked
    <2>3. /\ check'[c].pc = asked[c].pc /\ check'[c].notional = asked[c].notional
          /\ check'[c].seen = asked[c].seen /\ check'[c].verdict = asked[c].verdict
      BY <2>1, WatchFacts
    <2> QED BY <2>2, <2>3
  <1>2. ASSUME NEW d \in Checks, ReadState(d) PROVE CheckMoves(c)
    BY <1>2 DEF ReadState, CheckType
  <1>3. ASSUME NEW d \in Checks, ReadStateFails(d) PROVE CheckMoves(c)
    BY <1>3 DEF ReadStateFails, IdleCheck
  <1>4. ASSUME NEW d \in Checks, Decide(d) PROVE CheckMoves(c)
    BY <1>4 DEF Decide, CheckType
  <1>5. ASSUME Operator PROVE CheckMoves(c)
    <2>1. PICK s : Write(s)
      BY <1>5 DEF Operator, Halt, Resume, SetDailyLoss, ResetDailyLoss, PostPortfolio
    <2> QED BY <2>1, WriteMoves
  <1>6. ASSUME NEW r \in Runs, WriteValue(r) PROVE CheckMoves(c)
    BY <1>6, WriteMoves DEF WriteValue
  <1>7. ASSUME Tick PROVE CheckMoves(c)
    <2>1. check'[c] = IF check[c].pc = "read"
                      THEN [check[c] EXCEPT !.seen.age = Older(@), !.seen.real = Staler(@)]
                      ELSE check[c]
      BY <1>7 DEF Tick
    <2> QED BY <2>1 DEF CheckType, RiskState, Aged
  <1>8. ASSUME Restart PROVE CheckMoves(c)
    BY <1>8 DEF Restart, IdleCheck
  <1>9. ASSUME UNCHANGED check PROVE CheckMoves(c)
    BY <1>9
  <1>10. ASSUME NEW r \in Runs,
                \/ FetchRead(r) \/ FetchReceive(r) \/ FetchUnstamped(r)
                \/ FetchSkips(r) \/ FetchFails(r)
         PROVE  UNCHANGED check
    BY <1>10 DEF FetchRead, FetchReceive, FetchUnstamped, FetchSkips, FetchFails, EndRun
  <1>11. ASSUME TimerFires \/ \E v \in Values, held \in 0 .. SyncTime : SaveSnapshot(v, held)
         PROVE  UNCHANGED check
    BY <1>11 DEF TimerFires, SaveSnapshot
  <1>12. CASE UNCHANGED vars
    BY <1>12, <1>9 DEF vars
  <1> QED
    BY <1>1, <1>2, <1>3, <1>4, <1>5, <1>6, <1>7, <1>8, <1>9, <1>10, <1>11, <1>12
    DEF Next, CheckStep, RunStep

LEMMA NextContract ==
    ASSUME TypeOK, ChecksHaveSize, [Next]_vars
    PROVE  Contract!Next /\ ChecksHaveSize'
  <1>1. ASSUME NEW c \in Checks
        PROVE  Contract!Ask(c) \/ Contract!Clear(c) \/ Contract!Leave(c) \/ Contract!Stay(c)
    <2> USE DEF Answer
    <2>0. CheckMoves(c)
      BY StepMoves
    <2>1. CASE Untouched(c)
      BY <2>1 DEF Untouched, Contract!Stay
    <2>2. CASE \E n \in Notionals : check'[c].pc = "asked" /\ check'[c].notional = n
      BY <2>2 DEF Contract!Ask, Contract!Asked
    <2>3. CASE /\ check[c].pc = "asked" /\ check'[c].pc = "read"
               /\ check'[c].notional = check[c].notional /\ check'[c].seen = state
      BY <2>3 DEF ChecksHaveSize, Contract!Clear, Contract!Asked, Contract!Cleared,
                  Contract!Leave, Contract!Idle
    <2>4. CASE check'[c].pc = "idle"
      BY <2>4 DEF Contract!Leave, Contract!Idle
    <2>5. CASE /\ check[c].pc = "read" /\ check'[c].pc = "done"
               /\ check'[c].notional = check[c].notional
               /\ check'[c].verdict = Verdict(check[c].seen, check[c].notional)
      BY <2>5 DEF Contract!Stay
    <2>6. CASE /\ check[c].pc = "read" /\ check'[c].pc = "read"
               /\ check'[c].notional = check[c].notional
               /\ check'[c].seen = Aged(check[c].seen)
      <3>1. check[c].seen \in RiskState
        BY DEF TypeOK, CheckType
      <3>2. Verdict(check'[c].seen, check'[c].notional) = "allowed" =>
               Verdict(check[c].seen, check[c].notional) = "allowed"
        BY <2>6, <3>1, VerdictAges
      <3> QED BY <2>6, <3>2 DEF Contract!Stay, Contract!Leave, Contract!Idle
    <2> QED BY <2>0, <2>1, <2>2, <2>3, <2>4, <2>5, <2>6 DEF CheckMoves
  <1>2. Contract!Next
    BY <1>1 DEF Contract!Next
  <1>3. ChecksHaveSize'
    BY StepMoves DEF CheckMoves, Untouched, ChecksHaveSize
  <1> QED BY <1>2, <1>3

LEMMA InitContract == Init => Contract!Init /\ ChecksHaveSize
  BY DEF Init, IdleCheck, Answer, Contract!Init, Contract!Idle, ChecksHaveSize

\* Reads, answers, writes, syncs, restarts and the clock, in any order, come to
\* checks that are each decided at one instant.
THEOREM GateImplementsContract == Spec => ImplementsContract
  <1>1. TypeOK /\ ChecksHaveSize /\ [Next]_vars =>
           ChecksHaveSize' /\ [Contract!Next]_(Contract!contractVars)
    BY NextContract
  <1> QED BY <1>1, InitContract, TypeCorrect, PTL DEF Spec, ImplementsContract, Contract!Spec
=============================================================================
