------------------------------ MODULE RiskGate ------------------------------
(***************************************************************************)
(* The risk service: the singleton risk_state row, the operator endpoints  *)
(* that write it, PortfolioSyncCron that keeps portfolio_value fresh from  *)
(* the portfolio service's account snapshots, and POST /risk/check.        *)
(*                                                                         *)
(* Time is discrete and only ages are kept (a timestamp t is represented   *)
(* by now - t), saturated at Old = Staleness + 1, beyond which no guard    *)
(* tells two ages apart.  Equity also has an age of its own, counted from  *)
(* the moment Alpaca answered with it: history, which no guard reads.      *)
(* Time does not pass while the cron's timer is due or a fetch has used up *)
(* its timeout (Node serves both promptly).                                *)
(* Money is abstracted: a portfolio value is represented by the largest    *)
(* notional it allows, MAX_POSITION_SIZE_PCT * portfolio_value.            *)
(*                                                                         *)
(* Operators named Mutant... are slips of the definition that follows them *)
(* and are used by no definition.                                          *)
(***************************************************************************)
EXTENDS Naturals

CONSTANTS Staleness,     \* MAX_PORTFOLIO_STALENESS_S
          SyncInterval,  \* RISK_PORTFOLIO_SYNC_INTERVAL_MS
          FetchTimeout,  \* FETCH_TIMEOUT_MS of portfolioSync.ts
          SnapInterval,  \* how old the newest snapshot gets while portfolio is well
          SyncTime,      \* the longest syncFromBroker takes from Alpaca's account
                         \* answer to the INSERT; the code sets no bound
          MaxLoss,       \* risk_state.max_daily_loss
          Values,        \* portfolio values, as the notional they allow
          Notionals,     \* order sizes asked about
          Runs,          \* invocations of PortfolioSyncCron.run
          Checks,        \* slots for /risk/check requests
          NoValue

\* The start-up guard of loadConfig: two syncs fit into the staleness window.
ASSUME IntervalGuard ==
    /\ Staleness \in Nat /\ SyncInterval \in Nat \ {0} /\ FetchTimeout \in Nat
    /\ SnapInterval \in Nat /\ SyncTime \in Nat /\ MaxLoss \in Nat \ {0}
    /\ SyncInterval * 2 < Staleness

ASSUME ValuesAssumption ==
    Values \subseteq Nat /\ Notionals \subseteq Nat /\ NoValue \notin Nat

VARIABLES state,    \* the risk_state row; state.real is history, see TypeOK
          snap,     \* the newest account_snapshot of the portfolio service
          due,      \* time until the cron's timer fires
          inFlight, \* PortfolioSyncCron.inFlight
          run,      \* cron runs in progress
          check,    \* /risk/check requests in progress
          lastBy,   \* history: who wrote portfolio_value last
          outage    \* history: the sync chain has faltered since the last good sync

vars == <<state, snap, due, inFlight, run, check, lastBy, outage>>

Old == Staleness + 1
Age == 0 .. Old
Older(a) == IF a < Old THEN a + 1 ELSE a

\* Ages of equity, saturated likewise.
RealOld   == Old + SyncTime
RealAge   == 0 .. RealOld
Staler(a) == IF a < RealOld THEN a + 1 ELSE a

\* age is what the time stamp says (portfolio_value_updated_at, created_at).
\* History: real is the age of the equity itself, own whether the time stamp
\* is the snapshot's own.
RiskState  == [kill : BOOLEAN, loss : 0 .. MaxLoss, value : Values \cup {NoValue},
               age : Age, real : RealAge, own : BOOLEAN]
Snapshot   == [value : Values \cup {NoValue}, age : Age, real : RealAge, own : BOOLEAN]
RunType    == [pc : {"idle", "fetch", "reply", "write"}, waited : 0 .. FetchTimeout,
               copy : Snapshot, well : BOOLEAN]
CheckType  == [pc : {"idle", "asked", "read", "done"}, notional : Notionals \cup {0},
               seen : RiskState, verdict : {"none", "allowed", "blocked", "unavailable"},
               could : BOOLEAN, fresh : BOOLEAN]

FreshRow   == [kill |-> FALSE, loss |-> 0, value |-> NoValue,
               age |-> Old, real |-> RealOld, own |-> TRUE]
NoSnapshot == [value |-> NoValue, age |-> Old, real |-> RealOld, own |-> TRUE]
IdleRun    == [pc |-> "idle", waited |-> 0, copy |-> NoSnapshot, well |-> TRUE]
IdleCheck  == [pc |-> "idle", notional |-> 0, seen |-> FreshRow, verdict |-> "none",
               could |-> FALSE, fresh |-> FALSE]

TypeOK ==
    /\ state \in RiskState
    /\ snap \in Snapshot
    /\ due \in 0 .. SyncInterval
    /\ inFlight \in BOOLEAN
    /\ run \in [Runs -> RunType]
    /\ check \in [Checks -> CheckType]
    /\ lastBy \in {"nobody", "cron", "operator"}
    /\ outage \in BOOLEAN

Init ==
    /\ state = FreshRow
    /\ snap = NoSnapshot
    /\ due = 0
    /\ inFlight = FALSE
    /\ run = [r \in Runs |-> IdleRun]
    /\ check = [c \in Checks |-> IdleCheck]
    /\ lastBy = "nobody"
    /\ outage = FALSE

cronVars == <<due, inFlight, run>>
-----------------------------------------------------------------------------
(* POST /risk/check                                                        *)

\* The order of the tests is the order of the answers.
Verdict(s, notional) ==
    IF s.kill THEN "blocked"
    ELSE IF s.value = NoValue \/ s.age > Staleness THEN "unavailable"
    ELSE IF notional > s.value \/ s.loss >= MaxLoss THEN "blocked"
    ELSE "allowed"

\* History: has the row allowed the request at some instant since it came?
Watch(checks, s) ==
    [c \in Checks |->
        IF checks[c].pc = "asked"
        THEN [checks[c] EXCEPT !.could = @ \/ Verdict(s, checks[c].notional) = "allowed"]
        ELSE checks[c]]

AskCheck(c, notional) ==
    /\ check[c].pc \in {"idle", "done"}
    /\ check' =
         Watch([check EXCEPT ![c] = [IdleCheck EXCEPT !.pc = "asked", !.notional = notional]],
               state)
    /\ UNCHANGED <<state, snap, cronVars, lastBy, outage>>

\* The kill switch read by a query of its own, before the rest of the row.
MutantReadState(c) ==
    /\ check[c].pc = "asked"
    /\ \/ check' = [check EXCEPT ![c].seen =
                        [FreshRow EXCEPT !.kill = state.kill, !.loss = MaxLoss]]
       \/ /\ check[c].seen.loss = MaxLoss
          /\ check' = [check EXCEPT ![c].pc = "read",
                                    ![c].seen = [state EXCEPT !.kill = check[c].seen.kill]]
    /\ UNCHANGED <<state, snap, cronVars, lastBy, outage>>

\* db.getState: the whole row in one SELECT.
ReadState(c) ==
    /\ check[c].pc = "asked"
    /\ check' = [check EXCEPT ![c].pc = "read", ![c].seen = state]
    /\ UNCHANGED <<state, snap, cronVars, lastBy, outage>>

\* db.getState throws (the row is missing, the database is away): 500.
ReadStateFails(c) ==
    /\ check[c].pc = "asked"
    /\ check' = [check EXCEPT ![c] = IdleCheck]
    /\ UNCHANGED <<state, snap, cronVars, lastBy, outage>>

\* History: is the equity behind a row as young as its time stamp may make it?
Fresh(s) == s.own => s.real <= Staleness + SyncTime

\* The tests, on the row that was read and the clock as it is now.
Decide(c) ==
    /\ check[c].pc = "read"
    /\ check' = [check EXCEPT ![c] =
                    [@ EXCEPT !.pc = "done", !.seen = FreshRow,
                              !.verdict = Verdict(check[c].seen, check[c].notional),
                              !.fresh = Fresh(check[c].seen)]]
    /\ UNCHANGED <<state, snap, cronVars, lastBy, outage>>

-----------------------------------------------------------------------------
(* The operator's endpoints: one statement (or one transaction) each.      *)

Write(s) == state' = s /\ check' = Watch(check, s)

Halt            == Write([state EXCEPT !.kill = TRUE])
Resume          == Write([state EXCEPT !.kill = FALSE])
SetDailyLoss(l) == Write([state EXCEPT !.loss = l])

\* A reset that clears the column.
MutantResetDailyLoss == Write([state EXCEPT !.loss = NoValue])

ResetDailyLoss == Write([state EXCEPT !.loss = 0])

\* An update that leaves portfolio_value_updated_at alone.
MutantPostPortfolio(v) ==
    /\ Write([state EXCEPT !.value = v])
    /\ lastBy' = "operator"
    /\ UNCHANGED <<snap, cronVars, outage>>

\* POST /risk/portfolio: asOf defaults to now.
PostPortfolio(v) ==
    /\ Write([state EXCEPT !.value = v, !.age = 0, !.real = 0, !.own = TRUE])
    /\ lastBy' = "operator"
    /\ UNCHANGED <<snap, cronVars, outage>>

Operator ==
    \/ /\ Halt \/ Resume \/ ResetDailyLoss \/ \E l \in 0 .. MaxLoss : SetDailyLoss(l)
       /\ UNCHANGED <<snap, cronVars, lastBy, outage>>
    \/ \E v \in Values : PostPortfolio(v)

-----------------------------------------------------------------------------
(* PortfolioSyncCron                                                       *)

\* History: a run that took too long, or made a later one stand back.
Faltered(r) == IF r.pc = "idle" THEN r ELSE [r EXCEPT !.well = FALSE]

\* A timer callback without the inFlight test.
MutantTimerFires ==
    /\ due = 0
    /\ due' = SyncInterval
    /\ \E r \in Runs :
          /\ run[r].pc = "idle"
          /\ run' = [run EXCEPT ![r] = [IdleRun EXCEPT !.pc = "fetch"]]
          /\ inFlight' = TRUE
    /\ UNCHANGED <<state, snap, check, lastBy, outage>>

\* The interval callback (and, at start-up, the initial run).  A run still in
\* flight makes this one return at once.
TimerFires ==
    /\ due = 0
    /\ due' = SyncInterval
    /\ IF inFlight
       THEN /\ run' = [r \in Runs |-> Faltered(run[r])]
            /\ outage' = TRUE
            /\ UNCHANGED inFlight
       ELSE \E r \in Runs :
            /\ run[r].pc = "idle"
            /\ run' = [run EXCEPT ![r] = [IdleRun EXCEPT !.pc = "fetch"]]
            /\ inFlight' = TRUE
            /\ UNCHANGED outage
    /\ UNCHANGED <<state, snap, check, lastBy>>

\* The portfolio service answers GET /portfolio/account with its newest row.
FetchRead(r) ==
    /\ run[r].pc = "fetch"
    /\ run' = [run EXCEPT ![r].pc = "reply", ![r].copy = snap,
                          ![r].well = @ /\ snap.age <= SnapInterval]
    /\ UNCHANGED <<state, snap, due, inFlight, check, lastBy, outage>>

\* The run returns without a sync.
EndRun(r) ==
    /\ run' = [run EXCEPT ![r] = IdleRun]
    /\ inFlight' = FALSE
    /\ outage' = TRUE
    /\ UNCHANGED <<state, snap, due, check, lastBy>>

\* Timeout, network error, non-ok answer, invalid value, failed transaction.
FetchFails(r) == run[r].pc # "idle" /\ EndRun(r)

\* null (no snapshot yet), or a snapshot already older than the threshold.
FetchSkips(r) ==
    /\ run[r].pc = "reply"
    /\ run[r].copy.value = NoValue \/ run[r].copy.age > Staleness
    /\ EndRun(r)

\* The snapshot's created_at, where it is a string, is what it goes by.
FetchReceive(r) ==
    /\ run[r].pc = "reply"
    /\ run[r].copy.value # NoValue
    /\ run[r].copy.age <= Staleness
    /\ run' = [run EXCEPT ![r].pc = "write"]
    /\ UNCHANGED <<state, snap, due, inFlight, check, lastBy, outage>>

\* Where it is not (a portfolio service other than this repository's, whose
\* column is never null), the snapshot counts as made now, however old it is:
\* real is then of no account.
FetchUnstamped(r) ==
    /\ run[r].pc = "reply"
    /\ run[r].copy.value # NoValue
    /\ run' = [run EXCEPT ![r].pc = "write",
                          ![r].copy = [@ EXCEPT !.age = 0, !.real = RealOld, !.own = FALSE]]
    /\ UNCHANGED <<state, snap, due, inFlight, check, lastBy, outage>>

\* A cron that stamps the value with the time of the write.
MutantSyncedRow(copy) ==
    [state EXCEPT !.value = copy.value, !.age = 0, !.real = copy.real, !.own = copy.own]

\* updatePortfolioValue(portfolioValue, asOf): the snapshot's own created_at.
SyncedRow(copy) ==
    [state EXCEPT !.value = copy.value, !.age = copy.age, !.real = copy.real, !.own = copy.own]

WriteValue(r) ==
    /\ run[r].pc = "write"
    /\ Write(SyncedRow(run[r].copy))
    /\ run' = [run EXCEPT ![r] = IdleRun]
    /\ inFlight' = FALSE
    /\ lastBy' = "cron"
    /\ outage' = ~run[r].well
    /\ UNCHANGED <<snap, due>>

-----------------------------------------------------------------------------
(* The portfolio service, the clock, restarts.                             *)

\* A syncFromBroker of the portfolio service stores a snapshot, created_at = now,
\* of the account answer it got `held` ago: it has waited for the positions
\* answer and stored the positions since.  Syncs may overlap, so one that
\* stores later may have been answered earlier.
SaveSnapshot(v, held) ==
    /\ snap' = [value |-> v, age |-> 0, real |-> held, own |-> TRUE]
    /\ UNCHANGED <<state, cronVars, check, lastBy, outage>>

\* The abort timer covers a fetch until its answer begins to arrive; reading
\* the body and writing the row may take any time.
Tick ==
    /\ due > 0
    /\ \A r \in Runs : run[r].pc = "fetch" => run[r].waited < FetchTimeout
    /\ due' = due - 1
    /\ state' = [state EXCEPT !.age = Older(@), !.real = Staler(@)]
    /\ snap' = [snap EXCEPT !.age = Older(@), !.real = Staler(@)]
    /\ run' = [r \in Runs |->
                IF run[r].pc = "idle" THEN run[r]
                ELSE IF run[r].waited = FetchTimeout
                THEN [Faltered(run[r]) EXCEPT !.copy.age = Older(@), !.copy.real = Staler(@)]
                ELSE [run[r] EXCEPT !.copy.age = Older(@), !.copy.real = Staler(@),
                                    !.waited = @ + 1]]
    /\ check' = [c \in Checks |->
                  IF check[c].pc = "read"
                  THEN [check[c] EXCEPT !.seen.age = Older(@), !.seen.real = Staler(@)]
                  ELSE check[c]]
    /\ outage' = (outage \/ \E r \in Runs : run[r].pc # "idle" /\ run[r].waited = FetchTimeout)
    /\ UNCHANGED <<inFlight, lastBy>>

\* The process restarts: start() runs a sync at once.  (A transaction that
\* commits all the same is WriteValue just before.)
Restart ==
    /\ due' = 0
    /\ inFlight' = FALSE
    /\ run' = [r \in Runs |-> IdleRun]
    /\ check' = [c \in Checks |-> IdleCheck]
    /\ outage' = TRUE
    /\ UNCHANGED <<state, snap, lastBy>>

CheckStep(c) ==
    \/ \E n \in Notionals : AskCheck(c, n)
    \/ ReadState(c) \/ ReadStateFails(c) \/ Decide(c)

RunStep(r) ==
    \/ FetchRead(r) \/ FetchReceive(r) \/ FetchUnstamped(r) \/ FetchSkips(r)
    \/ FetchFails(r) \/ WriteValue(r)

Next ==
    \/ \E c \in Checks : CheckStep(c)
    \/ \E r \in Runs : RunStep(r)
    \/ TimerFires
    \/ Operator
    \/ \E v \in Values, held \in 0 .. SyncTime : SaveSnapshot(v, held)
    \/ Tick
    \/ Restart

Spec == Init /\ [][Next]_vars

-----------------------------------------------------------------------------
(* Properties                                                              *)

\* An order is let through only if there was one instant, while its check was
\* open, at which kill switch, equity and daily loss all allowed it together:
\* no answer is put together from a row before and a row after an operator's
\* write (app.ts: one getState per check, and the clock read after it).
AllowedAtOneInstant ==
    \A c \in Checks : check[c].verdict = "allowed" => check[c].could

\* An order is let through only on equity that Alpaca gave within the staleness
\* threshold and the time a portfolio sync took over it, however long it lay in
\* the portfolio service, on the wire, in the row or with the check
\* (portfolioSync.ts:105-109).  The time of the sync is not seen by the
\* threshold, and nothing is promised of an answer without a created_at.
AllowedOnFreshValue ==
    \A c \in Checks : check[c].verdict = "allowed" => check[c].fresh

\* While every sync since the last good one has gone well, the row never gets
\* older than one interval, one fetch and one snapshot period together: the
\* gate does not close between two syncs unless that sum exceeds the
\* threshold (which the guard of loadConfig does not rule out).
HealthyRowIsFresh ==
    state.value # NoValue /\ ~outage =>
        state.age <= SyncInterval + FetchTimeout + SnapInterval

\* A sync never replaces the snapshot of an earlier sync by one stored before
\* it: runs do not overtake each other (the inFlight flag), unless an operator
\* has posted a value in between or the time stamp was made up.  It is the
\* order in which snapshots were stored; that of the equity in them is up to
\* the portfolio service, whose syncs may overlap.
SyncMovesForward ==
    [][ \A r \in Runs :
          WriteValue(r) /\ lastBy = "cron" /\ state.own =>
              run[r].copy.age <= state.age ]_vars

\* What has come of a check: it is decided when its row has been read, although
\* the answer is worked out later, and against the clock of that moment.
Answer(c) ==
    LET r == check[c]
    IN  IF r.pc = "asked" THEN [phase |-> "asked", size |-> r.notional]
        ELSE IF \/ r.pc = "read" /\ Verdict(r.seen, r.notional) = "allowed"
                \/ r.pc = "done" /\ r.verdict = "allowed"
        THEN [phase |-> "cleared", size |-> r.notional]
        ELSE [phase |-> "idle", size |-> 0]

\* The service implements RiskContract: the rules that clear an order are those
\* in force at one instant of its check, whatever is written, synced, restarted
\* or runs out of date around it.
Contract == INSTANCE RiskContract WITH
    Askers <- Checks,
    Sizes  <- Notionals,
    allows <- {n \in Notionals : Verdict(state, n) = "allowed"},
    asker  <- [c \in Checks |-> Answer(c)]
ImplementsContract == Contract!Spec
=============================================================================
