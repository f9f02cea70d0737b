----------------------------- MODULE TradingLoop -----------------------------
(***************************************************************************)
(* The trading loop: RunnerScheduler's ticks (kill switch, positions,      *)
(* scores, allocation, one risk check and one order per trade, sync), its  *)
(* start and stop, the portfolio service's position snapshots the next     *)
(* tick sizes its orders from, and the broker that fills them meanwhile.   *)
(*                                                                         *)
(* A position is represented by its market value and moves with fills      *)
(* only; equity is constant, so MAX_POSITION_SIZE_PCT * equity, which is   *)
(* both the allocation target and the risk service's order limit, is the   *)
(* constant Target.  Two services are used through what their own modules  *)
(* show: a risk check decides as if at one instant (RiskContract, which    *)
(* RiskGate implements), so it is one step here; an order that             *)
(* is sent reaches the broker at most once (Orders!OneOrderPerKey), at any *)
(* later time and whatever answer the runner got.                          *)
(*                                                                         *)
(* Operators named Mutant... are slips of the definition that follows them *)
(* and are used by no definition.                                          *)
(***************************************************************************)
EXTENDS Naturals

CONSTANTS Symbols,   \* TRADING_SYMBOLS
          Ticks,     \* slots for invocations of doTick
          Syncs,     \* slots for runs of syncFromBroker (cron and POST)
          Target,    \* MAX_POSITION_SIZE_PCT * equity
          MinOrder,  \* MIN_ORDER_NOTIONAL_USD
          Buying,    \* what buying power lets one hold or have on order per symbol
          NoTick

ASSUME LoopAssumption ==
    /\ Target \in Nat /\ MinOrder \in Nat /\ Buying \in Nat
    /\ MinOrder < Target /\ Target <= Buying
    /\ NoTick \notin Ticks

VARIABLES kill,     \* risk_state.kill_switch
          held,     \* positions at the broker
          sent,     \* orders sent and neither filled nor refused, by side
          rows,     \* latest position_snapshot row of each symbol (0: none)
          found,    \* history: did the latest sync find the symbol held?
          sync,     \* portfolio syncs in progress
          running,  \* RunnerScheduler.running (and its timer)
          inFlight, \* RunnerScheduler.inFlight: the tick whose promise it holds
          tick,     \* ticks in progress
          trade,    \* each tick's trades
          stop,     \* the latest stop request
          leaked,   \* history: orders sent since the halt, per symbol
          stale     \* history: a tick has sized orders on outdated positions

brokerVars == <<held, sent>>
snapVars   == <<rows, found>>
loopVars   == <<running, inFlight, stop>>
vars == <<kill, brokerVars, snapVars, sync, loopVars, tick, trade, leaked, stale>>

Money == 0 .. Buying
View  == [Symbols -> Money]
Empty == [s \in Symbols |-> 0]

\* early (history): the risk check was answered before the halt in force;
\* ghost (history): it is for a symbol that was among the tick's ghosts.
TradeType == [pc : {"none", "check", "cleared", "oversize", "done"},
              side : {"buy", "sell"}, notional : Money, early : BOOLEAN, ghost : BOOLEAN]
NoTrade   == [pc |-> "none", side |-> "buy", notional |-> 0, early |-> FALSE, ghost |-> FALSE]
DoneTrade == [NoTrade EXCEPT !.pc = "done"]

SentType  == [buy : Money, sell : Money]
SyncType  == [pc : {"idle", "fetch", "save"}, view : View]
TickType  == [pc : {"idle", "kill", "positions", "scores", "trades", "synced"},
              view : View, ghosts : [Symbols -> BOOLEAN]]
StopType  == [pc : {"idle", "waiting", "done"}, tick : Ticks \cup {NoTick}]

TypeOK ==
    /\ kill \in BOOLEAN /\ running \in BOOLEAN /\ stale \in BOOLEAN
    /\ held \in View /\ rows \in View /\ found \in [Symbols -> BOOLEAN]
    /\ sent \in [Symbols -> SentType]
    /\ sync \in [Syncs -> SyncType]
    /\ inFlight \in Ticks \cup {NoTick}
    /\ tick \in [Ticks -> TickType]
    /\ trade \in [Ticks -> [Symbols -> TradeType]]
    /\ stop \in StopType
    /\ leaked \in [Symbols -> Nat]

NoTrades == [s \in Symbols |-> NoTrade]
NoGhosts == [s \in Symbols |-> FALSE]
IdleTick == [pc |-> "idle", view |-> Empty, ghosts |-> NoGhosts]
IdleSync == [pc |-> "idle", view |-> Empty]
IdleStop == [pc |-> "idle", tick |-> NoTick]

Init ==
    /\ kill = FALSE /\ running = FALSE /\ stale = FALSE
    /\ held = Empty /\ rows = Empty /\ found = NoGhosts
    /\ sent = [s \in Symbols |-> [buy |-> 0, sell |-> 0]]
    /\ sync = [y \in Syncs |-> IdleSync]
    /\ inFlight = NoTick
    /\ tick = [t \in Ticks |-> IdleTick]
    /\ trade = [t \in Ticks |-> NoTrades]
    /\ stop = IdleStop
    /\ leaked = Empty

-----------------------------------------------------------------------------
(* The operator: kill switch, start, stop.                                 *)

Halt ==
    /\ ~kill
    /\ kill' = TRUE
    /\ trade' = [t \in Ticks |-> [s \in Symbols |->
                    [trade[t][s] EXCEPT !.early = (trade[t][s].pc = "cleared")]]]
    /\ UNCHANGED <<brokerVars, snapVars, sync, loopVars, tick, leaked, stale>>

Resume ==
    /\ kill
    /\ kill' = FALSE
    /\ leaked' = Empty
    /\ trade' = [t \in Ticks |-> [s \in Symbols |-> [trade[t][s] EXCEPT !.early = FALSE]]]
    /\ UNCHANGED <<brokerVars, snapVars, sync, loopVars, tick, stale>>

\* An answered stop request is forgotten when the loop is set going again.
Touch == stop' = IF stop.pc = "done" THEN IdleStop ELSE stop

StartLoop ==
    /\ ~running
    /\ running' = TRUE
    /\ Touch
    /\ UNCHANGED <<kill, brokerVars, snapVars, sync, inFlight, tick, trade, leaked, stale>>

\* A stop that does not wait for the tick in flight.
MutantStopLoop ==
    /\ running' = FALSE
    /\ stop' = [pc |-> "done", tick |-> NoTick]
    /\ UNCHANGED <<kill, brokerVars, snapVars, sync, inFlight, tick, trade, leaked, stale>>

\* The timer is cleared; the promise of the tick in flight is awaited.
StopLoop ==
    /\ running' = FALSE
    /\ stop' = [pc |-> IF inFlight = NoTick THEN "done" ELSE "waiting", tick |-> inFlight]
    /\ UNCHANGED <<kill, brokerVars, snapVars, sync, inFlight, tick, trade, leaked, stale>>

-----------------------------------------------------------------------------
(* doTick                                                                  *)

\* The slot a new tick takes: any idle one, and it does not matter which.
Free(t) == tick[t].pc = "idle" /\ t = CHOOSE u \in Ticks : tick[u].pc = "idle"

\* No test of inFlight.
MutantRunTick(t) ==
    /\ Free(t)
    /\ inFlight' = t
    /\ tick' = [tick EXCEPT ![t] = [IdleTick EXCEPT !.pc = "kill"]]
    /\ UNCHANGED trade

\* runTick: nothing happens while a tick is in flight.
RunTick(t) ==
    /\ inFlight = NoTick
    /\ Free(t)
    /\ inFlight' = t
    /\ tick' = [tick EXCEPT ![t] = [IdleTick EXCEPT !.pc = "kill"]]
    /\ UNCHANGED trade

\* The timer, while the loop is running; or POST /runner/tick, at any time.
TimerTick(t) ==
    /\ running
    /\ RunTick(t)
    /\ UNCHANGED <<kill, brokerVars, snapVars, sync, running, stop, leaked, stale>>

ManualTick(t) ==
    /\ RunTick(t)
    /\ Touch
    /\ UNCHANGED <<kill, brokerVars, snapVars, sync, running, leaked, stale>>

\* doTick returns: inFlight is cleared and a stop that awaits it resolves.
FinishTick(t) ==
    /\ tick' = [tick EXCEPT ![t] = IdleTick]
    /\ trade' = [trade EXCEPT ![t] = NoTrades]
    /\ inFlight' = NoTick
    /\ stop' = IF stop.tick = t THEN [pc |-> "done", tick |-> NoTick] ELSE stop
    /\ UNCHANGED <<kill, brokerVars, snapVars, running, leaked, stale>>

Advance(t, pc) == tick' = [tick EXCEPT ![t].pc = pc]

\* GET /risk/state says the switch is off.
SwitchIsOff(t) ==
    /\ tick[t].pc = "kill"
    /\ ~kill
    /\ Advance(t, "positions")
    /\ UNCHANGED <<kill, brokerVars, snapVars, sync, loopVars, trade, leaked, stale>>

\* A tick that goes on without knowing its positions: none, it is assumed.
MutantSkipTick(t) ==
    \/ /\ tick[t].pc = "kill"
       /\ FinishTick(t)
       /\ UNCHANGED sync
    \/ /\ tick[t].pc = "positions"
       /\ tick' = [tick EXCEPT ![t] = [IdleTick EXCEPT !.pc = "scores"]]
       /\ UNCHANGED <<kill, brokerVars, snapVars, sync, loopVars, trade, leaked, stale>>

\* Fail closed: the switch is on, or nobody can say; positions or equity
\* unknown.  Every request has a timeout, so this is always possible.
SkipTick(t) ==
    /\ tick[t].pc \in {"kill", "positions"}
    /\ FinishTick(t)
    /\ UNCHANGED sync

\* Is less on record than is held or on order?
Outdated(s) == rows[s] < held[s] + sent[s].buy

\* History: on record, not held, and not found by the latest sync either.
Ghosts == [s \in Symbols |-> rows[s] > 0 /\ held[s] = 0 /\ ~found[s]]

ReadPositions(t) ==
    /\ tick[t].pc = "positions"
    /\ tick' = [tick EXCEPT ![t] = [pc |-> "scores", view |-> rows, ghosts |-> Ghosts]]
    /\ stale' = (stale \/ \E s \in Symbols : Outdated(s))
    /\ UNCHANGED <<kill, brokerVars, snapVars, sync, loopVars, trade, leaked>>

\* The difference taken the wrong way round.
MutantAllocation(position, action, ghost) ==
    IF action = "long" /\ position + MinOrder # Target
    THEN [NoTrade EXCEPT !.pc = "check", !.side = "buy", !.notional = position - Target]
    ELSE NoTrade

\* action 2 buys the difference to the target, action 0 sells what is on
\* record, both only above the minimum; action 1, or no score, does nothing.
Allocation(position, action, ghost) ==
    CASE action = "long" /\ Target > position + MinOrder ->
            [NoTrade EXCEPT !.pc = "check", !.side = "buy", !.notional = Target - position]
      [] action = "short" /\ position > MinOrder ->
            [NoTrade EXCEPT !.pc = "check", !.side = "sell", !.notional = position, !.ghost = ghost]
      [] OTHER -> NoTrade

\* Scores are in: allocate, and send a risk check for every trade.
Allocate(t) ==
    /\ tick[t].pc = "scores"
    /\ \E action \in [Symbols -> {"long", "hold", "short"}] :
         trade' = [trade EXCEPT ![t] = [s \in Symbols |->
                      Allocation(tick[t].view[s], action[s], tick[t].ghosts[s])]]
    /\ tick' = [tick EXCEPT ![t] = [IdleTick EXCEPT !.pc = "trades"]]
    /\ UNCHANGED <<kill, brokerVars, snapVars, sync, loopVars, leaked, stale>>

SetTrade(t, s, pc) == trade' = [trade EXCEPT ![t][s].pc = pc]

\* A check that does not look at the kill switch.
MutantRiskAllows(t, s) ==
    /\ trade[t][s].pc = "check"
    /\ trade[t][s].notional <= Target
    /\ SetTrade(t, s, "cleared")
    /\ UNCHANGED <<kill, brokerVars, snapVars, sync, loopVars, tick, leaked, stale>>

RiskAllows(t, s) ==
    /\ trade[t][s].pc = "check"
    /\ ~kill
    /\ trade[t][s].notional <= Target
    /\ SetTrade(t, s, "cleared")
    /\ UNCHANGED <<kill, brokerVars, snapVars, sync, loopVars, tick, leaked, stale>>

\* max_position_exceeded, for buys and sells alike.
RiskFindsOversize(t, s) ==
    /\ trade[t][s].pc = "check"
    /\ ~kill
    /\ trade[t][s].notional > Target
    /\ SetTrade(t, s, "oversize")
    /\ UNCHANGED <<kill, brokerVars, snapVars, sync, loopVars, tick, leaked, stale>>

\* Kill switch, unsynced or stale equity, daily loss, timeout, network error.
RiskRefuses(t, s) ==
    /\ trade[t][s].pc = "check"
    /\ trade' = [trade EXCEPT ![t][s] = DoneTrade]
    /\ UNCHANGED <<kill, brokerVars, snapVars, sync, loopVars, tick, leaked, stale>>

\* POST /orders goes out.  (What it comes back with changes nothing.)
SendOrder(t, s) ==
    LET o == trade[t][s]
    IN  /\ o.pc = "cleared"
        /\ trade' = [trade EXCEPT ![t][s] = DoneTrade]
        /\ sent' = [sent EXCEPT ![s][o.side] =
                        IF @ + o.notional <= Buying THEN @ + o.notional ELSE @]
        /\ leaked' = IF kill THEN [leaked EXCEPT ![s] = @ + 1] ELSE leaked
        /\ UNCHANGED <<kill, held, snapVars, sync, loopVars, tick, stale>>

\* All trades are through: POST /portfolio/sync, which may fail.
TradesDone(t) ==
    /\ tick[t].pc = "trades"
    /\ \A s \in Symbols : trade[t][s].pc \notin {"check", "cleared"}

SyncAfterTrades(t) ==
    /\ TradesDone(t)
    /\ \E y \in Syncs :
          /\ sync[y].pc = "idle"
          /\ sync' = [sync EXCEPT ![y].pc = "fetch"]
    /\ Advance(t, "synced")
    /\ UNCHANGED <<kill, brokerVars, snapVars, loopVars, trade, leaked, stale>>

SyncUnanswered(t) ==
    /\ TradesDone(t)
    /\ Advance(t, "synced")
    /\ UNCHANGED <<kill, brokerVars, snapVars, sync, loopVars, trade, leaked, stale>>

\* A sync request without a timeout.
MutantEndTick(t) ==
    /\ tick[t].pc = "synced"
    /\ \A y \in Syncs : sync[y].pc = "idle"
    /\ FinishTick(t)
    /\ UNCHANGED sync

\* The sync has been answered or has timed out (it may still be going on).
EndTick(t) ==
    /\ tick[t].pc = "synced"
    /\ FinishTick(t)
    /\ UNCHANGED sync

-----------------------------------------------------------------------------
(* The portfolio service.                                                  *)

CronSync(y) ==
    /\ sync[y].pc = "idle"
    /\ sync' = [sync EXCEPT ![y].pc = "fetch"]
    /\ UNCHANGED <<kill, brokerVars, snapVars, loopVars, tick, trade, leaked, stale>>

\* GET /alpaca/positions: what is held, without what is on order.
FetchPositions(y) ==
    /\ sync[y].pc = "fetch"
    /\ sync' = [sync EXCEPT ![y] = [pc |-> "save", view |-> held]]
    /\ UNCHANGED <<kill, brokerVars, snapVars, loopVars, tick, trade, leaked, stale>>

\* Non-ok answers, exceptions, a failed transaction: nothing is saved.
SyncFails(y) ==
    /\ sync[y].pc # "idle"
    /\ sync' = [sync EXCEPT ![y] = IdleSync]
    /\ UNCHANGED <<kill, brokerVars, snapVars, loopVars, tick, trade, leaked, stale>>

\* Rows are inserted for what is held: a position that is gone leaves its
\* last row the latest one.
SavePositions(y) ==
    /\ sync[y].pc = "save"
    /\ rows' = [s \in Symbols |-> IF sync[y].view[s] > 0 THEN sync[y].view[s] ELSE rows[s]]
    /\ found' = [s \in Symbols |-> sync[y].view[s] > 0]
    /\ sync' = [sync EXCEPT ![y] = IdleSync]
    /\ UNCHANGED <<kill, brokerVars, loopVars, tick, trade, leaked, stale>>

-----------------------------------------------------------------------------
(* The broker.                                                             *)

FillBuy(s, n) ==
    /\ n <= sent[s].buy /\ held[s] + n <= Buying
    /\ held' = [held EXCEPT ![s] = @ + n]
    /\ sent' = [sent EXCEPT ![s].buy = @ - n]

FillSell(s, n) ==
    /\ n <= sent[s].sell /\ n <= held[s]
    /\ held' = [held EXCEPT ![s] = @ - n]
    /\ sent' = [sent EXCEPT ![s].sell = @ - n]

\* Orders expire, are refused, or never arrive.
Drop(s, side) ==
    /\ sent[s][side] > 0
    /\ sent' = [sent EXCEPT ![s][side] = 0]
    /\ UNCHANGED held

Broker ==
    /\ \E s \in Symbols :
          \/ \E n \in 1 .. Buying : FillBuy(s, n) \/ FillSell(s, n)
          \/ \E side \in {"buy", "sell"} : Drop(s, side)
    /\ UNCHANGED <<kill, snapVars, sync, loopVars, tick, trade, leaked, stale>>

-----------------------------------------------------------------------------
\* The runner dies: what it had sent stays sent.  It comes back stopped.
Crash ==
    /\ running' = FALSE
    /\ inFlight' = NoTick
    /\ tick' = [t \in Ticks |-> IdleTick]
    /\ trade' = [t \in Ticks |-> NoTrades]
    /\ stop' = IdleStop
    /\ UNCHANGED <<kill, brokerVars, snapVars, sync, leaked, stale>>

TickStep(t) ==
    \/ SwitchIsOff(t) \/ SkipTick(t) \/ ReadPositions(t) \/ Allocate(t)
    \/ \E s \in Symbols : RiskAllows(t, s) \/ RiskFindsOversize(t, s) \/ RiskRefuses(t, s)
                          \/ SendOrder(t, s)
    \/ SyncAfterTrades(t) \/ SyncUnanswered(t) \/ EndTick(t)

SyncStep(y) == CronSync(y) \/ FetchPositions(y) \/ SyncFails(y) \/ SavePositions(y)

Next ==
    \/ Halt \/ Resume \/ StartLoop \/ StopLoop \/ Crash
    \/ \E t \in Ticks : TimerTick(t) \/ ManualTick(t) \/ TickStep(t)
    \/ \E y \in Syncs : SyncStep(y)
    \/ Broker

Spec == Init /\ [][Next]_vars

\* Every request of a tick has a timeout and the event loop serves it.
FairSpec == Spec /\ \A t \in Ticks : WF_vars(TickStep(t))

-----------------------------------------------------------------------------
(* Properties                                                              *)

\* An order that goes out while the switch is on was cleared by the risk
\* service before the switch was thrown: nothing is cleared after it.
HaltBarrier ==
    [][ \A t \in Ticks, s \in Symbols :
          SendOrder(t, s) /\ kill => trade[t][s].early ]_vars

\* ... and at most one such order per symbol follows a halt, for however long
\* it lasts: ticks do not overlap, and a later one stops at the switch.
HaltLeaksLittle == \A s \in Symbols : leaked[s] <= 1

\* As long as no tick has sized its orders on outdated positions, what is
\* held and on order stays within the target, over any number of ticks,
\* partial fills, restarts and skipped ticks.
ExposureWithinTarget ==
    ~stale => \A s \in Symbols : held[s] + sent[s].buy <= Target

\* When the latest stop has been answered and nobody has started the loop
\* since it was asked for, or a tick since it was answered, no tick is going on.
StoppedIsQuiet ==
    stop.pc = "done" /\ ~running =>
        inFlight = NoTick /\ \A t \in Ticks : tick[t].pc = "idle"

\* A stop is answered (or the process dies): the tick it waits for ends,
\* whatever the services it calls do.
StopReturns == stop.pc = "waiting" ~> stop.pc # "waiting"

\* What has come of a trade's risk check.
CheckOf(o) ==
    CASE o.pc = "check"   -> [phase |-> "asked", size |-> o.notional]
      [] o.pc = "cleared" -> [phase |-> "cleared", size |-> o.notional]
      [] OTHER            -> [phase |-> "idle", size |-> 0]

\* A trade's check is what RiskContract promises of one: cleared at an instant
\* at which the switch is off and the size within the limit.  RiskGate
\* implements the same module, which is why a check is one step here.
Contract == INSTANCE RiskContract WITH
    Askers <- Ticks \X Symbols,
    Sizes  <- Money,
    allows <- IF kill THEN {} ELSE 0 .. Target,
    asker  <- [a \in Ticks \X Symbols |-> CheckOf(trade[a[1]][a[2]])]
ImplementsContract == Contract!Spec

-----------------------------------------------------------------------------
(* Claims of the source that the code does not live up to.                 *)

\* "we do not open margin shorts" (runnerScheduler.test.ts:189): no tick
\* sells a symbol that, when it read its positions, was neither held nor found
\* held by the latest sync.
SellsOnlyWhatIsHeld ==
    \A t \in Ticks, s \in Symbols :
        trade[t][s].side = "sell" => ~trade[t][s].ghost

\* "SHORT signal with existing long position -> sell to close it"
\* (runnerScheduler.test.ts:195): a sale is never found too large.
ClosingIsNeverOversize ==
    \A t \in Ticks, s \in Symbols :
        trade[t][s].side = "sell" => trade[t][s].pc # "oversize"
=============================================================================
