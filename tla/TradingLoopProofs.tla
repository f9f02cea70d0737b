------------------------- MODULE TradingLoopProofs -------------------------
(***************************************************************************)
(* Theorems about the trading loop, for any sets of symbols, tick and sync *)
(* slots, any target, order minimum and buying power.                      *)
(***************************************************************************)
EXTENDS TradingLoop, FiniteSetTheorems, TLAPS

-----------------------------------------------------------------------------
(* The inductive invariant.                                                *)

\* Ticks come one after the other.
OneTick == \A t \in Ticks : tick[t].pc # "idle" => inFlight = t

\* Only a tick that is submitting has trades that may yet become orders.
TradesInTick ==
    \A t \in Ticks, s \in Symbols :
        trade[t][s].pc \in {"check", "cleared"} => tick[t].pc = "trades"

\* An answered stop has waited for the tick in flight.
StopWaited == stop.pc = "done" /\ ~running => inFlight = NoTick

\* The positions a tick works with are not less than what is held and on order,
ViewsSuffice ==
    ~stale => \A t \in Ticks, s \in Symbols :
        tick[t].pc = "scores" => held[s] + sent[s].buy <= tick[t].view[s]

\* so what it is about to buy still fits.
TradesFit ==
    ~stale => \A t \in Ticks, s \in Symbols :
        trade[t][s].pc \in {"check", "cleared"} /\ trade[t][s].side = "buy" =>
            held[s] + sent[s].buy + trade[t][s].notional <= Target

\* Nothing has gone out under the halt for a symbol that still has a cleared
\* trade, and what is cleared under a halt was cleared before it.
LeaksAreCleared ==
    /\ ~kill => \A s \in Symbols : leaked[s] = 0
    /\ \A t \in Ticks, s \in Symbols :
          trade[t][s].pc = "cleared" => leaked[s] = 0 /\ (kill => trade[t][s].early)

Serial == OneTick /\ TradesInTick /\ StopWaited
Sized  == ViewsSuffice /\ TradesFit /\ ExposureWithinTarget
Barred == LeaksAreCleared /\ HaltLeaksLittle

IInv == TypeOK /\ Serial /\ Sized /\ Barred

-----------------------------------------------------------------------------
\* What an idle slot holds has the right type.
LEMMA IdleTypes ==
    /\ 0 \in Money /\ Empty \in View
    /\ NoTrade \in TradeType /\ DoneTrade \in TradeType
    /\ IdleTick \in TickType /\ IdleSync \in SyncType /\ IdleStop \in StopType
  <1>1. 0 \in Money
    BY LoopAssumption DEF Money
  <1>2. Empty \in View
    BY <1>1 DEF Empty, View
  <1>3. NoTrade \in TradeType
    BY <1>1 DEF NoTrade, TradeType
  <1>4. DoneTrade \in TradeType
    BY <1>1 DEF DoneTrade, NoTrade, TradeType
  <1>5. IdleTick \in TickType /\ IdleSync \in SyncType
    BY <1>2 DEF IdleTick, NoGhosts, TickType, IdleSync, SyncType
  <1>6. IdleStop \in StopType
    BY DEF IdleStop, StopType
  <1>7. QED
    BY <1>1, <1>2, <1>3, <1>4, <1>5, <1>6

\* A trade stays a trade when its stage or its history changes.
LEMMA TradeUpdates ==
    ASSUME NEW o \in TradeType
    PROVE  /\ \A pc \in {"none", "check", "cleared", "oversize", "done"} :
                [o EXCEPT !.pc = pc] \in TradeType
           /\ \A early \in BOOLEAN : [o EXCEPT !.early = early] \in TradeType
  BY DEF TradeType

\* Allocation makes a trade of a position, or none.
LEMMA AllocationType ==
    ASSUME NEW position \in Money, NEW action, NEW ghost \in BOOLEAN
    PROVE  Allocation(position, action, ghost) \in TradeType
  <1>1. Target > position + MinOrder => Target - position \in Money
    BY LoopAssumption DEF Money
  <1>2. CASE action = "long" /\ Target > position + MinOrder
    BY <1>1, <1>2 DEF Allocation, NoTrade, TradeType
  <1>3. CASE action = "short" /\ position > MinOrder
    BY <1>3 DEF Allocation, NoTrade, TradeType
  <1>4. CASE ~(action = "long" /\ Target > position + MinOrder)
             /\ ~(action = "short" /\ position > MinOrder)
    BY <1>4, IdleTypes DEF Allocation
  <1>5. QED
    BY <1>2, <1>3, <1>4

\* ... and a purchase up to the target.
LEMMA AllocationFits ==
    ASSUME NEW position, NEW action, NEW ghost
    PROVE  LET o == Allocation(position, action, ghost)
           IN  /\ o.pc # "cleared"
               /\ o.pc = "check" /\ o.side = "buy" => o.notional = Target - position
  BY DEF Allocation, NoTrade

\* Halt and resume change a trade's history only.
LEMMA HistoryOnly ==
    ASSUME TypeOK, Halt \/ Resume, NEW t \in Ticks, NEW s \in Symbols
    PROVE  /\ trade'[t][s].pc = trade[t][s].pc
           /\ trade'[t][s].side = trade[t][s].side
           /\ trade'[t][s].notional = trade[t][s].notional
           /\ Halt /\ trade[t][s].pc = "cleared" => trade'[t][s].early
  <1>1. trade[t][s] \in TradeType
    BY DEF TypeOK
  <1>2. CASE Halt
    <2>1. trade'[t][s] = [trade[t][s] EXCEPT !.early = (trade[t][s].pc = "cleared")]
      BY <1>2 DEF Halt
    <2>2. QED
      BY <1>1, <1>2, <2>1 DEF TradeType
  <1>3. CASE Resume
    <2>1. trade'[t][s] = [trade[t][s] EXCEPT !.early = FALSE]
      BY <1>3 DEF Resume
    <2>2. ~Halt
      BY <1>3 DEF Halt, Resume
    <2>3. QED
      BY <1>1, <2>1, <2>2 DEF TradeType
  <1>4. QED
    BY <1>2, <1>3

LEMMA InitIInv == Init => IInv
  <1> SUFFICES ASSUME Init PROVE IInv
    OBVIOUS
  <1>1. TypeOK
    <2>1. sent \in [Symbols -> SentType]
      BY IdleTypes DEF Init, SentType
    <2>2. QED
      BY <2>1, IdleTypes DEF Init, TypeOK, NoTrades, NoGhosts, Empty
  <1>2. Serial
    BY DEF Init, Serial, OneTick, TradesInTick, StopWaited, NoTrades, NoTrade, IdleTick,
       IdleStop
  <1>3. Sized
    BY LoopAssumption
    DEF Init, Sized, ViewsSuffice, TradesFit, ExposureWithinTarget, NoTrades, NoTrade,
        IdleTick, Empty
  <1>4. Barred
    BY DEF Init, Barred, LeaksAreCleared, HaltLeaksLittle, NoTrades, NoTrade, Empty
  <1>5. QED
    BY <1>1, <1>2, <1>3, <1>4 DEF IInv

\* Every step keeps the types.
LEMMA NextTypeOK ==
    ASSUME IInv, [Next]_vars
    PROVE  TypeOK'
  <1> USE LoopAssumption, IdleTypes DEF IInv, TypeOK, brokerVars, snapVars, loopVars
  <1>1. ASSUME Halt PROVE TypeOK'
    <2>1. trade' \in [Ticks -> [Symbols -> TradeType]]
      BY <1>1, TradeUpdates DEF Halt
    <2>2. QED
      BY <1>1, <2>1 DEF Halt
  <1>2. ASSUME Resume PROVE TypeOK'
    <2>1. trade' \in [Ticks -> [Symbols -> TradeType]]
      BY <1>2, TradeUpdates DEF Resume
    <2>2. leaked' \in [Symbols -> Nat]
      BY <1>2 DEF Resume, Empty
    <2>3. QED
      BY <1>2, <2>1, <2>2 DEF Resume
  <1>3. ASSUME StartLoop PROVE TypeOK'
    <2>1. stop' \in StopType
      BY <1>3 DEF StartLoop, Touch, StopType
    <2>2. QED
      BY <1>3, <2>1 DEF StartLoop, Touch
  <1>4. ASSUME StopLoop PROVE TypeOK'
    <2>1. stop' \in StopType
      BY <1>4 DEF StopLoop, StopType
    <2>2. QED
      BY <1>4, <2>1 DEF StopLoop
  <1>5. ASSUME Crash PROVE TypeOK'
    BY <1>5 DEF Crash, NoTrades
  <1>6. ASSUME NEW t \in Ticks, TimerTick(t) PROVE TypeOK'
    <2>1. tick' \in [Ticks -> TickType]
      BY <1>6 DEF TimerTick, RunTick, Free, TickType, IdleTick
    <2>2. QED
      BY <1>6, <2>1 DEF TimerTick, RunTick, Free
  <1>7. ASSUME NEW t \in Ticks, ManualTick(t) PROVE TypeOK'
    <2>1. tick' \in [Ticks -> TickType]
      BY <1>7 DEF ManualTick, RunTick, Free, Touch, TickType, IdleTick
    <2>2. stop' \in StopType
      BY <1>7 DEF ManualTick, RunTick, Free, Touch, StopType, IdleTick
    <2>3. QED
      BY <1>7, <2>1, <2>2 DEF ManualTick, RunTick, Free, Touch
  <1>8. ASSUME NEW t \in Ticks, SwitchIsOff(t) PROVE TypeOK'
    <2>1. tick' \in [Ticks -> TickType]
      BY <1>8 DEF SwitchIsOff, Advance, TickType
    <2>2. QED
      BY <1>8, <2>1 DEF SwitchIsOff, Advance
  <1>9. ASSUME NEW t \in Ticks, SkipTick(t) PROVE TypeOK'
    <2>1. tick' \in [Ticks -> TickType]
      BY <1>9 DEF SkipTick, FinishTick, TickType, NoTrades
    <2>2. trade' \in [Ticks -> [Symbols -> TradeType]]
      BY <1>9 DEF SkipTick, FinishTick, TradeType, NoTrades
    <2>3. stop' \in StopType
      BY <1>9 DEF SkipTick, FinishTick, StopType, NoTrades
    <2>4. QED
      BY <1>9, <2>1, <2>2, <2>3 DEF SkipTick, FinishTick
  <1>10. ASSUME NEW t \in Ticks, ReadPositions(t) PROVE TypeOK'
    <2>1. tick' \in [Ticks -> TickType]
      BY <1>10 DEF ReadPositions, Ghosts, TickType
    <2>2. QED
      BY <1>10, <2>1 DEF ReadPositions
  <1>11. ASSUME NEW t \in Ticks, Allocate(t) PROVE TypeOK'
    <2>1. PICK action \in [Symbols -> {"long", "hold", "short"}] :
             trade' = [trade EXCEPT ![t] = [s \in Symbols |->
                Allocation(tick[t].view[s], action[s], tick[t].ghosts[s])]]
      BY <1>11 DEF Allocate
    <2>2. \A s \in Symbols : tick[t].view[s] \in Money /\ tick[t].ghosts[s] \in BOOLEAN
      BY DEF TickType, View
    <2>3. trade' \in [Ticks -> [Symbols -> TradeType]]
      <3>1. \A s \in Symbols :
               Allocation(tick[t].view[s], action[s], tick[t].ghosts[s]) \in TradeType
        BY <2>2, AllocationType
      <3>2. QED
        BY <2>1, <3>1
    <2>4. tick' \in [Ticks -> TickType]
      BY <1>11 DEF Allocate, TickType, IdleTick, NoGhosts
    <2>5. QED
      BY <1>11, <2>3, <2>4 DEF Allocate
  <1>12. ASSUME NEW t \in Ticks, NEW s \in Symbols, RiskAllows(t, s) PROVE TypeOK'
    <2>1. trade' \in [Ticks -> [Symbols -> TradeType]]
      BY <1>12, TradeUpdates DEF RiskAllows, SetTrade
    <2>2. QED
      BY <1>12, <2>1 DEF RiskAllows, SetTrade
  <1>13. ASSUME NEW t \in Ticks, NEW s \in Symbols, RiskFindsOversize(t, s) PROVE TypeOK'
    <2>1. trade' \in [Ticks -> [Symbols -> TradeType]]
      BY <1>13, TradeUpdates DEF RiskFindsOversize, SetTrade
    <2>2. QED
      BY <1>13, <2>1 DEF RiskFindsOversize, SetTrade
  <1>14. ASSUME NEW t \in Ticks, NEW s \in Symbols, RiskRefuses(t, s) PROVE TypeOK'
    <2>1. trade' \in [Ticks -> [Symbols -> TradeType]]
      BY <1>14 DEF RiskRefuses, TradeType
    <2>2. QED
      BY <1>14, <2>1 DEF RiskRefuses
  <1>15. ASSUME NEW t \in Ticks, NEW s \in Symbols, SendOrder(t, s) PROVE TypeOK'
    <2>1. trade' \in [Ticks -> [Symbols -> TradeType]]
      BY <1>15 DEF SendOrder
    <2>2. leaked' \in [Symbols -> Nat]
      BY <1>15 DEF SendOrder
    <2>3. trade[t][s].notional \in Money /\ trade[t][s].side \in {"buy", "sell"}
      BY DEF TradeType
    <2>4. sent' \in [Symbols -> SentType]
      <3>1. CASE trade[t][s].side = "buy"
        BY <1>15, <2>3, <3>1 DEF SendOrder, SentType, Money
      <3>2. CASE trade[t][s].side = "sell"
        BY <1>15, <2>3, <3>2 DEF SendOrder, SentType, Money
      <3>3. QED
        BY <2>3, <3>1, <3>2
    <2>5. QED
      BY <1>15, <2>1, <2>2, <2>4 DEF SendOrder
  <1>16. ASSUME NEW t \in Ticks, SyncAfterTrades(t) PROVE TypeOK'
    <2>1. sync' \in [Syncs -> SyncType]
      BY <1>16, SMTT(30) DEF SyncAfterTrades, TradesDone, Advance, SyncType
    <2>2. tick' \in [Ticks -> TickType]
      BY <1>16 DEF SyncAfterTrades, TradesDone, Advance, TickType
    <2>3. QED
      BY <1>16, <2>1, <2>2 DEF SyncAfterTrades, TradesDone, Advance
  <1>17. ASSUME NEW t \in Ticks, SyncUnanswered(t) PROVE TypeOK'
    <2>1. tick' \in [Ticks -> TickType]
      BY <1>17 DEF SyncUnanswered, TradesDone, Advance, TickType
    <2>2. QED
      BY <1>17, <2>1 DEF SyncUnanswered, TradesDone, Advance
  <1>18. ASSUME NEW t \in Ticks, EndTick(t) PROVE TypeOK'
    <2>1. tick' \in [Ticks -> TickType]
      BY <1>18 DEF EndTick, FinishTick, TickType, NoTrades
    <2>2. trade' \in [Ticks -> [Symbols -> TradeType]]
      BY <1>18 DEF EndTick, FinishTick, TradeType, NoTrades
    <2>3. stop' \in StopType
      BY <1>18 DEF EndTick, FinishTick, StopType, NoTrades
    <2>4. QED
      BY <1>18, <2>1, <2>2, <2>3 DEF EndTick, FinishTick
  <1>19. ASSUME NEW y \in Syncs, SyncStep(y) PROVE TypeOK'
    <2>1. CASE CronSync(y)
      BY <2>1 DEF CronSync, SyncType
    <2>2. CASE FetchPositions(y)
      BY <2>2 DEF FetchPositions, SyncType
    <2>3. CASE SyncFails(y)
      BY <2>3 DEF SyncFails
    <2>4. CASE SavePositions(y)
      <3>1. sync[y].view \in View
        BY DEF SyncType
      <3>2. rows' \in View /\ found' \in [Symbols -> BOOLEAN]
        BY <2>4, <3>1 DEF SavePositions, View
      <3>3. sync' \in [Syncs -> SyncType]
        BY <2>4 DEF SavePositions
      <3>4. QED
        BY <2>4, <3>2, <3>3 DEF SavePositions
    <2>5. QED
      BY <1>19, <2>1, <2>2, <2>3, <2>4 DEF SyncStep
  <1>20. ASSUME NEW s \in Symbols, NEW n \in 1 .. Buying, Broker /\ FillBuy(s, n) PROVE TypeOK'
    <2>1. sent' \in [Symbols -> SentType]
      BY <1>20 DEF Broker, FillBuy, SentType, Money
    <2>2. held' \in View
      BY <1>20 DEF Broker, FillBuy, View, Money
    <2>3. QED
      BY <1>20, <2>1, <2>2 DEF Broker, FillBuy
  <1>21. ASSUME NEW s \in Symbols, NEW n \in 1 .. Buying, Broker /\ FillSell(s, n) PROVE TypeOK'
    <2>1. sent' \in [Symbols -> SentType]
      BY <1>21 DEF Broker, FillSell, SentType, Money
    <2>2. held' \in View
      BY <1>21 DEF Broker, FillSell, View, Money
    <2>3. QED
      BY <1>21, <2>1, <2>2 DEF Broker, FillSell
  <1>22. ASSUME NEW s \in Symbols, NEW side \in {"buy", "sell"}, Broker /\ Drop(s, side)
         PROVE  TypeOK'
    <2>1. sent' \in [Symbols -> SentType]
      BY <1>22 DEF Broker, Drop, SentType, Money
    <2>2. QED
      BY <1>22, <2>1 DEF Broker, Drop
  <1>23. CASE UNCHANGED vars
    BY <1>23 DEF vars
  <1>24. QED
    BY <1>1, <1>2, <1>3, <1>4, <1>5, <1>6, <1>7, <1>8, <1>9, <1>10, <1>11, <1>12, <1>13,
       <1>14, <1>15, <1>16, <1>17, <1>18, <1>19, <1>20, <1>21, <1>22, <1>23, ZenonT(40)
    DEF Next, TickStep, Broker

\* Every step keeps ticks apart.
LEMMA NextSerial ==
    ASSUME IInv, [Next]_vars
    PROVE  Serial'
  <1> USE LoopAssumption
      DEF IInv, Serial, OneTick, TradesInTick, brokerVars, snapVars, loopVars, TypeOK,
          TradeType, SentType, SyncType, TickType, StopType, View, Money, StopWaited
  <1>1. ASSUME Halt PROVE Serial'
    <2>1. \A u \in Ticks, s \in Symbols :
             /\ trade'[u][s].pc = trade[u][s].pc
             /\ trade'[u][s].side = trade[u][s].side
             /\ trade'[u][s].notional = trade[u][s].notional
      BY <1>1, HistoryOnly
    <2>2. UNCHANGED <<brokerVars, snapVars, sync, loopVars, tick, stale>>
      BY <1>1 DEF Halt
    <2>3. QED
      BY <2>1, <2>2
  <1>2. ASSUME Resume PROVE Serial'
    <2>1. \A u \in Ticks, s \in Symbols :
             /\ trade'[u][s].pc = trade[u][s].pc
             /\ trade'[u][s].side = trade[u][s].side
             /\ trade'[u][s].notional = trade[u][s].notional
      BY <1>2, HistoryOnly
    <2>2. UNCHANGED <<brokerVars, snapVars, sync, loopVars, tick, stale>>
      BY <1>2 DEF Resume
    <2>3. QED
      BY <2>1, <2>2
  <1>3. ASSUME StartLoop PROVE Serial'
    BY <1>3 DEF StartLoop, Touch, IdleStop
  <1>4. ASSUME StopLoop PROVE Serial'
    BY <1>4 DEF StopLoop
  <1>5. ASSUME Crash PROVE Serial'
    BY <1>5 DEF Crash, IdleTick, NoTrades, NoTrade, IdleStop, Empty
  <1>6. ASSUME NEW t \in Ticks, TimerTick(t) PROVE Serial'
    BY <1>6 DEF TimerTick, RunTick, Free, IdleTick, Empty
  <1>7. ASSUME NEW t \in Ticks, ManualTick(t) PROVE Serial'
    BY <1>7 DEF ManualTick, RunTick, Free, Touch, IdleTick, IdleStop, Empty
  <1>8. ASSUME NEW t \in Ticks, SwitchIsOff(t) PROVE Serial'
    BY <1>8 DEF SwitchIsOff, Advance
  <1>9. ASSUME NEW t \in Ticks, SkipTick(t) PROVE Serial'
    BY <1>9 DEF SkipTick, FinishTick, IdleTick, NoTrades, NoTrade, Empty
  <1>10. ASSUME NEW t \in Ticks, ReadPositions(t) PROVE Serial'
    BY <1>10 DEF ReadPositions, Ghosts, Outdated
  <1>11. ASSUME NEW t \in Ticks, Allocate(t) PROVE Serial'
    BY <1>11 DEF Allocate, Allocation, IdleTick, NoTrade, Empty
  <1>12. ASSUME NEW t \in Ticks, NEW s \in Symbols, RiskAllows(t, s) PROVE Serial'
    BY <1>12 DEF RiskAllows, SetTrade
  <1>13. ASSUME NEW t \in Ticks, NEW s \in Symbols, RiskFindsOversize(t, s) PROVE Serial'
    BY <1>13 DEF RiskFindsOversize, SetTrade
  <1>14. ASSUME NEW t \in Ticks, NEW s \in Symbols, RiskRefuses(t, s) PROVE Serial'
    BY <1>14 DEF RiskRefuses, DoneTrade, NoTrade
  <1>15. ASSUME NEW t \in Ticks, NEW s \in Symbols, SendOrder(t, s) PROVE Serial'
    BY <1>15 DEF SendOrder, DoneTrade, NoTrade
  <1>16. ASSUME NEW t \in Ticks, SyncAfterTrades(t) PROVE Serial'
    BY <1>16 DEF SyncAfterTrades, TradesDone, Advance
  <1>17. ASSUME NEW t \in Ticks, SyncUnanswered(t) PROVE Serial'
    BY <1>17 DEF SyncUnanswered, TradesDone, Advance
  <1>18. ASSUME NEW t \in Ticks, EndTick(t) PROVE Serial'
    BY <1>18 DEF EndTick, FinishTick, IdleTick, NoTrades, NoTrade, Empty
  <1>19. ASSUME NEW y \in Syncs, SyncStep(y) PROVE Serial'
    BY <1>19 DEF SyncStep, CronSync, FetchPositions, SyncFails, SavePositions, IdleSync, Empty
  <1>20. ASSUME NEW s \in Symbols, NEW n \in 1 .. Buying, Broker /\ FillBuy(s, n) PROVE Serial'
    BY <1>20 DEF Broker, FillBuy
  <1>21. ASSUME NEW s \in Symbols, NEW n \in 1 .. Buying, Broker /\ FillSell(s, n) PROVE Serial'
    BY <1>21 DEF Broker, FillSell
  <1>22. ASSUME NEW s \in Symbols, NEW side \in {"buy", "sell"}, Broker /\ Drop(s, side)
         PROVE  Serial'
    BY <1>22 DEF Broker, Drop
  <1>23. ASSUME UNCHANGED vars PROVE Serial'
    BY <1>23 DEF vars, brokerVars, snapVars, loopVars
  <1>24. QED
    BY <1>1, <1>2, <1>3, <1>4, <1>5, <1>6, <1>7, <1>8, <1>9, <1>10, <1>11, <1>12, <1>13,
       <1>14, <1>15, <1>16, <1>17, <1>18, <1>19, <1>20, <1>21, <1>22, <1>23, ZenonT(40)
    DEF Next, TickStep, Broker

\* Every step keeps within the target.
LEMMA NextSized ==
    ASSUME IInv, [Next]_vars
    PROVE  Sized'
  <1> USE LoopAssumption
      DEF IInv, Serial, OneTick, TradesInTick, brokerVars, snapVars, loopVars, TypeOK, Sized,
          ViewsSuffice, TradesFit, ExposureWithinTarget, TradeType, SentType, TickType, View,
          Money
  <1>1. ASSUME Halt PROVE Sized'
    <2>1. \A u \in Ticks, s \in Symbols :
             /\ trade'[u][s].pc = trade[u][s].pc
             /\ trade'[u][s].side = trade[u][s].side
             /\ trade'[u][s].notional = trade[u][s].notional
      BY <1>1, HistoryOnly
    <2>2. UNCHANGED <<brokerVars, snapVars, sync, loopVars, tick, stale>>
      BY <1>1 DEF Halt
    <2>3. QED
      BY <2>1, <2>2
  <1>2. ASSUME Resume PROVE Sized'
    <2>1. \A u \in Ticks, s \in Symbols :
             /\ trade'[u][s].pc = trade[u][s].pc
             /\ trade'[u][s].side = trade[u][s].side
             /\ trade'[u][s].notional = trade[u][s].notional
      BY <1>2, HistoryOnly
    <2>2. UNCHANGED <<brokerVars, snapVars, sync, loopVars, tick, stale>>
      BY <1>2 DEF Resume
    <2>3. QED
      BY <2>1, <2>2
  <1>3. ASSUME StartLoop PROVE Sized'
    BY <1>3 DEF StartLoop, Touch, IdleStop
  <1>4. ASSUME StopLoop PROVE Sized'
    BY <1>4 DEF StopLoop
  <1>5. ASSUME Crash PROVE Sized'
    BY <1>5 DEF Crash, IdleTick, NoTrades, NoTrade, IdleStop, Empty
  <1>6. ASSUME NEW t \in Ticks, TimerTick(t) PROVE Sized'
    BY <1>6 DEF TimerTick, RunTick, Free, IdleTick, Empty
  <1>7. ASSUME NEW t \in Ticks, ManualTick(t) PROVE Sized'
    BY <1>7 DEF ManualTick, RunTick, Free, Touch, IdleTick, IdleStop, Empty
  <1>8. ASSUME NEW t \in Ticks, SwitchIsOff(t) PROVE Sized'
    BY <1>8 DEF SwitchIsOff, Advance
  <1>9. ASSUME NEW t \in Ticks, SkipTick(t) PROVE Sized'
    BY <1>9 DEF SkipTick, FinishTick, IdleTick, NoTrades, NoTrade, Empty
  <1>10. ASSUME NEW t \in Ticks, ReadPositions(t) PROVE Sized'
    <2>1. ASSUME ~stale'
          PROVE  ~stale /\ \A s \in Symbols : held[s] + sent[s].buy <= rows[s]
      <3>1. ~stale /\ \A s \in Symbols : ~Outdated(s)
        BY <1>10, <2>1, Zenon DEF ReadPositions
      <3>2. QED
        BY <3>1 DEF Outdated
    <2>2. \A u \in Ticks : IF u = t THEN tick'[u].pc = "scores" /\ tick'[u].view = rows
                                    ELSE tick'[u] = tick[u]
      BY <1>10 DEF ReadPositions
    <2>3. QED
      BY <1>10, <2>1, <2>2 DEF ReadPositions
  <1>11. ASSUME NEW t \in Ticks, Allocate(t) PROVE Sized'
    <2>1. PICK action \in [Symbols -> {"long", "hold", "short"}] :
             trade' = [trade EXCEPT ![t] = [s \in Symbols |->
                Allocation(tick[t].view[s], action[s], tick[t].ghosts[s])]]
      BY <1>11 DEF Allocate
    <2>2. \A u \in Ticks, s \in Symbols : u # t => trade'[u][s] = trade[u][s]
      BY <2>1 DEF TypeOK
    <2>3. \A s \in Symbols :
             trade'[t][s] = Allocation(tick[t].view[s], action[s], tick[t].ghosts[s])
      BY <2>1 DEF TypeOK
    <2>4. \A u \in Ticks : IF u = t THEN tick'[u].pc = "trades" ELSE tick'[u] = tick[u]
      BY <1>11 DEF Allocate, IdleTick
    <2>5. tick[t].pc = "scores" /\ UNCHANGED <<stale, held, sent>>
      BY <1>11 DEF Allocate
    <2>6. \A s \in Symbols :
             trade'[t][s].pc \in {"check", "cleared"} /\ trade'[t][s].side = "buy" =>
                trade'[t][s].notional = Target - tick[t].view[s]
      BY <2>3, AllocationFits
    <2>7. \A s \in Symbols : tick[t].view[s] \in Nat /\ held[s] \in Nat /\ sent[s].buy \in Nat
      OBVIOUS
    <2>8. ASSUME ~stale, NEW u \in Ticks, NEW s \in Symbols,
                 trade'[u][s].pc \in {"check", "cleared"}, trade'[u][s].side = "buy"
          PROVE  held[s] + sent[s].buy + trade'[u][s].notional <= Target
      <3>1. CASE u = t
        <4>1. held[s] + sent[s].buy <= tick[t].view[s]
          BY <2>5, <2>8
        <4>2. QED
          BY <2>6, <2>7, <2>8, <3>1, <4>1, LoopAssumption
      <3>2. CASE u # t
        BY <2>2, <2>8, <3>2
      <3>3. QED
        BY <3>1, <3>2
    <2>9. QED
      BY <2>4, <2>5, <2>8
  <1>12. ASSUME NEW t \in Ticks, NEW s \in Symbols, RiskAllows(t, s) PROVE Sized'
    BY <1>12 DEF RiskAllows, SetTrade
  <1>13. ASSUME NEW t \in Ticks, NEW s \in Symbols, RiskFindsOversize(t, s) PROVE Sized'
    BY <1>13 DEF RiskFindsOversize, SetTrade
  <1>14. ASSUME NEW t \in Ticks, NEW s \in Symbols, RiskRefuses(t, s) PROVE Sized'
    BY <1>14 DEF RiskRefuses, DoneTrade, NoTrade
  <1>15. ASSUME NEW t \in Ticks, NEW s \in Symbols, SendOrder(t, s) PROVE Sized'
    <2>1. \A u \in Ticks, v \in Symbols :
             IF u = t /\ v = s THEN trade'[u][v] = DoneTrade ELSE trade'[u][v] = trade[u][v]
      BY <1>15 DEF SendOrder
    <2>2. \A v \in Symbols : v # s => sent'[v].buy = sent[v].buy
      BY <1>15 DEF SendOrder
    <2>3. /\ trade[t][s].pc = "cleared" /\ UNCHANGED <<stale, held, tick>>
          /\ trade[t][s].side \in {"buy", "sell"} /\ trade[t][s].notional \in Nat
          /\ sent[s].buy \in Nat /\ held[s] \in Nat
      BY <1>15 DEF SendOrder
    <2>4. IF trade[t][s].side = "buy" THEN sent'[s].buy <= sent[s].buy + trade[t][s].notional
                                     ELSE sent'[s].buy = sent[s].buy
      BY <1>15, <2>3 DEF SendOrder
    <2>5. sent'[s].buy \in Nat
      BY <1>15, <2>3 DEF SendOrder
    <2>6. \A u \in Ticks : u # t => tick[u].pc = "idle"
      BY <2>3
    <2>7. ASSUME ~stale, NEW v \in Symbols
          PROVE  held[v] + sent'[v].buy <= Target
      <3>1. held[v] + sent[v].buy <= Target
        BY <2>7
      <3>2. trade[t][s].side = "buy" =>
               held[s] + sent[s].buy + trade[t][s].notional <= Target
        BY <2>3, <2>7
      <3>3. CASE v # s
        BY <2>2, <3>1, <3>3
      <3>4. CASE v = s /\ trade[t][s].side = "buy"
        BY <2>3, <2>4, <2>5, <3>2, <3>4, LoopAssumption
      <3>5. CASE v = s /\ trade[t][s].side = "sell"
        BY <2>3, <2>4, <3>1, <3>5
      <3>6. QED
        BY <2>3, <3>3, <3>4, <3>5
    <2>8. ASSUME ~stale, NEW u \in Ticks, NEW v \in Symbols,
                 trade'[u][v].pc \in {"check", "cleared"}, trade'[u][v].side = "buy"
          PROVE  held[v] + sent'[v].buy + trade'[u][v].notional <= Target
      <3>1. trade'[u][v] = trade[u][v] /\ ~(u = t /\ v = s)
        BY <2>1, <2>8 DEF DoneTrade, NoTrade
      <3>2. u = t /\ v # s
        BY <2>6, <2>8, <3>1
      <3>3. QED
        BY <2>2, <2>8, <3>1, <3>2
    <2>9. ViewsSuffice'
      BY <2>3, <2>6
    <2>10. QED
      BY <2>3, <2>7, <2>8, <2>9
  <1>16. ASSUME NEW t \in Ticks, SyncAfterTrades(t) PROVE Sized'
    BY <1>16 DEF SyncAfterTrades, TradesDone, Advance
  <1>17. ASSUME NEW t \in Ticks, SyncUnanswered(t) PROVE Sized'
    BY <1>17 DEF SyncUnanswered, TradesDone, Advance
  <1>18. ASSUME NEW t \in Ticks, EndTick(t) PROVE Sized'
    BY <1>18 DEF EndTick, FinishTick, IdleTick, NoTrades, NoTrade, Empty
  <1>19. ASSUME NEW y \in Syncs, SyncStep(y) PROVE Sized'
    BY <1>19 DEF SyncStep, CronSync, FetchPositions, SyncFails, SavePositions, IdleSync, Empty
  <1>20. ASSUME NEW s \in Symbols, NEW n \in 1 .. Buying, Broker /\ FillBuy(s, n) PROVE Sized'
    BY <1>20 DEF Broker, FillBuy
  <1>21. ASSUME NEW s \in Symbols, NEW n \in 1 .. Buying, Broker /\ FillSell(s, n) PROVE Sized'
    BY <1>21 DEF Broker, FillSell
  <1>22. ASSUME NEW s \in Symbols, NEW side \in {"buy", "sell"}, Broker /\ Drop(s, side)
         PROVE  Sized'
    BY <1>22 DEF Broker, Drop
  <1>23. ASSUME UNCHANGED vars PROVE Sized'
    BY <1>23 DEF vars, brokerVars, snapVars, loopVars
  <1>24. QED
    BY <1>1, <1>2, <1>3, <1>4, <1>5, <1>6, <1>7, <1>8, <1>9, <1>10, <1>11, <1>12, <1>13,
       <1>14, <1>15, <1>16, <1>17, <1>18, <1>19, <1>20, <1>21, <1>22, <1>23, ZenonT(40)
    DEF Next, TickStep, Broker

\* Every step keeps behind the halt.
LEMMA NextBarred ==
    ASSUME IInv, [Next]_vars
    PROVE  Barred'
  <1> USE LoopAssumption
      DEF IInv, Serial, OneTick, TradesInTick, brokerVars, snapVars, loopVars, TypeOK,
          TradeType, TickType, Barred, LeaksAreCleared, HaltLeaksLittle
  <1>1. ASSUME Halt PROVE Barred'
    <2>1. \A u \in Ticks, s \in Symbols :
             /\ trade'[u][s].pc = trade[u][s].pc
             /\ trade[u][s].pc = "cleared" => trade'[u][s].early
      BY <1>1, HistoryOnly
    <2>2. ~kill /\ kill' /\ UNCHANGED leaked
      BY <1>1 DEF Halt
    <2>3. QED
      BY <2>1, <2>2
  <1>2. ASSUME Resume PROVE Barred'
    <2>1. \A u \in Ticks, s \in Symbols : trade'[u][s].pc = trade[u][s].pc
      BY <1>2, HistoryOnly
    <2>2. ~kill' /\ \A s \in Symbols : leaked'[s] = 0
      BY <1>2 DEF Resume, Empty
    <2>3. QED
      BY <2>1, <2>2
  <1>3. ASSUME StartLoop PROVE Barred'
    BY <1>3 DEF StartLoop, Touch, IdleStop
  <1>4. ASSUME StopLoop PROVE Barred'
    BY <1>4 DEF StopLoop
  <1>5. ASSUME Crash PROVE Barred'
    BY <1>5 DEF Crash, IdleTick, NoTrades, NoTrade, IdleStop, Empty
  <1>6. ASSUME NEW t \in Ticks, TimerTick(t) PROVE Barred'
    BY <1>6 DEF TimerTick, RunTick, Free, IdleTick, Empty
  <1>7. ASSUME NEW t \in Ticks, ManualTick(t) PROVE Barred'
    BY <1>7 DEF ManualTick, RunTick, Free, Touch, IdleTick, IdleStop, Empty
  <1>8. ASSUME NEW t \in Ticks, SwitchIsOff(t) PROVE Barred'
    BY <1>8 DEF SwitchIsOff, Advance
  <1>9. ASSUME NEW t \in Ticks, SkipTick(t) PROVE Barred'
    BY <1>9 DEF SkipTick, FinishTick, IdleTick, NoTrades, NoTrade, Empty
  <1>10. ASSUME NEW t \in Ticks, ReadPositions(t) PROVE Barred'
    BY <1>10 DEF ReadPositions, Ghosts, Outdated
  <1>11. ASSUME NEW t \in Ticks, Allocate(t) PROVE Barred'
    <2>1. PICK action \in [Symbols -> {"long", "hold", "short"}] :
             trade' = [trade EXCEPT ![t] = [s \in Symbols |->
                Allocation(tick[t].view[s], action[s], tick[t].ghosts[s])]]
      BY <1>11 DEF Allocate
    <2>2. \A u \in Ticks, s \in Symbols : u # t => trade'[u][s] = trade[u][s]
      BY <2>1 DEF TypeOK
    <2>3. \A s \in Symbols :
             trade'[t][s] = Allocation(tick[t].view[s], action[s], tick[t].ghosts[s])
      BY <2>1 DEF TypeOK
    <2>4. \A s \in Symbols : trade'[t][s].pc # "cleared"
      BY <2>3, AllocationFits
    <2>5. QED
      BY <1>11, <2>2, <2>4 DEF Allocate
  <1>12. ASSUME NEW t \in Ticks, NEW s \in Symbols, RiskAllows(t, s) PROVE Barred'
    BY <1>12 DEF RiskAllows, SetTrade
  <1>13. ASSUME NEW t \in Ticks, NEW s \in Symbols, RiskFindsOversize(t, s) PROVE Barred'
    BY <1>13 DEF RiskFindsOversize, SetTrade
  <1>14. ASSUME NEW t \in Ticks, NEW s \in Symbols, RiskRefuses(t, s) PROVE Barred'
    BY <1>14 DEF RiskRefuses, DoneTrade, NoTrade
  <1>15. ASSUME NEW t \in Ticks, NEW s \in Symbols, SendOrder(t, s) PROVE Barred'
    <2>1. \A u \in Ticks, v \in Symbols :
             IF u = t /\ v = s THEN trade'[u][v] = DoneTrade ELSE trade'[u][v] = trade[u][v]
      BY <1>15 DEF SendOrder
    <2>2. trade[t][s].pc = "cleared" /\ UNCHANGED kill /\ leaked[s] = 0
      BY <1>15 DEF SendOrder
    <2>3. \A v \in Symbols : IF v = s /\ kill THEN leaked'[v] = 1 ELSE leaked'[v] = leaked[v]
      BY <1>15, <2>2 DEF SendOrder
    <2>4. \A u \in Ticks : u # t => tick[u].pc = "idle"
      BY <2>2
    <2>5. \A u \in Ticks, v \in Symbols :
             trade'[u][v].pc = "cleared" => trade[u][v] = trade'[u][v] /\ v # s
      BY <2>1, <2>4 DEF DoneTrade, NoTrade
    <2>6. QED
      BY <2>2, <2>3, <2>5
  <1>16. ASSUME NEW t \in Ticks, SyncAfterTrades(t) PROVE Barred'
    BY <1>16 DEF SyncAfterTrades, TradesDone, Advance
  <1>17. ASSUME NEW t \in Ticks, SyncUnanswered(t) PROVE Barred'
    BY <1>17 DEF SyncUnanswered, TradesDone, Advance
  <1>18. ASSUME NEW t \in Ticks, EndTick(t) PROVE Barred'
    BY <1>18 DEF EndTick, FinishTick, IdleTick, NoTrades, NoTrade, Empty
  <1>19. ASSUME NEW y \in Syncs, SyncStep(y) PROVE Barred'
    BY <1>19 DEF SyncStep, CronSync, FetchPositions, SyncFails, SavePositions, IdleSync, Empty
  <1>20. ASSUME NEW s \in Symbols, NEW n \in 1 .. Buying, Broker /\ FillBuy(s, n) PROVE Barred'
    BY <1>20 DEF Broker, FillBuy
  <1>21. ASSUME NEW s \in Symbols, NEW n \in 1 .. Buying, Broker /\ FillSell(s, n) PROVE Barred'
    BY <1>21 DEF Broker, FillSell
  <1>22. ASSUME NEW s \in Symbols, NEW side \in {"buy", "sell"}, Broker /\ Drop(s, side)
         PROVE  Barred'
    BY <1>22 DEF Broker, Drop
  <1>23. ASSUME UNCHANGED vars PROVE Barred'
    BY <1>23 DEF vars, brokerVars, snapVars, loopVars
  <1>24. QED
    BY <1>1, <1>2, <1>3, <1>4, <1>5, <1>6, <1>7, <1>8, <1>9, <1>10, <1>11, <1>12, <1>13,
       <1>14, <1>15, <1>16, <1>17, <1>18, <1>19, <1>20, <1>21, <1>22, <1>23, ZenonT(40)
    DEF Next, TickStep, Broker

-----------------------------------------------------------------------------
LEMMA InvariantHolds == Spec => []IInv
  <1>1. IInv /\ [Next]_vars => IInv'
    BY NextTypeOK, NextSerial, NextSized, NextBarred DEF IInv
  <1>2. QED
    BY InitIInv, <1>1, PTL DEF Spec

\* Values keep their types, for any number of symbols and ticks.
THEOREM TypeCorrect == Spec => []TypeOK
  <1>1. IInv => TypeOK
    BY DEF IInv
  <1>2. QED
    BY InvariantHolds, <1>1, PTL

\* Ticks that size their orders on what is held and on order never take the
\* account over its target, whatever fills, expires, crashes or is skipped.
THEOREM ExposureIsBounded == Spec => []ExposureWithinTarget
  <1>1. IInv => ExposureWithinTarget
    BY DEF IInv, Sized
  <1>2. QED
    BY InvariantHolds, <1>1, PTL

\* A halt is followed by at most one order per symbol.
THEOREM HaltIsPrompt == Spec => []HaltLeaksLittle
  <1>1. IInv => HaltLeaksLittle
    BY DEF IInv, Barred
  <1>2. QED
    BY InvariantHolds, <1>1, PTL

\* After an answered stop the runner is quiet.
THEOREM StopIsQuiet == Spec => []StoppedIsQuiet
  <1>1. IInv => StoppedIsQuiet
    BY LoopAssumption DEF IInv, Serial, OneTick, StopWaited, StoppedIsQuiet
  <1>2. QED
    BY InvariantHolds, <1>1, PTL

\* Nothing is cleared, and then sent, once the switch is on.
THEOREM HaltIsBarrier == Spec => HaltBarrier
  <1>1. IInv /\ [Next]_vars =>
           [\A t \in Ticks, s \in Symbols : SendOrder(t, s) /\ kill => trade[t][s].early]_vars
    BY DEF IInv, Barred, LeaksAreCleared, SendOrder
  <1>2. QED
    BY InvariantHolds, <1>1, PTL DEF Spec, HaltBarrier

-----------------------------------------------------------------------------
(* The loop's risk checks are those of RiskContract.                       *)

\* A step leaves a trade's check alone, or the trade is planned, cleared under
\* the rules in force, or done with.
Untouched(t, s) ==
    /\ trade'[t][s].pc = trade[t][s].pc
    /\ trade'[t][s].notional = trade[t][s].notional

TradeMoves(t, s) ==
    \/ Untouched(t, s)
    \/ trade'[t][s].pc = "check" /\ trade'[t][s].notional \in Money
    \/ /\ trade[t][s].pc = "check" /\ ~kill /\ trade[t][s].notional <= Target
       /\ trade'[t][s].pc = "cleared" /\ trade'[t][s].notional = trade[t][s].notional
    \/ trade'[t][s].pc \notin {"check", "cleared"}

LEMMA StepMoves ==
    ASSUME IInv, [Next]_vars, NEW u \in Ticks, NEW v \in Symbols
    PROVE  TradeMoves(u, v)
  <1> TypeOK
    BY DEF IInv
  <1> USE DEF TypeOK, TradeMoves, Untouched
  <1>1. ASSUME Halt \/ Resume PROVE TradeMoves(u, v)
    BY <1>1, HistoryOnly
  <1>2. ASSUME UNCHANGED trade PROVE TradeMoves(u, v)
    BY <1>2
  <1>3. ASSUME StartLoop \/ StopLoop PROVE UNCHANGED trade
    BY <1>3 DEF StartLoop, StopLoop
  <1>4. ASSUME Crash PROVE TradeMoves(u, v)
    BY <1>4 DEF Crash, NoTrades, NoTrade
  <1>5. ASSUME NEW t \in Ticks, TimerTick(t) \/ ManualTick(t) PROVE UNCHANGED trade
    BY <1>5 DEF TimerTick, ManualTick, RunTick
  <1>6. ASSUME NEW t \in Ticks, SwitchIsOff(t) \/ ReadPositions(t) PROVE UNCHANGED trade
    BY <1>6 DEF SwitchIsOff, ReadPositions
  <1>7. ASSUME NEW t \in Ticks, SkipTick(t) \/ EndTick(t) PROVE TradeMoves(u, v)
    BY <1>7 DEF SkipTick, EndTick, FinishTick, NoTrades, NoTrade
  <1>8. ASSUME NEW t \in Ticks, Allocate(t) PROVE TradeMoves(u, v)
    <2>1. PICK action \in [Symbols -> {"long", "hold", "short"}] :
             trade' = [trade EXCEPT ![t] = [s \in Symbols |->
                Allocation(tick[t].view[s], action[s], tick[t].ghosts[s])]]
      BY <1>8 DEF Allocate
    <2>2. CASE u # t
      BY <2>1, <2>2
    <2>3. CASE u = t
      <3>1. trade'[u][v] = Allocation(tick[t].view[v], action[v], tick[t].ghosts[v])
        BY <2>1, <2>3
      <3>2. tick[t].view[v] \in Money /\ tick[t].ghosts[v] \in BOOLEAN
        BY DEF TickType, View
      <3>3. trade'[u][v] \in TradeType /\ trade'[u][v].pc # "cleared"
        BY <3>1, <3>2, AllocationType, AllocationFits
      <3> QED BY <3>3 DEF TradeType
    <2> QED BY <2>2, <2>3
  <1>9. ASSUME NEW t \in Ticks, NEW s \in Symbols, RiskAllows(t, s) PROVE TradeMoves(u, v)
    BY <1>9 DEF RiskAllows, SetTrade, TradeType
  <1>10. ASSUME NEW t \in Ticks, NEW s \in Symbols, RiskFindsOversize(t, s) PROVE TradeMoves(u, v)
    BY <1>10 DEF RiskFindsOversize, SetTrade, TradeType
  <1>11. ASSUME NEW t \in Ticks, NEW s \in Symbols, RiskRefuses(t, s) PROVE TradeMoves(u, v)
    BY <1>11 DEF RiskRefuses, DoneTrade, NoTrade
  <1>12. ASSUME NEW t \in Ticks, NEW s \in Symbols, SendOrder(t, s) PROVE TradeMoves(u, v)
    BY <1>12 DEF SendOrder, DoneTrade, NoTrade
  <1>13. ASSUME NEW t \in Ticks, SyncAfterTrades(t) \/ SyncUnanswered(t) PROVE UNCHANGED trade
    BY <1>13 DEF SyncAfterTrades, SyncUnanswered
  <1>14. ASSUME NEW y \in Syncs, SyncStep(y) PROVE UNCHANGED trade
    BY <1>14 DEF SyncStep, CronSync, FetchPositions, SyncFails, SavePositions
  <1>15. ASSUME Broker \/ UNCHANGED vars PROVE UNCHANGED trade
    BY <1>15 DEF Broker, vars
  <1> QED
    BY <1>1, <1>2, <1>3, <1>4, <1>5, <1>6, <1>7, <1>8, <1>9, <1>10, <1>11, <1>12, <1>13,
       <1>14, <1>15
    DEF Next, TickStep

LEMMA NextContract ==
    ASSUME IInv, [Next]_vars
    PROVE  Contract!Next
  <1>1. ASSUME NEW a \in Ticks \X Symbols
        PROVE  \/ Contract!Ask(a) \/ Contract!Clear(a)
               \/ Contract!Leave(a) \/ Contract!Stay(a)
    <2>1. PICK t \in Ticks, s \in Symbols : a = <<t, s>>
      OBVIOUS
    <2>2. TradeMoves(t, s)
      BY StepMoves
    <2>3. trade[t][s] \in TradeType
      BY DEF IInv, TypeOK
    <2>4. CASE Untouched(t, s)
      BY <2>1, <2>4 DEF Untouched, CheckOf, Contract!Stay
    <2>5. CASE trade'[t][s].pc = "check" /\ trade'[t][s].notional \in Money
      BY <2>1, <2>5 DEF CheckOf, Contract!Ask, Contract!Asked
    <2>6. CASE /\ trade[t][s].pc = "check" /\ ~kill /\ trade[t][s].notional <= Target
               /\ trade'[t][s].pc = "cleared" /\ trade'[t][s].notional = trade[t][s].notional
      <3>1. trade[t][s].notional \in 0 .. Target
        BY <2>3, <2>6, LoopAssumption DEF TradeType, Money
      <3> QED BY <2>1, <2>6, <3>1
              DEF CheckOf, Contract!Clear, Contract!Asked, Contract!Cleared
    <2>7. CASE trade'[t][s].pc \notin {"check", "cleared"}
      BY <2>1, <2>7 DEF CheckOf, Contract!Leave, Contract!Idle
    <2> QED BY <2>2, <2>4, <2>5, <2>6, <2>7 DEF TradeMoves
  <1>2. (IF kill' THEN {} ELSE 0 .. Target) \in SUBSET Money
    BY LoopAssumption DEF Money
  <1> QED BY <1>1, <1>2 DEF Contract!Next

LEMMA InitContract == Init => Contract!Init
  <1> SUFFICES ASSUME Init PROVE Contract!Init
    OBVIOUS
  <1>1. (IF kill THEN {} ELSE 0 .. Target) \in SUBSET Money
    BY LoopAssumption DEF Money
  <1>2. ASSUME NEW a \in Ticks \X Symbols
        PROVE  CheckOf(trade[a[1]][a[2]]) = [phase |-> "idle", size |-> 0]
    BY DEF Init, NoTrades, NoTrade, CheckOf
  <1>3. [a \in Ticks \X Symbols |-> CheckOf(trade[a[1]][a[2]])] =
           [a \in Ticks \X Symbols |-> [phase |-> "idle", size |-> 0]]
    BY <1>2
  <1> QED BY <1>1, <1>3 DEF Contract!Init, Contract!Idle

\* In every step of the loop, over any number of ticks and trades, checks are
\* those of RiskContract.
THEOREM LoopImplementsContract == Spec => ImplementsContract
  <1>1. IInv /\ [Next]_vars => [Contract!Next]_(Contract!contractVars)
    BY NextContract
  <1> QED BY <1>1, InitContract, InvariantHolds, PTL
          DEF Spec, ImplementsContract, Contract!Spec

-----------------------------------------------------------------------------
(* A tick winds down, and a stop waits for one that does.                  *)

\* The trades of a tick that await their check, and those that may yet be sent.
Unchecked(t) == {s \in Symbols : trade[t][s].pc = "check"}
Unsent(t)    == {s \in Symbols : trade[t][s].pc \in {"check", "cleared"}}

\* The steps a tick may still take.
TickWork(t) ==
    CASE tick[t].pc = "idle"      -> 0
      [] tick[t].pc = "synced"    -> 1
      [] tick[t].pc = "trades"    -> 2 + Cardinality(Unchecked(t)) + Cardinality(Unsent(t))
      [] tick[t].pc = "scores"    -> 3 + 2 * Cardinality(Symbols)
      [] tick[t].pc = "positions" -> 4 + 2 * Cardinality(Symbols)
      [] tick[t].pc = "kill"      -> 5 + 2 * Cardinality(Symbols)

\* A tick in progress has finitely many steps left, each of which takes one of
\* them, and nothing that happens around it adds to them: not the operator, the
\* broker, syncs, other trades or a timer that fires meanwhile.
WorkShrinks ==
    \A t \in Ticks : tick[t].pc # "idle" =>
        /\ TickWork(t) \in Nat /\ TickWork(t)' \in Nat
        /\ TickWork(t)' <= TickWork(t)
        /\ TickStep(t) => TickWork(t)' < TickWork(t)

\* Sets of symbols are counted.
LEMMA SymbolSets ==
    ASSUME IsFiniteSet(Symbols), NEW S \in SUBSET Symbols
    PROVE  /\ Cardinality(Symbols) \in Nat /\ Cardinality(S) \in Nat
           /\ Cardinality(S) <= Cardinality(Symbols)
           /\ \A s \in S : Cardinality(S \ {s}) = Cardinality(S) - 1
  <1>1. IsFiniteSet(S) /\ Cardinality(S) <= Cardinality(Symbols)
    BY FS_Subset
  <1> QED BY <1>1, FS_CardinalityType, FS_RemoveElement

LEMMA WorkCounted ==
    ASSUME IsFiniteSet(Symbols), NEW t \in Ticks
    PROVE  /\ Cardinality(Symbols) \in Nat
           /\ Cardinality(Unchecked(t)) \in Nat /\ Cardinality(Unsent(t)) \in Nat
           /\ Cardinality(Unchecked(t)) <= Cardinality(Symbols)
           /\ Cardinality(Unsent(t)) <= Cardinality(Symbols)
  <1>1. Unchecked(t) \in SUBSET Symbols /\ Unsent(t) \in SUBSET Symbols
    BY DEF Unchecked, Unsent
  <1> QED BY <1>1, SymbolSets

LEMMA WorkCountedNext ==
    ASSUME IsFiniteSet(Symbols), NEW t \in Ticks
    PROVE  /\ Cardinality(Unchecked(t)') \in Nat /\ Cardinality(Unsent(t)') \in Nat
           /\ Cardinality(Unchecked(t)') <= Cardinality(Symbols)
           /\ Cardinality(Unsent(t)') <= Cardinality(Symbols)
  <1>1. Unchecked(t)' \in SUBSET Symbols /\ Unsent(t)' \in SUBSET Symbols
    BY DEF Unchecked, Unsent
  <1> QED BY <1>1, SymbolSets

\* A trade that is through its check, or through altogether, is one less.
LEMMA TradeStepShrinks ==
    ASSUME IInv, IsFiniteSet(Symbols), NEW t \in Ticks, NEW s \in Symbols, tick' = tick,
           \A v \in Symbols : v # s => trade'[t][v].pc = trade[t][v].pc,
           \/ trade[t][s].pc = "check" /\ trade'[t][s].pc # "check"
           \/ trade[t][s].pc = "cleared" /\ trade'[t][s].pc \notin {"check", "cleared"}
    PROVE  TickWork(t)' < TickWork(t)
  <1>1. tick[t].pc = "trades" /\ tick'[t].pc = "trades"
    BY DEF IInv, Serial, TradesInTick
  <1>2. CASE trade[t][s].pc = "check" /\ trade'[t][s].pc = "cleared"
    <2>1. Unchecked(t)' = Unchecked(t) \ {s} /\ s \in Unchecked(t) /\ Unsent(t)' = Unsent(t)
      BY <1>2 DEF Unchecked, Unsent
    <2>2. Cardinality(Unchecked(t)') = Cardinality(Unchecked(t)) - 1
      BY <2>1, SymbolSets DEF Unchecked
    <2> QED BY <2>1, <2>2, <1>1, WorkCounted DEF TickWork
  <1>3. CASE trade[t][s].pc = "check" /\ trade'[t][s].pc \notin {"check", "cleared"}
    <2>1. /\ Unchecked(t)' = Unchecked(t) \ {s} /\ s \in Unchecked(t)
          /\ Unsent(t)' = Unsent(t) \ {s} /\ s \in Unsent(t)
      BY <1>3 DEF Unchecked, Unsent
    <2>2. Cardinality(Unchecked(t)') = Cardinality(Unchecked(t)) - 1
      BY <2>1, SymbolSets DEF Unchecked
    <2>3. Cardinality(Unsent(t)') = Cardinality(Unsent(t)) - 1
      BY <2>1, SymbolSets DEF Unsent
    <2> QED BY <2>2, <2>3, <1>1, WorkCounted DEF TickWork
  <1>4. CASE trade[t][s].pc = "cleared" /\ trade'[t][s].pc \notin {"check", "cleared"}
    <2>1. Unchecked(t)' = Unchecked(t) /\ Unsent(t)' = Unsent(t) \ {s} /\ s \in Unsent(t)
      BY <1>4 DEF Unchecked, Unsent
    <2>3. Cardinality(Unsent(t)') = Cardinality(Unsent(t)) - 1
      BY <2>1, SymbolSets DEF Unsent
    <2> QED BY <2>1, <2>3, <1>1, WorkCounted DEF TickWork
  <1> QED BY <1>2, <1>3, <1>4

\* Where a step of a tick takes it.
LEMMA TickStepShrinks ==
    ASSUME IInv, IsFiniteSet(Symbols), NEW t \in Ticks, TickStep(t)
    PROVE  TickWork(t)' < TickWork(t)
  <1> TypeOK
    BY DEF IInv
  <1> USE DEF TypeOK
  <1>1. ASSUME SwitchIsOff(t) PROVE TickWork(t)' < TickWork(t)
    <2>1. tick[t].pc = "kill" /\ tick'[t].pc = "positions"
      BY <1>1 DEF SwitchIsOff, Advance, TickType
    <2> QED BY <2>1, WorkCounted DEF TickWork
  <1>2. ASSUME SkipTick(t) PROVE TickWork(t)' < TickWork(t)
    <2>1. tick[t].pc \in {"kill", "positions"} /\ tick'[t].pc = "idle"
      BY <1>2 DEF SkipTick, FinishTick, IdleTick
    <2> QED BY <2>1, WorkCounted DEF TickWork
  <1>3. ASSUME ReadPositions(t) PROVE TickWork(t)' < TickWork(t)
    <2>1. tick[t].pc = "positions" /\ tick'[t].pc = "scores"
      BY <1>3 DEF ReadPositions
    <2> QED BY <2>1, WorkCounted DEF TickWork
  <1>4. ASSUME Allocate(t) PROVE TickWork(t)' < TickWork(t)
    <2>1. tick[t].pc = "scores" /\ tick'[t].pc = "trades"
      BY <1>4 DEF Allocate, IdleTick
    <2> QED BY <2>1, WorkCounted, WorkCountedNext DEF TickWork
  <1>5. ASSUME NEW s \in Symbols,
               RiskAllows(t, s) \/ RiskFindsOversize(t, s) \/ RiskRefuses(t, s) \/ SendOrder(t, s)
        PROVE  TickWork(t)' < TickWork(t)
    <2>1. tick' = tick
      BY <1>5 DEF RiskAllows, RiskFindsOversize, RiskRefuses, SendOrder
    <2>2. \A v \in Symbols : v # s => trade'[t][v].pc = trade[t][v].pc
      BY <1>5 DEF RiskAllows, RiskFindsOversize, RiskRefuses, SendOrder, SetTrade
    <2>3. \/ trade[t][s].pc = "check" /\ trade'[t][s].pc # "check"
          \/ trade[t][s].pc = "cleared" /\ trade'[t][s].pc \notin {"check", "cleared"}
      BY <1>5 DEF RiskAllows, RiskFindsOversize, RiskRefuses, SendOrder, SetTrade, TradeType,
                  DoneTrade, NoTrade
    <2> QED BY <2>1, <2>2, <2>3, TradeStepShrinks
  <1>6. ASSUME SyncAfterTrades(t) \/ SyncUnanswered(t) PROVE TickWork(t)' < TickWork(t)
    <2>1. tick[t].pc = "trades" /\ tick'[t].pc = "synced"
      BY <1>6 DEF SyncAfterTrades, SyncUnanswered, TradesDone, Advance, TickType
    <2> QED BY <2>1, WorkCounted DEF TickWork
  <1>7. ASSUME EndTick(t) PROVE TickWork(t)' < TickWork(t)
    <2>1. tick[t].pc = "synced" /\ tick'[t].pc = "idle"
      BY <1>7 DEF EndTick, FinishTick, IdleTick
    <2> QED BY <2>1 DEF TickWork
  <1> QED BY <1>1, <1>2, <1>3, <1>4, <1>5, <1>6, <1>7 DEF TickStep

\* Every other step leaves a tick in progress alone, or ends it.
LEMMA OthersLeaveTick ==
    ASSUME IInv, [Next]_vars, NEW t \in Ticks, tick[t].pc # "idle", ~TickStep(t)
    PROVE  \/ tick'[t].pc = "idle"
           \/ tick'[t].pc = tick[t].pc /\ \A s \in Symbols : trade'[t][s].pc = trade[t][s].pc
  <1> DEFINE Kept == tick'[t].pc = tick[t].pc /\ \A s \in Symbols : trade'[t][s].pc = trade[t][s].pc
  <1> TypeOK /\ OneTick
    BY DEF IInv, Serial
  <1>1. ASSUME Halt \/ Resume PROVE Kept
    <2>1. tick' = tick
      BY <1>1 DEF Halt, Resume
    <2> QED BY <1>1, <2>1, HistoryOnly
  <1>2. ASSUME UNCHANGED <<tick, trade>> PROVE Kept
    BY <1>2
  <1>3. ASSUME StartLoop \/ StopLoop \/ Broker \/ UNCHANGED vars PROVE Kept
    BY <1>3, <1>2 DEF StartLoop, StopLoop, Broker, vars
  <1>4. ASSUME Crash PROVE tick'[t].pc = "idle"
    BY <1>4 DEF Crash, IdleTick
  <1>5. ASSUME NEW u \in Ticks, TimerTick(u) \/ ManualTick(u) PROVE FALSE
    BY <1>5, LoopAssumption DEF TimerTick, ManualTick, RunTick, OneTick
  <1>6. ASSUME NEW u \in Ticks, TickStep(u) PROVE FALSE
    <2>1. tick[u].pc # "idle"
      BY <1>6 DEF TickStep, SwitchIsOff, SkipTick, ReadPositions, Allocate, RiskAllows,
                  RiskFindsOversize, RiskRefuses, SendOrder, SyncAfterTrades, SyncUnanswered,
                  TradesDone, EndTick, IInv, Serial, TradesInTick
    <2> QED BY <1>6, <2>1 DEF OneTick
  <1>7. ASSUME NEW y \in Syncs, SyncStep(y) PROVE Kept
    BY <1>7, <1>2 DEF SyncStep, CronSync, FetchPositions, SyncFails, SavePositions
  <1> QED BY <1>1, <1>3, <1>4, <1>5, <1>6, <1>7 DEF Next

LEMMA StepShrinksWork ==
    ASSUME IInv, IsFiniteSet(Symbols), [Next]_vars
    PROVE  WorkShrinks
  <1> SUFFICES ASSUME NEW t \in Ticks, tick[t].pc # "idle"
               PROVE  /\ TickWork(t) \in Nat /\ TickWork(t)' \in Nat
                      /\ TickWork(t)' <= TickWork(t)
                      /\ TickStep(t) => TickWork(t)' < TickWork(t)
    BY DEF WorkShrinks
  <1>1. TypeOK /\ TypeOK'
    BY NextTypeOK DEF IInv
  <1>2. TickWork(t) \in Nat /\ TickWork(t)' \in Nat
    <2>1. tick[t].pc \in {"idle", "kill", "positions", "scores", "trades", "synced"}
      BY <1>1 DEF TypeOK, TickType
    <2>2. tick'[t].pc \in {"idle", "kill", "positions", "scores", "trades", "synced"}
      BY <1>1 DEF TypeOK, TickType
    <2>3. TickWork(t) \in Nat
      BY <2>1, WorkCounted DEF TickWork
    <2>4. TickWork(t)' \in Nat
      BY <2>2, WorkCounted, WorkCountedNext DEF TickWork
    <2> QED BY <2>3, <2>4
  <1>3. CASE TickStep(t)
    BY <1>2, <1>3, TickStepShrinks
  <1>4. CASE ~TickStep(t)
    <2>1. CASE tick'[t].pc = "idle"
      <3>1. TickWork(t)' = 0
        BY <2>1 DEF TickWork
      <3>2. TickWork(t) >= 0
        BY <1>2
      <3> QED BY <3>1, <3>2, <1>2, <1>4
    <2>2. CASE tick'[t].pc = tick[t].pc /\ \A s \in Symbols : trade'[t][s].pc = trade[t][s].pc
      <3>1. Unchecked(t)' = Unchecked(t) /\ Unsent(t)' = Unsent(t)
        BY <2>2 DEF Unchecked, Unsent
      <3>2. TickWork(t)' = TickWork(t)
        BY <2>2, <3>1 DEF TickWork
      <3> QED BY <3>2, <1>2, <1>4
    <2> QED BY <2>1, <2>2, <1>4, OthersLeaveTick
  <1> QED BY <1>3, <1>4

\* Whatever its services answer, a tick of finitely many symbols cannot go on for
\* ever (the safety half of StopReturns).
THEOREM TicksWindDown ==
    ASSUME IsFiniteSet(Symbols)
    PROVE  Spec => [][WorkShrinks]_vars
  <1>1. IInv /\ [Next]_vars => [WorkShrinks]_vars
    BY StepShrinksWork
  <1> QED BY <1>1, InvariantHolds, PTL DEF Spec

\* The promise that inFlight holds is that of a tick in progress.
InFlightIsGoing == inFlight # NoTick => tick[inFlight].pc # "idle"

\* A stop that waits, waits for the tick in flight, and that tick is going on:
\* none ends, and no other takes its place, without the stop being answered.
StopAwaitsTick ==
    stop.pc = "waiting" => inFlight # NoTick /\ stop.tick = inFlight /\ tick[inFlight].pc # "idle"

LEMMA NextStopAwaits ==
    ASSUME IInv, InFlightIsGoing, StopAwaitsTick, [Next]_vars
    PROVE  InFlightIsGoing' /\ StopAwaitsTick'
  <1> DEFINE Goal == InFlightIsGoing' /\ StopAwaitsTick'
  <1> TypeOK /\ OneTick /\ NoTick \notin Ticks
    BY LoopAssumption DEF IInv, Serial
  <1> USE DEF TypeOK, TickType, StopType, InFlightIsGoing, StopAwaitsTick
  <1>1. ASSUME UNCHANGED <<inFlight, stop>>,
               \A u \in Ticks : tick[u].pc # "idle" => tick'[u].pc # "idle"
        PROVE  Goal
    BY <1>1
  <1>2. ASSUME Halt \/ Resume \/ Broker \/ UNCHANGED vars PROVE Goal
    BY <1>2, <1>1 DEF Halt, Resume, Broker, vars, loopVars
  <1>3. ASSUME StartLoop PROVE Goal
    BY <1>3 DEF StartLoop, Touch, IdleStop
  <1>4. ASSUME StopLoop PROVE Goal
    BY <1>4 DEF StopLoop
  <1>5. ASSUME Crash PROVE Goal
    BY <1>5 DEF Crash, IdleStop
  <1>6. ASSUME NEW t \in Ticks, TimerTick(t) \/ ManualTick(t) PROVE Goal
    BY <1>6 DEF TimerTick, ManualTick, RunTick, Touch, IdleStop, IdleTick
  <1>7. ASSUME NEW t \in Ticks, SkipTick(t) \/ EndTick(t) PROVE Goal
    BY <1>7 DEF SkipTick, EndTick, FinishTick, OneTick
  <1>8. ASSUME NEW t \in Ticks,
               SwitchIsOff(t) \/ ReadPositions(t) \/ Allocate(t) \/ SyncAfterTrades(t)
                  \/ SyncUnanswered(t)
        PROVE  Goal
    BY <1>8, <1>1
    DEF SwitchIsOff, ReadPositions, Allocate, SyncAfterTrades, SyncUnanswered,
        Advance, IdleTick, loopVars
  <1>9. ASSUME NEW t \in Ticks, NEW s \in Symbols,
               RiskAllows(t, s) \/ RiskFindsOversize(t, s) \/ RiskRefuses(t, s) \/ SendOrder(t, s)
        PROVE  Goal
    BY <1>9, <1>1 DEF RiskAllows, RiskFindsOversize, RiskRefuses, SendOrder, loopVars
  <1>10. ASSUME NEW y \in Syncs, SyncStep(y) PROVE Goal
    BY <1>10, <1>1 DEF SyncStep, CronSync, FetchPositions, SyncFails, SavePositions, loopVars
  <1> QED
    BY <1>2, <1>3, <1>4, <1>5, <1>6, <1>7, <1>8, <1>9, <1>10 DEF Next, TickStep

\* No stop waits for a tick that is over.
THEOREM StopIsNotForgotten == Spec => []StopAwaitsTick
  <1>1. Init => InFlightIsGoing /\ StopAwaitsTick
    BY DEF Init, IdleStop, InFlightIsGoing, StopAwaitsTick
  <1> QED BY <1>1, NextStopAwaits, InvariantHolds, PTL DEF Spec
=============================================================================
