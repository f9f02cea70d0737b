---------------------------- MODULE EpisodesProofs ----------------------------
(***************************************************************************)
(* Theorems about the episodes a policy is trained and tested in, for any  *)
(* stocks, rows, ratios and trading days, and any report.                  *)
(***************************************************************************)
EXTENDS Episodes, TLAPS

-----------------------------------------------------------------------------
(* The split of a stock's rows.                                            *)

LEMMA QuotientType ==
    \A a \in Nat, b \in Nat \ {0} : a \div b \in Nat
  OBVIOUS

LEMMA QuotientFits ==
    \A a, n \in Nat, b \in Nat \ {0} : a <= n * b => a \div b <= n
  OBVIOUS

LEMMA ProductGrows ==
    \A n, a, b \in Nat : a <= b => n * a <= n * b
  OBVIOUS

\* Training ends after a row at least, and within the rows.
LEMMA TrainEnds ==
    ASSUME NEW src, NEW s \in Stocks, src.rows[s] \in Nat \ {0}, src.ratio \in Ratios
    PROVE  TrainEnd(src, s) \in 1 .. src.rows[s]
  <1> DEFINE n == src.rows[s]
             a == src.ratio.num
             b == src.ratio.den
             k == (n * a) \div b
  <1>1. n \in Nat \ {0} /\ a \in Nat \ {0} /\ b \in Nat \ {0} /\ a <= b
    BY EnvAssumption
  <1>2. TrainEnd(src, s) = IF k < 1 THEN 1 ELSE k
    BY DEF TrainEnd
  <1> HIDE DEF n, a, b
  <1>3. n * a \in Nat /\ n * a <= n * b
    BY <1>1, ProductGrows
  <1>4. k \in Nat /\ k <= n
    BY <1>1, <1>3, QuotientType, QuotientFits
  <1> HIDE DEF k
  <1> QED BY <1>1, <1>2, <1>4 DEF n

-----------------------------------------------------------------------------
(* The inductive invariant of the environment.                             *)

SourceType == [rows : [Stocks -> Nat], ratio : Ratios, listed : SUBSET Stocks]

EpisodeType == [pc : {"none", "running", "done", "raised"}, stock : Stocks,
                test : BOOLEAN, offset : Nat, step : 0 .. TradingDays + 1]

SimType == [step : 0 .. TradingDays, since : [Days -> Int]]

\* Stocks that are listed have no rows or enough.
LongEnough(src) == \A s \in src.listed : src.rows[s] = 0 \/ src.rows[s] >= TradingDays + 1

\* Where an episode may be: it begins where Offsets lets it, and has not run
\* out of rows.
Placed(e) ==
    /\ source.rows[e.stock] >= TradingDays + 1
    /\ e.offset \in Offsets(source, e.stock, e.test)
    /\ e.step >= 1 /\ Row(e) <= source.rows[e.stock]
    /\ e.pc = "running" => e.step <= TradingDays
    /\ e.pc = "done" => e.step = TradingDays + 1

\* Why an environment fails.
Justified(e) ==
    LET n == source.rows[e.stock]
    IN  n <= TradingDays \/ (HoldsOut(source, e.test) /\ n - TradingDays <= TrainEnd(source, e.stock))

\* The simulator is one step behind, and has the rows of this episode.
InPlace(e) ==
    /\ sim.step = e.step - 1
    /\ \A d \in Days : sim.since[d] = IF d < sim.step THEN e.offset + d ELSE -1

EnvIInv ==
    /\ source \in SourceType /\ LongEnough(source)
    /\ testMode \in BOOLEAN
    /\ episode \in EpisodeType
    /\ sim \in SimType
    /\ booked \in [row : Int, decided : Int]
    /\ episode.pc \in {"running", "done"} => Placed(episode) /\ InPlace(episode)
    /\ episode.pc = "raised" => Justified(episode)
    /\ episode.pc = "none" => sim.step = 0
    /\ TrainedWithoutLookAhead

\* Offsets leave room for an episode, but in a held-out portion that is short.
LEMMA OffsetsFit ==
    ASSUME NEW src \in SourceType, NEW s \in Stocks, src.rows[s] >= TradingDays + 1,
           NEW test \in BOOLEAN, NEW o \in Offsets(src, s, test)
    PROVE  LET n == src.rows[s]
               t == TrainEnd(src, s)
               held == HoldsOut(src, test)
           IN  /\ o \in Nat /\ n \in Nat /\ t \in 1 .. n /\ TradingDays \in Nat
               /\ held => o >= t
               /\ held /\ n - TradingDays > t => o + TradingDays < n
               /\ ~held /\ t > TradingDays => o + TradingDays < t
               /\ ~held => o + TradingDays < n
  <1> DEFINE n == src.rows[s]
             t == TrainEnd(src, s)
             held == HoldsOut(src, test)
  <1>1. n \in Nat /\ n >= TradingDays + 1 /\ TradingDays \in Nat \ {0} /\ src.ratio \in Ratios
    BY EnvAssumption DEF SourceType
  <1>2. t \in 1 .. n
    BY <1>1, TrainEnds
  <1>3. o \in LET low  == IF held THEN t ELSE 0
                  high == (IF held THEN n ELSE t) - TradingDays
              IN  low .. IF high - 1 < low THEN low ELSE high - 1
    BY DEF Offsets
  <1> HIDE DEF n, t, held
  <1>4. CASE held
    BY <1>1, <1>2, <1>3, <1>4 DEF n, t, held
  <1>5. CASE ~held
    <2>1. o \in 0 .. IF t - TradingDays - 1 < 0 THEN 0 ELSE t - TradingDays - 1
      BY <1>3, <1>5
    <2> QED BY <1>1, <1>2, <1>5, <2>1 DEF n, t, held
  <1> QED BY <1>4, <1>5

LEMMA EnvStarts == EnvInit => EnvIInv
  <1> SUFFICES ASSUME EnvInit PROVE EnvIInv
    OBVIOUS
  <1>1. PICK q \in Ratios : source = NoSource(q)
    BY DEF EnvInit
  <1>2. source \in SourceType /\ LongEnough(source)
    BY <1>1 DEF NoSource, SourceType, LongEnough
  <1>3. 1 \in Stocks /\ TradingDays \in Nat \ {0}
    BY EnvAssumption DEF Stocks
  <1>4. episode \in EpisodeType /\ episode.pc = "none"
    BY <1>3 DEF EnvInit, NoEpisode, EpisodeType
  <1>5. sim \in SimType /\ sim.step = 0
    BY <1>3 DEF EnvInit, NewSim, SimType, Days
  <1>6. booked \in [row : Int, decided : Int]
    BY DEF EnvInit, NoReturn
  <1>7. testMode \in BOOLEAN
    BY DEF EnvInit
  <1> QED BY <1>2, <1>4, <1>5, <1>6, <1>7 DEF EnvIInv, TrainedWithoutLookAhead

\* Whenever an episode begins, it is where Offsets lets it, or there are no rows.
LEMMA BeginIsPlaced ==
    ASSUME NEW src \in SourceType, LongEnough(src), NEW test \in BOOLEAN,
           Begin(src, test), source' = src, testMode' \in BOOLEAN
    PROVE  EnvIInv'
  <1>1. TradingDays \in Nat \ {0}
    BY EnvAssumption
  <1>2. /\ sim' \in SimType /\ sim'.step = 0 /\ \A d \in Days : sim'.since[d] = -1
    BY <1>1 DEF Begin, NewSim, SimType
  <1>3. booked' \in [row : Int, decided : Int]
    BY DEF Begin, NoReturn
  <1>4. TrainedWithoutLookAhead'
    BY <1>2 DEF TrainedWithoutLookAhead
  <1>5. PICK s \in src.listed :
          \/ src.rows[s] = 0 /\ episode' = NoEpisode("raised", s)
          \/ /\ src.rows[s] # 0
             /\ \E o \in Offsets(src, s, test) :
                   episode' = TakeStep([pc |-> "running", stock |-> s, test |-> test,
                                        offset |-> o, step |-> 0], src.rows[s])
    BY DEF Begin
  <1>6. s \in Stocks /\ src.rows[s] \in Nat
    BY DEF SourceType
  <1>7. CASE src.rows[s] = 0 /\ episode' = NoEpisode("raised", s)
    <2>1. episode' \in EpisodeType /\ episode'.pc = "raised" /\ episode'.stock = s
      BY <1>1, <1>6, <1>7 DEF NoEpisode, EpisodeType
    <2>2. Justified(episode)'
      BY <1>1, <1>7, <2>1 DEF Justified
    <2> QED BY <1>2, <1>3, <1>4, <2>1, <2>2 DEF EnvIInv, LongEnough
  <1>8. CASE /\ src.rows[s] # 0
             /\ \E o \in Offsets(src, s, test) :
                   episode' = TakeStep([pc |-> "running", stock |-> s, test |-> test,
                                        offset |-> o, step |-> 0], src.rows[s])
    <2>1. PICK o \in Offsets(src, s, test) :
             episode' = TakeStep([pc |-> "running", stock |-> s, test |-> test,
                                  offset |-> o, step |-> 0], src.rows[s])
      BY <1>8
    <2>2. src.rows[s] >= TradingDays + 1
      BY <1>8 DEF LongEnough
    <2>3. /\ o \in Nat /\ TrainEnd(src, s) \in 1 .. src.rows[s]
          /\ HoldsOut(src, test) /\ src.rows[s] - TradingDays > TrainEnd(src, s)
                => o + TradingDays < src.rows[s]
          /\ ~HoldsOut(src, test) => o + TradingDays < src.rows[s]
      BY <1>6, <2>2, OffsetsFit
    <2> DEFINE b == [pc |-> "running", stock |-> s, test |-> test, offset |-> o, step |-> 0]
    <2>4. /\ b \in EpisodeType /\ b.stock = s /\ b.test = test /\ b.offset = o /\ b.step = 0
          /\ Row(b) = o
      BY <1>1, <1>6, <2>3 DEF EpisodeType, Row
    <2>5. CASE o < src.rows[s]
      <3>0. episode' = [b EXCEPT !.step = @ + 1,
                                 !.pc = IF b.step + 1 > TradingDays THEN "done" ELSE "running"]
        BY <2>1, <2>4, <2>5 DEF TakeStep
      <3> HIDE DEF b
      <3>1. episode' = [b EXCEPT !.step = 1, !.pc = "running"]
        <4>1. ~(b.step + 1 > TradingDays) /\ b.step + 1 = 1
          BY <1>1, <2>4
        <4> QED BY <3>0, <4>1
      <3>2. /\ episode' \in EpisodeType /\ episode'.pc = "running" /\ episode'.step = 1
            /\ episode'.stock = s /\ episode'.test = test /\ episode'.offset = o
        <4>1. 1 \in 0 .. TradingDays + 1
          BY <1>1
        <4> QED BY <2>4, <3>1, <4>1 DEF EpisodeType
      <3>3. Placed(episode)'
        BY <1>1, <1>6, <2>2, <2>3, <2>5, <3>2 DEF Placed, Row
      <3>4. InPlace(episode)'
        BY <1>2, <3>2 DEF InPlace, Days
      <3> QED BY <1>2, <1>3, <1>4, <3>2, <3>3, <3>4 DEF EnvIInv, LongEnough
    <2>6. CASE ~(o < src.rows[s])
      <3>1. episode' = [b EXCEPT !.pc = "raised"]
        BY <2>1, <2>4, <2>6 DEF TakeStep
      <3> HIDE DEF b
      <3>2. /\ episode' \in EpisodeType /\ episode'.pc = "raised"
            /\ episode'.stock = s /\ episode'.test = test
        BY <2>4, <3>1 DEF EpisodeType
      <3>3. HoldsOut(src, test) /\ src.rows[s] - TradingDays <= TrainEnd(src, s)
        BY <1>1, <1>6, <2>3, <2>6
      <3>4. Justified(episode)'
        BY <3>2, <3>3 DEF Justified, HoldsOut, TrainEnd
      <3> QED BY <1>2, <1>3, <1>4, <3>2, <3>4 DEF EnvIInv, LongEnough
    <2> QED BY <2>5, <2>6
  <1> QED BY <1>5, <1>7, <1>8

LEMMA StepIsPlaced == EnvIInv /\ Step => EnvIInv'
  <1> SUFFICES ASSUME EnvIInv, Step PROVE EnvIInv'
    OBVIOUS
  <1> DEFINE n == source.rows[episode.stock]
             e == TakeStep(episode, n)
             i == sim.step
             start == IF i = 0 THEN 0 ELSE i - 1
  <1>1. /\ episode.pc = "running" /\ source' = source /\ testMode' = testMode
        /\ source \in SourceType /\ LongEnough(source) /\ testMode \in BOOLEAN
        /\ episode \in EpisodeType /\ Placed(episode) /\ InPlace(episode)
        /\ sim \in SimType /\ booked \in [row : Int, decided : Int]
    BY DEF EnvIInv, Step
  <1>2. /\ episode.stock \in Stocks /\ n \in Nat /\ n >= TradingDays + 1
        /\ TradingDays \in Nat \ {0} /\ episode.test \in BOOLEAN
        /\ episode.offset \in Nat /\ episode.step \in 1 .. TradingDays
    BY <1>1, EnvAssumption DEF SourceType, EpisodeType, Placed
  <1>3. i = episode.step - 1 /\ i \in Days /\ i < TradingDays /\ i \in Nat
    BY <1>1, <1>2 DEF InPlace, Days
  <1>4. Row(episode) \in Nat /\ Row(episode) = episode.offset + episode.step
    BY <1>2 DEF Row
  <1>5. /\ HoldsOut(source, episode.test) /\ n - TradingDays > TrainEnd(source, episode.stock)
              => episode.offset + TradingDays < n
        /\ ~HoldsOut(source, episode.test) => episode.offset + TradingDays < n
        /\ TrainEnd(source, episode.stock) \in 1 .. n
    BY <1>1, <1>2, OffsetsFit DEF Placed
  <1>6. CASE Row(episode) < n
    <2> DEFINE pc == IF episode.step + 1 > TradingDays THEN "done" ELSE "running"
               k == episode.step + 1
    <2>0. /\ pc \in {"running", "done"} /\ k \in 0 .. TradingDays + 1
          /\ pc = "running" => k <= TradingDays
          /\ pc = "done" => k = TradingDays + 1
      BY <1>2
    <2>1. e = [episode EXCEPT !.step = k, !.pc = pc]
      BY <1>6 DEF TakeStep
    <2> HIDE DEF pc
    <2>2. /\ e \in EpisodeType /\ e.pc \in {"running", "done"} /\ e.step = episode.step + 1
          /\ e.pc = "running" => e.step <= TradingDays
          /\ e.pc = "done" => e.step = TradingDays + 1
          /\ e.stock = episode.stock /\ e.test = episode.test /\ e.offset = episode.offset
      BY <1>1, <2>0, <2>1 DEF EpisodeType
    <2>3. /\ episode' = e
          /\ booked' = [row |-> Row(episode), decided |-> sim.since[start]]
          /\ sim' = [step |-> i + 1, since |-> [sim.since EXCEPT ![i] = Row(episode) - 1]]
      BY <1>3, <2>2 DEF Step
    <2> HIDE DEF e
    <2>4. start \in Days /\ start \in Nat
      <3> HIDE DEF i
      <3> QED BY <1>2, <1>3 DEF Days
    <2>5. /\ sim' \in SimType /\ sim'.step = i + 1
          /\ \A d \in Days : sim'.since[d] = IF d = i THEN Row(episode) - 1 ELSE sim.since[d]
      BY <1>1, <1>2, <1>3, <1>4, <2>3 DEF SimType
    <2>6. Placed(episode)'
      <3>1. Row(episode') = episode.offset + episode.step + 1
        BY <1>2, <2>2, <2>3 DEF Row
      <3>2. Offsets(source, episode.stock, episode.test)' = Offsets(source, episode.stock, episode.test)
        BY <1>1, <2>2, <2>3
      <3> QED BY <1>1, <1>2, <1>4, <1>6, <2>2, <2>3, <3>1, <3>2 DEF Placed
    <2>7. InPlace(episode)'
      <3>1. \A d \in Days : sim.since[d] = IF d < i THEN episode.offset + d ELSE -1
        BY <1>1 DEF InPlace
      <3>2. Row(episode) - 1 = episode.offset + i
        BY <1>2, <1>3, <1>4
      <3> QED BY <1>2, <1>3, <2>2, <2>3, <2>5, <3>1, <3>2 DEF InPlace, Days
    <2>8. booked' \in [row : Int, decided : Int] /\ booked'.row = Row(episode)
          /\ booked'.decided = sim.since[start]
      BY <1>1, <1>4, <2>3, <2>4 DEF SimType
    <2>9. TrainedWithoutLookAhead'
      <3>1. sim.since[start] = IF start < i THEN episode.offset + start ELSE -1
        BY <1>1, <2>4 DEF InPlace
      <3> QED BY <1>2, <1>3, <1>4, <2>2, <2>3, <2>5, <2>8, <3>1 DEF TrainedWithoutLookAhead
    <2> QED BY <1>1, <2>2, <2>3, <2>5, <2>6, <2>7, <2>8, <2>9 DEF EnvIInv, LongEnough
  <1>7. CASE ~(Row(episode) < n)
    <2>1. e = [episode EXCEPT !.pc = "raised"] /\ e.pc = "raised"
      BY <1>1, <1>7 DEF TakeStep, EpisodeType
    <2>2. episode' = [episode EXCEPT !.pc = "raised"] /\ sim' = sim /\ booked' = booked
      BY <2>1 DEF Step
    <2>3. /\ episode' \in EpisodeType /\ episode'.pc = "raised"
          /\ episode'.stock = episode.stock /\ episode'.test = episode.test
          /\ episode'.offset = episode.offset
      BY <1>1, <2>2 DEF EpisodeType
    <2>4. HoldsOut(source, episode.test) /\ n - TradingDays <= TrainEnd(source, episode.stock)
      BY <1>2, <1>4, <1>5, <1>7
    <2>5. Justified(episode)'
      BY <1>1, <2>3, <2>4 DEF Justified, HoldsOut, TrainEnd
    <2>6. TrainedWithoutLookAhead'
      BY <2>2, <2>3 DEF EnvIInv, TrainedWithoutLookAhead
    <2> QED BY <1>1, <2>2, <2>3, <2>5, <2>6 DEF EnvIInv, LongEnough
  <1> QED BY <1>6, <1>7

LEMMA EnvMoves == EnvIInv /\ EnvStep => EnvIInv'
  <1> SUFFICES ASSUME EnvIInv, EnvStep PROVE EnvIInv'
    OBVIOUS
  <1>0. TradingDays \in Nat \ {0} /\ 1 \in Stocks /\ MaxRows \in Nat
    BY EnvAssumption DEF Stocks
  <1>1. ASSUME NEW rows \in [Stocks -> 0 .. MaxRows], NEW q \in Ratios, Construct(rows, q)
        PROVE  EnvIInv'
    <2> DEFINE src == [rows |-> rows, ratio |-> q, listed |-> Listed(rows)]
    <2>1. src \in SourceType /\ LongEnough(src) /\ src.rows = rows
      BY <1>0 DEF SourceType, LongEnough, Listed
    <2>2. /\ source' = src /\ testMode' = FALSE /\ episode.pc = "none"
          /\ \/ Begin(src, FALSE)
             \/ /\ \E s \in Stocks : rows[s] <= TradingDays /\ episode' = NoEpisode("raised", s)
                /\ UNCHANGED <<sim, booked>>
      BY <1>1 DEF Construct
    <2> HIDE DEF src
    <2>3. CASE Begin(src, FALSE)
      BY <2>1, <2>2, <2>3, BeginIsPlaced
    <2>4. CASE /\ \E s \in Stocks : rows[s] <= TradingDays /\ episode' = NoEpisode("raised", s)
               /\ UNCHANGED <<sim, booked>>
      <3>1. PICK s \in Stocks : rows[s] <= TradingDays /\ episode' = NoEpisode("raised", s)
        BY <2>4
      <3>2. episode' \in EpisodeType /\ episode'.pc = "raised" /\ episode'.stock = s
        BY <1>0, <3>1 DEF NoEpisode, EpisodeType
      <3>3. Justified(episode)'
        BY <2>1, <2>2, <3>1, <3>2 DEF Justified
      <3>4. /\ sim.step = 0 /\ sim' = sim /\ booked' = booked /\ sim \in SimType
            /\ booked \in [row : Int, decided : Int]
        BY <2>2, <2>4 DEF EnvIInv
      <3>5. TrainedWithoutLookAhead'
        BY <3>4 DEF TrainedWithoutLookAhead
      <3>6. source' \in SourceType /\ LongEnough(source') /\ testMode' \in BOOLEAN
        BY <2>1, <2>2
      <3> QED BY <3>2, <3>3, <3>4, <3>5, <3>6 DEF EnvIInv, LongEnough
    <2> QED BY <2>2, <2>3, <2>4
  <1>2. ASSUME NEW enabled \in BOOLEAN, SetTestMode(enabled)
        PROVE  EnvIInv'
    BY <1>2 DEF SetTestMode, EnvIInv, LongEnough, Placed, Row, Offsets, TrainEnd, HoldsOut,
                Justified, InPlace, TrainedWithoutLookAhead
  <1>3. CASE Reset
    <2>1. /\ source \in SourceType /\ LongEnough(source) /\ testMode \in BOOLEAN
          /\ source' = source /\ testMode' = testMode /\ Begin(source, testMode)
      BY <1>3 DEF Reset, EnvIInv
    <2> QED BY <2>1, BeginIsPlaced
  <1>4. CASE Step
    BY <1>4, StepIsPlaced
  <1>5. CASE Discard
    <2>1. source' \in SourceType /\ LongEnough(source')
      BY <1>5 DEF Discard, EnvIInv, NoSource, SourceType, LongEnough
    <2>2. episode' \in EpisodeType /\ episode'.pc = "none"
      BY <1>0, <1>5 DEF Discard, NoEpisode, EpisodeType
    <2>3. sim' \in SimType /\ sim'.step = 0
      BY <1>0, <1>5 DEF Discard, NewSim, SimType, Days
    <2>4. booked' \in [row : Int, decided : Int]
      BY <1>5 DEF Discard, NoReturn
    <2>5. testMode' \in BOOLEAN
      BY <1>5 DEF Discard
    <2> QED BY <2>1, <2>2, <2>3, <2>4, <2>5 DEF EnvIInv, LongEnough, TrainedWithoutLookAhead
  <1> QED BY <1>1, <1>2, <1>3, <1>4, <1>5 DEF EnvStep

-----------------------------------------------------------------------------
(* The inductive invariant of the engine.                                  *)

\* A generator that is drawn from is where the run is; a run never counts a
\* bar it has no return for.
InRun ==
    /\ task.pc = "running" => run.rows >= 2 /\ run.bar <= run.rows - 1
    /\ run.bar > 0 => run.bar <= run.rows - 1 /\ earned.row = run.bar /\ earned.decided = run.bar - 1
    /\ task.pc = "running" => task.symbol <= NTested

EngineIInv == EngineTypes /\ InRun /\ BooksBalance /\ Reproducible

LEMMA EngineStarts == EngineInit => EngineIInv
  <1> SUFFICES ASSUME EngineInit PROVE EngineIInv
    OBVIOUS
  <1>1. NTested \in Nat
    BY EngineAssumption
  <1>2. EngineTypes
    BY <1>1 DEF EngineInit, EngineTypes, NoTask, NewRun, NoEarned
  <1>3. InRun /\ BooksBalance /\ Reproducible
    BY <1>1 DEF EngineInit, InRun, BooksBalance, Reproducible, NoTask, NewRun
  <1> QED BY <1>2, <1>3 DEF EngineIInv

\* Two units are as good as none, as far as the position's parity goes.
LEMMA ParityStays ==
    ASSUME NEW u \in Nat, NEW p \in {-1, 0, 1}, NEW q \in {-1, 0, 1}, (u - p) % 2 = 0
    PROVE  (u + Distance(q, p) - q) % 2 = 0
  BY DEF Distance

LEMMA CountBalances ==
    ASSUME EngineIInv, NEW q \in {-1, 0, 1}, run' = Count(run, q)
    PROVE  /\ run' \in [rows : Nat, bar : Nat, position : {-1, 0, 1},
                        changes : Nat, units : Nat, carries : Nat]
           /\ run'.rows = run.rows /\ run'.bar = run.bar + 1
           /\ run'.changes + run'.carries = run'.bar
           /\ run'.changes <= run'.units /\ run'.units <= 2 * run'.changes
           /\ run'.position <= run'.units /\ -run'.position <= run'.units
           /\ (run'.units - run'.position) % 2 = 0
  <1>1. /\ run \in [rows : Nat, bar : Nat, position : {-1, 0, 1},
                    changes : Nat, units : Nat, carries : Nat]
        /\ run.changes + run.carries = run.bar
        /\ run.changes <= run.units /\ run.units <= 2 * run.changes
        /\ run.position <= run.units /\ -run.position <= run.units
        /\ (run.units - run.position) % 2 = 0
    BY DEF EngineIInv, EngineTypes, BooksBalance
  <1> DEFINE p == run.position
             c == run.changes + (IF q # p THEN 1 ELSE 0)
             u == run.units + Distance(q, p)
             k == run.carries + (IF q = p THEN 1 ELSE 0)
  <1>2. /\ p \in {-1, 0, 1} /\ run.units \in Nat /\ run.changes \in Nat
        /\ run.carries \in Nat /\ run.bar \in Nat
    BY <1>1
  <1>3. /\ Distance(q, p) \in {0, 1, 2} /\ (Distance(q, p) = 0 <=> q = p)
        /\ q <= p + Distance(q, p) /\ -q <= -p + Distance(q, p)
    BY <1>2 DEF Distance
  <1>4. /\ run'.rows = run.rows /\ run'.bar = run.bar + 1 /\ run'.position = q
        /\ run'.changes = c /\ run'.units = u /\ run'.carries = k
    BY <1>1, <1>2 DEF Count
  <1>5. run' \in [rows : Nat, bar : Nat, position : {-1, 0, 1},
                  changes : Nat, units : Nat, carries : Nat]
    <2>1. /\ u \in Nat /\ run.bar + 1 \in Nat /\ run.changes + 1 \in Nat /\ run.carries + 1 \in Nat
      BY <1>2, <1>3
    <2> HIDE DEF p
    <2> QED BY <1>1, <1>2, <2>1 DEF Count, p
  <1>6. (u - q) % 2 = 0
    <2> DEFINE d == Distance(q, p)
               v == run.units
    <2>1. (v - p) % 2 = 0 /\ v \in Nat /\ p \in {-1, 0, 1}
      BY <1>1, <1>2
    <2>2. d \in Int /\ u = v + d
      BY <1>2 DEF Distance
    <2> HIDE DEF p, v
    <2>3. (v + d - q) % 2 = 0
      BY <2>1, ParityStays
    <2> HIDE DEF d, u
    <2> QED BY <2>1, <2>2, <2>3
  <1>7. c + k = run.bar + 1 /\ c <= u /\ u <= 2 * c /\ q <= u /\ -q <= u
    <2> HIDE DEF p
    <2>1. q <= u /\ -q <= u
      BY <1>1, <1>2, <1>3 DEF p
    <2> QED BY <1>1, <1>2, <1>3, <2>1
  <1> QED BY <1>4, <1>5, <1>6, <1>7

LEMMA EngineMoves == EngineIInv /\ EngineStep => EngineIInv'
  <1> SUFFICES ASSUME EngineIInv, EngineStep PROVE EngineIInv'
    OBVIOUS
  <1>0. /\ NTested \in Nat /\ MaxBars \in Nat
        /\ task \in [pc : {"idle", "next", "running", "completed", "failed"},
                     symbol : 1 .. NTested + 1, scored : Nat, blank : Nat, skipped : Nat]
        /\ engine \in [seeded : BOOLEAN, random : BOOLEAN, rng : Nat]
        /\ earned \in [row : Int, decided : Int]
        /\ EngineTypes /\ InRun /\ BooksBalance /\ Reproducible
    BY EngineAssumption DEF EngineIInv, EngineTypes
  <1>1. ASSUME NEW seeded \in BOOLEAN, NEW random \in BOOLEAN, StartTask(seeded, random)
        PROVE  EngineIInv'
    <2>1. /\ task' = [task EXCEPT !.pc = "next"] /\ run' = run /\ earned' = earned
          /\ engine' \in [seeded : BOOLEAN, random : BOOLEAN, rng : Nat]
      BY <1>1 DEF StartTask
    <2>2. EngineTypes'
      BY <1>0, <2>1 DEF EngineTypes
    <2>3. task'.pc = "next"
      BY <1>0, <2>1
    <2> QED BY <1>0, <2>1, <2>2, <2>3 DEF EngineIInv, InRun, BooksBalance, Reproducible
  <1>2. CASE SkipSymbol \/ RunRaises \/ Aggregate \/ EndRun
    <2>1. /\ engine' = engine /\ run' = run /\ earned' = earned
      BY <1>2 DEF SkipSymbol, RunRaises, Aggregate, EndRun
    <2>2. /\ task' \in [pc : {"idle", "next", "running", "completed", "failed"},
                        symbol : 1 .. NTested + 1, scored : Nat, blank : Nat, skipped : Nat]
          /\ task'.pc # "running"
      <3>1. CASE SkipSymbol
        <4> DEFINE k == task.symbol + 1
                   m == task.skipped + 1
        <4>1. /\ task' = [task EXCEPT !.symbol = k, !.skipped = m] /\ task.pc = "next"
              /\ k \in 1 .. NTested + 1 /\ m \in Nat
          BY <1>0, <3>1 DEF SkipSymbol
        <4> HIDE DEF k, m
        <4> QED BY <1>0, <4>1
      <3>2. CASE RunRaises
        BY <1>0, <3>2 DEF RunRaises
      <3>3. CASE Aggregate
        BY <1>0, <3>3 DEF Aggregate
      <3>4. CASE EndRun
        <4>1. /\ task' = [task EXCEPT !.pc = "next", !.symbol = @ + 1, !.scored = @ + 1]
              /\ task.symbol <= NTested
          BY <1>0, <3>4 DEF EndRun, InRun
        <4>2. task.symbol + 1 \in 1 .. NTested + 1 /\ task.scored + 1 \in Nat
          BY <1>0, <4>1
        <4> DEFINE k == task.symbol + 1
                   m == task.scored + 1
        <4>3. /\ task' = [task EXCEPT !.pc = "next", !.symbol = k, !.scored = m]
              /\ k \in 1 .. NTested + 1 /\ m \in Nat
          BY <4>1, <4>2
        <4> HIDE DEF k, m
        <4> QED BY <1>0, <4>3
      <3> QED BY <1>2, <3>1, <3>2, <3>3, <3>4
    <2>3. EngineTypes'
      BY <1>0, <2>1, <2>2 DEF EngineTypes
    <2> QED BY <1>0, <2>1, <2>2, <2>3 DEF EngineIInv, InRun, BooksBalance, Reproducible
  <1>3. CASE EndTask
    <2>1. /\ task' = NoTask /\ run' = NewRun(0) /\ earned' = NoEarned
          /\ engine' = [seeded |-> FALSE, random |-> FALSE, rng |-> 0]
      BY <1>3 DEF EndTask
    <2>2. EngineTypes'
      BY <1>0, <2>1 DEF EngineTypes, NoTask, NewRun, NoEarned
    <2>3. InRun' /\ BooksBalance' /\ Reproducible'
      BY <1>0, <2>1 DEF InRun, BooksBalance, Reproducible, NoTask, NewRun
    <2> QED BY <2>2, <2>3 DEF EngineIInv
  <1>4. ASSUME NEW n \in 0 .. MaxBars, BeginRun(n) PROVE EngineIInv'
    <2>1. /\ engine' = IF engine.seeded THEN [engine EXCEPT !.rng = 0] ELSE engine
          /\ run' = NewRun(n) /\ earned' = NoEarned
          /\ task' = IF n < 2 THEN [task EXCEPT !.symbol = @ + 1, !.blank = @ + 1]
                     ELSE [task EXCEPT !.pc = "running"]
          /\ task.pc = "next" /\ task.symbol <= NTested
      BY <1>4 DEF BeginRun
    <2>2. n \in Nat
      BY <1>0
    <2>3. /\ engine' \in [seeded : BOOLEAN, random : BOOLEAN, rng : Nat]
          /\ engine'.seeded => engine'.rng = 0
      BY <1>0, <2>1
    <2>4. /\ task' \in [pc : {"idle", "next", "running", "completed", "failed"},
                        symbol : 1 .. NTested + 1, scored : Nat, blank : Nat, skipped : Nat]
          /\ task'.pc = "running" => n >= 2 /\ task'.symbol <= NTested
      <3>1. CASE n < 2
        <4> DEFINE k == task.symbol + 1
                   m == task.blank + 1
        <4>1. /\ task' = [task EXCEPT !.symbol = k, !.blank = m]
              /\ k \in 1 .. NTested + 1 /\ m \in Nat
          BY <1>0, <2>1, <3>1
        <4> HIDE DEF k, m
        <4> QED BY <1>0, <2>1, <4>1
      <3>2. CASE ~(n < 2)
        <4>1. task' = [task EXCEPT !.pc = "running"]
          BY <2>1, <3>2
        <4> QED BY <1>0, <2>1, <2>2, <3>2, <4>1
      <3> QED BY <3>1, <3>2
    <2>5. /\ run' \in [rows : Nat, bar : Nat, position : {-1, 0, 1},
                       changes : Nat, units : Nat, carries : Nat]
          /\ run'.rows = n /\ run'.bar = 0 /\ run'.position = 0
          /\ run'.changes = 0 /\ run'.units = 0 /\ run'.carries = 0
      BY <2>1, <2>2 DEF NewRun
    <2>6. EngineTypes'
      BY <2>1, <2>3, <2>4, <2>5 DEF EngineTypes, NoEarned
    <2>7. InRun' /\ BooksBalance' /\ Reproducible'
      BY <1>0, <2>2, <2>3, <2>4, <2>5 DEF InRun, BooksBalance, Reproducible
    <2> QED BY <2>6, <2>7 DEF EngineIInv
  <1>5. ASSUME NEW action \in 0 .. 2, Decide(action) PROVE EngineIInv'
    <2>1. /\ task.pc = "running" /\ run.bar < run.rows - 1 /\ task' = task
          /\ engine' = IF engine.random THEN [engine EXCEPT !.rng = @ + 1] ELSE engine
          /\ run' = Count(run, action - 1)
          /\ earned' = [row |-> run.bar + 1, decided |-> run.bar]
      BY <1>5 DEF Decide
    <2>2. action - 1 \in {-1, 0, 1}
      OBVIOUS
    <2>3. /\ run' \in [rows : Nat, bar : Nat, position : {-1, 0, 1},
                       changes : Nat, units : Nat, carries : Nat]
          /\ run'.rows = run.rows /\ run'.bar = run.bar + 1
          /\ run'.changes + run'.carries = run'.bar
          /\ run'.changes <= run'.units /\ run'.units <= 2 * run'.changes
          /\ run'.position <= run'.units /\ -run'.position <= run'.units
          /\ (run'.units - run'.position) % 2 = 0
      BY <2>1, <2>2, CountBalances
    <2>4. /\ run.bar \in Nat /\ run.rows \in Nat
          /\ earned' \in [row : Int, decided : Int]
          /\ earned'.row = run.bar + 1 /\ earned'.decided = run.bar
      BY <1>0, <2>1 DEF EngineTypes
    <2>5. /\ engine' \in [seeded : BOOLEAN, random : BOOLEAN, rng : Nat]
          /\ engine'.seeded = engine.seeded /\ engine'.random = engine.random
          /\ engine'.random => engine'.rng = engine.rng + 1
      BY <1>0, <2>1
    <2>6. EngineTypes'
      BY <1>0, <2>1, <2>3, <2>4, <2>5 DEF EngineTypes
    <2>7. InRun'
      BY <1>0, <2>1, <2>3, <2>4 DEF InRun
    <2>8. BooksBalance'
      BY <2>1, <2>3, <2>4 DEF BooksBalance
    <2>9. Reproducible'
      BY <1>0, <2>1, <2>3, <2>5 DEF Reproducible
    <2> QED BY <2>6, <2>7, <2>8, <2>9 DEF EngineIInv
  <1> QED BY <1>1, <1>2, <1>3, <1>4, <1>5 DEF EngineStep

-----------------------------------------------------------------------------
(* The two together.                                                       *)

LEMMA EnvStutters == EnvIInv /\ UNCHANGED envVars => EnvIInv'
  BY DEF EnvIInv, envVars, LongEnough, Placed, Row, Offsets, TrainEnd, HoldsOut, Justified,
         InPlace, TrainedWithoutLookAhead

LEMMA EngineStutters == EngineIInv /\ UNCHANGED engineVars => EngineIInv'
  BY DEF EngineIInv, engineVars, EngineTypes, InRun, BooksBalance, Reproducible

LEMMA Invariants == Spec => [](EnvIInv /\ EngineIInv)
  <1>1. Init => EnvIInv /\ EngineIInv
    BY EnvStarts, EngineStarts DEF Init
  <1>2. EnvIInv /\ EngineIInv /\ [Next]_vars => EnvIInv' /\ EngineIInv'
    BY EnvMoves, EngineMoves, EnvStutters, EngineStutters DEF Next, vars
  <1> QED BY <1>1, <1>2, PTL DEF Spec

\* Environment and engine keep to the states the code gives them: the arrays of
\* the simulator are never overrun (TradingSimulator.take_step).
THEOREM EpisodeTypes == Spec => []TypeOK
  <1>1. EnvIInv => EnvTypes
    BY DEF EnvIInv, EnvTypes, SourceType, EpisodeType, SimType
  <1>2. EngineIInv => EngineTypes
    BY DEF EngineIInv
  <1> QED BY <1>1, <1>2, Invariants, PTL DEF TypeOK

\* Training keeps off the held-out rows and tests keep to them, for any split
\* and any episode length (DataSource.reset and take_step).
THEOREM EpisodesKeepToPortions == Spec => []EpisodeInPortion
  <1>1. EnvIInv => EpisodeInPortion
    <2> SUFFICES ASSUME EnvIInv PROVE EpisodeInPortion
      OBVIOUS
    <2> DEFINE n == source.rows[episode.stock]
               t == TrainEnd(source, episode.stock)
               held == HoldsOut(source, episode.test)
    <2>1. CASE episode.pc \in {"running", "done"}
      <3>1. /\ source \in SourceType /\ episode \in EpisodeType /\ Placed(episode)
        BY <2>1 DEF EnvIInv
      <3>2. /\ episode.offset \in Nat /\ n \in Nat /\ t \in 1 .. n /\ TradingDays \in Nat
            /\ held => episode.offset >= t
            /\ ~held /\ t > TradingDays => episode.offset + TradingDays < t
        BY <3>1, OffsetsFit DEF Placed, EpisodeType
      <3>3. /\ Row(episode) <= n /\ Row(episode) = episode.offset + episode.step
            /\ episode.step \in 0 .. TradingDays + 1
        BY <3>1 DEF Placed, EpisodeType, Row
      <3> HIDE DEF n, t, held
      <3>4. /\ held => episode.offset >= t /\ Row(episode) <= n
            /\ ~held /\ t > TradingDays => Row(episode) <= t
        BY <3>2, <3>3
      <3> QED BY <2>1, <3>4 DEF EpisodeInPortion, n, t, held
    <2>2. CASE episode.pc \notin {"running", "done"}
      BY <2>2 DEF EnvIInv, Justified, EpisodeInPortion
    <2> QED BY <2>1, <2>2
  <1> QED BY <1>1, Invariants, PTL

\* Neither training nor testing pays a decision with a return known when it was
\* taken (TradingSimulator.take_step, BacktestEngine.run).
THEOREM NothingLooksAhead == Spec => []NoLookAhead
  <1>1. EnvIInv => TrainedWithoutLookAhead
    BY DEF EnvIInv
  <1>2. EngineIInv => TestedWithoutLookAhead
    BY DEF EngineIInv, EngineTypes, InRun, TestedWithoutLookAhead
  <1> QED BY <1>1, <1>2, Invariants, PTL DEF NoLookAhead

\* The counts of a backtest agree with each other, for any run of any length.
THEOREM BooksAlwaysBalance == Spec => []BooksBalance
  <1>1. EngineIInv => BooksBalance
    BY DEF EngineIInv
  <1> QED BY <1>1, Invariants, PTL

\* A seeded engine draws the same for every symbol, whatever it ran before.
THEOREM RunsAreReproducible == Spec => []Reproducible
  <1>1. EngineIInv => Reproducible
    BY DEF EngineIInv
  <1> QED BY <1>1, Invariants, PTL

-----------------------------------------------------------------------------
(* An episode and a report, step by step.                                  *)

\* DataSource and TradingSimulator count on their own and stay in step: the
\* arrays have a place for every row of an episode, the places of the rows so
\* far hold decisions of this very episode, and when it is done, all do.
EpisodeFillsArrays ==
    /\ episode.pc = "running" => sim.step < TradingDays
    /\ episode.pc = "done" => sim.step = TradingDays
    /\ episode.pc \in {"running", "done"} =>
          \A d \in Days : sim.since[d] = IF d < sim.step THEN episode.offset + d ELSE -1

\* The two counters never part, for any number of trading days and whatever
\* the episodes before left in the arrays.
THEOREM EpisodesFillArrays == Spec => []EpisodeFillsArrays
  <1>1. ASSUME EnvIInv PROVE EpisodeFillsArrays
    <2>1. /\ TradingDays \in Nat \ {0} /\ episode.step \in 0 .. TradingDays + 1
          /\ episode.offset \in Nat /\ sim.step \in 0 .. TradingDays
      BY <1>1, EnvAssumption DEF EnvIInv, EpisodeType, SimType
    <2>2. CASE episode.pc \in {"running", "done"}
      <3>1. Placed(episode) /\ InPlace(episode)
        BY <1>1, <2>2 DEF EnvIInv
      <3> QED BY <2>1, <2>2, <3>1 DEF EpisodeFillsArrays, Placed, InPlace
    <2> QED BY <2>2 DEF EpisodeFillsArrays
  <1> QED BY <1>1, Invariants, PTL

\* Each symbol that a report is past was measured, answered {} or passed over
\* for fewer than 22 rows, one of the three and once.  When it completes, every
\* symbol is measured or passed over, at least one is measured, and how many
\* are not is NTested less those that are: the averages may stand for a single
\* symbol, but never for one that was answered {}.
ReportIsMeasured ==
    /\ task.scored + task.blank + task.skipped = task.symbol - 1
    /\ task.pc = "completed" =>
          task.scored > 0 /\ task.blank = 0 /\ task.scored + task.skipped = NTested

\* A report that is under way goes to the next symbol, into a run, to the next
\* of the run's bars, or to its end; there is no other way for it to go.
ReportGoesForward ==
    task.pc \in {"next", "running"} /\ <<task, run>>' # <<task, run>> =>
        \/ task'.pc \in {"completed", "failed"}
        \/ task'.pc = "next" /\ task'.symbol = task.symbol + 1 /\ task.symbol <= NTested
        \/ task.pc = "next" /\ task'.pc = "running" /\ task'.symbol = task.symbol
        \/ /\ task.pc = "running" /\ task' = task
           /\ run'.bar = run.bar + 1 /\ run'.rows = run.rows /\ run'.bar < run'.rows

\* What a step does to the counts of a report.
CountsAs(pcs, scores, blanks, skips) ==
    /\ task'.pc \in pcs /\ task'.symbol = task.symbol + scores + blanks + skips
    /\ task'.scored = task.scored + scores /\ task'.blank = task.blank + blanks
    /\ task'.skipped = task.skipped + skips

TaskMoves ==
    \/ task' = task /\ run' = run
    \/ task.pc \in {"idle", "completed", "failed"} /\ (task' = NoTask \/ CountsAs({"next"}, 0, 0, 0))
    \/ /\ task.pc = "next" /\ task.symbol <= NTested
       /\ \/ CountsAs({"next"}, 0, 0, 1) \/ CountsAs({"next"}, 0, 1, 0)
          \/ CountsAs({"running"}, 0, 0, 0)
    \/ /\ task.pc = "running"
       /\ \/ CountsAs({"next"}, 1, 0, 0) /\ task.symbol <= NTested
          \/ CountsAs({"failed"}, 0, 0, 0)
          \/ task' = task /\ run'.bar = run.bar + 1 /\ run'.rows = run.rows /\ run'.bar < run'.rows
    \/ /\ task.pc = "next" /\ task.symbol = NTested + 1
       /\ \/ CountsAs({"failed"}, 0, 0, 0)
          \/ task.scored > 0 /\ task.blank = 0 /\ CountsAs({"completed"}, 0, 0, 0)

LEMMA EngineTaskMoves ==
    ASSUME EngineIInv, EngineStep
    PROVE  TaskMoves
  <1>0. /\ NTested \in Nat /\ MaxBars \in Nat
        /\ task \in [pc : {"idle", "next", "running", "completed", "failed"},
                     symbol : 1 .. NTested + 1, scored : Nat, blank : Nat, skipped : Nat]
        /\ InRun
    BY EngineAssumption DEF EngineIInv, EngineTypes
  <1>1. ASSUME NEW seeded \in BOOLEAN, NEW random \in BOOLEAN, StartTask(seeded, random)
        PROVE  TaskMoves
    BY <1>0, <1>1 DEF StartTask, TaskMoves, CountsAs
  <1>2. CASE SkipSymbol
    BY <1>0, <1>2 DEF SkipSymbol, TaskMoves, CountsAs
  <1>3. CASE RunRaises
    BY <1>0, <1>3 DEF RunRaises, TaskMoves, CountsAs
  <1>4. CASE Aggregate
    BY <1>0, <1>4 DEF Aggregate, TaskMoves, CountsAs
  <1>5. CASE EndRun
    BY <1>0, <1>5 DEF EndRun, InRun, TaskMoves, CountsAs
  <1>6. CASE EndTask
    BY <1>0, <1>6 DEF EndTask, TaskMoves
  <1>7. ASSUME NEW n \in 0 .. MaxBars, BeginRun(n) PROVE TaskMoves
    BY <1>0, <1>7 DEF BeginRun, TaskMoves, CountsAs
  <1>8. ASSUME NEW action \in 0 .. 2, Decide(action) PROVE TaskMoves
    <2>1. /\ task.pc = "running" /\ run.bar < run.rows - 1 /\ task' = task
          /\ run' = Count(run, action - 1)
      BY <1>8 DEF Decide
    <2>2. action - 1 \in {-1, 0, 1}
      OBVIOUS
    <2>3. run'.bar = run.bar + 1 /\ run'.rows = run.rows
      BY <2>1, <2>2, CountBalances
    <2>4. run.bar \in Nat /\ run.rows \in Nat
      BY DEF EngineIInv, EngineTypes
    <2> QED BY <2>1, <2>3, <2>4 DEF TaskMoves
  <1> QED BY <1>1, <1>2, <1>3, <1>4, <1>5, <1>6, <1>7, <1>8 DEF EngineStep

LEMMA NextTaskMoves ==
    ASSUME EngineIInv, [Next]_vars
    PROVE  TaskMoves
  <1>1. ASSUME UNCHANGED engineVars PROVE TaskMoves
    BY <1>1 DEF engineVars, TaskMoves
  <1> QED BY <1>1, EngineTaskMoves DEF Next, vars

\* No symbol is counted twice in a report or left uncounted, and one whose run
\* came to nothing keeps the report from completing, for any number of symbols.
THEOREM ReportsAreMeasured == Spec => []ReportIsMeasured
  <1>1. Init => ReportIsMeasured
    BY DEF Init, EngineInit, NoTask, ReportIsMeasured
  <1>2. ASSUME EngineIInv, ReportIsMeasured, [Next]_vars PROVE ReportIsMeasured'
    <2>1. /\ NTested \in Nat /\ task.symbol \in Nat /\ task.scored \in Nat /\ task.blank \in Nat
          /\ task.skipped \in Nat /\ TaskMoves
      BY <1>2, EngineAssumption, NextTaskMoves DEF EngineIInv, EngineTypes
    <2>2. CASE task' = task
      BY <1>2, <2>2 DEF ReportIsMeasured
    <2>3. CASE task' = NoTask
      BY <2>3 DEF ReportIsMeasured, NoTask
    <2>4. CASE task' # task /\ task' # NoTask
      BY <1>2, <2>1, <2>4 DEF ReportIsMeasured, TaskMoves, CountsAs
    <2> QED BY <2>2, <2>3, <2>4
  <1> QED BY <1>1, <1>2, Invariants, PTL DEF Spec

\* A report cannot go round for ever: symbols, and the bars of a symbol's run,
\* are each taken once, in their order.
THEOREM ReportsGoForward == Spec => [][ReportGoesForward]_vars
  <1>1. ASSUME EngineIInv, [Next]_vars PROVE ReportGoesForward
    <2>1. /\ NTested \in Nat /\ task.symbol \in Nat /\ TaskMoves
      BY <1>1, EngineAssumption, NextTaskMoves DEF EngineIInv, EngineTypes
    <2> QED BY <2>1 DEF ReportGoesForward, TaskMoves, CountsAs
  <1> QED BY <1>1, Invariants, PTL DEF Spec
=============================================================================
