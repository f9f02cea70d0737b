------------------------------ MODULE TradingEnv ------------------------------
(***************************************************************************)
(* rl-train/trading_env.py: the environment that a policy is trained in.   *)
(* DataSource keeps the rows of every stock, split by date into a training *)
(* and a held-out portion, and gives them out one by one from a random     *)
(* offset; TradingSimulator books what the position of the step before     *)
(* earns, in arrays with a place for each trading day.  The notebook that  *)
(* trains on Kaggle (kaggle/notebooks/alpaca-rl-training.ipynb) holds a    *)
(* copy of the three classes, which this module describes as well.         *)
(*                                                                         *)
(* A row is its index.  What a position is does not matter here, only the  *)
(* row that was seen when it was decided; costs and net asset values       *)
(* follow from what is booked.                                             *)
(*                                                                         *)
(* Operators named Mutant... are slips of the definition that follows them *)
(* and are used by no definition.                                          *)
(***************************************************************************)
EXTENDS Integers

CONSTANTS NStocks,     \* stocks in the data frame, in the order of their symbols
          TradingDays, \* trading_days
          Ratios,      \* values of train_ratio, as fractions
          MaxRows      \* bound on the rows of a stock after preprocessing

ASSUME EnvAssumption ==
    /\ NStocks \in Nat \ {0} /\ TradingDays \in Nat \ {0} /\ MaxRows \in Nat
    /\ \A q \in Ratios : q.num \in Nat \ {0} /\ q.den \in Nat /\ q.num <= q.den

VARIABLES source,   \* DataSource: rows left of each stock, train_ratio, _symbols
          testMode, \* _test_mode
          episode,  \* the stock, portion and row the environment is at
          sim,      \* TradingSimulator: its step, and for each place of the
                    \* position array the row the position was decided on
          booked    \* the latest return: its row, and the one it was decided on

envVars == <<source, testMode, episode, sim, booked>>

Stocks == 1 .. NStocks
Days   == 0 .. TradingDays - 1

EnvTypes ==
    /\ source.rows \in [Stocks -> Nat] /\ source.ratio \in Ratios
    /\ source.listed \subseteq Stocks
    /\ testMode \in BOOLEAN
    /\ episode \in [pc : {"none", "running", "done", "raised"}, stock : Stocks,
                    test : BOOLEAN, offset : Nat, step : 0 .. TradingDays + 1]
    /\ sim.step \in 0 .. TradingDays /\ sim.since \in [Days -> Int]
    /\ booked.row \in Int /\ booked.decided \in Int

NoEpisode(pc, s) == [pc |-> pc, stock |-> s, test |-> FALSE, offset |-> 0, step |-> 0]
NewSim    == [step |-> 0, since |-> [d \in Days |-> -1]]
NoReturn  == [row |-> -1, decided |-> -1]
NoSource(q) == [rows |-> [s \in Stocks |-> 0], ratio |-> q, listed |-> {}]

EnvInit ==
    /\ \E q \in Ratios : source = NoSource(q)
    /\ testMode = FALSE
    /\ episode = NoEpisode("none", 1)
    /\ sim = NewSim
    /\ booked = NoReturn

-----------------------------------------------------------------------------
(* DataSource                                                              *)

\* The first row that is held out; int(n * ratio) of the exact product.
TrainEnd(src, s) ==
    LET k == (src.rows[s] * src.ratio.num) \div src.ratio.den
    IN  IF k < 1 THEN 1 ELSE k

HoldsOut(src, test) == test /\ src.ratio.num < src.ratio.den

\* The last row of the training portion is not kept for its return.
MutantOffsets(src, s, test) ==
    LET low  == IF HoldsOut(src, test) THEN TrainEnd(src, s) ELSE 0
        high == (IF HoldsOut(src, test) THEN src.rows[s] ELSE TrainEnd(src, s) + 1) - TradingDays
    IN  low .. IF high - 1 < low THEN low ELSE high - 1

\* What randint(low, max(high, low + 1)) may draw.
Offsets(src, s, test) ==
    LET low  == IF HoldsOut(src, test) THEN TrainEnd(src, s) ELSE 0
        high == (IF HoldsOut(src, test) THEN src.rows[s] ELSE TrainEnd(src, s)) - TradingDays
    IN  low .. IF high - 1 < low THEN low ELSE high - 1

\* A stock with no row at all has no entry to be found too short, and stays.
Listed(rows) == {s \in Stocks : rows[s] = 0 \/ rows[s] >= TradingDays + 1}

Row(e) == e.offset + e.step

\* take_step; a row that is not there raises.
TakeStep(e, n) ==
    IF Row(e) < n
    THEN [e EXCEPT !.step = @ + 1, !.pc = IF e.step + 1 > TradingDays THEN "done" ELSE "running"]
    ELSE [e EXCEPT !.pc = "raised"]

-----------------------------------------------------------------------------
(* TradingEnvironment                                                      *)

\* The places of the arrays of an episode before are not cleared.
MutantBegin(src, test) ==
    /\ \E s \in src.listed :
          \/ src.rows[s] = 0 /\ episode' = NoEpisode("raised", s)
          \/ /\ src.rows[s] # 0
             /\ \E o \in Offsets(src, s, test) :
                   episode' = TakeStep([pc |-> "running", stock |-> s, test |-> test,
                                        offset |-> o, step |-> 0], src.rows[s])
    /\ sim' = [sim EXCEPT !.step = 0]
    /\ booked' = NoReturn

\* reset: a listed stock, at random; one without rows raises.
Begin(src, test) ==
    /\ \E s \in src.listed :
          \/ src.rows[s] = 0 /\ episode' = NoEpisode("raised", s)
          \/ /\ src.rows[s] # 0
             /\ \E o \in Offsets(src, s, test) :
                   episode' = TakeStep([pc |-> "running", stock |-> s, test |-> test,
                                        offset |-> o, step |-> 0], src.rows[s])
    /\ sim' = NewSim
    /\ booked' = NoReturn

\* No stock is long enough, or the first one listed has no rows; or the
\* environment is there and reset.
Construct(rows, q) ==
    LET src   == [rows |-> rows, ratio |-> q, listed |-> Listed(rows)]
        first == CHOOSE s \in src.listed : \A t \in src.listed : s <= t
        found == (\E s \in Stocks : rows[s] >= TradingDays + 1) /\ rows[first] # 0
    IN  /\ episode.pc = "none"
        /\ source' = src
        /\ testMode' = FALSE
        /\ \/ found /\ Begin(src, FALSE)
           \/ /\ ~found
              /\ \E s \in Stocks : rows[s] <= TradingDays /\ episode' = NoEpisode("raised", s)
              /\ UNCHANGED <<sim, booked>>

SetTestMode(enabled) ==
    /\ episode.pc \in {"running", "done"}
    /\ testMode' = enabled
    /\ UNCHANGED <<source, episode, sim, booked>>

Reset ==
    /\ episode.pc \in {"running", "done"}
    /\ Begin(source, testMode)
    /\ UNCHANGED <<source, testMode>>

\* The next row is taken; what the position of the step before earns on it is
\* booked, and the action, decided on the row before, becomes the position.
Step ==
    LET e     == TakeStep(episode, source.rows[episode.stock])
        start == IF sim.step = 0 THEN 0 ELSE sim.step - 1
    IN  /\ episode.pc = "running"
        /\ UNCHANGED <<source, testMode>>
        /\ \/ /\ e.pc # "raised" /\ sim.step < TradingDays
              /\ episode' = e
              /\ booked' = [row |-> Row(episode), decided |-> sim.since[start]]
              /\ sim' = [step |-> sim.step + 1,
                         since |-> [sim.since EXCEPT ![sim.step] = Row(episode) - 1]]
           \/ /\ e.pc = "raised" \/ sim.step = TradingDays
              /\ episode' = [episode EXCEPT !.pc = "raised"]
              /\ UNCHANGED <<sim, booked>>

\* The training task is over.
Discard ==
    /\ episode.pc # "none"
    /\ source' = NoSource(source.ratio)
    /\ testMode' = FALSE
    /\ episode' = NoEpisode("none", 1)
    /\ sim' = NewSim
    /\ booked' = NoReturn

EnvStep ==
    \/ \E rows \in [Stocks -> 0 .. MaxRows], q \in Ratios : Construct(rows, q)
    \/ \E enabled \in BOOLEAN : SetTestMode(enabled)
    \/ Reset \/ Step \/ Discard

-----------------------------------------------------------------------------
(* Properties                                                              *)

\* No training episode sees a row that is held out, provided the training
\* portion is longer than an episode, and no test episode one that is not; an
\* environment only fails for want of rows in the stock or the held-out portion.
EpisodeInPortion ==
    LET e == episode
        n == source.rows[e.stock]
        t == TrainEnd(source, e.stock)
        held == HoldsOut(source, e.test)
    IN  /\ e.pc \in {"running", "done"} /\ held => e.offset >= t /\ Row(e) <= n
        /\ e.pc \in {"running", "done"} /\ ~held /\ t > TradingDays => Row(e) <= t
        /\ e.pc = "raised" => n <= TradingDays \/ (held /\ n - TradingDays <= t)

\* What is booked was decided two rows before it, and in this very episode.
TrainedWithoutLookAhead ==
    /\ sim.step = 1 => booked.decided = -1
    /\ sim.step > 1 => booked.decided >= episode.offset /\ booked.decided = booked.row - 2
=============================================================================
