---------------------------- MODULE RiskContract ----------------------------
(***************************************************************************)
(* What a risk check promises to whoever asks before an order goes out,    *)
(* with no row, no clock, no requests and no failures in sight: an order   *)
(* is cleared at one instant after it was asked about, at which the risk   *)
(* rules allow its size; nothing else clears it.  RiskGate.tla implements  *)
(* this module from the side of the service, over reads and writes that    *)
(* interleave; TradingLoop.tla uses a check as one step, and so implements *)
(* it from the side of the runner.                                         *)
(***************************************************************************)
EXTENDS Naturals

CONSTANTS Askers,  \* whoever may have an order checked
          Sizes    \* order sizes asked about

VARIABLES allows,  \* the sizes the risk rules allow at this instant
          asker    \* per asker, the order asked about and what came of it

contractVars == <<allows, asker>>

Idle       == [phase |-> "idle", size |-> 0]
Asked(n)   == [phase |-> "asked", size |-> n]
Cleared(n) == [phase |-> "cleared", size |-> n]

Init ==
    /\ allows \in SUBSET Sizes
    /\ asker = [a \in Askers |-> Idle]

Ask(a) == \E n \in Sizes : asker'[a] = Asked(n)

\* The instant of the check: what the rules allow now decides.
Clear(a) ==
    \E n \in allows : asker[a] = Asked(n) /\ asker'[a] = Cleared(n)

\* Turned away, not answered in time, or the cleared order has been used.
Leave(a) == asker'[a] = Idle

Stay(a) == asker'[a] = asker[a]

\* The rules change at any time (operators, equity, the clock), and one step
\* may move many askers (the clock, a crash).
Next ==
    /\ allows' \in SUBSET Sizes
    /\ asker' = [a \in Askers |-> asker'[a]]
    /\ \A a \in Askers : Ask(a) \/ Clear(a) \/ Leave(a) \/ Stay(a)

Spec == Init /\ [][Next]_contractVars
=============================================================================
