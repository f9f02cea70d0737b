---------------------------- MODULE PromotionGate ----------------------------
(***************************************************************************)
(* What the registry of policies promises: a policy is released to         *)
(* inference only after somebody has approved it, and what has been        *)
(* deleted never comes back.  Nothing is said of a rejection that comes    *)
(* later: it takes nothing back.                                           *)
(***************************************************************************)
CONSTANT Policies

VARIABLE gate  \* how far each policy has come

Stages == {"absent", "waiting", "cleared", "released", "deleted"}

Init == gate = [p \in Policies |-> "absent"]

Move(p, from, to) == gate[p] = from /\ gate' = [gate EXCEPT ![p] = to]

Register(p) == Move(p, "absent", "waiting")
Clear(p)    == Move(p, "waiting", "cleared")
Release(p)  == Move(p, "cleared", "released")
\* The approval that a training job's reviewer gives releases at once.
Admit(p)    == Move(p, "waiting", "released")
Delete(p)   == \E s \in {"waiting", "cleared", "released"} : Move(p, s, "deleted")

Next == \E p \in Policies : Register(p) \/ Clear(p) \/ Release(p) \/ Admit(p) \/ Delete(p)

Spec == Init /\ [][Next]_gate
=============================================================================
