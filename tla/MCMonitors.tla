----------------------------- MODULE MCMonitors -----------------------------
(***************************************************************************)
(* LeftOpen with a day of four ticks: continuous monitoring, hours within  *)
(* a day, and hours over midnight with a skipped and a repeated boundary.  *)
(***************************************************************************)
EXTENDS LeftOpen

P(wait, s, e, a, d) ==
  [duration |-> wait, start |-> s, end |-> e, at |-> a, shift |-> d]

MCPlans == {P(2, 0, 0, 0, 0), P(1, 1, 3, 0, 0), P(0, 2, 1, 6, 1), P(1, 3, 2, 6, -1)}

BoundaryPlans == {P(0, 1, 3, 0, 0)}
=============================================================================
