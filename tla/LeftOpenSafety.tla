--------------------------- MODULE LeftOpenSafety ---------------------------
(***************************************************************************)
(* Proofs about LeftOpen for any policies and bounds: an issue is raised   *)
(* in time and never early, nothing stale stays raised, recovery is only   *)
(* claimed when reported, and no alert leaves late.                        *)
(* First the hours: with clocks that skip or repeat up to a day, the       *)
(* window of a time and the boundary after it.  Then the monitor, the      *)
(* episodes it opens and ends, and the invariant, with one lemma per       *)
(* action.                                                                 *)
(***************************************************************************)
EXTENDS LeftOpen, FiniteSetTheorems, WellFoundedInduction, TLAPS

-----------------------------------------------------------------------------
(* Numbers and days                                                       *)

(* The order of the numbers, as a relation.                               *)
Less == OpToRel(<, Nat)

(* Less relates a number to the larger ones.                              *)
LEMMA LessIs == \A x, y \in Nat : <<y, x>> \in Less <=> y < x
  BY DEF Less, OpToRel

(* A nonempty set of numbers has a least one.                             *)
LEMMA LeastNumber ==
  ASSUME NEW T, T \subseteq Nat, T # {}
  PROVE  Min(T) \in T /\ \A y \in T : Min(T) <= y
<1>1. IsWellFoundedOn(Less, Nat) BY NatLessThanWellFounded DEF Less
<1>2. PICK x \in T : \A y \in T : ~ (<<y, x>> \in Less) BY <1>1, WFMin
<1>3. ASSUME NEW y \in T PROVE x <= y
 <2>1. x \in Nat /\ y \in Nat OBVIOUS
 <2>2. ~ (y < x) BY <1>2, <2>1, LessIs
 <2> QED BY <2>1, <2>2
<1>4. QED BY <1>3 DEF Min

(* The day of a time the clocks show.                                     *)
LEMMA DayOf ==
  ASSUME NEW x \in Int
  PROVE  LET d == x \div Day IN d \in Int /\ d * Day <= x /\ x < d * Day + Day
  BY TickAssumption

(* A later day begins when the earlier one is over.                       *)
LEMMA LaterDay ==
  ASSUME NEW c \in Int, NEW d \in Int, c < d
  PROVE  c * Day \in Int /\ c * Day + Day <= d * Day
<1>1. d - c - 1 >= 0 /\ Day >= 0 /\ d - c - 1 \in Int /\ Day \in Int BY TickAssumption
<1>2. (d - c - 1) * Day >= 0 BY <1>1
<1>3. (d - c - 1) * Day = d * Day - c * Day - Day BY <1>1
<1> QED BY <1>1, <1>2, <1>3

-----------------------------------------------------------------------------
(* Boundaries                                                             *)

(* The last time a boundary is looked for.                                *)
Horizon == MaxNow + 6 * Day

(* What is known of a plan.                                               *)
PlanOf(p) ==
  /\ p.at \in Nat /\ p.shift \in Int /\ p.duration \in Nat
  /\ p.start \in 0 .. Day - 1 /\ p.end \in 0 .. Day - 1
  /\ -Day <= p.shift /\ p.shift <= Day
  /\ p.shift # 0 => p.at >= Day

(* It is known of every plan.                                             *)
LEMMA PlanFacts ==
  ASSUME NEW p \in Plans
  PROVE  PlanOf(p)
  BY PlansAssumption, TickAssumption DEF Plan, PlanOf

(* The types of the bounds.                                               *)
LEMMA Numbers ==
  /\ Day \in Nat /\ Day > 0 /\ MaxNow \in Nat /\ MaxNow >= Day
  /\ Horizon \in Nat /\ Horizon = MaxNow + 6 * Day
  BY TickAssumption, LeftOpenBounds DEF Horizon

(* Days follow one another.                                               *)
LEMMA DayTimes ==
  ASSUME NEW d \in Int
  PROVE  d * Day \in Int /\ (d + 1) * Day = d * Day + Day
  BY TickAssumption

\* b is the first time the clocks show v.
First(p, v, b) ==
  /\ b \in Nat /\ b > 0 /\ b <= Horizon
  /\ Local(p, b) = v
  /\ \A t \in 0 .. Horizon : Local(p, t) = v => b <= t

(* A boundary is the first time that clocks show it.                      *)
LEMMA BoundaryIs ==
  ASSUME NEW p \in Plans, NEW d \in Int, NEW clock \in Int,
         Boundary(p, d, clock) # None
  PROVE  First(p, d * Day + clock, Boundary(p, d, clock))
<1> DEFINE T == {t \in 0 .. Horizon : Local(p, t) = d * Day + clock}
<1>1. T # {} /\ Boundary(p, d, clock) = Min(T) BY DEF Boundary, Horizon
<1>2. T \subseteq Nat BY Numbers
<1>3. Min(T) \in T /\ \A y \in T : Min(T) <= y
 <2> HIDE DEF T
 <2> QED BY <1>1, <1>2, LeastNumber
<1>4. Min(T) # 0 BY <1>1 DEF None
<1> QED BY <1>1, <1>3, <1>4, Numbers DEF First

\* Clocks that show v at some time have a boundary there.
LEMMA BoundaryExists ==
  ASSUME NEW p \in Plans, NEW d \in Int, NEW clock \in Int,
         NEW t \in Nat, t <= Horizon, Local(p, t) = d * Day + clock,
         d * Day + clock > 0
  PROVE  Boundary(p, d, clock) # None
<1> DEFINE v == d * Day + clock
           T == {x \in 0 .. Horizon : Local(p, x) = v}
<1>1. t \in T BY Numbers
<1>2. Boundary(p, d, clock) = Min(T) BY <1>1 DEF Boundary, Horizon
<1>3. T \subseteq Nat BY Numbers
<1>4. Min(T) \in T
 <2> HIDE DEF T
 <2> QED BY <1>1, <1>3, LeastNumber
<1>5. Local(p, Min(T)) = v BY <1>4
<1>6. Local(p, 0) <= 0 BY PlanFacts, Numbers DEF PlanOf, Local
<1>7. v \in Int /\ v > 0 BY DayTimes
<1> QED
 <2> HIDE DEF v, T
 <2> QED BY <1>2, <1>5, <1>6, <1>7 DEF None

\* Times in the order the clocks show.
LEMMA FirstOrder ==
  ASSUME NEW p, PlanOf(p), NEW v \in Int, NEW w \in Int, NEW b, NEW c,
         First(p, v, b), First(p, w, c), v < w
  PROVE  b < c
  BY Numbers DEF PlanOf, First, Local

(* Before the first time the clocks show v they show less; afterwards at  *)
(* most a day less.                                                       *)
LEMMA BeforeFirst ==
  ASSUME NEW p, PlanOf(p), NEW v \in Int, NEW b, First(p, v, b),
         NEW t \in Nat, t <= MaxNow
  PROVE  /\ Local(p, t) \in Int
         /\ t < b => Local(p, t) < v
         /\ b <= t => v - Day <= Local(p, t)
  BY Numbers DEF PlanOf, First, Local

-----------------------------------------------------------------------------
(* Windows                                                                *)

(* The day on which the window of day d ends.                             *)
EndDay(p, d) == IF p.end < p.start THEN d + 1 ELSE d

(* The window of day d.                                                   *)
Span(p, d) ==
  [start |-> Boundary(p, d, p.start), end |-> Boundary(p, EndDay(p, d), p.end)]

(* Both its boundaries exist.                                             *)
Real(p, d) == Span(p, d).start # None /\ Span(p, d).end # None

(* What the clocks show when it opens and closes.                         *)
Opens(p, d) == d * Day + p.start
(* What the clocks show when it closes.                                   *)
Closes(p, d) == EndDay(p, d) * Day + p.end

(* The boundaries of a window in the order the clocks show them.          *)
LEMMA SpanFacts ==
  ASSUME NEW p \in Plans, NEW d \in Int
  PROVE  /\ Opens(p, d) \in Int /\ Closes(p, d) \in Int
         /\ d * Day \in Int /\ d * Day <= Opens(p, d) /\ Opens(p, d) < d * Day + Day
         /\ Closes(p, d) < d * Day + Day + Day
         /\ Closes(p, d) < Opens(p, d) + Day
         /\ p.start # p.end => Opens(p, d) < Closes(p, d)
         /\ Real(p, d) => /\ First(p, Opens(p, d), Span(p, d).start)
                          /\ First(p, Closes(p, d), Span(p, d).end)
<1>1. PlanOf(p) BY PlanFacts
<1>2. EndDay(p, d) \in Int /\ d * Day \in Int /\ (d + 1) * Day = d * Day + Day
  BY DayTimes DEF EndDay
<1>3. EndDay(p, d) * Day = IF p.end < p.start THEN d * Day + Day ELSE d * Day BY <1>2 DEF EndDay
<1>4. /\ Opens(p, d) \in Int /\ Closes(p, d) \in Int
      /\ d * Day <= Opens(p, d) /\ Opens(p, d) < d * Day + Day
      /\ Closes(p, d) < d * Day + Day + Day
      /\ Closes(p, d) < Opens(p, d) + Day
      /\ p.start # p.end => Opens(p, d) < Closes(p, d)
  BY <1>1, <1>2, <1>3, Numbers DEF PlanOf, Opens, Closes
<1>5. ASSUME Real(p, d)
      PROVE  /\ First(p, Opens(p, d), Span(p, d).start)
             /\ First(p, Closes(p, d), Span(p, d).end)
 <2>1. p.start \in Int /\ p.end \in Int BY <1>1, Numbers DEF PlanOf
 <2>2. First(p, Opens(p, d), Boundary(p, d, p.start))
   BY <1>5, <2>1, BoundaryIs DEF Real, Span, Opens
 <2>3. First(p, Closes(p, d), Boundary(p, EndDay(p, d), p.end))
   BY <1>2, <1>5, <2>1, BoundaryIs DEF Real, Span, Closes
 <2> QED BY <2>2, <2>3 DEF Span
<1> QED BY <1>2, <1>4, <1>5

(* A window opens before it closes.                                       *)
LEMMA SpanOrder ==
  ASSUME NEW p \in Plans, p.start # p.end, NEW d \in Int, Real(p, d)
  PROVE  /\ Span(p, d).start \in Nat /\ Span(p, d).end \in Nat
         /\ 0 < Span(p, d).start /\ Span(p, d).start < Span(p, d).end
<1>1. First(p, Opens(p, d), Span(p, d).start) /\ First(p, Closes(p, d), Span(p, d).end) BY SpanFacts
<1>2. Opens(p, d) \in Int /\ Closes(p, d) \in Int /\ Opens(p, d) < Closes(p, d) BY SpanFacts
<1>3. Span(p, d).start < Span(p, d).end BY <1>1, <1>2, PlanFacts, FirstOrder
<1> QED BY <1>1, <1>3 DEF First

\* The windows of two days do not overlap.
LEMMA SpansApart ==
  ASSUME NEW p \in Plans, NEW d \in Int, NEW x \in Int, d < x, Real(p, d), Real(p, x)
  PROVE  Span(p, d).end < Span(p, x).start
<1>1. First(p, Closes(p, d), Span(p, d).end) /\ First(p, Opens(p, x), Span(p, x).start) BY SpanFacts
<1>2. d * Day + Day <= x * Day /\ d * Day \in Int /\ x * Day \in Int BY LaterDay, DayTimes
<1>3. EndDay(p, d) * Day = IF p.end < p.start THEN d * Day + Day ELSE d * Day BY DayTimes DEF EndDay
<1>4. Closes(p, d) \in Int /\ Opens(p, x) \in Int /\ Closes(p, d) < Opens(p, x)
  BY <1>2, <1>3, PlanFacts, Numbers DEF PlanOf, Opens, Closes
<1> QED BY <1>1, <1>4, PlanFacts, FirstOrder

(* The day the clocks show.                                               *)
Today(p, t) == Local(p, t) \div Day

(* The present lies in the present day.                                   *)
LEMMA TodayFacts ==
  ASSUME NEW p \in Plans, NEW t \in Times
  PROVE  /\ Today(p, t) \in Int /\ Local(p, t) \in Int
         /\ Today(p, t) * Day \in Int
         /\ Today(p, t) * Day <= Local(p, t) /\ Local(p, t) < Today(p, t) * Day + Day
         /\ 0 <= Local(p, t)
<1>1. Local(p, t) \in Int /\ 0 <= Local(p, t) BY PlanFacts, Numbers DEF PlanOf, Local, Times
<1> QED BY <1>1, DayOf, DayTimes DEF Today

(* The windows that are looked at are those of five days.                 *)
LEMMA NearbyIs ==
  ASSUME NEW p \in Plans, NEW t \in Times
  PROVE  \A w : w \in Nearby(p, t) <=>
           \E d \in Int : /\ Today(p, t) - 1 <= d /\ d <= Today(p, t) + 3
                          /\ Real(p, d) /\ w = Span(p, d)
<1>1. Today(p, t) \in Int BY TodayFacts
<1> QED BY <1>1 DEF Nearby, Today, Real, Span, EndDay

\* A window that holds is one of those looked at.
LEMMA HoldingIsNearby ==
  ASSUME NEW p \in Plans, p.start # p.end, NEW t \in Times, NEW d \in Int, Real(p, d),
         Holds(Span(p, d), t)
  PROVE  Today(p, t) - 1 <= d /\ d <= Today(p, t) + 1 /\ Span(p, d) \in Nearby(p, t)
<1>1. t \in Nat /\ t <= MaxNow BY Numbers DEF Times
<1>2. Span(p, d).start <= t /\ t < Span(p, d).end BY DEF Holds
<1>3. /\ First(p, Opens(p, d), Span(p, d).start)
      /\ First(p, Closes(p, d), Span(p, d).end)
      /\ Opens(p, d) \in Int /\ Closes(p, d) \in Int
      /\ d * Day \in Int /\ d * Day <= Opens(p, d)
      /\ Closes(p, d) < d * Day + Day + Day
  BY SpanFacts
<1>4. Local(p, t) < Closes(p, d) /\ Opens(p, d) - Day <= Local(p, t)
  BY <1>1, <1>2, <1>3, PlanFacts, BeforeFirst
<1>5. /\ Today(p, t) \in Int /\ Today(p, t) * Day \in Int /\ Local(p, t) \in Int
      /\ Today(p, t) * Day <= Local(p, t) /\ Local(p, t) < Today(p, t) * Day + Day
  BY TodayFacts
<1>6. Today(p, t) - 1 <= d
 <2> SUFFICES ASSUME d < Today(p, t) - 1 PROVE FALSE BY <1>5
 <2>1. d + 1 < Today(p, t) /\ d + 1 \in Int BY <1>5
 <2>2. (d + 1) * Day + Day <= Today(p, t) * Day BY <2>1, <1>5, LaterDay
 <2>3. (d + 1) * Day = d * Day + Day BY DayTimes
 <2> QED BY <2>2, <2>3, <1>3, <1>4, <1>5, Numbers
<1>7. d <= Today(p, t) + 1
 <2> SUFFICES ASSUME Today(p, t) + 1 < d PROVE FALSE BY <1>5
 <2>1. (Today(p, t) + 1) * Day + Day <= d * Day BY <1>5, LaterDay
 <2>2. (Today(p, t) + 1) * Day = Today(p, t) * Day + Day BY <1>5, DayTimes
 <2> QED BY <2>1, <2>2, <1>3, <1>4, <1>5, Numbers
<1>8. Span(p, d) \in Nearby(p, t)
 <2>1. d <= Today(p, t) + 3 BY <1>5, <1>7
 <2> QED BY <2>1, <1>6, NearbyIs
<1> QED BY <1>6, <1>7, <1>8

-----------------------------------------------------------------------------
(* The window of a time                                                   *)

(* The window and the next boundary of t.                                 *)
Hour(p, t) == Hours[p][t]

(* The windows that hold at t.                                            *)
Current(p, t) == {w \in {x \in Nearby(p, t) : p.start # p.end} : Holds(w, t)}
(* The openings after t that are looked at.                               *)
Openings(p, t) ==
  {w.start : w \in {x \in {y \in Nearby(p, t) : p.start # p.end} : t < x.start}}

(* Hours, case by case.                                                   *)
LEMMA HourIs ==
  ASSUME NEW p \in Plans, NEW t \in Times
  PROVE  /\ Hour(p, t).window =
              IF Current(p, t) = {} THEN NoWindow ELSE CHOOSE w \in Current(p, t) : TRUE
         /\ Current(p, t) # {} => Hour(p, t).next = Hour(p, t).window.end
         /\ Current(p, t) = {} /\ Openings(p, t) # {} =>
              Hour(p, t).next = Min(Openings(p, t))
         /\ Current(p, t) = {} /\ Openings(p, t) = {} => Hour(p, t).next = None
<1> DEFINE W == IF Current(p, t) = {} THEN NoWindow ELSE CHOOSE w \in Current(p, t) : TRUE
           N == CASE Current(p, t) # {} -> W.end
                  [] Current(p, t) = {} /\ Openings(p, t) # {} -> Min(Openings(p, t))
                  [] OTHER -> None
<1>1. Hour(p, t) = [window |-> W, next |-> N] BY DEF Hour, Hours, Current, Openings
<1> HIDE DEF W
<1>2. Hour(p, t).window = W /\ Hour(p, t).next = N
 <2> HIDE DEF N
 <2> QED BY <1>1
<1> QED BY <1>2 DEF W

\* d is the day of the window of t.
DayAt(p, d, t) == d \in Int /\ Real(p, d) /\ Holds(Span(p, d), t)

(* A window of any day that holds is among those looked at.               *)
LEMMA CurrentIs ==
  ASSUME NEW p \in Plans, NEW t \in Times
  PROVE  /\ p.start = p.end => Current(p, t) = {} /\ Openings(p, t) = {}
         /\ p.start # p.end =>
              \A w : w \in Current(p, t) <=> \E d : DayAt(p, d, t) /\ w = Span(p, d)
<1>1. p.start = p.end => Current(p, t) = {} /\ Openings(p, t) = {} BY DEF Current, Openings
<1>2. ASSUME p.start # p.end, NEW w
      PROVE  w \in Current(p, t) <=> \E d : DayAt(p, d, t) /\ w = Span(p, d)
 <2>1. w \in Current(p, t) <=> w \in Nearby(p, t) /\ Holds(w, t) BY <1>2 DEF Current
 <2>2. ASSUME w \in Nearby(p, t), Holds(w, t)
       PROVE  \E d : DayAt(p, d, t) /\ w = Span(p, d)
  <3>1. PICK d \in Int : Real(p, d) /\ w = Span(p, d) BY <2>2, NearbyIs
  <3> QED BY <3>1, <2>2 DEF DayAt
 <2>3. ASSUME NEW d, DayAt(p, d, t), w = Span(p, d)
       PROVE  w \in Nearby(p, t) /\ Holds(w, t)
   BY <2>3, <1>2, HoldingIsNearby DEF DayAt
 <2> QED BY <2>1, <2>2, <2>3
<1> QED BY <1>1, <1>2

(* Only one window holds at a time.                                       *)
LEMMA OneDay ==
  ASSUME NEW p \in Plans, p.start # p.end, NEW t \in Times, NEW d, NEW x,
         DayAt(p, d, t), DayAt(p, x, t)
  PROVE  d = x
<1>1. d \in Int /\ x \in Int /\ Real(p, d) /\ Real(p, x) BY DEF DayAt
<1>2. /\ Span(p, d).start <= t /\ t < Span(p, d).end
      /\ Span(p, x).start <= t /\ t < Span(p, x).end
  BY DEF DayAt, Holds
<1>3. /\ Span(p, d).start \in Nat /\ Span(p, d).end \in Nat
      /\ Span(p, x).start \in Nat /\ Span(p, x).end \in Nat
  BY <1>1, SpanOrder
<1>4. t \in Nat BY Numbers DEF Times
<1>5. ~ (d < x)
 <2> SUFFICES ASSUME d < x PROVE FALSE OBVIOUS
 <2>1. Span(p, d).end < Span(p, x).start BY <1>1, SpansApart
 <2> QED BY <2>1, <1>2, <1>3, <1>4
<1>6. ~ (x < d)
 <2> SUFFICES ASSUME x < d PROVE FALSE OBVIOUS
 <2>1. Span(p, x).end < Span(p, d).start BY <1>1, SpansApart
 <2> QED BY <2>1, <1>2, <1>3, <1>4
<1> QED BY <1>1, <1>5, <1>6

\* The window of a time: the only one that holds then, none for continuous monitoring.
LEMMA WindowIs ==
  ASSUME NEW p \in Plans, NEW t \in Times
  PROVE  /\ p.start = p.end =>
              Hour(p, t).window = NoWindow /\ Hour(p, t).next = None
         /\ p.start # p.end =>
              /\ \A d : DayAt(p, d, t) => Hour(p, t).window = Span(p, d)
              /\ \/ Hour(p, t).window = NoWindow /\ Current(p, t) = {}
                 \/ \E d : /\ DayAt(p, d, t) /\ Hour(p, t).window = Span(p, d)
                           /\ Hour(p, t).next = Span(p, d).end
<1>1. CASE p.start = p.end BY <1>1, HourIs, CurrentIs
<1>2. CASE p.start # p.end
 <2>1. ASSUME Current(p, t) # {}
       PROVE  \E d : /\ DayAt(p, d, t) /\ Hour(p, t).window = Span(p, d)
                     /\ Hour(p, t).next = Span(p, d).end
  <3>1. Hour(p, t).window \in Current(p, t) BY <2>1, HourIs
  <3>2. PICK d : DayAt(p, d, t) /\ Hour(p, t).window = Span(p, d) BY <3>1, <1>2, CurrentIs
  <3> QED BY <2>1, <3>2, HourIs
 <2>2. ASSUME NEW d, DayAt(p, d, t)
       PROVE  Hour(p, t).window = Span(p, d)
  <3>1. Current(p, t) # {} BY <2>2, <1>2, CurrentIs
  <3> QED BY <3>1, <2>1, <2>2, <1>2, OneDay
 <2>3. Current(p, t) = {} => Hour(p, t).window = NoWindow BY HourIs
 <2> QED BY <1>2, <2>1, <2>2, <2>3
<1> QED BY <1>1, <1>2

\* The clocks show what they do not skip.
LEMMA ClocksShow ==
  ASSUME NEW p, PlanOf(p), NEW v \in Nat, NEW t \in Times, v <= Local(p, t) + 5 * Day,
         p.at <= v => p.at + p.shift <= v
  PROVE  \E x \in Nat : x <= Horizon /\ Local(p, x) = v
<1> DEFINE x == IF v < p.at THEN v ELSE v - p.shift
<1>1. x \in Nat /\ x <= Horizon /\ Local(p, x) = v BY Numbers DEF PlanOf, Local, Times
<1> QED BY <1>1

\* The clocks skip v.
Skipped(p, v) == p.at <= v /\ v < p.at + p.shift

(* A day soon after t of which no boundary is skipped has a window.       *)
LEMMA DayIsReal ==
  ASSUME NEW p \in Plans, NEW t \in Times, p.start # p.end, NEW d \in Int,
         Today(p, t) + 1 <= d, d <= Today(p, t) + 3,
         ~Skipped(p, Opens(p, d)), ~Skipped(p, Closes(p, d))
  PROVE  Real(p, d)
<1>1. /\ Today(p, t) \in Int /\ Local(p, t) \in Int /\ Today(p, t) * Day \in Int
      /\ Today(p, t) * Day <= Local(p, t) /\ 0 <= Local(p, t)
      /\ Local(p, t) < Today(p, t) * Day + Day
  BY TodayFacts
<1>2. /\ Opens(p, d) \in Int /\ Closes(p, d) \in Int
      /\ d * Day \in Int /\ d * Day <= Opens(p, d) /\ Opens(p, d) < d * Day + Day
      /\ Closes(p, d) < d * Day + Day + Day
      /\ Opens(p, d) < Closes(p, d)
  BY SpanFacts
<1>3. Today(p, t) * Day + Day <= d * Day BY <1>1, LaterDay
<1>4. d * Day <= Today(p, t) * Day + 3 * Day
 <2>1. d < Today(p, t) + 4 /\ Today(p, t) + 4 \in Int BY <1>1
 <2>2. d * Day + Day <= (Today(p, t) + 4) * Day BY <2>1, LaterDay
 <2>3. /\ (Today(p, t) + 1) * Day = Today(p, t) * Day + Day
       /\ (Today(p, t) + 2) * Day = (Today(p, t) + 1) * Day + Day
       /\ (Today(p, t) + 3) * Day = (Today(p, t) + 2) * Day + Day
       /\ (Today(p, t) + 4) * Day = (Today(p, t) + 3) * Day + Day
  <3>1. ASSUME NEW y \in Int PROVE (y + 1) * Day = y * Day + Day BY DayTimes
  <3>2. /\ Today(p, t) + 1 \in Int /\ Today(p, t) + 2 \in Int /\ Today(p, t) + 3 \in Int
        /\ Today(p, t) + 2 = (Today(p, t) + 1) + 1
        /\ Today(p, t) + 3 = (Today(p, t) + 2) + 1
        /\ Today(p, t) + 4 = (Today(p, t) + 3) + 1
    BY <1>1
  <3> QED BY <3>1, <3>2, <1>1
 <2>4. /\ (Today(p, t) + 1) * Day \in Int /\ (Today(p, t) + 2) * Day \in Int
       /\ (Today(p, t) + 3) * Day \in Int /\ (Today(p, t) + 4) * Day \in Int
   BY <1>1, DayTimes
 <2> DEFINE A == Today(p, t) * Day
            B == (Today(p, t) + 1) * Day
            C == (Today(p, t) + 2) * Day
            D == (Today(p, t) + 3) * Day
            E == (Today(p, t) + 4) * Day
            G == d * Day
 <2>5. /\ B = A + Day /\ C = B + Day /\ D = C + Day /\ E = D + Day /\ G + Day <= E
       /\ A \in Int /\ G \in Int
   BY <2>2, <2>3, <1>1, <1>2
 <2> HIDE DEF A, B, C, D, E, G
 <2>6. G <= A + 3 * Day BY <2>5, Numbers
 <2> QED BY <2>6 DEF A, G
<1>5. /\ 0 < Opens(p, d) /\ Opens(p, d) <= Local(p, t) + 5 * Day
      /\ 0 < Closes(p, d) /\ Closes(p, d) <= Local(p, t) + 5 * Day
  BY <1>1, <1>2, <1>3, <1>4, Numbers
<1>6. PICK x \in Nat : x <= Horizon /\ Local(p, x) = Opens(p, d)
 <2>1. p.at <= Opens(p, d) => p.at + p.shift <= Opens(p, d) BY <1>2, PlanFacts DEF Skipped, PlanOf
 <2> QED BY <2>1, <1>2, <1>5, PlanFacts, ClocksShow
<1>7. PICK y \in Nat : y <= Horizon /\ Local(p, y) = Closes(p, d)
 <2>1. p.at <= Closes(p, d) => p.at + p.shift <= Closes(p, d) BY <1>2, PlanFacts DEF Skipped, PlanOf
 <2> QED BY <2>1, <1>2, <1>5, PlanFacts, ClocksShow
<1>8. p.start \in Int /\ p.end \in Int /\ EndDay(p, d) \in Int
  BY PlanFacts, Numbers DEF PlanOf, EndDay
<1>9. Boundary(p, d, p.start) # None BY <1>5, <1>6, <1>8, BoundaryExists DEF Opens
<1>10. Boundary(p, EndDay(p, d), p.end) # None BY <1>5, <1>7, <1>8, BoundaryExists DEF Closes
<1> QED BY <1>9, <1>10 DEF Real, Span

-----------------------------------------------------------------------------
(* The next boundary                                                      *)

(* The days after today that are looked at.                               *)
NextThreeDays(p, t, d) == Today(p, t) + 1 <= d /\ d <= Today(p, t) + 3

\* Clocks that were set back may have shown tomorrow before.
NotYet(p, t, d) == p.shift <= 0 => Today(p, t) + 2 <= d

\* Of the next three days some have a window.
LEMMA SomeDayIsReal ==
  ASSUME NEW p \in Plans, NEW t \in Times, p.start # p.end
  PROVE  \E d \in Int : NextThreeDays(p, t, d) /\ NotYet(p, t, d) /\ Real(p, d)
<1> DEFINE D == Today(p, t) + 1
           E == D + 1
           F == E + 1
<1>1. Today(p, t) \in Int BY TodayFacts
<1>2. D \in Int /\ E \in Int /\ F \in Int BY <1>1
<1>3. E * Day = D * Day + Day /\ F * Day = E * Day + Day BY <1>2, DayTimes
<1>4. D * Day \in Int /\ E * Day \in Int /\ F * Day \in Int BY <1>2, DayTimes
<1>5. /\ NextThreeDays(p, t, D) /\ NextThreeDays(p, t, E) /\ NextThreeDays(p, t, F)
  BY <1>1 DEF NextThreeDays
<1> HIDE DEF D, E, F
<1>6. /\ Opens(p, E) = Opens(p, D) + Day /\ Opens(p, F) = Opens(p, D) + 2 * Day
      /\ Opens(p, D) \in Int
  BY <1>3, <1>4, PlanFacts, Numbers DEF Opens, PlanOf
<1>7. /\ Closes(p, E) = Closes(p, D) + Day /\ Closes(p, F) = Closes(p, D) + 2 * Day
      /\ Closes(p, D) \in Int
 <2>1. CASE p.end < p.start
  <3>1. EndDay(p, D) = D + 1 /\ EndDay(p, E) = E + 1 /\ EndDay(p, F) = F + 1 BY <2>1 DEF EndDay
  <3>2. /\ (D + 1) * Day = D * Day + Day /\ (E + 1) * Day = E * Day + Day
        /\ (F + 1) * Day = F * Day + Day
    BY <1>2, DayTimes
  <3> QED BY <3>1, <3>2, <1>3, <1>4, PlanFacts, Numbers DEF Closes, PlanOf
 <2>2. CASE ~ (p.end < p.start)
  <3>1. EndDay(p, D) = D /\ EndDay(p, E) = E /\ EndDay(p, F) = F BY <2>2 DEF EndDay
  <3> QED BY <3>1, <1>3, <1>4, PlanFacts, Numbers DEF Closes, PlanOf
 <2> QED BY <2>1, <2>2
<1>8. /\ ~ (Skipped(p, Opens(p, D)) /\ Skipped(p, Opens(p, E)))
      /\ ~ (Skipped(p, Opens(p, D)) /\ Skipped(p, Opens(p, F)))
      /\ ~ (Skipped(p, Opens(p, E)) /\ Skipped(p, Opens(p, F)))
  BY <1>6, PlanFacts, Numbers DEF Skipped, PlanOf
<1>9. /\ ~ (Skipped(p, Closes(p, D)) /\ Skipped(p, Closes(p, E)))
      /\ ~ (Skipped(p, Closes(p, D)) /\ Skipped(p, Closes(p, F)))
      /\ ~ (Skipped(p, Closes(p, E)) /\ Skipped(p, Closes(p, F)))
  BY <1>7, PlanFacts, Numbers DEF Skipped, PlanOf
<1>10. ASSUME NEW d \in {D, E, F}, ~Skipped(p, Opens(p, d)), ~Skipped(p, Closes(p, d)),
              NotYet(p, t, d)
       PROVE  \E x \in Int : NextThreeDays(p, t, x) /\ NotYet(p, t, x) /\ Real(p, x)
 <2>1. d \in Int /\ NextThreeDays(p, t, d) BY <1>2, <1>5
 <2>2. Real(p, d) BY <2>1, <1>10, DayIsReal DEF NextThreeDays
 <2> QED BY <1>10, <2>1, <2>2
<1>11. CASE p.shift > 0
 <2>1. \A d \in {D, E, F} : NotYet(p, t, d) BY <1>11, PlanFacts DEF NotYet, PlanOf
 <2> QED BY <2>1, <1>8, <1>9, <1>10
<1>12. CASE ~ (p.shift > 0)
 <2>1. NotYet(p, t, E) BY <1>1 DEF NotYet, E, D
 <2>2. Opens(p, E) \in Int /\ Closes(p, E) \in Int BY <1>6, <1>7, Numbers
 <2>3. ~Skipped(p, Opens(p, E)) /\ ~Skipped(p, Closes(p, E))
   BY <2>2, <1>12, PlanFacts DEF Skipped, PlanOf
 <2> QED BY <2>1, <2>3, <1>10
<1> QED BY <1>11, <1>12

\* A window of the next days opens after t.
LEMMA OpensLater ==
  ASSUME NEW p \in Plans, NEW t \in Times, p.start # p.end, NEW d \in Int,
         Today(p, t) + 1 <= d, NotYet(p, t, d), Real(p, d)
  PROVE  t < Span(p, d).start
<1>1. /\ Today(p, t) \in Int /\ Local(p, t) \in Int /\ Today(p, t) * Day \in Int
      /\ Local(p, t) < Today(p, t) * Day + Day
  BY TodayFacts
<1>2. d * Day \in Int /\ d * Day <= Opens(p, d) /\ Opens(p, d) \in Int
      /\ First(p, Opens(p, d), Span(p, d).start)
  BY SpanFacts
<1>3. Today(p, t) * Day + Day <= d * Day BY <1>1, LaterDay
<1>4. Local(p, t) < Opens(p, d) BY <1>1, <1>2, <1>3, Numbers
<1>5. t \in Nat /\ t <= MaxNow BY Numbers DEF Times
<1>6. CASE p.shift > 0 BY <1>2, <1>4, <1>5, <1>6, PlanFacts, Numbers DEF First, Local, PlanOf
<1>7. CASE ~ (p.shift > 0)
 <2>1. Today(p, t) + 1 < d /\ Today(p, t) + 1 \in Int BY <1>1, <1>7, PlanFacts DEF NotYet, PlanOf
 <2>2. (Today(p, t) + 1) * Day + Day <= d * Day BY <2>1, LaterDay
 <2>3. (Today(p, t) + 1) * Day = Today(p, t) * Day + Day BY <1>1, DayTimes
 <2>4. Local(p, t) < Opens(p, d) - Day BY <2>2, <2>3, <1>1, <1>2, Numbers
 <2>5. ~ (Span(p, d).start <= t)
  <3> SUFFICES ASSUME Span(p, d).start <= t PROVE FALSE OBVIOUS
  <3>1. Opens(p, d) - Day <= Local(p, t) BY <1>2, <1>5, PlanFacts, BeforeFirst
  <3> QED BY <3>1, <2>4, <1>1, <1>2, Numbers
 <2> QED BY <2>5, <1>2, <1>5 DEF First
<1> QED BY <1>6, <1>7

\* A window that holds is not over before, and one that opens later is not too near.
LEMMA NotOver ==
  ASSUME NEW p \in Plans, NEW t \in Times, p.start # p.end, NEW d \in Int, Real(p, d),
         t < Span(p, d).end
  PROVE  Today(p, t) - 1 <= d
<1>1. /\ Today(p, t) \in Int /\ Local(p, t) \in Int /\ Today(p, t) * Day \in Int
      /\ Today(p, t) * Day <= Local(p, t)
  BY TodayFacts
<1>2. /\ d * Day \in Int /\ Closes(p, d) \in Int
      /\ Closes(p, d) < d * Day + Day + Day
      /\ First(p, Closes(p, d), Span(p, d).end)
  BY SpanFacts
<1>3. t \in Nat /\ t <= MaxNow BY Numbers DEF Times
<1>4. Local(p, t) < Closes(p, d) BY <1>2, <1>3, PlanFacts, BeforeFirst
<1> SUFFICES ASSUME d < Today(p, t) - 1 PROVE FALSE BY <1>1
<1>5. d + 1 < Today(p, t) /\ d + 1 \in Int BY <1>1
<1>6. (d + 1) * Day + Day <= Today(p, t) * Day BY <1>5, <1>1, LaterDay
<1>7. (d + 1) * Day = d * Day + Day BY DayTimes
<1> QED BY <1>1, <1>2, <1>4, <1>6, <1>7, Numbers

\* Out of hours the next opening that is looked at comes before every later window.
LEMMA NextOpening ==
  ASSUME NEW p \in Plans, NEW t \in Times, p.start # p.end, Current(p, t) = {}
  PROVE  /\ Openings(p, t) # {} /\ Openings(p, t) \subseteq Nat
         /\ \A y \in Openings(p, t) : t < y
         /\ Hour(p, t).next \in Openings(p, t)
         /\ \A d \in Int : Real(p, d) /\ t < Span(p, d).start =>
                             Hour(p, t).next <= Span(p, d).start
<1>1. \A y : y \in Openings(p, t) <=>
         \E d \in Int : /\ Today(p, t) - 1 <= d /\ d <= Today(p, t) + 3 /\ Real(p, d)
                        /\ t < Span(p, d).start /\ y = Span(p, d).start
 <2>1. \A y : y \in Openings(p, t) <=>
           \E w \in Nearby(p, t) : t < w.start /\ y = w.start
   BY DEF Openings
 <2> QED BY <2>1, NearbyIs
<1>2. Openings(p, t) \subseteq Nat /\ \A y \in Openings(p, t) : t < y BY <1>1, SpanOrder
<1>3. PICK D \in Int : NextThreeDays(p, t, D) /\ NotYet(p, t, D) /\ Real(p, D) BY SomeDayIsReal
<1>4. t < Span(p, D).start BY <1>3, OpensLater DEF NextThreeDays
<1>5. Today(p, t) \in Int BY TodayFacts
<1>6. Span(p, D).start \in Openings(p, t)
 <2>1. Today(p, t) - 1 <= D /\ D <= Today(p, t) + 3 BY <1>3, <1>5 DEF NextThreeDays
 <2> QED BY <2>1, <1>1, <1>3, <1>4
<1>7. Openings(p, t) # {} BY <1>6
<1>8. /\ Hour(p, t).next \in Openings(p, t)
      /\ \A y \in Openings(p, t) : Hour(p, t).next <= y
 <2>1. Hour(p, t).next = Min(Openings(p, t)) BY <1>7, HourIs
 <2> HIDE DEF Openings
 <2> QED BY <2>1, <1>2, <1>7, LeastNumber
<1>9. ASSUME NEW d \in Int, Real(p, d), t < Span(p, d).start
      PROVE  Hour(p, t).next <= Span(p, d).start
 <2>1. /\ Span(p, d).start \in Nat /\ Span(p, d).end \in Nat
       /\ Span(p, d).start < Span(p, d).end
   BY <1>9, SpanOrder
 <2>2. t \in Nat BY Numbers DEF Times
 <2>3. Today(p, t) - 1 <= d BY <1>9, <2>1, <2>2, NotOver
 <2>4. CASE d <= Today(p, t) + 3 BY <2>3, <2>4, <1>1, <1>8, <1>9
 <2>5. CASE ~ (d <= Today(p, t) + 3)
  <3>1. D < d BY <2>5, <1>3, <1>5 DEF NextThreeDays
  <3>2. Span(p, D).end < Span(p, d).start BY <3>1, <1>3, <1>9, SpansApart
  <3>3. /\ Span(p, D).start \in Nat /\ Span(p, D).end \in Nat
        /\ Span(p, D).start < Span(p, D).end
    BY <1>3, SpanOrder
  <3>4. Hour(p, t).next <= Span(p, D).start /\ Hour(p, t).next \in Nat BY <1>2, <1>6, <1>8
  <3> QED BY <3>2, <3>3, <3>4, <2>1
 <2> QED BY <2>4, <2>5
<1> QED BY <1>2, <1>7, <1>8, <1>9

-----------------------------------------------------------------------------
(* The hours of the plan                                                  *)

(* Window and NextBoundary are those of the plan.                         *)
LEMMA HourOfPlan ==
  ASSUME plan \in Plans
  PROVE  \A t : Window(t) = Hour(plan, t).window /\ NextBoundary(t) = Hour(plan, t).next
  BY DEF Hour, Window, NextBoundary

\* The window of a time began by then and has not ended.
LEMMA InWindow ==
  ASSUME plan \in Plans, NEW t \in Times
  PROVE  /\ Window(t) \in [start : Nat, end : Nat]
         /\ Always => Window(t) = NoWindow
         /\ Window(t) # NoWindow => /\ Window(t).start # None /\ Window(t).end # None
                                    /\ Holds(Window(t), t)
         /\ NextBoundary(t) \in Nat
         /\ NextBoundary(t) # None => t < NextBoundary(t)
<1> DEFINE p == plan
<1>1. Window(t) = Hour(p, t).window /\ NextBoundary(t) = Hour(p, t).next BY HourOfPlan
<1>2. NoWindow \in [start : Nat, end : Nat] BY DEF NoWindow, None
<1>3. CASE Always
 <2>1. p.start = p.end BY <1>3 DEF Always
 <2>2. Window(t) = NoWindow /\ NextBoundary(t) = None BY <2>1, <1>1, WindowIs
 <2> QED BY <2>2, <1>2 DEF None
<1>4. ASSUME ~Always, NEW d, DayAt(p, d, t), Window(t) = Span(p, d),
             NextBoundary(t) = Span(p, d).end
      PROVE  /\ Window(t) \in [start : Nat, end : Nat]
             /\ Window(t).start # None /\ Window(t).end # None
             /\ Holds(Window(t), t)
             /\ NextBoundary(t) \in Nat
             /\ NextBoundary(t) # None => t < NextBoundary(t)
 <2>1. p.start # p.end /\ d \in Int /\ Real(p, d) /\ Holds(Span(p, d), t) BY <1>4 DEF Always, DayAt
 <2>2. /\ Span(p, d).start \in Nat /\ Span(p, d).end \in Nat
       /\ 0 < Span(p, d).start /\ Span(p, d).start < Span(p, d).end
   BY <2>1, SpanOrder
 <2>3. Span(p, d) \in [start : Nat, end : Nat] BY <2>2 DEF Span
 <2> QED BY <2>1, <2>2, <2>3, <1>4 DEF Holds, None
<1>5. ASSUME ~Always, Window(t) = NoWindow, Current(p, t) = {}
      PROVE  NextBoundary(t) \in Nat /\ (NextBoundary(t) # None => t < NextBoundary(t))
 <2>1. p.start # p.end BY <1>5 DEF Always
 <2> QED BY <1>1, <1>5, <2>1, NextOpening
<1>6. CASE ~Always
 <2>1. p.start # p.end BY <1>6 DEF Always
 <2>2. \/ Window(t) = NoWindow /\ Current(p, t) = {}
       \/ \E d : DayAt(p, d, t) /\ Window(t) = Span(p, d) /\ NextBoundary(t) = Span(p, d).end
   BY <2>1, <1>1, WindowIs
 <2> QED BY <2>2, <1>2, <1>4, <1>5, <1>6
<1> QED BY <1>3, <1>6

(* While a window holds it is the window, and its start tells it from     *)
(* others.                                                                *)
LEMMA WindowHolds ==
  ASSUME plan \in Plans, NEW u \in Times, NEW t \in Times, Window(u) # NoWindow
  PROVE  /\ Holds(Window(u), t) => Window(t) = Window(u)
         /\ Window(t).start = Window(u).start => Window(t) = Window(u)
<1> DEFINE p == plan
<1>1. /\ Window(t) = Hour(p, t).window /\ Window(u) = Hour(p, u).window BY HourOfPlan
<1>2. p.start # p.end BY InWindow DEF Always
<1>3. PICK d : DayAt(p, d, u) /\ Window(u) = Span(p, d) BY <1>1, <1>2, WindowIs
<1>4. d \in Int /\ Real(p, d) BY <1>3 DEF DayAt
<1>5. ASSUME Holds(Window(u), t) PROVE Window(t) = Window(u)
 <2>1. DayAt(p, d, t) BY <1>3, <1>4, <1>5 DEF DayAt
 <2> QED BY <2>1, <1>1, <1>2, <1>3, WindowIs
<1>6. ASSUME Window(t).start = Window(u).start PROVE Window(t) = Window(u)
 <2>1. Window(t) # NoWindow BY <1>6, InWindow DEF NoWindow
 <2>2. PICK x : DayAt(p, x, t) /\ Window(t) = Span(p, x) BY <2>1, <1>1, <1>2, WindowIs
 <2>3. x \in Int /\ Real(p, x) BY <2>2 DEF DayAt
 <2>4. /\ Span(p, d).start \in Nat /\ Span(p, d).end \in Nat
       /\ Span(p, d).start < Span(p, d).end
       /\ Span(p, x).start \in Nat /\ Span(p, x).end \in Nat
       /\ Span(p, x).start < Span(p, x).end
   BY <1>2, <1>4, <2>3, SpanOrder
 <2>5. Span(p, d).start = Span(p, x).start BY <1>3, <1>6, <2>2
 <2>6. ~ (d < x)
  <3> SUFFICES ASSUME d < x PROVE FALSE OBVIOUS
  <3>1. Span(p, d).end < Span(p, x).start BY <1>4, <2>3, SpansApart
  <3> QED BY <3>1, <2>4, <2>5
 <2>7. ~ (x < d)
  <3> SUFFICES ASSUME x < d PROVE FALSE OBVIOUS
  <3>1. Span(p, x).end < Span(p, d).start BY <1>4, <2>3, SpansApart
  <3> QED BY <3>1, <2>4, <2>5
 <2>8. d = x BY <2>6, <2>7, <1>4, <2>3
 <2> QED BY <2>8, <1>3, <2>2
<1> QED BY <1>5, <1>6

\* Until the next boundary the window stays the same.
LEMMA UntilBoundary ==
  ASSUME plan \in Plans, NEW t \in Times, NEW u \in Times, t <= u,
         NextBoundary(t) = None \/ u < NextBoundary(t)
  PROVE  Window(u) = Window(t)
<1> DEFINE p == plan
<1>1. /\ Window(t) = Hour(p, t).window /\ Window(u) = Hour(p, u).window
      /\ NextBoundary(t) = Hour(p, t).next
  BY HourOfPlan
<1>2. t \in Nat /\ u \in Nat BY Numbers DEF Times
<1>3. CASE p.start = p.end BY <1>3, <1>1, WindowIs
<1>4. ASSUME p.start # p.end, NEW d, DayAt(p, d, t), Window(t) = Span(p, d),
             NextBoundary(t) = Span(p, d).end
      PROVE  Window(u) = Window(t)
 <2>1. d \in Int /\ Real(p, d) /\ Holds(Span(p, d), t) BY <1>4 DEF DayAt
 <2>2. /\ Span(p, d).start \in Nat /\ Span(p, d).end \in Nat
       /\ 0 < Span(p, d).start /\ Span(p, d).start < Span(p, d).end
   BY <2>1, <1>4, SpanOrder
 <2>3. Window(t) # NoWindow BY <2>2, <1>4 DEF NoWindow, None
 <2>4. Holds(Window(t), u) BY <2>1, <2>2, <1>2, <1>4 DEF Holds, None
 <2> QED BY <2>3, <2>4, WindowHolds
<1>5. ASSUME p.start # p.end, Current(p, t) = {}, Window(t) = NoWindow
      PROVE  Window(u) = Window(t)
 <2> SUFFICES ASSUME Window(u) # NoWindow PROVE FALSE BY <1>5
 <2>1. PICK d : DayAt(p, d, u) /\ Window(u) = Span(p, d) BY <1>1, <1>5, WindowIs
 <2>2. d \in Int /\ Real(p, d) /\ Span(p, d).start <= u /\ u < Span(p, d).end
   BY <2>1 DEF DayAt, Holds
 <2>3. Span(p, d).start \in Nat /\ Span(p, d).end \in Nat BY <2>2, <1>5, SpanOrder
 <2>4. t < Span(p, d).start
  <3> SUFFICES ASSUME ~ (t < Span(p, d).start) PROVE FALSE OBVIOUS
  <3>1. Holds(Span(p, d), t) BY <2>2, <2>3, <1>2 DEF Holds
  <3>2. Span(p, d) \in Current(p, t) BY <3>1, <2>2, <1>5, CurrentIs DEF DayAt
  <3> QED BY <3>2, <1>5
 <2>5. NextBoundary(t) <= Span(p, d).start /\ NextBoundary(t) \in Nat /\ t < NextBoundary(t)
   BY <2>2, <2>4, <1>1, <1>5, NextOpening
 <2> QED BY <2>2, <2>3, <2>5, <1>2 DEF None
<1> QED BY <1>1, <1>3, <1>4, <1>5, WindowIs

-----------------------------------------------------------------------------
(* LeftOpenMonitor                                                        *)

\* A monitor as evaluations leave it and a restart restores it.
Fits(m) ==
  /\ m \in Monitor
  /\ m.qualified => Always \/ m.window # NoWindow
  /\ m.window = NoWindow \/ \E u \in Times : m.window = Window(u)

(* The check is removed when its window is over: starts tell windows      *)
(* apart.                                                                 *)
LEMMA RemovedIs ==
  ASSUME plan \in Plans, NEW m, Fits(m), NEW t \in Times
  PROVE  Removed(m, t) <=> m.window # NoWindow /\ m.window # Window(t)
<1>1. CASE m.window = NoWindow BY <1>1 DEF Removed
<1>2. CASE m.window # NoWindow
 <2>1. PICK u \in Times : m.window = Window(u) BY <1>2 DEF Fits
 <2>2. Window(t).start = Window(u).start => Window(t) = Window(u) BY <1>2, <2>1, WindowHolds
 <2> QED BY <1>2, <2>1, <2>2 DEF Removed
<1> QED BY <1>1, <1>2

\* What is left of the countdown and of qualification when t is evaluated.
OldSince(m, t) == IF Removed(m, t) THEN None ELSE m.since
(* And of its qualification.                                              *)
OldQualified(m, t) == ~Removed(m, t) /\ m.qualified

(* The monitor once the window of t is looked up.                         *)
LEMMA EnteredIs ==
  ASSUME NEW m \in Monitor, NEW t \in Times, plan \in Plans
  PROVE  /\ Entered(m, t) \in Monitor
         /\ Entered(m, t).window = Window(t)
         /\ Entered(m, t).since = OldSince(m, t)
         /\ Entered(m, t).qualified = OldQualified(m, t)
<1>1. Window(t) \in [start : Nat, end : Nat] BY InWindow
<1>2. NoWindow \in [start : Nat, end : Nat] /\ None \in Nat BY DEF NoWindow, None
<1>3. Fresh \in Monitor /\ Fresh.since = None /\ Fresh.qualified = FALSE BY <1>2 DEF Fresh, Monitor
<1>4. CASE Removed(m, t)
 <2>1. Entered(m, t) = [Fresh EXCEPT !.window = Window(t)] BY <1>4 DEF Entered
 <2> QED BY <2>1, <1>1, <1>3, <1>4 DEF Monitor, OldSince, OldQualified
<1>5. CASE ~Removed(m, t)
 <2>1. Entered(m, t) = [m EXCEPT !.window = Window(t)] BY <1>5 DEF Entered
 <2>2. m.qualified \in BOOLEAN BY DEF Monitor
 <2>3. /\ Entered(m, t) \in Monitor
       /\ Entered(m, t).window = Window(t)
       /\ Entered(m, t).since = m.since
       /\ Entered(m, t).qualified = m.qualified
   BY <2>1, <1>1 DEF Monitor
 <2>4. OldSince(m, t) = m.since BY <1>5 DEF OldSince
 <2>5. OldQualified(m, t) = m.qualified BY <1>5, <2>2 DEF OldQualified
 <2> QED BY <2>3, <2>4, <2>5
<1> QED BY <1>4, <1>5

\* What an evaluation makes of the countdown.
Counting(s, q, c, w, t) ==
  CASE ~Active(t) \/ c # "on" -> None
    [] Active(t) /\ c = "on" /\ q -> s
    [] Active(t) /\ c = "on" /\ ~q /\ w # "outside" -> None
    [] OTHER -> IF s = None THEN t ELSE s

(* Counting, case by case.                                                *)
LEMMA CountingIs ==
  ASSUME NEW s, NEW q \in BOOLEAN, NEW c, NEW w, NEW t
  PROVE  /\ ~Active(t) \/ c # "on" => Counting(s, q, c, w, t) = None
         /\ Active(t) /\ c = "on" /\ q => Counting(s, q, c, w, t) = s
         /\ Active(t) /\ c = "on" /\ ~q /\ w # "outside" => Counting(s, q, c, w, t) = None
         /\ Active(t) /\ c = "on" /\ ~q /\ w = "outside" =>
              Counting(s, q, c, w, t) = IF s = None THEN t ELSE s
  BY DEF Counting

(* evaluate: the monitor afterwards.                                      *)
LEMMA EvaluatedIs ==
  ASSUME plan \in Plans, NEW m, Fits(m), NEW c, NEW w, NEW t \in Times
  PROVE  LET v == Evaluated(m, c, w, t)
         IN /\ v \in Monitor /\ Fits(v)
            /\ v.window = Window(t)
            /\ v.since = Counting(OldSince(m, t), OldQualified(m, t), c, w, t)
            /\ v.qualified <=>
                 /\ Active(t) /\ c # "off"
                 /\ \/ OldQualified(m, t)
                    \/ c = "on" /\ w = "outside" /\ t >= v.since + plan.duration
<1> DEFINE e == Entered(m, t)
           v == Evaluated(m, c, w, t)
<1>1. m \in Monitor BY DEF Fits
<1>2. /\ e \in Monitor /\ e.window = Window(t) /\ e.since = OldSince(m, t)
      /\ e.qualified = OldQualified(m, t)
  BY <1>1, EnteredIs
<1>3. v = [since |-> Since(e, c, w, t), qualified |-> Qualified(e, c, w, t),
           window |-> e.window]
  BY DEF Evaluated
<1>4. /\ v.since = Since(e, c, w, t) /\ v.window = Window(t)
      /\ v.qualified = Qualified(e, c, w, t)
  BY <1>2, <1>3
<1>5. Since(e, c, w, t) = Counting(e.since, e.qualified, c, w, t) BY DEF Since, Counting
<1>6. Since(e, c, w, t) = Counting(OldSince(m, t), OldQualified(m, t), c, w, t)
 <2> HIDE DEF e
 <2> QED BY <1>2, <1>5
<1>7. Qualified(e, c, w, t) \in BOOLEAN BY DEF Qualified
<1>8. Since(e, c, w, t) \in Nat
 <2>1. e.since \in Nat /\ e.qualified \in BOOLEAN /\ t \in Nat BY <1>2, Numbers DEF Monitor, Times
 <2> HIDE DEF e
 <2>2. Counting(e.since, e.qualified, c, w, t) \in {None, e.since, t} BY <2>1, CountingIs
 <2> QED BY <2>1, <2>2, <1>5 DEF None
<1>9. v \in Monitor
 <2>1. Window(t) \in [start : Nat, end : Nat] BY InWindow
 <2> HIDE DEF e
 <2> QED BY <2>1, <1>2, <1>3, <1>7, <1>8 DEF Monitor
<1>10. Qualified(e, c, w, t) <=>
         /\ Active(t) /\ c # "off"
         /\ \/ OldQualified(m, t)
            \/ c = "on" /\ w = "outside" /\ t >= Since(e, c, w, t) + plan.duration
 <2>1. e.qualified <=> OldQualified(m, t) BY <1>2
 <2> HIDE DEF e
 <2> QED BY <2>1 DEF Qualified, Ripe
<1>11. Fits(v)
 <2>1. v.qualified => Always \/ v.window # NoWindow BY <1>4, <1>10 DEF Active
 <2> QED BY <1>4, <1>9, <2>1 DEF Fits
<1> QED BY <1>4, <1>6, <1>9, <1>10, <1>11

(* evaluate: what is reported to the library.                             *)
LEMMA StatusIs ==
  ASSUME plan \in Plans, NEW m, Fits(m), NEW c \in Contacts, NEW w \in Temperatures,
         NEW t \in Times
  PROVE  LET v == Evaluated(m, c, w, t)
         IN /\ Status(m, c, w, t) \in {"fail", "pass", "unknown"}
            /\ Status(m, c, w, t) = "fail" <=> v.qualified /\ c = "on"
            /\ Status(m, c, w, t) = "pass" => ~v.qualified
            /\ Status(m, c, w, t) = "unknown" =>
                 (v.qualified <=> OldQualified(m, t))
            /\ OldQualified(m, t) /\ Active(t) /\ c # "off" => Status(m, c, w, t) # "pass"
<1> DEFINE v == Evaluated(m, c, w, t)
<1>1. v.qualified <=>
                 /\ Active(t) /\ c # "off"
                 /\ \/ OldQualified(m, t)
                    \/ c = "on" /\ w = "outside" /\ t >= v.since + plan.duration
  BY EvaluatedIs
<1>2. /\ Active(t) /\ c = "on" /\ v.qualified => Status(m, c, w, t) = "fail"
      /\ Active(t) /\ c = "missing" => Status(m, c, w, t) = "unknown"
      /\ Active(t) /\ c = "on" /\ w = "missing" /\ ~v.qualified =>
           Status(m, c, w, t) = "unknown"
      /\ ~ (Active(t) /\ c = "on" /\ v.qualified) /\ ~ (Active(t) /\ c = "missing")
           /\ ~ (Active(t) /\ c = "on" /\ w = "missing" /\ ~v.qualified) =>
           Status(m, c, w, t) = "pass"
  BY DEF Status
<1> HIDE DEF v
<1>3. c \in {"on", "off", "missing"} BY DEF Contacts
<1> QED BY <1>1, <1>2, <1>3 DEF v

-----------------------------------------------------------------------------
(* Episodes and their history                                             *)

\* The episodes are numbered in the order they were opened; the open one, if
\* any, is the last.
Numbered(i, e, c) ==
  \E n \in Nat : e \cup c = 1 .. n /\ (i # None => i = n + 1)

\* An issue and its history, with the monitor they were made with.
Record(m, i, e, c, r) ==
  /\ i \in 0 .. MaxIssues
  /\ e \subseteq Issues /\ c \subseteq Issues /\ r \subseteq Issues
  /\ Fits(m)
  /\ m.qualified <=> i # None
  /\ Numbered(i, e, c)
  /\ r \subseteq e \cup c \cup {i}

(* The history has the end of the window the open issue was opened in.    *)
Cut(m, i) == i # None => cutoff[i] = m.window.end

(* The open episode is not history yet.                                   *)
LEMMA NotOpenTwice ==
  ASSUME NEW i, NEW e, NEW c, Numbered(i, e, c), i # None
  PROVE  i \notin e \cup c
  BY DEF Numbered

\* The number of the next episode.
LEMMA NextNumber ==
  ASSUME NEW i, NEW e, NEW c, Numbered(i, e, c)
  PROVE  Numbered(Cardinality(e \cup c) + 1, e, c) /\ Cardinality(e \cup c) \in Nat
<1>1. PICK n \in Nat : e \cup c = 1 .. n BY DEF Numbered
<1>2. Cardinality(1 .. n) = n BY FS_Interval
<1> QED BY <1>1, <1>2 DEF Numbered

\* The open episode becomes history.
LEMMA OneMore ==
  ASSUME NEW i, NEW e, NEW c, NEW e2, NEW c2, Numbered(i, e, c),
         e2 \cup c2 = e \cup c \cup ({i} \ {None})
  PROVE  Numbered(None, e2, c2)
<1>1. PICK n \in Nat : e \cup c = 1 .. n /\ (i # None => i = n + 1) BY DEF Numbered
<1>2. CASE i = None BY <1>1, <1>2 DEF Numbered
<1>3. CASE i # None
 <2>1. e2 \cup c2 = (1 .. n) \cup {n + 1} BY <1>1, <1>3
 <2>2. (1 .. n) \cup {n + 1} = 1 .. (n + 1) OBVIOUS
 <2> QED BY <2>1, <2>2 DEF Numbered
<1> QED BY <1>2, <1>3

\* Observe, in parts.
Left(t) == IF Removed(monitor, t) THEN None ELSE issue
(* The episodes that ended with their window, this one included.          *)
Over(t) == ended \cup (IF Removed(monitor, t) THEN {issue} \ {None} ELSE {})
(* The number an issue opened now gets.                                   *)
NewId(t) == Cardinality(Over(t) \cup cleared) + 1
(* The observation opens an issue.                                        *)
Raises(c, w, t) == Status(monitor, c, w, t) = "fail" /\ Left(t) = None

(* Observe, case by case.                                                 *)
LEMMA ObserveIs ==
  ASSUME NEW c, NEW w, NEW t, Observe(c, w, t)
  PROVE  /\ Raises(c, w, t) => NewId(t) \in Issues
         /\ monitor' = Evaluated(monitor, c, w, t)
         /\ deadline' = Deadline(monitor', t)
         /\ ended' = Over(t)
         /\ Status(monitor, c, w, t) = "pass" => cleared' = cleared \cup ({Left(t)} \ {None})
         /\ Status(monitor, c, w, t) # "pass" => cleared' = cleared
         /\ Raises(c, w, t) => /\ issue' = NewId(t)
                               /\ requests' = requests \cup {NewId(t)}
                               /\ cutoff' = [cutoff EXCEPT ![NewId(t)] = monitor'.window.end]
         /\ ~Raises(c, w, t) => requests' = requests /\ cutoff' = cutoff
         /\ Status(monitor, c, w, t) = "pass" => issue' = None
         /\ ~Raises(c, w, t) /\ Status(monitor, c, w, t) # "pass" => issue' = Left(t)
  BY DEF Observe, Left, Over, NewId, Raises

(* Removing the check ends the open episode, if there is one, and forgets *)
(* that the monitor qualified.                                            *)
LEMMA LeftIs ==
  ASSUME plan \in Plans, NEW t \in Times, Record(monitor, issue, ended, cleared, requests)
  PROVE  /\ Numbered(Left(t), Over(t), cleared)
         /\ Left(t) \in {None, issue}
         /\ Over(t) \cup cleared \cup {Left(t)} \cup {None} = ended \cup cleared \cup {issue} \cup {None}
         /\ Over(t) \subseteq Issues /\ Left(t) \in 0 .. MaxIssues
         /\ OldQualified(monitor, t) <=> Left(t) # None
<1>1. issue \in 0 .. MaxIssues /\ (issue # None => issue \in Issues) /\ ended \subseteq Issues
  BY LeftOpenBounds DEF Record, Issues, None
<1>2. Numbered(issue, ended, cleared) /\ (monitor.qualified <=> issue # None) BY DEF Record
<1>3. CASE Removed(monitor, t)
 <2>1. Left(t) = None /\ Over(t) = ended \cup ({issue} \ {None}) BY <1>3 DEF Left, Over
 <2>2. Numbered(None, Over(t), cleared)
  <3>1. Over(t) \cup cleared = ended \cup cleared \cup ({issue} \ {None}) BY <2>1
  <3> QED BY <3>1, <1>2, OneMore
 <2>3. None \in 0 .. MaxIssues BY LeftOpenBounds DEF None
 <2> QED BY <1>1, <1>3, <2>1, <2>2, <2>3 DEF OldQualified
<1>4. CASE ~Removed(monitor, t)
 <2>1. Left(t) = issue /\ Over(t) = ended BY <1>4 DEF Left, Over
 <2> QED BY <1>1, <1>2, <1>4, <2>1 DEF OldQualified
<1> QED BY <1>3, <1>4

\* What an observation does to the issue and its history.
LEMMA ObserveKeepsRecord ==
  ASSUME plan \in Plans, NEW c \in Contacts, NEW w \in Temperatures, NEW t \in Times,
         Record(monitor, issue, ended, cleared, requests), Cut(monitor, issue),
         cutoff \in [Issues -> Nat],
         Observe(c, w, t), plan' = plan
  PROVE  /\ Record(monitor, issue, ended, cleared, requests)'
         /\ Cut(monitor, issue)'
         /\ cutoff' \in [Issues -> Nat]
         /\ ended \subseteq ended' /\ cleared \subseteq cleared'
         /\ issue \in {None, issue'} \cup ended' \cup cleared'
         /\ \A i \in ended \cup cleared : cutoff'[i] = cutoff[i]
         /\ issue # None => cutoff'[issue] = cutoff[issue]
<1> DEFINE v == Evaluated(monitor, c, w, t)
           s == Status(monitor, c, w, t)
<1>1. Fits(monitor) BY DEF Record
<1>2. v \in Monitor /\ Fits(v) /\ v.window = Window(t) BY <1>1, EvaluatedIs
<1>3. /\ s \in {"fail", "pass", "unknown"}
      /\ s = "fail" <=> v.qualified /\ c = "on"
      /\ s = "pass" => ~v.qualified
      /\ s = "unknown" => (v.qualified <=> OldQualified(monitor, t))
  BY <1>1, StatusIs
<1>4. /\ Numbered(Left(t), Over(t), cleared)
      /\ Left(t) \in {None, issue}
      /\ Over(t) \cup cleared \cup {Left(t)} \cup {None} = ended \cup cleared \cup {issue} \cup {None}
      /\ Over(t) \subseteq Issues /\ Left(t) \in 0 .. MaxIssues
      /\ OldQualified(monitor, t) <=> Left(t) # None
  BY LeftIs
<1>5. /\ Raises(c, w, t) => NewId(t) \in Issues
      /\ monitor' = v
      /\ ended' = Over(t)
      /\ s = "pass" => cleared' = cleared \cup ({Left(t)} \ {None})
      /\ s # "pass" => cleared' = cleared
      /\ Raises(c, w, t) => /\ issue' = NewId(t)
                            /\ requests' = requests \cup {NewId(t)}
                            /\ cutoff' = [cutoff EXCEPT ![NewId(t)] = monitor'.window.end]
      /\ ~Raises(c, w, t) => requests' = requests /\ cutoff' = cutoff
      /\ s = "pass" => issue' = None
      /\ ~Raises(c, w, t) /\ s # "pass" => issue' = Left(t)
  BY ObserveIs
<1>6. Raises(c, w, t) <=> s = "fail" /\ Left(t) = None BY DEF Raises
<1>7. /\ issue \in 0 .. MaxIssues /\ cleared \subseteq Issues /\ requests \subseteq Issues
      /\ requests \subseteq ended \cup cleared \cup {issue}
      /\ monitor.qualified <=> issue # None
      /\ Numbered(issue, ended, cleared)
  BY DEF Record
<1>8. 0 \notin Issues /\ None = 0 /\ Issues \subseteq 0 .. MaxIssues
      /\ \A i \in 0 .. MaxIssues : i # None => i \in Issues
  BY LeftOpenBounds DEF Issues, None
<1>9. Fits(monitor)'
 <2>1. v = monitor' BY <1>5
 <2>2. \A x : Window(x)' = Window(x) BY DEF Window
 <2>3. Always' <=> Always BY DEF Always
 <2> QED BY <2>1, <2>2, <2>3, <1>2, <1>5 DEF Fits, Monitor
<1> HIDE DEF v, s
<1>12. requests \subseteq Over(t) \cup cleared \cup {Left(t)}
 <2>1. ASSUME NEW r \in requests PROVE r \in Over(t) \cup cleared \cup {Left(t)}
  <3>1. r # None /\ r \in ended \cup cleared \cup {issue} BY <1>7, <1>8
  <3>2. r \in Over(t) \cup cleared \cup {Left(t)} \cup {None} BY <3>1, <1>4
  <3> QED BY <3>1, <3>2
 <2> QED BY <2>1
<1>10. CASE Raises(c, w, t)
 <2>1. s = "fail" /\ Left(t) = None /\ v.qualified BY <1>3, <1>6, <1>10
 <2>2. /\ issue' = NewId(t) /\ NewId(t) \in Issues /\ cleared' = cleared
       /\ requests' = requests \cup {NewId(t)}
       /\ cutoff' = [cutoff EXCEPT ![NewId(t)] = monitor'.window.end]
   BY <1>5, <1>10, <2>1
 <2>3. Numbered(NewId(t), Over(t), cleared) BY <1>4, NextNumber DEF NewId
 <2>4. NewId(t) \notin Over(t) \cup cleared BY <2>2, <2>3, <1>8, NotOpenTwice
 <2>5. monitor'.window.end \in Nat BY <1>2, <1>5 DEF Monitor
 <2>6. Cut(monitor, issue)' /\ cutoff' \in [Issues -> Nat] BY <2>2, <2>5 DEF Cut
 <2>7. \A i \in Issues : i \in Over(t) \cup cleared => cutoff'[i] = cutoff[i] BY <2>2, <2>4
 <2>8. Record(monitor, issue, ended, cleared, requests)'
  <3>1. requests' \subseteq ended' \cup cleared' \cup {issue'}
   <4>1. None \notin requests BY <1>7, <1>8
   <4> QED BY <4>1, <1>5, <1>12, <2>1, <2>2
  <3> QED BY <3>1, <1>4, <1>5, <1>7, <1>8, <1>9, <2>1, <2>2, <2>3 DEF Record
 <2>9. ended \subseteq ended' /\ issue \in {None} \cup ended' \cup cleared'
   BY <1>4, <1>5, <2>1, <2>2 DEF Over
 <2>10. issue # None => issue \in Over(t) \cup cleared BY <2>9, <2>2, <1>5
 <2>11. issue # None => issue # issue' BY <2>10, <2>4, <2>2
 <2> QED BY <2>2, <2>6, <2>7, <2>8, <2>9, <2>10, <2>11, <1>4, <1>5, <1>7, <1>8
<1>11. CASE ~Raises(c, w, t)
 <2>1. requests' = requests /\ cutoff' = cutoff BY <1>5, <1>11
 <2>2. CASE s = "pass"
  <3>1. issue' = None /\ cleared' = cleared \cup ({Left(t)} \ {None}) BY <1>5, <2>2
  <3>2. Numbered(None, Over(t), cleared')
   <4>1. Over(t) \cup cleared' = Over(t) \cup cleared \cup ({Left(t)} \ {None}) BY <3>1
   <4> QED BY <4>1, <1>4, OneMore
  <3>3. cleared' \subseteq Issues BY <3>1, <1>4, <1>7, <1>8
  <3>4. requests' \subseteq ended' \cup cleared' \cup {issue'}
   <4>1. None \notin requests BY <1>7, <1>8
   <4> QED BY <4>1, <3>1, <2>1, <1>5, <1>12
  <3>5. Record(monitor, issue, ended, cleared, requests)'
   <4>1. ~monitor'.qualified BY <2>2, <1>3, <1>5
   <4>2. issue' \in 0 .. MaxIssues /\ Numbered(issue', ended', cleared')
     BY <3>1, <3>2, <1>5, LeftOpenBounds DEF None
   <4>3. ended' \subseteq Issues /\ requests' \subseteq Issues BY <2>1, <1>4, <1>5, <1>7
   <4> QED BY <4>1, <4>2, <4>3, <3>1, <3>3, <3>4, <1>9 DEF Record
  <3>6. Cut(monitor, issue)' BY <3>1 DEF Cut
  <3>7. ended \subseteq ended' /\ cleared \subseteq cleared'
        /\ issue \in {None} \cup ended' \cup cleared'
    BY <3>1, <1>4, <1>5 DEF Over
  <3> QED BY <3>5, <3>6, <3>7, <2>1
 <2>3. CASE s # "pass"
  <3>1. issue' = Left(t) /\ cleared' = cleared BY <1>5, <1>11, <2>3
  <3>2. v.qualified <=> Left(t) # None BY <1>3, <1>4, <1>6, <1>11, <2>3
  <3>3. requests' \subseteq ended' \cup cleared' \cup {issue'} BY <3>1, <2>1, <1>5, <1>12
  <3>4. Record(monitor, issue, ended, cleared, requests)'
    BY <3>1, <3>2, <3>3, <2>1, <1>4, <1>5, <1>7, <1>8, <1>9 DEF Record
  <3>5. Cut(monitor, issue)'
   <4> SUFFICES ASSUME issue' # None PROVE cutoff'[issue'] = monitor'.window.end BY DEF Cut
   <4>1. issue' = issue /\ ~Removed(monitor, t) /\ monitor.qualified BY <3>1, <1>4 DEF OldQualified
   <4>2. monitor.window = NoWindow \/ monitor.window = Window(t) BY <4>1, <1>1, RemovedIs
   <4>3. Always \/ monitor.window # NoWindow BY <4>1, <1>1 DEF Fits
   <4>4. monitor.window = Window(t) BY <4>2, <4>3, InWindow
   <4>5. cutoff[issue] = monitor.window.end BY <4>1 DEF Cut
   <4> QED BY <4>1, <4>4, <4>5, <2>1, <1>2, <1>5
  <3>6. ended \subseteq ended' /\ issue \in {None, issue'} \cup ended' \cup cleared'
    BY <3>1, <1>4, <1>5 DEF Over
  <3> QED BY <3>1, <3>4, <3>5, <3>6, <2>1
 <2> QED BY <2>2, <2>3
<1> QED BY <1>10, <1>11

-----------------------------------------------------------------------------
(* Deadlines, types, and what is saved                                    *)

\* The monitor still counts towards qualification.
Counts(m) == m.since # None /\ ~m.qualified

(* The deadline is the earlier of the next boundary and the end of the    *)
(* wait.                                                                  *)
LEMMA DeadlineIs ==
  ASSUME plan \in Plans, NEW m \in Monitor, NEW t \in Times
  PROVE  /\ Deadline(m, t) \in Nat
         /\ NextBoundary(t) # None =>
              Deadline(m, t) # None /\ Deadline(m, t) <= NextBoundary(t)
         /\ Counts(m) => Deadline(m, t) # None /\ Deadline(m, t) <= m.since + plan.duration
         /\ Deadline(m, t) # None =>
              \/ Deadline(m, t) = NextBoundary(t)
              \/ Counts(m) /\ Deadline(m, t) = m.since + plan.duration
<1> DEFINE ripe == IF m.since # None /\ ~m.qualified THEN m.since + plan.duration ELSE None
           due == {NextBoundary(t), ripe} \ {None}
<1>1. Deadline(m, t) = IF due = {} THEN None ELSE Min(due) BY DEF Deadline
<1>2. NextBoundary(t) \in Nat BY InWindow
<1>3. plan.duration \in Nat /\ m.since \in Nat BY PlanFacts DEF PlanOf, Monitor
<1>4. ripe \in Nat BY <1>3 DEF None
<1>5. Counts(m) => ripe = m.since + plan.duration /\ ripe # None BY <1>3 DEF Counts, None
<1>6. ripe # None => Counts(m) BY DEF Counts
<1> HIDE DEF ripe
<1>7. due \subseteq Nat BY <1>2, <1>4
<1>8. \A x : x \in due <=> x \in {NextBoundary(t), ripe} /\ x # None OBVIOUS
<1> HIDE DEF due
<1>9. due # {} => Min(due) \in due /\ \A y \in due : Min(due) <= y BY <1>7, LeastNumber
<1>10. None \in Nat BY DEF None
<1>11. CASE due = {} BY <1>1, <1>5, <1>8, <1>10, <1>11
<1>12. CASE due # {}
 <2>1. Deadline(m, t) \in due /\ \A y \in due : Deadline(m, t) <= y BY <1>1, <1>9, <1>12
 <2> QED BY <2>1, <1>5, <1>6, <1>7, <1>8
<1> QED BY <1>11, <1>12

\* After an evaluation something is due later only.
LEMMA DeadlineLater ==
  ASSUME plan \in Plans, NEW m, Fits(m), NEW c, NEW w, NEW t \in Times
  PROVE  LET v == Evaluated(m, c, w, t)
         IN Deadline(v, t) # None => t < Deadline(v, t)
<1> DEFINE v == Evaluated(m, c, w, t)
<1>1. /\ v \in Monitor
      /\ v.since = Counting(OldSince(m, t), OldQualified(m, t), c, w, t)
      /\ v.qualified <=>
           /\ Active(t) /\ c # "off"
           /\ \/ OldQualified(m, t)
              \/ c = "on" /\ w = "outside" /\ t >= v.since + plan.duration
  BY EvaluatedIs
<1> HIDE DEF v
<1>2. OldQualified(m, t) \in BOOLEAN BY DEF Fits, Monitor, OldQualified
<1>3. ASSUME Counts(v) PROVE t < v.since + plan.duration
 <2>1. v.since # None /\ ~v.qualified BY <1>3 DEF Counts
 <2>2. Active(t) /\ c = "on" BY <2>1, <1>1, <1>2, CountingIs
 <2>3. ~OldQualified(m, t) BY <2>1, <2>2, <1>1
 <2>4. w = "outside" BY <2>1, <2>2, <2>3, <1>1, <1>2, CountingIs
 <2>5. ~ (t >= v.since + plan.duration) BY <2>1, <2>2, <2>4, <1>1
 <2>6. t \in Nat /\ v.since \in Nat /\ plan.duration \in Nat
   BY <1>1, Numbers, PlanFacts DEF PlanOf, Monitor, Times
 <2> QED BY <2>5, <2>6
<1>4. NextBoundary(t) # None => t < NextBoundary(t) BY InWindow
<1>5. Deadline(v, t) # None =>
              \/ Deadline(v, t) = NextBoundary(t)
              \/ Counts(v) /\ Deadline(v, t) = v.since + plan.duration
  BY <1>1, DeadlineIs
<1> QED BY <1>3, <1>4, <1>5 DEF v

(* A captured report.                                                     *)
Item == [contact : Contacts, temperature : Temperatures,
         time : Day .. MaxNow, steady : 0 .. MaxNow]

\* The types of what is neither the issue nor saved.
Plain ==
  /\ plan \in Plans /\ now \in Day .. MaxNow
  /\ contact \in Contacts /\ temperature \in Temperatures
  /\ queue \in Seq(Item)
  /\ pc \in {"idle", "first", "drain", "read", "save"}
  /\ refreshing \in BOOLEAN
  /\ deadline \in Nat /\ timer \in Nat
  /\ steady \in 0 .. MaxNow
  /\ cutoff \in [Issues -> Nat]
  /\ changes \in 0 .. MaxChanges /\ restarts \in 0 .. MaxRestarts

(* What may be saved.                                                     *)
Saved == [monitor : Monitor, issue : 0 .. MaxIssues, ended : SUBSET Issues,
          cleared : SUBSET Issues, requests : SUBSET Issues]

\* The issue and its history, in memory and saved.
Episodes ==
  /\ Record(monitor, issue, ended, cleared, requests) /\ Cut(monitor, issue)
  /\ saved \in Saved
  /\ Record(saved.monitor, saved.issue, saved.ended, saved.cleared, saved.requests)
  /\ Cut(saved.monitor, saved.issue)
  /\ saved.monitor.since = None
  /\ saved.issue \in {None, issue} \cup ended \cup cleared
  /\ saved.ended \subseteq ended /\ saved.cleared \subseteq cleared

(* The types of the present.                                              *)
LEMMA NowIsTime ==
  ASSUME now \in Day .. MaxNow
  PROVE  now \in Times /\ now \in Nat /\ now > 0 /\ Day \in Nat /\ MaxNow \in Nat
  BY Numbers DEF Times

(* The type of the countdown kept as history.                             *)
LEMMA SteadyType ==
  ASSUME NEW c, NEW w, NEW t \in 0 .. MaxNow, steady \in 0 .. MaxNow
  PROVE  Steady(c, w, t) \in 0 .. MaxNow
<1>1. None \in 0 .. MaxNow BY Numbers DEF None
<1>2. Steady(c, w, t) \in {None, steady, t} BY DEF Steady
<1> QED BY <1>1, <1>2

(* The parts of the type invariant.                                       *)
LEMMA TypesTogether ==
  Plain /\ Episodes => TypeOK
<1> SUFFICES ASSUME Plain, Episodes PROVE TypeOK OBVIOUS
<1>1. monitor \in Monitor /\ issue \in 0 .. MaxIssues /\ ended \subseteq Issues
      /\ cleared \subseteq Issues /\ requests \subseteq Issues
  BY DEF Episodes, Record, Fits
<1>2. saved \in Saved BY DEF Episodes
<1> QED BY <1>1, <1>2 DEF Plain, TypeOK, Item, Saved

(* They hold at the first start.                                          *)
LEMMA InitTypes == Init => Plain /\ Episodes
<1> SUFFICES ASSUME Init PROVE Plain /\ Episodes OBVIOUS
<1>1. now \in Day .. MaxNow /\ now \in 0 .. MaxNow /\ None \in 0 .. MaxNow BY Numbers DEF Init, None
<1>2. steady \in 0 .. MaxNow BY <1>1 DEF Init
<1>3. cutoff \in [Issues -> Nat] BY DEF Init, None
<1>4. changes \in 0 .. MaxChanges /\ restarts \in 0 .. MaxRestarts BY LeftOpenBounds DEF Init
<1>5. Plain BY <1>1, <1>2, <1>3, <1>4 DEF Init, Plain, None
<1>6. NoWindow \in [start : Nat, end : Nat] BY DEF NoWindow, None
<1>7. Fresh \in Monitor /\ Fresh.window = NoWindow /\ ~Fresh.qualified /\ Fresh.since = None
  BY <1>6 DEF Fresh, Monitor, None
<1>8. [Fresh EXCEPT !.since = None] = Fresh BY <1>7 DEF Fresh
<1>9. saved = [monitor |-> Fresh, issue |-> None, ended |-> {}, cleared |-> {}, requests |-> {}]
  BY <1>8 DEF Init, Snapshot
<1>10. /\ saved.monitor = Fresh /\ saved.issue = None /\ saved.ended = {}
       /\ saved.cleared = {} /\ saved.requests = {}
  BY <1>9
<1>11. None \in 0 .. MaxIssues BY LeftOpenBounds DEF None
<1>12. Numbered(None, {}, {})
 <2>1. {} \cup {} = 1 .. 0 OBVIOUS
 <2> QED BY <2>1 DEF Numbered
<1>13. Record(Fresh, None, {}, {}, {}) /\ Cut(Fresh, None)
  BY <1>7, <1>11, <1>12 DEF Record, Cut, Fits
<1>14. saved \in Saved BY <1>7, <1>9, <1>11 DEF Saved
<1> QED BY <1>5, <1>7, <1>10, <1>13, <1>14 DEF Init, Episodes

-----------------------------------------------------------------------------
(* Types and episodes, step by step                                       *)

(* The hours depend on the plan alone.                                    *)
LEMMA SameWindows ==
  ASSUME plan' = plan
  PROVE  /\ Always' <=> Always
         /\ \A t : Window(t)' = Window(t) /\ NextBoundary(t)' = NextBoundary(t)
                   /\ (Active(t)' <=> Active(t))
  BY DEF Always, Window, NextBoundary, Active

(* A step that leaves the issue and its history alone.                    *)
LEMMA SameEpisodes ==
  ASSUME Episodes,
         UNCHANGED <<plan, monitor, issue, ended, cleared, requests, cutoff, saved>>
  PROVE  Episodes'
<1>1. /\ Record(monitor, issue, ended, cleared, requests)
      /\ Record(saved.monitor, saved.issue, saved.ended, saved.cleared, saved.requests)
  BY DEF Episodes
<1>2. Record(monitor, issue, ended, cleared, requests)'
  BY <1>1, SameWindows DEF Record, Fits, Numbered
<1>3. Record(saved.monitor, saved.issue, saved.ended, saved.cleared, saved.requests)'
  BY <1>1, SameWindows DEF Record, Fits, Numbered
<1> QED BY <1>2, <1>3 DEF Episodes, Cut, Saved

(* An observation keeps what is saved consistent with the history.        *)
LEMMA ObserveEpisodes ==
  ASSUME Episodes, plan \in Plans, cutoff \in [Issues -> Nat],
         NEW c \in Contacts, NEW w \in Temperatures, NEW t \in Times,
         Observe(c, w, t), UNCHANGED <<plan, saved>>
  PROVE  Episodes' /\ cutoff' \in [Issues -> Nat] /\ deadline' \in Nat
<1>1. /\ Record(monitor, issue, ended, cleared, requests) /\ Cut(monitor, issue)
      /\ Record(saved.monitor, saved.issue, saved.ended, saved.cleared, saved.requests)
      /\ Cut(saved.monitor, saved.issue)
      /\ saved.issue \in {None, issue} \cup ended \cup cleared
      /\ saved.ended \subseteq ended /\ saved.cleared \subseteq cleared
  BY DEF Episodes
<1>2. /\ Record(monitor, issue, ended, cleared, requests)'
      /\ Cut(monitor, issue)'
      /\ cutoff' \in [Issues -> Nat]
      /\ ended \subseteq ended' /\ cleared \subseteq cleared'
      /\ issue \in {None, issue'} \cup ended' \cup cleared'
      /\ \A i \in ended \cup cleared : cutoff'[i] = cutoff[i]
      /\ issue # None => cutoff'[issue] = cutoff[issue]
  BY <1>1, ObserveKeepsRecord
<1>3. Record(saved.monitor, saved.issue, saved.ended, saved.cleared, saved.requests)'
  BY <1>1, SameWindows DEF Record, Fits, Numbered
<1>4. Cut(saved.monitor, saved.issue)' BY <1>1, <1>2 DEF Cut
<1>5. deadline' \in Nat
 <2>1. deadline' = Deadline(monitor', t) BY ObserveIs
 <2>2. monitor' \in Monitor BY <1>2 DEF Record, Fits, Monitor
 <2> QED BY <2>1, <2>2, DeadlineIs
<1> QED BY <1>1, <1>2, <1>3, <1>4, <1>5 DEF Episodes, Saved, Monitor

\* Whoever restarts or saves a monitor forgets its countdown only.
LEMMA ForgetsCountdown ==
  ASSUME NEW m, Fits(m)
  PROVE  LET f == [m EXCEPT !.since = None]
         IN /\ f \in Monitor /\ Fits(f) /\ f.since = None
            /\ f.window = m.window /\ f.qualified = m.qualified
<1>1. m \in Monitor BY DEF Fits
<1>2. /\ [m EXCEPT !.since = None] \in Monitor
      /\ [m EXCEPT !.since = None].since = None
      /\ [m EXCEPT !.since = None].window = m.window
      /\ [m EXCEPT !.since = None].qualified = m.qualified
  BY <1>1 DEF Monitor, None
<1> QED BY <1>2 DEF Fits

(* Saving makes what is saved consistent again.                           *)
LEMMA SaveEpisodes ==
  ASSUME Episodes, UNCHANGED <<plan, monitor, issue, ended, cleared, cutoff>>,
         requests' \subseteq requests,
         saved' = [monitor |-> [monitor EXCEPT !.since = None], issue |-> issue,
                   ended |-> ended, cleared |-> cleared, requests |-> requests']
  PROVE  Episodes'
<1> DEFINE f == [monitor EXCEPT !.since = None]
<1>1. /\ Record(monitor, issue, ended, cleared, requests) /\ Cut(monitor, issue) BY DEF Episodes
<1>2. /\ f \in Monitor /\ Fits(f) /\ f.since = None
      /\ f.window = monitor.window /\ f.qualified = monitor.qualified
  BY <1>1, ForgetsCountdown DEF Record
<1> HIDE DEF f
<1>3. saved' = [monitor |-> f, issue |-> issue,
                ended |-> ended, cleared |-> cleared, requests |-> requests']
  BY DEF f
<1>4. /\ saved'.monitor = f /\ saved'.issue = issue /\ saved'.ended = ended
      /\ saved'.cleared = cleared /\ saved'.requests = requests'
  BY <1>3
<1>5. requests' \subseteq Issues /\ requests' \subseteq ended \cup cleared \cup {issue}
  BY <1>1 DEF Record
<1>6. Record(monitor, issue, ended, cleared, requests)'
  BY <1>1, <1>5, SameWindows DEF Record, Fits, Numbered
<1>7. Fits(saved.monitor)' BY <1>2, <1>4, SameWindows DEF Fits
<1>8. Record(saved.monitor, saved.issue, saved.ended, saved.cleared, saved.requests)'
  BY <1>1, <1>2, <1>4, <1>5, <1>7 DEF Record, Numbered
<1>9. saved' \in Saved BY <1>1, <1>2, <1>3, <1>5 DEF Saved, Record
<1>10. Cut(monitor, issue)' /\ Cut(saved.monitor, saved.issue)' BY <1>1, <1>2, <1>4 DEF Cut
<1> QED BY <1>2, <1>4, <1>6, <1>8, <1>9, <1>10 DEF Episodes, Saved

(* Types and episodes when time passes.                                   *)
LEMMA TickTypes == Plain /\ Episodes /\ Tick => Plain' /\ Episodes'
<1> SUFFICES ASSUME Plain, Episodes, Tick PROVE Plain' /\ Episodes' OBVIOUS
<1>1. Episodes' BY SameEpisodes DEF Tick, lifecycle
<1>2. now' \in Day .. MaxNow BY Numbers DEF Plain, Tick
<1>3. steady' \in 0 .. MaxNow BY <1>2, Numbers, SteadyType DEF Plain, Tick
<1> QED BY <1>1, <1>2, <1>3 DEF Plain, Tick, inputs, section, lifecycle

\* The captured report.
Capture == [contact |-> contact', temperature |-> temperature', time |-> now, steady |-> steady']

(* Types and episodes when Home Assistant reports.                        *)
LEMMA ReportTypes ==
  ASSUME Plain, Episodes, NEW c \in Contacts, NEW w \in Temperatures, Report(c, w)
  PROVE  /\ Plain' /\ Episodes'
         /\ pc # "first" => queue' = Append(queue, Capture)
<1>1. Episodes' BY SameEpisodes DEF Report, lifecycle
<1>2. now \in 0 .. MaxNow BY NowIsTime DEF Plain
<1>3. steady' \in 0 .. MaxNow BY <1>2, SteadyType DEF Plain, Report
<1>4. Capture \in Item BY <1>3 DEF Plain, Report, Item, Capture
<1>5. pc # "first" => queue' = Append(queue, Capture) BY DEF Report, Capture
<1>6. queue' \in Seq(Item)
 <2>1. CASE pc = "first" BY <2>1 DEF Report, Plain
 <2>2. CASE pc # "first" BY <2>2, <1>4, <1>5 DEF Plain
 <2> QED BY <2>1, <2>2
<1>7. changes' \in 0 .. MaxChanges BY LeftOpenBounds DEF Plain, Report
<1> QED BY <1>1, <1>3, <1>5, <1>6, <1>7 DEF Plain, Report, section, lifecycle

(* Types and episodes when a section begins.                              *)
LEMMA BeginTypes ==
  ASSUME Plain, Episodes, NEW refresh \in BOOLEAN, Begin(refresh)
  PROVE  Plain' /\ Episodes'
<1>1. Episodes' BY SameEpisodes DEF Begin, lifecycle
<1> QED BY <1>1 DEF Plain, Begin, inputs, lifecycle

(* The types of the first report that waits.                              *)
LEMMA HeadIs ==
  ASSUME queue \in Seq(Item), queue # <<>>
  PROVE  /\ Head(queue) \in Item /\ Head(queue) = queue[1]
         /\ Head(queue).contact \in Contacts /\ Head(queue).temperature \in Temperatures
         /\ Head(queue).time \in Times /\ Head(queue).time \in Day .. MaxNow
         /\ Tail(queue) \in Seq(Item) /\ Len(queue) > 0
<1>1. Head(queue) \in Item /\ Head(queue) = queue[1] /\ Tail(queue) \in Seq(Item)
      /\ Len(queue) > 0
  OBVIOUS
<1> QED BY <1>1, Numbers DEF Item, Times

(* Types and episodes when a report is drained.                           *)
LEMMA DrainTypes == Plain /\ Episodes /\ Drain => Plain' /\ Episodes'
<1> SUFFICES ASSUME Plain, Episodes, Drain PROVE Plain' /\ Episodes' OBVIOUS
<1>1. /\ Head(queue).contact \in Contacts /\ Head(queue).temperature \in Temperatures
      /\ Head(queue).time \in Times /\ Tail(queue) \in Seq(Item)
  BY HeadIs DEF Plain, Drain
<1>2. Episodes' /\ cutoff' \in [Issues -> Nat] /\ deadline' \in Nat
  BY <1>1, ObserveEpisodes DEF Plain, Drain
<1> QED BY <1>1, <1>2 DEF Plain, Drain, inputs, section

(* Types and episodes when the queue is empty.                            *)
LEMMA DrainDoneTypes == Plain /\ Episodes /\ DrainDone => Plain' /\ Episodes'
<1> SUFFICES ASSUME Plain, Episodes, DrainDone PROVE Plain' /\ Episodes' OBVIOUS
<1>1. Episodes' BY SameEpisodes DEF DrainDone, lifecycle
<1> QED BY <1>1 DEF Plain, DrainDone, inputs, lifecycle

(* Types and episodes when the present reports are evaluated.             *)
LEMMA EvaluateTypes == Plain /\ Episodes /\ Evaluate => Plain' /\ Episodes'
<1> SUFFICES ASSUME Plain, Episodes, Evaluate PROVE Plain' /\ Episodes' OBVIOUS
<1>1. now \in Times BY NowIsTime DEF Plain
<1>2. Episodes' /\ cutoff' \in [Issues -> Nat] /\ deadline' \in Nat
  BY <1>1, ObserveEpisodes DEF Plain, Evaluate
<1> QED BY <1>2 DEF Plain, Evaluate, inputs

(* Types and episodes when a section completes.                           *)
LEMMA CompleteTypes == Plain /\ Episodes /\ Complete => Plain' /\ Episodes'
<1> SUFFICES ASSUME Plain, Episodes, Complete PROVE Plain' /\ Episodes' OBVIOUS
<1>1. Plain' BY DEF Plain, Complete, inputs, lifecycle
<1>2. CASE saved' = saved BY <1>1, <1>2, SameEpisodes DEF Complete, lifecycle
<1>3. CASE saved' = Snapshot
 <2>1. UNCHANGED <<plan, monitor, issue, ended, cleared, cutoff>> /\ requests' = requests
   BY DEF Complete, lifecycle
 <2>2. saved' = [monitor |-> [monitor EXCEPT !.since = None], issue |-> issue,
                 ended |-> ended, cleared |-> cleared, requests |-> requests']
   BY <1>3, <2>1 DEF Snapshot
 <2> QED BY <1>1, <2>1, <2>2, SaveEpisodes
<1> QED BY <1>1, <1>2, <1>3 DEF Complete

(* Types and episodes when an alert is sent.                              *)
LEMMA SendTypes ==
  ASSUME Plain, Episodes, NEW i \in Issues, Send(i)
  PROVE  Plain' /\ Episodes'
<1>1. Plain' BY DEF Plain, Send, inputs, section
<1>2. UNCHANGED <<plan, monitor, issue, ended, cleared, cutoff>> /\ requests' \subseteq requests
  BY DEF Send
<1>3. saved' = [monitor |-> [monitor EXCEPT !.since = None], issue |-> issue,
                ended |-> ended, cleared |-> cleared, requests |-> requests']
  BY DEF Send, Snapshot
<1> QED BY <1>1, <1>2, <1>3, SaveEpisodes

(* Types and episodes after a restart.                                    *)
LEMMA RestartTypes == Plain /\ Episodes /\ Restart => Plain' /\ Episodes'
<1> SUFFICES ASSUME Plain, Episodes, Restart PROVE Plain' /\ Episodes' OBVIOUS
<1>1. now' \in Day .. MaxNow /\ contact' \in Contacts /\ temperature' \in Temperatures
 <2>1. PICK t \in now .. now + MaxDown, c \in Contacts, w \in Temperatures :
         t <= MaxNow /\ now' = t /\ contact' = c /\ temperature' = w
   BY DEF Restart
 <2> QED BY <2>1, Numbers, LeftOpenBounds DEF Plain
<1>2. steady' \in 0 .. MaxNow
 <2>1. steady' = None \/ steady' = now' BY DEF Restart
 <2> QED BY <2>1, <1>1, Numbers DEF None
<1>3. restarts' \in 0 .. MaxRestarts BY LeftOpenBounds DEF Plain, Restart
<1>4. Plain'
 <2>1. queue' \in Seq(Item) BY DEF Restart
 <2>2. deadline' \in Nat /\ timer' \in Nat BY DEF Restart, None
 <2> QED BY <1>1, <1>2, <1>3, <2>1, <2>2 DEF Plain, Restart
<1>5. /\ Record(saved.monitor, saved.issue, saved.ended, saved.cleared, saved.requests)
      /\ Cut(saved.monitor, saved.issue) /\ saved \in Saved /\ saved.monitor.since = None
  BY DEF Episodes
<1>6. /\ monitor' = saved.monitor /\ issue' = saved.issue /\ ended' = saved.ended
      /\ cleared' = saved.cleared /\ requests' = saved.requests
      /\ UNCHANGED <<plan, saved, cutoff>>
  BY DEF Restart
<1>7. /\ Record(monitor, issue, ended, cleared, requests)'
      /\ Record(saved.monitor, saved.issue, saved.ended, saved.cleared, saved.requests)'
  BY <1>5, <1>6, SameWindows DEF Record, Fits, Numbered
<1>8. Cut(monitor, issue)' /\ Cut(saved.monitor, saved.issue)' BY <1>5, <1>6 DEF Cut
<1> QED BY <1>4, <1>5, <1>6, <1>7, <1>8 DEF Episodes, Saved, Monitor

(* Types and episodes after any step.                                     *)
LEMMA TypesInductive == Plain /\ Episodes /\ [Next]_vars => Plain' /\ Episodes'
<1> SUFFICES ASSUME Plain, Episodes, [Next]_vars PROVE Plain' /\ Episodes' OBVIOUS
<1>1. CASE UNCHANGED vars
 <2>1. Episodes' BY <1>1, SameEpisodes DEF vars, lifecycle
 <2> QED BY <1>1, <2>1 DEF vars, inputs, section, lifecycle, Plain
<1>2. CASE Next
  BY <1>2, TickTypes, ReportTypes, BeginTypes, DrainTypes, DrainDoneTypes, EvaluateTypes,
     CompleteTypes, SendTypes, RestartTypes DEF Next
<1> QED BY <1>1, <1>2

\* Types and episodes at every moment.
LEMMA TypesHold == Spec => [](Plain /\ Episodes)
  BY InitTypes, TypesInductive, PTL DEF Spec

-----------------------------------------------------------------------------
(* Recovery and late alerts                                               *)

\* An observation takes the open issue into the recovered ones only for a report
\* that the opening is closed.
LEMMA RecoveryNeedsClosed ==
  ASSUME Episodes, plan \in Plans, NEW c \in Contacts, NEW w \in Temperatures,
         NEW t \in Times, Observe(c, w, t), issue # None, issue \in cleared'
  PROVE  c = "off"
<1>1. Record(monitor, issue, ended, cleared, requests) BY DEF Episodes
<1>2. issue \notin ended \cup cleared /\ Fits(monitor) /\ monitor.qualified
  BY <1>1, NotOpenTwice DEF Record
<1>3. /\ Status(monitor, c, w, t) = "pass" => cleared' = cleared \cup ({Left(t)} \ {None})
      /\ Status(monitor, c, w, t) # "pass" => cleared' = cleared
  BY ObserveIs
<1>4. Status(monitor, c, w, t) = "pass" /\ Left(t) = issue BY <1>2, <1>3
<1>5. ~Removed(monitor, t) BY <1>4 DEF Left
<1>6. OldQualified(monitor, t) BY <1>2, <1>5 DEF OldQualified
<1>7. Active(t)
 <2>1. monitor.window = NoWindow \/ monitor.window = Window(t) BY <1>2, <1>5, RemovedIs
 <2> QED BY <2>1, <1>2 DEF Fits, Active
<1> QED BY <1>2, <1>4, <1>6, <1>7, StatusIs

\* History claims recovery only after a report that the opening is closed,
\* through whatever gaps, changes of the hours and restarts (evaluate and
\* _observe_left_open: missing evidence is unknown, and the end of a window
\* removes the check instead of passing it).
THEOREM RecoveryOnlyReported == Spec => RecoveryIsReported
<1> DEFINE A == (pc' # "first" /\ issue # None /\ issue \in cleared') =>
                  IF queue' # queue THEN Head(queue).contact = "off" ELSE contact = "off"
<1>1. Plain /\ Episodes /\ [Next]_vars => [A]_vars
 <2> SUFFICES ASSUME Plain, Episodes, Next,
                     pc' # "first", issue # None, issue \in cleared'
              PROVE  IF queue' # queue THEN Head(queue).contact = "off" ELSE contact = "off"
   BY DEF vars
 <2>1. issue \notin cleared BY NotOpenTwice DEF Episodes, Record
 <2>2. CASE Tick BY <2>1, <2>2 DEF Tick, lifecycle
 <2>3. ASSUME NEW c \in Contacts, NEW w \in Temperatures, Report(c, w) PROVE FALSE
   BY <2>1, <2>3 DEF Report, lifecycle
 <2>4. ASSUME NEW refresh \in BOOLEAN, Begin(refresh) PROVE FALSE BY <2>1, <2>4 DEF Begin, lifecycle
 <2>5. CASE Drain
  <3>1. /\ Head(queue).contact \in Contacts /\ Head(queue).temperature \in Temperatures
        /\ Head(queue).time \in Times /\ Len(queue) > 0
    BY <2>5, HeadIs DEF Plain, Drain
  <3>2. Head(queue).contact = "off" BY <3>1, <2>5, RecoveryNeedsClosed DEF Plain, Drain
  <3>3. queue' # queue
   <4>1. queue' = Tail(queue) BY <2>5 DEF Drain
   <4>2. Len(Tail(queue)) = Len(queue) - 1 /\ Len(queue) \in Nat BY <3>1 DEF Plain
   <4> QED BY <4>1, <4>2
  <3> QED BY <3>2, <3>3
 <2>6. CASE DrainDone BY <2>1, <2>6 DEF DrainDone, lifecycle
 <2>7. CASE Evaluate
  <3>1. now \in Times BY NowIsTime DEF Plain
  <3>2. contact = "off" BY <3>1, <2>7, RecoveryNeedsClosed DEF Plain, Evaluate
  <3> QED BY <3>2, <2>7 DEF Evaluate
 <2>8. CASE Complete BY <2>1, <2>8 DEF Complete, lifecycle
 <2>9. ASSUME NEW i \in Issues, Send(i) PROVE FALSE BY <2>1, <2>9 DEF Send
 <2>10. CASE Restart BY <2>10 DEF Restart
 <2> QED BY <2>2, <2>3, <2>4, <2>5, <2>6, <2>7, <2>8, <2>9, <2>10 DEF Next
<1> QED BY <1>1, TypesHold, PTL DEF Spec, RecoveryIsReported

\* No alert leaves after the window its issue was opened in has ended, unless
\* the opening was reported closed (_opening_request_expired looks at the
\* window of the last evaluation, which is the window of the open issue).
THEOREM AlertsInTime == Spec => NoLateAlert
<1> DEFINE A == \A i \in requests \ requests' :
                  pc = "idle" /\ pc' = "idle" =>
                    now < cutoff[i] \/ cutoff[i] = None \/ i \in cleared
<1>1. Plain /\ Episodes /\ [Next]_vars => [A]_vars
 <2> SUFFICES ASSUME Plain, Episodes, Next,
                     NEW i \in requests \ requests', pc = "idle", pc' = "idle"
              PROVE  now < cutoff[i] \/ cutoff[i] = None \/ i \in cleared
   BY DEF vars
 <2>1. Record(monitor, issue, ended, cleared, requests) /\ Cut(monitor, issue) BY DEF Episodes
 <2>2. CASE Tick BY <2>2 DEF Tick, lifecycle
 <2>3. ASSUME NEW c \in Contacts, NEW w \in Temperatures, Report(c, w) PROVE FALSE
   BY <2>3 DEF Report, lifecycle
 <2>4. ASSUME NEW refresh \in BOOLEAN, Begin(refresh) PROVE FALSE BY <2>4 DEF Begin
 <2>5. CASE Drain \/ DrainDone \/ Evaluate \/ Complete \/ Restart
   BY <2>5 DEF Drain, DrainDone, Evaluate, Complete, Restart
 <2>6. ASSUME NEW x \in Issues, Send(x)
       PROVE  now < cutoff[i] \/ cutoff[i] = None \/ i \in cleared
  <3>1. requests' = requests \ {x} /\ ~Expired(x) BY <2>6 DEF Send
  <3>2. i = x BY <3>1
  <3>3. i \in ended \cup cleared \cup {issue} /\ i \in Issues BY <2>1 DEF Record
  <3>4. i # None BY <3>3, LeftOpenBounds DEF Issues, None
  <3>5. CASE i = issue
   <4>1. monitor.window.end = None \/ ~ (now >= monitor.window.end) BY <3>1, <3>2, <3>5 DEF Expired
   <4>2. cutoff[i] = monitor.window.end BY <2>1, <3>4, <3>5 DEF Cut
   <4>3. monitor.window.end \in Nat /\ now \in Nat
     BY <2>1, NowIsTime DEF Record, Fits, Monitor, Plain
   <4> QED BY <4>1, <4>2, <4>3
  <3>6. CASE i # issue BY <3>1, <3>2, <3>3, <3>6 DEF Expired
  <3> QED BY <3>5, <3>6
 <2> QED BY <2>2, <2>3, <2>4, <2>5, <2>6 DEF Next
<1> QED BY <1>1, TypesHold, PTL DEF Spec, NoLateAlert

-----------------------------------------------------------------------------
(* The invariant                                                          *)

(* The reports under which an opening may qualify.                        *)
Open(c, w) == c = "on" /\ w = "outside"

\* r is where the window of b begins, looking back from b to a.
Started(a, r, b) ==
  /\ r \in Nat /\ a <= r /\ r <= b
  /\ \A x \in r .. b : Window(x) = Window(b)
  /\ r = a \/ Window(r - 1) # Window(b)

(* Every time has such a beginning.                                       *)
LEMMA StartExists ==
  ASSUME NEW a \in Nat, NEW b \in Nat, a <= b
  PROVE  \E r \in Nat : Started(a, r, b)
<1> DEFINE T == {x \in a .. b : \A y \in x .. b : Window(y) = Window(b)}
<1>1. T \subseteq Nat /\ b \in T OBVIOUS
<1>2. Min(T) \in T /\ \A y \in T : Min(T) <= y
 <2> HIDE DEF T
 <2> QED BY <1>1, LeastNumber
<1>3. PICK r \in T : \A y \in T : r <= y BY <1>2
<1>4. r \in Nat /\ a <= r /\ r <= b /\ \A y \in r .. b : Window(y) = Window(b) BY <1>3
<1>5. ASSUME r # a PROVE Window(r - 1) # Window(b)
 <2> SUFFICES ASSUME Window(r - 1) = Window(b) PROVE FALSE OBVIOUS
 <2>1. r - 1 \in a .. b BY <1>4, <1>5
 <2>2. \A y \in (r - 1) .. b : y = r - 1 \/ y \in r .. b BY <1>4, <1>5
 <2>3. r - 1 \in T BY <1>4, <2>1, <2>2
 <2> QED BY <1>3, <1>4, <2>3
<1> QED BY <1>4, <1>5 DEF Started

(* It has only one.                                                       *)
LEMMA StartedOnce ==
  ASSUME NEW a \in Nat, NEW b \in Nat, NEW r, NEW s, Started(a, r, b), Started(a, s, b)
  PROVE  r = s
<1>1. r \in Nat /\ s \in Nat /\ a <= r /\ r <= b /\ a <= s /\ s <= b BY DEF Started
<1>2. ~ (r < s)
 <2> SUFFICES ASSUME r < s PROVE FALSE OBVIOUS
 <2>1. s # a /\ s - 1 \in r .. b BY <1>1
 <2> QED BY <2>1 DEF Started
<1>3. ~ (s < r)
 <2> SUFFICES ASSUME s < r PROVE FALSE OBVIOUS
 <2>1. r # a /\ r - 1 \in s .. b BY <1>1
 <2> QED BY <2>1 DEF Started
<1> QED BY <1>1, <1>2, <1>3

\* A window that goes on does not begin anew.
LEMMA StartStays ==
  ASSUME NEW a \in Nat, NEW b \in Nat, NEW c \in Nat, a <= b, b <= c, NEW r,
         Started(a, r, b), \A x \in b .. c : Window(x) = Window(b)
  PROVE  Started(a, r, c)
<1>1. r \in Nat /\ a <= r /\ r <= b BY DEF Started
<1>2. Window(c) = Window(b) BY <1>1
<1>3. ASSUME NEW x \in r .. c PROVE Window(x) = Window(c)
 <2>1. x \in r .. b \/ x \in b .. c BY <1>1
 <2> QED BY <2>1, <1>2 DEF Started
<1> QED BY <1>1, <1>2, <1>3 DEF Started

\* Between two times of one window there is no other.
LEMMA Between ==
  ASSUME plan \in Plans, NEW u \in Times, NEW t \in Times, u <= t, Window(u) = Window(t),
         Active(u)
  PROVE  \A x \in u .. t : Window(x) = Window(u)
<1> SUFFICES ASSUME NEW x \in u .. t PROVE Window(x) = Window(u) OBVIOUS
<1>1. x \in Times BY Numbers DEF Times
<1>2. CASE Always BY <1>1, <1>2, InWindow
<1>3. CASE ~Always
 <2>1. Window(u) # NoWindow BY <1>3 DEF Active
 <2>2. Holds(Window(u), u) /\ Holds(Window(u), t) /\ Window(u) \in [start : Nat, end : Nat]
   BY <2>1, InWindow
 <2>3. Holds(Window(u), x) BY <2>2, <1>1, Numbers DEF Holds, Times
 <2> QED BY <1>1, <2>1, <2>3, WindowHolds
<1> QED BY <1>2, <1>3

\* Who looks at a change of the window no later than a tick after the deadline
\* of the last evaluation sees the new one from its first tick on or the second.
LEMMA SeenInTime ==
  ASSUME plan \in Plans, NEW m \in Monitor, NEW a \in Nat, NEW u \in Times, NEW t \in Times,
         a <= u, u <= t, Window(t) # Window(u),
         Deadline(m, u) # None => t <= Deadline(m, u) + 1,
         NEW r, Started(a, r, t)
  PROVE  r <= t /\ t <= r + 1
<1>1. u \in Nat /\ t \in Nat /\ t <= MaxNow BY Numbers DEF Times
<1>2. r \in Nat /\ a <= r /\ r <= t BY DEF Started
<1>3. NextBoundary(u) # None /\ NextBoundary(u) \in Nat /\ ~ (t < NextBoundary(u))
  BY UntilBoundary, InWindow
<1>4. Deadline(m, u) # None /\ Deadline(m, u) <= NextBoundary(u) /\ Deadline(m, u) \in Nat
  BY <1>3, DeadlineIs
<1>5. ~ (r < NextBoundary(u))
 <2> SUFFICES ASSUME r < NextBoundary(u) PROVE FALSE OBVIOUS
 <2>1. CASE r <= u
  <3>1. u \in r .. t BY <1>1, <1>2, <2>1
  <3> QED BY <3>1 DEF Started
 <2>2. CASE u < r
  <3>1. r \in Times /\ u <= r BY <1>1, <1>2, <2>2, Numbers DEF Times
  <3>2. Window(r) = Window(u) BY <3>1, UntilBoundary
  <3>3. r \in r .. t BY <1>1, <1>2
  <3> QED BY <3>2, <3>3 DEF Started
 <2> QED BY <1>1, <1>2, <2>1, <2>2
<1> QED BY <1>1, <1>2, <1>3, <1>4, <1>5

\* steady counts from where the run of the present window began, back to a.
Runs(a) ==
  IF Qualifies(contact, temperature, now) THEN Started(a, steady, now) ELSE steady = None

\* The monitor has last seen the present reports at u.
Seen(a, u) ==
  /\ u \in Nat /\ a <= u /\ u <= now
  /\ monitor.window = Window(u)
  /\ deadline = Deadline(monitor, u)
  /\ monitor.qualified => contact # "off" /\ Active(u)
  /\ ~monitor.qualified /\ Qualifies(contact, temperature, u) =>
       \E r \in Nat : Started(a, r, u) /\ r <= monitor.since /\ monitor.since <= r + 1
  /\ ~monitor.qualified /\ ~Qualifies(contact, temperature, u) => monitor.since = None

\* Of the present reports the last was made at a, and what came before is done with.
Story(a) ==
  /\ a \in Day .. now
  /\ Runs(a)
  /\ queue # <<>> => a = queue[Len(queue)].time
  /\ pc = "first" => a = now
  /\ pc # "first" /\ queue = <<>> => \E u \in Times : Seen(a, u)

(* Captured within the last tick.                                         *)
Fresher(item) == now - 1 <= item.time /\ item.time <= now

(* The history the report was captured with: it breaks the countdown or   *)
(* begins it.                                                             *)
Counted(item) ==
  item.steady = IF Qualifies(item.contact, item.temperature, item.time)
                  THEN item.time ELSE None

\* What waits was captured within a tick, ends with the present reports, and has
\* the countdown of the monitor begin with the opening it reports.
Waiting ==
  /\ \A k \in 1 .. Len(queue) : Fresher(queue[k]) /\ Counted(queue[k])
  /\ \A k \in 1 .. Len(queue) - 1 :
       ~ (Open(queue[k].contact, queue[k].temperature)
            /\ Open(queue[k + 1].contact, queue[k + 1].temperature))
  /\ queue # <<>> => /\ contact = queue[Len(queue)].contact
                     /\ temperature = queue[Len(queue)].temperature
  /\ queue # <<>> /\ Open(queue[1].contact, queue[1].temperature) /\ ~monitor.qualified =>
       monitor.since \in {None, queue[1].time, queue[1].time + 1}
  /\ deadline # None => now <= deadline + 1
  /\ pc = "idle" => timer = deadline
  /\ pc = "first" => queue = <<>> /\ monitor.since = None

(* The inductive invariant.  IssueTimely speaks of moments when nothing   *)
(* is due, so that what is due has to be known at every other moment.     *)
IInv == Plain /\ Episodes /\ Waiting /\ \E a \in Nat : Story(a)

(* An opening qualifies by its reports and by the hours.                  *)
LEMMA QualifiesIs ==
  \A c, w, t : Qualifies(c, w, t) <=> Open(c, w) /\ Active(t)
  BY DEF Qualifies, Open

(* Times of one window are both in hours or both out of them.             *)
LEMMA ActiveIs ==
  ASSUME NEW t, NEW u, Window(t) = Window(u)
  PROVE  Active(t) <=> Active(u)
  BY DEF Active

(* It holds at the first start.                                           *)
LEMMA InitInv == Init => IInv
<1> SUFFICES ASSUME Init PROVE IInv OBVIOUS
<1>1. Plain /\ Episodes BY InitTypes
<1>2. queue = <<>> /\ pc = "first" /\ deadline = None /\ now = Day /\ monitor.since = None
  BY DEF Init, Fresh
<1>3. Waiting BY <1>2 DEF Waiting
<1>4. now \in Nat /\ now \in Day .. now BY <1>1, <1>2, Numbers
<1>5. Started(now, now, now)
 <2>1. \A x \in now .. now : x = now BY <1>4
 <2> QED BY <1>4, <2>1 DEF Started
<1>6. Runs(now) BY <1>5 DEF Init, Runs
<1>7. Story(now) BY <1>2, <1>4, <1>6 DEF Story
<1> QED BY <1>1, <1>3, <1>4, <1>7 DEF IInv

-----------------------------------------------------------------------------
(* Steps that observe nothing                                             *)

\* Steps that leave the monitor, the queue and the present reports alone.
LEMMA SameStory ==
  ASSUME NEW a \in Nat, Story(a),
         UNCHANGED <<plan, now, contact, temperature, queue, monitor, deadline, steady>>,
         pc' # "first", pc # "first"
  PROVE  Story(a)'
<1>1. Runs(a)' BY SameWindows DEF Story, Runs, Started, Qualifies
<1>2. ASSUME NEW u \in Times, Seen(a, u) PROVE Seen(a, u)'
 <2>1. /\ Window(u)' = Window(u) /\ (Active(u)' <=> Active(u))
       /\ Qualifies(contact, temperature, u)' <=> Qualifies(contact, temperature, u)
   BY SameWindows DEF Qualifies
 <2>2. Deadline(monitor, u)' = Deadline(monitor, u)
  <3>1. NextBoundary(u)' = NextBoundary(u) /\ monitor' = monitor /\ plan' = plan BY SameWindows
  <3> QED BY <3>1, Zenon DEF Deadline
 <2>3. \A r : Started(a, r, u)' <=> Started(a, r, u) BY SameWindows DEF Started
 <2> QED BY <1>2, <2>1, <2>2, <2>3 DEF Seen
<1> QED BY <1>1, <1>2 DEF Story

(* The countdown kept as history when time passes.                        *)
LEMMA SteadyTick ==
  ASSUME plan \in Plans, NEW a \in Nat, now \in Day .. MaxNow, a <= now, Day <= a, Runs(a),
         now < MaxNow, now' = now + 1, steady' = Steady(contact, temperature, now + 1),
         UNCHANGED <<plan, contact, temperature>>
  PROVE  Runs(a)'
<1>1. now \in Nat /\ now > 0 /\ now \in Times /\ now + 1 \in Times BY Numbers DEF Times
<1>2. /\ \A x : Window(x)' = Window(x) /\ (Active(x)' <=> Active(x)) BY SameWindows
<1>3. Qualifies(contact, temperature, now)' <=> Qualifies(contact, temperature, now + 1)
  BY <1>2 DEF Qualifies
<1>4. \A r : Started(a, r, now)' <=> Started(a, r, now + 1) BY <1>2 DEF Started
<1>5. CASE ~Qualifies(contact, temperature, now + 1) BY <1>3, <1>5 DEF Runs, Steady
<1>6. CASE Qualifies(contact, temperature, now + 1)
 <2>1. CASE steady # None /\ Window(now + 1) = Window(now)
  <3>1. steady' = steady /\ Started(a, steady, now) BY <1>6, <2>1 DEF Steady, Runs
  <3>2. \A x \in now .. now + 1 : Window(x) = Window(now) BY <1>1, <2>1
  <3>3. Started(a, steady, now + 1) BY <1>1, <3>1, <3>2, StartStays
  <3> QED BY <1>3, <1>4, <1>6, <3>1, <3>3 DEF Runs
 <2>2. CASE ~ (steady # None /\ Window(now + 1) = Window(now))
  <3>1. steady' = now + 1 BY <1>6, <2>2 DEF Steady
  <3>2. Window(now) # Window(now + 1)
   <4> SUFFICES ASSUME Window(now) = Window(now + 1) PROVE FALSE OBVIOUS
   <4>1. steady = None BY <2>2
   <4>2. ~ Started(a, None, now)
    <5> SUFFICES ASSUME Started(a, None, now) PROVE FALSE OBVIOUS
    <5>1. a <= 0 BY DEF Started, None
    <5> QED BY <5>1, Numbers
   <4> QED BY <4>1, <4>2, <1>6, ActiveIs DEF Runs, Qualifies
  <3>3. \A x \in now + 1 .. now + 1 : x = now + 1 BY <1>1
  <3>4. Started(a, now + 1, now + 1) BY <1>1, <3>2, <3>3 DEF Started
  <3> QED BY <1>3, <1>4, <1>6, <3>1, <3>4 DEF Runs
 <2> QED BY <2>1, <2>2
<1> QED BY <1>5, <1>6

-----------------------------------------------------------------------------
(* Passing time and reports                                               *)

(* The order of the times.                                                *)
LEMMA StoryFacts ==
  ASSUME Plain, NEW a \in Nat, Story(a)
  PROVE  /\ Day <= a /\ a <= now /\ now \in Nat /\ now > 0 /\ now \in Times /\ a \in Times
         /\ Day \in Nat /\ Day > 0 /\ Runs(a)
  BY Numbers DEF Plain, Story, Times

(* Passing time keeps the invariant.                                      *)
LEMMA TickInv ==
  ASSUME IInv, Tick
  PROVE  Waiting' /\ \E a \in Nat : Story(a)'
<1>1. PICK a \in Nat : Story(a) BY DEF IInv
<1>2. Plain /\ Waiting BY DEF IInv
<1>3. /\ Day <= a /\ a <= now /\ now \in Nat /\ now > 0 /\ now \in Times /\ a \in Times
      /\ Day \in Nat /\ Runs(a)
  BY <1>1, <1>2, StoryFacts
<1>4. /\ now' = now + 1 /\ now < MaxNow /\ pc # "first" /\ pc' = pc
      /\ UNCHANGED <<plan, contact, temperature, queue, monitor, deadline, timer>>
      /\ steady' = Steady(contact, temperature, now + 1)
  BY DEF Tick, inputs, section, lifecycle
<1>5. Runs(a)' BY <1>2, <1>3, <1>4, SteadyTick DEF Plain
<1>6. ASSUME NEW u \in Times, Seen(a, u) PROVE Seen(a, u)'
 <2>1. /\ Window(u)' = Window(u) /\ (Active(u)' <=> Active(u))
       /\ Qualifies(contact, temperature, u)' <=> Qualifies(contact, temperature, u)
   BY <1>4, SameWindows DEF Qualifies
 <2>2. Deadline(monitor, u)' = Deadline(monitor, u)
  <3>1. NextBoundary(u)' = NextBoundary(u) /\ monitor' = monitor /\ plan' = plan
    BY <1>4, SameWindows
  <3> QED BY <3>1, Zenon DEF Deadline
 <2>3. \A r : Started(a, r, u)' <=> Started(a, r, u) BY <1>4, SameWindows DEF Started
 <2>4. u <= now' BY <1>3, <1>4, <1>6 DEF Seen
 <2> QED BY <1>4, <1>6, <2>1, <2>2, <2>3, <2>4 DEF Seen
<1>7. a \in Day .. now' BY <1>3, <1>4
<1>8. Story(a)' BY <1>1, <1>4, <1>5, <1>6, <1>7 DEF Story
<1>9. ASSUME NEW k \in 1 .. Len(queue) PROVE Fresher(queue[k])' /\ Counted(queue[k])'
 <2>1. k \in DOMAIN queue /\ queue[k] \in Item BY <1>2 DEF Plain
 <2>2. queue[k].time >= now BY <2>1 DEF Tick
 <2>3. Fresher(queue[k]) /\ Counted(queue[k]) /\ queue[k].time \in Nat
   BY <1>2, <2>1, Numbers DEF Waiting, Item
 <2>4. Qualifies(queue[k].contact, queue[k].temperature, queue[k].time)'
         <=> Qualifies(queue[k].contact, queue[k].temperature, queue[k].time)
   BY <1>4, SameWindows DEF Qualifies
 <2> QED BY <1>3, <1>4, <2>2, <2>3, <2>4 DEF Fresher, Counted
<1>10. deadline' # None => now' <= deadline' + 1
 <2>1. deadline # None => deadline >= now BY DEF Tick
 <2> QED BY <1>2, <1>3, <1>4, <2>1 DEF Plain
<1>11. Waiting' BY <1>2, <1>4, <1>9, <1>10 DEF Waiting
<1> QED BY <1>8, <1>11

(* A report keeps the invariant.                                          *)
LEMMA ReportInv ==
  ASSUME IInv, NEW c \in Contacts, NEW w \in Temperatures, Report(c, w)
  PROVE  Waiting' /\ \E a \in Nat : Story(a)'
<1>1. PICK a \in Nat : Story(a) BY DEF IInv
<1>2. Plain /\ Waiting /\ Episodes BY DEF IInv
<1>3. /\ Day <= a /\ a <= now /\ now \in Nat /\ now > 0 /\ now \in Times /\ a \in Times
      /\ Day \in Nat /\ Runs(a)
  BY <1>1, <1>2, StoryFacts
<1>4. /\ contact' = c /\ temperature' = w /\ steady' = Steady(c, w, now)
      /\ UNCHANGED <<plan, now, pc, monitor, deadline, timer>>
      /\ (c = contact) # (w = temperature)
      /\ pc = "first" => queue' = queue
  BY DEF Report, section, lifecycle
<1>5. pc # "first" => queue' = Append(queue, Capture) BY <1>2, ReportTypes
<1>6. ~ (Open(c, w) /\ Open(contact, temperature)) BY <1>4 DEF Open
<1>7. steady' = IF Qualifies(c, w, now) THEN now ELSE None
 <2>1. CASE ~Qualifies(c, w, now) BY <2>1, <1>4 DEF Steady
 <2>2. CASE Qualifies(c, w, now)
  <3>1. ~Qualifies(contact, temperature, now) BY <2>2, <1>6, QualifiesIs
  <3>2. steady = None BY <3>1, <1>3 DEF Runs
  <3> QED BY <2>2, <3>2, <1>4 DEF Steady
 <2> QED BY <2>1, <2>2
<1>8. \A x, y, t : Qualifies(x, y, t)' <=> Qualifies(x, y, t) BY <1>4, SameWindows DEF Qualifies
<1>9. Runs(now)'
 <2>1. Started(now, now, now)'
  <3>1. \A x \in now' .. now' : x = now' BY <1>3, <1>4
  <3> QED BY <3>1, <1>3, <1>4 DEF Started
 <2>2. Qualifies(contact, temperature, now)' <=> Qualifies(c, w, now) BY <1>4, <1>8 DEF Qualifies
 <2>3. CASE Qualifies(c, w, now)
  <3>1. steady' = now' BY <2>3, <1>4, <1>7
  <3>2. Started(now, steady, now)' BY <2>1, <3>1 DEF Started
  <3> QED BY <3>2, <2>2, <2>3 DEF Runs
 <2>4. CASE ~Qualifies(c, w, now) BY <2>2, <2>4, <1>7 DEF Runs
 <2> QED BY <2>3, <2>4
<1>10. CASE pc = "first"
 <2>1. queue = <<>> /\ queue' = <<>> /\ pc' = "first" BY <1>2, <1>4, <1>10 DEF Waiting
 <2>2. now \in Day .. now' /\ now = now' BY <1>3, <1>4
 <2>3. Story(now)' BY <2>1, <2>2, <1>9 DEF Story
 <2>4. Waiting' BY <1>2, <1>4, <2>1 DEF Waiting
 <2> QED BY <2>3, <2>4, <1>3, <1>4
<1>11. CASE pc # "first"
 <2>1. queue' = Append(queue, Capture) /\ pc' # "first" /\ queue \in Seq(Item)
   BY <1>2, <1>4, <1>5, <1>11 DEF Plain
 <2>2. /\ Len(queue') = Len(queue) + 1 /\ queue' # <<>> /\ Len(queue) \in Nat
       /\ queue'[Len(queue')] = Capture
       /\ \A k \in 1 .. Len(queue) : queue'[k] = queue[k]
   BY <2>1
 <2>3. /\ Capture.contact = c /\ Capture.temperature = w /\ Capture.time = now
       /\ Capture.steady = steady'
   BY <1>4 DEF Capture
 <2>4. Story(now)'
  <3>1. now \in Day .. now' /\ now' = now BY <1>3, <1>4
  <3> QED BY <3>1, <2>1, <2>2, <2>3, <1>9 DEF Story
 <2>5. ASSUME NEW k \in 1 .. Len(queue') PROVE Fresher(queue[k])' /\ Counted(queue[k])'
  <3>1. CASE k = Len(queue')
   <4>0. queue'[k] = Capture BY <3>1, <2>2
   <4>1. Qualifies(queue[k].contact, queue[k].temperature, queue[k].time)'
           <=> Qualifies(c, w, now)
     BY <4>0, <2>3, <1>4, SameWindows DEF Qualifies
   <4> QED BY <4>0, <4>1, <2>3, <1>3, <1>4, <1>7 DEF Fresher, Counted
  <3>2. CASE k # Len(queue')
   <4>1. k \in 1 .. Len(queue) /\ queue'[k] = queue[k] BY <2>2, <3>2
   <4>2. Fresher(queue[k]) /\ Counted(queue[k]) BY <4>1, <1>2 DEF Waiting
   <4>3. Qualifies(queue[k].contact, queue[k].temperature, queue[k].time)'
           <=> Qualifies(queue[k].contact, queue[k].temperature, queue[k].time)
     BY <4>1, <1>4, SameWindows DEF Qualifies
   <4> QED BY <4>1, <4>2, <4>3, <1>4 DEF Fresher, Counted
  <3> QED BY <3>1, <3>2
 <2>6. ASSUME NEW k \in 1 .. Len(queue') - 1
       PROVE  ~ (Open(queue'[k].contact, queue'[k].temperature)
                   /\ Open(queue'[k + 1].contact, queue'[k + 1].temperature))
  <3>1. CASE k = Len(queue)
   <4>1. queue'[k + 1] = Capture /\ queue'[k] = queue[k] /\ queue # <<>> BY <3>1, <2>2
   <4>2. queue[k].contact = contact /\ queue[k].temperature = temperature
     BY <3>1, <4>1, <1>2 DEF Waiting
   <4> QED BY <4>1, <4>2, <2>3, <1>6
  <3>2. CASE k # Len(queue)
   <4>1. k \in 1 .. Len(queue) - 1 /\ queue'[k] = queue[k] /\ queue'[k + 1] = queue[k + 1]
     BY <3>2, <2>2
   <4> QED BY <4>1, <1>2 DEF Waiting
  <3> QED BY <3>1, <3>2
 <2>7. Open(queue'[1].contact, queue'[1].temperature) /\ ~monitor.qualified =>
         monitor.since \in {None, queue'[1].time, queue'[1].time + 1}
  <3>1. CASE queue = <<>>
   <4>1. queue'[1] = Capture BY <3>1, <2>2
   <4>2. PICK u \in Times : Seen(a, u) BY <3>1, <1>1, <1>11 DEF Story
   <4>3. Open(c, w) => ~Qualifies(contact, temperature, u) BY <1>6, QualifiesIs
   <4> QED BY <4>1, <4>2, <4>3, <2>3 DEF Seen
  <3>2. CASE queue # <<>>
   <4>1. queue'[1] = queue[1] BY <3>2, <2>1, <2>2
   <4> QED BY <4>1, <3>2, <1>2 DEF Waiting
  <3> QED BY <3>1, <3>2
 <2>8. Waiting' BY <1>2, <1>4, <2>1, <2>2, <2>3, <2>5, <2>6, <2>7 DEF Waiting
 <2> QED BY <2>4, <2>8, <1>3, <1>4
<1> QED BY <1>10, <1>11

-----------------------------------------------------------------------------
(* An observation                                                         *)

\* Since when an opening counts that an evaluation at t finds qualifying.
From(t) == IF OldSince(monitor, t) = None THEN t ELSE OldSince(monitor, t)

\* The countdown fits the reports: it begins with their run or a tick later.
CountFits(a, c, w, t) ==
  Qualifies(c, w, t) /\ ~OldQualified(monitor, t) =>
    \E r \in Nat : Started(a, r, t) /\ r <= From(t) /\ From(t) <= r + 1

(* The monitor after an observation.                                      *)
LEMMA ObservedMonitor ==
  ASSUME plan \in Plans, Fits(monitor), NEW c, NEW w, NEW t \in Times, Observe(c, w, t)
  PROVE  /\ monitor'.window = Window(t)
         /\ monitor'.since \in Nat /\ monitor'.qualified \in BOOLEAN
         /\ monitor'.qualified => c # "off" /\ Active(t)
         /\ ~monitor'.qualified /\ ~Qualifies(c, w, t) => monitor'.since = None
         /\ ~monitor'.qualified /\ Qualifies(c, w, t) =>
              ~OldQualified(monitor, t) /\ monitor'.since = From(t)
         /\ monitor'.qualified /\ ~OldQualified(monitor, t) =>
              /\ Qualifies(c, w, t) /\ monitor'.since = From(t)
              /\ t >= monitor'.since + plan.duration
         /\ deadline' # None => t < deadline'
<1> DEFINE v == Evaluated(monitor, c, w, t)
<1>1. monitor' = v /\ deadline' = Deadline(monitor', t) BY ObserveIs
<1>2. /\ v \in Monitor
      /\ v.window = Window(t)
      /\ v.since = Counting(OldSince(monitor, t), OldQualified(monitor, t), c, w, t)
      /\ v.qualified <=>
           /\ Active(t) /\ c # "off"
           /\ \/ OldQualified(monitor, t)
              \/ c = "on" /\ w = "outside" /\ t >= v.since + plan.duration
  BY EvaluatedIs
<1>3. Deadline(v, t) # None => t < Deadline(v, t) BY DeadlineLater
<1> HIDE DEF v
<1>4. OldQualified(monitor, t) \in BOOLEAN BY DEF Fits, Monitor, OldQualified
<1>5. v.since \in Nat /\ v.qualified \in BOOLEAN BY <1>2 DEF Monitor
<1>6. Qualifies(c, w, t) <=> c = "on" /\ w = "outside" /\ Active(t) BY DEF Qualifies
<1>7. v.qualified => c # "off" /\ Active(t) BY <1>2
<1>8. ~v.qualified /\ ~Qualifies(c, w, t) => v.since = None
 <2> SUFFICES ASSUME ~v.qualified, ~Qualifies(c, w, t) PROVE v.since = None OBVIOUS
 <2>1. CASE ~Active(t) \/ c # "on" BY <2>1, <1>2, <1>4, CountingIs
 <2>2. CASE Active(t) /\ c = "on" BY <2>2, <1>2, <1>4, <1>6, CountingIs
 <2> QED BY <2>1, <2>2
<1>9. Qualifies(c, w, t) /\ ~OldQualified(monitor, t) => v.since = From(t)
  BY <1>2, <1>4, <1>6, CountingIs DEF From
<1>10. ~v.qualified /\ Qualifies(c, w, t) => ~OldQualified(monitor, t) BY <1>2, <1>6
<1>11. v.qualified /\ ~OldQualified(monitor, t) =>
         Qualifies(c, w, t) /\ t >= v.since + plan.duration
  BY <1>2, <1>6
<1> QED BY <1>1, <1>2, <1>3, <1>5, <1>7, <1>8, <1>9, <1>10, <1>11

(* After an observation of the present reports at t they have last been   *)
(* seen at t.                                                             *)
LEMMA ObserveSeen ==
  ASSUME plan \in Plans, Fits(monitor), NEW a \in Nat, NEW t \in Times,
         a <= t, t <= now, now \in Nat,
         Observe(contact, temperature, t), CountFits(a, contact, temperature, t),
         UNCHANGED <<plan, now, contact, temperature>>
  PROVE  Seen(a, t)'
<1>1. /\ monitor'.window = Window(t)
      /\ monitor'.qualified => contact # "off" /\ Active(t)
      /\ ~monitor'.qualified /\ ~Qualifies(contact, temperature, t) => monitor'.since = None
      /\ ~monitor'.qualified /\ Qualifies(contact, temperature, t) =>
           ~OldQualified(monitor, t) /\ monitor'.since = From(t)
  BY ObservedMonitor
<1>2. t \in Nat BY Numbers DEF Times
<1>3. deadline' = Deadline(monitor, t)'
 <2>1. deadline' = Deadline(monitor', t) BY ObserveIs
 <2>2. NextBoundary(t)' = NextBoundary(t) /\ plan' = plan BY SameWindows
 <2>3. Deadline(monitor, t)' = Deadline(monitor', t) BY <2>2, Zenon DEF Deadline
 <2> QED BY <2>1, <2>3
<1>4. /\ Window(t)' = Window(t) /\ (Active(t)' <=> Active(t))
      /\ Qualifies(contact, temperature, t)' <=> Qualifies(contact, temperature, t)
  BY SameWindows DEF Qualifies
<1>5. \A r : Started(a, r, t)' <=> Started(a, r, t) BY SameWindows DEF Started
<1>6. ~monitor'.qualified /\ Qualifies(contact, temperature, t) =>
        \E r \in Nat : Started(a, r, t) /\ r <= monitor'.since /\ monitor'.since <= r + 1
  BY <1>1 DEF CountFits
<1> QED BY <1>1, <1>2, <1>3, <1>4, <1>5, <1>6 DEF Seen

\* The same reports seen again later.
LEMMA SeenAgain ==
  ASSUME plan \in Plans, Fits(monitor), NEW a \in Nat, NEW u \in Times, NEW t \in Times,
         u <= t, t <= now, now \in Nat, Seen(a, u), a > 0,
         deadline # None => t <= deadline + 1
  PROVE  CountFits(a, contact, temperature, t)
<1>1. /\ u \in Nat /\ a <= u /\ u <= now
      /\ monitor.window = Window(u)
      /\ deadline = Deadline(monitor, u)
      /\ ~monitor.qualified /\ Qualifies(contact, temperature, u) =>
           \E r \in Nat : Started(a, r, u) /\ r <= monitor.since /\ monitor.since <= r + 1
      /\ ~monitor.qualified /\ ~Qualifies(contact, temperature, u) => monitor.since = None
  BY DEF Seen
<1>2. t \in Nat /\ a <= t /\ monitor \in Monitor BY <1>1, Numbers DEF Times, Fits
<1> SUFFICES ASSUME Qualifies(contact, temperature, t), ~OldQualified(monitor, t)
             PROVE  \E r \in Nat : Started(a, r, t) /\ r <= From(t) /\ From(t) <= r + 1
  BY DEF CountFits
<1>3. Active(t) /\ Open(contact, temperature) BY QualifiesIs
<1>4. CASE Window(t) # Window(u)
 <2>1. PICK r \in Nat : Started(a, r, t) BY <1>2, StartExists
 <2>2. r <= t /\ t <= r + 1 BY <1>1, <1>2, <1>4, <2>1, SeenInTime
 <2>3. From(t) = t
  <3>1. CASE Window(u) # NoWindow
   <4>1. Removed(monitor, t) BY <3>1, <1>1, <1>4, RemovedIs
   <4> QED BY <4>1 DEF From, OldSince
  <3>2. CASE Window(u) = NoWindow
   <4>1. ~Always BY <3>2, <1>4, InWindow
   <4>2. ~Active(u) BY <3>2, <4>1 DEF Active
   <4>3. ~monitor.qualified BY <4>2 DEF Seen
   <4>4. monitor.since = None BY <4>2, <4>3, <1>1, QualifiesIs
   <4> QED BY <4>4 DEF From, OldSince
  <3> QED BY <3>1, <3>2
 <2> QED BY <2>1, <2>2, <2>3
<1>5. CASE Window(t) = Window(u)
 <2>1. ~Removed(monitor, t) BY <1>1, <1>5, RemovedIs
 <2>2. ~monitor.qualified /\ OldSince(monitor, t) = monitor.since BY <2>1 DEF OldQualified, OldSince
 <2>3. Active(u) /\ Qualifies(contact, temperature, u) BY <1>3, <1>5, ActiveIs, QualifiesIs
 <2>4. PICK r \in Nat : Started(a, r, u) /\ r <= monitor.since /\ monitor.since <= r + 1
   BY <2>2, <2>3, <1>1
 <2>5. \A x \in u .. t : Window(x) = Window(u) BY <2>3, <1>5, Between
 <2>6. Started(a, r, t) BY <2>4, <2>5, <1>1, <1>2, StartStays
 <2>7. From(t) = monitor.since
  <3>1. monitor.since # None BY <2>4, <1>2 DEF Started, Monitor, None
  <3> QED BY <3>1, <2>2 DEF From
 <2> QED BY <2>4, <2>6, <2>7
<1> QED BY <1>4, <1>5

-----------------------------------------------------------------------------
(* Draining the queue                                                     *)

(* The monitor is as evaluations leave it.                                *)
LEMMA MonitorFits == Episodes => Fits(monitor) /\ monitor \in Monitor
  BY DEF Episodes, Record, Fits

\* The first report that waits is counted as it was captured.
LEMMA HeadCounts ==
  ASSUME Plain, Episodes, Waiting, queue # <<>>
  PROVE  /\ Head(queue).time \in Times /\ Head(queue).time \in Nat /\ Head(queue).time > 0
         /\ Head(queue).time <= now /\ now - 1 <= Head(queue).time
         /\ Head(queue) = queue[1] /\ Counted(Head(queue))
         /\ Qualifies(Head(queue).contact, Head(queue).temperature, Head(queue).time)
              /\ ~OldQualified(monitor, Head(queue).time) =>
              From(Head(queue).time) \in {Head(queue).time, Head(queue).time + 1}
<1> DEFINE h == Head(queue)
           t == h.time
<1>1. /\ h = queue[1] /\ t \in Times /\ t \in Day .. MaxNow /\ 1 \in 1 .. Len(queue)
  BY HeadIs DEF Plain
<1>2. Fresher(h) /\ Counted(h) BY <1>1 DEF Waiting
<1>3. Open(h.contact, h.temperature) /\ ~monitor.qualified =>
        monitor.since \in {None, t, t + 1}
  BY <1>1 DEF Waiting
<1>4. t \in Nat /\ t > 0 BY <1>1, Numbers
<1>5. ASSUME Qualifies(h.contact, h.temperature, t), ~OldQualified(monitor, t)
      PROVE  From(t) \in {t, t + 1}
 <2>1. Open(h.contact, h.temperature) BY <1>5, QualifiesIs
 <2>2. CASE Removed(monitor, t) BY <2>2 DEF From, OldSince
 <2>3. CASE ~Removed(monitor, t)
  <3>1. ~monitor.qualified /\ OldSince(monitor, t) = monitor.since
    BY <2>3, <1>5 DEF OldQualified, OldSince
  <3> QED BY <3>1, <2>1, <1>3 DEF From
 <2> QED BY <2>2, <2>3
<1> QED BY <1>1, <1>2, <1>4, <1>5 DEF Fresher

(* What is due later than a time within a tick.                           *)
LEMMA WithinTick ==
  ASSUME NEW x \in Nat, NEW y \in Nat, NEW z \in Nat, x - 1 <= y, y < z
  PROVE  x <= z + 1
  OBVIOUS

(* The queue without its first report.                                    *)
LEMMA TailIs ==
  ASSUME queue \in Seq(Item), queue # <<>>, queue' = Tail(queue)
  PROVE  /\ queue \in Seq(Item) /\ Len(queue) \in Nat /\ Len(queue) > 0
         /\ Len(queue') = Len(queue) - 1
         /\ \A k \in 1 .. Len(queue') : queue'[k] = queue[k + 1]
         /\ queue' # <<>> => Len(queue') > 0
         /\ queue' = <<>> => Len(queue) = 1
<1>1. Len(queue) \in Nat /\ Len(queue) > 0 /\ Tail(queue) \in Seq(Item) OBVIOUS
<1>2. Len(Tail(queue)) = Len(queue) - 1 BY <1>1
<1>3. \A k \in 1 .. Len(Tail(queue)) : Tail(queue)[k] = queue[k + 1] BY <1>1, <1>2
<1>4. Tail(queue) # <<>> => Len(Tail(queue)) > 0 BY <1>1
<1>5. Tail(queue) = <<>> => Len(Tail(queue)) = 0
 <2>1. Len(<<>>) = 0 OBVIOUS
 <2> QED BY <2>1, Zenon
<1> QED BY <1>1, <1>2, <1>3, <1>4, <1>5

(* Draining a report keeps the invariant.                                 *)
LEMMA DrainInv ==
  ASSUME IInv, Drain
  PROVE  Waiting' /\ \E a \in Nat : Story(a)'
<1>1. PICK a \in Nat : Story(a) BY DEF IInv
<1>2. Plain /\ Waiting /\ Episodes BY DEF IInv
<1>3. /\ Day <= a /\ a <= now /\ now \in Nat /\ now > 0 /\ now \in Times /\ a \in Times
      /\ Day \in Nat /\ Day > 0 /\ Runs(a)
  BY <1>1, <1>2, StoryFacts
<1>0. \E x : x = Head(queue) OBVIOUS
<1>17. PICK h : h = Head(queue) BY <1>0
<1>18. \E x : x = h.time OBVIOUS
<1>19. PICK t : t = h.time BY <1>18
<1>4. /\ queue # <<>> /\ queue' = Tail(queue) /\ Observe(h.contact, h.temperature, t)
      /\ UNCHANGED <<plan, now, contact, temperature, pc, timer, steady>>
      /\ pc = "drain"
  BY <1>17, <1>19 DEF Drain, inputs, section
<1>5. /\ t \in Times /\ t \in Nat /\ t > 0 /\ t <= now /\ now - 1 <= t
      /\ h = queue[1]
      /\ Qualifies(h.contact, h.temperature, t) /\ ~OldQualified(monitor, t) =>
              From(t) \in {t, t + 1}
  BY <1>2, <1>4, <1>17, <1>19, HeadCounts
<1>6. Fits(monitor) /\ plan \in Plans BY <1>2, MonitorFits DEF Plain
<1>7. /\ ~monitor'.qualified /\ ~Qualifies(h.contact, h.temperature, t) => monitor'.since = None
      /\ deadline' # None => t < deadline'
  BY <1>4, <1>5, <1>6, ObservedMonitor
<1>8. /\ queue \in Seq(Item) /\ Len(queue) \in Nat /\ Len(queue) > 0
      /\ Len(queue') = Len(queue) - 1
      /\ \A k \in 1 .. Len(queue') : queue'[k] = queue[k + 1]
      /\ queue' # <<>> => Len(queue') > 0
      /\ queue' = <<>> => Len(queue) = 1
  BY <1>2, <1>4, TailIs DEF Plain
<1>9. deadline' \in Nat
 <2>1. h.contact \in Contacts /\ h.temperature \in Temperatures
   BY <1>2, <1>4, <1>17, HeadIs DEF Plain
 <2> QED BY <2>1, <1>2, <1>4, <1>5, <1>6, ObserveEpisodes DEF Plain, Drain
<1>10. Story(a)'
 <2>1. Runs(a)' BY <1>3, <1>4, SameWindows DEF Runs, Started, Qualifies
 <2>2. queue' # <<>> => a = queue'[Len(queue')].time
  <3> SUFFICES ASSUME queue' # <<>> PROVE a = queue'[Len(queue')].time OBVIOUS
  <3>1. Len(queue') \in 1 .. Len(queue') /\ Len(queue') + 1 = Len(queue) BY <1>8
  <3>2. queue'[Len(queue')] = queue[Len(queue)] BY <3>1, <1>8
  <3> QED BY <3>2, <1>1, <1>4 DEF Story
 <2>3. ASSUME queue' = <<>> PROVE \E u \in Times : Seen(a, u)'
  <3>1. h = queue[Len(queue)] /\ a = t
   <4>1. Len(queue) = 1 BY <2>3, <1>8
   <4> QED BY <4>1, <1>1, <1>4, <1>5, <1>19 DEF Story
  <3>2. contact = h.contact /\ temperature = h.temperature BY <3>1, <1>2, <1>4 DEF Waiting
  <3>3. CountFits(a, contact, temperature, t)
   <4> SUFFICES ASSUME Qualifies(contact, temperature, t), ~OldQualified(monitor, t)
                PROVE  \E r \in Nat : Started(a, r, t) /\ r <= From(t) /\ From(t) <= r + 1
     BY DEF CountFits
   <4>1. \A x \in t .. t : x = t BY <1>5
   <4>2. Started(a, t, t) BY <4>1, <3>1, <1>5 DEF Started
   <4>3. From(t) \in {t, t + 1} BY <3>2, <1>5
   <4> QED BY <4>2, <4>3, <1>5
  <3>4. Observe(contact, temperature, t) BY <3>2, <1>4
  <3>5. a <= t BY <3>1, <1>5
  <3>6. Seen(a, t)' BY <3>3, <3>4, <3>5, <1>3, <1>4, <1>5, <1>6, ObserveSeen
  <3> QED BY <3>6, <1>5
 <2>4. a \in Day .. now' /\ pc' # "first" BY <1>1, <1>4 DEF Story
 <2> QED BY <2>1, <2>2, <2>3, <2>4 DEF Story
<1>11. ASSUME NEW k \in 1 .. Len(queue') PROVE Fresher(queue[k])' /\ Counted(queue[k])'
 <2>1. k + 1 \in 1 .. Len(queue) /\ queue'[k] = queue[k + 1] BY <1>8
 <2>2. Fresher(queue[k + 1]) /\ Counted(queue[k + 1]) BY <2>1, <1>2 DEF Waiting
 <2>3. Qualifies(queue[k].contact, queue[k].temperature, queue[k].time)'
         <=> Qualifies(queue[k + 1].contact, queue[k + 1].temperature, queue[k + 1].time)
   BY <2>1, <1>4, SameWindows DEF Qualifies
 <2> QED BY <2>1, <2>2, <2>3, <1>4 DEF Fresher, Counted
<1>12. ASSUME NEW k \in 1 .. Len(queue') - 1
       PROVE  ~ (Open(queue'[k].contact, queue'[k].temperature)
                   /\ Open(queue'[k + 1].contact, queue'[k + 1].temperature))
 <2>1. /\ k + 1 \in 1 .. Len(queue) - 1 /\ queue'[k] = queue[k + 1]
       /\ queue'[k + 1] = queue[(k + 1) + 1]
   BY <1>8
 <2> QED BY <2>1, <1>2 DEF Waiting
<1>13. queue' # <<>> => /\ contact' = queue'[Len(queue')].contact
                        /\ temperature' = queue'[Len(queue')].temperature
 <2> SUFFICES ASSUME queue' # <<>>
              PROVE  /\ contact' = queue'[Len(queue')].contact
                     /\ temperature' = queue'[Len(queue')].temperature
   OBVIOUS
 <2>1. Len(queue') \in 1 .. Len(queue') /\ Len(queue') + 1 = Len(queue) BY <1>8
 <2>2. queue'[Len(queue')] = queue[Len(queue)] BY <2>1, <1>8
 <2> QED BY <2>2, <1>2, <1>4 DEF Waiting
<1>14. queue' # <<>> /\ Open(queue'[1].contact, queue'[1].temperature) /\ ~monitor'.qualified =>
         monitor'.since = None
 <2> SUFFICES ASSUME queue' # <<>>, Open(queue'[1].contact, queue'[1].temperature),
                     ~monitor'.qualified
              PROVE  monitor'.since = None
   OBVIOUS
 <2>1. 1 \in 1 .. Len(queue) - 1 /\ queue'[1] = queue[1 + 1] BY <1>8
 <2>2. ~Open(queue[1].contact, queue[1].temperature) BY <2>1, <1>2 DEF Waiting
 <2>3. ~Qualifies(h.contact, h.temperature, t) BY <2>2, <1>5, QualifiesIs
 <2> QED BY <2>3, <1>7
<1>15. deadline' # None => now' <= deadline' + 1 BY <1>3, <1>4, <1>5, <1>7, <1>9, WithinTick
<1>16. Waiting' BY <1>2, <1>4, <1>11, <1>12, <1>13, <1>14, <1>15 DEF Waiting
<1> QED BY <1>10, <1>16

-----------------------------------------------------------------------------
(* Evaluating, and restarts                                               *)

\* The countdown an evaluation of the present reports finds fits them.
LEMMA PresentFits ==
  ASSUME IInv, pc \in {"first", "read"}, queue = <<>>, NEW a \in Nat, Story(a)
  PROVE  CountFits(a, contact, temperature, now)
<1>1. Plain /\ Waiting /\ Episodes BY DEF IInv
<1>2. /\ Day <= a /\ a <= now /\ now \in Nat /\ now > 0 /\ now \in Times /\ a \in Times
      /\ Day \in Nat /\ Day > 0 /\ Runs(a)
  BY <1>1, StoryFacts
<1>3. Fits(monitor) /\ plan \in Plans BY <1>1, MonitorFits DEF Plain
<1>4. CASE pc = "first"
 <2>1. a = now /\ monitor.since = None BY <1>1, <1>4 DEF Story, Waiting
 <2>2. From(now) = now BY <2>1 DEF From, OldSince
 <2>3. \A x \in now .. now : x = now BY <1>2
 <2>4. Started(a, now, now) BY <2>1, <2>3, <1>2 DEF Started
 <2> QED BY <2>2, <2>4, <1>2 DEF CountFits
<1>5. CASE pc = "read"
 <2>1. PICK u \in Times : Seen(a, u) BY <1>5 DEF Story
 <2>2. deadline # None => now <= deadline + 1 BY <1>1 DEF Waiting
 <2>3. u <= now /\ a > 0 /\ now <= now BY <2>1, <1>2 DEF Seen
 <2> QED BY <2>1, <2>2, <2>3, <1>2, <1>3, SeenAgain
<1> QED BY <1>4, <1>5

(* Evaluating the present reports keeps the invariant.                    *)
LEMMA EvaluateInv ==
  ASSUME IInv, Evaluate
  PROVE  Waiting' /\ \E a \in Nat : Story(a)'
<1>1. PICK a \in Nat : Story(a) BY DEF IInv
<1>2. Plain /\ Waiting /\ Episodes BY DEF IInv
<1>3. /\ Day <= a /\ a <= now /\ now \in Nat /\ now > 0 /\ now \in Times /\ a \in Times
      /\ Day \in Nat /\ Day > 0 /\ Runs(a)
  BY <1>1, <1>2, StoryFacts
<1>4. /\ pc \in {"first", "read"} /\ pc' = "save" /\ Observe(contact, temperature, now)
      /\ UNCHANGED <<plan, now, contact, temperature, queue, timer, steady>>
  BY DEF Evaluate, inputs
<1>5. Fits(monitor) /\ monitor \in Monitor /\ plan \in Plans BY <1>2, MonitorFits DEF Plain
<1>6. /\ deadline' # None => now < deadline'
      /\ ~monitor'.qualified /\ ~Qualifies(contact, temperature, now) => monitor'.since = None
      /\ ~monitor'.qualified /\ Qualifies(contact, temperature, now) =>
           ~OldQualified(monitor, now) /\ monitor'.since = From(now)
  BY <1>3, <1>4, <1>5, ObservedMonitor
<1>7. deadline' \in Nat BY <1>2, <1>3, <1>4, <1>5, ObserveEpisodes DEF Plain, Evaluate
<1>8. Story(a)'
 <2>1. Runs(a)' BY <1>3, <1>4, SameWindows DEF Runs, Started, Qualifies
 <2>2. ASSUME queue = <<>> PROVE Seen(a, now)'
  <3>1. CountFits(a, contact, temperature, now) BY <2>2, <1>1, <1>4, PresentFits
  <3>2. PICK t \in Times : t = now BY <1>3
  <3>3. Seen(a, t)' BY <3>1, <3>2, <1>3, <1>4, <1>5, ObserveSeen
  <3>4. t = now' BY <3>2, <1>4
  <3> QED BY <3>3, <3>4 DEF Seen
 <2>3. a \in Day .. now' /\ now' \in Times BY <1>1, <1>3, <1>4 DEF Story
 <2> QED BY <2>1, <2>2, <2>3, <1>1, <1>4 DEF Story
<1>9. ASSUME NEW k \in 1 .. Len(queue) PROVE Fresher(queue[k])' /\ Counted(queue[k])'
 <2>1. Fresher(queue[k]) /\ Counted(queue[k]) BY <1>2 DEF Waiting
 <2>2. Qualifies(queue[k].contact, queue[k].temperature, queue[k].time)'
         <=> Qualifies(queue[k].contact, queue[k].temperature, queue[k].time)
   BY <1>4, SameWindows DEF Qualifies
 <2> QED BY <2>1, <2>2, <1>4 DEF Fresher, Counted
<1>10. ASSUME queue # <<>>, Open(queue[1].contact, queue[1].temperature), ~monitor'.qualified
       PROVE  monitor'.since \in {None, queue[1].time, queue[1].time + 1}
 <2>1. CASE ~Qualifies(contact, temperature, now) BY <2>1, <1>6, <1>10
 <2>2. CASE Qualifies(contact, temperature, now)
  <3>1. ~OldQualified(monitor, now) /\ monitor'.since = From(now) BY <2>2, <1>6, <1>10
  <3>2. Head(queue).time \in Nat /\ Head(queue).time <= now
        /\ now - 1 <= Head(queue).time /\ Head(queue) = queue[1]
    BY <1>2, <1>10, HeadCounts
  <3>3. now \in {queue[1].time, queue[1].time + 1} BY <3>2, <1>3
  <3>4. \/ OldSince(monitor, now) = None
        \/ ~monitor.qualified /\ OldSince(monitor, now) = monitor.since
    BY <3>1, <1>5 DEF OldSince, OldQualified
  <3>5. ~monitor.qualified => monitor.since \in {None, queue[1].time, queue[1].time + 1}
    BY <1>2, <1>10 DEF Waiting
  <3> QED BY <3>1, <3>3, <3>4, <3>5 DEF From
 <2> QED BY <2>1, <2>2
<1>11. deadline' # None => now' <= deadline' + 1
 <2>1. now - 1 <= now BY <1>3
 <2> QED BY <2>1, <1>3, <1>4, <1>6, <1>7, WithinTick
<1>12. Waiting' BY <1>2, <1>4, <1>9, <1>10, <1>11 DEF Waiting
<1> QED BY <1>8, <1>12

\* Steps of a section that neither observe nor let time pass.
LEMMA QuietInv ==
  ASSUME IInv, pc # "first", pc' # "first",
         UNCHANGED <<plan, now, contact, temperature, queue, monitor, deadline, steady>>,
         pc' = "idle" => timer' = deadline
  PROVE  Waiting' /\ \E a \in Nat : Story(a)'
<1>1. PICK a \in Nat : Story(a) BY DEF IInv
<1>2. Plain /\ Waiting BY DEF IInv
<1>3. Story(a)' BY <1>1, SameStory
<1>4. ASSUME NEW k \in 1 .. Len(queue) PROVE Fresher(queue[k])' /\ Counted(queue[k])'
 <2>1. Fresher(queue[k]) /\ Counted(queue[k]) BY <1>2 DEF Waiting
 <2>2. Qualifies(queue[k].contact, queue[k].temperature, queue[k].time)'
         <=> Qualifies(queue[k].contact, queue[k].temperature, queue[k].time)
   BY SameWindows DEF Qualifies
 <2> QED BY <2>1, <2>2 DEF Fresher, Counted
<1>5. Waiting' BY <1>2, <1>4 DEF Waiting
<1> QED BY <1>3, <1>5

(* A restart keeps the invariant.                                         *)
LEMMA RestartInv ==
  ASSUME IInv, Restart
  PROVE  Waiting' /\ \E a \in Nat : Story(a)'
<1>1. Plain /\ Episodes BY DEF IInv
<1>2. /\ pc' = "first" /\ queue' = <<>> /\ deadline' = None
      /\ monitor' = saved.monitor /\ plan' = plan
      /\ steady' = IF Qualifies(contact', temperature', now') THEN now' ELSE None
  BY DEF Restart
<1>3. monitor'.since = None BY <1>1, <1>2 DEF Episodes
<1>4. now' \in Day .. MaxNow /\ now' \in Nat BY <1>1, RestartTypes, Numbers DEF Plain
<1>5. Started(now, now, now)'
 <2>1. \A x \in now' .. now' : x = now' BY <1>4
 <2> QED BY <2>1, <1>4 DEF Started
<1>6. Runs(now)'
 <2>1. Qualifies(contact, temperature, now)' <=> Qualifies(contact', temperature', now')
   BY <1>2 DEF Qualifies, Active, Always, Window
 <2>2. CASE Qualifies(contact, temperature, now)'
  <3>1. steady' = now' BY <2>1, <2>2, <1>2
  <3> QED BY <2>2, <3>1, <1>5 DEF Runs, Started
 <2>3. CASE ~Qualifies(contact, temperature, now)' BY <2>1, <2>3, <1>2 DEF Runs
 <2> QED BY <2>2, <2>3
<1>7. Story(now)'
 <2>1. now' \in Day .. now' BY <1>4, Numbers
 <2> QED BY <2>1, <1>2, <1>6 DEF Story
<1>8. Waiting' BY <1>2, <1>3 DEF Waiting
<1>9. \E a \in Nat : Story(a)'
 <2>1. PICK n \in Nat : n = now' BY <1>4
 <2>2. Story(n)' BY <2>1, <1>7 DEF Story, Runs, Started, Seen
 <2> QED BY <2>2
<1> QED BY <1>8, <1>9

-----------------------------------------------------------------------------
(* The theorems                                                           *)

(* Every step keeps the invariant.                                        *)
LEMMA Inductive == IInv /\ [Next]_vars => IInv'
<1> SUFFICES ASSUME IInv, [Next]_vars PROVE IInv' OBVIOUS
<1>1. Plain /\ Episodes /\ Waiting BY DEF IInv
<1>2. Plain' /\ Episodes' BY <1>1, TypesInductive
<1> SUFFICES Waiting' /\ \E a \in Nat : Story(a)' BY <1>2 DEF IInv
<1>3. CASE Tick BY <1>3, TickInv
<1>4. ASSUME NEW c \in Contacts, NEW w \in Temperatures, Report(c, w)
      PROVE  Waiting' /\ \E a \in Nat : Story(a)'
  BY <1>4, ReportInv
<1>5. ASSUME NEW refresh \in BOOLEAN, Begin(refresh)
      PROVE  Waiting' /\ \E a \in Nat : Story(a)'
  BY <1>5, QuietInv DEF Begin, inputs, lifecycle
<1>6. CASE Drain BY <1>6, DrainInv
<1>7. CASE DrainDone
 <2>1. pc # "first" /\ pc' \in {"read", "save"} BY <1>7 DEF DrainDone
 <2> QED BY <1>7, <2>1, QuietInv DEF DrainDone, inputs, lifecycle
<1>8. CASE Evaluate BY <1>8, EvaluateInv
<1>9. CASE Complete BY <1>9, QuietInv DEF Complete, inputs, lifecycle
<1>10. ASSUME NEW i \in Issues, Send(i)
       PROVE  Waiting' /\ \E a \in Nat : Story(a)'
 <2>1. pc = "idle" /\ pc' = "idle" /\ timer' = timer /\ timer = deadline
   BY <1>1, <1>10 DEF Send, section, Waiting
 <2> QED BY <1>10, <2>1, QuietInv DEF Send, inputs
<1>11. CASE Restart BY <1>11, RestartInv
<1>12. CASE UNCHANGED vars
 <2>1. CASE pc = "first"
  <3>1. PICK a \in Nat : Story(a) BY DEF IInv
  <3>2. Story(a)'
    BY <1>12, <2>1, <3>1, SameWindows DEF vars, inputs, section, lifecycle, Story, Runs,
       Started, Qualifies
  <3>3. Waiting' BY <1>1, <1>12, <2>1 DEF vars, inputs, section, lifecycle, Waiting
  <3> QED BY <3>2, <3>3
 <2>2. CASE pc # "first"
  <3>1. pc = "idle" => timer = deadline BY <1>1 DEF Waiting
  <3> QED BY <1>12, <2>2, <3>1, QuietInv DEF vars, inputs, section, lifecycle
 <2> QED BY <2>1, <2>2
<1> QED BY <1>3, <1>4, <1>5, <1>6, <1>7, <1>8, <1>9, <1>10, <1>11, <1>12 DEF Next

(* The invariant holds throughout.                                        *)
LEMMA InvHolds == Spec => []IInv
  BY InitInv, Inductive, PTL DEF Spec

\* When nothing is due the window last seen is the present one.
LEMMA SettledSeen ==
  ASSUME IInv, Settled
  PROVE  \E a \in Nat : \E u \in Times :
           /\ Day <= a /\ a <= u /\ u <= now /\ Runs(a) /\ Seen(a, u)
           /\ Window(u) = Window(now) /\ (Active(u) <=> Active(now))
           /\ \A x \in u .. now : Window(x) = Window(u)
           /\ deadline # None => deadline > now
<1>1. PICK a \in Nat : Story(a) BY DEF IInv
<1>2. Plain /\ Waiting /\ Episodes BY DEF IInv
<1>3. /\ Day <= a /\ a <= now /\ now \in Nat /\ now > 0 /\ now \in Times /\ a \in Times
      /\ Runs(a)
  BY <1>1, <1>2, StoryFacts
<1>4. PICK u \in Times : Seen(a, u) BY <1>1 DEF Settled, Story
<1>5. deadline # None => deadline > now BY <1>2 DEF Settled, Waiting
<1>6. u \in Nat /\ a <= u /\ u <= now /\ deadline = Deadline(monitor, u) BY <1>4 DEF Seen
<1>7. monitor \in Monitor /\ plan \in Plans /\ deadline \in Nat BY <1>2, MonitorFits DEF Plain
<1>8. NextBoundary(u) = None \/ now < NextBoundary(u)
 <2>1. NextBoundary(u) # None =>
         Deadline(monitor, u) # None /\ Deadline(monitor, u) <= NextBoundary(u)
   BY <1>7, DeadlineIs
 <2>2. NextBoundary(u) \in Nat BY <1>7, InWindow
 <2> QED BY <2>1, <2>2, <1>3, <1>5, <1>6, <1>7
<1>9. ASSUME NEW x \in u .. now PROVE Window(x) = Window(u)
 <2>1. x \in Times /\ u <= x BY <1>3, <1>6, Numbers DEF Times
 <2>2. NextBoundary(u) = None \/ x < NextBoundary(u) BY <1>3, <1>6, <1>7, <1>8, InWindow
 <2> QED BY <2>1, <2>2, <1>7, UntilBoundary
<1>10. now \in u .. now BY <1>3, <1>6
<1>11. Window(u) = Window(now) BY <1>9, <1>10
<1> QED BY <1>3, <1>4, <1>5, <1>6, <1>9, <1>11, ActiveIs

(* The invariant is enough for IssueTimely.                               *)
LEMMA Timely == IInv => IssueTimely
<1> SUFFICES ASSUME IInv PROVE IssueTimely OBVIOUS
<1>1. Plain /\ Episodes /\ Waiting BY DEF IInv
<1>2. TypeOK BY <1>1, TypesTogether
<1>3. monitor.qualified <=> issue # None BY <1>1 DEF Episodes, Record
<1>4. RaisedInTime
 <2> SUFFICES ASSUME Settled, steady # None, now > steady + plan.duration, issue = None
              PROVE  FALSE
   BY DEF RaisedInTime
 <2>1. PICK a \in Nat, u \in Times :
          /\ Day <= a /\ a <= u /\ u <= now /\ Runs(a) /\ Seen(a, u)
          /\ Window(u) = Window(now) /\ (Active(u) <=> Active(now))
          /\ \A x \in u .. now : Window(x) = Window(u)
          /\ deadline # None => deadline > now
   BY SettledSeen
 <2>2. Qualifies(contact, temperature, now) /\ Started(a, steady, now) BY <2>1 DEF Runs
 <2>3. Qualifies(contact, temperature, u) /\ ~monitor.qualified BY <2>1, <2>2, <1>3, QualifiesIs
 <2>4. PICK r \in Nat : Started(a, r, u) /\ r <= monitor.since /\ monitor.since <= r + 1
   BY <2>1, <2>3 DEF Seen
 <2>5. now \in Nat /\ u \in Nat /\ plan \in Plans /\ deadline \in Nat /\ monitor \in Monitor
   BY <1>1, NowIsTime, MonitorFits, Numbers DEF Plain, Times
 <2>6. Started(a, r, now) BY <2>1, <2>4, <2>5, StartStays
 <2>7. r = steady BY <2>2, <2>5, <2>6, StartedOnce
 <2>8. r >= a /\ a > 0 BY <2>1, <2>4, Numbers DEF Started
 <2>9. monitor.since \in Nat /\ plan.duration \in Nat BY <2>5, PlanFacts DEF Monitor, PlanOf
 <2>10. Counts(monitor) BY <2>3, <2>4, <2>8, <2>9 DEF Counts, None
 <2>11. deadline # None /\ deadline <= monitor.since + plan.duration
  <3>1. deadline = Deadline(monitor, u) BY <2>1 DEF Seen
  <3> QED BY <3>1, <2>5, <2>10, DeadlineIs
 <2> QED BY <2>1, <2>4, <2>5, <2>7, <2>9, <2>11
<1>5. NothingStale
 <2> SUFFICES ASSUME Settled, issue # None
              PROVE  /\ contact # "off" /\ Active(now)
                     /\ monitor.qualified /\ monitor.window = Window(now)
                     /\ cutoff[issue] = monitor.window.end
   BY DEF NothingStale
 <2>1. PICK a \in Nat, u \in Times :
          Seen(a, u) /\ Window(u) = Window(now) /\ (Active(u) <=> Active(now))
   BY SettledSeen
 <2>2. cutoff[issue] = monitor.window.end BY <1>1 DEF Episodes, Cut
 <2> QED BY <2>1, <2>2, <1>3 DEF Seen
<1> QED BY <1>2, <1>4, <1>5 DEF IssueTimely

\* Whatever reports, late drains, clock changes and restarts come in between, an
\* opening that qualifies for its duration is raised when nothing is due, and
\* nothing stays raised that was closed or whose hours ended: the timer is set
\* for the next boundary and for the end of the wait, and each evaluation counts
\* from the run of the reports (evaluate and monitoring_window, left_open.py).
THEOREM IssuesAreTimely == Spec => []IssueTimely
  BY InvHolds, Timely, PTL

\* An issue is raised only for an opening that reports say was open, in hours and
\* outside the limits for the whole duration (evaluate, left_open.py: any break
\* starts the countdown afresh).
THEOREM NeverTooEarly == Spec => NeverEarly
<1> DEFINE A == (pc \in {"drain", "read"} /\ pc' # "first"
                   /\ ~monitor.qualified /\ monitor'.qualified) =>
                 \/ /\ queue' # queue
                    /\ Head(queue).steady # None
                    /\ Head(queue).time - Head(queue).steady >= plan.duration
                 \/ /\ queue' = queue
                    /\ queue # <<>> \/ (steady # None /\ now - steady >= plan.duration)
<1>1. IInv /\ [Next]_vars => [A]_vars
 <2> SUFFICES ASSUME IInv, Next, pc \in {"drain", "read"}, pc' # "first",
                     ~monitor.qualified, monitor'.qualified
              PROVE  \/ /\ queue' # queue
                        /\ Head(queue).steady # None
                        /\ Head(queue).time - Head(queue).steady >= plan.duration
                     \/ /\ queue' = queue
                        /\ queue # <<>> \/ (steady # None /\ now - steady >= plan.duration)
   BY DEF vars
 <2>1. Plain /\ Episodes /\ Waiting BY DEF IInv
 <2>2. Fits(monitor) /\ plan \in Plans BY <2>1, MonitorFits DEF Plain
 <2>3. \A t : ~OldQualified(monitor, t) BY DEF OldQualified
 <2>4. plan.duration \in Nat BY <2>2, PlanFacts DEF PlanOf
 <2>5. monitor' # monitor BY Zenon
 <2>6. CASE Drain
  <3>1. PICK h, t : h = Head(queue) /\ t = h.time OBVIOUS
  <3>2. /\ t \in Times /\ t \in Nat /\ t > 0 /\ h = queue[1] /\ Counted(h)
        /\ Qualifies(h.contact, h.temperature, t) => From(t) \in {t, t + 1}
    BY <2>1, <2>3, <2>6, <3>1, HeadCounts DEF Drain
  <3>3. Observe(h.contact, h.temperature, t) /\ queue' = Tail(queue) /\ queue # <<>>
    BY <2>6, <3>1 DEF Drain
  <3>4. /\ Qualifies(h.contact, h.temperature, t) /\ monitor'.since = From(t)
        /\ t >= monitor'.since + plan.duration
    BY <2>2, <2>3, <3>2, <3>3, ObservedMonitor
  <3>5. h.steady = t BY <3>1, <3>2, <3>4 DEF Counted
  <3>6. plan.duration = 0 BY <2>4, <3>2, <3>4
  <3>7. queue' # queue
   <4>1. Len(queue') = Len(queue) - 1 /\ Len(queue) \in Nat BY <2>1, <3>3, TailIs DEF Plain
   <4> QED BY <4>1
  <3> QED BY <3>1, <3>2, <3>5, <3>6, <3>7 DEF None
 <2>7. CASE Evaluate
  <3>1. queue' = queue /\ Observe(contact, temperature, now) BY <2>7 DEF Evaluate
  <3>2. ASSUME queue = <<>> PROVE steady # None /\ now - steady >= plan.duration
   <4>1. PICK a \in Nat : Story(a) BY DEF IInv
   <4>2. /\ Day <= a /\ a <= now /\ now \in Nat /\ now \in Times
         /\ Day \in Nat /\ Day > 0 /\ Runs(a)
     BY <2>1, <4>1, StoryFacts
   <4>3. CountFits(a, contact, temperature, now) BY <3>2, <4>1, <2>7, PresentFits DEF Evaluate
   <4>4. /\ Qualifies(contact, temperature, now) /\ monitor'.since = From(now)
         /\ now >= monitor'.since + plan.duration /\ monitor'.since \in Nat
     BY <2>2, <2>3, <3>1, <4>2, ObservedMonitor
   <4>5. PICK r \in Nat : Started(a, r, now) /\ r <= From(now) /\ From(now) <= r + 1
     BY <2>3, <4>3, <4>4 DEF CountFits
   <4>6. Started(a, steady, now) BY <4>2, <4>4 DEF Runs
   <4>7. r = steady BY <4>2, <4>5, <4>6, StartedOnce
   <4>8. steady >= a /\ steady \in Nat BY <4>6 DEF Started
   <4> QED BY <2>4, <4>2, <4>4, <4>5, <4>7, <4>8 DEF None
  <3> QED BY <3>1, <3>2
 <2>8. CASE Tick BY <2>5, <2>8 DEF Tick, lifecycle
 <2>9. ASSUME NEW c \in Contacts, NEW w \in Temperatures, Report(c, w) PROVE FALSE
   BY <2>5, <2>9 DEF Report, lifecycle
 <2>10. ASSUME NEW refresh \in BOOLEAN, Begin(refresh) PROVE FALSE
   BY <2>5, <2>10 DEF Begin, lifecycle
 <2>11. CASE DrainDone \/ Complete BY <2>5, <2>11 DEF DrainDone, Complete, lifecycle
 <2>12. ASSUME NEW i \in Issues, Send(i) PROVE FALSE BY <2>5, <2>12 DEF Send
 <2>13. CASE Restart BY <2>13 DEF Restart
 <2> QED BY <2>6, <2>7, <2>8, <2>9, <2>10, <2>11, <2>12, <2>13 DEF Next
<1> QED BY <1>1, InvHolds, PTL DEF Spec, NeverEarly
=============================================================================
