--------------------------- MODULE DeliverySafety ---------------------------
(***************************************************************************)
(* Proofs about Delivery for any number of issues, phones and bounds:      *)
(* what waits to be published is current, an alert that is owed waits for  *)
(* its phones, no step rings again, and phones show what is recorded.      *)
(* First what each operator of DeliveryState keeps, by induction over the  *)
(* outbox where it is rewritten; then the invariant, with one lemma per    *)
(* action.                                                                 *)
(***************************************************************************)
EXTENDS Delivery, FiniteSetTheorems, WellFoundedInduction, TLAPS

-----------------------------------------------------------------------------
(* Induction over numbers, and the recursion of Keep                      *)

(* The order of the numbers, as a relation.                               *)
Less == OpToRel(<, Nat)

(* Less relates a number to the larger ones.                              *)
LEMMA LessIs == \A x, y \in Nat : <<y, x>> \in Less <=> y < x
  BY DEF Less, OpToRel

(* A nonempty set of numbers has a least one.                             *)
LEMMA LeastNumber ==
  ASSUME NEW T, T \subseteq Nat, T # {}
  PROVE  \E x \in T : \A y \in T : x <= y
<1>1. IsWellFoundedOn(Less, Nat) BY NatLessThanWellFounded DEF Less
<1>2. PICK x \in T : \A y \in T : ~ (<<y, x>> \in Less) BY <1>1, WFMin
<1>3. ASSUME NEW y \in T PROVE x <= y
 <2>1. x \in Nat /\ y \in Nat OBVIOUS
 <2>2. ~ (y < x) BY <1>2, <2>1, LessIs
 <2> QED BY <2>1, <2>2
<1>4. QED BY <1>3

(* A set with 0 that has the successor of each of its numbers has them    *)
(* all.                                                                   *)
LEMMA Induction ==
  ASSUME NEW G, 0 \in G, \A n \in Nat : n \in G => n + 1 \in G
  PROVE  Nat \subseteq G
<1> SUFFICES ASSUME Nat \ G # {} PROVE FALSE OBVIOUS
<1>1. PICK x \in Nat \ G : \A y \in Nat \ G : x <= y BY LeastNumber
<1>2. x # 0 /\ x - 1 \in Nat BY <1>1
<1>3. x - 1 \in G BY <1>1, <1>2
<1>4. QED BY <1>1, <1>2, <1>3

(* The recursive function inside Keep, over the first n requests.         *)
KeptUpTo(box, keep, n, kept) ==
  kept = [i \in 0 .. n |->
            IF i = 0 THEN <<>>
            ELSE IF box[i] \in keep THEN Append(kept[i - 1], box[i])
            ELSE kept[i - 1]]

(* That function exists, and Keep is its last value.                      *)
LEMMA KeepRecursion ==
  ASSUME NEW box, Len(box) \in Nat, NEW keep
  PROVE  \E kept : /\ KeptUpTo(box, keep, Len(box), kept)
                   /\ Keep(box, keep) = kept[Len(box)]
<1> DEFINE G == {n \in Nat : \E kept : KeptUpTo(box, keep, n, kept)}
<1>1. 0 \in G
 <2> DEFINE kept == [i \in 0 .. 0 |-> <<>>]
 <2>1. KeptUpTo(box, keep, 0, kept) BY DEF KeptUpTo
 <2> QED BY <2>1
<1>2. ASSUME NEW n \in Nat, n \in G PROVE n + 1 \in G
 <2>1. PICK kept : KeptUpTo(box, keep, n, kept) BY <1>2
 <2> DEFINE last == IF box[n + 1] \in keep THEN Append(kept[n], box[n + 1])
                    ELSE kept[n]
            longer == [i \in 0 .. n + 1 |-> IF i = n + 1 THEN last ELSE kept[i]]
 <2>2. ASSUME NEW i \in 0 .. n + 1
       PROVE  longer[i] = IF i = 0 THEN <<>>
           ELSE IF box[i] \in keep THEN Append(longer[i - 1], box[i])
           ELSE longer[i - 1]
  <3>1. CASE i = n + 1 BY <3>1
  <3>2. CASE i # n + 1
   <4>1. i \in 0 .. n /\ (i # 0 => i - 1 \in 0 .. n /\ i - 1 # n + 1 /\ i - 1 \in 0 .. n + 1)
     BY <3>2
   <4>2. kept[i] = IF i = 0 THEN <<>>
         ELSE IF box[i] \in keep THEN Append(kept[i - 1], box[i])
         ELSE kept[i - 1]
     BY <4>1, <2>1 DEF KeptUpTo
   <4> QED BY <4>1, <4>2, <3>2
  <3> QED BY <3>1, <3>2
 <2>3. KeptUpTo(box, keep, n + 1, longer)
  <3> HIDE DEF last
  <3> QED BY <2>2 DEF KeptUpTo
 <2> QED BY <2>3
<1>3. Len(box) \in G
 <2> HIDE DEF G
 <2> QED BY <1>1, <1>2, Induction
<1>4. PICK f : KeptUpTo(box, keep, Len(box), f) BY <1>3
<1> DEFINE kept == CHOOSE kept : kept = [i \in 0 .. Len(box) |->
            IF i = 0 THEN <<>>
            ELSE IF box[i] \in keep THEN Append(kept[i - 1], box[i])
            ELSE kept[i - 1]]
<1>5. KeptUpTo(box, keep, Len(box), kept) BY <1>4 DEF KeptUpTo
<1>6. Keep(box, keep) = kept[Len(box)] BY DEF Keep
<1> QED BY <1>5, <1>6

-----------------------------------------------------------------------------
(* What keeping, dropping and appending requests does to an outbox        *)

(* f says at which place of box each request of out was: the places grow, *)
(* and those whose request is in keep are all among them.                 *)
Embeds(box, n, keep, out, f) ==
  /\ f \in [1 .. Len(out) -> 1 .. n]
  /\ \A i, j \in 1 .. Len(out) : i < j => f[i] < f[j]
  /\ \A i \in 1 .. Len(out) : out[i] = box[f[i]]
  /\ \A k \in 1 .. n : box[k] \in keep <=> \E i \in 1 .. Len(out) : f[i] = k

(* What Keep returns is the subsequence of the requests in keep.          *)
LEMMA KeepEmbeds ==
  ASSUME NEW R, NEW box \in Seq(R), NEW keep
  PROVE  /\ Keep(box, keep) \in Seq(R)
         /\ \E f : Embeds(box, Len(box), keep, Keep(box, keep), f)
<1> DEFINE L == Len(box)
<1>1. L \in Nat OBVIOUS
<1>2. PICK kept : KeptUpTo(box, keep, L, kept) /\ Keep(box, keep) = kept[L] BY <1>1, KeepRecursion
<1> DEFINE Fits(n) == kept[n] \in Seq(R) /\ \E f : Embeds(box, n, keep, kept[n], f)
           G == {n \in Nat : n <= L => Fits(n)}
<1>3. 0 \in G
 <2>1. kept[0] = <<>> BY <1>1, <1>2 DEF KeptUpTo
 <2> DEFINE f == [i \in 1 .. 0 |-> 0]
 <2>2. Embeds(box, 0, keep, <<>>, f) BY DEF Embeds
 <2>3. \E g : Embeds(box, 0, keep, kept[0], g) BY <2>1, <2>2
 <2>4. kept[0] \in Seq(R) BY <2>1
 <2> QED BY <2>3, <2>4
<1>4. ASSUME NEW n \in Nat, n \in G PROVE n + 1 \in G
 <2> SUFFICES ASSUME n + 1 <= L PROVE Fits(n + 1) OBVIOUS
 <2>1. kept[n] \in Seq(R) BY <1>4
 <2>2. PICK f : Embeds(box, n, keep, kept[n], f) BY <1>4
 <2> DEFINE out == kept[n]
            m == Len(out)
 <2>3. kept[n + 1] = IF box[n + 1] \in keep THEN Append(out, box[n + 1]) ELSE out
  <3>1. n + 1 \in 0 .. Len(box) /\ n + 1 # 0 /\ (n + 1) - 1 = n BY <1>1
  <3> QED BY <3>1, <1>2 DEF KeptUpTo
 <2>4. m \in Nat /\ box[n + 1] \in R BY <2>1
 <2> HIDE DEF out, m
 <2>5. CASE box[n + 1] \in keep
  <3> DEFINE next == Append(out, box[n + 1])
             g == [i \in 1 .. m + 1 |-> IF i = m + 1 THEN n + 1 ELSE f[i]]
  <3>1. /\ next \in Seq(R)
        /\ Len(next) = m + 1
        /\ next[m + 1] = box[n + 1]
        /\ \A i \in 1 .. m : next[i] = out[i]
    BY <2>1, <2>4 DEF out, m
  <3>2. f \in [1 .. m -> 1 .. n] /\ (\A i, j \in 1 .. m : i < j => f[i] < f[j])
        /\ (\A i \in 1 .. m : out[i] = box[f[i]])
        /\ (\A k \in 1 .. n : box[k] \in keep <=> \E i \in 1 .. m : f[i] = k)
    BY <2>2 DEF Embeds, out, m
  <3> HIDE DEF next
  <3>3. g \in [1 .. m + 1 -> 1 .. n + 1] BY <3>2, <2>4
  <3>4. ASSUME NEW i \in 1 .. m + 1, NEW j \in 1 .. m + 1, i < j PROVE g[i] < g[j]
   <4>1. i \in 1 .. m /\ i # m + 1 /\ f[i] \in 1 .. n BY <3>4, <3>2, <2>4
   <4>2. CASE j = m + 1 BY <4>1, <4>2
   <4>3. CASE j # m + 1 BY <4>1, <4>3, <3>2, <3>4, <2>4
   <4> QED BY <4>2, <4>3
  <3>5. ASSUME NEW i \in 1 .. m + 1 PROVE next[i] = box[g[i]] BY <3>1, <3>2, <2>4
  <3>6. ASSUME NEW k \in 1 .. n + 1
        PROVE  box[k] \in keep <=> \E i \in 1 .. m + 1 : g[i] = k
   <4>1. CASE k = n + 1 BY <4>1, <2>4, <2>5
   <4>2. CASE k # n + 1
    <5>1. k \in 1 .. n BY <4>2
    <5>2. (\E i \in 1 .. m : f[i] = k) => \E i \in 1 .. m + 1 : g[i] = k BY <2>4
    <5>3. (\E i \in 1 .. m + 1 : g[i] = k) => \E i \in 1 .. m : f[i] = k BY <2>4, <4>2
    <5> QED BY <5>1, <5>2, <5>3, <3>2
   <4> QED BY <4>1, <4>2
  <3>7. Embeds(box, n + 1, keep, next, g)
   <4> HIDE DEF g
   <4> QED BY <3>1, <3>3, <3>4, <3>5, <3>6 DEF Embeds
  <3> QED BY <3>1, <3>7, <2>3, <2>5 DEF next
 <2>6. CASE box[n + 1] \notin keep
  <3>1. Embeds(box, n + 1, keep, out, f) BY <2>2, <2>4, <2>6 DEF Embeds, out, m
  <3> QED BY <3>1, <2>1, <2>3, <2>6 DEF out
 <2> QED BY <2>5, <2>6
<1>5. L \in G
 <2> HIDE DEF G
 <2> QED BY <1>1, <1>3, <1>4, Induction
<1> QED BY <1>1, <1>2, <1>5

-----------------------------------------------------------------------------
(* At most one request of the tag waits, and it shows the issues E.       *)
OnlyOne(box, t, E) ==
  \A i \in DOMAIN box : box[i].tag = t =>
    box[i].episodes = E /\ \A j \in DOMAIN box : box[j].tag = t => j = i

(* The last request of the tag that waits shows the issues E.             *)
Latest(box, t, E) ==
  \E i \in DOMAIN box :
    /\ box[i].tag = t
    /\ box[i].episodes = E
    /\ \A j \in DOMAIN box : j > i => box[j].tag # t

(* No request of the tag waits.                                           *)
Unused(box, t) == \A i \in DOMAIN box : box[i].tag # t

(* A request of the tag that waits rings for e on the phone c.            *)
RingsFor(box, t, e, c) ==
  \E i \in DOMAIN box :
    box[i].tag = t /\ e \in box[i].alerting /\ c \in box[i].channels

(* A request of the tag that waits shows an issue.                        *)
Shows(box, t) == \E i \in DOMAIN box : box[i].tag = t /\ box[i].episodes # {}

(* The issues the waiting requests ring for.                              *)
Rung(box) == UNION {p.alerting : p \in ToSet(box)}

(* Every waiting request goes to every phone.                             *)
ToAll(box) == \A i \in DOMAIN box : box[i].channels = Phones

(* What stays true of an outbox of which some requests are dropped; a     *)
(* statement about one tag, when the requests of that tag are kept.       *)
LEMMA KeepKeeps ==
  ASSUME NEW box \in Seq(Request), NEW keep
  PROVE  /\ Keep(box, keep) \in Seq(Request)
         /\ \A t, E : OnlyOne(box, t, E) => OnlyOne(Keep(box, keep), t, E)
         /\ \A t, E : Latest(box, t, E)
                      /\ (\A p \in ToSet(box) : p.tag = t /\ p.episodes = E => p \in keep)
                      => Latest(Keep(box, keep), t, E)
         /\ \A t : Unused(box, t) => Unused(Keep(box, keep), t)
         /\ \A t : Shows(Keep(box, keep), t) => Shows(box, t)
         /\ \A t, e, c : RingsFor(box, t, e, c)
                         /\ (\A p \in ToSet(box) : p.tag = t => p \in keep)
                         => RingsFor(Keep(box, keep), t, e, c)
         /\ Rung(Keep(box, keep)) \subseteq Rung(box)
         /\ ToAll(box) => ToAll(Keep(box, keep))
         /\ \A i \in DOMAIN Keep(box, keep) : Keep(box, keep)[i] \in keep
<1> DEFINE out == Keep(box, keep)
<1>1. out \in Seq(Request) BY KeepEmbeds
<1>2. PICK f : Embeds(box, Len(box), keep, out, f) BY KeepEmbeds
<1> HIDE DEF out
<1>3. /\ DOMAIN out = 1 .. Len(out) /\ DOMAIN box = 1 .. Len(box)
      /\ Len(out) \in Nat /\ Len(box) \in Nat
  BY <1>1
<1>4. \A i \in DOMAIN out : f[i] \in DOMAIN box /\ out[i] = box[f[i]] /\ out[i] \in keep
  BY <1>2, <1>3 DEF Embeds
<1>5. \A i, j \in DOMAIN out : i < j => f[i] < f[j] BY <1>2, <1>3 DEF Embeds
<1>6. \A k \in DOMAIN box : box[k] \in keep => \E i \in DOMAIN out : f[i] = k
  BY <1>2, <1>3 DEF Embeds
<1>7. \A i, j \in DOMAIN out : (f[i] = f[j] => i = j) /\ (j > i => f[j] > f[i])
 <2> TAKE i, j \in DOMAIN out
 <2>1. f[i] \in DOMAIN box /\ f[j] \in DOMAIN box BY <1>4
 <2> QED BY <1>3, <1>5, <2>1
<1>8. ASSUME NEW t, NEW E, OnlyOne(box, t, E) PROVE OnlyOne(out, t, E)
  BY <1>8, <1>4, <1>7 DEF OnlyOne
<1>9. ASSUME NEW t, NEW E, Latest(box, t, E),
             \A p \in ToSet(box) : p.tag = t /\ p.episodes = E => p \in keep
      PROVE  Latest(out, t, E)
 <2>1. PICK k \in DOMAIN box : /\ box[k].tag = t /\ box[k].episodes = E
                               /\ \A j \in DOMAIN box : j > k => box[j].tag # t
   BY <1>9 DEF Latest
 <2>2. box[k] \in keep BY <1>9, <2>1 DEF ToSet
 <2>3. PICK i \in DOMAIN out : f[i] = k BY <2>2, <1>6
 <2>4. out[i].tag = t /\ out[i].episodes = E BY <2>1, <2>3, <1>4
 <2>5. ASSUME NEW j \in DOMAIN out, j > i PROVE out[j].tag # t BY <2>5, <2>1, <2>3, <1>4, <1>7
 <2> QED BY <2>4, <2>5 DEF Latest
<1>10. ASSUME NEW t, Unused(box, t) PROVE Unused(out, t) BY <1>10, <1>4 DEF Unused
<1>11. ASSUME NEW t, Shows(out, t) PROVE Shows(box, t) BY <1>11, <1>4 DEF Shows
<1>12. ASSUME NEW t, NEW e, NEW c, RingsFor(box, t, e, c),
              \A p \in ToSet(box) : p.tag = t => p \in keep
       PROVE  RingsFor(out, t, e, c)
 <2>1. PICK k \in DOMAIN box : box[k].tag = t /\ e \in box[k].alerting /\ c \in box[k].channels
   BY <1>12 DEF RingsFor
 <2>2. box[k] \in keep BY <1>12, <2>1 DEF ToSet
 <2>3. PICK i \in DOMAIN out : f[i] = k BY <2>2, <1>6
 <2> QED BY <2>1, <2>3, <1>4 DEF RingsFor
<1>13. Rung(out) \subseteq Rung(box)
 <2>1. ToSet(out) \subseteq ToSet(box) BY <1>4 DEF ToSet
 <2> QED BY <2>1 DEF Rung
<1>14. ToAll(box) => ToAll(out) BY <1>4 DEF ToAll
<1> QED BY <1>1, <1>4, <1>8, <1>9, <1>10, <1>11, <1>12, <1>13, <1>14 DEF out

(* What stays true of an outbox without the requests of one tag.          *)
LEMMA WithoutKeeps ==
  ASSUME NEW box \in Seq(Request), NEW u
  PROVE  /\ Without(box, u) \in Seq(Request)
         /\ Unused(Without(box, u), u)
         /\ \A t, E : OnlyOne(box, t, E) => OnlyOne(Without(box, u), t, E)
         /\ \A t, E : t # u /\ Latest(box, t, E) => Latest(Without(box, u), t, E)
         /\ \A t : Unused(box, t) => Unused(Without(box, u), t)
         /\ \A t : Shows(Without(box, u), t) => Shows(box, t) /\ t # u
         /\ \A t, e, c : t # u /\ RingsFor(box, t, e, c)
                         => RingsFor(Without(box, u), t, e, c)
         /\ Rung(Without(box, u)) \subseteq Rung(box)
         /\ ToAll(box) => ToAll(Without(box, u))
<1> DEFINE keep == {p \in ToSet(box) : p.tag # u}
<1>1. Without(box, u) = Keep(box, keep) BY DEF Without
<1>2. \A t : t # u => \A p \in ToSet(box) : p.tag = t => p \in keep OBVIOUS
<1>3. \A p \in keep : p.tag # u OBVIOUS
<1> HIDE DEF keep
<1>4. Unused(Keep(box, keep), u) BY <1>3, KeepKeeps DEF Unused
<1>5. \A t : Shows(Keep(box, keep), t) => t # u BY <1>4 DEF Unused, Shows
<1> QED BY <1>1, <1>2, <1>4, <1>5, KeepKeeps

(* What stays and becomes true of an outbox with one more request.        *)
LEMMA AppendKeeps ==
  ASSUME NEW box \in Seq(Request), NEW q \in Request
  PROVE  /\ Append(box, q) \in Seq(Request)
         /\ \A t, E : t # q.tag /\ OnlyOne(box, t, E) => OnlyOne(Append(box, q), t, E)
         /\ Unused(box, q.tag) => OnlyOne(Append(box, q), q.tag, q.episodes)
         /\ \A t, E : t # q.tag /\ Latest(box, t, E) => Latest(Append(box, q), t, E)
         /\ Latest(Append(box, q), q.tag, q.episodes)
         /\ \A t : t # q.tag /\ Unused(box, t) => Unused(Append(box, q), t)
         /\ \A t : Shows(Append(box, q), t)
                   => Shows(box, t) \/ (t = q.tag /\ q.episodes # {})
         /\ \A t, e, c : RingsFor(box, t, e, c) => RingsFor(Append(box, q), t, e, c)
         /\ \A e, c : e \in q.alerting /\ c \in q.channels
                      => RingsFor(Append(box, q), q.tag, e, c)
         /\ Rung(Append(box, q)) \subseteq Rung(box) \cup q.alerting
         /\ ToAll(box) /\ q.channels = Phones => ToAll(Append(box, q))
<1> DEFINE out == Append(box, q)
           m == Len(box)
<1>1. /\ out \in Seq(Request)
      /\ m \in Nat /\ DOMAIN box = 1 .. m /\ DOMAIN out = 1 .. m + 1
      /\ out[m + 1] = q
      /\ \A i \in 1 .. m : out[i] = box[i]
  OBVIOUS
<1> HIDE DEF out, m
<1>2. /\ \A i \in DOMAIN out : i = m + 1 \/ (i \in DOMAIN box /\ i < m + 1)
      /\ \A i \in DOMAIN box : i \in DOMAIN out /\ i < m + 1 /\ out[i] = box[i] /\ ~ (m + 1 < i)
      /\ m + 1 \in DOMAIN out
      /\ \A i \in DOMAIN out : ~ (i > m + 1)
  BY <1>1
<1>3. ASSUME NEW t, NEW E, t # q.tag, OnlyOne(box, t, E) PROVE OnlyOne(out, t, E)
  BY <1>1, <1>2, <1>3 DEF OnlyOne
<1>4. Unused(box, q.tag) => OnlyOne(out, q.tag, q.episodes) BY <1>1, <1>2 DEF Unused, OnlyOne
<1>5. ASSUME NEW t, NEW E, t # q.tag, Latest(box, t, E) PROVE Latest(out, t, E)
 <2>1. PICK k \in DOMAIN box : /\ box[k].tag = t /\ box[k].episodes = E
                               /\ \A j \in DOMAIN box : j > k => box[j].tag # t
   BY <1>5 DEF Latest
 <2>2. k \in DOMAIN out /\ out[k].tag = t /\ out[k].episodes = E BY <2>1, <1>2
 <2>3. ASSUME NEW j \in DOMAIN out, j > k PROVE out[j].tag # t BY <2>3, <2>1, <1>1, <1>2, <1>5
 <2> QED BY <2>2, <2>3 DEF Latest
<1>6. Latest(out, q.tag, q.episodes) BY <1>1, <1>2 DEF Latest
<1>7. ASSUME NEW t, t # q.tag, Unused(box, t) PROVE Unused(out, t) BY <1>1, <1>2, <1>7 DEF Unused
<1>8. ASSUME NEW t, Shows(out, t)
      PROVE  Shows(box, t) \/ (t = q.tag /\ q.episodes # {})
  BY <1>1, <1>2, <1>8 DEF Shows
<1>9. ASSUME NEW t, NEW e, NEW c, RingsFor(box, t, e, c) PROVE RingsFor(out, t, e, c)
  BY <1>2, <1>9 DEF RingsFor
<1>10. ASSUME NEW e, NEW c, e \in q.alerting, c \in q.channels
       PROVE  RingsFor(out, q.tag, e, c)
  BY <1>1, <1>2, <1>10 DEF RingsFor
<1>11. Rung(out) \subseteq Rung(box) \cup q.alerting
 <2>1. ToSet(out) \subseteq ToSet(box) \cup {q} BY <1>1, <1>2 DEF ToSet
 <2> QED BY <2>1 DEF Rung
<1>12. ToAll(box) /\ q.channels = Phones => ToAll(out) BY <1>1, <1>2 DEF ToAll
<1> QED BY <1>1, <1>3, <1>4, <1>5, <1>6, <1>7, <1>8, <1>9, <1>10, <1>11, <1>12 DEF out

-----------------------------------------------------------------------------
(* A DeliveryState, and the operations on one tag                         *)

(* The types of a DeliveryState; the phones of a latest request are among *)
(* those that got one.                                                    *)
WellFormed(s) ==
  /\ Recorded(s) \subseteq Episodes
  /\ \A e \in Recorded(s) : /\ s.messages[e] \in Message
                            /\ s.messages[e].channels \subseteq s.messages[e].targets
  /\ s.outbox \in Seq(Request)

(* What a phone should show under a tag.                                  *)
Wanted(s, t) == IF t \in Summaries THEN Members(s, t) ELSE {t} \cap Members(s, Alone)

(* Each message and each waiting request is for every phone.              *)
Everywhere(s) ==
  /\ \A e \in Recorded(s) : s.messages[e].channels = Phones /\ s.messages[e].targets = Phones
  /\ ToAll(s.outbox)

\* The same issues are recorded, in the same places and for the same phones.
SamePlaces(s, r) ==
  /\ Recorded(r) = Recorded(s)
  /\ \A e \in Recorded(s) : /\ r.messages[e].group = s.messages[e].group
                            /\ r.messages[e].channels = s.messages[e].channels

\* What is said of other tags than u stays true.
OthersKept(a, b, u) ==
  /\ \A t, E : t # u /\ OnlyOne(a, t, E) => OnlyOne(b, t, E)
  /\ \A t, E : t # u /\ Latest(a, t, E) => Latest(b, t, E)
  /\ \A t : t # u /\ Unused(a, t) => Unused(b, t)
  /\ \A t : t # u /\ Shows(b, t) => Shows(a, t)
  /\ \A t, e, c : t # u /\ RingsFor(a, t, e, c) => RingsFor(b, t, e, c)

(* Issues, summaries and Alone are named apart.                           *)
LEMMA NamesDiffer ==
  /\ Alone \notin Summaries
  /\ \A e \in Episodes : e \in Tags /\ e \notin Summaries
  /\ \A g \in Summaries : g \in Tags /\ g \notin Episodes /\ g # Alone
  BY DeliveryNames DEF Alone, Summaries, Tags

(* States with the same places have the same summaries and tags.          *)
LEMMA SamePlacesMembers ==
  ASSUME NEW s, NEW r, SamePlaces(s, r)
  PROVE  /\ \A g : Members(r, g) = Members(s, g)
         /\ \A t : Wanted(r, t) = Wanted(s, t)
         /\ \A e \in Recorded(s) : TagOf(r, e) = TagOf(s, e)
<1>1. \A g : Members(r, g) = Members(s, g) BY DEF SamePlaces, Members
<1>2. \A e \in Recorded(s) : TagOf(r, e) = TagOf(s, e) BY DEF SamePlaces, TagOf
<1> QED BY <1>1, <1>2 DEF Wanted

(* Replacing the requests of a tag by one: what is said of other tags     *)
(* stays true, and the new request is the only one of its own.            *)
LEMMA ReplaceKeeps ==
  ASSUME NEW box \in Seq(Request), NEW q \in Request
  PROVE  LET b == Append(Without(box, q.tag), q)
         IN /\ b \in Seq(Request)
            /\ OthersKept(box, b, q.tag)
            /\ OnlyOne(b, q.tag, q.episodes)
            /\ Latest(b, q.tag, q.episodes)
            /\ q.episodes = {} => ~ Shows(b, q.tag)
            /\ \A e, c : e \in q.alerting /\ c \in q.channels => RingsFor(b, q.tag, e, c)
            /\ Rung(b) \subseteq Rung(box) \cup q.alerting
            /\ ToAll(box) /\ q.channels = Phones => ToAll(b)
<1> DEFINE w == Without(box, q.tag)
           b == Append(w, q)
<1>1. w \in Seq(Request) BY WithoutKeeps
<1>2. /\ \A t, E : t # q.tag /\ OnlyOne(box, t, E) => OnlyOne(w, t, E)
      /\ \A t, E : t # q.tag /\ Latest(box, t, E) => Latest(w, t, E)
      /\ \A t : t # q.tag /\ Unused(box, t) => Unused(w, t)
      /\ \A t : Shows(w, t) => Shows(box, t) /\ t # q.tag
      /\ \A t, e, c : t # q.tag /\ RingsFor(box, t, e, c) => RingsFor(w, t, e, c)
      /\ Unused(w, q.tag)
      /\ Rung(w) \subseteq Rung(box)
      /\ ToAll(box) => ToAll(w)
  BY WithoutKeeps
<1> HIDE DEF w
<1>3. /\ b \in Seq(Request)
      /\ \A t, E : t # q.tag /\ OnlyOne(w, t, E) => OnlyOne(b, t, E)
      /\ \A t, E : t # q.tag /\ Latest(w, t, E) => Latest(b, t, E)
      /\ \A t : t # q.tag /\ Unused(w, t) => Unused(b, t)
      /\ \A t : Shows(b, t) => Shows(w, t) \/ (t = q.tag /\ q.episodes # {})
      /\ \A t, e, c : RingsFor(w, t, e, c) => RingsFor(b, t, e, c)
      /\ Latest(b, q.tag, q.episodes)
      /\ \A e, c : e \in q.alerting /\ c \in q.channels => RingsFor(b, q.tag, e, c)
      /\ Rung(b) \subseteq Rung(w) \cup q.alerting
      /\ ToAll(w) /\ q.channels = Phones => ToAll(b)
  BY <1>1, AppendKeeps
<1>4. OnlyOne(b, q.tag, q.episodes) BY <1>1, <1>2, AppendKeeps
<1> HIDE DEF b
<1>5. OthersKept(box, b, q.tag) BY <1>2, <1>3 DEF OthersKept
<1>6. q.episodes = {} => ~ Shows(b, q.tag) BY <1>2, <1>3
<1>7. Rung(b) \subseteq Rung(box) \cup q.alerting BY <1>2, <1>3
<1> QED BY <1>2, <1>3, <1>4, <1>5, <1>6, <1>7 DEF b, w

(* The alerts of the requests of a tag, as the set a summary takes over.  *)
LEMMA WaitingFacts ==
  ASSUME NEW box \in Seq(Request), NEW t
  PROVE  /\ \A e, c : RingsFor(box, t, e, c)
                      => e \in UNION {p.alerting : p \in {x \in ToSet(box) : x.tag = t}}
         /\ UNION {p.alerting : p \in {x \in ToSet(box) : x.tag = t}} \subseteq Rung(box)
  BY DEF RingsFor, ToSet, Rung

(* _group: the one request of the summary shows its members, rings for    *)
(* those that were alerted on each of their phones, and leaves other tags *)
(* alone.                                                                 *)
LEMMA GroupKeeps ==
  ASSUME NEW s, WellFormed(s), NEW g \in Summaries, NEW previous \in Message, NEW A
  PROVE  LET r == Group(s, g, previous, A)
         IN /\ WellFormed(r)
            /\ SamePlaces(s, r)
            /\ OthersKept(s.outbox, r.outbox, g)
            /\ OnlyOne(r.outbox, g, Members(s, g))
            /\ Latest(r.outbox, g, Members(s, g))
            /\ \A e \in Members(s, g) : \A c \in s.messages[e].channels :
                 e \in A \/ RingsFor(s.outbox, g, e, c) => RingsFor(r.outbox, g, e, c)
            /\ Rung(r.outbox) \subseteq Rung(s.outbox) \cup A
            /\ Everywhere(s) /\ (Members(s, g) # {} \/ previous.targets = Phones)
               => Everywhere(r)
<1> DEFINE members == Members(s, g)
           noisy == Noisy(s, g, A)
           history == previous.targets \cup UNION {s.messages[e].targets : e \in members}
           channels == IF noisy = {} THEN history
                       ELSE UNION {s.messages[e].channels : e \in noisy}
           q == IF members = {} THEN Clear(g, previous.targets)
                ELSE Show(g, members, channels, noisy)
           r == Group(s, g, previous, A)
<1>1. /\ members \subseteq Recorded(s) /\ noisy \subseteq members
      /\ Recorded(s) \subseteq Episodes
      /\ \A e \in Recorded(s) : /\ s.messages[e] \in Message
                                /\ s.messages[e].channels \subseteq s.messages[e].targets
      /\ s.outbox \in Seq(Request)
  BY DEF Members, Noisy, WellFormed
<1>2. \A m \in Message : m.targets \subseteq Phones /\ m.channels \subseteq Phones BY DEF Message
<1>3. history \subseteq Phones /\ previous.targets \subseteq Phones BY <1>1, <1>2
<1>4. channels \subseteq Phones BY <1>1, <1>2, <1>3
<1>5. r.messages = [e \in Recorded(s) |->
                      IF e \in members
                      THEN [s.messages[e] EXCEPT !.targets = history]
                      ELSE s.messages[e]]
  BY DEF Group
<1>6. r.outbox = Append(Without(s.outbox, q.tag), q) BY DEF Group, Replace
<1>7. members = {} => noisy = {} BY <1>1
<1>8. /\ q.tag = g /\ q.episodes = members /\ q.alerting = noisy
      /\ members = {} => q.channels = previous.targets
      /\ members # {} => q.channels = channels
  BY <1>7 DEF Show, Clear
<1> HIDE DEF members, noisy, history, channels, q, r
<1>9. q \in Request
 <2>1. g \in Tags BY NamesDiffer
 <2>2. CASE members = {} BY <2>1, <2>2, <1>3 DEF q, Clear, Show, Request
 <2>3. CASE members # {} BY <2>1, <2>3, <1>1, <1>4 DEF q, Show, Request
 <2> QED BY <2>2, <2>3
<1>10. /\ r.outbox \in Seq(Request)
       /\ OthersKept(s.outbox, r.outbox, g)
       /\ OnlyOne(r.outbox, g, members)
       /\ Latest(r.outbox, g, members)
       /\ \A e, c : e \in noisy /\ c \in q.channels => RingsFor(r.outbox, g, e, c)
       /\ Rung(r.outbox) \subseteq Rung(s.outbox) \cup noisy
       /\ ToAll(s.outbox) /\ q.channels = Phones => ToAll(r.outbox)
  BY <1>1, <1>6, <1>8, <1>9, ReplaceKeeps
<1>11. Recorded(r) = Recorded(s) BY <1>5 DEF Recorded
<1>12. ASSUME NEW e \in Recorded(s)
       PROVE  /\ r.messages[e] \in Message
              /\ r.messages[e].group = s.messages[e].group
              /\ r.messages[e].channels = s.messages[e].channels
              /\ e \in members => r.messages[e].targets = history
              /\ e \notin members => r.messages[e].targets = s.messages[e].targets
 <2>1. s.messages[e] \in Message BY <1>1
 <2>2. [s.messages[e] EXCEPT !.targets = history] \in Message BY <2>1, <1>3 DEF Message
 <2>3. CASE e \in members BY <2>1, <2>2, <2>3, <1>5 DEF Message
 <2>4. CASE e \notin members BY <2>1, <2>4, <1>5
 <2> QED BY <2>3, <2>4
<1>13. WellFormed(r)
 <2>1. ASSUME NEW e \in Recorded(s)
       PROVE  r.messages[e].channels \subseteq r.messages[e].targets
  <3>1. e \in members => s.messages[e].targets \subseteq history BY DEF history
  <3> QED BY <3>1, <1>1, <1>12
 <2> QED BY <2>1, <1>1, <1>10, <1>11, <1>12 DEF WellFormed
<1>14. SamePlaces(s, r) BY <1>11, <1>12 DEF SamePlaces
<1>15. ASSUME NEW e \in members, NEW c \in s.messages[e].channels,
              e \in A \/ RingsFor(s.outbox, g, e, c)
       PROVE  RingsFor(r.outbox, g, e, c)
 <2>1. e \in noisy BY <1>15, <1>1, WaitingFacts DEF noisy, Noisy, Unsent, members
 <2>2. c \in q.channels BY <2>1, <1>7, <1>8 DEF channels
 <2> QED BY <2>1, <2>2, <1>10
<1>16. noisy \subseteq Rung(s.outbox) \cup A BY <1>1, WaitingFacts DEF noisy, Noisy, Unsent
<1>17. ASSUME Everywhere(s), members # {} \/ previous.targets = Phones
       PROVE  Everywhere(r)
 <2>1. history = Phones
  <3>1. CASE previous.targets = Phones BY <3>1, <1>3 DEF history
  <3>2. CASE members # {}
   <4>1. PICK e : e \in members BY <3>2
   <4>2. s.messages[e].targets = Phones BY <4>1, <1>1, <1>17 DEF Everywhere
   <4> QED BY <4>1, <4>2, <1>3 DEF history
  <3> QED BY <3>1, <3>2, <1>17
 <2>2. channels = Phones
  <3>1. CASE noisy = {} BY <3>1, <2>1 DEF channels
  <3>2. CASE noisy # {}
   <4>1. PICK e : e \in noisy BY <3>2
   <4>2. s.messages[e].channels = Phones BY <4>1, <1>1, <1>17 DEF Everywhere
   <4> QED BY <3>2, <4>1, <4>2, <1>4 DEF channels
  <3> QED BY <3>1, <3>2
 <2>3. q.channels = Phones BY <2>2, <1>8, <1>17
 <2>4. ToAll(r.outbox) BY <2>3, <1>10, <1>17 DEF Everywhere
 <2> QED BY <2>1, <2>4, <1>11, <1>12, <1>17 DEF Everywhere
<1> QED BY <1>10, <1>13, <1>14, <1>15, <1>16, <1>17 DEF members, r

(* Withdrawing an own message: the last request of its tag shows nothing. *)
LEMMA WithdrawKeeps ==
  ASSUME NEW s, WellFormed(s), NEW e \in Episodes, NEW channels \in SUBSET Phones
  PROVE  LET r == Withdraw(s, e, channels)
         IN /\ WellFormed(r)
            /\ r.messages = s.messages
            /\ SamePlaces(s, r)
            /\ OthersKept(s.outbox, r.outbox, e)
            /\ Latest(r.outbox, e, {})
            /\ ~ Shows(r.outbox, e)
            /\ Rung(r.outbox) \subseteq Rung(s.outbox)
            /\ Everywhere(s) /\ channels = Phones => Everywhere(r)
<1> DEFINE q == Clear(e, channels)
           r == Withdraw(s, e, channels)
<1>1. /\ q.tag = e /\ q.episodes = {} /\ q.alerting = {} /\ q.channels = channels
      /\ q \in Request
  BY NamesDiffer DEF Clear, Show, Request
<1>2. r.messages = s.messages /\ r.outbox = Append(Without(s.outbox, q.tag), q) BY <1>1 DEF Withdraw
<1>3. s.outbox \in Seq(Request) BY DEF WellFormed
<1> HIDE DEF q, r
<1>4. /\ r.outbox \in Seq(Request)
      /\ OthersKept(s.outbox, r.outbox, e)
      /\ Latest(r.outbox, e, {})
      /\ ~ Shows(r.outbox, e)
      /\ Rung(r.outbox) \subseteq Rung(s.outbox) \cup {}
      /\ ToAll(s.outbox) /\ channels = Phones => ToAll(r.outbox)
  BY <1>1, <1>2, <1>3, ReplaceKeeps
<1>5. WellFormed(r) /\ SamePlaces(s, r) BY <1>2, <1>4 DEF WellFormed, SamePlaces, Recorded
<1>6. Everywhere(s) /\ channels = Phones => Everywhere(r) BY <1>2, <1>4 DEF Everywhere, Recorded
<1> QED BY <1>2, <1>4, <1>5, <1>6 DEF r

-----------------------------------------------------------------------------
(* What holds of a DeliveryState between two steps                        *)

(* A waiting request of the summary is the only one and shows its         *)
(* members.                                                               *)
Settled(s, g) == OnlyOne(s.outbox, g, Members(s, g))

(* What will be seen under the tag once the outbox is published is what   *)
(* should be seen: the last request of the tag shows it, or none waits    *)
(* and the phone already does.                                            *)
Reaches(s, view, t) ==
  \/ Latest(s.outbox, t, Wanted(s, t))
  \/ Unused(s.outbox, t) /\ view[t] = Wanted(s, t)

(* A waiting request shows an issue under its own tag only while the      *)
(* issue is recorded with a message of its own.                           *)
IssueTagsFit(s) ==
  \A t \in Episodes : Shows(s.outbox, t) =>
    t \in Recorded(s) /\ s.messages[t].group = Alone

(* The alert for e waits for the phone c, under the tag e is presented    *)
(* by.                                                                    *)
Waits(s, e, c) ==
  /\ e \in Recorded(s)
  /\ c \in s.messages[e].channels
  /\ RingsFor(s.outbox, TagOf(s, e), e, c)

(* Leaving an earlier message: the summary is settled without the issue,  *)
(* or its own message is withdrawn.                                       *)
LEMMA MoveOutKeeps ==
  ASSUME NEW s, WellFormed(s), NEW e \in Episodes, NEW group,
         NEW previous \in Message
  PROVE  LET r == MoveOut(s, e, group, previous)
             g == previous.group
         IN /\ WellFormed(r)
            /\ SamePlaces(s, r)
            /\ g = group => r = s
            /\ g # group /\ g # Alone =>
                 /\ g \in Summaries
                 /\ OthersKept(s.outbox, r.outbox, g)
                 /\ OnlyOne(r.outbox, g, Members(s, g))
                 /\ Latest(r.outbox, g, Members(s, g))
                 /\ \A x \in Members(s, g) : \A c \in s.messages[x].channels :
                      RingsFor(s.outbox, g, x, c) => RingsFor(r.outbox, g, x, c)
            /\ g # group /\ g = Alone =>
                 /\ OthersKept(s.outbox, r.outbox, e)
                 /\ Latest(r.outbox, e, {})
                 /\ ~ Shows(r.outbox, e)
            /\ Rung(r.outbox) \subseteq Rung(s.outbox)
            /\ Everywhere(s) /\ previous.channels = Phones /\ previous.targets = Phones
               => Everywhere(r)
<1> DEFINE r == MoveOut(s, e, group, previous)
           g == previous.group
<1>1. /\ g \in Summaries \cup {Alone}
      /\ previous.channels \in SUBSET Phones
  BY DEF Message
<1>2. CASE g = group
 <2>1. r = s BY <1>2 DEF MoveOut
 <2> HIDE DEF r
 <2>2. SamePlaces(s, r) BY <2>1 DEF SamePlaces
 <2> QED BY <1>2, <2>1, <2>2 DEF r
<1>3. CASE g # group /\ g # Alone
 <2>1. r = Group(s, g, previous, {}) BY <1>3 DEF MoveOut
 <2> HIDE DEF r
 <2>2. g \in Summaries BY <1>1, <1>3
 <2>3. /\ WellFormed(r)
       /\ SamePlaces(s, r)
       /\ OthersKept(s.outbox, r.outbox, g)
       /\ OnlyOne(r.outbox, g, Members(s, g))
       /\ Latest(r.outbox, g, Members(s, g))
       /\ \A x \in Members(s, g) : \A c \in s.messages[x].channels :
            x \in {} \/ RingsFor(s.outbox, g, x, c) => RingsFor(r.outbox, g, x, c)
       /\ Rung(r.outbox) \subseteq Rung(s.outbox) \cup {}
       /\ Everywhere(s) /\ (Members(s, g) # {} \/ previous.targets = Phones)
          => Everywhere(r)
   BY <2>1, <2>2, GroupKeeps
 <2> QED BY <1>3, <2>2, <2>3 DEF r
<1>4. CASE g # group /\ g = Alone
 <2>1. r = Withdraw(s, e, previous.channels) BY <1>4 DEF MoveOut
 <2> HIDE DEF r
 <2>2. /\ WellFormed(r)
       /\ SamePlaces(s, r)
       /\ OthersKept(s.outbox, r.outbox, e)
       /\ Latest(r.outbox, e, {})
       /\ ~ Shows(r.outbox, e)
       /\ Rung(r.outbox) \subseteq Rung(s.outbox)
       /\ Everywhere(s) /\ previous.channels = Phones => Everywhere(r)
   BY <2>1, <1>1, WithdrawKeeps
 <2> QED BY <1>4, <2>2 DEF r
<1> QED BY <1>2, <1>3, <1>4

\* The state with the new message of e and the outbox as it was.
Entered(s, e, message) ==
  [messages |-> [x \in Recorded(s) \cup {e} |->
                   IF x = e THEN message ELSE s.messages[x]],
   outbox |-> s.outbox]

(* Recording a message changes nothing but the place of its issue.        *)
LEMMA EnteredFacts ==
  ASSUME NEW s, WellFormed(s), NEW e \in Episodes, NEW message \in Message,
         message.channels \subseteq message.targets
  PROVE  LET r == Entered(s, e, message)
         IN /\ WellFormed(r)
            /\ r.outbox = s.outbox
            /\ Recorded(r) = Recorded(s) \cup {e}
            /\ r.messages[e] = message
            /\ \A x \in Recorded(s) : x # e => r.messages[x] = s.messages[x]
            /\ \A g : Members(r, g) = (Members(s, g) \ {e}) \cup
                                      (IF message.group = g THEN {e} ELSE {})
            /\ \A x \in Recorded(s) : x # e => TagOf(r, x) = TagOf(s, x)
            /\ Everywhere(s) /\ message.channels = Phones /\ message.targets = Phones
               => Everywhere(r)
<1> DEFINE r == Entered(s, e, message)
<1>1. /\ r.outbox = s.outbox
      /\ Recorded(r) = Recorded(s) \cup {e}
      /\ r.messages[e] = message
      /\ \A x \in Recorded(s) : x # e => r.messages[x] = s.messages[x]
  BY DEF Entered, Recorded
<1> HIDE DEF r
<1>2. WellFormed(r) BY <1>1 DEF WellFormed
<1>3. ASSUME NEW g
      PROVE  Members(r, g) = (Members(s, g) \ {e}) \cup
                             (IF message.group = g THEN {e} ELSE {})
  BY <1>1 DEF Members
<1>4. \A x \in Recorded(s) : x # e => TagOf(r, x) = TagOf(s, x) BY <1>1 DEF TagOf
<1>5. Everywhere(s) /\ message.channels = Phones /\ message.targets = Phones
      => Everywhere(r)
  BY <1>1 DEF Everywhere
<1> QED BY <1>1, <1>2, <1>3, <1>4, <1>5 DEF r

-----------------------------------------------------------------------------
(* Where and how a notification is presented                              *)

(* The last part of record: the summary is refreshed, or an own message   *)
(* is sent.                                                               *)
Presented(s, e, group, previous, channels, alerting) ==
  CASE group # Alone -> Group(s, group, previous, alerting)
    [] OTHER -> [messages |-> s.messages,
                 outbox |-> Append(s.outbox, Show(e, {e}, channels, alerting))]

(* The states in which record comes to its last part.                     *)
Presentable(s, e, group, previous, channels, alerting) ==
  /\ WellFormed(s)
  /\ e \in Episodes /\ e \in Recorded(s)
  /\ group \in Summaries \cup {Alone} /\ s.messages[e].group = group
  /\ previous \in Message
  /\ channels \subseteq Phones
  /\ alerting \subseteq {e}

(* That part makes the issue seen where it is recorded, and rings for     *)
(* nothing but the issue itself.                                          *)
LEMMA PresentedKeeps ==
  ASSUME NEW s, NEW e, NEW group, NEW previous, NEW channels, NEW alerting,
         Presentable(s, e, group, previous, channels, alerting)
  PROVE  LET r == Presented(s, e, group, previous, channels, alerting)
         IN /\ WellFormed(r)
            /\ SamePlaces(s, r)
            /\ group # Alone =>
                 /\ OthersKept(s.outbox, r.outbox, group)
                 /\ OnlyOne(r.outbox, group, Members(s, group))
                 /\ Latest(r.outbox, group, Members(s, group))
                 /\ \A x \in Members(s, group) : \A c \in s.messages[x].channels :
                      x \in alerting \/ RingsFor(s.outbox, group, x, c)
                      => RingsFor(r.outbox, group, x, c)
            /\ group = Alone =>
                 /\ OthersKept(s.outbox, r.outbox, e)
                 /\ \A t, x, c : RingsFor(s.outbox, t, x, c) => RingsFor(r.outbox, t, x, c)
                 /\ Latest(r.outbox, e, {e})
                 /\ \A c \in channels : e \in alerting => RingsFor(r.outbox, e, e, c)
            /\ Rung(r.outbox) \subseteq Rung(s.outbox) \cup alerting
            /\ Everywhere(s) /\ channels = Phones => Everywhere(r)
<1> DEFINE r == Presented(s, e, group, previous, channels, alerting)
<1>0. /\ WellFormed(s)
      /\ e \in Episodes /\ e \in Recorded(s)
      /\ group \in Summaries \cup {Alone} /\ s.messages[e].group = group
      /\ previous \in Message
      /\ channels \subseteq Phones
      /\ alerting \subseteq {e}
  BY DEF Presentable
<1>1. CASE group # Alone
 <2>1. group \in Summaries /\ e \in Members(s, group) BY <1>0, <1>1 DEF Members
 <2>2. r = Group(s, group, previous, alerting) BY <1>1 DEF Presented
 <2> HIDE DEF r
 <2>3. /\ WellFormed(r)
       /\ SamePlaces(s, r)
       /\ OthersKept(s.outbox, r.outbox, group)
       /\ OnlyOne(r.outbox, group, Members(s, group))
       /\ Latest(r.outbox, group, Members(s, group))
       /\ \A x \in Members(s, group) : \A c \in s.messages[x].channels :
            x \in alerting \/ RingsFor(s.outbox, group, x, c)
            => RingsFor(r.outbox, group, x, c)
       /\ Rung(r.outbox) \subseteq Rung(s.outbox) \cup alerting
       /\ Everywhere(s) /\ (Members(s, group) # {} \/ previous.targets = Phones)
          => Everywhere(r)
   BY <1>0, <2>1, <2>2, GroupKeeps
 <2> QED BY <1>1, <2>1, <2>3 DEF r
<1>2. CASE group = Alone
 <2> DEFINE q == Show(e, {e}, channels, alerting)
 <2>1. r.messages = s.messages /\ r.outbox = Append(s.outbox, q) BY <1>2 DEF Presented
 <2>2. /\ q.tag = e /\ q.episodes = {e} /\ q.alerting = alerting
       /\ q.channels = channels /\ q \in Request
   BY <1>0, NamesDiffer DEF Show, Request
 <2> HIDE DEF r, q
 <2>3. s.outbox \in Seq(Request) BY <1>0 DEF WellFormed
 <2>4. /\ r.outbox \in Seq(Request)
       /\ \A t, E : t # e /\ OnlyOne(s.outbox, t, E) => OnlyOne(r.outbox, t, E)
       /\ \A t, E : t # e /\ Latest(s.outbox, t, E) => Latest(r.outbox, t, E)
       /\ Latest(r.outbox, e, {e})
       /\ \A t : t # e /\ Unused(s.outbox, t) => Unused(r.outbox, t)
       /\ \A t : Shows(r.outbox, t) => Shows(s.outbox, t) \/ t = e
       /\ \A t, x, c : RingsFor(s.outbox, t, x, c) => RingsFor(r.outbox, t, x, c)
       /\ \A x, c : x \in alerting /\ c \in channels => RingsFor(r.outbox, e, x, c)
       /\ Rung(r.outbox) \subseteq Rung(s.outbox) \cup alerting
       /\ ToAll(s.outbox) /\ channels = Phones => ToAll(r.outbox)
  <3> DEFINE b == Append(s.outbox, q)
  <3>1. /\ b \in Seq(Request)
        /\ \A t, E : t # q.tag /\ OnlyOne(s.outbox, t, E) => OnlyOne(b, t, E)
        /\ \A t, E : t # q.tag /\ Latest(s.outbox, t, E) => Latest(b, t, E)
        /\ Latest(b, q.tag, q.episodes)
        /\ \A t : t # q.tag /\ Unused(s.outbox, t) => Unused(b, t)
        /\ \A t : Shows(b, t) => Shows(s.outbox, t) \/ (t = q.tag /\ q.episodes # {})
        /\ \A t, x, c : RingsFor(s.outbox, t, x, c) => RingsFor(b, t, x, c)
        /\ \A x, c : x \in q.alerting /\ c \in q.channels => RingsFor(b, q.tag, x, c)
        /\ Rung(b) \subseteq Rung(s.outbox) \cup q.alerting
        /\ ToAll(s.outbox) /\ q.channels = Phones => ToAll(b)
    BY <2>2, <2>3, AppendKeeps
  <3>2. r.outbox = b BY <2>1
  <3> HIDE DEF b
  <3> QED BY <2>2, <3>1, <3>2
 <2>5. OthersKept(s.outbox, r.outbox, e) BY <2>4 DEF OthersKept
 <2>6. WellFormed(r) /\ SamePlaces(s, r) BY <1>0, <2>1, <2>4 DEF WellFormed, SamePlaces, Recorded
 <2>7. Everywhere(s) /\ channels = Phones => Everywhere(r) BY <2>1, <2>4 DEF Everywhere, Recorded
 <2> QED BY <1>2, <2>4, <2>5, <2>6, <2>7 DEF r
<1> QED BY <1>1, <1>2

(* The ways a notification comes about.                                   *)
Causes == {"issue", "digest", "activate"}

(* Where a notification is presented: a silent one stays where it was.    *)
LEMMA GroupForFacts ==
  ASSUME NEW previous \in Message, NEW cause \in Causes, NEW silent \in BOOLEAN,
         silent => cause = "issue", held \in BOOLEAN
  PROVE  /\ GroupFor(previous, cause, silent) \in Summaries \cup {Alone}
         /\ silent => GroupFor(previous, cause, silent) = previous.group
         /\ cause = "activate" => GroupFor(previous, cause, silent) = "activation"
         /\ cause = "digest" /\ ~ held => GroupFor(previous, cause, silent) = "digest"
<1> DEFINE g == GroupFor(previous, cause, silent)
<1>0. previous.group \in Summaries \cup {Alone} BY DEF Message
<1>1. CASE cause = "activate"
 <2>1. g = "activation" /\ ~ silent BY <1>1 DEF GroupFor
 <2> QED BY <1>1, <2>1 DEF Summaries
<1>2. CASE cause # "activate" /\ held /\ ~ silent
 <2>1. g = "startup" BY <1>2 DEF GroupFor
 <2> QED BY <1>2, <2>1 DEF Summaries
<1>3. CASE cause = "digest" /\ ~ (held /\ ~ silent)
 <2>1. g = "digest" /\ ~ silent BY <1>3 DEF GroupFor
 <2> QED BY <1>3, <2>1 DEF Summaries
<1>4. CASE cause = "issue" /\ silent
 <2>1. g = previous.group BY <1>4 DEF GroupFor
 <2> QED BY <1>0, <1>4, <2>1
<1>5. CASE cause = "issue" /\ ~ silent /\ ~ held
 <2>1. g = Alone BY <1>5 DEF GroupFor
 <2> QED BY <1>5, <2>1
<1> QED BY <1>1, <1>2, <1>3, <1>4, <1>5 DEF Causes

-----------------------------------------------------------------------------
(* record of a Notification                                               *)

(* The earlier message of an issue has its types, recorded or not.        *)
LEMMA PreviousFacts ==
  ASSUME NEW s, WellFormed(s), NEW e
  PROVE  /\ Previous(s, e) \in Message
         /\ Previous(s, e).channels \subseteq Previous(s, e).targets
         /\ e \in Recorded(s) => Previous(s, e) = s.messages[e]
         /\ e \notin Recorded(s) => Previous(s, e).group = Alone
  BY DEF Previous, WellFormed, NoMessage, Message

\* What recording a notification of e keeps and brings about.
NotifyEffect(s, r, e, group, silent, resolved) ==
  /\ WellFormed(r)
  /\ Recorded(r) = Recorded(s) \cup {e}
  /\ \A x \in Recorded(s) : x # e => r.messages[x].group = s.messages[x].group
  /\ \A g \in Summaries : Settled(s, g) \/ g = group => Settled(r, g)
  /\ IssueTagsFit(s) => IssueTagsFit(r)
  /\ \A view : \A t \in Tags :
       Reaches(s, view, t) \/ (t = group /\ t \in Summaries) => Reaches(r, view, t)
  /\ \A x, c : x # e /\ Waits(s, x, c) => Waits(r, x, c)
  /\ ~ silent => \A c \in resolved : Waits(r, e, c)
  /\ silent => \A c : Waits(s, e, c) => Waits(r, e, c)
  /\ Rung(r.outbox) \subseteq Rung(s.outbox) \cup (IF silent THEN {} ELSE {e})
  /\ Everywhere(s) /\ resolved = Phones => Everywhere(r)

(* record of a Notification keeps what holds of the other issues and      *)
(* tags, and brings about what it is for.                                 *)
LEMMA NotifyKeeps ==
  ASSUME NEW s, WellFormed(s), NEW e \in Episodes, NEW cause \in Causes,
         NEW silent \in BOOLEAN, silent => cause = "issue",
         NEW resolved \in SUBSET Phones, NEW identical \in BOOLEAN,
         held \in BOOLEAN
  PROVE  NotifyEffect(s, Notify(s, e, cause, silent, resolved, identical), e,
                      GroupFor(Previous(s, e), cause, silent), silent, resolved)
<1> DEFINE known == e \in Recorded(s)
           previous == Previous(s, e)
           group == GroupFor(previous, cause, silent)
           channels == IF silent /\ known THEN previous.targets ELSE resolved
           message == [group |-> group, channels |-> channels,
                       targets |-> previous.targets \cup channels]
           entered == Entered(s, e, message)
           moved == IF known THEN MoveOut(entered, e, group, previous) ELSE entered
           alerting == IF silent THEN {} ELSE {e}
           skipped == silent /\ known /\ identical
           presented == Presented(moved, e, group, previous, channels, alerting)
           r == Notify(s, e, cause, silent, resolved, identical)
<1>1. /\ previous \in Message /\ previous.channels \subseteq previous.targets
      /\ known => previous = s.messages[e]
      /\ ~ known => previous.group = Alone
  BY PreviousFacts
<1>2. /\ known \in BOOLEAN /\ skipped \in BOOLEAN
      /\ alerting \in SUBSET {e}
  OBVIOUS
<1>3. r = IF group = Alone /\ skipped THEN moved ELSE presented
 <2>1. CASE group # Alone BY <2>1 DEF Notify, Presented, Entered
 <2>2. CASE group = Alone /\ skipped BY <2>2 DEF Notify, Presented, Entered
 <2>3. CASE group = Alone /\ ~ skipped BY <2>3 DEF Notify, Presented, Entered
 <2> QED BY <2>1, <2>2, <2>3
<1> HIDE DEF r
<1>4. group \in Summaries \cup {Alone} /\ (silent => group = previous.group) BY <1>1, GroupForFacts
<1>5. /\ silent /\ known => channels = previous.targets
      /\ ~ (silent /\ known) => channels = resolved
      /\ channels \in SUBSET Phones
  BY <1>1 DEF Message
<1> HIDE DEF group, previous, channels
<1>6. /\ message \in Message /\ message.group = group /\ message.channels = channels
      /\ message.targets = previous.targets \cup channels
      /\ message.channels \subseteq message.targets
  BY <1>1, <1>4, <1>5 DEF Message
<1> HIDE DEF message
<1>7. /\ WellFormed(entered)
      /\ entered.outbox = s.outbox
      /\ Recorded(entered) = Recorded(s) \cup {e}
      /\ entered.messages[e] = message
      /\ \A x \in Recorded(s) : x # e => entered.messages[x] = s.messages[x]
      /\ \A g : Members(entered, g) = (Members(s, g) \ {e}) \cup
                                      (IF message.group = g THEN {e} ELSE {})
      /\ \A x \in Recorded(s) : x # e => TagOf(entered, x) = TagOf(s, x)
      /\ Everywhere(s) /\ message.channels = Phones /\ message.targets = Phones
         => Everywhere(entered)
  BY <1>6, EnteredFacts
<1> HIDE DEF entered
<1> DEFINE left == previous.group
           moves == known /\ left # group
<1>8. /\ WellFormed(moved)
      /\ SamePlaces(entered, moved)
      /\ ~ moves => moved = entered
      /\ moves /\ left # Alone =>
           /\ left \in Summaries
           /\ OthersKept(s.outbox, moved.outbox, left)
           /\ OnlyOne(moved.outbox, left, Members(entered, left))
           /\ Latest(moved.outbox, left, Members(entered, left))
           /\ \A x \in Members(entered, left) : \A c \in entered.messages[x].channels :
                RingsFor(s.outbox, left, x, c) => RingsFor(moved.outbox, left, x, c)
      /\ moves /\ left = Alone =>
           /\ OthersKept(s.outbox, moved.outbox, e)
           /\ Latest(moved.outbox, e, {})
           /\ ~ Shows(moved.outbox, e)
      /\ Rung(moved.outbox) \subseteq Rung(s.outbox)
      /\ Everywhere(entered) /\ (known => previous.channels = Phones /\ previous.targets = Phones)
         => Everywhere(moved)
 <2>1. CASE known
  <3>1. moved = MoveOut(entered, e, group, previous) BY <2>1
  <3> QED BY <1>1, <1>7, <2>1, <3>1, MoveOutKeeps
 <2>2. CASE ~ known
  <3>1. moved = entered BY <2>2
  <3>2. SamePlaces(entered, entered) BY DEF SamePlaces
  <3> QED BY <1>7, <2>2, <3>1, <3>2
 <2> QED BY <2>1, <2>2
<1> HIDE DEF moved
<1>9. /\ e \in Recorded(moved) /\ moved.messages[e].group = group
      /\ moved.messages[e].channels = channels
      /\ Recorded(moved) = Recorded(s) \cup {e}
  BY <1>6, <1>7, <1>8 DEF SamePlaces
<1>10. /\ WellFormed(r)
       /\ SamePlaces(moved, r)
       /\ group # Alone =>
            /\ OthersKept(moved.outbox, r.outbox, group)
            /\ OnlyOne(r.outbox, group, Members(moved, group))
            /\ Latest(r.outbox, group, Members(moved, group))
            /\ \A x \in Members(moved, group) : \A c \in moved.messages[x].channels :
                 x \in alerting \/ RingsFor(moved.outbox, group, x, c)
                 => RingsFor(r.outbox, group, x, c)
       /\ group = Alone =>
            /\ OthersKept(moved.outbox, r.outbox, e)
            /\ \A t, x, c : RingsFor(moved.outbox, t, x, c) => RingsFor(r.outbox, t, x, c)
            /\ ~ skipped => /\ Latest(r.outbox, e, {e})
                            /\ \A c \in channels : e \in alerting
                                 => RingsFor(r.outbox, e, e, c)
            /\ skipped => r = moved
       /\ Rung(r.outbox) \subseteq Rung(moved.outbox) \cup alerting
       /\ Everywhere(moved) /\ channels = Phones => Everywhere(r)
 <2> HIDE DEF skipped, alerting
 <2>1. CASE group = Alone /\ skipped
  <3>1. r = moved BY <1>3, <2>1
  <3>2. SamePlaces(moved, moved) /\ OthersKept(moved.outbox, moved.outbox, e)
    BY DEF SamePlaces, OthersKept
  <3> QED BY <2>1, <3>1, <3>2, <1>8
 <2>2. CASE ~ (group = Alone /\ skipped)
  <3>1. r = presented BY <1>3, <2>2
  <3>2. WellFormed(moved) /\ e \in Recorded(moved) /\ moved.messages[e].group = group BY <1>8, <1>9
  <3>3. Presentable(moved, e, group, previous, channels, alerting)
    BY <3>2, <1>1, <1>2, <1>4, <1>5 DEF Presentable
  <3>4. /\ WellFormed(presented) /\ SamePlaces(moved, presented)
        /\ Rung(presented.outbox) \subseteq Rung(moved.outbox) \cup alerting
        /\ Everywhere(moved) /\ channels = Phones => Everywhere(presented)
    BY <3>3, PresentedKeeps
  <3>5. group # Alone =>
          /\ OthersKept(moved.outbox, presented.outbox, group)
          /\ OnlyOne(presented.outbox, group, Members(moved, group))
          /\ Latest(presented.outbox, group, Members(moved, group))
          /\ \A x \in Members(moved, group) : \A c \in moved.messages[x].channels :
               x \in alerting \/ RingsFor(moved.outbox, group, x, c)
               => RingsFor(presented.outbox, group, x, c)
    BY <3>3, PresentedKeeps
  <3>6. group = Alone =>
          /\ OthersKept(moved.outbox, presented.outbox, e)
          /\ \A t, x, c : RingsFor(moved.outbox, t, x, c)
                         => RingsFor(presented.outbox, t, x, c)
          /\ Latest(presented.outbox, e, {e})
          /\ \A c \in channels : e \in alerting => RingsFor(presented.outbox, e, e, c)
    BY <3>3, PresentedKeeps
  <3> QED BY <2>2, <3>1, <3>4, <3>5, <3>6
 <2> QED BY <2>1, <2>2
<1>11. SamePlaces(entered, r) BY <1>8, <1>10 DEF SamePlaces
<1>12. /\ \A g : Members(r, g) = Members(entered, g) /\ Members(moved, g) = Members(entered, g)
       /\ \A t : Wanted(r, t) = Wanted(entered, t)
       /\ \A x \in Recorded(entered) : TagOf(r, x) = TagOf(entered, x)
  BY <1>8, <1>11, SamePlacesMembers
<1> DEFINE new == IF group = Alone THEN e ELSE group
           old == IF left = Alone THEN e ELSE left
<1>13. OthersKept(moved.outbox, r.outbox, new) BY <1>10
<1>14. moves => OthersKept(s.outbox, moved.outbox, old) BY <1>8
<1>15. ~ moves => moved.outbox = s.outbox BY <1>7, <1>8
<1>16. /\ Alone \notin Summaries /\ e \notin Summaries
       /\ \A g \in Summaries : g # e /\ g # Alone
       /\ left \in Summaries \cup {Alone}
  BY <1>1, NamesDiffer DEF Message
<1>17. known <=> e \in Recorded(s) OBVIOUS
<1>18. e \in Members(s, left) \/ ~ known BY <1>1 DEF Members
<1>19. \A g : g # left /\ known => e \notin Members(s, g) BY <1>1 DEF Members
<1>20. \A g : ~ known => e \notin Members(s, g) BY DEF Members
<1> HIDE DEF known
<1>21. ASSUME NEW g \in Summaries, Settled(s, g) \/ g = group
       PROVE  Settled(r, g)
 <2>1. CASE g = group BY <2>1, <1>10, <1>12, <1>16 DEF Settled
 <2>2. CASE g # group /\ moves /\ g = left
  <3>1. OnlyOne(moved.outbox, g, Members(entered, g)) BY <2>2, <1>8, <1>16
  <3> QED BY <3>1, <2>2, <1>12, <1>13, <1>16 DEF Settled, OthersKept
 <2>3. CASE g # group /\ ~ (moves /\ g = left)
  <3>1. Members(entered, g) = Members(s, g)
   <4>1. e \notin Members(s, g)
    <5>1. CASE known BY <2>3, <5>1, <1>19
    <5>2. CASE ~ known BY <5>2, <1>20
    <5> QED BY <5>1, <5>2
   <4>2. message.group # g BY <2>3, <1>6
   <4> QED BY <4>1, <4>2, <1>7
  <3>2. OnlyOne(s.outbox, g, Members(s, g)) BY <2>3, <1>21 DEF Settled
  <3>3. OnlyOne(moved.outbox, g, Members(s, g))
   <4>1. CASE moves
    <5>1. g # old BY <2>3, <4>1, <1>16
    <5> QED BY <3>2, <4>1, <5>1, <1>14 DEF OthersKept
   <4>2. CASE ~ moves BY <3>2, <4>2, <1>15
   <4> QED BY <4>1, <4>2
  <3>4. g # new BY <2>3, <1>16
  <3> QED BY <3>1, <3>3, <3>4, <1>12, <1>13 DEF Settled, OthersKept
 <2> QED BY <2>1, <2>2, <2>3
<1>22. ASSUME IssueTagsFit(s), NEW t \in Episodes, Shows(r.outbox, t)
       PROVE  t \in Recorded(r) /\ r.messages[t].group = Alone
 <2>1. t \notin Summaries BY NamesDiffer
 <2>2. CASE t # e
  <3>1. Shows(moved.outbox, t) BY <2>1, <2>2, <1>4, <1>13, <1>22 DEF OthersKept
  <3>2. Shows(s.outbox, t) BY <2>1, <2>2, <3>1, <1>14, <1>15, <1>16 DEF OthersKept
  <3>3. t \in Recorded(s) /\ s.messages[t].group = Alone BY <3>2, <1>22 DEF IssueTagsFit
  <3> QED BY <3>3, <2>2, <1>7, <1>11 DEF SamePlaces
 <2>3. CASE t = e /\ group = Alone BY <2>3, <1>9, <1>10 DEF SamePlaces
 <2>4. CASE t = e /\ group # Alone
  <3>1. Shows(moved.outbox, e) BY <2>4, <1>4, <1>13, <1>16, <1>22 DEF OthersKept
  <3>2. ~ (moves /\ left = Alone) BY <3>1, <1>8
  <3>3. Shows(s.outbox, e) BY <3>1, <3>2, <1>14, <1>15, <1>16 DEF OthersKept
  <3>4. e \in Recorded(s) /\ s.messages[e].group = Alone BY <3>3, <1>22 DEF IssueTagsFit
  <3> QED BY <3>2, <3>4, <2>4, <1>1, <1>17
 <2> QED BY <2>2, <2>3, <2>4
<1>23. ASSUME NEW view, NEW t \in Tags,
              Reaches(s, view, t) \/ (t = group /\ t \in Summaries)
       PROVE  Reaches(r, view, t)
 <2>1. CASE t = group /\ group # Alone
  <3>1. group # Alone /\ t \in Summaries BY <2>1, <1>4
  <3>2. Wanted(r, t) = Members(entered, t) BY <3>1, <1>12 DEF Wanted
  <3> QED BY <2>1, <3>1, <3>2, <1>10, <1>12 DEF Reaches
 <2>2. CASE t = e /\ group = Alone /\ ~ skipped
  <3>1. Wanted(r, t) = {e} BY <2>2, <1>6, <1>7, <1>12, <1>16 DEF Wanted
  <3> QED BY <2>2, <3>1, <1>10 DEF Reaches
 <2>3. CASE t = e /\ group = Alone /\ skipped
  <3>1. ~ moves /\ r = moved BY <2>3, <1>4, <1>10
  <3>2. r.outbox = s.outbox BY <3>1, <1>15
  <3>3. Wanted(r, t) = {e} BY <2>3, <1>6, <1>7, <1>12, <1>16 DEF Wanted
  <3>4. Wanted(s, t) = {e} BY <2>3, <1>4, <1>16, <1>18 DEF Wanted
  <3>5. t # group \/ t \notin Summaries BY <2>3, <1>16
  <3> QED BY <3>2, <3>3, <3>4, <3>5, <1>23 DEF Reaches
 <2>4. CASE t # new /\ moves /\ t = old
  <3>1. Latest(moved.outbox, t, Wanted(entered, t))
   <4>1. CASE left # Alone
    <5>1. t = left /\ t \in Summaries BY <2>4, <4>1, <1>16
    <5> QED BY <2>4, <4>1, <5>1, <1>8 DEF Wanted
   <4>2. CASE left = Alone
    <5>1. t = e /\ group # Alone /\ t \notin Summaries BY <2>4, <4>2, <1>16
    <5>2. Wanted(entered, t) = {} BY <5>1, <1>6, <1>7 DEF Wanted
    <5> QED BY <2>4, <4>2, <5>1, <5>2, <1>8
   <4> QED BY <4>1, <4>2
  <3>2. Latest(r.outbox, t, Wanted(entered, t)) BY <2>4, <3>1, <1>13 DEF OthersKept
  <3> QED BY <3>2, <1>12 DEF Reaches
 <2>5. CASE t # new /\ ~ (moves /\ t = old)
  <3>1. Reaches(s, view, t) BY <2>5, <1>16, <1>23
  <3>2. Wanted(entered, t) = Wanted(s, t)
   <4>1. CASE t \in Summaries
    <5>1. e \notin Members(s, t) BY <2>5, <4>1, <1>16, <1>19, <1>20
    <5> QED BY <2>5, <4>1, <5>1, <1>6, <1>7, <1>16 DEF Wanted
   <4>2. CASE t \notin Summaries /\ t # e
    <5>1. t \in Members(entered, Alone) <=> t \in Members(s, Alone) BY <4>2, <1>7
    <5> QED BY <4>2, <5>1 DEF Wanted
   <4>3. CASE t \notin Summaries /\ t = e
    <5>1. group # Alone BY <2>5, <4>3
    <5>2. e \notin Members(entered, Alone) BY <5>1, <1>6, <1>7
    <5>3. e \notin Members(s, Alone) BY <5>1, <2>5, <4>3, <1>19, <1>20
    <5> QED BY <4>3, <5>2, <5>3 DEF Wanted
   <4> QED BY <4>1, <4>2, <4>3
  <3>3. /\ \A E : Latest(s.outbox, t, E) => Latest(moved.outbox, t, E)
        /\ Unused(s.outbox, t) => Unused(moved.outbox, t)
    BY <2>5, <1>14, <1>15 DEF OthersKept
  <3>4. /\ \A E : Latest(moved.outbox, t, E) => Latest(r.outbox, t, E)
        /\ Unused(moved.outbox, t) => Unused(r.outbox, t)
    BY <2>5, <1>13 DEF OthersKept
  <3> QED BY <3>1, <3>2, <3>3, <3>4, <1>12 DEF Reaches
 <2> QED BY <2>1, <2>2, <2>3, <2>4, <2>5
<1>24. ASSUME NEW x, NEW c, x # e, Waits(s, x, c)
       PROVE  Waits(r, x, c)
 <2> DEFINE t == TagOf(s, x)
 <2>1. x \in Recorded(s) /\ c \in s.messages[x].channels /\ RingsFor(s.outbox, t, x, c)
   BY <1>24 DEF Waits
 <2>2. /\ x \in Episodes /\ x \in Recorded(entered)
       /\ entered.messages[x] = s.messages[x]
       /\ c \in entered.messages[x].channels
       /\ TagOf(entered, x) = t
   BY <2>1, <1>7, <1>24 DEF WellFormed
 <2>3. /\ t # e
       /\ t = left => x \in Members(s, left)
       /\ t = group => x \in Members(s, group)
  <3>1. x \notin Summaries /\ x # Alone => TRUE OBVIOUS
  <3>2. s.messages[x] \in Message BY <2>1 DEF WellFormed
  <3>3. CASE s.messages[x].group = Alone
   <4>1. t = x BY <3>3 DEF TagOf
   <4>2. x \notin Summaries BY <2>2, NamesDiffer
   <4> QED BY <4>1, <4>2, <3>3, <1>4, <1>16, <1>24, <2>1 DEF Members
  <3>4. CASE s.messages[x].group # Alone
   <4>1. t = s.messages[x].group /\ t \in Summaries BY <3>2, <3>4 DEF TagOf, Message
   <4> QED BY <4>1, <1>16, <2>1 DEF Members
  <3> QED BY <3>3, <3>4
 <2> HIDE DEF t
 <2>4. RingsFor(moved.outbox, t, x, c)
  <3>1. CASE ~ moves BY <3>1, <2>1, <1>15
  <3>2. CASE moves /\ t = old
   <4>1. left # Alone /\ t = left BY <3>2, <2>3
   <4>2. x \in Members(entered, left) BY <4>1, <2>3, <1>7, <1>24
   <4> QED BY <3>2, <4>1, <4>2, <2>1, <2>2, <1>8
  <3>3. CASE moves /\ t # old BY <3>3, <2>1, <1>14 DEF OthersKept
  <3> QED BY <3>1, <3>2, <3>3
 <2>5. RingsFor(r.outbox, t, x, c)
  <3>1. CASE t = new
   <4>1. group # Alone /\ t = group BY <3>1, <2>3
   <4>2. x \in Members(moved, group) BY <4>1, <2>3, <1>7, <1>12, <1>24
   <4>3. c \in moved.messages[x].channels BY <2>2, <1>8 DEF SamePlaces
   <4> QED BY <4>1, <4>2, <4>3, <2>4, <1>10
  <3>2. CASE t # new BY <3>2, <2>4, <1>13 DEF OthersKept
  <3> QED BY <3>1, <3>2
 <2>6. x \in Recorded(r) /\ c \in r.messages[x].channels BY <2>2, <1>11 DEF SamePlaces
 <2>7. TagOf(r, x) = t BY <2>2, <1>12
 <2> QED BY <2>5, <2>6, <2>7 DEF Waits
<1>25. /\ e \in Recorded(r) /\ r.messages[e].group = group
       /\ r.messages[e].channels = channels
       /\ TagOf(r, e) = new
       /\ group # Alone => e \in Members(moved, group)
 <2>1. /\ e \in Recorded(r) /\ r.messages[e].group = group
       /\ r.messages[e].channels = channels
   BY <1>9, <1>10 DEF SamePlaces
 <2>2. group # Alone => e \in Members(moved, group) BY <1>6, <1>7, <1>12
 <2> QED BY <2>1, <2>2 DEF TagOf
<1>26. ASSUME ~ silent, NEW c \in resolved PROVE Waits(r, e, c)
 <2>1. c \in channels /\ e \in alerting /\ ~ skipped BY <1>5, <1>26
 <2>2. RingsFor(r.outbox, new, e, c)
  <3>1. CASE group # Alone BY <3>1, <2>1, <1>9, <1>10, <1>25
  <3>2. CASE group = Alone BY <3>2, <2>1, <1>10
  <3> QED BY <3>1, <3>2
 <2> QED BY <2>1, <2>2, <1>25 DEF Waits
<1>27. ASSUME silent, NEW c, Waits(s, e, c) PROVE Waits(r, e, c)
 <2>1. /\ known /\ c \in previous.channels /\ group = left
       /\ RingsFor(s.outbox, TagOf(s, e), e, c)
   BY <1>1, <1>4, <1>17, <1>27 DEF Waits
 <2>2. TagOf(s, e) = new BY <2>1, <1>1 DEF TagOf
 <2>3. c \in channels BY <2>1, <1>1, <1>5, <1>27
 <2>4. RingsFor(moved.outbox, new, e, c) BY <2>1, <2>2, <1>15
 <2>5. RingsFor(r.outbox, new, e, c)
  <3>1. CASE group # Alone BY <3>1, <2>3, <2>4, <1>9, <1>10, <1>25
  <3>2. CASE group = Alone BY <3>2, <2>4, <1>10
  <3> QED BY <3>1, <3>2
 <2> QED BY <2>3, <2>5, <1>25 DEF Waits
<1>28. Rung(r.outbox) \subseteq Rung(s.outbox) \cup (IF silent THEN {} ELSE {e}) BY <1>8, <1>10
<1>29. ASSUME Everywhere(s), resolved = Phones PROVE Everywhere(r)
 <2>1. known => previous.channels = Phones /\ previous.targets = Phones
   BY <1>1, <1>17, <1>29 DEF Everywhere
 <2>2. channels = Phones BY <2>1, <1>5, <1>29
 <2>3. message.targets = Phones BY <2>2, <1>6 DEF Message
 <2> QED BY <2>1, <2>2, <2>3, <1>6, <1>7, <1>8, <1>10, <1>29
<1>30. Recorded(r) = Recorded(s) \cup {e} BY <1>7, <1>11 DEF SamePlaces
<1>31. ASSUME NEW x \in Recorded(s), x # e
       PROVE  r.messages[x].group = s.messages[x].group
  BY <1>7, <1>11, <1>31 DEF SamePlaces
<1>32. IssueTagsFit(s) => IssueTagsFit(r) BY <1>22 DEF IssueTagsFit
<1> QED
  BY <1>10, <1>21, <1>23, <1>24, <1>26, <1>27, <1>28, <1>29, <1>30, <1>31, <1>32
     DEF r, group, previous, NotifyEffect

-----------------------------------------------------------------------------
(* One call that notifies of several issues                               *)

\* Where the alerts of one library call are presented.
Place(cause) ==
  CASE cause = "activate" -> "activation"
    [] cause = "digest" /\ held -> "startup"
    [] cause = "digest" /\ ~ held -> "digest"

\* What one library call that alerts for the issues of done keeps.
Follows(s, r, done, place, resolved) ==
  /\ WellFormed(r)
  /\ Recorded(r) = Recorded(s) \cup done
  /\ \A g \in Summaries : Settled(s, g) \/ (g = place /\ done # {}) => Settled(r, g)
  /\ IssueTagsFit(s) => IssueTagsFit(r)
  /\ \A view : \A t \in Tags :
       Reaches(s, view, t) \/ (t = place /\ done # {}) => Reaches(r, view, t)
  /\ \A x, c : x \notin done /\ Waits(s, x, c) => Waits(r, x, c)
  /\ \A x \in done : \A c \in resolved : Waits(r, x, c)
  /\ Rung(r.outbox) \subseteq Rung(s.outbox) \cup done
  /\ Everywhere(s) /\ resolved = Phones => Everywhere(r)

(* A report and an activation put all their issues into one summary.      *)
LEMMA PlaceFacts ==
  ASSUME NEW previous \in Message, NEW cause \in {"digest", "activate"},
         held \in BOOLEAN
  PROVE  /\ GroupFor(previous, cause, FALSE) = Place(cause)
         /\ Place(cause) \in Summaries
<1>1. CASE cause = "activate" BY <1>1 DEF GroupFor, Place, Summaries
<1>2. CASE cause = "digest" /\ held BY <1>2 DEF GroupFor, Place, Summaries
<1>3. CASE cause = "digest" /\ ~ held BY <1>3 DEF GroupFor, Place, Summaries
<1> QED BY <1>1, <1>2, <1>3

(* One more notification of a call keeps what the earlier ones            *)
(* established.                                                           *)
LEMMA FollowsStep ==
  ASSUME NEW s, NEW a, NEW done, NEW e \in Episodes,
         NEW cause \in {"digest", "activate"}, NEW resolved \in SUBSET Phones,
         held \in BOOLEAN, Follows(s, a, done, Place(cause), resolved)
  PROVE  Follows(s, Notify(a, e, cause, FALSE, resolved, FALSE), done \cup {e},
                 Place(cause), resolved)
<1> DEFINE r == Notify(a, e, cause, FALSE, resolved, FALSE)
           group == GroupFor(Previous(a, e), cause, FALSE)
           place == Place(cause)
<1>1. WellFormed(a) /\ Previous(a, e) \in Message BY PreviousFacts DEF Follows
<1>2. group = place /\ place \in Summaries BY <1>1, PlaceFacts
<1>3. cause \in Causes BY DEF Causes
<1>4. /\ WellFormed(r)
      /\ Recorded(r) = Recorded(a) \cup {e}
      /\ \A g \in Summaries : Settled(a, g) \/ g = group => Settled(r, g)
      /\ IssueTagsFit(a) => IssueTagsFit(r)
      /\ \A view : \A t \in Tags :
           Reaches(a, view, t) \/ (t = group /\ t \in Summaries) => Reaches(r, view, t)
      /\ \A x, c : x # e /\ Waits(a, x, c) => Waits(r, x, c)
      /\ ~ FALSE => \A c \in resolved : Waits(r, e, c)
      /\ Rung(r.outbox) \subseteq Rung(a.outbox) \cup (IF FALSE THEN {} ELSE {e})
      /\ Everywhere(a) /\ resolved = Phones => Everywhere(r)
 <2>1. (FALSE => cause = "issue") /\ FALSE \in BOOLEAN OBVIOUS
 <2>2. NotifyEffect(a, r, e, group, FALSE, resolved) BY <1>1, <1>3, <2>1, NotifyKeeps
 <2> HIDE DEF r, group
 <2> QED BY <2>2 DEF NotifyEffect
<1> HIDE DEF r, group, place
<1>5. /\ Recorded(a) = Recorded(s) \cup done
      /\ \A g \in Summaries : Settled(s, g) \/ (g = place /\ done # {}) => Settled(a, g)
      /\ IssueTagsFit(s) => IssueTagsFit(a)
      /\ \A view : \A t \in Tags :
           Reaches(s, view, t) \/ (t = place /\ done # {}) => Reaches(a, view, t)
      /\ \A x, c : x \notin done /\ Waits(s, x, c) => Waits(a, x, c)
      /\ \A x \in done : \A c \in resolved : Waits(a, x, c)
      /\ Rung(a.outbox) \subseteq Rung(s.outbox) \cup done
      /\ Everywhere(s) /\ resolved = Phones => Everywhere(a)
  BY DEF Follows, place
<1>6. Recorded(r) = Recorded(s) \cup (done \cup {e}) BY <1>4, <1>5
<1>7. ASSUME NEW g \in Summaries, Settled(s, g) \/ (g = place /\ done \cup {e} # {})
      PROVE  Settled(r, g)
  BY <1>2, <1>4, <1>5, <1>7
<1>8. ASSUME NEW view, NEW t \in Tags,
             Reaches(s, view, t) \/ (t = place /\ done \cup {e} # {})
      PROVE  Reaches(r, view, t)
  BY <1>2, <1>4, <1>5, <1>8
<1>9. ASSUME NEW x, NEW c, x \notin done \cup {e}, Waits(s, x, c) PROVE Waits(r, x, c)
  BY <1>4, <1>5, <1>9
<1>10. ASSUME NEW x \in done \cup {e}, NEW c \in resolved PROVE Waits(r, x, c) BY <1>4, <1>5
<1>11. Rung(r.outbox) \subseteq Rung(s.outbox) \cup (done \cup {e}) BY <1>4, <1>5
<1>12. /\ IssueTagsFit(s) => IssueTagsFit(r)
       /\ Everywhere(s) /\ resolved = Phones => Everywhere(r)
  BY <1>4, <1>5
<1>13. Follows(s, r, done \cup {e}, place, resolved)
  BY <1>4, <1>6, <1>7, <1>8, <1>9, <1>10, <1>11, <1>12 DEF Follows
<1> QED BY <1>13 DEF r, place

(* The recursive function inside NotifyAll, over the first n issues.      *)
NotifiedUpTo(s, order, cause, resolved, n, after) ==
  after = [i \in 0 .. n |->
             IF i = 0 THEN s
             ELSE Notify(after[i - 1], order[i], cause, FALSE, resolved, FALSE)]

(* That function exists, and NotifyAll is its last value.                 *)
LEMMA NotifyAllRecursion ==
  ASSUME NEW s, NEW order, Len(order) \in Nat, NEW cause, NEW resolved
  PROVE  \E after : /\ NotifiedUpTo(s, order, cause, resolved, Len(order), after)
                    /\ NotifyAll(s, order, cause, resolved) = after[Len(order)]
<1> DEFINE Upto(n, after) == NotifiedUpTo(s, order, cause, resolved, n, after)
           G == {n \in Nat : \E after : Upto(n, after)}
<1>1. 0 \in G
 <2> DEFINE after == [i \in 0 .. 0 |-> s]
 <2>1. Upto(0, after) BY DEF NotifiedUpTo
 <2> QED BY <2>1
<1>2. ASSUME NEW n \in Nat, n \in G PROVE n + 1 \in G
 <2>1. PICK after : Upto(n, after) BY <1>2
 <2> DEFINE last == Notify(after[n], order[n + 1], cause, FALSE, resolved, FALSE)
            longer == [i \in 0 .. n + 1 |-> IF i = n + 1 THEN last ELSE after[i]]
 <2>2. ASSUME NEW i \in 0 .. n + 1
       PROVE  longer[i] = IF i = 0 THEN s
              ELSE Notify(longer[i - 1], order[i], cause, FALSE, resolved, FALSE)
  <3>1. CASE i = n + 1
   <4>1. /\ i - 1 = n /\ i - 1 \in 0 .. n + 1 /\ i - 1 # n + 1
         /\ i \in 0 .. n + 1 /\ i # 0
     BY <3>1
   <4>2. longer[i - 1] = after[n] BY <4>1
   <4>3. longer[i] = last BY <3>1, <4>1
   <4> HIDE DEF longer
   <4> QED BY <3>1, <4>1, <4>2, <4>3
  <3>2. CASE i # n + 1
   <4>1. i \in 0 .. n /\ (i # 0 => i - 1 \in 0 .. n /\ i - 1 # n + 1 /\ i - 1 \in 0 .. n + 1)
     BY <3>2
   <4>2. after[i] = IF i = 0 THEN s
           ELSE Notify(after[i - 1], order[i], cause, FALSE, resolved, FALSE)
     BY <4>1, <2>1 DEF NotifiedUpTo
   <4>3. longer[i] = after[i] /\ (i # 0 => longer[i - 1] = after[i - 1]) BY <4>1, <3>2
   <4> HIDE DEF longer
   <4> QED BY <4>2, <4>3
  <3> QED BY <3>1, <3>2
 <2>3. Upto(n + 1, longer)
  <3> HIDE DEF last
  <3> QED BY <2>2 DEF NotifiedUpTo
 <2> QED BY <2>3
<1>3. Len(order) \in G
 <2> HIDE DEF G
 <2> QED BY <1>1, <1>2, Induction
<1>4. PICK f : Upto(Len(order), f) BY <1>3
<1> DEFINE after == CHOOSE after : after = [i \in 0 .. Len(order) |->
             IF i = 0 THEN s
             ELSE Notify(after[i - 1], order[i], cause, FALSE, resolved, FALSE)]
<1>5. Upto(Len(order), after) BY <1>4 DEF NotifiedUpTo
<1>6. NotifyAll(s, order, cause, resolved) = after[Len(order)] BY DEF NotifyAll
<1> QED BY <1>5, <1>6

(* What a report or an activation keeps and brings about, for any number  *)
(* of issues in any order.                                                *)
LEMMA NotifyAllKeeps ==
  ASSUME NEW s, WellFormed(s), NEW order \in Seq(Episodes),
         NEW cause \in {"digest", "activate"}, NEW resolved \in SUBSET Phones,
         held \in BOOLEAN
  PROVE  Follows(s, NotifyAll(s, order, cause, resolved), ToSet(order),
                 Place(cause), resolved)
<1> DEFINE L == Len(order)
           place == Place(cause)
           Done(n) == {order[i] : i \in 1 .. n}
<1>1. L \in Nat /\ DOMAIN order = 1 .. L /\ \A i \in 1 .. L : order[i] \in Episodes OBVIOUS
<1>2. PICK after : /\ NotifiedUpTo(s, order, cause, resolved, L, after)
                   /\ NotifyAll(s, order, cause, resolved) = after[L]
  BY <1>1, NotifyAllRecursion
<1> HIDE DEF L
<1>3. after[0] = s BY <1>1, <1>2 DEF NotifiedUpTo
<1>4. ASSUME NEW n \in Nat, n + 1 <= L
      PROVE  after[n + 1] = Notify(after[n], order[n + 1], cause, FALSE, resolved, FALSE)
 <2>1. n + 1 \in 0 .. L /\ n + 1 # 0 /\ (n + 1) - 1 = n BY <1>1, <1>4
 <2> QED BY <2>1, <1>2 DEF NotifiedUpTo
<1> DEFINE G == {n \in Nat : n <= L => Follows(s, after[n], Done(n), place, resolved)}
<1>5. 0 \in G
 <2>1. Done(0) = {} OBVIOUS
 <2>2. Follows(s, s, {}, place, resolved) BY DEF Follows
 <2> QED BY <2>1, <2>2, <1>3
<1>6. ASSUME NEW n \in Nat, n \in G PROVE n + 1 \in G
 <2> SUFFICES ASSUME n + 1 <= L
              PROVE  Follows(s, after[n + 1], Done(n + 1), place, resolved)
   OBVIOUS
 <2>1. Follows(s, after[n], Done(n), place, resolved) /\ order[n + 1] \in Episodes BY <1>1, <1>6
 <2>2. Done(n + 1) = Done(n) \cup {order[n + 1]}
  <3>1. 1 .. n + 1 = (1 .. n) \cup {n + 1} OBVIOUS
  <3> QED BY <3>1
 <2>3. after[n + 1] = Notify(after[n], order[n + 1], cause, FALSE, resolved, FALSE) BY <1>4
 <2>4. Follows(s, Notify(after[n], order[n + 1], cause, FALSE, resolved, FALSE),
               Done(n) \cup {order[n + 1]}, place, resolved)
  <3> HIDE DEF Done
  <3> QED BY <2>1, FollowsStep
 <2> HIDE DEF Done, place
 <2> QED BY <2>2, <2>3, <2>4
<1>7. L \in G
 <2> HIDE DEF G
 <2> QED BY <1>1, <1>5, <1>6, Induction
<1>8. Done(L) = ToSet(order) BY <1>1 DEF ToSet
<1>9. Follows(s, after[L], Done(L), place, resolved) BY <1>1, <1>7
<1> HIDE DEF Done
<1> QED BY <1>2, <1>8, <1>9

-----------------------------------------------------------------------------
(* Ended issues and new reports                                           *)

(* Forgetting messages leaves the outbox and the other messages alone.    *)
LEMMA ForgetFacts ==
  ASSUME NEW s, WellFormed(s), NEW E
  PROVE  LET r == Forget(s, E)
         IN /\ WellFormed(r)
            /\ r.outbox = s.outbox
            /\ Recorded(r) = Recorded(s) \ E
            /\ \A x \in Recorded(r) : r.messages[x] = s.messages[x]
            /\ \A g : Members(r, g) = Members(s, g) \ E
            /\ \A x \in Recorded(r) : TagOf(r, x) = TagOf(s, x)
            /\ Everywhere(s) => Everywhere(r)
<1> DEFINE r == Forget(s, E)
<1>1. /\ r.outbox = s.outbox
      /\ Recorded(r) = Recorded(s) \ E
      /\ \A x \in Recorded(r) : r.messages[x] = s.messages[x]
  BY DEF Forget, Recorded
<1> HIDE DEF r
<1>2. WellFormed(r) /\ (Everywhere(s) => Everywhere(r)) BY <1>1 DEF WellFormed, Everywhere
<1>3. \A g : Members(r, g) = Members(s, g) \ E BY <1>1 DEF Members
<1>4. \A x \in Recorded(r) : TagOf(r, x) = TagOf(s, x) BY <1>1 DEF TagOf
<1> QED BY <1>1, <1>2, <1>3, <1>4 DEF r

(* A new report forgets members of the digest: only what is said of the   *)
(* digest can be lost.                                                    *)
LEMMA PrepareReportsKeeps ==
  ASSUME NEW s, WellFormed(s), NEW E
  PROVE  LET r == PrepareReports(s, E)
         IN /\ WellFormed(r)
            /\ r.outbox = s.outbox
            /\ Recorded(r) \subseteq Recorded(s)
            /\ \A g \in Summaries : g # "digest" /\ Settled(s, g) => Settled(r, g)
            /\ IssueTagsFit(s) => IssueTagsFit(r)
            /\ \A view : \A t \in Tags :
                 t # "digest" /\ Reaches(s, view, t) => Reaches(r, view, t)
            /\ \A x, c : x \in Recorded(r) /\ Waits(s, x, c) => Waits(r, x, c)
            /\ Everywhere(s) => Everywhere(r)
<1> DEFINE r == PrepareReports(s, E)
           F == Members(s, "digest") \ E
<1>1. r = Forget(s, F) BY DEF PrepareReports
<1> HIDE DEF r
<1>2. /\ WellFormed(r)
      /\ r.outbox = s.outbox
      /\ Recorded(r) = Recorded(s) \ F
      /\ \A x \in Recorded(r) : r.messages[x] = s.messages[x]
      /\ \A g : Members(r, g) = Members(s, g) \ F
      /\ \A x \in Recorded(r) : TagOf(r, x) = TagOf(s, x)
      /\ Everywhere(s) => Everywhere(r)
 <2> HIDE DEF F
 <2> QED BY <1>1, ForgetFacts
<1>3. ASSUME NEW g, g # "digest" PROVE Members(r, g) = Members(s, g) BY <1>2, <1>3 DEF Members
<1>4. \A t : t # "digest" => Wanted(r, t) = Wanted(s, t) BY <1>3 DEF Wanted, Alone
<1>5. \A x \in F : s.messages[x].group = "digest" BY DEF Members
<1> HIDE DEF F
<1>6. \A g \in Summaries : g # "digest" /\ Settled(s, g) => Settled(r, g) BY <1>2, <1>3 DEF Settled
<1>7. ASSUME IssueTagsFit(s) PROVE IssueTagsFit(r)
 <2>1. ASSUME NEW t \in Episodes, Shows(r.outbox, t)
       PROVE  t \in Recorded(r) /\ r.messages[t].group = Alone
  <3>1. t \in Recorded(s) /\ s.messages[t].group = Alone BY <2>1, <1>2, <1>7 DEF IssueTagsFit
  <3>2. t \notin F BY <3>1, <1>5 DEF Alone
  <3> QED BY <3>1, <3>2, <1>2
 <2> QED BY <2>1 DEF IssueTagsFit
<1>8. \A view : \A t \in Tags :
        t # "digest" /\ Reaches(s, view, t) => Reaches(r, view, t)
  BY <1>2, <1>4 DEF Reaches
<1>9. ASSUME NEW x, NEW c, x \in Recorded(r), Waits(s, x, c) PROVE Waits(r, x, c)
  BY <1>2, <1>9 DEF Waits
<1> QED BY <1>2, <1>6, <1>7, <1>8, <1>9 DEF r

(* record of a ResolutionNotice: the issue is withdrawn and every other   *)
(* issue and tag keeps what holds of it.                                  *)
LEMMA ResolveKeeps ==
  ASSUME NEW s, WellFormed(s), NEW e \in Episodes
  PROVE  LET r == Resolve(s, e)
         IN /\ WellFormed(r)
            /\ Recorded(r) = Recorded(s) \ {e}
            /\ \A g \in Summaries : Settled(s, g) => Settled(r, g)
            /\ IssueTagsFit(s) => IssueTagsFit(r)
            /\ \A view : \A t \in Tags :
                 t # e /\ Reaches(s, view, t) => Reaches(r, view, t)
            /\ \A x, c : x # e /\ Waits(s, x, c) => Waits(r, x, c)
            /\ Rung(r.outbox) \subseteq Rung(s.outbox)
            /\ Everywhere(s) => Everywhere(r)
<1> DEFINE previous == Previous(s, e)
           g == previous.group
           known == e \in Recorded(s)
           dropped == [messages |-> Forget(s, {e}).messages,
                       outbox |-> Without(s.outbox, e)]
           r == Resolve(s, e)
<1>1. /\ previous \in Message
      /\ known => previous = s.messages[e]
      /\ ~ known => previous.group = Alone
  BY PreviousFacts
<1>2. r = IF ~ known THEN dropped
          ELSE IF g # Alone THEN Group(dropped, g, previous, {})
          ELSE Withdraw(dropped, e, previous.targets)
 <2>1. CASE ~ known BY <2>1, <1>1 DEF Resolve
 <2>2. CASE known /\ g # Alone BY <2>2 DEF Resolve
 <2>3. CASE known /\ g = Alone BY <2>3 DEF Resolve
 <2> QED BY <2>1, <2>2, <2>3
<1> HIDE DEF r, previous
<1>3. s.outbox \in Seq(Request) BY DEF WellFormed
<1>4. /\ dropped.outbox \in Seq(Request)
      /\ OthersKept(s.outbox, dropped.outbox, e)
      /\ ~ Shows(dropped.outbox, e)
      /\ Rung(dropped.outbox) \subseteq Rung(s.outbox)
      /\ ToAll(s.outbox) => ToAll(dropped.outbox)
 <2> DEFINE w == Without(s.outbox, e)
 <2>1. /\ w \in Seq(Request)
       /\ \A t, E : OnlyOne(s.outbox, t, E) => OnlyOne(w, t, E)
       /\ \A t, E : t # e /\ Latest(s.outbox, t, E) => Latest(w, t, E)
       /\ \A t : Unused(s.outbox, t) => Unused(w, t)
       /\ \A t : Shows(w, t) => Shows(s.outbox, t) /\ t # e
       /\ \A t, x, c : t # e /\ RingsFor(s.outbox, t, x, c) => RingsFor(w, t, x, c)
       /\ Rung(w) \subseteq Rung(s.outbox)
       /\ ToAll(s.outbox) => ToAll(w)
   BY <1>3, WithoutKeeps
 <2>2. dropped.outbox = w OBVIOUS
 <2> HIDE DEF w, dropped
 <2>3. OthersKept(s.outbox, w, e) BY <2>1 DEF OthersKept
 <2> QED BY <2>1, <2>2, <2>3
<1>5. /\ WellFormed(dropped)
      /\ Recorded(dropped) = Recorded(s) \ {e}
      /\ \A x \in Recorded(dropped) : dropped.messages[x] = s.messages[x]
      /\ \A h : Members(dropped, h) = Members(s, h) \ {e}
      /\ \A x \in Recorded(dropped) : TagOf(dropped, x) = TagOf(s, x)
      /\ Everywhere(s) => Everywhere(dropped)
 <2> DEFINE f == Forget(s, {e})
 <2>1. /\ WellFormed(f)
       /\ Recorded(f) = Recorded(s) \ {e}
       /\ \A x \in Recorded(f) : f.messages[x] = s.messages[x]
       /\ \A h : Members(f, h) = Members(s, h) \ {e}
       /\ \A x \in Recorded(f) : TagOf(f, x) = TagOf(s, x)
       /\ Everywhere(s) => Everywhere(f)
   BY ForgetFacts
 <2>2. dropped.messages = f.messages OBVIOUS
 <2> HIDE DEF dropped, f
 <2>3. /\ Recorded(dropped) = Recorded(f)
       /\ \A h : Members(dropped, h) = Members(f, h)
       /\ \A x : TagOf(dropped, x) = TagOf(f, x)
   BY <2>2 DEF Recorded, Members, TagOf
 <2>4. WellFormed(dropped) BY <2>1, <2>2, <2>3, <1>4 DEF WellFormed
 <2>5. Everywhere(s) => Everywhere(dropped) BY <2>1, <2>2, <2>3, <1>4 DEF Everywhere
 <2> QED BY <2>1, <2>2, <2>3, <2>4, <2>5
<1> HIDE DEF dropped
<1> DEFINE grouped == known /\ g # Alone
<1>6. g \in Summaries \cup {Alone} /\ previous.targets \in SUBSET Phones BY <1>1 DEF Message
<1>7. /\ WellFormed(r)
      /\ SamePlaces(dropped, r)
      /\ grouped =>
           /\ OthersKept(dropped.outbox, r.outbox, g)
           /\ OnlyOne(r.outbox, g, Members(dropped, g))
           /\ Latest(r.outbox, g, Members(dropped, g))
           /\ \A x \in Members(dropped, g) : \A c \in dropped.messages[x].channels :
                RingsFor(dropped.outbox, g, x, c) => RingsFor(r.outbox, g, x, c)
      /\ ~ grouped => /\ OthersKept(dropped.outbox, r.outbox, e)
                      /\ ~ Shows(r.outbox, e)
      /\ Rung(r.outbox) \subseteq Rung(dropped.outbox)
      /\ Everywhere(dropped) /\ (known => previous.targets = Phones) => Everywhere(r)
 <2>1. CASE ~ known
  <3>1. r = dropped BY <1>2, <2>1
  <3>2. SamePlaces(dropped, dropped) /\ OthersKept(dropped.outbox, dropped.outbox, e)
    BY DEF SamePlaces, OthersKept
  <3> QED BY <3>1, <3>2, <2>1, <1>4, <1>5
 <2>2. CASE known /\ g # Alone
  <3>1. g \in Summaries BY <1>6, <2>2
  <3> DEFINE p == Group(dropped, g, previous, {})
  <3>2. r = p BY <1>2, <2>2
  <3>3. /\ WellFormed(p)
        /\ SamePlaces(dropped, p)
        /\ OthersKept(dropped.outbox, p.outbox, g)
        /\ OnlyOne(p.outbox, g, Members(dropped, g))
        /\ Latest(p.outbox, g, Members(dropped, g))
        /\ \A x \in Members(dropped, g) : \A c \in dropped.messages[x].channels :
             x \in {} \/ RingsFor(dropped.outbox, g, x, c) => RingsFor(p.outbox, g, x, c)
        /\ Rung(p.outbox) \subseteq Rung(dropped.outbox) \cup {}
        /\ Everywhere(dropped) /\ (Members(dropped, g) # {} \/ previous.targets = Phones)
           => Everywhere(p)
    BY <3>1, <1>1, <1>5, GroupKeeps
  <3> HIDE DEF p
  <3> QED BY <3>2, <3>3, <2>2
 <2>3. CASE known /\ g = Alone
  <3> DEFINE p == Withdraw(dropped, e, previous.targets)
  <3>2. r = p BY <1>2, <2>3
  <3>3. /\ WellFormed(p)
        /\ SamePlaces(dropped, p)
        /\ OthersKept(dropped.outbox, p.outbox, e)
        /\ ~ Shows(p.outbox, e)
        /\ Rung(p.outbox) \subseteq Rung(dropped.outbox)
        /\ Everywhere(dropped) /\ previous.targets = Phones => Everywhere(p)
    BY <1>5, <1>6, WithdrawKeeps
  <3> HIDE DEF p
  <3> QED BY <3>2, <3>3, <2>3
 <2> QED BY <2>1, <2>2, <2>3
<1>8. /\ \A h : Members(r, h) = Members(dropped, h)
      /\ \A t : Wanted(r, t) = Wanted(dropped, t)
      /\ \A x \in Recorded(dropped) : TagOf(r, x) = TagOf(dropped, x)
      /\ Recorded(r) = Recorded(dropped)
      /\ \A x \in Recorded(dropped) : /\ r.messages[x].channels = dropped.messages[x].channels
                                      /\ r.messages[x].group = dropped.messages[x].group
  BY <1>7, SamePlacesMembers DEF SamePlaces
<1>9. /\ e \notin Summaries /\ Alone \notin Summaries
      /\ \A h \in Summaries : h # e /\ h # Alone
  BY NamesDiffer
<1>10. /\ \A h : h # g => e \notin Members(s, h) \/ ~ known
       /\ \A h : e \in Members(s, h) => known
  BY <1>1 DEF Members
<1>11. ASSUME NEW h \in Summaries, Settled(s, h) PROVE Settled(r, h)
 <2>1. CASE grouped /\ h = g BY <2>1, <1>7, <1>8 DEF Settled
 <2>2. CASE ~ (grouped /\ h = g)
  <3>1. Members(r, h) = Members(s, h)
   <4>1. e \notin Members(s, h) BY <2>2, <1>9, <1>10
   <4> QED BY <4>1, <1>5, <1>8
  <3>2. OnlyOne(dropped.outbox, h, Members(s, h)) BY <1>4, <1>9, <1>11 DEF Settled, OthersKept
  <3>3. OnlyOne(r.outbox, h, Members(s, h)) BY <2>2, <3>2, <1>7, <1>9 DEF OthersKept
  <3> QED BY <3>1, <3>3 DEF Settled
 <2> QED BY <2>1, <2>2
<1>12. ASSUME IssueTagsFit(s), NEW t \in Episodes, Shows(r.outbox, t)
       PROVE  t \in Recorded(r) /\ r.messages[t].group = Alone
 <2>1. t # g \/ ~ grouped BY <1>6, NamesDiffer
 <2>2. t # e BY <2>1, <1>4, <1>7, <1>12 DEF OthersKept
 <2>3. Shows(dropped.outbox, t) BY <2>1, <2>2, <1>7, <1>12 DEF OthersKept
 <2>4. Shows(s.outbox, t) BY <2>2, <2>3, <1>4 DEF OthersKept
 <2>5. t \in Recorded(s) /\ s.messages[t].group = Alone BY <2>4, <1>12 DEF IssueTagsFit
 <2> QED BY <2>2, <2>5, <1>5, <1>8
<1>13. ASSUME NEW view, NEW t \in Tags, t # e, Reaches(s, view, t)
       PROVE  Reaches(r, view, t)
 <2>1. CASE grouped /\ t = g
  <3>1. Wanted(r, t) = Members(dropped, g) BY <2>1, <1>6, <1>8 DEF Wanted
  <3> QED BY <2>1, <3>1, <1>7 DEF Reaches
 <2>2. CASE ~ (grouped /\ t = g)
  <3>1. Wanted(r, t) = Wanted(s, t)
   <4>1. CASE t \in Summaries
    <5>1. e \notin Members(s, t) BY <2>2, <4>1, <1>9, <1>10
    <5>2. Members(r, t) = Members(s, t) BY <5>1, <1>5, <1>8
    <5> QED BY <4>1, <5>2 DEF Wanted
   <4>2. CASE t \notin Summaries BY <4>2, <1>5, <1>8, <1>13 DEF Wanted
   <4> QED BY <4>1, <4>2
  <3>2. /\ \A E : Latest(s.outbox, t, E) => Latest(dropped.outbox, t, E)
        /\ Unused(s.outbox, t) => Unused(dropped.outbox, t)
    BY <1>4, <1>13 DEF OthersKept
  <3>3. /\ \A E : Latest(dropped.outbox, t, E) => Latest(r.outbox, t, E)
        /\ Unused(dropped.outbox, t) => Unused(r.outbox, t)
    BY <2>2, <1>7, <1>13 DEF OthersKept
  <3> QED BY <3>1, <3>2, <3>3, <1>13 DEF Reaches
 <2> QED BY <2>1, <2>2
<1>14. ASSUME NEW x, NEW c, x # e, Waits(s, x, c) PROVE Waits(r, x, c)
 <2> DEFINE t == TagOf(s, x)
 <2>1. x \in Recorded(s) /\ c \in s.messages[x].channels /\ RingsFor(s.outbox, t, x, c)
   BY <1>14 DEF Waits
 <2>2. /\ x \in Recorded(dropped) /\ x \in Episodes
       /\ c \in dropped.messages[x].channels
       /\ TagOf(r, x) = t
       /\ x \in Recorded(r) /\ c \in r.messages[x].channels
   BY <2>1, <1>5, <1>8, <1>14 DEF WellFormed
 <2>3. t # e /\ (t = g /\ g # Alone => x \in Members(s, g))
  <3>1. s.messages[x] \in Message BY <2>1 DEF WellFormed
  <3>2. CASE s.messages[x].group = Alone
   <4>1. t = x BY <3>2 DEF TagOf
   <4>2. x \notin Summaries BY <2>2, NamesDiffer
   <4> QED BY <4>1, <4>2, <1>6, <1>14
  <3>3. CASE s.messages[x].group # Alone
   <4>1. t = s.messages[x].group /\ t \in Summaries BY <3>1, <3>3 DEF TagOf, Message
   <4> QED BY <4>1, <1>9, <2>1 DEF Members
  <3> QED BY <3>2, <3>3
 <2> HIDE DEF t
 <2>4. RingsFor(dropped.outbox, t, x, c) BY <2>1, <2>3, <1>4 DEF OthersKept
 <2>5. RingsFor(r.outbox, t, x, c)
  <3>1. CASE grouped /\ t = g
   <4>1. x \in Members(dropped, g) BY <3>1, <2>3, <1>5, <1>14
   <4> QED BY <3>1, <4>1, <2>2, <2>4, <1>7
  <3>2. CASE ~ (grouped /\ t = g) BY <3>2, <2>3, <2>4, <1>7 DEF OthersKept
  <3> QED BY <3>1, <3>2
 <2> QED BY <2>2, <2>5 DEF Waits
<1>15. ASSUME Everywhere(s) PROVE Everywhere(r)
 <2>1. known => previous.targets = Phones BY <1>1, <1>15 DEF Everywhere
 <2> QED BY <2>1, <1>5, <1>7, <1>15
<1>16. IssueTagsFit(s) => IssueTagsFit(r) BY <1>12 DEF IssueTagsFit
<1>17. Recorded(r) = Recorded(s) \ {e} /\ Rung(r.outbox) \subseteq Rung(s.outbox)
  BY <1>4, <1>5, <1>7, <1>8
<1> QED BY <1>7, <1>11, <1>13, <1>14, <1>15, <1>16, <1>17 DEF r

-----------------------------------------------------------------------------
(* Turning sending off                                                    *)

(* A finite set as a sequence: every element once.                        *)
LEMMA SetToSeqFacts ==
  ASSUME NEW S, IsFiniteSet(S)
  PROVE  LET q == SetToSeq(S)
         IN /\ q \in Seq(S)
            /\ DOMAIN q = 1 .. Cardinality(S) /\ Cardinality(S) \in Nat
            /\ \A i, j \in DOMAIN q : q[i] = q[j] => i = j
            /\ \A x \in S : \E i \in DOMAIN q : q[i] = x
<1> DEFINE D == 1 .. Cardinality(S)
           q == SetToSeq(S)
<1>1. Cardinality(S) \in Nat /\ ExistsBijection(D, S) BY FS_CardinalityType
<1>2. PICK f : f \in Bijection(D, S) BY <1>1 DEF ExistsBijection
<1>3. f \in [D -> S] /\ IsInjective(f) BY <1>2 DEF Bijection, Injection, IsInjective
<1>4. q \in [D -> S] /\ IsInjective(q) BY <1>3 DEF SetToSeq
<1> HIDE DEF q
<1>5. \A i, j \in DOMAIN q : q[i] = q[j] => i = j BY <1>4 DEF IsInjective
<1>6. q \in Seq(S) BY <1>1, <1>4
<1>7. \A x \in S : \E i \in D : q[i] = x
 <2>1. q \in Injection(D, S) BY <1>4, <1>5 DEF Injection
 <2>2. IsFiniteSet(D) /\ Cardinality(D) = Cardinality(S) BY <1>1, FS_Interval
 <2>3. q \in Surjection(D, S) BY <2>1, <2>2, FS_Injection
 <2> QED BY <2>3 DEF Surjection
<1> QED BY <1>1, <1>4, <1>5, <1>6, <1>7 DEF q

(* The elements of two sequences after one another.                       *)
LEMMA ConcatFacts ==
  ASSUME NEW R, NEW a \in Seq(R), NEW b \in Seq(R)
  PROVE  /\ a \o b \in Seq(R)
         /\ Len(a \o b) = Len(a) + Len(b)
         /\ \A i \in 1 .. Len(a) + Len(b) :
              (a \o b)[i] = IF i <= Len(a) THEN a[i] ELSE b[i - Len(a)]
  OBVIOUS

(* deactivate: the requests that stay withdraw, one more withdraws each   *)
(* tag that was recorded, and so every tag is withdrawn where it has to   *)
(* be.                                                                    *)
LEMMA DeactivateKeeps ==
  ASSUME NEW s, WellFormed(s)
  PROVE  LET r == Deactivate(s)
         IN /\ WellFormed(r)
            /\ Recorded(r) = {}
            /\ \A g \in Summaries : Settled(s, g) => Settled(r, g)
            /\ IssueTagsFit(r)
            /\ \A view : \A t \in Tags : Reaches(s, view, t) => Reaches(r, view, t)
            /\ Rung(r.outbox) \subseteq Rung(s.outbox)
            /\ Everywhere(s) => Everywhere(r)
<1> DEFINE S == {TagOf(s, e) : e \in Recorded(s)}
           tags == SetToSeq(S)
           TargetsOf(tag) ==
             UNION {s.messages[e].targets : e \in {x \in Recorded(s) : TagOf(s, x) = tag}}
           empty == {p \in ToSet(s.outbox) : p.episodes = {}}
           kept == Keep(s.outbox, empty)
           clears == [i \in DOMAIN tags |-> Clear(tags[i], TargetsOf(tags[i]))]
           r == Deactivate(s)
           box == r.outbox
           m == Len(kept)
           n == Cardinality(S)
<1>1. /\ Recorded(s) \subseteq Episodes
      /\ \A e \in Recorded(s) : s.messages[e] \in Message
      /\ s.outbox \in Seq(Request)
  BY DEF WellFormed
<1>2. /\ \A e \in Recorded(s) : TagOf(s, e) \in Tags
      /\ \A e \in Recorded(s) : \A g \in Summaries :
           TagOf(s, e) = g <=> e \in Members(s, g)
      /\ \A e \in Recorded(s) : s.messages[e].group = Alone => TagOf(s, e) = e
 <2>1. ASSUME NEW e \in Recorded(s)
       PROVE  /\ TagOf(s, e) \in Tags
              /\ \A g \in Summaries : TagOf(s, e) = g <=> e \in Members(s, g)
              /\ s.messages[e].group = Alone => TagOf(s, e) = e
  <3>1. s.messages[e].group \in Summaries \cup {Alone} /\ e \in Episodes BY <1>1 DEF Message
  <3>2. CASE s.messages[e].group = Alone BY <3>1, <3>2, NamesDiffer DEF TagOf, Members
  <3>3. CASE s.messages[e].group # Alone BY <3>1, <3>3, NamesDiffer DEF TagOf, Members
  <3> QED BY <3>2, <3>3
 <2> QED BY <2>1
<1>3. /\ S \subseteq Tags
      /\ \A t \in S : \E e \in Recorded(s) : TagOf(s, e) = t
      /\ \A e \in Recorded(s) : TagOf(s, e) \in S
  BY <1>2
<1>4. IsFiniteSet(S)
 <2>1. IsFiniteSet(Recorded(s)) BY <1>1, DeliveryNames, FS_Subset
 <2> DEFINE f == [e \in Recorded(s) |-> TagOf(s, e)]
 <2>2. f \in Surjection(Recorded(s), S) BY <1>3 DEF Surjection
 <2> HIDE DEF f
 <2> QED BY <2>1, <2>2, FS_Surjection
<1>5. /\ r.messages = <<>>
      /\ r.outbox = kept \o clears
  BY DEF Deactivate
<1> HIDE DEF S
<1>6. /\ tags \in Seq(S)
      /\ DOMAIN tags = 1 .. n /\ n \in Nat
      /\ \A i, j \in 1 .. n : tags[i] = tags[j] => i = j
      /\ \A t \in S : \E i \in 1 .. n : tags[i] = t
      /\ \A i \in 1 .. n : tags[i] \in S
 <2>1. /\ tags \in Seq(S)
       /\ DOMAIN tags = 1 .. n /\ n \in Nat
       /\ \A i, j \in DOMAIN tags : tags[i] = tags[j] => i = j
       /\ \A t \in S : \E i \in DOMAIN tags : tags[i] = t
   BY <1>4, SetToSeqFacts
 <2> HIDE DEF tags, n
 <2>2. \A i \in DOMAIN tags : tags[i] \in S BY <2>1
 <2> QED BY <2>1, <2>2
<1> HIDE DEF tags, n
<1>7. \A t : TargetsOf(t) \in SUBSET Phones BY <1>1 DEF Message
<1>8. Everywhere(s) => \A t \in S : TargetsOf(t) = Phones
 <2> SUFFICES ASSUME Everywhere(s), NEW t \in S PROVE TargetsOf(t) = Phones OBVIOUS
 <2>1. PICK e \in Recorded(s) : TagOf(s, e) = t BY <1>3
 <2>2. s.messages[e].targets = Phones BY <2>1 DEF Everywhere
 <2>3. Phones \subseteq TargetsOf(t) BY <2>1, <2>2
 <2> QED BY <2>3, <1>7
<1> HIDE DEF TargetsOf
<1>9. \A i \in 1 .. n : /\ clears[i].tag = tags[i]
                         /\ clears[i].episodes = {}
                         /\ clears[i].alerting = {}
                         /\ clears[i].channels = TargetsOf(tags[i])
                         /\ clears[i] \in Request
  BY <1>3, <1>6, <1>7 DEF Clear, Show, Request
<1>10. clears \in Seq(Request) /\ Len(clears) = n
 <2>1. clears \in [1 .. n -> Request] BY <1>6, <1>9
 <2> HIDE DEF clears
 <2> QED BY <2>1, <1>6
<1> HIDE DEF clears
<1>11. /\ kept \in Seq(Request)
       /\ \A t, E : OnlyOne(s.outbox, t, E) => OnlyOne(kept, t, E)
       /\ \A t : Latest(s.outbox, t, {}) => Latest(kept, t, {})
       /\ \A t : Unused(s.outbox, t) => Unused(kept, t)
       /\ Rung(kept) \subseteq Rung(s.outbox)
       /\ ToAll(s.outbox) => ToAll(kept)
       /\ \A i \in DOMAIN kept : kept[i].episodes = {}
 <2>1. \A t : \A p \in ToSet(s.outbox) : p.tag = t /\ p.episodes = {} => p \in empty OBVIOUS
 <2>2. \A p \in empty : p.episodes = {} OBVIOUS
 <2> HIDE DEF empty
 <2>3. /\ Keep(s.outbox, empty) \in Seq(Request)
       /\ \A t, E : OnlyOne(s.outbox, t, E) => OnlyOne(Keep(s.outbox, empty), t, E)
       /\ \A t, E : Latest(s.outbox, t, E)
                     /\ (\A p \in ToSet(s.outbox) : p.tag = t /\ p.episodes = E => p \in empty)
                     => Latest(Keep(s.outbox, empty), t, E)
       /\ \A t : Unused(s.outbox, t) => Unused(Keep(s.outbox, empty), t)
       /\ Rung(Keep(s.outbox, empty)) \subseteq Rung(s.outbox)
       /\ ToAll(s.outbox) => ToAll(Keep(s.outbox, empty))
       /\ \A i \in DOMAIN Keep(s.outbox, empty) : Keep(s.outbox, empty)[i] \in empty
   BY <1>1, KeepKeeps
 <2> QED BY <2>1, <2>2, <2>3
<1> HIDE DEF kept, m, r
<1>12. /\ m \in Nat /\ DOMAIN kept = 1 .. m
       /\ box \in Seq(Request)
       /\ DOMAIN box = 1 .. m + n
       /\ \A i \in 1 .. m : box[i] = kept[i] /\ i \in DOMAIN box
       /\ \A i \in 1 .. n : m + i \in DOMAIN box /\ box[m + i] = clears[i] /\ m + i > m
       /\ \A i \in DOMAIN box : i \in 1 .. m \/ (i - m \in 1 .. n /\ i = m + (i - m))
 <2>1. m \in Nat /\ DOMAIN kept = 1 .. m BY <1>11 DEF m
 <2>2. box = kept \o clears BY <1>5
 <2> HIDE DEF box
 <2>3. /\ box \in Seq(Request) /\ Len(box) = m + n
       /\ \A i \in 1 .. m + n : box[i] = IF i <= m THEN kept[i] ELSE clears[i - m]
  <3>1. kept \in Seq(Request) /\ Len(kept) = m BY <1>11 DEF m
  <3>2. clears \in Seq(Request) /\ Len(clears) = n BY <1>10
  <3> QED BY <3>1, <3>2, <2>2, ConcatFacts
 <2>4. DOMAIN box = 1 .. m + n BY <2>1, <2>3, <1>6
 <2>5. \A i \in 1 .. m : box[i] = kept[i] /\ i \in DOMAIN box BY <2>1, <2>3, <2>4, <1>6
 <2>6. ASSUME NEW i \in 1 .. n
       PROVE  m + i \in DOMAIN box /\ box[m + i] = clears[i] /\ m + i > m
  <3>1. m + i \in 1 .. m + n /\ m + i > m /\ (m + i) - m = i BY <2>1, <1>6
  <3> QED BY <3>1, <2>1, <2>3, <2>4
 <2>7. ASSUME NEW i \in DOMAIN box
       PROVE  i \in 1 .. m \/ (i - m \in 1 .. n /\ i = m + (i - m))
   BY <2>1, <2>4, <1>6
 <2> QED BY <2>1, <2>3, <2>4, <2>5, <2>6, <2>7
<1> HIDE DEF box
<1>13. \A i \in DOMAIN box : \/ i \in 1 .. m /\ box[i] = kept[i] /\ box[i].episodes = {}
                             \/ /\ i - m \in 1 .. n /\ i = m + (i - m)
                                /\ box[i] = clears[i - m] /\ box[i].tag = tags[i - m]
                                /\ box[i].tag \in S /\ box[i].episodes = {}
  BY <1>6, <1>9, <1>11, <1>12
<1>14. Recorded(r) = {} /\ (\A g : Members(r, g) = {}) /\ \A t : Wanted(r, t) = {}
 <2>1. Recorded(r) = {} BY <1>5 DEF Recorded
 <2>2. \A g : Members(r, g) = {} BY <2>1 DEF Members
 <2> QED BY <2>1, <2>2 DEF Wanted
<1>15. WellFormed(r) BY <1>12, <1>14 DEF WellFormed, box
<1>16. IssueTagsFit(r) BY <1>13 DEF IssueTagsFit, Shows, box
<1>17. ASSUME NEW t \in S
       PROVE  \E i \in DOMAIN box : /\ i > m /\ box[i].tag = t /\ box[i].episodes = {}
                                    /\ \A j \in DOMAIN box : j > m /\ box[j].tag = t => j = i
 <2>1. PICK i \in 1 .. n : tags[i] = t BY <1>6
 <2>2. m + i \in DOMAIN box /\ m + i > m /\ box[m + i].tag = t /\ box[m + i].episodes = {}
   BY <2>1, <1>9, <1>12
 <2>3. ASSUME NEW j \in DOMAIN box, j > m, box[j].tag = t PROVE j = m + i
  <3>1. ~ (j \in 1 .. m) BY <2>3, <1>12
  <3>2. j - m \in 1 .. n /\ j = m + (j - m) /\ box[j].tag = tags[j - m] BY <3>1, <1>13
  <3>3. j - m = i BY <2>1, <2>3, <3>2, <1>6
  <3> QED BY <3>2, <3>3
 <2> QED BY <2>2, <2>3
<1>18. \A i, j \in DOMAIN box : i \in 1 .. m \/ i > m BY <1>12
<1>19. \A i \in DOMAIN box : ~ (i \in 1 .. m) => box[i].tag \in S BY <1>13
<1>20. ASSUME NEW g \in Summaries, Settled(s, g) PROVE OnlyOne(box, g, {})
 <2>1. OnlyOne(kept, g, Members(s, g)) BY <1>11, <1>20 DEF Settled
 <2>2. CASE g \in S
  <3>1. Members(s, g) # {} BY <2>2, <1>2, <1>3
  <3>2. \A i \in 1 .. m : kept[i].tag # g BY <2>1, <3>1, <1>11, <1>12 DEF OnlyOne
  <3>3. PICK i \in DOMAIN box : \A j \in DOMAIN box : j > m /\ box[j].tag = g => j = i
    BY <2>2, <1>17
  <3>4. \A j \in DOMAIN box : box[j].tag = g => j = i BY <3>2, <3>3, <1>12, <1>18
  <3> QED BY <3>4, <1>13 DEF OnlyOne
 <2>3. CASE g \notin S
  <3>1. \A j \in DOMAIN box : box[j].tag = g => j \in 1 .. m /\ kept[j].tag = g
    BY <2>3, <1>12, <1>19
  <3>2. \A i, j \in 1 .. m : kept[i].tag = g /\ kept[j].tag = g => j = i BY <2>1, <1>12 DEF OnlyOne
  <3> QED BY <3>1, <3>2, <1>13 DEF OnlyOne
 <2> QED BY <2>2, <2>3
<1>21. ASSUME NEW view, NEW t \in Tags, Reaches(s, view, t)
       PROVE  Reaches(r, view, t)
 <2>1. CASE t \in S
  <3>1. PICK i \in DOMAIN box : /\ i > m /\ box[i].tag = t /\ box[i].episodes = {}
                                /\ \A j \in DOMAIN box : j > m /\ box[j].tag = t => j = i
    BY <2>1, <1>17
  <3>2. \A j \in DOMAIN box : j > i => box[j].tag # t
   <4>1. \A j \in DOMAIN box : j > i => j > m /\ j # i BY <3>1, <1>12
   <4> QED BY <3>1, <4>1
  <3>3. Latest(box, t, {}) BY <3>1, <3>2 DEF Latest
  <3> QED BY <3>3, <1>14 DEF Reaches, box
 <2>2. CASE t \notin S
  <3>1. Wanted(s, t) = {}
   <4>1. CASE t \in Summaries
    <5>1. \A e \in Recorded(s) : e \notin Members(s, t) BY <2>2, <4>1, <1>2, <1>3
    <5> QED BY <4>1, <5>1 DEF Wanted, Members
   <4>2. CASE t \notin Summaries
    <5>1. t \notin Members(s, Alone) BY <2>2, <1>2, <1>3 DEF Members
    <5> QED BY <4>2, <5>1 DEF Wanted
   <4> QED BY <4>1, <4>2
  <3>2. \A j \in DOMAIN box : box[j].tag = t => j \in 1 .. m BY <2>2, <1>19
  <3>3. CASE Latest(s.outbox, t, {})
   <4>1. Latest(kept, t, {}) BY <3>3, <1>11
   <4>2. PICK i \in 1 .. m : /\ kept[i].tag = t /\ kept[i].episodes = {}
                             /\ \A j \in 1 .. m : j > i => kept[j].tag # t
     BY <4>1, <1>12 DEF Latest
   <4>3. i \in DOMAIN box /\ box[i].tag = t /\ box[i].episodes = {} BY <4>2, <1>12
   <4>4. \A j \in DOMAIN box : j > i => box[j].tag # t BY <4>2, <3>2, <1>12
   <4>5. Latest(box, t, {}) BY <4>3, <4>4 DEF Latest
   <4> QED BY <4>5, <1>14 DEF Reaches, box
  <3>4. CASE Unused(s.outbox, t) /\ view[t] = {}
   <4>1. Unused(kept, t) BY <3>4, <1>11
   <4>2. Unused(box, t) BY <4>1, <3>2, <1>12 DEF Unused
   <4> QED BY <3>4, <4>2, <1>14 DEF Reaches, box
  <3> QED BY <3>1, <3>3, <3>4, <1>21 DEF Reaches
 <2> QED BY <2>1, <2>2
<1>22. Rung(box) \subseteq Rung(s.outbox)
 <2>1. \A i \in DOMAIN box : box[i] \in ToSet(kept) \/ box[i].alerting = {} BY <1>9, <1>12 DEF ToSet
 <2>2. Rung(box) \subseteq Rung(kept) BY <2>1 DEF Rung, ToSet
 <2> QED BY <2>2, <1>11
<1>23. ASSUME Everywhere(s) PROVE Everywhere(r)
 <2>1. ToAll(kept) BY <1>11, <1>23 DEF Everywhere
 <2>2. \A i \in 1 .. n : clears[i].channels = Phones BY <1>6, <1>8, <1>9, <1>23
 <2>3. ToAll(box) BY <2>1, <2>2, <1>12 DEF ToAll
 <2> QED BY <2>3, <1>14 DEF Everywhere, box
<1>24. \A g \in Summaries : Settled(s, g) => Settled(r, g) BY <1>14, <1>20 DEF Settled, box
<1> QED BY <1>14, <1>15, <1>16, <1>21, <1>22, <1>23, <1>24 DEF r, box

-----------------------------------------------------------------------------
(* Publishing                                                             *)

(* The recursive function inside Published, over the first n requests.    *)
ShownUpTo(shown, box, n, after) ==
  after = [i \in 0 .. n |->
             IF i = 0 THEN shown ELSE Showing(after[i - 1], box[i])]

(* That function exists, and Published is its last value.                 *)
LEMMA PublishedRecursion ==
  ASSUME NEW shown, NEW box, Len(box) \in Nat
  PROVE  \E after : /\ ShownUpTo(shown, box, Len(box), after)
                    /\ Published(shown, box) = after[Len(box)]
<1> DEFINE G == {n \in Nat : \E after : ShownUpTo(shown, box, n, after)}
<1>1. 0 \in G
 <2> DEFINE after == [i \in 0 .. 0 |-> shown]
 <2>1. ShownUpTo(shown, box, 0, after) BY DEF ShownUpTo
 <2> QED BY <2>1
<1>2. ASSUME NEW n \in Nat, n \in G PROVE n + 1 \in G
 <2>1. PICK after : ShownUpTo(shown, box, n, after) BY <1>2
 <2> DEFINE last == Showing(after[n], box[n + 1])
            longer == [i \in 0 .. n + 1 |-> IF i = n + 1 THEN last ELSE after[i]]
 <2>2. ASSUME NEW i \in 0 .. n + 1
       PROVE  longer[i] = IF i = 0 THEN shown ELSE Showing(longer[i - 1], box[i])
  <3>1. CASE i = n + 1
   <4>1. /\ i - 1 = n /\ i - 1 \in 0 .. n + 1 /\ i - 1 # n + 1
         /\ i \in 0 .. n + 1 /\ i # 0
     BY <3>1
   <4>2. longer[i - 1] = after[n] BY <4>1
   <4>3. longer[i] = last BY <3>1, <4>1
   <4> HIDE DEF longer
   <4> QED BY <3>1, <4>1, <4>2, <4>3
  <3>2. CASE i # n + 1
   <4>1. i \in 0 .. n /\ (i # 0 => i - 1 \in 0 .. n /\ i - 1 # n + 1 /\ i - 1 \in 0 .. n + 1)
     BY <3>2
   <4>2. after[i] = IF i = 0 THEN shown ELSE Showing(after[i - 1], box[i])
     BY <4>1, <2>1 DEF ShownUpTo
   <4>3. longer[i] = after[i] /\ (i # 0 => longer[i - 1] = after[i - 1]) BY <4>1, <3>2
   <4> HIDE DEF longer
   <4> QED BY <4>2, <4>3
  <3> QED BY <3>1, <3>2
 <2>3. longer = [i \in 0 .. n + 1 |->
                   IF i = 0 THEN shown ELSE Showing(longer[i - 1], box[i])]
  <3> HIDE DEF last
  <3> QED BY <2>2
 <2>4. ShownUpTo(shown, box, n + 1, longer)
  <3> HIDE DEF longer
  <3> QED BY <2>3 DEF ShownUpTo
 <2> QED BY <2>4
<1>3. Len(box) \in G
 <2> HIDE DEF G
 <2> QED BY <1>1, <1>2, Induction
<1>4. PICK f : ShownUpTo(shown, box, Len(box), f) BY <1>3
<1> DEFINE after == CHOOSE after : after = [i \in 0 .. Len(box) |->
             IF i = 0 THEN shown ELSE Showing(after[i - 1], box[i])]
<1>5. ShownUpTo(shown, box, Len(box), after) BY <1>4 DEF ShownUpTo
<1>6. Published(shown, box) = after[Len(box)] BY DEF Published
<1> QED BY <1>5, <1>6

(* What phones may show.                                                  *)
Screens == [Phones -> [Tags -> SUBSET Episodes]]

(* publish: under each tag a phone shows what the last request of the tag *)
(* shows, and what it showed before when there is none.                   *)
LEMMA PublishedKeeps ==
  ASSUME NEW shown \in Screens, NEW box \in Seq(Request)
  PROVE  /\ Published(shown, box) \in Screens
         /\ ToAll(box) => \A c \in Phones : \A t \in Tags :
              /\ \A E : Latest(box, t, E) => Published(shown, box)[c][t] = E
              /\ Unused(box, t) => Published(shown, box)[c][t] = shown[c][t]
<1> DEFINE L == Len(box)
<1>1. L \in Nat /\ DOMAIN box = 1 .. L /\ \A i \in 1 .. L : box[i] \in Request OBVIOUS
<1>2. PICK after : /\ ShownUpTo(shown, box, L, after)
                   /\ Published(shown, box) = after[L]
  BY <1>1, PublishedRecursion
<1> HIDE DEF L
<1>3. after[0] = shown BY <1>1, <1>2 DEF ShownUpTo
<1>4. ASSUME NEW n \in Nat, n + 1 <= L
      PROVE  after[n + 1] = Showing(after[n], box[n + 1])
 <2>1. n + 1 \in 0 .. L /\ n + 1 # 0 /\ (n + 1) - 1 = n BY <1>1, <1>4
 <2> QED BY <2>1, <1>2 DEF ShownUpTo
<1> DEFINE Right(n) ==
             ToAll(box) => \A c \in Phones : \A t \in Tags :
               /\ (\A i \in 1 .. n : box[i].tag # t) => after[n][c][t] = shown[c][t]
               /\ \A i \in 1 .. n :
                    box[i].tag = t /\ (\A j \in 1 .. n : j > i => box[j].tag # t)
                    => after[n][c][t] = box[i].episodes
           G == {n \in Nat : n <= L => after[n] \in Screens /\ Right(n)}
<1>5. 0 \in G BY <1>3
<1>6. ASSUME NEW n \in Nat, n \in G PROVE n + 1 \in G
 <2> SUFFICES ASSUME n + 1 <= L PROVE after[n + 1] \in Screens /\ Right(n + 1) OBVIOUS
 <2>1. after[n] \in Screens /\ Right(n) BY <1>1, <1>6
 <2> DEFINE q == box[n + 1]
 <2>2. q \in Request BY <1>1
 <2>3. q.tag \in Tags /\ q.episodes \in SUBSET Episodes BY <2>2 DEF Request
 <2>4. after[n + 1] = [c \in Phones |->
                         IF c \in q.channels
                         THEN [after[n][c] EXCEPT ![q.tag] = q.episodes]
                         ELSE after[n][c]]
   BY <1>4 DEF Showing
 <2> HIDE DEF q
 <2>5. after[n + 1] \in Screens BY <2>1, <2>3, <2>4 DEF Screens
 <2>6. ASSUME ToAll(box), NEW c \in Phones, NEW t \in Tags
       PROVE  /\ t = q.tag => after[n + 1][c][t] = q.episodes
              /\ t # q.tag => after[n + 1][c][t] = after[n][c][t]
  <3>1. n + 1 \in DOMAIN box BY <1>1
  <3>2. c \in q.channels BY <3>1, <2>6 DEF ToAll, q
  <3>3. after[n + 1][c] = [after[n][c] EXCEPT ![q.tag] = q.episodes] BY <2>4, <3>2
  <3>4. after[n][c] \in [Tags -> SUBSET Episodes] BY <2>1 DEF Screens
  <3> QED BY <3>3, <3>4, <2>3
 <2>7. ASSUME ToAll(box), NEW c \in Phones, NEW t \in Tags,
              \A i \in 1 .. n + 1 : box[i].tag # t
       PROVE  after[n + 1][c][t] = shown[c][t]
  <3>1. \A i \in 1 .. n : box[i].tag # t BY <2>7
  <3>2. t # q.tag BY <2>7 DEF q
  <3> QED BY <3>1, <3>2, <2>1, <2>6, <2>7
 <2>8. ASSUME ToAll(box), NEW c \in Phones, NEW t \in Tags, NEW i \in 1 .. n + 1,
              box[i].tag = t, \A j \in 1 .. n + 1 : j > i => box[j].tag # t
       PROVE  after[n + 1][c][t] = box[i].episodes
  <3>1. CASE i = n + 1 BY <3>1, <2>6, <2>8 DEF q
  <3>2. CASE i # n + 1
   <4>1. i \in 1 .. n /\ n + 1 > i /\ n + 1 \in 1 .. n + 1 BY <3>2
   <4>2. t # q.tag BY <4>1, <2>8 DEF q
   <4>3. \A j \in 1 .. n : j > i => box[j].tag # t BY <2>8
   <4> QED BY <4>1, <4>2, <4>3, <2>1, <2>6, <2>8
  <3> QED BY <3>1, <3>2
 <2> QED BY <2>5, <2>7, <2>8
<1>7. L \in G
 <2> HIDE DEF G
 <2> QED BY <1>1, <1>5, <1>6, Induction
<1>8. after[L] \in Screens /\ Right(L) BY <1>1, <1>7
<1>9. ASSUME ToAll(box), NEW c \in Phones, NEW t \in Tags
      PROVE  /\ \A E : Latest(box, t, E) => after[L][c][t] = E
             /\ Unused(box, t) => after[L][c][t] = shown[c][t]
  BY <1>1, <1>8, <1>9 DEF Latest, Unused
<1> QED BY <1>2, <1>8, <1>9

-----------------------------------------------------------------------------
(* The invariant, and the steps of one issue                              *)

(* The variables that are true or false.                                  *)
Flags ==
  /\ held \in BOOLEAN /\ enabled \in BOOLEAN /\ fixed \in BOOLEAN
  /\ scheduled \in BOOLEAN /\ heldReport \in BOOLEAN

(* The bounded counters.                                                  *)
Counters ==
  /\ alerts \in 0 .. MaxAlerts
  /\ updates \in 0 .. MaxUpdates
  /\ restarts \in 0 .. MaxRestarts

(* The types of the variables that say nothing of the DeliveryState.      *)
Plain ==
  /\ Flags
  /\ Counters
  /\ ended \subseteq Episodes
  /\ sent \subseteq Episodes
  /\ screen \in Screens

(* OneCurrentSummary holds.                                               *)
Summarised == \A g \in Sound : Settled(state, g)

(* An alert that is owed waits for each of its phones, under the tag its  *)
(* issue is presented by now.  AlertsKept says only that it waits         *)
(* somewhere: a summary takes an alert over from the request of that tag, *)
(* so that the tag has to be known.                                       *)
Owing ==
  /\ DOMAIN owed \subseteq Recorded(state)
  /\ \A e \in DOMAIN owed : owed[e] \subseteq Phones
  /\ \A e \in DOMAIN owed : \A c \in owed[e] : Waits(state, e, c)

(* The tags PhonesShowRecord speaks of.                                   *)
Claimed == Sound \cup (Episodes \ ended)

(* With a fixed method each message is known on every phone, and the      *)
(* outbox, once published, makes every phone show what is recorded.       *)
(* PhonesShowRecord speaks of an empty outbox only.                       *)
Reaching ==
  fixed => /\ Everywhere(state)
           /\ \A c \in Phones : \A t \in Claimed : Reaches(state, screen[c], t)

(* The inductive invariant.                                               *)
IInv ==
  /\ Plain
  /\ WellFormed(state)
  /\ Summarised
  /\ IssueTagsFit(state)
  /\ Owing
  /\ Reaching

(* It holds when nothing has been recorded.                               *)
LEMMA InitInv == Init => IInv
<1> SUFFICES ASSUME Init PROVE IInv OBVIOUS
<1> DEFINE s == [messages |-> <<>>, outbox |-> <<>>]
<1>1. state = s BY DEF Init
<1>2. s.messages = <<>> /\ s.outbox = <<>> /\ Recorded(s) = {} BY DEF Recorded
<1> HIDE DEF s
<1>3. DOMAIN s.outbox = {} /\ s.outbox \in Seq(Request) BY <1>2
<1>4. WellFormed(s) BY <1>2, <1>3 DEF WellFormed
<1>5. \A g : Members(s, g) = {} /\ Settled(s, g) BY <1>2, <1>3 DEF Members, Settled, OnlyOne
<1>6. IssueTagsFit(s) BY <1>3 DEF IssueTagsFit, Shows
<1>7. Everywhere(s) BY <1>2, <1>3 DEF Everywhere, ToAll
<1>8. Plain
 <2>1. screen \in Screens BY DEF Init, Screens
 <2>2. Counters BY DeliveryBounds DEF Init, Counters
 <2>3. Flags BY DEF Init, Flags
 <2> QED BY <2>1, <2>2, <2>3 DEF Init, Plain
<1>9. Owing BY DEF Init, Owing
<1>10. ASSUME NEW c \in Phones, NEW t \in Claimed PROVE Reaches(s, screen[c], t)
 <2>1. t \in Tags BY DEF Claimed, Sound, Tags
 <2>2. screen[c][t] = {} BY <2>1 DEF Init
 <2> QED BY <2>2, <1>3, <1>5 DEF Reaches, Unused, Wanted
<1>11. Reaching BY <1>1, <1>7, <1>10 DEF Reaching
<1>12. Summarised BY <1>1, <1>5 DEF Summarised
<1> QED BY <1>1, <1>4, <1>6, <1>8, <1>9, <1>11, <1>12 DEF IInv

(* The tags and summaries the properties speak of.                        *)
LEMMA ClaimedTags == Claimed \subseteq Tags /\ Sound \subseteq Summaries /\ Sound \subseteq Claimed
  BY DEF Claimed, Sound, Tags

(* What the delivery method resolves to.                                  *)
LEMMA ResolvedFacts ==
  ASSUME NEW resolved \in Resolved
  PROVE  resolved \in SUBSET Phones /\ (fixed => resolved = Phones)
  BY DEF Resolved

\* What is owed after a step that alerts for E.
LEMMA OweKeeps ==
  ASSUME Owing, NEW E, NEW resolved, resolved \subseteq Phones, Owe(E, resolved),
         \A x \in E : x \in Recorded(state') => \A c \in resolved : Waits(state', x, c),
         \A x, c : x \notin E /\ x \in Recorded(state') /\ Waits(state, x, c)
                   => Waits(state', x, c)
  PROVE  Owing'
<1>1. owed' = [e \in (DOMAIN owed \cup E) \cap Recorded(state') |->
                 IF e \in E THEN resolved ELSE owed[e]]
  BY DEF Owe
<1>2. DOMAIN owed' = (DOMAIN owed \cup E) \cap Recorded(state') BY <1>1
<1>3. ASSUME NEW e \in DOMAIN owed'
      PROVE  owed'[e] \subseteq Phones /\ \A c \in owed'[e] : Waits(state', e, c)
 <2>1. e \in Recorded(state') /\ owed'[e] = IF e \in E THEN resolved ELSE owed[e] BY <1>1, <1>2
 <2>2. CASE e \in E BY <2>1, <2>2
 <2>3. CASE e \notin E BY <2>1, <2>3, <1>2 DEF Owing
 <2> QED BY <2>2, <2>3
<1> QED BY <1>2, <1>3 DEF Owing

(* Alert keeps the invariant and rings for its own issue only.            *)
LEMMA AlertInv ==
  ASSUME IInv, NEW e \in Episodes, Alert(e)
  PROVE  IInv' /\ Rung(state'.outbox) \subseteq Rung(state.outbox) \cup DOMAIN owed'
<1>1. PICK resolved \in Resolved :
        /\ state' = Notify(state, e, "issue", FALSE, resolved, FALSE)
        /\ Owe({e}, resolved)
  BY DEF Alert
<1> DEFINE r == Notify(state, e, "issue", FALSE, resolved, FALSE)
           group == GroupFor(Previous(state, e), "issue", FALSE)
<1>2. resolved \in SUBSET Phones /\ (fixed => resolved = Phones) BY ResolvedFacts
<1>3. held \in BOOLEAN /\ WellFormed(state) BY DEF IInv, Plain, Flags
<1>4. NotifyEffect(state, r, e, group, FALSE, resolved)
 <2>1. "issue" \in Causes /\ FALSE \in BOOLEAN /\ (FALSE => "issue" = "issue") BY DEF Causes
 <2> QED BY <2>1, <1>2, <1>3, NotifyKeeps
<1> HIDE DEF r, group
<1>5. /\ WellFormed(state')
      /\ Recorded(state') = Recorded(state) \cup {e}
      /\ \A g \in Summaries : Settled(state, g) => Settled(state', g)
      /\ IssueTagsFit(state) => IssueTagsFit(state')
      /\ \A view : \A t \in Tags : Reaches(state, view, t) => Reaches(state', view, t)
      /\ \A x, c : x # e /\ Waits(state, x, c) => Waits(state', x, c)
      /\ \A c \in resolved : Waits(state', e, c)
      /\ Rung(state'.outbox) \subseteq Rung(state.outbox) \cup {e}
      /\ Everywhere(state) /\ resolved = Phones => Everywhere(state')
  BY <1>1, <1>4 DEF NotifyEffect, r
<1>6. Plain'
 <2>1. Counters' BY DeliveryBounds DEF IInv, Plain, Counters, Alert
 <2>2. Flags' BY DEF IInv, Plain, Flags, Alert, Same
 <2> QED BY <2>1, <2>2 DEF IInv, Plain, Alert
<1>7. Sound' = Sound /\ Claimed' = Claimed /\ screen' = screen /\ fixed' = fixed
  BY DEF Alert, Same, Sound, Claimed
<1>8. Owing'
 <2> DEFINE E == {e}
 <2>1. Owe(E, resolved) /\ resolved \subseteq Phones BY <1>1, <1>2
 <2>2. \A x \in E : \A c \in resolved : Waits(state', x, c) BY <1>5
 <2>3. \A x, c : x \notin E /\ Waits(state, x, c) => Waits(state', x, c) BY <1>5
 <2> HIDE DEF E
 <2> QED BY <2>1, <2>2, <2>3, OweKeeps DEF IInv
<1>9. Summarised' BY <1>5, <1>7, ClaimedTags DEF IInv, Summarised
<1>10. Reaching' BY <1>2, <1>5, <1>7, ClaimedTags DEF IInv, Reaching
<1>11. e \in DOMAIN owed' BY <1>1, <1>5 DEF Owe
<1> QED BY <1>5, <1>6, <1>8, <1>9, <1>10, <1>11 DEF IInv

(* A silent update keeps the invariant and rings for nothing new.         *)
LEMMA SilentUpdateInv ==
  ASSUME IInv, NEW e \in Episodes, SilentUpdate(e)
  PROVE  IInv' /\ Rung(state'.outbox) \subseteq Rung(state.outbox)
<1>1. PICK resolved \in Resolved, identical \in BOOLEAN :
        state' = Notify(state, e, "issue", TRUE, resolved, identical)
  BY DEF SilentUpdate
<1> DEFINE r == Notify(state, e, "issue", TRUE, resolved, identical)
           group == GroupFor(Previous(state, e), "issue", TRUE)
<1>2. resolved \in SUBSET Phones /\ (fixed => resolved = Phones) BY ResolvedFacts
<1>3. held \in BOOLEAN /\ WellFormed(state) BY DEF IInv, Plain, Flags
<1>4. NotifyEffect(state, r, e, group, TRUE, resolved)
 <2>1. "issue" \in Causes /\ TRUE \in BOOLEAN /\ (TRUE => "issue" = "issue") BY DEF Causes
 <2> QED BY <2>1, <1>2, <1>3, NotifyKeeps
<1> HIDE DEF r, group
<1>5. /\ WellFormed(state')
      /\ Recorded(state') = Recorded(state) \cup {e}
      /\ \A g \in Summaries : Settled(state, g) => Settled(state', g)
      /\ IssueTagsFit(state) => IssueTagsFit(state')
      /\ \A view : \A t \in Tags : Reaches(state, view, t) => Reaches(state', view, t)
      /\ \A x, c : x # e /\ Waits(state, x, c) => Waits(state', x, c)
      /\ \A c : Waits(state, e, c) => Waits(state', e, c)
      /\ Rung(state'.outbox) \subseteq Rung(state.outbox)
      /\ Everywhere(state) /\ resolved = Phones => Everywhere(state')
  BY <1>1, <1>4 DEF NotifyEffect, r
<1>6. Plain'
 <2>1. Counters' BY DeliveryBounds DEF IInv, Plain, Counters, SilentUpdate
 <2>2. Flags' BY DEF IInv, Plain, Flags, SilentUpdate, Same
 <2> QED BY <2>1, <2>2 DEF IInv, Plain, SilentUpdate
<1>7. Sound' = Sound /\ Claimed' = Claimed /\ screen' = screen /\ fixed' = fixed
  BY DEF SilentUpdate, Same, Sound, Claimed
<1>8. Owing'
 <2>1. Owe({}, {}) BY DEF SilentUpdate
 <2>2. \A x, c : Waits(state, x, c) => Waits(state', x, c) BY <1>5
 <2> QED BY <2>1, <2>2, OweKeeps DEF IInv
<1>9. Summarised' BY <1>5, <1>7, ClaimedTags DEF IInv, Summarised
<1>10. Reaching' BY <1>2, <1>5, <1>7, ClaimedTags DEF IInv, Reaching
<1> QED BY <1>5, <1>6, <1>8, <1>9, <1>10 DEF IInv

-----------------------------------------------------------------------------
(* Reports, activations, and the end of an issue                          *)

(* An order of issues is a sequence of them.                              *)
LEMMA OrderFacts ==
  ASSUME NEW order \in Orders
  PROVE  /\ order \in Seq(Episodes)
         /\ ToSet(order) \subseteq Episodes
         /\ order # <<>> => ToSet(order) # {}
<1>1. PICK E \in SUBSET Episodes : order \in SetToSeqs(E) BY DEF Orders
<1>2. Cardinality(E) \in Nat BY <1>1, DeliveryNames, FS_Subset, FS_CardinalityType
<1>3. order \in [1 .. Cardinality(E) -> E] BY <1>1 DEF SetToSeqs
<1>4. order \in Seq(E) BY <1>2, <1>3
<1>5. order \in Seq(Episodes) BY <1>3, <1>2
<1>6. ToSet(order) \subseteq Episodes BY <1>5 DEF ToSet
<1>7. order # <<>> => ToSet(order) # {} BY <1>5 DEF ToSet
<1> QED BY <1>5, <1>6, <1>7

(* A report keeps the invariant and rings for its own issues only.        *)
LEMMA ReportInv ==
  ASSUME IInv, NEW order \in Orders, Report(order)
  PROVE  IInv' /\ Rung(state'.outbox) \subseteq Rung(state.outbox) \cup DOMAIN owed'
<1> DEFINE E == ToSet(order)
           prepared == PrepareReports(state, E)
<1>1. PICK resolved \in Resolved :
        /\ state' = NotifyAll(prepared, order, "digest", resolved)
        /\ Owe(E, resolved)
  BY DEF Report
<1>2. resolved \in SUBSET Phones /\ (fixed => resolved = Phones) BY ResolvedFacts
<1>3. held \in BOOLEAN /\ heldReport \in BOOLEAN /\ WellFormed(state) BY DEF IInv, Plain, Flags
<1>4. order \in Seq(Episodes) /\ E \subseteq Episodes /\ E # {} BY OrderFacts DEF Report
<1>5. /\ WellFormed(prepared)
      /\ prepared.outbox = state.outbox
      /\ Recorded(prepared) \subseteq Recorded(state)
      /\ \A g \in Summaries : g # "digest" /\ Settled(state, g) => Settled(prepared, g)
      /\ IssueTagsFit(state) => IssueTagsFit(prepared)
      /\ \A view : \A t \in Tags :
           t # "digest" /\ Reaches(state, view, t) => Reaches(prepared, view, t)
      /\ \A x, c : x \in Recorded(prepared) /\ Waits(state, x, c) => Waits(prepared, x, c)
      /\ Everywhere(state) => Everywhere(prepared)
  BY <1>3, PrepareReportsKeeps
<1> HIDE DEF E, prepared
<1>6. Follows(prepared, state', E, Place("digest"), resolved)
  BY <1>1, <1>2, <1>3, <1>4, <1>5, NotifyAllKeeps DEF E
<1>7. /\ WellFormed(state')
      /\ Recorded(state') = Recorded(prepared) \cup E
      /\ \A g \in Summaries : Settled(prepared, g) \/ g = Place("digest") => Settled(state', g)
      /\ IssueTagsFit(prepared) => IssueTagsFit(state')
      /\ \A view : \A t \in Tags :
           Reaches(prepared, view, t) \/ t = Place("digest") => Reaches(state', view, t)
      /\ \A x, c : x \notin E /\ Waits(prepared, x, c) => Waits(state', x, c)
      /\ \A x \in E : \A c \in resolved : Waits(state', x, c)
      /\ Rung(state'.outbox) \subseteq Rung(prepared.outbox) \cup E
      /\ Everywhere(prepared) /\ resolved = Phones => Everywhere(state')
  BY <1>4, <1>6 DEF Follows
<1>8. /\ Sound' \subseteq Sound
      /\ "digest" \in Sound' => Place("digest") = "digest"
  BY <1>3 DEF Report, Sound, Summaries, Place
<1>9. screen' = screen /\ fixed' = fixed /\ Claimed' \subseteq Claimed
      /\ Sound' \subseteq Summaries /\ Claimed' \cap Summaries = Sound'
 <2>1. ended' = ended /\ screen' = screen /\ fixed' = fixed BY DEF Report
 <2>2. Sound' \subseteq Summaries BY DEF Sound
 <2> QED BY <2>1, <2>2, <1>8, NamesDiffer DEF Claimed
<1>10. Plain'
 <2>1. Counters' BY DeliveryBounds DEF IInv, Plain, Counters, Report
 <2>2. Flags' BY DEF IInv, Plain, Flags, Report
 <2> QED BY <2>1, <2>2, <1>4 DEF IInv, Plain, Report, E
<1>11. Summarised'
 <2> SUFFICES ASSUME NEW g \in Sound' PROVE Settled(state', g) BY DEF Summarised
 <2>1. g \in Summaries /\ Settled(state, g) BY <1>8, <1>9 DEF IInv, Summarised
 <2> QED BY <2>1, <1>5, <1>7, <1>8
<1>12. IssueTagsFit(state') BY <1>5, <1>7 DEF IInv
<1>13. Owing'
 <2>1. Owe(E, resolved) /\ resolved \subseteq Phones BY <1>1, <1>2
 <2>2. \A x \in E : \A c \in resolved : Waits(state', x, c) BY <1>7
 <2>3. \A x, c : x \notin E /\ x \in Recorded(state') /\ Waits(state, x, c)
                 => Waits(state', x, c)
   BY <1>5, <1>7
 <2> QED BY <2>1, <2>2, <2>3, OweKeeps DEF IInv
<1>14. Reaching'
 <2> SUFFICES ASSUME fixed
              PROVE  /\ Everywhere(state')
                     /\ \A c \in Phones : \A t \in Claimed' : Reaches(state', screen[c], t)
   BY <1>9 DEF Reaching
 <2>1. Everywhere(state) /\ \A c \in Phones : \A t \in Claimed : Reaches(state, screen[c], t)
   BY DEF IInv, Reaching
 <2>2. Everywhere(state') BY <2>1, <1>2, <1>5, <1>7
 <2>3. ASSUME NEW c \in Phones, NEW t \in Claimed' PROVE Reaches(state', screen[c], t)
  <3>1. t \in Tags /\ Reaches(state, screen[c], t) BY <2>1, <1>9, ClaimedTags
  <3>2. t = "digest" => "digest" \in Sound' BY <1>9 DEF Summaries
  <3> QED BY <3>1, <3>2, <1>5, <1>7, <1>8
 <2> QED BY <2>2, <2>3
<1>15. E \subseteq DOMAIN owed' BY <1>1, <1>7 DEF Owe
<1>16. Rung(state'.outbox) \subseteq Rung(state.outbox) \cup DOMAIN owed' BY <1>5, <1>7, <1>15
<1> QED BY <1>7, <1>10, <1>11, <1>12, <1>13, <1>14, <1>16 DEF IInv

(* An activation keeps the invariant and rings for its own issues only.   *)
LEMMA ActivateInv ==
  ASSUME IInv, NEW order \in Orders, Activate(order)
  PROVE  IInv' /\ Rung(state'.outbox) \subseteq Rung(state.outbox) \cup DOMAIN owed'
<1> DEFINE E == ToSet(order)
           cleared == Deactivate(state)
<1>1. PICK resolved \in Resolved :
        /\ state' = NotifyAll(cleared, order, "activate", resolved)
        /\ Owe(E, resolved)
  BY DEF Activate
<1>2. resolved \in SUBSET Phones /\ (fixed => resolved = Phones) BY ResolvedFacts
<1>3. held \in BOOLEAN /\ WellFormed(state) BY DEF IInv, Plain, Flags
<1>4. order \in Seq(Episodes) /\ E \subseteq Episodes BY OrderFacts
<1>5. /\ WellFormed(cleared)
      /\ Recorded(cleared) = {}
      /\ \A g \in Summaries : Settled(state, g) => Settled(cleared, g)
      /\ IssueTagsFit(cleared)
      /\ \A view : \A t \in Tags : Reaches(state, view, t) => Reaches(cleared, view, t)
      /\ Rung(cleared.outbox) \subseteq Rung(state.outbox)
      /\ Everywhere(state) => Everywhere(cleared)
  BY <1>3, DeactivateKeeps
<1> HIDE DEF E, cleared
<1>6. Follows(cleared, state', E, Place("activate"), resolved)
  BY <1>1, <1>2, <1>3, <1>4, <1>5, NotifyAllKeeps DEF E
<1>7. /\ WellFormed(state')
      /\ Recorded(state') = E
      /\ \A g \in Summaries : Settled(cleared, g) => Settled(state', g)
      /\ IssueTagsFit(state')
      /\ \A view : \A t \in Tags : Reaches(cleared, view, t) => Reaches(state', view, t)
      /\ \A x \in E : \A c \in resolved : Waits(state', x, c)
      /\ Rung(state'.outbox) \subseteq Rung(cleared.outbox) \cup E
      /\ Everywhere(cleared) /\ resolved = Phones => Everywhere(state')
  BY <1>5, <1>6 DEF Follows
<1>8. Sound' = Sound /\ Claimed' = Claimed /\ screen' = screen /\ fixed' = fixed
  BY DEF Activate, Same, Sound, Claimed
<1>9. Plain'
 <2>1. Counters' BY DeliveryBounds DEF IInv, Plain, Counters, Activate
 <2>2. Flags' BY DEF IInv, Plain, Flags, Activate, Same
 <2> QED BY <2>1, <2>2, <1>4 DEF IInv, Plain, Activate, E
<1>10. Summarised' BY <1>5, <1>7, <1>8, ClaimedTags DEF IInv, Summarised
<1>11. Owing'
 <2>1. Owe(E, resolved) /\ resolved \subseteq Phones BY <1>1, <1>2
 <2>2. \A x \in E : \A c \in resolved : Waits(state', x, c) BY <1>7
 <2>3. \A x, c : x \notin E /\ x \in Recorded(state') /\ Waits(state, x, c)
                 => Waits(state', x, c)
   BY <1>7
 <2> QED BY <2>1, <2>2, <2>3, OweKeeps DEF IInv
<1>12. Reaching' BY <1>2, <1>5, <1>7, <1>8, ClaimedTags DEF IInv, Reaching
<1>13. E \subseteq DOMAIN owed' BY <1>1, <1>7 DEF Owe
<1>14. Rung(state'.outbox) \subseteq Rung(state.outbox) \cup DOMAIN owed' BY <1>5, <1>7, <1>13
<1> QED BY <1>7, <1>9, <1>10, <1>11, <1>12, <1>14 DEF IInv

(* Turning sending off keeps the invariant and rings for nothing new.     *)
LEMMA DisableInv ==
  ASSUME IInv, Disable
  PROVE  IInv' /\ Rung(state'.outbox) \subseteq Rung(state.outbox)
<1>1. WellFormed(state) /\ state' = Deactivate(state) BY DEF IInv, Disable
<1>2. /\ WellFormed(state')
      /\ Recorded(state') = {}
      /\ \A g \in Summaries : Settled(state, g) => Settled(state', g)
      /\ IssueTagsFit(state')
      /\ \A view : \A t \in Tags : Reaches(state, view, t) => Reaches(state', view, t)
      /\ Rung(state'.outbox) \subseteq Rung(state.outbox)
      /\ Everywhere(state) => Everywhere(state')
  BY <1>1, DeactivateKeeps
<1>3. Sound' = Sound /\ Claimed' = Claimed /\ screen' = screen /\ fixed' = fixed
  BY DEF Disable, Same, Sound, Claimed
<1>4. Plain'
 <2>1. Flags' BY DEF IInv, Plain, Flags, Disable, Same
 <2> QED BY <2>1 DEF IInv, Plain, Counters, Disable
<1>5. Owing'
 <2>1. DOMAIN owed' = {} BY <1>2 DEF Disable, Owe
 <2> QED BY <2>1 DEF Owing
<1>6. Summarised' BY <1>2, <1>3, ClaimedTags DEF IInv, Summarised
<1>7. Reaching' BY <1>2, <1>3, ClaimedTags DEF IInv, Reaching
<1> QED BY <1>2, <1>4, <1>5, <1>6, <1>7 DEF IInv

(* The end of an issue keeps the invariant and rings for nothing new.     *)
LEMMA EndInv ==
  ASSUME IInv, NEW e \in Episodes, End(e)
  PROVE  IInv' /\ Rung(state'.outbox) \subseteq Rung(state.outbox)
<1>1. WellFormed(state) BY DEF IInv
<1>2. state' = Resolve(state, e) \/ state' = state BY DEF End
<1>3. /\ WellFormed(state')
      /\ \A g \in Summaries : Settled(state, g) => Settled(state', g)
      /\ IssueTagsFit(state) => IssueTagsFit(state')
      /\ \A view : \A t \in Tags :
           t # e /\ Reaches(state, view, t) => Reaches(state', view, t)
      /\ \A x, c : x \in Recorded(state') /\ Waits(state, x, c) => Waits(state', x, c)
      /\ Rung(state'.outbox) \subseteq Rung(state.outbox)
      /\ Everywhere(state) => Everywhere(state')
 <2>1. CASE state' = Resolve(state, e) BY <2>1, <1>1, ResolveKeeps
 <2>2. CASE state' = state BY <2>2, <1>1
 <2> QED BY <1>2, <2>1, <2>2
<1>4. Sound' = Sound /\ Claimed' \subseteq Claimed \ {e} /\ screen' = screen /\ fixed' = fixed
 <2>1. Sound' = Sound /\ ended' = ended \cup {e} /\ screen' = screen /\ fixed' = fixed
   BY DEF End, Same, Sound
 <2>2. e \notin Sound BY NamesDiffer DEF Sound
 <2> QED BY <2>1, <2>2 DEF Claimed
<1>5. Plain'
 <2>1. Flags' BY DEF IInv, Plain, Flags, End, Same
 <2> QED BY <2>1 DEF IInv, Plain, Counters, End
<1>6. Owing'
 <2>1. Owe({}, {}) BY DEF End
 <2> QED BY <2>1, <1>3, OweKeeps DEF IInv
<1>7. Summarised' BY <1>3, <1>4, ClaimedTags DEF IInv, Summarised
<1>8. Reaching' BY <1>3, <1>4, ClaimedTags DEF IInv, Reaching
<1> QED BY <1>3, <1>5, <1>6, <1>7, <1>8 DEF IInv

-----------------------------------------------------------------------------
(* Publishing, restarts, and the theorems                                 *)

(* A step that only starts or ends the hold keeps the invariant.          *)
LEMMA SameState ==
  ASSUME IInv, state' = state, owed' = owed, screen' = screen, fixed' = fixed,
         ended' = ended, heldReport' = heldReport, Plain'
  PROVE  IInv' /\ Rung(state'.outbox) \subseteq Rung(state.outbox)
<1>1. Sound' = Sound /\ Claimed' = Claimed BY DEF Sound, Claimed
<1>2. Summarised' BY <1>1 DEF IInv, Summarised
<1>3. Owing' BY DEF IInv, Owing
<1>4. Reaching' BY <1>1 DEF IInv, Reaching
<1> QED BY <1>2, <1>3, <1>4 DEF IInv

(* Publishing keeps the invariant, whether or not the outbox is cleared.  *)
LEMMA PublishInv ==
  ASSUME IInv, NEW cleared \in BOOLEAN, Publish(cleared)
  PROVE  IInv' /\ Rung(state'.outbox) \subseteq Rung(state.outbox)
<1> DEFINE box == state.outbox
<1>1. /\ screen' = Published(screen, box)
      /\ state' = IF cleared THEN [messages |-> state.messages, outbox |-> <<>>] ELSE state
      /\ owed' = IF cleared THEN <<>> ELSE owed
      /\ fixed' = fixed /\ ended' = ended /\ heldReport' = heldReport
  BY DEF Publish, Same
<1>2. screen \in Screens /\ box \in Seq(Request) /\ WellFormed(state) BY DEF IInv, Plain, WellFormed
<1>3. /\ screen' \in Screens
      /\ ToAll(box) => \A c \in Phones : \A t \in Tags :
           /\ \A E : Latest(box, t, E) => screen'[c][t] = E
           /\ Unused(box, t) => screen'[c][t] = screen[c][t]
  BY <1>1, <1>2, PublishedKeeps
<1>4. Sound' = Sound /\ Claimed' = Claimed BY <1>1 DEF Sound, Claimed
<1>5. Plain'
 <2>1. Flags' BY DEF IInv, Plain, Flags, Publish, Same
 <2> QED BY <2>1, <1>3 DEF IInv, Plain, Counters, Publish
<1>6. fixed => \A c \in Phones : \A t \in Claimed :
        \/ Latest(box, t, Wanted(state, t)) /\ screen'[c][t] = Wanted(state, t)
        \/ Unused(box, t) /\ screen'[c][t] = Wanted(state, t)
  BY <1>3, ClaimedTags DEF IInv, Reaching, Everywhere, Reaches
<1>7. CASE cleared
 <2>1. state'.messages = state.messages /\ state'.outbox = <<>> BY <1>7, <1>1
 <2>2. DOMAIN state'.outbox = {} /\ Rung(state'.outbox) = {} BY <2>1 DEF Rung, ToSet
 <2>3. Recorded(state') = Recorded(state) /\ \A g : Members(state', g) = Members(state, g)
   BY <2>1 DEF Recorded, Members
 <2>4. WellFormed(state') BY <2>1, <2>3, <1>2 DEF WellFormed
 <2>5. Summarised' BY <2>2 DEF Summarised, Settled, OnlyOne
 <2>6. IssueTagsFit(state') BY <2>2 DEF IssueTagsFit, Shows
 <2>7. Owing' BY <1>1, <1>7 DEF Owing
 <2>8. Reaching'
  <3>1. \A t : Wanted(state', t) = Wanted(state, t) BY <2>3 DEF Wanted
  <3>2. fixed => Everywhere(state') BY <2>1, <2>2, <2>3 DEF IInv, Reaching, Everywhere, ToAll
  <3>3. \A t : Unused(state'.outbox, t) BY <2>2 DEF Unused
  <3> QED BY <1>1, <1>4, <1>6, <3>1, <3>2, <3>3 DEF Reaching, Reaches
 <2> QED BY <1>5, <2>2, <2>4, <2>5, <2>6, <2>7, <2>8 DEF IInv
<1>8. CASE ~ cleared
 <2>1. state' = state /\ owed' = owed BY <1>1, <1>8
 <2>2. Reaching' BY <2>1, <1>1, <1>4, <1>6 DEF IInv, Reaching, Reaches
 <2>3. Summarised' /\ Owing' BY <2>1, <1>4 DEF IInv, Summarised, Owing
 <2> QED BY <2>1, <2>2, <2>3, <1>5 DEF IInv
<1> QED BY <1>7, <1>8

(* The end of the startup hold keeps the invariant.                       *)
LEMMA EndHoldInv ==
  ASSUME IInv, EndHold
  PROVE  IInv' /\ Rung(state'.outbox) \subseteq Rung(state.outbox)
<1>1. Plain' BY DEF IInv, Plain, Flags, Counters, EndHold, Same
<1> QED BY <1>1, SameState DEF EndHold, Same

(* A restart keeps the invariant.                                         *)
LEMMA RestartInv ==
  ASSUME IInv, Restart
  PROVE  IInv' /\ Rung(state'.outbox) \subseteq Rung(state.outbox)
<1>1. Counters' BY DeliveryBounds DEF IInv, Plain, Counters, Restart
<1>2. Flags' BY DEF IInv, Plain, Flags, Restart, Same
<1>3. Plain' BY <1>1, <1>2 DEF IInv, Plain, Restart, Same
<1> QED BY <1>3, SameState DEF Restart, Same

(* Every step keeps the invariant and rings only for issues it alerts     *)
(* for.                                                                   *)
LEMMA NextInv ==
  ASSUME IInv, [Next]_vars
  PROVE  IInv' /\ Rung(state'.outbox) \subseteq Rung(state.outbox) \cup DOMAIN owed'
<1>1. ASSUME NEW e \in Episodes, Alert(e)
      PROVE  IInv' /\ Rung(state'.outbox) \subseteq Rung(state.outbox) \cup DOMAIN owed'
  BY <1>1, AlertInv
<1>2. ASSUME NEW e \in Episodes, SilentUpdate(e)
      PROVE  IInv' /\ Rung(state'.outbox) \subseteq Rung(state.outbox) \cup DOMAIN owed'
  BY <1>2, SilentUpdateInv
<1>3. ASSUME NEW e \in Episodes, End(e)
      PROVE  IInv' /\ Rung(state'.outbox) \subseteq Rung(state.outbox) \cup DOMAIN owed'
  BY <1>3, EndInv
<1>4. ASSUME NEW order \in Orders, Report(order)
      PROVE  IInv' /\ Rung(state'.outbox) \subseteq Rung(state.outbox) \cup DOMAIN owed'
  BY <1>4, ReportInv
<1>5. ASSUME NEW order \in Orders, Activate(order)
      PROVE  IInv' /\ Rung(state'.outbox) \subseteq Rung(state.outbox) \cup DOMAIN owed'
  BY <1>5, ActivateInv
<1>6. CASE Disable BY <1>6, DisableInv
<1>7. ASSUME NEW cleared \in BOOLEAN, Publish(cleared)
      PROVE  IInv' /\ Rung(state'.outbox) \subseteq Rung(state.outbox) \cup DOMAIN owed'
  BY <1>7, PublishInv
<1>8. CASE EndHold BY <1>8, EndHoldInv
<1>9. CASE Restart BY <1>9, RestartInv
<1>10. CASE UNCHANGED vars
 <2>1. Plain' BY <1>10 DEF IInv, Plain, Flags, Counters, vars
 <2> QED BY <2>1, <1>10, SameState DEF vars
<1> QED BY <1>1, <1>2, <1>3, <1>4, <1>5, <1>6, <1>7, <1>8, <1>9, <1>10 DEF Next

(* The invariant holds throughout.                                        *)
LEMMA Inductive == Spec => []IInv
<1>1. Init => IInv BY InitInv
<1>2. IInv /\ [Next]_vars => IInv' BY NextInv
<1> QED BY <1>1, <1>2, PTL DEF Spec

(* Two names for the issues the outbox rings for.                         *)
LEMMA RungIsRinging == \A s : Rung(s.outbox) = Ringing(s)
  BY DEF Rung, Ringing

(* However updates, moves, resolutions, reports and failed publications   *)
(* interleave (Notifications.record over DeliveryState), what waits to be *)
(* published has its types, a request of a summary is the only one of it  *)
(* and shows its members of now, and no request shows an issue under its  *)
(* own tag that has ended or moved into a summary.                        *)
THEOREM SummariesCurrent == Spec => []OutboxCurrent
<1>1. IInv => OutboxCurrent
 <2> SUFFICES ASSUME IInv PROVE OutboxCurrent OBVIOUS
 <2>1. TypeOK BY DEF IInv, Plain, Flags, Counters, WellFormed, Owing, Screens, TypeOK
 <2>2. OneCurrentSummary
   BY DEF IInv, Summarised, Settled, OnlyOne, OneCurrentSummary, CurrentSummary
 <2>3. NoStaleIssueRequest BY DEF IInv, IssueTagsFit, Shows, NoStaleIssueRequest
 <2> QED BY <2>1, <2>2, <2>3 DEF OutboxCurrent
<1> QED BY <1>1, Inductive, PTL

(* An alert that is not published yet survives every later update, move   *)
(* and resolution of another issue (_group and record, delivery.py): it   *)
(* waits in a request that rings for it on each of the phones chosen for  *)
(* it.                                                                    *)
THEOREM AlertsReachPhones == Spec => []AlertsKept
<1>1. IInv => AlertsKept BY DEF IInv, Owing, Waits, RingsFor, AlertsKept
<1> QED BY <1>1, Inductive, PTL

(* With a fixed delivery method and nothing left to publish, every phone  *)
(* shows exactly the recorded messages: _group, resolve and deactivate    *)
(* together withdraw and replace everything they have to, also when a     *)
(* publication is repeated.                                               *)
THEOREM PhonesAgree == Spec => []PhonesShowRecord
<1>1. IInv => PhonesShowRecord
 <2> SUFFICES ASSUME IInv, fixed, state.outbox = <<>>, NEW c \in Phones
              PROVE  /\ \A g \in Sound : screen[c][g] = Members(state, g)
                     /\ \A e \in Episodes \ ended :
                          screen[c][e] = {e} \cap Members(state, Alone)
   BY DEF PhonesShowRecord
 <2>1. \A t, E : ~ Latest(state.outbox, t, E) BY DEF Latest
 <2>2. \A t \in Claimed : screen[c][t] = Wanted(state, t) BY <2>1 DEF IInv, Reaching, Reaches
 <2>3. \A g \in Sound : screen[c][g] = Members(state, g) BY <2>2, ClaimedTags DEF Wanted
 <2>4. \A e \in Episodes \ ended : screen[c][e] = {e} \cap Members(state, Alone)
   BY <2>2, NamesDiffer DEF Wanted, Claimed
 <2> QED BY <2>3, <2>4
<1> QED BY <1>1, Inductive, PTL

(* Silent updates, moves into another summary, partial recoveries,        *)
(* withdrawals and repeated publications never ring again for an issue    *)
(* whose alert was published: a step that makes a request ring for an     *)
(* issue alerts for it.                                                   *)
THEOREM RingsOnce == Spec => NoRepeatedAlert
<1>1. IInv /\ [Next]_vars => [Ringing(state') \subseteq Ringing(state) \cup DOMAIN owed']_vars
  BY NextInv, RungIsRinging
<1> QED BY <1>1, Inductive, PTL DEF Spec, NoRepeatedAlert
=============================================================================
