----------------------------- MODULE MCSettings -----------------------------
(* A policy that notifies through a notification and inline through a method, *)
(* two methods of which one may replace the other, and one notification.      *)
EXTENDS ScopedSettings

V(n, uses) == [version |-> n, uses |-> uses, excluded |-> {}]

Start ==
  [k \in Keys |-> CASE k = "policy" -> V(0, {"profile"})
                    [] k = "profile" -> V(0, {"phone"})
                    [] k = Inline -> V(0, {"phone"})
                    [] OTHER -> V(0, {})]

Entries ==
  [k \in Keys |-> CASE k = "policy" -> {V(1, {"phone"})}
                    [] k = "timings" -> {V(0, {}), V(1, {})}
                    [] k = Switch -> {V(1, {})}
                    [] k = "phone" -> {V(1, {})}
                    [] OTHER -> {}]

Changes ==
  {[key |-> "consumer", value |-> V(1, {})],
   [key |-> "policy", value |-> V(2, {"mail"})],
   [key |-> Switch, value |-> V(1, {})]}

(* Two fields of the installation settings, of which another administrator *)
(* changes the first.                                                      *)
FieldEntries ==
  [k \in Keys |-> CASE k = "timings" -> {V(0, {}), V(1, {})}
                    [] k = "consumer" -> {V(1, {})}
                    [] OTHER -> {}]

FieldChanges == {[key |-> "timings", value |-> V(2, {})]}
=============================================================================
