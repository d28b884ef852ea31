------------------------------ MODULE MCRouting ------------------------------
(* Small configurations for TLC: two providers, rules that deny and force.  *)
EXTENDS Routing, TLC

CONSTANTS p1, p2, m1, m2

Row(on, weight, models, ready) ==
  [enabled |-> on, weight |-> weight, models |-> models, ready |-> ready]

Rule(models, deny, p) == [matches |-> models, deny |-> deny, force |-> p]

Config(tenant, allowed, rules, rows) ==
  [keyOn |-> TRUE, allowed |-> allowed, tenant |-> tenant, rules |-> rules, rows |-> rows]

Both(row1, row2) == [p \in {p1, p2} |-> IF p = p1 THEN row1 ELSE row2]

Open == Row(TRUE, 2, {}, 0)

MCConfigs == {
  \* both providers serve; the first only one model, the second has no weight
  Config("team", {}, <<>>, Both(Row(TRUE, 2, {m1}, 0), Row(TRUE, 0, {}, 0))),
  \* the key and the first provider are disabled
  [Config("team", {}, <<>>, Both(Row(FALSE, 2, {}, 0), Open)) EXCEPT !.keyOn = FALSE],
  \* the first is deleted, the second serves one model, from the next second on
  Config("default", {m1}, <<>>, [p \in {p2} |-> Row(TRUE, 1, {m1}, 1)]),
  \* one model is sent to the first provider and then to the second, the other is
  \* sent to the first, which is in cooldown for a second, and then denied
  Config("team", {}, <<Rule({m1, m2}, FALSE, p1), Rule({m1}, FALSE, p2), Rule({m2}, TRUE, NoProvider)>>,
         Both(Row(TRUE, 3, {}, 1), Open))
}

Symmetry == Permutations(Requests)
=============================================================================
