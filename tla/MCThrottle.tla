------------------------------ MODULE MCThrottle ------------------------------
(* Requests and clocks for TLC: well-formed and malformed texts, and the     *)
(* minutes around the bounds they stand for.                                 *)
EXTENDS Throttle

Q(mask, start, end, num, enabled) ==
  [mask |-> mask, start |-> start, end |-> end, mul |-> [num |-> num, den |-> 2],
   enabled |-> enabled]

T0930 == <<48, 57, 58, 51, 48>>
T1800 == <<49, 56, 58, 48, 48>>
T2359 == <<50, 51, 58, 53, 57>>
T0600 == <<48, 54, 58, 48, 48>>

MCRequests == {
  Q({}, <<>>, <<>>, 0, TRUE),               \* all defaults
  Q({1, 2}, T0930, T1800, 1, TRUE),         \* halved in office hours
  Q({1, 7}, T0930, T2359, 3, FALSE),        \* raised, but disabled
  Q({7}, T1800, T0600, 1, TRUE),            \* over midnight
  Q({7}, <<57, 58, 51, 48>>, T0600, 1, TRUE),                          \* "9:30"
  Q({1, 8}, <<48, 71, 58, 48, 48>>, <<50, 52, 58, 48, 48>>, 1, TRUE)   \* "0G:00" to "24:00"
}

MCTimes ==
  [day : {1, 7}, minute : {0, 360, 361, 569, 570, 1080, 1081, 1439}]
=============================================================================
