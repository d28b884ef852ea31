------------------------------- MODULE Throttle -------------------------------
(***************************************************************************)
(* The schedules of one group and the channel limits they lead to.         *)
(*                                                                         *)
(* Rows keep their times as text; a reload parses them by arithmetic on    *)
(* the bytes, and each request multiplies the limits of its provider by    *)
(* the multipliers of the schedules that are on at that minute.            *)
(*                                                                         *)
(* A text is a sequence of byte values.  A multiplier is a positive        *)
(* fraction, in place of the code's float64.  A weekday mask is the set of *)
(* its comma-separated parts.                                              *)
(***************************************************************************)
EXTENDS Integers, Sequences, FiniteSetsExt

CONSTANTS
  Ids,        \* as many rows as group_schedules may have for the group
  NoRow,
  Requests,   \* what the body of POST /admin/schedules may hold
  Times,      \* the wall clocks looked at: weekday and minute
  Limits      \* max_rpm and max_tpm of providers

ASSUME ThrottleAssumption ==
  /\ IsFiniteSet(Ids) /\ NoRow \notin Requests
  /\ Limits \subseteq Int
  /\ \A t \in Times : t.day \in 1 .. 7 /\ t.minute \in 0 .. 1439
  /\ \A q \in Requests : /\ q.mul.num \in Int /\ q.mul.den \in Nat \ {0}
                         /\ q.enabled \in BOOLEAN
                         /\ q.start \in Seq(0 .. 255) /\ q.end \in Seq(0 .. 255)

VARIABLES
  table,      \* group_schedules
  snapshot,   \* schedules of the published runtimeSnapshot, parsed
  published,  \* history: the rows the snapshot was made of
  clock       \* the wall clock in the configured time zone

vars == <<table, snapshot, published, clock>>

One == [num |-> 1, den |-> 1]

Times2(a, b) == [num |-> a.num * b.num, den |-> a.den * b.den]

\* the product of the multipliers of the schedules ids
Product(rows, ids) == FoldSet(LAMBDA i, acc : Times2(rows[i].mul, acc), One, ids)

-----------------------------------------------------------------------------
(* Faulty forms of the definitions below, which the properties must refuse. *)

\* the ranges of the hour and the minute are not checked
ParseUnchecked(s) ==
  IF Len(s) # 5 THEN 0
  ELSE ((s[1] - 48) * 10 + (s[2] - 48)) * 60 + (s[4] - 48) * 10 + (s[5] - 48)

\* the last minute of a window is not in it
ActiveUntil(sc, t) ==
  /\ sc.enabled /\ t.day \in sc.days
  /\ t.minute >= sc.start /\ t.minute < sc.end

\* the multiplier is truncated before the limit is multiplied
EffectiveOfWhole(max, mul) == max * (mul.num \div mul.den)

-----------------------------------------------------------------------------
\* s[i] - '0' wraps like a byte
Digit(b) == (b - 48) % 256

ParseHHMM(s) ==
  IF Len(s) # 5 THEN 0
  ELSE LET h == Digit(s[1]) * 10 + Digit(s[2])
           m == Digit(s[4]) * 10 + Digit(s[5])
       IN  IF h > 23 \/ m > 59 THEN 0 ELSE h * 60 + m

\* reloadSnapshot's conversion of a row
Parsed(row) ==
  [enabled |-> row.enabled, days |-> row.mask \cap (1 .. 7), mul |-> row.mul,
   start |-> ParseHHMM(row.start), end |-> ParseHHMM(row.end)]

\* the defaults UpsertSchedule and ReplaceRulesAndSchedules put in place of what
\* is missing
Normalised(q) ==
  [enabled |-> q.enabled,
   mask  |-> IF q.mask = {} THEN 1 .. 7 ELSE q.mask,
   start |-> IF q.start = <<>> THEN <<48, 48, 58, 48, 48>> ELSE q.start,
   end   |-> IF q.end = <<>> THEN <<50, 51, 58, 53, 57>> ELSE q.end,
   mul   |-> IF q.mul.num <= 0 THEN One ELSE q.mul]

\* gorm's Create stores the default of the column enabled in place of false
Created(q) == [Normalised(q) EXCEPT !.enabled = TRUE]

Live(rows) == {i \in Ids : rows[i] # NoRow}

Active(sc, t) ==
  /\ sc.enabled /\ t.day \in sc.days
  /\ t.minute >= sc.start /\ t.minute <= sc.end

ScheduleMultiplier(scs, t) == Product(scs, {i \in DOMAIN scs : Active(scs[i], t)})

\* int(float64(max) * mul), and no negative limits
Effective(max, mul) == IF max <= 0 THEN 0 ELSE (max * mul.num) \div mul.den

-----------------------------------------------------------------------------
Init ==
  /\ table = [i \in Ids |-> NoRow]
  /\ snapshot = [i \in {} |-> NoRow]
  /\ published = [i \in {} |-> NoRow]
  /\ clock \in Times

\* the reload after an admin write; if a read fails the old snapshot stays
Reload(rows) ==
  \/ /\ published' = [i \in Live(rows) |-> rows[i]]
     /\ snapshot' = [i \in Live(rows) |-> Parsed(rows[i])]
  \/ UNCHANGED <<published, snapshot>>

Admin(rows) == table' = rows /\ Reload(rows) /\ UNCHANGED clock

\* POST /admin/schedules without an id
CreateSchedule(i, q) == table[i] = NoRow /\ Admin([table EXCEPT ![i] = Created(q)])

\* POST with an id: an UPDATE, of no row if it is gone
UpdateSchedule(i, q) ==
  Admin(IF table[i] = NoRow THEN table ELSE [table EXCEPT ![i] = Normalised(q)])

DeleteSchedule(i) == Admin([table EXCEPT ![i] = NoRow])

\* POST /admin/config/import replaces all rows in one transaction
Import(f) == Admin([i \in Ids |-> IF i \in DOMAIN f THEN Created(f[i]) ELSE NoRow])

Clock == clock' \in Times /\ UNCHANGED <<table, snapshot, published>>

Next ==
  \/ \E i \in Ids : \/ \E q \in Requests : CreateSchedule(i, q) \/ UpdateSchedule(i, q)
                    \/ DeleteSchedule(i)
  \/ \E is \in SUBSET Ids : \E f \in [is -> Requests] : Import(f)
  \/ Clock

Spec == Init /\ [][Next]_vars

-----------------------------------------------------------------------------
(* Times as a reader of the configuration understands them.                *)

Digits == 48 .. 57

\* "HH:MM"
WellFormed(s) ==
  /\ Len(s) = 5 /\ s[3] = 58
  /\ \A i \in {1, 2, 4, 5} : s[i] \in Digits
  /\ s[1] < 50 \/ (s[1] = 50 /\ s[2] < 52)
  /\ s[4] < 54

\* the clock, written in the same way
TextOf(minute) ==
  LET h == minute \div 60
      m == minute % 60
  IN  <<48 + (h \div 10), 48 + (h % 10), 58, 48 + (m \div 10), 48 + (m % 10)>>

\* alphabetical order
NotAfter(s, t) ==
  \/ s = t
  \/ \E i \in 1 .. 5 : s[i] < t[i] /\ \A j \in 1 .. (i - 1) : s[j] = t[j]

\* The multiplier in force is the product over exactly the published rows that are
\* enabled, whose mask has the weekday and between whose two texts, both included
\* and compared as text, the clock stands, if all their times are well formed.
MultiplierAsWritten ==
  (\A i \in DOMAIN published : WellFormed(published[i].start) /\ WellFormed(published[i].end))
  => ScheduleMultiplier(snapshot, clock) =
       Product(published,
               {i \in DOMAIN published :
                  /\ published[i].enabled /\ clock.day \in published[i].mask
                  /\ NotAfter(published[i].start, TextOf(clock.minute))
                  /\ NotAfter(TextOf(clock.minute), published[i].end)})

\* Type invariant.  Whatever a text holds, it is parsed as a minute of the day.
TypeOK ==
  /\ DOMAIN snapshot = DOMAIN published /\ DOMAIN snapshot \subseteq Ids
  /\ \A i \in DOMAIN snapshot : /\ snapshot[i].start \in 0 .. 1439 /\ snapshot[i].end \in 0 .. 1439
                                /\ snapshot[i].days \subseteq 1 .. 7 /\ snapshot[i].mul.num > 0

Throttling == \A i \in DOMAIN snapshot : snapshot[i].mul.num <= snapshot[i].mul.den

\* Schedules that only throttle never raise a limit, and a limit becomes zero, that
\* is none, only if its share of the multiplier is less than one request or token.
ThrottledWithinLimit ==
  Throttling =>
    \A max \in Limits :
      LET mul == ScheduleMultiplier(snapshot, clock)
      IN  max > 0 => /\ Effective(max, mul) <= max
                     /\ Effective(max, mul) = 0 => max * mul.num < mul.den

\* Schedules that only throttle leave every limited provider limited.
ThrottledStaysLimited ==
  Throttling =>
    \A max \in Limits : max > 0 => Effective(max, ScheduleMultiplier(snapshot, clock)) > 0
=============================================================================
