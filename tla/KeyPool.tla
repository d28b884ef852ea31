------------------------------- MODULE KeyPool -------------------------------
(***************************************************************************)
(* The upstream key pools of the providers and their circuit breaker.      *)
(*                                                                         *)
(* The provider_keys table is the truth.  Requests never read it: they     *)
(* choose a key from an in-memory snapshot, carry a copy of the key's      *)
(* error count through the whole upstream call, and only then write the    *)
(* new health back.  Every write is followed by a reload that copies the   *)
(* table into the snapshot in two steps, read and publish.  Requests, the  *)
(* reload ticker and the admin handlers run concurrently, so each copy can *)
(* be stale when it is used.                                               *)
(*                                                                         *)
(* Time is a wall clock of whole seconds with SubSec readings in each:     *)
(* cooldown_until is stored in whole seconds, and a key is offered again   *)
(* strictly after it.                                                      *)
(***************************************************************************)
EXTENDS Integers

CONSTANTS
  Keys,                 \* ids of the rows of provider_keys
  NoKey,                \* what an idle request holds
  Handlers,             \* goroutines inside handleProxy
  Reloaders,            \* other goroutines that reload: loopReload, POST /admin/reload
  Admins,               \* goroutines inside an admin handler
  Threshold,            \* gateway.provider_fail_threshold
  RecoverIntervals,     \* values recover_interval_sec takes, over the providers
  ProviderCooldownSec,  \* gateway.provider_cooldown_seconds
  SubSec,               \* readings of the clock that fall in one second
  MaxSec,               \* bound on the clock, for TLC
  StoreMayFail,         \* may a statement of the store return an error?
  MayCrash              \* may the process die and be started again?

ASSUME PoolAssumption ==
  /\ Threshold \in Nat \ {0}
  /\ RecoverIntervals \subseteq Nat \ {0}
  /\ ProviderCooldownSec \in Nat \ {0}
  /\ SubSec \in Nat \ {0}
  /\ MaxSec \in Nat
  /\ StoreMayFail \in BOOLEAN
  /\ MayCrash \in BOOLEAN
  /\ NoKey \notin Keys

VARIABLES
  rows,       \* provider_keys, as committed
  snapshot,   \* the keys of the published runtimeSnapshot
  sec, frac,  \* the wall clock
  pc,         \* where each goroutine stands
  view,       \* what a reload in progress has read
  held,       \* what a request carries from selection to the health write
  failures,   \* history: upstream failures seen so far, saturating
  lastFail    \* history: second of the last upstream failure

vars == <<rows, snapshot, sec, frac, pc, view, held, failures, lastFail>>

Workers == Handlers \cup Reloaders \cup Admins

Row == [status : {"unborn", "live", "deleted"}, enabled : BOOLEAN,
        errs : Nat, cooldown : Nat]

FreshRow == [status |-> "live", enabled |-> TRUE, errs |-> 0, cooldown |-> 0]
Unborn   == [FreshRow EXCEPT !.status = "unborn", !.enabled = FALSE]
Deleted  == [Unborn EXCEPT !.status = "deleted"]
NoView   == [k \in Keys |-> Unborn]
NoHeld   == [key |-> NoKey, errs |-> 0, cooldown |-> 0]

-----------------------------------------------------------------------------
(* Faulty forms of the definitions below, which the properties must refuse. *)

SumDuration(a, b) == a + b

HealthBackdated(errs, d) ==
  IF errs + 1 >= Threshold THEN [errs |-> 0, cooldown |-> sec - d]
                           ELSE [errs |-> errs + 1, cooldown |-> 0]

HealthNoReset(errs, d) ==
  IF errs + 1 >= Threshold THEN [errs |-> errs + 1, cooldown |-> sec + d]
                           ELSE [errs |-> errs + 1, cooldown |-> 0]

HealthOneEarly(errs, d) ==
  IF errs + 1 >= Threshold - 1 THEN [errs |-> 0, cooldown |-> sec + d]
                               ELSE [errs |-> errs + 1, cooldown |-> 0]

\* the health written by a save of the whole row the request was given
SaveWholeRow(k, h) ==
  [rows EXCEPT ![k] = [FreshRow EXCEPT !.errs = h.errs, !.cooldown = h.cooldown]]

-----------------------------------------------------------------------------
(* Selection and health, as pure functions of a row and the clock.         *)

\* now.After(k.CooldownUntil), cooldown_until being a whole second
CooledDown(row) == \/ sec > row.cooldown
                   \/ sec = row.cooldown /\ frac > 0

Usable(row) == row.status = "live" /\ row.enabled

Offered(row) == Usable(row) /\ CooledDown(row)

MaxDuration(a, b) == IF a > b THEN a ELSE b

\* how long a failure may hold a key back, over the providers' settings
Cooldowns == {MaxDuration(ri, ProviderCooldownSec) : ri \in RecoverIntervals}

\* health after one more failure of a request that read errs errors; adding
\* whole seconds and truncating to seconds commute
HealthAfterFailure(errs, d) ==
  IF errs + 1 >= Threshold THEN [errs |-> 0, cooldown |-> sec + d]
                           ELSE [errs |-> errs + 1, cooldown |-> 0]

\* UpdateProviderKeyHealth: the health columns of the row with that id, if any
UpdateHealth(k, h) ==
  IF rows[k].status = "live"
  THEN [rows EXCEPT ![k] = [@ EXCEPT !.errs = h.errs, !.cooldown = h.cooldown]]
  ELSE rows

\* gorm's Create stores a column's default in place of a zero value
GormCreate(value, zero, default) == IF value = zero THEN default ELSE value

SaturatingInc(n) == IF n < Threshold THEN n + 1 ELSE n

-----------------------------------------------------------------------------
Init ==
  \* SeedFromConfig on an empty table, then NewServer's first reload
  /\ \E seeded \in SUBSET Keys :
        rows = [k \in Keys |-> IF k \in seeded THEN FreshRow ELSE Unborn]
  /\ snapshot = rows
  /\ sec = 1 /\ frac = 0
  /\ pc = [w \in Workers |-> "idle"]
  /\ view = [w \in Workers |-> NoView]
  /\ held = [h \in Handlers |-> NoHeld]
  /\ failures = [k \in Keys |-> 0]
  /\ lastFail = [k \in Keys |-> 0]

Goto(w, label) == pc' = [pc EXCEPT ![w] = label]

(***************************************************************************)
(* A request.  Select is pickProviderKey on the published snapshot, under  *)
(* whichever branch of selectProviderAndKey chose this provider; with no   *)
(* key offered the request is answered 503 and changes nothing.  The       *)
(* upstream call then takes any time.                                      *)
(***************************************************************************)
Select(h, k) ==
  /\ pc[h] = "idle"
  /\ Offered(snapshot[k])
  /\ Goto(h, "forward")
  /\ held' = [held EXCEPT ![h] = [key |-> k, errs |-> snapshot[k].errs, cooldown |-> 0]]
  /\ UNCHANGED <<rows, snapshot, sec, frac, view, failures, lastFail>>

\* any answer below 500; markProviderKeySuccess will write errs 0, cooldown 0
ForwardOK(h) ==
  /\ pc[h] = "forward"
  /\ Goto(h, "mark")
  /\ held' = [held EXCEPT ![h].errs = 0, ![h].cooldown = 0]
  /\ UNCHANGED <<rows, snapshot, sec, frac, view, failures, lastFail>>

\* a status of 500 or more, a transport error, a timeout, or a client that
\* left; markProviderKeyFailure computes the new health from the held copy
ForwardFail(h) ==
  /\ pc[h] = "forward"
  /\ Goto(h, "mark")
  /\ \E d \in Cooldowns :
       LET k    == held[h].key
           next == HealthAfterFailure(held[h].errs, d)
       IN  /\ held' = [held EXCEPT ![h].errs = next.errs, ![h].cooldown = next.cooldown]
           /\ failures' = [failures EXCEPT ![k] = SaturatingInc(@)]
           /\ lastFail' = [lastFail EXCEPT ![k] = sec]
  /\ UNCHANGED <<rows, snapshot, sec, frac, view>>

\* the health write; its error is ignored and the reload follows in any case
WriteHealth(h) ==
  /\ pc[h] = "mark"
  /\ \/ rows' = UpdateHealth(held[h].key, held[h])
     \/ StoreMayFail /\ rows' = rows
  /\ Goto(h, "reload")
  /\ held' = [held EXCEPT ![h] = NoHeld]
  /\ UNCHANGED <<snapshot, sec, frac, view, failures, lastFail>>

(***************************************************************************)
(* reloadSnapshot, in whichever goroutine calls it: the key list is read   *)
(* by one statement and published later by atomicSnapshot.Set.  Any of its *)
(* five reads may fail; then nothing is published.                         *)
(***************************************************************************)
ReloadRead(w) ==
  /\ pc[w] = "reload"
  /\ view' = [view EXCEPT ![w] = rows]
  /\ Goto(w, "publish")
  /\ UNCHANGED <<rows, snapshot, sec, frac, held, failures, lastFail>>

ReloadFail(w) ==
  /\ StoreMayFail
  /\ pc[w] \in {"reload", "publish"}
  /\ view' = [view EXCEPT ![w] = NoView]
  /\ Goto(w, "idle")
  /\ UNCHANGED <<rows, snapshot, sec, frac, held, failures, lastFail>>

ReloadPublish(w) ==
  /\ pc[w] = "publish"
  /\ snapshot' = view[w]
  /\ view' = [view EXCEPT ![w] = NoView]
  /\ Goto(w, "idle")
  /\ UNCHANGED <<rows, sec, frac, held, failures, lastFail>>

\* a tick of loopReload, or POST /admin/reload; the second reload of a request
\* that was charged and the reloads of other admin handlers are more of these
BeginReload(w) ==
  /\ w \in Reloaders
  /\ pc[w] = "idle"
  /\ Goto(w, "reload")
  /\ UNCHANGED <<rows, snapshot, sec, frac, view, held, failures, lastFail>>

(***************************************************************************)
(* The admin handlers that write provider_keys, each followed by a reload. *)
(* A statement that fails answers 4xx or 5xx and changes nothing.          *)
(***************************************************************************)
AdminWrite(a) ==
  /\ pc[a] = "idle"
  /\ Goto(a, "reload")
  /\ UNCHANGED <<snapshot, sec, frac, view, held, failures, lastFail>>

\* UpsertProviderKey with an id: UPDATE by id, no row if it is gone; the other
\* columns it sets, the provider among them, leave the health alone
UpdateKeyByID(a, k, enabled) ==
  /\ AdminWrite(a)
  /\ rows' = IF rows[k].status = "live" THEN [rows EXCEPT ![k].enabled = enabled] ELSE rows

\* UpsertProviderKey without an id: insert a new (provider, alias), or on
\* conflict update api_key and enabled of the row that has it
CreateKey(a, k, enabled) ==
  /\ AdminWrite(a)
  /\ rows[k].status \in {"unborn", "live"}
  /\ LET old == IF rows[k].status = "live" THEN rows[k] ELSE FreshRow
     IN  rows' = [rows EXCEPT ![k] = [old EXCEPT !.enabled = GormCreate(enabled, FALSE, TRUE)]]

\* DeleteProviderKey, or DeleteProvider, which drops a provider's whole pool; ids
\* are not used again
DeleteKeys(a, gone) ==
  /\ AdminWrite(a)
  /\ rows' = [k \in Keys |-> IF k \in gone /\ rows[k].status = "live" THEN Deleted ELSE rows[k]]

Admin(a) ==
  \/ \E k \in Keys, enabled \in BOOLEAN : UpdateKeyByID(a, k, enabled)
  \/ \E k \in Keys, enabled \in BOOLEAN : CreateKey(a, k, enabled)
  \/ \E gone \in SUBSET Keys : DeleteKeys(a, gone)

(***************************************************************************)
(* Environment: the clock, and a crash followed by a restart.  The table   *)
(* survives; requests and reloads in progress do not; NewServer reloads    *)
(* before it serves.                                                       *)
(***************************************************************************)
Tick ==
  /\ sec < MaxSec
  /\ IF frac + 1 < SubSec THEN frac' = frac + 1 /\ sec' = sec
                          ELSE frac' = 0 /\ sec' = sec + 1
  /\ UNCHANGED <<rows, snapshot, pc, view, held, failures, lastFail>>

Restart ==
  /\ MayCrash
  /\ pc' = [w \in Workers |-> "idle"]
  /\ view' = [w \in Workers |-> NoView]
  /\ held' = [h \in Handlers |-> NoHeld]
  /\ snapshot' = rows
  /\ UNCHANGED <<rows, sec, frac, failures, lastFail>>

Next ==
  \/ \E h \in Handlers : \/ \E k \in Keys : Select(h, k)
                         \/ ForwardOK(h)
                         \/ ForwardFail(h)
                         \/ WriteHealth(h)
  \/ \E w \in Workers : \/ ReloadRead(w)
                        \/ ReloadFail(w)
                        \/ ReloadPublish(w)
                        \/ BeginReload(w)
  \/ \E a \in Admins : Admin(a)
  \/ Tick
  \/ Restart

Spec == Init /\ [][Next]_vars

-----------------------------------------------------------------------------
\* Every copy of a key's row that some goroutine may still act on.
CopiesOf(k) == {rows[k], snapshot[k]} \cup {view[w][k] : w \in Workers}

\* Type invariant.
TypeOK ==
  /\ rows \in [Keys -> Row]
  /\ snapshot \in [Keys -> Row]
  /\ sec \in Nat /\ frac \in 0..(SubSec - 1)
  /\ pc \in [Workers -> {"idle", "forward", "mark", "reload", "publish"}]
  /\ view \in [Workers -> [Keys -> Row]]
  /\ held \in [Handlers -> [key : Keys \cup {NoKey}, errs : Nat, cooldown : Nat]]
  /\ failures \in [Keys -> 0..Threshold]
  /\ lastFail \in [Keys -> Nat]

\* No copy of a key ever shows Threshold errors or more: the counter is reset
\* in the write that starts the cooldown, whatever stale count a request held.
ErrsBelowThreshold ==
  \A k \in Keys : \A c \in CopiesOf(k) : c.errs < Threshold

\* No copy of a key is in cooldown unless at least Threshold upstream calls
\* with that key have failed, however requests and reloads interleave.
CooldownIsEarned ==
  \A k \in Keys : \A c \in CopiesOf(k) : c.cooldown > 0 => failures[k] >= Threshold

\* Recovery needs no write and no reload: once both configured delays have
\* passed since the key's last failure, every copy, however stale, offers it.
RecoversInTime ==
  \A k \in Keys :
    (/\ sec > lastFail[k] + ProviderCooldownSec
     /\ \A ri \in RecoverIntervals : sec > lastFail[k] + ri)
    => \A c \in CopiesOf(k) : Usable(c) => Offered(c)

\* Only admin handlers decide whether a key exists and is enabled: a health
\* write that races with a disable or a delete never undoes it.
AdminOwnsKey ==
  [][\A k \in Keys :
       (rows'[k].status # rows[k].status \/ rows'[k].enabled # rows[k].enabled)
       => \E a \in Admins : pc[a] = "idle" /\ pc'[a] = "reload"]_vars

\* Every recorded upstream failure counts: its write leaves the key in cooldown
\* or with more errors than the table showed before.
FailureCounts ==
  [][\A h \in Handlers :
       LET k == held[h].key
       IN  (/\ pc[h] = "mark" /\ pc'[h] = "reload"
            /\ held[h].errs > 0 \/ held[h].cooldown > 0
            /\ rows[k].status = "live")
           => \/ ~CooledDown(rows'[k])
              \/ rows'[k].errs > rows[k].errs]_vars
=============================================================================
