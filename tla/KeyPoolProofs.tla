---------------------------- MODULE KeyPoolProofs ----------------------------
(***************************************************************************)
(* Proofs about KeyPool for every set of keys, requests, reloaders and     *)
(* admins, every threshold and every pair of cooldown settings.            *)
(*                                                                         *)
(* The three invariants are statements about every copy of a key's health  *)
(* that is still in flight.  They are not inductive alone: a request turns *)
(* the copy it holds into the next health, so the copies held by requests  *)
(* must satisfy the same bounds as the table.  Sound states those bounds   *)
(* for one copy and KeyPoolInv for all of them.                            *)
(***************************************************************************)
EXTENDS KeyPool, TLAPS

\* One copy c of the health of a key with f failures, the last in second t.
SoundFor(c, f, t) ==
  /\ c.errs < Threshold
  /\ c.errs <= f
  /\ c.cooldown > 0 => f >= Threshold
  /\ c.cooldown = 0 \/ \E d \in Cooldowns : c.cooldown <= t + d

Sound(c, k) == SoundFor(c, failures[k], lastFail[k])

CopiesSound ==
  \A k \in Keys : /\ Sound(rows[k], k)
                  /\ Sound(snapshot[k], k)
                  /\ \A w \in Workers : Sound(view[w][k], k)

HeldSound ==
  \A h \in Handlers :
    pc[h] \in {"forward", "mark"} => /\ held[h].key \in Keys
                                     /\ Sound(held[h], held[h].key)

ClockSound == sec >= 1 /\ \A k \in Keys : lastFail[k] <= sec

KeyPoolInv == TypeOK /\ ClockSound /\ CopiesSound /\ HeldSound

-----------------------------------------------------------------------------
(* Facts about the operators KeyPool is built from.                        *)

\* The larger of two delays is a delay, and is one of the two.
LEMMA CooldownsAreDelays ==
  /\ Cooldowns \subseteq Nat \ {0}
  /\ \A d \in Cooldowns : d = ProviderCooldownSec \/ d \in RecoverIntervals
  BY PoolAssumption DEF Cooldowns, MaxDuration

\* The rows the operators make up are rows.
LEMMA RowTypes ==
  /\ FreshRow \in Row /\ Unborn \in Row /\ Deleted \in Row
  /\ NoView \in [Keys -> Row]
  /\ NoHeld \in [key : Keys \cup {NoKey}, errs : Nat, cooldown : Nat]
  BY DEF FreshRow, Unborn, Deleted, Row, NoView, NoHeld

\* A row stays a row when one of the two writers sets its columns.
LEMMA RowUpdates ==
  ASSUME NEW r \in Row
  PROVE  /\ \A n \in Nat, c \in Nat : [r EXCEPT !.errs = n, !.cooldown = c] \in Row
         /\ \A e \in BOOLEAN : [r EXCEPT !.enabled = e] \in Row
<1>1. ASSUME NEW n \in Nat, NEW c \in Nat
      PROVE  [r EXCEPT !.errs = n, !.cooldown = c] \in Row
  BY DEF Row
<1>2. ASSUME NEW e \in BOOLEAN
      PROVE  [r EXCEPT !.enabled = e] \in Row
  BY DEF Row
<1>3. QED
  BY <1>1, <1>2

\* A health write of well-typed columns leaves a well-typed table.
LEMMA UpdateHealthType ==
  ASSUME TypeOK, NEW k \in Keys, NEW h, h.errs \in Nat, h.cooldown \in Nat
  PROVE  UpdateHealth(k, h) \in [Keys -> Row]
<1>1. [rows[k] EXCEPT !.errs = h.errs, !.cooldown = h.cooldown] \in Row
  BY RowUpdates DEF TypeOK
<1>2. QED
  BY <1>1 DEF TypeOK, UpdateHealth

\* The health a failure computes is well-typed.
LEMMA HealthType ==
  ASSUME TypeOK, NEW n \in Nat, NEW d \in Cooldowns
  PROVE  /\ HealthAfterFailure(n, d).errs \in Nat
         /\ HealthAfterFailure(n, d).cooldown \in Nat
  BY CooldownsAreDelays, PoolAssumption DEF TypeOK, HealthAfterFailure

-----------------------------------------------------------------------------
(* Type correctness.                                                       *)

\* The seeded table and the snapshot NewServer publishes are well-typed.
LEMMA InitTypeOK == Init => TypeOK
<1> SUFFICES ASSUME Init PROVE TypeOK
  OBVIOUS
<1>1. rows \in [Keys -> Row]
  BY RowTypes DEF Init
<1>2. QED
  BY <1>1, RowTypes, PoolAssumption DEF Init, TypeOK, Workers

\* The steps of a request keep the types, if a request that has selected holds a key.
LEMMA RequestTypeOK ==
  ASSUME TypeOK, NEW h \in Handlers,
         \/ \E k \in Keys : Select(h, k)
         \/ ForwardOK(h)
         \/ ForwardFail(h)
         \/ WriteHealth(h),
         pc[h] = "mark" => held[h].key \in Keys,
         pc[h] = "forward" => held[h].key \in Keys
  PROVE  TypeOK'
<1> USE DEF Goto
<1>1. h \in Workers
  BY DEF Workers
<1>2. ASSUME NEW k \in Keys, Select(h, k) PROVE TypeOK'
  BY <1>1, <1>2 DEF TypeOK, Select, Row
<1>3. CASE ForwardOK(h)
  BY <1>1, <1>3 DEF TypeOK, ForwardOK
<1>4. CASE ForwardFail(h)
  <2>1. PICK d \in Cooldowns :
          LET next == HealthAfterFailure(held[h].errs, d)
          IN  /\ held' = [held EXCEPT ![h].errs = next.errs, ![h].cooldown = next.cooldown]
              /\ failures' = [failures EXCEPT ![held[h].key] = SaturatingInc(@)]
              /\ lastFail' = [lastFail EXCEPT ![held[h].key] = sec]
    BY <1>4 DEF ForwardFail
  <2>2. held[h].errs \in Nat /\ held[h].key \in Keys
    BY <1>4 DEF TypeOK, ForwardFail
  <2>3. held' \in [Handlers -> [key : Keys \cup {NoKey}, errs : Nat, cooldown : Nat]]
    BY <2>1, <2>2, HealthType DEF TypeOK
  <2>4. failures' \in [Keys -> 0..Threshold]
    BY <2>1, <2>2, PoolAssumption DEF TypeOK, SaturatingInc
  <2>5. lastFail' \in [Keys -> Nat]
    BY <2>1, <2>2 DEF TypeOK
  <2>6. QED
    BY <1>1, <1>4, <2>3, <2>4, <2>5 DEF TypeOK, ForwardFail
<1>5. CASE WriteHealth(h)
  <2>1. held[h].key \in Keys /\ held[h].errs \in Nat /\ held[h].cooldown \in Nat
    BY <1>5 DEF TypeOK, WriteHealth
  <2>2. rows' \in [Keys -> Row]
    BY <1>5, <2>1, UpdateHealthType DEF WriteHealth, TypeOK
  <2>3. QED
    BY <1>1, <1>5, <2>2, RowTypes DEF TypeOK, WriteHealth
<1>6. QED
  BY <1>2, <1>3, <1>4, <1>5

\* reloadSnapshot copies well-typed rows, or nothing.
LEMMA ReloadTypeOK ==
  ASSUME TypeOK, NEW w \in Workers,
         ReloadRead(w) \/ ReloadFail(w) \/ ReloadPublish(w) \/ BeginReload(w)
  PROVE  TypeOK'
<1> USE DEF Goto
<1>1. CASE ReloadRead(w)
  BY <1>1 DEF TypeOK, ReloadRead
<1>2. CASE ReloadFail(w)
  BY <1>2, RowTypes DEF TypeOK, ReloadFail
<1>3. CASE ReloadPublish(w)
  BY <1>3, RowTypes DEF TypeOK, ReloadPublish
<1>4. CASE BeginReload(w)
  BY <1>4 DEF TypeOK, BeginReload
<1>5. QED
  BY <1>1, <1>2, <1>3, <1>4

\* The admin statements on provider_keys leave well-typed rows.
LEMMA AdminTypeOK ==
  ASSUME TypeOK, NEW a \in Admins, Admin(a)
  PROVE  TypeOK'
<1>1. AdminWrite(a)
  BY DEF Admin, UpdateKeyByID, CreateKey, DeleteKeys
<1>2. rows' \in [Keys -> Row]
  <2>1. ASSUME NEW k \in Keys, NEW e \in BOOLEAN, UpdateKeyByID(a, k, e)
        PROVE  rows' \in [Keys -> Row]
    <3>1. [rows[k] EXCEPT !.enabled = e] \in Row
      BY RowUpdates DEF TypeOK
    <3>2. QED
      BY <2>1, <3>1 DEF TypeOK, UpdateKeyByID
  <2>2. ASSUME NEW k \in Keys, NEW e \in BOOLEAN, CreateKey(a, k, e)
        PROVE  rows' \in [Keys -> Row]
    <3> DEFINE old == IF rows[k].status = "live" THEN rows[k] ELSE FreshRow
               stored == GormCreate(e, FALSE, TRUE)
    <3>1. rows' = [rows EXCEPT ![k] = [old EXCEPT !.enabled = stored]]
      BY <2>2 DEF CreateKey
    <3>2. old \in Row
      BY RowTypes DEF TypeOK
    <3>3. stored \in BOOLEAN
      BY DEF GormCreate
    <3> HIDE DEF old, stored
    <3>4. [old EXCEPT !.enabled = stored] \in Row
      BY <3>2, <3>3, RowUpdates
    <3>5. QED
      BY <3>1, <3>4 DEF TypeOK
  <2>3. ASSUME NEW gone, DeleteKeys(a, gone)
        PROVE  rows' \in [Keys -> Row]
    BY <2>3, RowTypes DEF TypeOK, DeleteKeys
  <2>4. QED
    BY <2>1, <2>2, <2>3 DEF Admin
<1>3. QED
  BY <1>1, <1>2 DEF TypeOK, AdminWrite, Goto, Workers

\* The clock and a restart keep the types.
LEMMA EnvironmentTypeOK ==
  ASSUME TypeOK, Tick \/ Restart
  PROVE  TypeOK'
<1>1. CASE Tick
  BY <1>1, PoolAssumption DEF TypeOK, Tick
<1>2. CASE Restart
  BY <1>2, RowTypes DEF TypeOK, Restart
<1>3. QED
  BY <1>1, <1>2

-----------------------------------------------------------------------------
(* The inductive invariant.                                                *)

\* A key with no error and no cooldown needs no failure to be explained.
LEMMA CleanIsSound ==
  ASSUME TypeOK, NEW k \in Keys, NEW c, c.errs = 0, c.cooldown = 0
  PROVE  Sound(c, k)
  BY PoolAssumption DEF Sound, SoundFor, TypeOK

\* The inductive invariant holds of the seeded table.
LEMMA InitInv == Init => KeyPoolInv
<1> SUFFICES ASSUME Init PROVE KeyPoolInv
  OBVIOUS
<1>1. TypeOK
  BY InitTypeOK
<1>2. ClockSound
  BY DEF Init, ClockSound
<1>3. ASSUME NEW k \in Keys
      PROVE  Sound(rows[k], k) /\ Sound(snapshot[k], k) /\ Sound(Unborn, k)
  <2>1. PICK seeded \in SUBSET Keys :
          rows = [q \in Keys |-> IF q \in seeded THEN FreshRow ELSE Unborn]
    BY DEF Init
  <2>2. rows[k] = FreshRow \/ rows[k] = Unborn
    BY <2>1
  <2>3. /\ FreshRow.errs = 0 /\ FreshRow.cooldown = 0
        /\ Unborn.errs = 0 /\ Unborn.cooldown = 0
    BY DEF FreshRow, Unborn
  <2>4. snapshot = rows
    BY DEF Init
  <2>5. QED
    BY <1>1, <2>2, <2>3, <2>4, CleanIsSound
<1>4. CopiesSound
  BY <1>3 DEF Init, CopiesSound, NoView
<1>5. HeldSound
  BY DEF Init, HeldSound, Workers
<1>6. QED
  BY <1>1, <1>2, <1>4, <1>5 DEF KeyPoolInv

\* What is true of a copy stays true as failures are seen and time passes.
LEMMA SoundIsStable ==
  ASSUME NEW c, c.errs \in Nat, c.cooldown \in Nat,
         NEW f \in Nat, NEW g \in Nat, f <= g,
         NEW t \in Nat, NEW u \in Nat, t <= u,
         SoundFor(c, f, t)
  PROVE  SoundFor(c, g, u)
  BY CooldownsAreDelays, PoolAssumption DEF SoundFor

\* The health computed from a sound copy is sound once the failure is counted.
LEMMA FailureIsSound ==
  ASSUME TypeOK, TypeOK', NEW h \in Handlers, HeldSound, ForwardFail(h)
  PROVE  Sound(held[h], held[h].key)' /\ held'[h].key = held[h].key
<1> DEFINE k == held[h].key
<1>1. k \in Keys /\ Sound(held[h], k) /\ held[h].errs \in Nat
  BY DEF ForwardFail, HeldSound, TypeOK
<1>2. PICK d \in Cooldowns :
        LET next == HealthAfterFailure(held[h].errs, d)
        IN  /\ held' = [held EXCEPT ![h].errs = next.errs, ![h].cooldown = next.cooldown]
            /\ failures' = [failures EXCEPT ![k] = SaturatingInc(@)]
            /\ lastFail' = [lastFail EXCEPT ![k] = sec]
  BY DEF ForwardFail
<1> DEFINE next == HealthAfterFailure(held[h].errs, d)
<1>3. /\ held'[h].errs = next.errs /\ held'[h].cooldown = next.cooldown
      /\ held'[h].key = k
  BY <1>2 DEF TypeOK
<1>4. failures'[k] = SaturatingInc(failures[k]) /\ lastFail'[k] = sec
  BY <1>1, <1>2 DEF TypeOK
<1>5. failures[k] \in 0..Threshold /\ sec \in Nat /\ d \in Nat
  BY <1>1, CooldownsAreDelays DEF TypeOK
<1>6. next.errs < Threshold /\ next.errs <= failures'[k]
  BY <1>1, <1>4, <1>5, PoolAssumption DEF Sound, SoundFor, SaturatingInc, HealthAfterFailure
<1>7. next.cooldown > 0 => failures'[k] >= Threshold
  BY <1>1, <1>4, <1>5, PoolAssumption DEF Sound, SoundFor, SaturatingInc, HealthAfterFailure
<1>8. next.cooldown = 0 \/ next.cooldown <= lastFail'[k] + d
  BY <1>4, <1>5 DEF HealthAfterFailure
<1>9. QED
  BY <1>3, <1>6, <1>7, <1>8 DEF Sound, SoundFor

\* The steps of a request keep every copy sound: what is written back was computed
\* from a sound copy, and failures are counted before they are written.
LEMMA RequestInv ==
  ASSUME KeyPoolInv, TypeOK', NEW h \in Handlers,
         \/ \E k \in Keys : Select(h, k)
         \/ ForwardOK(h)
         \/ ForwardFail(h)
         \/ WriteHealth(h)
  PROVE  ClockSound' /\ CopiesSound' /\ HeldSound'
<1> USE DEF KeyPoolInv
<1> h \in Workers
  BY DEF Workers
<1>1. ASSUME NEW k \in Keys, Select(h, k)
      PROVE  ClockSound' /\ CopiesSound' /\ HeldSound'
  <2>1. ClockSound' /\ CopiesSound'
    BY <1>1 DEF Select, ClockSound, CopiesSound, Sound
  <2>2. held'[h].key = k /\ held'[h].errs = snapshot[k].errs /\ held'[h].cooldown = 0
    BY <1>1 DEF Select, TypeOK
  <2>3. Sound(held[h], held[h].key)'
    BY <1>1, <2>2 DEF Select, CopiesSound, Sound, SoundFor
  <2>4. \A g \in Handlers \ {h} : held'[g] = held[g] /\ pc'[g] = pc[g]
    BY <1>1 DEF Select, Goto, TypeOK
  <2>5. HeldSound'
    BY <1>1, <2>2, <2>3, <2>4 DEF Select, HeldSound, Sound
  <2>6. QED
    BY <2>1, <2>5
<1>2. CASE ForwardOK(h)
  <2>1. ClockSound' /\ CopiesSound'
    BY <1>2 DEF ForwardOK, ClockSound, CopiesSound, Sound
  <2>2. /\ held'[h].key = held[h].key
        /\ held'[h].errs = 0 /\ held'[h].cooldown = 0
        /\ held[h].key \in Keys
    BY <1>2 DEF ForwardOK, TypeOK, HeldSound
  <2>3. Sound(held[h], held[h].key)'
    BY <1>2, <2>2, PoolAssumption DEF ForwardOK, Sound, SoundFor, TypeOK
  <2>4. \A g \in Handlers \ {h} : held'[g] = held[g] /\ pc'[g] = pc[g]
    BY <1>2 DEF ForwardOK, Goto, TypeOK
  <2>5. HeldSound'
    BY <1>2, <2>2, <2>3, <2>4 DEF ForwardOK, HeldSound, Sound
  <2>6. QED
    BY <2>1, <2>5
<1>3. CASE ForwardFail(h)
  <2>1. Sound(held[h], held[h].key)' /\ held'[h].key = held[h].key
    BY <1>3, FailureIsSound
  <2>2. held[h].key \in Keys
    BY <1>3 DEF ForwardFail, HeldSound
  <2>3. /\ \A k \in Keys : failures[k] <= failures'[k] /\ lastFail[k] <= lastFail'[k]
        /\ ClockSound'
    <3>1. /\ failures' = [failures EXCEPT ![held[h].key] = SaturatingInc(@)]
          /\ lastFail' = [lastFail EXCEPT ![held[h].key] = sec]
          /\ sec' = sec
      BY <1>3 DEF ForwardFail
    <3>2. \A n \in 0..Threshold : n <= SaturatingInc(n)
      BY PoolAssumption DEF SaturatingInc
    <3>3. \A k \in Keys : failures[k] <= failures'[k]
      BY <2>2, <3>1, <3>2, PoolAssumption DEF TypeOK
    <3>4. \A k \in Keys : lastFail'[k] \in {lastFail[k], sec}
      BY <2>2, <3>1 DEF TypeOK
    <3>5. QED
      BY <3>1, <3>3, <3>4 DEF ClockSound, TypeOK
  <2>4. \A k \in Keys : /\ failures[k] \in Nat /\ failures'[k] \in Nat
                         /\ lastFail[k] \in Nat /\ lastFail'[k] \in Nat
    BY PoolAssumption DEF TypeOK
  <2>5. ASSUME NEW k \in Keys, NEW c, Sound(c, k), c.errs \in Nat, c.cooldown \in Nat
        PROVE  SoundFor(c, failures'[k], lastFail'[k])
    BY <2>3, <2>4, <2>5, SoundIsStable DEF Sound
  <2>6. ASSUME NEW k \in Keys
        PROVE  /\ Sound(rows[k], k)' /\ Sound(snapshot[k], k)'
               /\ \A w \in Workers : Sound(view[w][k], k)'
    <3>1. UNCHANGED <<rows, snapshot, view>>
      BY <1>3 DEF ForwardFail
    <3>2. /\ rows[k].errs \in Nat /\ rows[k].cooldown \in Nat
          /\ snapshot[k].errs \in Nat /\ snapshot[k].cooldown \in Nat
          /\ \A w \in Workers : view[w][k].errs \in Nat /\ view[w][k].cooldown \in Nat
      BY DEF TypeOK, Row
    <3>3. QED
      BY <2>5, <3>1, <3>2 DEF CopiesSound, Sound
  <2>7. \A g \in Handlers \ {h} : held'[g] = held[g] /\ pc'[g] = pc[g]
    <3>1. pc' = [pc EXCEPT ![h] = "mark"]
      BY <1>3 DEF ForwardFail, Goto
    <3>2. \E r : held' = [held EXCEPT ![h] = r]
      BY <1>3 DEF ForwardFail
    <3>3. QED
      BY <3>1, <3>2 DEF TypeOK, Workers
  <2>8. HeldSound'
    BY <2>1, <2>2, <2>5, <2>7 DEF HeldSound, TypeOK, Sound
  <2>9. QED
    BY <2>3, <2>6, <2>8 DEF CopiesSound
<1>4. CASE WriteHealth(h)
  <2>1. held[h].key \in Keys /\ Sound(held[h], held[h].key)
    BY <1>4 DEF WriteHealth, HeldSound
  <2>2. ASSUME NEW k \in Keys PROVE Sound(rows'[k], k)
    <3>1. Sound(rows[k], k)
      BY DEF CopiesSound
    <3>2. CASE rows' = rows
      BY <3>1, <3>2
    <3>3. CASE rows' = UpdateHealth(held[h].key, held[h]) /\ k # held[h].key
      BY <3>1, <3>3 DEF UpdateHealth, TypeOK
    <3>4. CASE rows' = UpdateHealth(held[h].key, held[h]) /\ k = held[h].key
      <4>1. \/ rows'[k] = rows[k]
            \/ rows'[k].errs = held[h].errs /\ rows'[k].cooldown = held[h].cooldown
        BY <3>4 DEF UpdateHealth, TypeOK, Row
      <4>2. QED
        BY <2>1, <3>1, <3>4, <4>1 DEF Sound, SoundFor
    <3>5. QED
      BY <1>4, <3>2, <3>3, <3>4 DEF WriteHealth
  <2>3. ClockSound' /\ CopiesSound'
    BY <1>4, <2>2 DEF WriteHealth, ClockSound, CopiesSound, Sound
  <2>4. pc'[h] = "reload" /\ \A g \in Handlers \ {h} : held'[g] = held[g] /\ pc'[g] = pc[g]
    BY <1>4 DEF WriteHealth, Goto, TypeOK
  <2>5. HeldSound'
    BY <1>4, <2>4 DEF WriteHealth, HeldSound, Sound
  <2>6. QED
    BY <2>3, <2>5
<1>5. QED
  BY <1>1, <1>2, <1>3, <1>4

\* A reload moves copies about and makes none up.
LEMMA ReloadInv ==
  ASSUME KeyPoolInv, NEW w \in Workers,
         ReloadRead(w) \/ ReloadFail(w) \/ ReloadPublish(w) \/ BeginReload(w)
  PROVE  ClockSound' /\ CopiesSound' /\ HeldSound'
<1> USE DEF KeyPoolInv
<1>1. /\ UNCHANGED <<rows, sec, held, failures, lastFail>>
      /\ \E label \in {"idle", "reload", "publish"} : pc' = [pc EXCEPT ![w] = label]
  BY DEF ReloadRead, ReloadFail, ReloadPublish, BeginReload, Goto
<1>2. ClockSound'
  BY <1>1 DEF ClockSound
<1>3. HeldSound'
  BY <1>1 DEF HeldSound, Sound, TypeOK, Workers
<1>4. ASSUME NEW k \in Keys PROVE Sound(Unborn, k)
  BY <1>4, CleanIsSound DEF Unborn, FreshRow
<1>5. ASSUME NEW k \in Keys
      PROVE  /\ Sound(snapshot'[k], k)
             /\ \A v \in Workers : Sound(view'[v][k], k)
  <2>1. snapshot'[k] = snapshot[k] \/ snapshot'[k] = view[w][k]
    BY DEF ReloadRead, ReloadFail, ReloadPublish, BeginReload
  <2>2. \A v \in Workers : view'[v][k] \in {view[v][k], rows[k], Unborn}
    BY DEF ReloadRead, ReloadFail, ReloadPublish, BeginReload, TypeOK, NoView
  <2>3. QED
    BY <1>4, <2>1, <2>2 DEF CopiesSound
<1>6. QED
  BY <1>1, <1>2, <1>3, <1>5 DEF CopiesSound, Sound

\* An admin statement keeps a row's health or makes a fresh one.
LEMMA AdminInv ==
  ASSUME KeyPoolInv, NEW a \in Admins, Admin(a)
  PROVE  ClockSound' /\ CopiesSound' /\ HeldSound'
<1> USE DEF KeyPoolInv
<1>1. /\ UNCHANGED <<snapshot, sec, view, held, failures, lastFail>>
      /\ pc' = [pc EXCEPT ![a] = "reload"]
  BY DEF Admin, UpdateKeyByID, CreateKey, DeleteKeys, AdminWrite, Goto
<1> DEFINE KeptOrCleared(k) ==
             \/ rows'[k].errs = rows[k].errs /\ rows'[k].cooldown = rows[k].cooldown
             \/ rows'[k].errs = 0 /\ rows'[k].cooldown = 0
<1>2. ASSUME NEW k \in Keys PROVE KeptOrCleared(k)
  <2>1. ASSUME NEW q \in Keys, NEW e \in BOOLEAN, UpdateKeyByID(a, q, e) PROVE KeptOrCleared(k)
    BY <2>1 DEF UpdateKeyByID, TypeOK, Row
  <2>2. ASSUME NEW q \in Keys, NEW e \in BOOLEAN, CreateKey(a, q, e) PROVE KeptOrCleared(k)
    BY <2>2 DEF CreateKey, FreshRow, TypeOK, Row
  <2>3. ASSUME NEW gone, DeleteKeys(a, gone) PROVE KeptOrCleared(k)
    BY <2>3 DEF DeleteKeys, Deleted, Unborn, FreshRow, TypeOK
  <2>4. QED
    BY <2>1, <2>2, <2>3 DEF Admin
<1>3. ASSUME NEW k \in Keys PROVE Sound(rows'[k], k)
  BY <1>2, <1>3, CleanIsSound DEF CopiesSound, Sound, SoundFor
<1>4. CopiesSound'
  BY <1>1, <1>3 DEF CopiesSound, Sound
<1>5. ClockSound' /\ HeldSound'
  BY <1>1 DEF ClockSound, HeldSound, Sound, TypeOK, Workers
<1>6. QED
  BY <1>4, <1>5

\* Time passing, and a restart that copies the table, keep every copy sound.
LEMMA EnvironmentInv ==
  ASSUME KeyPoolInv, Tick \/ Restart
  PROVE  ClockSound' /\ CopiesSound' /\ HeldSound'
<1> USE DEF KeyPoolInv
<1>1. CASE Tick
  BY <1>1 DEF Tick, ClockSound, CopiesSound, HeldSound, Sound, TypeOK
<1>2. CASE Restart
  <2>1. ASSUME NEW k \in Keys PROVE Sound(Unborn, k)
    BY <2>1, CleanIsSound DEF Unborn, FreshRow
  <2>2. CopiesSound'
    BY <1>2, <2>1 DEF Restart, CopiesSound, Sound, NoView
  <2>3. ClockSound' /\ HeldSound'
    BY <1>2 DEF Restart, ClockSound, HeldSound, Workers
  <2>4. QED
    BY <2>2, <2>3
<1>3. QED
  BY <1>1, <1>2

\* Every reachable state satisfies the inductive invariant.
THEOREM InductiveInvariant == Spec => []KeyPoolInv
<1>1. Init => KeyPoolInv
  BY InitInv
<1>2. KeyPoolInv /\ [Next]_vars => KeyPoolInv'
  <2> SUFFICES ASSUME KeyPoolInv, [Next]_vars PROVE KeyPoolInv'
    OBVIOUS
  <2>1. ASSUME NEW h \in Handlers,
               \/ \E k \in Keys : Select(h, k)
               \/ ForwardOK(h) \/ ForwardFail(h) \/ WriteHealth(h)
        PROVE  KeyPoolInv'
    <3>1. TypeOK'
      BY <2>1, RequestTypeOK DEF KeyPoolInv, HeldSound
    <3>2. QED
      BY <2>1, <3>1, RequestInv DEF KeyPoolInv
  <2>2. ASSUME NEW w \in Workers,
               ReloadRead(w) \/ ReloadFail(w) \/ ReloadPublish(w) \/ BeginReload(w)
        PROVE  KeyPoolInv'
    BY <2>2, ReloadTypeOK, ReloadInv DEF KeyPoolInv
  <2>3. ASSUME NEW a \in Admins, Admin(a)
        PROVE  KeyPoolInv'
    BY <2>3, AdminTypeOK, AdminInv DEF KeyPoolInv
  <2>4. CASE Tick \/ Restart
    BY <2>4, EnvironmentTypeOK, EnvironmentInv DEF KeyPoolInv
  <2>5. CASE UNCHANGED vars
    BY <2>5 DEF vars, KeyPoolInv, TypeOK, ClockSound, CopiesSound, HeldSound, Sound
  <2>6. QED
    BY <2>1, <2>2, <2>3, <2>4, <2>5 DEF Next
<1>3. QED
  BY <1>1, <1>2, PTL DEF Spec

\* Every variable of the pool keeps its type: every health a request computes and
\* writes back is a count and a time the columns can hold.
THEOREM TypeCorrect == Spec => []TypeOK
  BY InductiveInvariant, PTL DEF KeyPoolInv

\* The counter reset of markProviderKeyFailure cannot be undone by a request that
\* still holds an older count.
THEOREM ErrsBelowThresholdHolds == Spec => []ErrsBelowThreshold
<1>1. KeyPoolInv => ErrsBelowThreshold
  BY DEF KeyPoolInv, CopiesSound, Sound, SoundFor, ErrsBelowThreshold, CopiesOf
<1>2. QED
  BY <1>1, InductiveInvariant, PTL

\* No cooldown that markProviderKeyFailure starts comes before Threshold failures.
THEOREM CooldownIsEarnedHolds == Spec => []CooldownIsEarned
<1>1. KeyPoolInv => CooldownIsEarned
  BY DEF KeyPoolInv, CopiesSound, Sound, SoundFor, CooldownIsEarned, CopiesOf
<1>2. QED
  BY <1>1, InductiveInvariant, PTL

\* pickProviderKey offers a live key again once both configured delays are over,
\* from any copy of its health.
THEOREM RecoversInTimeHolds == Spec => []RecoversInTime
<1>1. ASSUME KeyPoolInv PROVE RecoversInTime
  <2>1. SUFFICES ASSUME NEW k \in Keys,
                        sec > lastFail[k] + ProviderCooldownSec,
                        \A ri \in RecoverIntervals : sec > lastFail[k] + ri,
                        NEW c \in CopiesOf(k), Usable(c)
                 PROVE  Offered(c)
    BY DEF RecoversInTime
  <2>2. SoundFor(c, failures[k], lastFail[k])
    BY <1>1 DEF KeyPoolInv, CopiesSound, Sound, CopiesOf
  <2>3. sec \in Nat /\ sec >= 1 /\ lastFail[k] \in Nat /\ c \in Row
    BY <1>1 DEF KeyPoolInv, TypeOK, ClockSound, CopiesOf
  <2>4. \A d \in Cooldowns : sec > lastFail[k] + d
    BY <2>1, CooldownsAreDelays
  <2>5. sec > c.cooldown
    BY <2>2, <2>3, <2>4, CooldownsAreDelays DEF SoundFor, Row
  <2>6. QED
    BY <2>1, <2>5 DEF Offered, CooledDown
<1>2. QED
  BY <1>1, InductiveInvariant, PTL

\* UpdateProviderKeyHealth names its columns, so no request can enable, disable,
\* create or delete a key.
THEOREM AdminOwnsKeyHolds == Spec => AdminOwnsKey
<1> DEFINE Owned ==
      \A k \in Keys :
        (rows'[k].status # rows[k].status \/ rows'[k].enabled # rows[k].enabled)
        => \E a \in Admins : pc[a] = "idle" /\ pc'[a] = "reload"
<1>1. ASSUME KeyPoolInv, [Next]_vars PROVE Owned
  <2>1. ASSUME NEW h \in Handlers, WriteHealth(h) PROVE Owned
    <3>1. ASSUME NEW k \in Keys
          PROVE  rows'[k].status = rows[k].status /\ rows'[k].enabled = rows[k].enabled
      <4>1. rows \in [Keys -> Row]
        BY <1>1 DEF KeyPoolInv, TypeOK
      <4>2. CASE rows' = rows
        BY <4>2
      <4>3. CASE rows' = UpdateHealth(held[h].key, held[h])
        BY <4>1, <4>3 DEF UpdateHealth, Row
      <4>4. QED
        BY <2>1, <4>2, <4>3 DEF WriteHealth
    <3>2. QED
      BY <3>1
  <2>2. ASSUME NEW a \in Admins, Admin(a) PROVE Owned
    <3>1. pc[a] = "idle" /\ pc'[a] = "reload"
      BY <1>1, <2>2 DEF Admin, UpdateKeyByID, CreateKey, DeleteKeys, AdminWrite, Goto,
                        KeyPoolInv, TypeOK, Workers
    <3>2. QED
      BY <3>1
  <2>3. ASSUME UNCHANGED rows PROVE Owned
    BY <2>3
  <2>4. QED
    BY <1>1, <2>1, <2>2, <2>3
       DEF Next, Select, ForwardOK, ForwardFail, ReloadRead, ReloadFail, ReloadPublish,
           BeginReload, Tick, Restart, vars
<1>2. QED
  BY <1>1, InductiveInvariant, PTL DEF Spec, AdminOwnsKey
=============================================================================
