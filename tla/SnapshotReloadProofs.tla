------------------------- MODULE SnapshotReloadProofs -------------------------
(***************************************************************************)
(* Proofs about SnapshotReload, for any handlers, administrators, commits, *)
(* errors and crashes.  The argument: the tables only grow newer, so what  *)
(* a goroutine reads of a table lies between what the table held when it   *)
(* began and what the table holds; and of two tables that are written      *)
(* together the one read later is read at least as new.                    *)
(***************************************************************************)
EXTENDS SnapshotReload, TLAPS

\* Has the reload or export of w read the table t?
Have(w, t) == \E i \in 1 .. read[w] : Order[i] = t

\* What is read is no newer than the tables, and no older than the call.
ReadsSound ==
  \A w \in Workers :
    /\ pc[w] = "idle" => read[w] = 0
    /\ \A t \in Tables : /\ view[w][t] <= db[t] /\ began[w][t] <= db[t]
                         /\ Have(w, t) => began[w][t] <= view[w][t]

SnapshotBehind == \A t \in Tables : snapshot[t] <= db[t]

\* What was written together has been written.
WholeSound ==
  \A e \in whole : /\ <<e[1], e[3]>> \in Both
                   /\ e[2] <= db[e[1]] /\ e[4] <= db[e[3]]

\* The second half is not read without the first, or not at all yet.
HalvesSound ==
  \A e \in whole :
    /\ snapshot[e[1]] >= e[2] => snapshot[e[3]] >= e[4]
    /\ \A w \in Workers : Have(w, e[3]) /\ view[w][e[1]] >= e[2] => view[w][e[3]] >= e[4]

ReloadInv == TypeOK /\ ReadsSound /\ SnapshotBehind /\ WholeSound /\ HalvesSound

-----------------------------------------------------------------------------
(* The order of the reads *)

LEMMA OrderFields ==
  /\ Len(Order) = 5
  /\ Order[1] = "providers" /\ Order[2] = "provider_keys" /\ Order[3] = "api_keys"
  /\ Order[4] = "rules" /\ Order[5] = "schedules"
  BY DEF Order

\* Every table is read, once.
LEMMA OrderIsComplete ==
  /\ \A i \in 1 .. Len(Order) : Order[i] \in Tables
  /\ \A i, j \in 1 .. Len(Order) : Order[i] = Order[j] => i = j
  /\ \A t \in Tables : \E i \in 1 .. Len(Order) : Order[i] = t
<1>1. \A i \in 1 .. 5 : i = 1 \/ i = 2 \/ i = 3 \/ i = 4 \/ i = 5
  OBVIOUS
<1>2. \A i \in 1 .. Len(Order) : Order[i] \in Tables
  BY <1>1, OrderFields DEF Tables
<1>3. ASSUME NEW i \in 1 .. Len(Order), NEW j \in 1 .. Len(Order), Order[i] = Order[j]
      PROVE  i = j
  BY <1>1, <1>3, OrderFields
<1>4. \A t \in Tables : \E i \in 1 .. Len(Order) : Order[i] = t
  <2>1. 1 \in 1 .. 5 /\ 2 \in 1 .. 5 /\ 3 \in 1 .. 5 /\ 4 \in 1 .. 5 /\ 5 \in 1 .. 5
    OBVIOUS
  <2>2. QED
    BY <2>1, OrderFields DEF Tables
<1>5. QED
  BY <1>2, <1>3, <1>4

\* Of two tables that are written together the first is read first.
LEMMA FirstIsReadFirst ==
  ASSUME NEW p \in Both, NEW j \in 1 .. Len(Order), Order[j] = p[2]
  PROVE  \E i \in 1 .. j - 1 : Order[i] = p[1]
<1>1. \A i \in 1 .. 5 : i = 1 \/ i = 2 \/ i = 3 \/ i = 4 \/ i = 5
  OBVIOUS
<1>2. CASE p = <<"providers", "provider_keys">>
  <2>1. j = 2
    BY <1>1, <1>2, OrderFields
  <2>2. QED
    BY <1>2, <2>1, OrderFields
<1>3. CASE p = <<"rules", "schedules">>
  <2>1. j = 5
    BY <1>1, <1>3, OrderFields
  <2>2. QED
    BY <1>3, <2>1, OrderFields
<1>4. QED
  BY <1>2, <1>3 DEF Both

LEMMA BothAreTables ==
  ASSUME NEW p \in Both
  PROVE  p[1] \in Tables /\ p[2] \in Tables /\ p[1] # p[2] /\ p = <<p[1], p[2]>>
  BY DEF Both, Tables

\* The components of an entry of the history of transactions.
LEMMA WholeFields ==
  ASSUME TypeOK, NEW e \in whole
  PROVE  e[1] \in Tables /\ e[2] \in Nat /\ e[3] \in Tables /\ e[4] \in Nat
  BY DEF TypeOK

-----------------------------------------------------------------------------
(* Commits *)

\* A commit makes the tables it writes newer and leaves the others.
LEMMA CommitSound ==
  ASSUME NEW ts, db \in [Tables -> Nat], db' = Committed(ts)
  PROVE  /\ db' \in [Tables -> Nat] /\ \A t \in Tables : db[t] <= db'[t]
         /\ \A t \in Tables : t \in ts => db'[t] = db[t] + 1
  BY DEF Committed

\* What a commit adds to the history: versions nobody has read yet.
LEMMA CountedSound ==
  ASSUME TypeOK, NEW ts, db' = Committed(ts), Counted(ts), NEW e \in whole'
  PROVE  \/ e \in whole
         \/ \E p \in Both : /\ e = <<p[1], db'[p[1]], p[2], db'[p[2]]>>
                            /\ db'[p[1]] = db[p[1]] + 1
<1>1. CASE e \notin whole
  <2>1. PICK p \in Both : /\ {p[1], p[2]} \subseteq ts
                          /\ e = <<p[1], db'[p[1]], p[2], db'[p[2]]>>
    BY <1>1 DEF Counted
  <2>2. p[1] \in Tables /\ p[1] \in ts
    BY <2>1, BothAreTables
  <2>3. QED
    BY <2>1, <2>2, CommitSound DEF TypeOK
<1>2. QED
  BY <1>1

\* A goroutine begins to read after its commit, or after none.
LEMMA CallKeepsInv ==
  ASSUME ReloadInv, NEW w \in Workers, NEW label \in {"refresh", "reload", "export"},
         NEW ts, Call(w, label, ts),
         Counted(ts) \/ UNCHANGED <<writes, whole>>
  PROVE  ReloadInv'
<1>1. /\ db \in [Tables -> Nat] /\ snapshot \in [Tables -> Nat]
      /\ view \in [Workers -> [Tables -> Nat]] /\ began \in [Workers -> [Tables -> Nat]]
      /\ read \in [Workers -> 0 .. Len(Order)] /\ TypeOK
  BY DEF ReloadInv, TypeOK
<1>2. /\ db' \in [Tables -> Nat] /\ db' = Committed(ts)
      /\ \A t \in Tables : db[t] <= db'[t]
  BY <1>1, CommitSound DEF Call
<1>3. /\ UNCHANGED <<snapshot, view, read, errors, byAdmin>>
      /\ pc' = [pc EXCEPT ![w] = label] /\ began' = [began EXCEPT ![w] = db']
      /\ pc[w] = "idle" /\ read[w] = 0
  BY DEF Call, ReloadInv, ReadsSound
<1>4. ASSUME NEW e \in whole'
      PROVE  \/ e \in whole
             \/ \E p \in Both : /\ e = <<p[1], db'[p[1]], p[2], db'[p[2]]>>
                                /\ db'[p[1]] = db[p[1]] + 1
  BY <1>1, <1>2, CountedSound
<1>5. TypeOK'
  <2>1. ASSUME NEW e \in whole' PROVE e \in Tables \X Nat \X Tables \X Nat
    <3>1. ASSUME NEW p \in Both, e = <<p[1], db'[p[1]], p[2], db'[p[2]]>>
          PROVE  e \in Tables \X Nat \X Tables \X Nat
      BY <1>2, <3>1, BothAreTables
    <3>2. QED
      BY <1>1, <1>4, <3>1 DEF TypeOK
  <2>2. writes' \in Nat
    BY <1>1 DEF Counted, TypeOK
  <2>3. QED
    BY <1>1, <1>2, <1>3, <2>1, <2>2 DEF TypeOK
<1>6. ReadsSound'
  <2> SUFFICES ASSUME NEW u \in Workers
               PROVE  /\ pc'[u] = "idle" => read'[u] = 0
                      /\ \A t \in Tables : /\ view'[u][t] <= db'[t] /\ began'[u][t] <= db'[t]
                                           /\ Have(u, t)' => began'[u][t] <= view'[u][t]
    BY DEF ReadsSound
  <2>1. pc'[u] = "idle" => read'[u] = 0
    BY <1>1, <1>3 DEF ReloadInv, ReadsSound, TypeOK
  <2>2. ASSUME NEW t \in Tables
        PROVE  /\ view'[u][t] <= db'[t] /\ began'[u][t] <= db'[t]
               /\ Have(u, t)' => began'[u][t] <= view'[u][t]
    <3>1. view[u][t] \in Nat /\ db[t] \in Nat /\ db'[t] \in Nat /\ began[u][t] \in Nat
      BY <1>1, <1>2
    <3>2. view[u][t] <= db[t] /\ began[u][t] <= db[t] /\ db[t] <= db'[t]
      BY <1>2 DEF ReloadInv, ReadsSound
    <3>3. Have(u, t)' <=> Have(u, t)
      BY <1>3 DEF Have
    <3>4. CASE u = w
      <4>1. began'[u] = db' /\ ~Have(u, t)
        BY <1>1, <1>3, <3>4 DEF Have
      <4>2. QED
        BY <1>3, <3>1, <3>2, <3>3, <4>1
    <3>5. CASE u # w
      <4>1. began'[u] = began[u]
        BY <1>1, <1>3, <3>5
      <4>2. QED
        BY <1>3, <3>1, <3>2, <3>3, <4>1 DEF ReloadInv, ReadsSound
    <3>6. QED
      BY <3>4, <3>5
  <2>3. QED
    BY <2>1, <2>2
<1>7. SnapshotBehind'
  <2> SUFFICES ASSUME NEW t \in Tables PROVE snapshot'[t] <= db'[t]
    BY DEF SnapshotBehind
  <2>1. snapshot[t] <= db[t] /\ db[t] <= db'[t]
    BY <1>2 DEF ReloadInv, SnapshotBehind
  <2>2. QED
    BY <1>1, <1>2, <1>3, <2>1
<1>8. WholeSound'
  <2> SUFFICES ASSUME NEW e \in whole'
               PROVE  /\ <<e[1], e[3]>> \in Both
                      /\ e[2] <= db'[e[1]] /\ e[4] <= db'[e[3]]
    BY DEF WholeSound
  <2>1. CASE e \in whole
    <3>1. /\ <<e[1], e[3]>> \in Both /\ e[2] <= db[e[1]] /\ e[4] <= db[e[3]]
      BY <2>1 DEF ReloadInv, WholeSound
    <3>2. e[1] \in Tables /\ e[3] \in Tables /\ e[2] \in Nat /\ e[4] \in Nat
      BY <1>1, <2>1, WholeFields
    <3>3. ASSUME NEW t \in Tables, NEW n \in Nat, n <= db[t] PROVE n <= db'[t]
      <4>1. db[t] \in Nat /\ db'[t] \in Nat /\ db[t] <= db'[t]
        BY <1>1, <1>2
      <4>2. QED
        BY <3>3, <4>1
    <3>4. QED
      BY <3>1, <3>2, <3>3
  <2>2. ASSUME NEW p \in Both, e = <<p[1], db'[p[1]], p[2], db'[p[2]]>>
        PROVE  /\ <<e[1], e[3]>> \in Both
               /\ e[2] <= db'[e[1]] /\ e[4] <= db'[e[3]]
    <3>1. p[1] \in Tables /\ p[2] \in Tables /\ <<p[1], p[2]>> \in Both
      BY BothAreTables
    <3>2. QED
      BY <1>2, <2>2, <3>1
  <2>3. QED
    BY <1>4, <2>1, <2>2
<1>9. HalvesSound'
  <2> SUFFICES ASSUME NEW e \in whole'
               PROVE  /\ snapshot'[e[1]] >= e[2] => snapshot'[e[3]] >= e[4]
                      /\ \A u \in Workers : Have(u, e[3])' /\ view'[u][e[1]] >= e[2]
                                            => view'[u][e[3]] >= e[4]
    BY DEF HalvesSound
  <2>1. \A u \in Workers : \A t : Have(u, t)' <=> Have(u, t)
    BY <1>3 DEF Have
  <2>2. CASE e \in whole
    BY <1>3, <2>1, <2>2 DEF ReloadInv, HalvesSound
  <2>3. ASSUME NEW p \in Both, e = <<p[1], db'[p[1]], p[2], db'[p[2]]>>,
               db'[p[1]] = db[p[1]] + 1
        PROVE  ~(snapshot'[e[1]] >= e[2]) /\ \A u \in Workers : ~(view'[u][e[1]] >= e[2])
    <3>1. e[1] = p[1] /\ e[2] = db[p[1]] + 1 /\ p[1] \in Tables
      BY <2>3, BothAreTables
    <3>2. snapshot[p[1]] <= db[p[1]] /\ \A u \in Workers : view[u][p[1]] <= db[p[1]]
      BY <3>1 DEF ReloadInv, SnapshotBehind, ReadsSound
    <3>3. /\ snapshot[p[1]] \in Nat /\ db[p[1]] \in Nat
          /\ \A u \in Workers : view[u][p[1]] \in Nat
      BY <1>1, <3>1
    <3>4. QED
      BY <1>3, <3>1, <3>2, <3>3
  <2>4. QED
    BY <1>4, <2>2, <2>3
<1>10. QED
  BY <1>5, <1>6, <1>7, <1>8, <1>9 DEF ReloadInv

-----------------------------------------------------------------------------
(* Reads, and the ways a reload or export ends *)

\* One more table is read: as it is now.
LEMMA ReadTableKeepsInv ==
  ASSUME ReloadInv, NEW w \in Workers, ReadTable(w)
  PROVE  ReloadInv'
<1> DEFINE j == read[w] + 1
           t == Order[j]
<1>1. /\ db \in [Tables -> Nat] /\ snapshot \in [Tables -> Nat]
      /\ view \in [Workers -> [Tables -> Nat]] /\ began \in [Workers -> [Tables -> Nat]]
      /\ read \in [Workers -> 0 .. Len(Order)] /\ TypeOK
  BY DEF ReloadInv, TypeOK
<1>2. /\ UNCHANGED <<db, snapshot, pc, writes, whole, errors, began, byAdmin>>
      /\ pc[w] # "idle" /\ read' = [read EXCEPT ![w] = j]
      /\ view' = [view EXCEPT ![w][t] = db[t]]
  BY DEF ReadTable
<1>3. j \in 1 .. Len(Order) /\ t \in Tables
  BY <1>1, OrderFields, OrderIsComplete DEF ReadTable
<1>4. /\ \A u \in Workers \ {w} : view'[u] = view[u] /\ read'[u] = read[u]
      /\ view'[w][t] = db[t] /\ read'[w] = j
      /\ \A s \in Tables \ {t} : view'[w][s] = view[w][s]
  BY <1>1, <1>2, <1>3
<1>5. /\ \A u \in Workers \ {w} : \A s : Have(u, s)' <=> Have(u, s)
      /\ \A s : Have(w, s)' <=> Have(w, s) \/ s = t
  <2>1. 1 .. j = (1 .. read[w]) \cup {j}
    BY <1>1
  <2>2. \A s : Have(w, s)' <=> \E i \in 1 .. j : Order[i] = s
    BY <1>4 DEF Have
  <2>3. \A u \in Workers \ {w} : \A s : Have(u, s)' <=> Have(u, s)
    BY <1>4 DEF Have
  <2>4. QED
    BY <2>1, <2>2, <2>3 DEF Have
<1> HIDE DEF j, t
<1>6. TypeOK'
  <2>1. view' \in [Workers -> [Tables -> Nat]]
    BY <1>1, <1>2, <1>3
  <2>2. read' \in [Workers -> 0 .. Len(Order)]
    BY <1>1, <1>2, <1>3, OrderFields
  <2>3. QED
    BY <1>1, <1>2, <2>1, <2>2 DEF TypeOK
<1>7. ReadsSound'
  <2> SUFFICES ASSUME NEW u \in Workers
               PROVE  /\ pc'[u] = "idle" => read'[u] = 0
                      /\ \A s \in Tables : /\ view'[u][s] <= db'[s] /\ began'[u][s] <= db'[s]
                                           /\ Have(u, s)' => began'[u][s] <= view'[u][s]
    BY DEF ReadsSound
  <2>1. CASE u # w
    BY <1>2, <1>4, <1>5, <2>1 DEF ReloadInv, ReadsSound
  <2>2. CASE u = w
    <3>1. pc'[u] # "idle"
      BY <1>2, <2>2
    <3>2. ASSUME NEW s \in Tables
          PROVE  /\ view'[u][s] <= db'[s] /\ began'[u][s] <= db'[s]
                 /\ Have(u, s)' => began'[u][s] <= view'[u][s]
      <4>1. db[s] \in Nat /\ began[w][s] <= db[s] /\ view[w][s] <= db[s]
        BY <1>1 DEF ReloadInv, ReadsSound
      <4>2. CASE s = t
        BY <1>2, <1>4, <2>2, <4>1, <4>2
      <4>3. CASE s # t
        BY <1>2, <1>4, <1>5, <2>2, <4>1, <4>3 DEF ReloadInv, ReadsSound
      <4>4. QED
        BY <4>2, <4>3
    <3>3. QED
      BY <3>1, <3>2
  <2>3. QED
    BY <2>1, <2>2
<1>8. SnapshotBehind' /\ WholeSound'
  BY <1>2 DEF ReloadInv, SnapshotBehind, WholeSound
<1>9. HalvesSound'
  <2> SUFFICES ASSUME NEW e \in whole, NEW u \in Workers, Have(u, e[3])',
                      view'[u][e[1]] >= e[2]
               PROVE  view'[u][e[3]] >= e[4]
    BY <1>2 DEF ReloadInv, HalvesSound
  <2>1. /\ <<e[1], e[3]>> \in Both /\ e[4] <= db[e[3]]
        /\ Have(u, e[3]) /\ view[u][e[1]] >= e[2] => view[u][e[3]] >= e[4]
    BY DEF ReloadInv, WholeSound, HalvesSound
  <2>2. e[1] \in Tables /\ e[3] \in Tables /\ e[2] \in Nat /\ e[4] \in Nat
    BY <1>1, WholeFields
  <2>3. CASE u # w
    BY <1>4, <1>5, <2>1, <2>3
  <2>4. CASE u = w /\ e[3] = t
    <3>1. db[e[3]] \in Nat
      BY <1>1, <2>2
    <3>2. QED
      BY <1>4, <2>1, <2>2, <2>4, <3>1
  <2>5. CASE u = w /\ e[3] # t
    <3>1. Have(w, e[3])
      BY <1>5, <2>5
    <3>2. e[1] # t
      <4>1. PICK i \in 1 .. read[w] : Order[i] = e[3]
        BY <3>1 DEF Have
      <4>2. i \in 1 .. Len(Order) /\ i < j
        <5>1. read[w] \in 0 .. 5 /\ Len(Order) = 5
          BY <1>1, OrderFields
        <5>2. QED
          BY <5>1 DEF j
      <4>3. PICK k \in 1 .. i - 1 : Order[k] = e[1]
        BY <2>1, <4>1, <4>2, FirstIsReadFirst
      <4>4. k \in 1 .. Len(Order) /\ k # j
        BY <1>3, <4>2, OrderFields
      <4>5. QED
        BY <1>3, <4>3, <4>4, OrderIsComplete DEF t
    <3>3. QED
      BY <1>4, <2>1, <2>2, <2>5, <3>1, <3>2
  <2>6. QED
    BY <2>3, <2>4, <2>5
<1>10. QED
  BY <1>6, <1>7, <1>8, <1>9 DEF ReloadInv

\* A goroutine is done with its reload or export, or has failed.
LEMMA ReturnForgets ==
  ASSUME TypeOK, NEW w \in Workers, Return(w)
  PROVE  /\ pc'[w] = "idle" /\ read'[w] = 0
         /\ view'[w] = Nothing /\ began'[w] = Nothing
         /\ \A u \in Workers \ {w} : /\ pc'[u] = pc[u] /\ view'[u] = view[u]
                                     /\ read'[u] = read[u] /\ began'[u] = began[u]
         /\ pc' \in [Workers -> {"idle", "refresh", "reload", "export"}]
         /\ view' \in [Workers -> [Tables -> Nat]] /\ began' \in [Workers -> [Tables -> Nat]]
         /\ read' \in [Workers -> 0 .. Len(Order)]
<1>1. Nothing \in [Tables -> Nat] /\ 0 \in 0 .. Len(Order)
  BY OrderFields DEF Nothing
<1>2. QED
  BY <1>1 DEF TypeOK, Return

LEMMA ReturnKeepsReads ==
  ASSUME ReloadInv, NEW w \in Workers, Return(w), UNCHANGED <<db, whole>>
  PROVE  /\ ReadsSound' /\ WholeSound'
         /\ \A e \in whole, u \in Workers :
              Have(u, e[3])' /\ view'[u][e[1]] >= e[2] => view'[u][e[3]] >= e[4]
<1>1. TypeOK
  BY DEF ReloadInv
<1>2. /\ \A s : ~Have(w, s)'
      /\ \A u \in Workers \ {w} : \A s : Have(u, s)' <=> Have(u, s)
  BY <1>1, ReturnForgets DEF Have
<1>3. ReadsSound'
  <2> SUFFICES ASSUME NEW u \in Workers
               PROVE  /\ pc'[u] = "idle" => read'[u] = 0
                      /\ \A s \in Tables : /\ view'[u][s] <= db'[s] /\ began'[u][s] <= db'[s]
                                           /\ Have(u, s)' => began'[u][s] <= view'[u][s]
    BY DEF ReadsSound
  <2>1. CASE u # w
    BY <1>1, <1>2, <2>1, ReturnForgets DEF ReloadInv, ReadsSound
  <2>2. CASE u = w
    <3>1. \A s \in Tables : Nothing[s] = 0 /\ db[s] \in Nat
      BY <1>1 DEF Nothing, TypeOK
    <3>2. QED
      BY <1>1, <1>2, <2>2, <3>1, ReturnForgets
  <2>3. QED
    BY <2>1, <2>2
<1>4. WholeSound'
  BY DEF ReloadInv, WholeSound
<1>5. ASSUME NEW e \in whole, NEW u \in Workers, Have(u, e[3])', view'[u][e[1]] >= e[2]
      PROVE  view'[u][e[3]] >= e[4]
  <2>1. u # w /\ Have(u, e[3])
    BY <1>2, <1>5
  <2>2. view'[u] = view[u]
    BY <1>1, <2>1, ReturnForgets
  <2>3. QED
    BY <1>5, <2>1, <2>2 DEF ReloadInv, HalvesSound
<1>6. QED
  BY <1>3, <1>4, <1>5

LEMMA FailKeepsInv ==
  ASSUME ReloadInv, NEW w \in Workers, ReadFails(w) \/ AnswerExport(w)
  PROVE  ReloadInv'
<1>1. /\ TypeOK /\ Return(w) /\ UNCHANGED <<db, snapshot, writes, whole, byAdmin>>
      /\ errors' \in {errors, errors + 1}
  BY DEF ReadFails, AnswerExport, ReloadInv
<1>2. TypeOK'
  <2>1. errors' \in Nat
    BY <1>1 DEF TypeOK
  <2>2. /\ pc' \in [Workers -> {"idle", "refresh", "reload", "export"}]
        /\ view' \in [Workers -> [Tables -> Nat]] /\ began' \in [Workers -> [Tables -> Nat]]
        /\ read' \in [Workers -> 0 .. Len(Order)]
    BY <1>1, ReturnForgets
  <2>3. QED
    BY <1>1, <2>1, <2>2 DEF TypeOK
<1>3. SnapshotBehind'
  BY <1>1 DEF ReloadInv, SnapshotBehind
<1>4. HalvesSound'
  BY <1>1, ReturnKeepsReads DEF ReloadInv, HalvesSound
<1>5. QED
  BY <1>1, <1>2, <1>3, <1>4, ReturnKeepsReads DEF ReloadInv

\* Whoever has read every table publishes what it has read.
LEMMA ReadAll ==
  ASSUME ReloadInv, NEW w \in Workers, read[w] = Len(Order), NEW t \in Tables
  PROVE  Have(w, t) /\ began[w][t] <= view[w][t] /\ view[w][t] <= db[t]
<1>1. Have(w, t)
  BY OrderIsComplete DEF Have
<1>2. QED
  BY <1>1 DEF ReloadInv, ReadsSound

LEMMA PublishKeepsInv ==
  ASSUME ReloadInv, NEW w \in Workers, Publish(w)
  PROVE  ReloadInv'
<1>1. /\ TypeOK /\ Return(w) /\ UNCHANGED <<db, writes, whole, errors>>
      /\ snapshot' = view[w] /\ read[w] = Len(Order) /\ byAdmin' \in BOOLEAN
  BY DEF Publish, ReloadInv
<1>2. TypeOK'
  <2>1. snapshot' \in [Tables -> Nat]
    BY <1>1 DEF TypeOK
  <2>2. QED
    BY <1>1, <2>1, ReturnForgets DEF TypeOK
<1>3. SnapshotBehind'
  BY <1>1, ReadAll DEF SnapshotBehind
<1>4. HalvesSound'
  <2>1. ASSUME NEW e \in whole, snapshot'[e[1]] >= e[2] PROVE snapshot'[e[3]] >= e[4]
    <3>1. e[3] \in Tables
      BY <1>1, WholeFields
    <3>2. Have(w, e[3])
      BY <1>1, <3>1, ReadAll
    <3>3. QED
      BY <1>1, <2>1, <3>2 DEF ReloadInv, HalvesSound
  <2>2. QED
    BY <1>1, <2>1, ReturnKeepsReads DEF HalvesSound
<1>5. QED
  BY <1>1, <1>2, <1>3, <1>4, ReturnKeepsReads DEF ReloadInv

LEMMA RestartKeepsInv ==
  ASSUME ReloadInv, Restart
  PROVE  ReloadInv'
<1>1. /\ TypeOK /\ UNCHANGED <<db, writes, whole, errors>> /\ snapshot' = db
      /\ pc' = [w \in Workers |-> "idle"] /\ read' = [w \in Workers |-> 0]
      /\ view' = [w \in Workers |-> Nothing] /\ began' = [w \in Workers |-> Nothing]
      /\ byAdmin' = FALSE
  BY DEF Restart, ReloadInv
<1>2. Nothing \in [Tables -> Nat] /\ 0 \in 0 .. Len(Order)
  BY OrderFields DEF Nothing
<1>3. TypeOK'
  BY <1>1, <1>2 DEF TypeOK
<1>4. \A s \in Tables : Nothing[s] = 0 /\ db[s] \in Nat /\ db[s] >= db[s]
  BY <1>1 DEF Nothing, TypeOK
<1>5. \A w \in Workers : \A s : ~Have(w, s)'
  BY <1>1 DEF Have
<1>6. ReadsSound' /\ SnapshotBehind'
  BY <1>1, <1>4, <1>5 DEF ReadsSound, SnapshotBehind
<1>7. WholeSound'
  BY <1>1 DEF ReloadInv, WholeSound
<1>8. HalvesSound'
  <2>1. ASSUME NEW e \in whole PROVE snapshot'[e[3]] >= e[4]
    <3>1. e[4] <= db[e[3]] /\ e[3] \in Tables /\ e[4] \in Nat
      BY <1>1, WholeFields DEF ReloadInv, WholeSound
    <3>2. QED
      BY <1>1, <1>4, <3>1
  <2>2. QED
    BY <1>1, <1>5, <2>1 DEF HalvesSound
<1>9. QED
  BY <1>3, <1>6, <1>7, <1>8 DEF ReloadInv

LEMMA InitInv ==
  ASSUME Init PROVE ReloadInv
<1>1. Nothing \in [Tables -> Nat] /\ 0 \in 0 .. Len(Order)
  BY OrderFields DEF Nothing
<1>2. TypeOK
  BY <1>1 DEF Init, TypeOK
<1>3. \A s \in Tables : Nothing[s] = 0 /\ 0 <= 0
  BY DEF Nothing
<1>4. \A w \in Workers : \A s : ~Have(w, s)
  BY DEF Init, Have
<1>5. ReadsSound /\ SnapshotBehind
  BY <1>3, <1>4 DEF Init, ReadsSound, SnapshotBehind
<1>6. WholeSound /\ HalvesSound
  BY DEF Init, WholeSound, HalvesSound
<1>7. QED
  BY <1>2, <1>5, <1>6 DEF ReloadInv

-----------------------------------------------------------------------------
\* Every reachable state satisfies the inductive invariant: what is read and what is
\* published lies between the call of its reload and the store.
THEOREM InductiveInvariant == Spec => []ReloadInv
<1>1. Init => ReloadInv
  BY InitInv
<1>2. ReloadInv /\ [Next]_vars => ReloadInv'
  <2> SUFFICES ASSUME ReloadInv, [Next]_vars PROVE ReloadInv'
    OBVIOUS
  <2>1. Loop \in Workers /\ Handlers \subseteq Workers /\ Admins \subseteq Workers
    BY DEF Workers
  <2>2. CASE Tick
    BY <2>1, <2>2, CallKeepsInv DEF Tick
  <2>3. ASSUME NEW h \in Handlers, NEW ts \in RequestCommits, RequestCommit(h, ts)
        PROVE  ReloadInv'
    BY <2>1, <2>3, CallKeepsInv DEF RequestCommit
  <2>4. ASSUME NEW a \in Admins, AdminReload(a) \/ Export(a) PROVE ReloadInv'
    BY <2>1, <2>4, CallKeepsInv DEF AdminReload, Export
  <2>5. ASSUME NEW a \in Admins, NEW ts \in AdminCommits, AdminCommit(a, ts)
        PROVE  ReloadInv'
    BY <2>1, <2>5, CallKeepsInv DEF AdminCommit
  <2>6. ASSUME NEW w \in Workers,
               ReadTable(w) \/ ReadFails(w) \/ Publish(w) \/ AnswerExport(w)
        PROVE  ReloadInv'
    BY <2>6, ReadTableKeepsInv, FailKeepsInv, PublishKeepsInv
  <2>7. CASE Restart
    BY <2>7, RestartKeepsInv
  <2>8. CASE UNCHANGED vars
    BY <2>8 DEF vars, ReloadInv, TypeOK, ReadsSound, SnapshotBehind, WholeSound,
                HalvesSound, Have
  <2>9. QED
    BY <2>2, <2>3, <2>4, <2>5, <2>6, <2>7, <2>8 DEF Next
<1>3. QED
  BY <1>1, <1>2, PTL DEF Spec

\* The types of the tables, the snapshot and the reloads under way.
THEOREM TypeCorrect == Spec => []TypeOK
  BY InductiveInvariant, PTL DEF ReloadInv

\* A reload publishes, of every table, something between what it held when the reload
\* was called and what it holds now.
THEOREM PublishedIsRecentHolds == Spec => PublishedIsRecent
<1> DEFINE Recent ==
      \A w \in Workers :
        Publish(w) => \A t \in Tables : /\ began[w][t] <= snapshot'[t]
                                       /\ snapshot'[t] <= db[t]
<1>1. ASSUME ReloadInv PROVE Recent
  BY <1>1, ReadAll DEF Publish
<1>2. QED
  BY <1>1, InductiveInvariant, PTL DEF PublishedIsRecent

\* What a reload or an export has of a transaction is never only its second half.
THEOREM NeverOnlySecondHalfHolds == Spec => []NeverOnlySecondHalf
<1>1. ASSUME ReloadInv PROVE NeverOnlySecondHalf
  <2>1. ASSUME NEW e \in whole, snapshot[e[1]] >= e[2] PROVE snapshot[e[3]] >= e[4]
    BY <1>1, <2>1 DEF ReloadInv, HalvesSound
  <2>2. ASSUME NEW e \in whole, NEW w \in Workers, read[w] = Len(Order),
               view[w][e[1]] >= e[2]
        PROVE  view[w][e[3]] >= e[4]
    <3>1. e[3] \in Tables
      BY <1>1, WholeFields DEF ReloadInv
    <3>2. Have(w, e[3])
      BY <1>1, <2>2, <3>1, ReadAll
    <3>3. QED
      BY <1>1, <2>2, <3>2 DEF ReloadInv, HalvesSound
  <2>3. QED
    BY <2>1, <2>2 DEF NeverOnlySecondHalf
<1>2. QED
  BY <1>1, InductiveInvariant, PTL

-----------------------------------------------------------------------------
(* While nothing is written *)

\* The reloads and exports that hold older content of some table than the store.
Stale == {w \in Workers : \E t \in Tables : Have(w, t) /\ view[w][t] # db[t]}

\* Who holds nothing old and has read everything holds the store.
LEMMA FreshIsStore ==
  ASSUME ReloadInv, NEW w \in Workers, read[w] = Len(Order), w \notin Stale
  PROVE  view[w] = db
<1>1. \A t \in Tables : view[w][t] = db[t]
  BY ReadAll DEF Stale
<1>2. view[w] \in [Tables -> Nat] /\ db \in [Tables -> Nat]
  BY DEF ReloadInv, TypeOK
<1>3. QED
  BY <1>1, <1>2

\* Nobody comes to hold older content while the store stays as it is.
LEMMA NobodyBecomesStale ==
  ASSUME ReloadInv, [Next]_vars, db' = db
  PROVE  Stale' \subseteq Stale
<1>1. TypeOK
  BY DEF ReloadInv
<1>2. CASE UNCHANGED <<view, read>>
  BY <1>2 DEF Stale, Have
<1>3. ASSUME NEW w \in Workers, ReadTable(w) PROVE Stale' \subseteq Stale
  <2> DEFINE j == read[w] + 1
             t == Order[j]
  <2>1. /\ view \in [Workers -> [Tables -> Nat]] /\ read \in [Workers -> 0 .. Len(Order)]
        /\ read' = [read EXCEPT ![w] = j] /\ view' = [view EXCEPT ![w][t] = db[t]]
    BY <1>1, <1>3 DEF ReadTable, TypeOK
  <2>2. j \in 1 .. Len(Order) /\ t \in Tables /\ 1 .. j = (1 .. read[w]) \cup {j}
    BY <1>3, <2>1, OrderFields, OrderIsComplete DEF ReadTable
  <2>3. /\ \A u \in Workers \ {w} : view'[u] = view[u] /\ read'[u] = read[u]
        /\ view'[w][t] = db[t] /\ read'[w] = j
        /\ \A s \in Tables \ {t} : view'[w][s] = view[w][s]
    BY <2>1, <2>2
  <2> HIDE DEF j
  <2>4. /\ \A u \in Workers \ {w} : \A s : Have(u, s)' <=> Have(u, s)
        /\ \A s : Have(w, s)' => Have(w, s) \/ s = t
    BY <2>2, <2>3 DEF Have
  <2> HIDE DEF t
  <2>5. QED
    BY <2>3, <2>4 DEF Stale
<1>4. ASSUME NEW w \in Workers, Return(w) PROVE Stale' \subseteq Stale
  <2>1. /\ \A s : ~Have(w, s)'
        /\ \A u \in Workers \ {w} : \A s : Have(u, s)' <=> Have(u, s)
        /\ \A u \in Workers \ {w} : view'[u] = view[u]
    BY <1>1, <1>4, ReturnForgets DEF Have
  <2>2. QED
    BY <2>1 DEF Stale
<1>5. CASE Restart
  BY <1>5 DEF Restart, Stale, Have
<1>6. QED
  BY <1>2, <1>3, <1>4, <1>5
  DEF Next, vars, Tick, RequestCommit, AdminReload, Export, AdminCommit, Call, ReadFails,
      Publish, AnswerExport

\* Who replaces the store's content by older content was stale, and is no more.
LEMMA DepartureCosts ==
  ASSUME ReloadInv, [Next]_vars, db' = db, snapshot = db, snapshot' # db
  PROVE  Stale' # Stale
<1>1. PICK w \in Workers : Publish(w)
  BY DEF Next, vars, Tick, RequestCommit, AdminReload, Export, AdminCommit, Call,
         ReadTable, ReadFails, AnswerExport, Restart
<1>2. w \in Stale
  BY <1>1, FreshIsStore DEF Publish
<1>3. w \notin Stale'
  BY <1>1, ReturnForgets DEF Publish, ReloadInv, Stale, Have
<1>4. QED
  BY <1>2, <1>3

\* The safety half of the snapshot's convergence.  While nothing is written, every reload
\* that departs from the store in what it publishes is one of those that were under way
\* and held older content, and it holds nothing afterwards: reloadSnapshot, whose calls
\* are not ordered among themselves, can put old content back only once for each of them.
THEOREM DeparturesRunOut ==
  Spec => [][db' = db => /\ Stale' \subseteq Stale
                         /\ snapshot = db /\ snapshot' # db => Stale' # Stale]_vars
<1>1. ReloadInv /\ [Next]_vars =>
        (db' = db => /\ Stale' \subseteq Stale
                     /\ snapshot = db /\ snapshot' # db => Stale' # Stale)
  BY NobodyBecomesStale, DepartureCosts
<1>2. QED
  BY <1>1, InductiveInvariant, PTL DEF Spec

\* Once nobody holds older content and the snapshot is the store, it stays the store until
\* the next commit, whatever reloads begin, fail, publish or are lost in a crash.
THEOREM SettledStays ==
  Spec => [][snapshot = db /\ Stale = {} /\ db' = db => snapshot' = db' /\ Stale' = {}]_vars
<1>1. ReloadInv /\ [Next]_vars =>
        (snapshot = db /\ Stale = {} /\ db' = db => snapshot' = db' /\ Stale' = {})
  <2> SUFFICES ASSUME ReloadInv, [Next]_vars, snapshot = db, Stale = {}, db' = db
               PROVE  snapshot' = db' /\ Stale' = {}
    OBVIOUS
  <2>1. Stale' = {}
    BY NobodyBecomesStale
  <2>2. QED
    BY <2>1, DepartureCosts
<1>2. QED
  BY <1>1, InductiveInvariant, PTL DEF Spec

\* A reload that was called after the last commit publishes the store: its caller, the
\* admin handler or the ticker, has its own writes and everyone else's in the snapshot.
THEOREM QuietReloadPublishesStore ==
  Spec => [][\A w \in Workers : Publish(w) /\ began[w] = db => snapshot' = db]_vars
<1> DEFINE Quiet == \A w \in Workers : Publish(w) /\ began[w] = db => snapshot' = db
<1>1. ASSUME ReloadInv PROVE Quiet
  <2> SUFFICES ASSUME NEW w \in Workers, Publish(w), began[w] = db PROVE view[w] = db
    BY DEF Publish
  <2>1. /\ view[w] \in [Tables -> Nat] /\ db \in [Tables -> Nat]
    BY <1>1 DEF ReloadInv, TypeOK
  <2>2. ASSUME NEW t \in Tables PROVE view[w][t] = db[t]
    <3>1. db[t] <= view[w][t] /\ view[w][t] <= db[t]
      BY <1>1, ReadAll DEF Publish
    <3>2. QED
      BY <2>1, <3>1
  <2>3. QED
    BY <2>1, <2>2
<1>2. QED
  BY <1>1, InductiveInvariant, PTL
=============================================================================
