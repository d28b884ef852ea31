---------------------------- MODULE SnapshotReload ----------------------------
(***************************************************************************)
(* The runtime snapshot: how five tables of the store reach the requests.  *)
(*                                                                         *)
(* reloadSnapshot reads the tables one statement after the other, in no    *)
(* transaction, converts them and replaces the whole snapshot.  It runs in *)
(* the ticker goroutine, at the end of every request that wrote key health *)
(* or a balance, and at the end of every admin write; the calls are not    *)
(* ordered among themselves, and any of their reads may fail.              *)
(*                                                                         *)
(* The content of a table is its version, the number of commits that have  *)
(* changed it; what is published of it is a function of that content.      *)
(*                                                                         *)
(* GET /admin/config/export lists the same five tables, in the same order  *)
(* and as little in a transaction, and answers with what it has read.      *)
(***************************************************************************)
EXTENDS Integers, Sequences

CONSTANTS
  Loop,        \* the goroutine of loopReload
  Handlers,    \* goroutines inside handleProxy
  Admins,      \* goroutines inside an admin handler
  MaxWrites,   \* bound on the commits, for TLC
  MaxErrors,   \* bound on the store's errors: it works again in the end
  MayCrash     \* may the process die and be started again?

ASSUME ReloadAssumption ==
  /\ MaxWrites \in Nat /\ MaxErrors \in Nat
  /\ MayCrash \in BOOLEAN
  /\ Loop \notin Handlers \cup Admins

Tables == {"providers", "provider_keys", "api_keys", "rules", "schedules"}

\* a faulty order of the reads, see below: by name
OrderByName == <<"api_keys", "provider_keys", "providers", "rules", "schedules">>

\* the reads of reloadSnapshot and of ExportRuntimeConfig, in their order
Order == <<"providers", "provider_keys", "api_keys", "rules", "schedules">>

Workers == {Loop} \cup Handlers \cup Admins

VARIABLES
  db,        \* version of each table, as committed
  snapshot,  \* version of each table in the published runtimeSnapshot
  pc,        \* idle, in reloadSnapshot (for POST /admin/reload or not), or
             \* in ExportRuntimeConfig
  view,      \* what a reload or export in progress has read
  read,      \* how many tables it has read
  writes,    \* commits so far
  whole,     \* history: what the transactions over two tables have written
  errors,    \* errors of the store so far
  began,     \* history: the tables when the reload in progress was called
  byAdmin    \* history: was the snapshot published by POST /admin/reload?

vars == <<db, snapshot, pc, view, read, writes, whole, errors, began, byAdmin>>

Nothing == [t \in Tables |-> 0]

\* the tables one statement of a request changes: key health, a balance, or
\* nothing when it fails; the reload follows in any case
RequestCommits == {{"provider_keys"}, {"api_keys"}, {}}

\* the tables one commit of each admin handler changes, before it reloads;
\* DeleteProvider and ReplaceRulesAndSchedules are transactions over two of them
ProviderCommits == {{"providers"}, {"providers", "provider_keys"}}
ProviderKeyCommits == {{"provider_keys"}}
APIKeyCommits == {{"api_keys"}}
RuleCommits == {{"rules"}}
ScheduleCommits == {{"schedules"}}
ImportCommits == {{"rules", "schedules"}}

AdminCommits == ProviderCommits \cup ProviderKeyCommits \cup APIKeyCommits
                \cup RuleCommits \cup ScheduleCommits \cup ImportCommits

\* the tables changed together, in the order in which they are read
Both == {<<"providers", "provider_keys">>, <<"rules", "schedules">>}

Committed(ts) == [t \in Tables |-> IF t \in ts THEN db[t] + 1 ELSE db[t]]

-----------------------------------------------------------------------------
(* Faulty forms of the definitions below, which the properties must refuse. *)

\* a failed reload keeps what it has read for the next one
FailHalfway(w) ==
  /\ pc[w] # "idle" /\ read[w] < Len(Order)
  /\ errors < MaxErrors
  /\ errors' = errors + 1
  /\ pc' = [pc EXCEPT ![w] = "idle"]
  /\ UNCHANGED <<db, snapshot, view, read, writes, whole, began, byAdmin>>

\* the ticker's goroutine returns on the first error
TickUntilError ==
  /\ pc[Loop] = "idle" /\ errors = 0
  /\ pc' = [pc EXCEPT ![Loop] = "refresh"]
  /\ began' = [began EXCEPT ![Loop] = db]
  /\ UNCHANGED <<db, snapshot, view, read, writes, whole, errors, byAdmin>>

\* serving starts before the first reload
StartEmpty ==
  /\ MayCrash
  /\ snapshot' = [t \in Tables |-> -1]
  /\ pc' = [w \in Workers |-> "idle"]
  /\ view' = [w \in Workers |-> Nothing]
  /\ read' = [w \in Workers |-> 0]
  /\ began' = [w \in Workers |-> Nothing]
  /\ byAdmin' = FALSE
  /\ UNCHANGED <<db, writes, whole, errors>>

-----------------------------------------------------------------------------
Init ==
  \* seeded tables, and the reload of NewServer
  /\ db = Nothing
  /\ snapshot = Nothing
  /\ pc = [w \in Workers |-> "idle"]
  /\ view = [w \in Workers |-> Nothing]
  /\ read = [w \in Workers |-> 0]
  /\ writes = 0 /\ whole = {} /\ errors = 0
  /\ began = [w \in Workers |-> Nothing]
  /\ byAdmin = FALSE

\* a goroutine begins to read, right after its commit of the tables ts or of none
Call(w, label, ts) ==
  /\ pc[w] = "idle"
  /\ pc' = [pc EXCEPT ![w] = label]
  /\ db' = Committed(ts)
  /\ began' = [began EXCEPT ![w] = db']
  /\ UNCHANGED <<snapshot, view, read, errors, byAdmin>>

\* bookkeeping for a commit of ts; an entry <<t, m, u, n>> says that version m of t
\* and version n of u were written together
Counted(ts) ==
  /\ writes < MaxWrites
  /\ writes' = writes + 1
  /\ whole' = whole \cup {<<p[1], db'[p[1]], p[2], db'[p[2]]>> :
                            p \in {q \in Both : {q[1], q[2]} \subseteq ts}}

\* a tick of loopReload
Tick == Call(Loop, "refresh", {}) /\ UNCHANGED <<writes, whole>>

\* POST /admin/reload
AdminReload(a) == Call(a, "reload", {}) /\ UNCHANGED <<writes, whole>>

\* GET /admin/config/export
Export(a) == Call(a, "export", {}) /\ UNCHANGED <<writes, whole>>

\* markProviderKeySuccess, markProviderKeyFailure, or the charge of a request
RequestCommit(h, ts) == Call(h, "refresh", ts) /\ Counted(ts)

AdminCommit(a, ts) == Call(a, "refresh", ts) /\ Counted(ts)

\* one List statement
ReadTable(w) ==
  /\ pc[w] # "idle" /\ read[w] < Len(Order)
  /\ LET t == Order[read[w] + 1] IN view' = [view EXCEPT ![w][t] = db[t]]
  /\ read' = [read EXCEPT ![w] = @ + 1]
  /\ UNCHANGED <<db, snapshot, pc, writes, whole, errors, began, byAdmin>>

\* back in the caller: the ticker logs an error and waits for the next tick, a
\* request and an admin write ignore it, POST /admin/reload and the export answer 500
Return(w) ==
  /\ pc' = [pc EXCEPT ![w] = "idle"]
  /\ view' = [view EXCEPT ![w] = Nothing]
  /\ read' = [read EXCEPT ![w] = 0]
  /\ began' = [began EXCEPT ![w] = Nothing]

\* a List statement fails, and its caller returns the error
ReadFails(w) ==
  /\ pc[w] # "idle" /\ read[w] < Len(Order)
  /\ errors < MaxErrors
  /\ errors' = errors + 1
  /\ Return(w)
  /\ UNCHANGED <<db, snapshot, writes, whole, byAdmin>>

\* atomicSnapshot.Set; POST /admin/reload answers 200
Publish(w) ==
  /\ pc[w] \in {"refresh", "reload"} /\ read[w] = Len(Order)
  /\ snapshot' = view[w]
  /\ byAdmin' = (pc[w] = "reload")
  /\ Return(w)
  /\ UNCHANGED <<db, writes, whole, errors>>

\* the export answers 200 with what it has read
AnswerExport(w) ==
  /\ pc[w] = "export" /\ read[w] = Len(Order)
  /\ Return(w)
  /\ UNCHANGED <<db, snapshot, writes, whole, errors, byAdmin>>

\* a crash and a restart: NewServer reloads before it serves
Restart ==
  /\ MayCrash
  /\ snapshot' = db
  /\ pc' = [w \in Workers |-> "idle"]
  /\ view' = [w \in Workers |-> Nothing]
  /\ read' = [w \in Workers |-> 0]
  /\ began' = [w \in Workers |-> Nothing]
  /\ byAdmin' = FALSE
  /\ UNCHANGED <<db, writes, whole, errors>>

Next ==
  \/ Tick
  \/ \E h \in Handlers, ts \in RequestCommits : RequestCommit(h, ts)
  \/ \E a \in Admins : AdminReload(a) \/ Export(a) \/ \E ts \in AdminCommits : AdminCommit(a, ts)
  \/ \E w \in Workers : ReadTable(w) \/ ReadFails(w) \/ Publish(w) \/ AnswerExport(w)
  \/ Restart

(***************************************************************************)
(* Fairness: time.Ticker keeps ticking and its goroutine keeps receiving,  *)
(* and a reload it has begun goes on, because every statement of the store *)
(* returns and atomicSnapshot.Set never blocks.  Nothing is assumed of     *)
(* clients and administrators, whose reloads may stay unfinished for ever. *)
(***************************************************************************)
Fairness == WF_vars(Tick) /\ WF_vars(ReadTable(Loop) \/ Publish(Loop))

Spec == Init /\ [][Next]_vars /\ Fairness

-----------------------------------------------------------------------------
\* Type invariant.
TypeOK ==
  /\ db \in [Tables -> Nat] /\ snapshot \in [Tables -> Nat]
  /\ pc \in [Workers -> {"idle", "refresh", "reload", "export"}]
  /\ view \in [Workers -> [Tables -> Nat]]
  /\ read \in [Workers -> 0 .. Len(Order)]
  /\ writes \in Nat /\ errors \in Nat
  /\ whole \subseteq Tables \X Nat \X Tables \X Nat
  /\ began \in [Workers -> [Tables -> Nat]] /\ byAdmin \in BOOLEAN

\* A reload publishes, of every table, something between what it held when the
\* reload was called and what it holds now: an admin write is in the snapshot its
\* own reload publishes, and without concurrent writes the snapshot is the store.
PublishedIsRecent ==
  [][\A w \in Workers :
       Publish(w) => \A t \in Tables : /\ began[w][t] <= snapshot'[t]
                                      /\ snapshot'[t] <= db[t]]_vars

\* What a reload or an export has of a transaction is never only its second half,
\* although nothing holds the tables still: content without a deleted provider is
\* without its keys, and content with imported rules has the imported schedules.
\* (The other half may be missing: old rules with new schedules do occur.)
NeverOnlySecondHalf ==
  \A v \in {snapshot} \cup {view[w] : w \in {u \in Workers : read[u] = Len(Order)}},
     e \in whole :
    v[e[1]] >= e[2] => v[e[3]] >= e[4]

\* Once the writes stop and the store answers, the snapshot becomes the store and
\* stays it, although reloads publish out of order.
Converges == <>[](snapshot = db)

\* "admin can trigger immediate reload via API": what POST /admin/reload has put in
\* the snapshot is not replaced by older content.
ImmediateReload ==
  [][byAdmin => \A t \in Tables : snapshot[t] <= snapshot'[t]]_vars
=============================================================================
