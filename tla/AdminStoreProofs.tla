--------------------------- MODULE AdminStoreProofs ---------------------------
(***************************************************************************)
(* Proofs about AdminStore, for any goroutines, accounts, tokens, names    *)
(* and seeds.  The argument: what a credential stands for now is always    *)
(* among what its request remembers, so a role that was asked for and an   *)
(* actor that is looked up are remembered ones; and no change of the       *)
(* accounts removes one or touches its token.                              *)
(***************************************************************************)
EXTENDS AdminStore, FiniteSetTheorems, TLAPS

\* the roles that may make the change of an operation
Allowed(op) ==
  CASE op = "own" -> {"owner"}
    [] op = "manage" -> {"owner", "admin"}
    [] OTHER -> {"owner", "admin", "viewer"}

Past == [account : {Nobody, ByConfig} \cup Ids, role : Roles \cup {"none"}]

\* What the store of accounts holds is well-formed.
UsersOK == users \in [Ids -> Row \cup {NoRow}] /\ minted \in 0 .. MaxTokens

\* A request under way remembers what its credential stands for now.
Current ==
  \A h \in Handlers : pc[h] \in {"role", "write", "audit"} =>
    Standing(req[h].cred, keySet, users) \in was[h]

\* A request about to be asked for its role is one of those that are.
Asked == \A h \in Handlers : pc[h] = "role" => req[h].op \in {"manage", "own"}

\* A request about to make its change remembers a role that allows it.
Admitted ==
  \A h \in Handlers : pc[h] = "write" =>
    \E s \in was[h] : s.role \in Allowed(req[h].op)

\* A login writes to an account.
LoginsSound ==
  \A h \in Handlers : pc[h] = "login" => req[h].id \in Ids /\ Live(req[h].id)

\* No request survives its process.
DownIsIdle == ~Serving => \A h \in Handlers : pc[h] = "idle"

AdminInv ==
  /\ TypeOK /\ Current /\ Asked /\ Admitted /\ LoginsSound /\ DownIsIdle
  /\ RefusedForCause

-----------------------------------------------------------------------------
(* Rows and credentials *)

\* An id without an account is told from every account.
LEMMA NoRowIsNoRow == NoRow \notin Row
  BY DEF NoRow, Row, Roles

\* The components of an account.
LEMMA RowFields ==
  ASSUME NEW r \in Row
  PROVE  /\ r.name \in Names /\ r.role \in Roles
         /\ r.enabled \in BOOLEAN /\ r.token \in 1 .. MaxTokens
  BY DEF Row

\* A live id holds a row.
LEMMA LiveIsRow ==
  ASSUME UsersOK, NEW id \in Ids
  PROVE  Live(id) <=> users[id] \in Row
  BY NoRowIsNoRow DEF UsersOK, Live

\* What a credential stands for is an account and a role.
LEMMA StandingType ==
  ASSUME NEW c, NEW k \in BOOLEAN, NEW u \in [Ids -> Row \cup {NoRow}]
  PROVE  Standing(c, k, u) \in Past
<1> DEFINE found == {id \in Ids : u[id] # NoRow /\ u[id].enabled /\ u[id].token = c}
<1>1. CASE k /\ c = Key
  BY <1>1 DEF Standing, Past, Roles
<1>2. CASE ~(k /\ c = Key) /\ found = {}
  BY <1>2 DEF Standing, Past, Unverified
<1>3. CASE ~(k /\ c = Key) /\ found # {}
  <2> DEFINE id == CHOOSE i \in found : TRUE
  <2>1. id \in found
    BY <1>3
  <2>2. id \in Ids /\ u[id] \in Row
    BY <2>1
  <2>3. Standing(c, k, u) = [account |-> id, role |-> u[id].role]
    BY <1>3 DEF Standing
  <2> HIDE DEF id
  <2>4. QED
    BY <2>2, <2>3, RowFields DEF Past
<1>4. QED
  BY <1>1, <1>2, <1>3

\* adminRole and adminActor are the two halves of what a credential stands for.
LEMMA StandingIsLookup ==
  ASSUME NEW c
  PROVE  /\ Standing(c, keySet, users).role = AdminRole(c)
         /\ Standing(c, keySet, users).account = AdminActor(c)
<1> DEFINE found == {id \in Ids : users[id] # NoRow /\ users[id].enabled /\ users[id].token = c}
<1>1. found = Verified(c)
  BY DEF Verified, Live
<1>2. CASE ByKey(c)
  BY <1>2 DEF ByKey, Standing, AdminRole, AdminActor
<1>3. CASE ~ByKey(c) /\ found = {}
  BY <1>1, <1>3 DEF ByKey, Standing, AdminRole, AdminActor, Unverified
<1>4. CASE ~ByKey(c) /\ found # {}
  <2> DEFINE id == CHOOSE i \in found : TRUE
  <2>1. Standing(c, keySet, users) = [account |-> id, role |-> users[id].role]
    BY <1>4 DEF Standing, ByKey
  <2>2. AdminRole(c) = users[id].role /\ AdminActor(c) = id
    BY <1>1, <1>4 DEF AdminRole, AdminActor
  <2> HIDE DEF id
  <2>3. QED
    BY <2>1, <2>2
<1>5. QED
  BY <1>2, <1>3, <1>4

\* Whoever passes requireAdmin has a role.
LEMMA AdmittedHasRole ==
  ASSUME UsersOK, NEW c, ByKey(c) \/ Verified(c) # {}
  PROVE  AdminRole(c) \in Roles
<1>1. CASE ByKey(c)
  BY <1>1 DEF AdminRole, Roles
<1>2. CASE ~ByKey(c) /\ Verified(c) # {}
  <2> DEFINE id == CHOOSE i \in Verified(c) : TRUE
  <2>1. id \in Verified(c) /\ AdminRole(c) = users[id].role
    BY <1>2 DEF AdminRole
  <2> HIDE DEF id
  <2>2. id \in Ids /\ Live(id)
    BY <2>1 DEF Verified
  <2>3. users[id] \in Row
    BY <2>2, LiveIsRow
  <2>4. QED
    BY <2>1, <2>3, RowFields
<1>3. QED
  BY <1>1, <1>2

-----------------------------------------------------------------------------
(* Changes of the accounts *)

\* What every change of the accounts leaves alone: each is still there, with its
\* token.
KeepsAccounts ==
  \A id \in Ids : Live(id) => users'[id] \in Row /\ users'[id].token = users[id].token

\* The role that is stored is one of the three.
LEMMA NormalizedIsRole == \A r : NormalizeRole(r) \in Roles
  BY DEF NormalizeRole, Roles

\* A new account is put where there is none.
LEMMA NewAccountSound ==
  ASSUME UsersOK, AdminAssumption, NEW id \in Ids, NEW n \in Names, NEW r \in Roles,
         NewAccount(id, n, r)
  PROVE  /\ UsersOK' /\ KeepsAccounts
         /\ \A i \in Ids : Live(i) => users'[i] = users[i]
         /\ users'[id].name = n /\ users'[id].role = r /\ users'[id].enabled
<1> DEFINE row == [name |-> n, role |-> r, enabled |-> TRUE, token |-> minted + 1]
<1>1. minted + 1 \in 1 .. MaxTokens
  BY DEF UsersOK, NewAccount, AdminAssumption
<1>2. row \in Row /\ row.name = n /\ row.role = r /\ row.enabled
  BY <1>1 DEF Row
<1>3. ~Live(id) /\ users' = [users EXCEPT ![id] = row] /\ minted' = minted + 1
  BY DEF NewAccount
<1> HIDE DEF row
<1>4. \A i \in Ids : Live(i) => users'[i] = users[i] /\ users[i] \in Row
  BY <1>3, LiveIsRow DEF UsersOK
<1>5. users'[id] = row
  BY <1>3 DEF UsersOK
<1>6. UsersOK'
  BY <1>1, <1>2, <1>3 DEF UsersOK, AdminAssumption
<1>7. QED
  BY <1>2, <1>4, <1>5, <1>6 DEF KeepsAccounts

\* An upsert by name finds the account of that name or makes one; either way the
\* name ends up enabled and with the role.
LEMMA CreateByNameSound ==
  ASSUME UsersOK, AdminAssumption, NEW n \in Names, NEW r \in Roles, CreateByName(n, r)
  PROVE  /\ UsersOK' /\ KeepsAccounts
         /\ \A i \in Ids : Live(i) /\ users[i].name # n => users'[i] = users[i]
         /\ \E i \in Ids : users'[i].name = n /\ users'[i].role = r /\ users'[i].enabled
<1>1. ASSUME NEW id \in Named(n),
             users' = [users EXCEPT ![id].role = r, ![id].enabled = TRUE],
             UNCHANGED minted, Live(id)
      PROVE  /\ UsersOK' /\ KeepsAccounts
             /\ \A i \in Ids : Live(i) /\ users[i].name # n => users'[i] = users[i]
             /\ \E i \in Ids : users'[i].name = n /\ users'[i].role = r /\ users'[i].enabled
  <2> DEFINE row == [users[id] EXCEPT !.role = r, !.enabled = TRUE]
  <2>1. id \in Ids /\ users[id].name = n
    BY DEF Named
  <2>2. users[id] \in Row
    BY <1>1, <2>1, LiveIsRow
  <2>3. /\ row \in Row /\ row.name = n /\ row.role = r /\ row.enabled
        /\ row.token = users[id].token
    BY <2>1, <2>2 DEF Row
  <2>4. users' = [users EXCEPT ![id] = row]
    BY <1>1, <2>1 DEF UsersOK
  <2> HIDE DEF row
  <2>5. users'[id] = row /\ \A i \in Ids : i # id => users'[i] = users[i]
    BY <2>1, <2>4 DEF UsersOK
  <2>6. KeepsAccounts
    BY <2>3, <2>5, LiveIsRow DEF KeepsAccounts
  <2>7. UsersOK'
    BY <1>1, <2>3, <2>4 DEF UsersOK
  <2>8. QED
    BY <2>1, <2>3, <2>5, <2>6, <2>7
<1>2. CASE \E id \in Named(n) :
             /\ users' = [users EXCEPT ![id].role = r, ![id].enabled = TRUE]
             /\ UNCHANGED minted
  <2>1. PICK id \in Named(n) :
           /\ users' = [users EXCEPT ![id].role = r, ![id].enabled = TRUE]
           /\ UNCHANGED minted
    BY <1>2
  <2>2. Live(id)
    BY DEF Named
  <2>3. QED
    BY <1>1, <2>1, <2>2
<1>3. CASE \E id \in Ids : NewAccount(id, n, r)
  <2>1. PICK id \in Ids : NewAccount(id, n, r)
    BY <1>3
  <2>2. QED
    BY <2>1, NewAccountSound
<1>4. QED
  BY <1>2, <1>3 DEF CreateByName

\* An owner's change of the accounts.
LEMMA OwnChangeSound ==
  ASSUME UsersOK, AdminAssumption, OwnChange
  PROVE  UsersOK' /\ KeepsAccounts
<1>1. ASSUME NEW id \in Ids, NEW n \in Names, NEW r \in RoleTexts, NEW e \in BOOLEAN,
             UpdateByID(id, n, r, e)
      PROVE  UsersOK' /\ KeepsAccounts
  <2> DEFINE row == [name |-> n, role |-> NormalizeRole(r), enabled |-> e,
                     token |-> users[id].token]
  <2>1. users[id] \in Row
    BY <1>1, LiveIsRow DEF UpdateByID
  <2>2. row \in Row /\ row.token = users[id].token
    BY <2>1, RowFields, NormalizedIsRole DEF Row
  <2>3. users' = [users EXCEPT ![id] = row] /\ minted' = minted
    BY <1>1 DEF UpdateByID
  <2> HIDE DEF row
  <2>4. users'[id] = row /\ \A i \in Ids : i # id => users'[i] = users[i]
    BY <2>3 DEF UsersOK
  <2>5. QED
    BY <2>2, <2>3, <2>4, LiveIsRow DEF UsersOK, KeepsAccounts
<1>2. ASSUME NEW n \in Names, NEW r \in RoleTexts, CreateByName(n, NormalizeRole(r))
      PROVE  UsersOK' /\ KeepsAccounts
  BY <1>2, NormalizedIsRole, CreateByNameSound
<1>3. ASSUME NEW id \in Ids, Disable(id)
      PROVE  UsersOK' /\ KeepsAccounts
  <2> DEFINE row == [users[id] EXCEPT !.enabled = FALSE]
  <2>1. users[id] \in Row
    BY <1>3, LiveIsRow DEF Disable
  <2>2. row \in Row /\ row.token = users[id].token
    BY <2>1 DEF Row
  <2>3. users' = [users EXCEPT ![id] = row] /\ minted' = minted
    BY <1>3 DEF Disable
  <2> HIDE DEF row
  <2>4. users'[id] = row /\ \A i \in Ids : i # id => users'[i] = users[i]
    BY <2>3 DEF UsersOK
  <2>5. QED
    BY <2>2, <2>3, <2>4, LiveIsRow DEF UsersOK, KeepsAccounts
<1>4. CASE UNCHANGED <<users, minted>>
  BY <1>4, LiveIsRow DEF UsersOK, KeepsAccounts
<1>5. QED
  BY <1>1, <1>2, <1>3, <1>4 DEF OwnChange

\* A login changes the token of the account it has read, and nothing else.
LEMMA LoginSound ==
  ASSUME UsersOK, AdminAssumption, NEW h \in Handlers,
         req[h].id \in Ids, Live(req[h].id), LoginWrite(h)
  PROVE  /\ UsersOK'
         /\ \A i \in Ids : i # req[h].id => users'[i] = users[i]
         /\ users'[req[h].id] \in Row
         /\ [users'[req[h].id] EXCEPT !.token = 0] = [users[req[h].id] EXCEPT !.token = 0]
<1> DEFINE id == req[h].id
           row == [users[id] EXCEPT !.token = minted + 1]
<1>1. users[id] \in Row
  BY LiveIsRow
<1>2. minted + 1 \in 1 .. MaxTokens /\ minted' = minted + 1
  BY DEF LoginWrite, Login, UsersOK, AdminAssumption
<1>3. row \in Row /\ [row EXCEPT !.token = 0] = [users[id] EXCEPT !.token = 0]
  BY <1>1, <1>2 DEF Row
<1>4. users' = [users EXCEPT ![id] = row]
  BY DEF LoginWrite, Login, UsersOK
<1> HIDE DEF row
<1>5. users'[id] = row /\ \A i \in Ids : i # id => users'[i] = users[i]
  BY <1>4 DEF UsersOK
<1>6. UsersOK'
  BY <1>2, <1>3, <1>4 DEF UsersOK, AdminAssumption
<1>7. QED
  BY <1>3, <1>5, <1>6

-----------------------------------------------------------------------------
(* One step of one request *)

Labels == {"idle", "role", "write", "audit", "login"}
Requests == [cred : {Nobody, Key} \cup 1 .. MaxTokens, op : Ops \cup {"none"},
             id : {0} \cup Ids, row : Row \cup {NoRow}]

\* Remember adds what the credential of each request under way stands for.
LEMMA RememberSound ==
  ASSUME was \in [Handlers -> SUBSET Past], keySet' \in BOOLEAN, UsersOK', Remember
  PROVE  /\ was' \in [Handlers -> SUBSET Past] /\ Current'
         /\ \A h \in Handlers : pc'[h] \in {"role", "write", "audit"} =>
              was'[h] = was[h] \cup {Standing(req'[h].cred, keySet', users')}
<1>1. \A h \in Handlers : Standing(req'[h].cred, keySet', users') \in Past
  BY StandingType DEF UsersOK
<1>2. \A h \in Handlers : pc'[h] \in {"role", "write", "audit"} =>
        was'[h] = was[h] \cup {Standing(req'[h].cred, keySet', users')}
  BY DEF Remember
<1>3. was' \in [Handlers -> SUBSET Past]
  BY <1>1 DEF Remember
<1>4. Current'
  BY <1>2 DEF Current
<1>5. QED
  BY <1>2, <1>3, <1>4

\* A step of one request keeps the invariant if the next label is justified: a role
\* is asked of requests that need one, a change is made for a role it remembers, a
\* login has read an account; and if no account is lost.
LEMMA RequestStep ==
  ASSUME AdminInv, Serving, NEW h \in Handlers, NEW at \in Labels, NEW rq \in Requests,
         pc' = [pc EXCEPT ![h] = at], req' = [req EXCEPT ![h] = rq],
         UNCHANGED <<status, keySet>>, UsersOK',
         \A id \in Ids : Live(id) => users'[id] \in Row,
         providers' \subseteq Providers, taken' \subseteq SeedRows,
         audit' \in {Nobody, ByConfig} \cup Ids, writes' \in 0 .. MaxWrites, owed' \in Int,
         Remember,
         at = "role" => rq.op \in {"manage", "own"},
         at = "write" => \E s \in was[h] \cup {Standing(rq.cred, keySet', users')} :
                            s.role \in Allowed(rq.op),
         at = "login" => rq.id \in Ids /\ Live(rq.id)
  PROVE  AdminInv'
<1>1. /\ pc' \in [Handlers -> Labels] /\ req' \in [Handlers -> Requests]
      /\ pc'[h] = at /\ req'[h] = rq
      /\ \A g \in Handlers \ {h} : pc'[g] = pc[g] /\ req'[g] = req[g]
  BY DEF AdminInv, TypeOK, Labels, Requests
<1>2. was \in [Handlers -> SUBSET Past] /\ keySet' \in BOOLEAN
  BY DEF AdminInv, TypeOK, Past
<1>3. /\ was' \in [Handlers -> SUBSET Past] /\ Current'
      /\ \A g \in Handlers : pc'[g] \in {"role", "write", "audit"} =>
           was'[g] = was[g] \cup {Standing(req'[g].cred, keySet', users')}
  BY <1>2, RememberSound
<1>4. TypeOK'
  BY <1>1, <1>2, <1>3 DEF AdminInv, TypeOK, UsersOK, Labels, Requests, Past
<1>5. Asked'
  BY <1>1 DEF AdminInv, Asked
<1>6. Admitted'
  <2> SUFFICES ASSUME NEW g \in Handlers, pc'[g] = "write"
               PROVE  \E s \in was'[g] : s.role \in Allowed(req'[g].op)
    BY DEF Admitted, Allowed
  <2>1. was'[g] = was[g] \cup {Standing(req'[g].cred, keySet', users')}
    BY <1>3
  <2>2. CASE g = h
    BY <1>1, <2>1, <2>2
  <2>3. CASE g # h
    <3>1. pc[g] = "write" /\ req'[g] = req[g]
      BY <1>1, <2>3
    <3>2. QED
      BY <2>1, <3>1 DEF AdminInv, Admitted
  <2>4. QED
    BY <2>2, <2>3
<1>7. LoginsSound'
  BY <1>1, NoRowIsNoRow DEF AdminInv, LoginsSound, Live
<1>8. DownIsIdle' /\ RefusedForCause'
  BY DEF Serving, DownIsIdle, RefusedForCause
<1>9. QED
  BY <1>3, <1>4, <1>5, <1>6, <1>7, <1>8 DEF AdminInv

-----------------------------------------------------------------------------
(* Every action keeps the invariant *)

\* Nothing of the accounts changes, so none is lost.
LEMMA SameAccounts ==
  ASSUME AdminInv, UNCHANGED <<users, minted>>
  PROVE  /\ UsersOK' /\ KeepsAccounts
         /\ \A id \in Ids : Live(id) => users'[id] \in Row
  BY LiveIsRow DEF AdminInv, TypeOK, UsersOK, KeepsAccounts

\* A request that is finished or goes on keeps its shape.
LEMMA NextRequest ==
  ASSUME AdminInv, NEW h \in Handlers, NEW at \in Labels, Finish(h, at)
  PROVE  \E rq \in Requests : /\ req' = [req EXCEPT ![h] = rq]
                              /\ at # "idle" => rq = req[h]
<1> DEFINE rq == IF at = "idle" THEN NoRequest ELSE req[h]
<1>1. NoRequest \in Requests
  BY DEF NoRequest, Requests
<1>2. req[h] \in Requests
  BY DEF AdminInv, TypeOK, Requests
<1>3. req' = [req EXCEPT ![h] = rq]
  BY DEF Finish, AdminInv, TypeOK
<1>4. QED
  BY <1>1, <1>2, <1>3

\* Only a process that serves has requests under way.
LEMMA BusyServes ==
  ASSUME AdminInv, NEW h \in Handlers, pc[h] # "idle"
  PROVE  Serving
  BY DEF AdminInv, DownIsIdle

LEMMA BeginKeepsInv ==
  ASSUME AdminInv, AdminAssumption, NEW h \in Handlers, NEW c \in {Key} \cup 1 .. minted,
         BeginTopup(h, c) \/ \E op \in Ops : Begin(h, c, op)
  PROVE  AdminInv'
<1>1. c \in {Key} \cup 1 .. MaxTokens
  BY DEF AdminInv, TypeOK, AdminAssumption
<1>2. /\ users' = users /\ UsersOK /\ keySet' = keySet
      /\ Standing(c, keySet', users') = Standing(c, keySet, users)
  BY DEF Begin, BeginTopup, AdminInv, TypeOK, UsersOK
<1>3. UsersOK' /\ \A id \in Ids : Live(id) => users'[id] \in Row
  BY SameAccounts DEF Begin, BeginTopup
<1>4. ASSUME NEW op \in Ops PROVE [NoRequest EXCEPT !.cred = c, !.op = op] \in Requests
  BY <1>1 DEF NoRequest, Requests
<1>5. ASSUME BeginTopup(h, c) PROVE AdminInv'
  <2> DEFINE rq == [NoRequest EXCEPT !.cred = c, !.op = "manage"]
  <2>1. rq \in Requests /\ rq.op = "manage"
    BY <1>4 DEF Ops, NoRequest
  <2>2. pc' = [pc EXCEPT ![h] = "role"] /\ req' = [req EXCEPT ![h] = rq]
    BY <1>5 DEF BeginTopup
  <2> HIDE DEF rq
  <2>3. QED
    BY <1>3, <1>5, <2>1, <2>2, RequestStep DEF BeginTopup, Labels, AdminInv, TypeOK
<1>6. ASSUME NEW op \in Ops, Begin(h, c, op) PROVE AdminInv'
  <2> DEFINE rq == [NoRequest EXCEPT !.cred = c, !.op = op]
             at == IF op = "config" THEN "write" ELSE "role"
  <2>1. rq \in Requests /\ rq.op = op /\ rq.cred = c
    BY <1>4 DEF NoRequest
  <2>2. pc' = [pc EXCEPT ![h] = at] /\ req' = [req EXCEPT ![h] = rq] /\ at \in Labels
    BY <1>6 DEF Begin, Labels
  <2>3. at = "role" => rq.op \in {"manage", "own"}
    BY <2>1 DEF Ops
  <2>4. at = "write" => \E s \in was[h] \cup {Standing(rq.cred, keySet', users')} :
                            s.role \in Allowed(rq.op)
    <3>1. Standing(c, keySet', users').role \in Roles
      <4>1. ByKey(c) \/ Verified(c) # {}
        BY <1>6 DEF Begin
      <4>2. AdminRole(c) \in Roles
        BY <1>2, <4>1, AdmittedHasRole
      <4>3. QED
        BY <1>2, <4>2, StandingIsLookup
    <3>2. op = "config" => Allowed(op) = Roles
      BY DEF Allowed, Roles
    <3>3. QED
      BY <2>1, <3>1, <3>2
  <2>5. at # "login"
    OBVIOUS
  <2>6. /\ Serving /\ UNCHANGED <<status, keySet, providers, taken, audit, writes, owed>>
        /\ Remember
    BY <1>6 DEF Begin
  <2>7. /\ providers' \subseteq Providers /\ taken' \subseteq SeedRows
        /\ audit' \in {Nobody, ByConfig} \cup Ids /\ writes' \in 0 .. MaxWrites
        /\ owed' \in Int
    BY <2>6 DEF AdminInv, TypeOK
  <2> HIDE DEF rq, at
  <2>8. QED
    BY <1>3, <2>1, <2>2, <2>3, <2>4, <2>5, <2>6, <2>7, RequestStep
<1>7. QED
  BY <1>5, <1>6

LEMMA CheckRoleKeepsInv ==
  ASSUME AdminInv, AdminAssumption, NEW h \in Handlers, CheckRole(h)
  PROVE  AdminInv'
<1> DEFINE c  == req[h].cred
           at == IF AdminRole(c) \in Required(req[h].op) THEN "write" ELSE "idle"
<1>1. at \in Labels /\ at \notin {"role", "login"}
  BY DEF Labels
<1>2. Finish(h, at) /\ pc' = [pc EXCEPT ![h] = at]
  BY DEF CheckRole, Finish
<1>3. PICK rq \in Requests : req' = [req EXCEPT ![h] = rq] /\ (at # "idle" => rq = req[h])
  BY <1>1, <1>2, NextRequest
<1>4. Serving
  BY BusyServes DEF CheckRole
<1>5. UsersOK' /\ \A id \in Ids : Live(id) => users'[id] \in Row
  BY SameAccounts DEF CheckRole
<1>6. at = "write" => \E s \in was[h] \cup {Standing(rq.cred, keySet', users')} :
                          s.role \in Allowed(rq.op)
  <2> SUFFICES ASSUME at = "write"
               PROVE  Standing(rq.cred, keySet', users').role \in Allowed(rq.op)
    OBVIOUS
  <2>1. rq = req[h] /\ AdminRole(c) \in Required(req[h].op)
    BY <1>3
  <2>2. Standing(c, keySet', users').role = AdminRole(c)
    BY StandingIsLookup DEF CheckRole
  <2>3. req[h].op \in {"manage", "own"}
    BY DEF CheckRole, AdminInv, Asked
  <2>4. Required(req[h].op) = Allowed(req[h].op)
    BY <2>3 DEF Required, Allowed
  <2>5. QED
    BY <2>1, <2>2, <2>4
<1> HIDE DEF at
<1>7. QED
  BY <1>1, <1>2, <1>3, <1>4, <1>5, <1>6, RequestStep DEF CheckRole, AdminInv, TypeOK

\* A request that goes on to the audit or ends needs no justification.
LEMMA EndingStep ==
  ASSUME AdminInv, NEW h \in Handlers, pc[h] # "idle", NEW at \in {"idle", "audit"},
         Finish(h, at), UNCHANGED <<status, keySet>>, UsersOK',
         \A id \in Ids : Live(id) => users'[id] \in Row,
         providers' \subseteq Providers, taken' \subseteq SeedRows,
         audit' \in {Nobody, ByConfig} \cup Ids, writes' \in 0 .. MaxWrites, owed' \in Int,
         Remember
  PROVE  AdminInv'
<1>1. Serving
  BY BusyServes
<1>2. at \in Labels /\ at \notin {"role", "write", "login"}
  BY DEF Labels
<1>3. PICK rq \in Requests : req' = [req EXCEPT ![h] = rq]
  BY <1>2, NextRequest
<1>4. pc' = [pc EXCEPT ![h] = at]
  BY DEF Finish
<1>5. QED
  BY <1>1, <1>2, <1>3, <1>4, RequestStep

\* A change of the configuration, or of tenants, prices and balances, or of accounts.
LEMMA WriteKeepsInv ==
  ASSUME AdminInv, AdminAssumption, NEW h \in Handlers,
         WriteConfig(h) \/ WriteManage(h) \/ WriteOwn(h)
  PROVE  AdminInv'
<1>1. /\ pc[h] # "idle" /\ UNCHANGED <<status, keySet, audit>> /\ writes' = writes + 1
      /\ writes < MaxWrites /\ Remember
  BY DEF WriteConfig, WriteManage, WriteOwn, Commit
<1>2. /\ audit' \in {Nobody, ByConfig} \cup Ids /\ writes' \in 0 .. MaxWrites
      /\ providers \subseteq Providers /\ taken \subseteq SeedRows /\ owed \in Int
  BY <1>1 DEF AdminInv, TypeOK, AdminAssumption
<1>3. ASSUME WriteConfig(h) PROVE AdminInv'
  <2>1. Finish(h, "idle") /\ UNCHANGED <<users, minted, owed>>
    BY <1>3 DEF WriteConfig, Commit
  <2>2. providers' \subseteq Providers /\ taken' \subseteq SeedRows
    BY <1>2, <1>3 DEF WriteConfig, ProviderChange, RowChange
  <2>3. UsersOK' /\ \A id \in Ids : Live(id) => users'[id] \in Row
    BY <2>1, SameAccounts
  <2>4. owed' \in Int
    BY <1>2, <2>1
  <2>5. QED
    BY <1>1, <1>2, <2>1, <2>2, <2>3, <2>4, EndingStep
<1>4. ASSUME WriteManage(h) \/ WriteOwn(h) PROVE AdminInv'
  <2>1. Finish(h, "audit") /\ UNCHANGED <<providers, taken>> /\ owed' = owed + 1
    BY <1>4 DEF WriteManage, WriteOwn, Commit
  <2>2. UsersOK' /\ \A id \in Ids : Live(id) => users'[id] \in Row
    <3>1. CASE WriteManage(h)
      BY <3>1, SameAccounts DEF WriteManage
    <3>2. CASE WriteOwn(h)
      <4>1. OwnChange /\ UsersOK
        BY <3>2 DEF WriteOwn, AdminInv, TypeOK, UsersOK
      <4>2. QED
        BY <4>1, OwnChangeSound DEF KeepsAccounts
    <3>3. QED
      BY <1>4, <3>1, <3>2
  <2>3. owed' \in Int /\ providers' \subseteq Providers /\ taken' \subseteq SeedRows
    BY <1>2, <2>1
  <2>4. QED
    BY <1>1, <1>2, <2>1, <2>2, <2>3, EndingStep
<1>5. QED
  BY <1>3, <1>4

\* A change that fails, an audit entry written or lost, a login that fails.
LEMMA EndKeepsInv ==
  ASSUME AdminInv, NEW h \in Handlers, WriteFails(h) \/ AddAudit(h) \/ LoginFails(h)
  PROVE  AdminInv'
<1>1. /\ pc[h] # "idle" /\ Finish(h, "idle") /\ Remember
      /\ UNCHANGED <<status, keySet, users, minted, providers, taken, writes>>
  BY DEF WriteFails, AddAudit, LoginFails
<1>2. UsersOK' /\ \A id \in Ids : Live(id) => users'[id] \in Row
  BY <1>1, SameAccounts
<1>3. /\ providers' \subseteq Providers /\ taken' \subseteq SeedRows
      /\ writes' \in 0 .. MaxWrites
  BY <1>1 DEF AdminInv, TypeOK
<1>4. owed' \in Int /\ (audit' = audit \/ audit' = AdminActor(req[h].cred))
  BY DEF WriteFails, AddAudit, LoginFails, AdminInv, TypeOK
<1>5. AdminActor(req[h].cred) \in {Nobody, ByConfig} \cup Ids
  BY DEF AdminActor, Verified
<1>6. audit' \in {Nobody, ByConfig} \cup Ids
  BY <1>4, <1>5 DEF AdminInv, TypeOK
<1>7. QED
  BY <1>1, <1>2, <1>3, <1>4, <1>6, EndingStep

LEMMA LoginReadKeepsInv ==
  ASSUME AdminInv, AdminAssumption, NEW h \in Handlers, NEW id \in Ids, LoginRead(h, id)
  PROVE  AdminInv'
<1> DEFINE rq == [NoRequest EXCEPT !.id = id, !.row = users[id]]
<1>1. users[id] \in Row \cup {NoRow} /\ Live(id)
  BY DEF LoginRead, AdminInv, TypeOK
<1>2. rq \in Requests /\ rq.id = id
  BY <1>1 DEF NoRequest, Requests
<1>3. /\ Serving /\ pc' = [pc EXCEPT ![h] = "login"] /\ req' = [req EXCEPT ![h] = rq]
      /\ UNCHANGED <<status, keySet, users, minted, providers, taken, audit, writes, owed>>
      /\ Remember
  BY DEF LoginRead
<1> HIDE DEF rq
<1>4. UsersOK' /\ \A i \in Ids : Live(i) => users'[i] \in Row
  BY <1>3, SameAccounts
<1>5. /\ providers' \subseteq Providers /\ taken' \subseteq SeedRows
      /\ audit' \in {Nobody, ByConfig} \cup Ids /\ writes' \in 0 .. MaxWrites
      /\ owed' \in Int
  BY <1>3 DEF AdminInv, TypeOK
<1>6. "login" \in Labels
  BY DEF Labels
<1>7. QED
  BY <1>1, <1>2, <1>3, <1>4, <1>5, <1>6, RequestStep

LEMMA LoginWriteKeepsInv ==
  ASSUME AdminInv, AdminAssumption, NEW h \in Handlers, LoginWrite(h)
  PROVE  AdminInv'
<1>1. pc[h] = "login" /\ req[h].id \in Ids /\ Live(req[h].id) /\ UsersOK
  BY DEF LoginWrite, Login, AdminInv, LoginsSound, TypeOK, UsersOK
<1>2. UsersOK' /\ \A i \in Ids : Live(i) => users'[i] \in Row
  BY <1>1, LoginSound, LiveIsRow
<1>3. /\ Finish(h, "idle") /\ Remember
      /\ UNCHANGED <<status, keySet, providers, taken, audit, writes, owed>>
  BY DEF LoginWrite, Login
<1>4. /\ providers' \subseteq Providers /\ taken' \subseteq SeedRows
      /\ audit' \in {Nobody, ByConfig} \cup Ids /\ writes' \in 0 .. MaxWrites
      /\ owed' \in Int
  BY <1>3 DEF AdminInv, TypeOK
<1>5. QED
  BY <1>1, <1>2, <1>3, <1>4, EndingStep

\* No request is under way after a start or a crash.
LEMMA QuietSound ==
  ASSUME AdminInv, Quiet, keySet' \in BOOLEAN, UsersOK'
  PROVE  /\ pc' \in [Handlers -> {"idle"}] /\ req' \in [Handlers -> Requests]
         /\ was' \in [Handlers -> SUBSET Past]
         /\ Current' /\ Asked' /\ Admitted' /\ LoginsSound' /\ DownIsIdle'
<1>1. was \in [Handlers -> SUBSET Past]
  BY DEF AdminInv, TypeOK, Past
<1>2. was' \in [Handlers -> SUBSET Past] /\ Current'
  BY <1>1, RememberSound DEF Quiet
<1>3. pc' = [h \in Handlers |-> "idle"] /\ req' = [h \in Handlers |-> NoRequest]
  BY DEF Quiet
<1>4. NoRequest \in Requests
  BY DEF NoRequest, Requests
<1>5. QED
  BY <1>2, <1>3, <1>4 DEF Asked, Admitted, LoginsSound, DownIsIdle

LEMMA StartKeepsInv ==
  ASSUME AdminInv, AdminAssumption, Start
  PROVE  AdminInv'
<1>1. UsersOK
  BY DEF AdminInv, TypeOK, UsersOK
<1>2. /\ UsersOK' /\ providers' \subseteq Providers /\ taken' \subseteq SeedRows
      /\ status' \in {"down", "up", "refused"}
      /\ status' = "refused" => providers' = {} /\ taken' # {}
  <2>1. CASE UNCHANGED <<providers, taken, users, minted>>
    <3>1. UsersOK' /\ providers' \subseteq Providers /\ taken' \subseteq SeedRows
      BY <1>1, <2>1 DEF AdminInv, TypeOK, UsersOK
    <3>2. status' = "refused" => SeedWanted /\ Conflict
      BY DEF Start
    <3>3. QED
      BY <2>1, <3>1, <3>2 DEF Start, SeedWanted, Conflict
  <2>2. CASE status' = "up" /\ Seed
    <3>1. "owner" \in Roles /\ SeedAdmin \in Names
      BY AdminAssumption DEF Roles
    <3>2. UsersOK'
      BY <1>1, <2>2, <3>1, CreateByNameSound DEF Seed
    <3>3. QED
      BY <2>2, <3>2, AdminAssumption DEF Seed
  <2>3. QED
    BY <2>1, <2>2 DEF Start, SeedFails
<1>3. keySet' \in BOOLEAN /\ Quiet /\ UNCHANGED <<audit, writes, owed>>
  BY DEF Start
<1>4. /\ pc' \in [Handlers -> {"idle"}] /\ req' \in [Handlers -> Requests]
      /\ was' \in [Handlers -> SUBSET Past]
      /\ Current' /\ Asked' /\ Admitted' /\ LoginsSound' /\ DownIsIdle'
  BY <1>2, <1>3, QuietSound
<1>5. TypeOK'
  <2>1. /\ audit' \in {Nobody, ByConfig} \cup Ids /\ writes' \in 0 .. MaxWrites
        /\ owed' \in Int
    BY <1>3 DEF AdminInv, TypeOK
  <2>2. pc' \in [Handlers -> {"idle", "role", "write", "audit", "login"}]
    BY <1>4
  <2>3. QED
    BY <1>2, <1>3, <1>4, <2>1, <2>2 DEF TypeOK, UsersOK, Requests, Past
<1>6. QED
  BY <1>2, <1>4, <1>5 DEF AdminInv, RefusedForCause

LEMMA CrashKeepsInv ==
  ASSUME AdminInv, Crash
  PROVE  AdminInv'
<1>1. /\ status' = "down" /\ Quiet
      /\ UNCHANGED <<keySet, users, minted, providers, taken, audit, writes, owed>>
  BY DEF Crash
<1>2. UsersOK' /\ keySet' \in BOOLEAN
  BY <1>1 DEF AdminInv, TypeOK, UsersOK
<1>3. /\ pc' \in [Handlers -> {"idle"}] /\ req' \in [Handlers -> Requests]
      /\ was' \in [Handlers -> SUBSET Past]
      /\ Current' /\ Asked' /\ Admitted' /\ LoginsSound' /\ DownIsIdle'
  BY <1>1, <1>2, QuietSound
<1>4. TypeOK'
  <2>1. /\ audit' \in {Nobody, ByConfig} \cup Ids /\ writes' \in 0 .. MaxWrites
        /\ owed' \in Int /\ providers' \subseteq Providers /\ taken' \subseteq SeedRows
    BY <1>1 DEF AdminInv, TypeOK
  <2>2. pc' \in [Handlers -> {"idle", "role", "write", "audit", "login"}]
    BY <1>3
  <2>3. QED
    BY <1>1, <1>2, <1>3, <2>1, <2>2 DEF TypeOK, UsersOK, Requests, Past
<1>5. QED
  BY <1>1, <1>3, <1>4 DEF AdminInv, RefusedForCause

LEMMA InitInv ==
  ASSUME AdminAssumption, Init
  PROVE  AdminInv
<1>1. NoRequest \in Requests
  BY DEF NoRequest, Requests
<1>2. TypeOK
  <2>1. /\ users \in [Ids -> Row \cup {NoRow}]
        /\ minted \in 0 .. MaxTokens /\ writes \in 0 .. MaxWrites /\ owed \in Int
    BY AdminAssumption DEF Init
  <2>2. req \in [Handlers -> Requests]
    BY <1>1 DEF Init
  <2>3. was \in [Handlers -> SUBSET Past]
    BY DEF Init
  <2>4. status \in {"down", "up", "refused"} /\ keySet \in BOOLEAN
        /\ providers \subseteq Providers /\ taken \subseteq SeedRows
        /\ audit \in {Nobody, ByConfig} \cup Ids
    BY DEF Init
  <2>5. pc \in [Handlers -> {"idle", "role", "write", "audit", "login"}]
    BY DEF Init
  <2>6. QED
    BY <2>1, <2>2, <2>3, <2>4, <2>5 DEF TypeOK, Requests, Past
<1>3. QED
  BY <1>2 DEF Init, AdminInv, Current, Asked, Admitted, LoginsSound, DownIsIdle,
              RefusedForCause

-----------------------------------------------------------------------------
\* Every reachable state satisfies the inductive invariant: a request remembers what
\* it stands for and what it was admitted for, whatever happens to the accounts.
THEOREM InductiveInvariant == Spec => []AdminInv
<1>1. Init => AdminInv
  BY AdminAssumption, InitInv
<1>2. AdminInv /\ [Next]_vars => AdminInv'
  <2> SUFFICES ASSUME AdminInv, [Next]_vars PROVE AdminInv'
    OBVIOUS
  <2>1. CASE \E h \in Handlers, c \in {Key} \cup 1 .. minted :
               BeginTopup(h, c) \/ \E op \in Ops : Begin(h, c, op)
    BY <2>1, AdminAssumption, BeginKeepsInv
  <2>2. ASSUME NEW h \in Handlers, CheckRole(h) PROVE AdminInv'
    BY <2>2, AdminAssumption, CheckRoleKeepsInv
  <2>3. ASSUME NEW h \in Handlers, WriteConfig(h) \/ WriteManage(h) \/ WriteOwn(h)
        PROVE AdminInv'
    BY <2>3, AdminAssumption, WriteKeepsInv
  <2>4. ASSUME NEW h \in Handlers, WriteFails(h) \/ AddAudit(h) \/ LoginFails(h)
        PROVE AdminInv'
    BY <2>4, EndKeepsInv
  <2>5. ASSUME NEW h \in Handlers, LoginWrite(h) PROVE AdminInv'
    BY <2>5, AdminAssumption, LoginWriteKeepsInv
  <2>6. ASSUME NEW h \in Handlers, NEW id \in Ids, LoginRead(h, id) PROVE AdminInv'
    BY <2>6, AdminAssumption, LoginReadKeepsInv
  <2>7. CASE Start
    BY <2>7, AdminAssumption, StartKeepsInv
  <2>8. CASE Crash
    BY <2>8, CrashKeepsInv
  <2>9. CASE UNCHANGED vars
    BY <2>9 DEF vars, AdminInv, TypeOK, Current, Asked, Admitted, LoginsSound, Live,
                DownIsIdle, Serving, RefusedForCause
  <2>10. QED
    BY <2>1, <2>2, <2>3, <2>4, <2>5, <2>6, <2>7, <2>8, <2>9 DEF Next
<1>3. QED
  BY <1>1, <1>2, PTL DEF Spec

\* The types of the admin tables and requests; every stored role is one of three.
THEOREM TypeCorrect == Spec => []TypeOK
  BY InductiveInvariant, PTL DEF AdminInv

\* A gateway with a provider always starts: SeedFromConfig refuses only without one.
THEOREM RefusedForCauseHolds == Spec => []RefusedForCause
  BY InductiveInvariant, PTL DEF AdminInv

-----------------------------------------------------------------------------
(* What a step may never do *)

\* The steps other than a change of the accounts: their rows stay.
OtherStep ==
  \/ UNCHANGED vars
  \/ \E h \in Handlers, c \in {Key} \cup 1 .. minted :
       BeginTopup(h, c) \/ \E op \in Ops : Begin(h, c, op)
  \/ \E h \in Handlers :
       \/ CheckRole(h) \/ AddAudit(h) \/ WriteConfig(h) \/ WriteManage(h)
       \/ WriteFails(h) \/ LoginFails(h) \/ \E id \in Ids : LoginRead(h, id)
  \/ Crash

LEMMA OtherStepKeepsUsers ==
  ASSUME OtherStep PROVE users' = users
<1>1. ASSUME NEW h \in Handlers, NEW c, BeginTopup(h, c) \/ \E op \in Ops : Begin(h, c, op)
      PROVE  users' = users
  BY <1>1 DEF BeginTopup, Begin
<1>2. ASSUME NEW h \in Handlers,
             \/ CheckRole(h) \/ AddAudit(h) \/ WriteConfig(h) \/ WriteManage(h)
             \/ WriteFails(h) \/ LoginFails(h) \/ \E id \in Ids : LoginRead(h, id)
      PROVE  users' = users
  BY <1>2 DEF CheckRole, AddAudit, WriteConfig, WriteManage, WriteFails, LoginFails,
              LoginRead
<1>3. QED
  BY <1>1, <1>2 DEF OtherStep, Crash, vars

LEMMA StepCases ==
  ASSUME [Next]_vars
  PROVE  \/ OtherStep \/ Start
         \/ \E h \in Handlers : WriteOwn(h) \/ LoginWrite(h)
  BY DEF Next, OtherStep

\* A start leaves the accounts alone, or seeds: then the providers table was empty.
LEMMA StartCases ==
  ASSUME Start
  PROVE  \/ UNCHANGED <<providers, taken, users, minted>>
         \/ Seed /\ providers = {}
  BY DEF Start, SeedFails, SeedWanted

\* An upsert by its owner is a change: it ends at the audit.
LEMMA WriteOwnChanges ==
  ASSUME AdminInv, NEW h \in Handlers, WriteOwn(h)
  PROVE  Changes(h) /\ req[h].op = "own" /\ OwnChange
<1>1. pc[h] = "write" /\ writes' = writes + 1 /\ req[h].op = "own" /\ OwnChange
  BY DEF WriteOwn, Commit
<1>2. pc'[h] = "audit"
  BY DEF WriteOwn, Commit, Finish, AdminInv, TypeOK
<1>3. QED
  BY <1>1, <1>2 DEF Changes

\* A change is made only by a request that stood for a role that may make it at some
\* moment while it ran.
THEOREM PrivilegedWhileRunningHolds == Spec => PrivilegedWhileRunning
<1> DEFINE Privileged ==
      \A h \in Handlers : Changes(h) =>
        \E s \in was[h] :
          s.role \in CASE req[h].op = "own" -> {"owner"}
                       [] req[h].op = "manage" -> {"owner", "admin"}
                       [] OTHER -> {"owner", "admin", "viewer"}
<1>1. ASSUME AdminInv PROVE Privileged
  BY <1>1 DEF AdminInv, Admitted, Changes, Allowed
<1>2. QED
  BY <1>1, InductiveInvariant, PTL DEF PrivilegedWhileRunning

\* Name, role and enabled of an account change only by an owner's request, or by a
\* start that seeds its account.
THEOREM OwnerOwnsAccountsHolds == Spec => OwnerOwnsAccounts
<1> DEFINE Owned ==
      \A id \in Ids :
        Live(id) /\ [users'[id] EXCEPT !.token = 0] # [users[id] EXCEPT !.token = 0]
        => \/ \E h \in Handlers : Changes(h) /\ req[h].op = "own"
           \/ ~Serving /\ providers = {} /\ users[id].name = SeedAdmin
<1>1. ASSUME AdminInv, [Next]_vars PROVE Owned
  <2>1. UsersOK
    BY <1>1 DEF AdminInv, TypeOK, UsersOK
  <2>2. ASSUME users' = users PROVE Owned
    BY <2>2
  <2>3. ASSUME NEW h \in Handlers, WriteOwn(h) PROVE Owned
    BY <1>1, <2>3, WriteOwnChanges
  <2>4. ASSUME NEW h \in Handlers, LoginWrite(h) PROVE Owned
    <3>1. req[h].id \in Ids /\ Live(req[h].id)
      BY <1>1, <2>4 DEF LoginWrite, Login, AdminInv, LoginsSound
    <3>2. \A i \in Ids :
             [users'[i] EXCEPT !.token = 0] = [users[i] EXCEPT !.token = 0]
      BY <2>1, <2>4, <3>1, LoginSound, AdminAssumption
    <3>3. QED
      BY <3>2
  <2>5. CASE Start
    <3>1. CASE Seed /\ providers = {}
      <4>1. SeedAdmin \in Names /\ "owner" \in Roles
        BY AdminAssumption DEF Roles
      <4>2. \A i \in Ids : Live(i) /\ users[i].name # SeedAdmin => users'[i] = users[i]
        BY <2>1, <3>1, <4>1, CreateByNameSound, AdminAssumption DEF Seed
      <4>3. ~Serving
        BY <2>5 DEF Start
      <4>4. QED
        BY <3>1, <4>2, <4>3
    <3>2. QED
      BY <2>2, <2>5, <3>1, StartCases
  <2>6. QED
    BY <1>1, <2>2, <2>3, <2>4, <2>5, StepCases, OtherStepKeepsUsers
<1>2. QED
  BY <1>1, InductiveInvariant, PTL DEF Spec, OwnerOwnsAccounts

\* The token of an account changes only by a login that has read this account.
THEOREM TokensComeFromLoginsHolds == Spec => TokensComeFromLogins
<1> DEFINE FromLogin ==
      \A id \in Ids : Live(id) /\ users'[id].token # users[id].token =>
        \E h \in Handlers : pc[h] = "login" /\ req[h].id = id /\ pc'[h] = "idle"
<1>1. ASSUME AdminInv, [Next]_vars PROVE FromLogin
  <2>1. UsersOK
    BY <1>1 DEF AdminInv, TypeOK, UsersOK
  <2>2. ASSUME KeepsAccounts PROVE FromLogin
    BY <2>2 DEF KeepsAccounts
  <2>3. ASSUME users' = users PROVE FromLogin
    BY <2>3
  <2>4. ASSUME NEW h \in Handlers, WriteOwn(h) PROVE FromLogin
    BY <1>1, <2>1, <2>2, <2>4, WriteOwnChanges, OwnChangeSound, AdminAssumption
  <2>5. ASSUME NEW h \in Handlers, LoginWrite(h) PROVE FromLogin
    <3>1. req[h].id \in Ids /\ Live(req[h].id) /\ pc[h] = "login"
      BY <1>1, <2>5 DEF LoginWrite, Login, AdminInv, LoginsSound
    <3>2. \A i \in Ids : i # req[h].id => users'[i] = users[i]
      BY <2>1, <2>5, <3>1, LoginSound, AdminAssumption
    <3>3. pc'[h] = "idle"
      BY <1>1, <2>5 DEF LoginWrite, Login, Finish, AdminInv, TypeOK
    <3>4. QED
      BY <3>1, <3>2, <3>3
  <2>6. CASE Start
    <3>1. ASSUME Seed PROVE KeepsAccounts
      <4>1. SeedAdmin \in Names /\ "owner" \in Roles
        BY AdminAssumption DEF Roles
      <4>2. QED
        BY <2>1, <3>1, <4>1, CreateByNameSound, AdminAssumption DEF Seed
    <3>2. QED
      BY <2>2, <2>3, <2>6, <3>1, StartCases
  <2>7. QED
    BY <1>1, <2>3, <2>4, <2>5, <2>6, StepCases, OtherStepKeepsUsers
<1>2. QED
  BY <1>1, InductiveInvariant, PTL DEF Spec, TokensComeFromLogins

\* Only an audit entry settles a change that calls for one.
LEMMA OwedSettled ==
  ASSUME AdminInv, [Next]_vars, owed' < owed
  PROVE  \E h \in Handlers : /\ AddAudit(h) /\ owed' = owed - 1
                            /\ audit' = AdminActor(req[h].cred)
<1>1. owed \in Int
  BY DEF AdminInv, TypeOK
<1>2. ASSUME NEW h \in Handlers, WriteManage(h) \/ WriteOwn(h) PROVE FALSE
  BY <1>1, <1>2 DEF WriteManage, WriteOwn
<1>3. ASSUME NEW h \in Handlers,
             \/ CheckRole(h) \/ WriteConfig(h) \/ WriteFails(h) \/ LoginWrite(h)
             \/ LoginFails(h) \/ \E id \in Ids : LoginRead(h, id)
      PROVE  FALSE
  <2>1. owed' = owed
    BY <1>3 DEF CheckRole, WriteConfig, WriteFails, LoginWrite, Login, LoginFails, LoginRead
  <2>2. QED
    BY <1>1, <2>1
<1>4. ASSUME NEW h \in Handlers, NEW c, BeginTopup(h, c) \/ \E op \in Ops : Begin(h, c, op)
      PROVE  FALSE
  <2>1. owed' = owed
    BY <1>4 DEF BeginTopup, Begin
  <2>2. QED
    BY <1>1, <2>1
<1>5. ASSUME Start \/ Crash \/ UNCHANGED vars PROVE FALSE
  BY <1>1, <1>5 DEF Start, Crash, vars
<1>6. PICK h \in Handlers : AddAudit(h)
  <2>1. Next
    BY <1>5
  <2>2. QED
    BY <1>2, <1>3, <1>4, <1>5, <2>1 DEF Next
<1>7. QED
  BY <1>1, <1>6 DEF AddAudit

\* An entry of the audit log names what its request stood for at some moment while it
\* ran.
THEOREM ActorForCauseHolds == Spec => ActorForCause
<1> DEFINE ForCause ==
      \A h \in Handlers : pc[h] = "audit" /\ owed' < owed /\ pc'[h] = "idle" =>
        \E s \in was[h] : s.account = audit'
<1>1. ASSUME AdminInv, [Next]_vars PROVE ForCause
  <2>1. SUFFICES ASSUME NEW h \in Handlers, pc[h] = "audit", owed' < owed, pc'[h] = "idle"
                 PROVE  \E s \in was[h] : s.account = audit'
    OBVIOUS
  <2>2. PICK g \in Handlers : AddAudit(g) /\ audit' = AdminActor(req[g].cred)
    BY <1>1, <2>1, OwedSettled
  <2>3. g = h
    BY <1>1, <2>1, <2>2 DEF AddAudit, Finish, AdminInv, TypeOK
  <2>4. Standing(req[h].cred, keySet, users) \in was[h]
    BY <1>1, <2>1 DEF AdminInv, Current
  <2>5. QED
    BY <2>2, <2>3, <2>4, StandingIsLookup
<1>2. QED
  BY <1>1, InductiveInvariant, PTL DEF Spec, ActorForCause

\* A start seeds everything or nothing, and what it seeds leaves an owner who can log
\* in.
THEOREM SeedingIsWholeHolds == Spec => SeedingIsWhole
<1> DEFINE Whole ==
      ~Serving =>
        \/ UNCHANGED <<providers, taken, users, minted>>
        \/ /\ providers' = SeedProviders /\ taken' = SeedRows
           /\ \E id \in Ids : /\ users'[id].name = SeedAdmin
                              /\ users'[id].enabled /\ users'[id].role = "owner"
<1>1. ASSUME AdminInv, [Next]_vars PROVE Whole
  <2>1. SUFFICES ASSUME ~Serving PROVE Whole
    OBVIOUS
  <2>2. \A h \in Handlers : pc[h] = "idle"
    BY <1>1, <2>1 DEF AdminInv, DownIsIdle
  <2>3. Start \/ UNCHANGED vars
    <3>1. ASSUME NEW h \in Handlers
          PROVE  ~(\/ CheckRole(h) \/ AddAudit(h) \/ WriteConfig(h) \/ WriteManage(h)
                   \/ WriteOwn(h) \/ WriteFails(h) \/ LoginWrite(h) \/ LoginFails(h)
                   \/ \E id \in Ids : LoginRead(h, id))
      BY <2>1, <2>2 DEF CheckRole, AddAudit, WriteConfig, WriteManage, WriteOwn, Commit,
                        WriteFails, LoginWrite, Login, LoginFails, LoginRead
    <3>2. ASSUME NEW h \in Handlers, NEW c
          PROVE  ~BeginTopup(h, c) /\ \A op \in Ops : ~Begin(h, c, op)
      BY <2>1 DEF BeginTopup, Begin
    <3>3. QED
      BY <1>1, <2>1, <3>1, <3>2 DEF Next, Crash
  <2>4. CASE Seed
    <3>1. /\ SeedAdmin \in Names /\ "owner" \in Roles /\ UsersOK
          /\ CreateByName(SeedAdmin, "owner")
      BY <1>1, <2>4, AdminAssumption DEF Roles, Seed, AdminInv, TypeOK, UsersOK
    <3>2. \E id \in Ids : /\ users'[id].name = SeedAdmin
                         /\ users'[id].role = "owner" /\ users'[id].enabled
      BY <3>1, CreateByNameSound, AdminAssumption
    <3>3. QED
      BY <2>4, <3>2 DEF Seed
  <2>5. CASE UNCHANGED <<providers, taken, users, minted>>
    BY <2>5
  <2>6. QED
    BY <2>3, <2>4, <2>5, StartCases DEF vars
<1>2. QED
  BY <1>1, InductiveInvariant, PTL DEF Spec, SeedingIsWhole

-----------------------------------------------------------------------------
(* Entries and changes *)

Auditing == {h \in Handlers : pc[h] = "audit"}

\* How a step moves the requests that are about to audit: the change that brings one
\* there is owed an entry, and the entry that settles one leaves.
LEMMA AuditingMoves ==
  ASSUME AdminInv, [Next]_vars
  PROVE  \/ Auditing' \subseteq Auditing /\ owed' = owed
         \/ \E h \in Handlers : Auditing' = Auditing \cup {h} /\ owed' = owed + 1
         \/ \E h \in Auditing : Auditing' = Auditing \ {h} /\ owed' = owed - 1
<1>1. pc \in [Handlers -> Labels]
  BY DEF AdminInv, TypeOK, Labels
<1>2. ASSUME NEW h \in Handlers, WriteManage(h) \/ WriteOwn(h)
      PROVE  Auditing' = Auditing \cup {h} /\ owed' = owed + 1
  BY <1>1, <1>2 DEF WriteManage, WriteOwn, Commit, Finish, Auditing
<1>3. ASSUME NEW h \in Handlers, NEW at \in Labels \ {"audit"}, pc' = [pc EXCEPT ![h] = at]
      PROVE  Auditing' = Auditing \ {h}
  BY <1>1, <1>3 DEF Auditing
<1>4. ASSUME NEW h \in Handlers,
             \/ CheckRole(h) \/ WriteConfig(h) \/ WriteFails(h) \/ LoginWrite(h)
             \/ LoginFails(h) \/ \E id \in Ids : LoginRead(h, id)
      PROVE  Auditing' \subseteq Auditing /\ owed' = owed
  <2>1. \E at \in Labels \ {"audit"} : pc' = [pc EXCEPT ![h] = at]
    BY <1>4 DEF CheckRole, WriteConfig, Commit, WriteFails, LoginWrite, Login, LoginFails,
                LoginRead, Finish, Labels
  <2>2. owed' = owed
    BY <1>4 DEF CheckRole, WriteConfig, WriteFails, LoginWrite, Login, LoginFails, LoginRead
  <2>3. QED
    BY <1>3, <2>1, <2>2
<1>5. ASSUME NEW h \in Handlers, NEW c, BeginTopup(h, c) \/ \E op \in Ops : Begin(h, c, op)
      PROVE  Auditing' \subseteq Auditing /\ owed' = owed
  <2>1. \E at \in Labels \ {"audit"} : pc' = [pc EXCEPT ![h] = at]
    BY <1>5 DEF BeginTopup, Begin, Labels
  <2>2. QED
    BY <1>3, <1>5, <2>1 DEF BeginTopup, Begin
<1>6. ASSUME NEW h \in Handlers, AddAudit(h)
      PROVE  /\ Auditing' = Auditing \ {h} /\ h \in Auditing
             /\ owed' \in {owed, owed - 1}
  <2>1. pc' = [pc EXCEPT ![h] = "idle"] /\ "idle" \in Labels \ {"audit"}
    BY <1>6 DEF AddAudit, Finish, Labels
  <2>2. QED
    BY <1>3, <1>6, <2>1 DEF AddAudit, Auditing
<1>7. ASSUME Start \/ Crash PROVE Auditing' \subseteq Auditing /\ owed' = owed
  BY <1>7 DEF Start, Crash, Quiet, Auditing
<1>8. ASSUME UNCHANGED vars PROVE Auditing' \subseteq Auditing /\ owed' = owed
  BY <1>8 DEF vars, Auditing
<1>9. QED
  BY <1>2, <1>4, <1>5, <1>6, <1>7, <1>8 DEF Next

\* No entry without its change.
THEOREM NoEntryWithoutChangeHolds == Spec => []NoEntryWithoutChange
<1>1. NoEntryWithoutChange <=> owed >= Cardinality(Auditing)
  BY DEF NoEntryWithoutChange, Auditing
<1>2. Init => NoEntryWithoutChange
  <2> SUFFICES ASSUME Init PROVE NoEntryWithoutChange
    OBVIOUS
  <2>1. Auditing = {} /\ owed = 0
    BY DEF Init, Auditing
  <2>2. QED
    BY <1>1, <2>1, FS_EmptySet
<1>3. AdminInv /\ NoEntryWithoutChange /\ [Next]_vars => NoEntryWithoutChange'
  <2> SUFFICES ASSUME AdminInv, NoEntryWithoutChange, [Next]_vars
               PROVE  owed' >= Cardinality(Auditing')
    BY DEF NoEntryWithoutChange, Auditing
  <2>1. IsFiniteSet(Auditing) /\ Cardinality(Auditing) \in Nat
    <3>1. Auditing \in SUBSET Handlers /\ IsFiniteSet(Handlers)
      BY AdminAssumption DEF Auditing
    <3>2. IsFiniteSet(Auditing)
      BY <3>1, FS_Subset
    <3>3. QED
      BY <3>2, FS_CardinalityType
  <2>2. owed \in Int /\ owed >= Cardinality(Auditing)
    BY <1>1 DEF AdminInv, TypeOK
  <2>3. CASE Auditing' \subseteq Auditing /\ owed' = owed
    <3>1. IsFiniteSet(Auditing') /\ Cardinality(Auditing') <= Cardinality(Auditing)
      BY <2>1, <2>3, FS_Subset
    <3>2. Cardinality(Auditing') \in Nat
      BY <3>1, FS_CardinalityType
    <3>3. QED
      BY <2>1, <2>2, <2>3, <3>1, <3>2
  <2>4. ASSUME NEW h \in Handlers, Auditing' = Auditing \cup {h}, owed' = owed + 1
        PROVE  owed' >= Cardinality(Auditing')
    <3>1. Cardinality(Auditing') \in {Cardinality(Auditing), Cardinality(Auditing) + 1}
      BY <2>1, <2>4, FS_AddElement
    <3>2. QED
      BY <2>1, <2>2, <2>4, <3>1
  <2>5. ASSUME NEW h \in Auditing, Auditing' = Auditing \ {h}, owed' = owed - 1
        PROVE  owed' >= Cardinality(Auditing')
    <3>1. Cardinality(Auditing') = Cardinality(Auditing) - 1
      BY <2>1, <2>5, FS_RemoveElement
    <3>2. QED
      BY <2>1, <2>2, <2>5, <3>1
  <2>6. QED
    BY <2>3, <2>4, <2>5, AuditingMoves
<1>4. QED
  BY <1>2, <1>3, InductiveInvariant, PTL DEF Spec

=============================================================================
