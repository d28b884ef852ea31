------------------------------ MODULE AdminStore ------------------------------
(***************************************************************************)
(* Administrators: accounts, tokens, roles, the audit log, and the start   *)
(* of the gateway on a database that may have been used before.            *)
(*                                                                         *)
(* An admin handler looks its credential up as often as it needs it: in    *)
(* requireAdmin, in requireAdminRole and, after the change, in adminActor; *)
(* each time against the table as it is by then.  A login reads an account *)
(* and writes a token by id, in two statements.  The audit entry is a      *)
(* statement of its own whose error is ignored.                            *)
(*                                                                         *)
(* Tokens are numbers: randomToken never gives one twice.  Passwords, the  *)
(* signature of a request and the contents of providers, tenants, prices   *)
(* and balances are left out.                                              *)
(***************************************************************************)
EXTENDS Integers, FiniteSets

CONSTANTS
  Handlers,     \* goroutines inside an admin handler
  Names,        \* user names
  SeedAdmin,    \* the name of the configured administrator, an owner
  Providers,    \* names of providers
  SeedProviders, \* those of the configuration
  SeedRows,     \* configured rows of other tables with a unique name: gateway keys,
                \* rules, and upstream keys, which outlive a provider's renaming
  MaxAccounts,  \* bound on the accounts, for TLC
  MaxTokens,    \* bound on the tokens given out, for TLC
  MaxWrites     \* bound on the changes, for TLC

ASSUME AdminAssumption ==
  /\ IsFiniteSet(Handlers)
  /\ SeedAdmin \in Names
  /\ SeedProviders \subseteq Providers
  /\ SeedProviders # {} /\ SeedRows # {}    \* Config.validate
  /\ MaxAccounts \in Nat /\ MaxTokens \in Nat /\ MaxWrites \in Nat

VARIABLES
  status,     \* of the process: down, up, or refused (SeedFromConfig failed)
  keySet,     \* is an admin key configured? as of the last start
  users,      \* the admin_users table, by id
  minted,     \* tokens given out so far
  providers,  \* the names in the providers table
  taken,      \* the SeedRows that are in their tables
  pc,         \* idle, role, write, audit or login
  req,        \* what an admin request carries
  audit,      \* the actor of the last entry of audit_logs
  writes,     \* changes so far
  owed,       \* history: changes that call for an entry, less the entries
  was         \* history: what the credential of each request has stood for

vars == <<status, keySet, users, minted, providers, taken, pc, req, audit,
          writes, owed, was>>

Ids == 1 .. MaxAccounts
Roles == {"owner", "admin", "viewer"}

NoRow == [name |-> "none", role |-> "none", enabled |-> FALSE, token |-> 0]
Row == [name : Names, role : Roles, enabled : BOOLEAN, token : 1 .. MaxTokens]

\* a credential is the text of X-Admin-Key that is right when a key is configured,
\* or a bearer token; no header at all is not told apart from a wrong token
Key == 0

\* what a credential can stand for: the configured key, an account, or nothing
ByConfig == 0
Nobody == -1
Unverified == [account |-> Nobody, role |-> "none"]

\* config: providers, keys, rules, schedules, import; manage: tenants and prices,
\* top-ups; own: deleting tenants and prices, and accounts
Ops == {"config", "manage", "own"}

NoRequest == [cred |-> Nobody, op |-> "none", id |-> 0, row |-> NoRow]

Live(id) == users[id] # NoRow
Named(n) == {id \in Ids : Live(id) /\ users[id].name = n}

-----------------------------------------------------------------------------
(* Faulty forms of definitions below, which the properties must refuse *)

\* the role is stored as it was sent
NormalizeNothing(r) == r

\* a token of a disabled account still verifies
VerifyDisabled(c) == {id \in Ids : Live(id) /\ users[id].token = c}

\* adminActor looks at the token only
ActorOfToken(c) ==
  IF \E id \in Ids : Live(id) /\ users[id].enabled /\ users[id].token = c
  THEN CHOOSE id \in Ids : Live(id) /\ users[id].token = c
  ELSE Nobody

\* the inserts of the seed in no transaction: the first remain after a failure
KeepProviders ==
  /\ providers' = SeedProviders
  /\ UNCHANGED <<taken, users, minted>>

\* the seed is inserted whatever the providers table holds
SeedAlways == TRUE

-----------------------------------------------------------------------------
(* The statements and helpers the handlers are made of *)

NormalizeRole(r) == IF r \in {"owner", "admin"} THEN r ELSE "viewer"

\* the texts of a role a request may send
RoleTexts == {"owner", "admin", "other"}

ByKey(c) == keySet /\ c = Key

\* VerifyAdminToken: the accounts it finds, at most one
Verified(c) == {id \in Ids : Live(id) /\ users[id].enabled /\ users[id].token = c}

\* adminRole
AdminRole(c) ==
  IF ByKey(c) THEN "owner"
  ELSE IF Verified(c) # {} THEN users[CHOOSE id \in Verified(c) : TRUE].role
  ELSE "none"

\* adminActor: the entry names the account by its user name of the moment
AdminActor(c) ==
  IF ByKey(c) THEN ByConfig
  ELSE IF Verified(c) # {} THEN CHOOSE id \in Verified(c) : TRUE
  ELSE Nobody

\* the roles the handler of an operation passes to requireAdminRole
Required(op) == IF op = "own" THEN {"owner"} ELSE {"owner", "admin"}

\* history: what a credential stands for with a key k configured and the accounts u
Standing(c, k, u) ==
  IF k /\ c = Key THEN [account |-> ByConfig, role |-> "owner"]
  ELSE LET found == {id \in Ids : u[id] # NoRow /\ u[id].enabled /\ u[id].token = c}
       IN  IF found = {} THEN Unverified
           ELSE LET id == CHOOSE i \in found : TRUE
                IN  [account |-> id, role |-> u[id].role]

\* what the credentials of the requests under way stand for now, added to the past
Remember ==
  was' = [h \in Handlers |->
            IF pc'[h] \in {"role", "write", "audit"}
            THEN was[h] \cup {Standing(req'[h].cred, keySet', users')} ELSE {}]

Serving == status = "up"

-----------------------------------------------------------------------------
Init ==
  \* a new database, before the first start
  /\ status = "down" /\ keySet = FALSE
  /\ users = [id \in Ids |-> NoRow] /\ minted = 0
  /\ providers = {} /\ taken = {}
  /\ pc = [h \in Handlers |-> "idle"]
  /\ req = [h \in Handlers |-> NoRequest]
  /\ audit = Nobody
  /\ writes = 0 /\ owed = 0
  /\ was = [h \in Handlers |-> {}]

Finish(h, at) ==
  /\ pc' = [pc EXCEPT ![h] = at]
  /\ req' = [req EXCEPT ![h] = IF at = "idle" THEN NoRequest ELSE @]

\* requireAdmin; a request that fails it changes nothing and is left out
Begin(h, c, op) ==
  /\ Serving /\ pc[h] = "idle"
  /\ ByKey(c) \/ Verified(c) # {}
  /\ req' = [req EXCEPT ![h] = [NoRequest EXCEPT !.cred = c, !.op = op]]
  /\ pc' = [pc EXCEPT ![h] = IF op = "config" THEN "write" ELSE "role"]
  /\ UNCHANGED <<status, keySet, users, minted, providers, taken, audit, writes, owed>>
  /\ Remember

\* handleAdminTopup asks for the role only
BeginTopup(h, c) ==
  /\ Serving /\ pc[h] = "idle"
  /\ req' = [req EXCEPT ![h] = [NoRequest EXCEPT !.cred = c, !.op = "manage"]]
  /\ pc' = [pc EXCEPT ![h] = "role"]
  /\ UNCHANGED <<status, keySet, users, minted, providers, taken, audit, writes, owed>>
  /\ Remember

\* requireAdminRole: 401, 403 or on
CheckRole(h) ==
  /\ pc[h] = "role"
  /\ Finish(h, IF AdminRole(req[h].cred) \in Required(req[h].op) THEN "write" ELSE "idle")
  /\ UNCHANGED <<status, keySet, users, minted, providers, taken, audit, writes, owed>>
  /\ Remember

\* the changes UpsertAdminUser makes by id: of a row that is there, to a name no
\* other row has; the token stays
UpdateByID(id, n, r, e) ==
  /\ Live(id) /\ Named(n) \subseteq {id}
  /\ users' = [users EXCEPT ![id] = [name |-> n, role |-> NormalizeRole(r),
                                     enabled |-> e, token |-> users[id].token]]
  /\ UNCHANGED minted

\* the row of a new account; gorm's Create puts the column default, TRUE, in place
\* of enabled = false
NewAccount(id, n, r) ==
  /\ ~Live(id) /\ \A i \in Ids : i < id => Live(i)
  /\ minted < MaxTokens
  /\ minted' = minted + 1
  /\ users' = [users EXCEPT ![id] = [name |-> n, role |-> r,
                                     enabled |-> TRUE, token |-> minted + 1]]

\* INSERT ... ON CONFLICT (username) DO UPDATE: role and enabled, not the token
CreateByName(n, r) ==
  \/ \E id \in Named(n) :
       /\ users' = [users EXCEPT ![id].role = r, ![id].enabled = TRUE]
       /\ UNCHANGED minted
  \/ Named(n) = {} /\ \E id \in Ids : NewAccount(id, n, r)

\* SetAdminEnabled(id, false)
Disable(id) ==
  /\ Live(id)
  /\ users' = [users EXCEPT ![id].enabled = FALSE]
  /\ UNCHANGED minted

\* the change of an owner: of the accounts, or of tenants and prices, or of no row
\* at all when its id is unknown
OwnChange ==
  \/ \E id \in Ids, n \in Names, r \in RoleTexts, e \in BOOLEAN : UpdateByID(id, n, r, e)
  \/ \E n \in Names, r \in RoleTexts : CreateByName(n, NormalizeRole(r))
  \/ \E id \in Ids : Disable(id)
  \/ UNCHANGED <<users, minted>>

\* a provider is created, deleted, renamed, or only edited
ProviderChange ==
  /\ \/ \E p \in Providers : providers' \in {providers \cup {p}, providers \ {p}}
     \/ \E p \in providers, q \in Providers \ providers :
          providers' = (providers \ {p}) \cup {q}
  /\ UNCHANGED taken

\* so is another row with a unique name
RowChange ==
  /\ \E t \in SeedRows : taken' \in {taken \cup {t}, taken \ {t}}
  /\ UNCHANGED providers

\* the change itself: one statement or transaction
Commit(h, op, next) ==
  /\ pc[h] = "write" /\ req[h].op = op
  /\ writes < MaxWrites
  /\ writes' = writes + 1
  /\ Finish(h, next)
  /\ UNCHANGED <<status, keySet, audit>>

WriteConfig(h) ==
  /\ Commit(h, "config", "idle")
  /\ ProviderChange \/ RowChange
  /\ UNCHANGED <<users, minted, owed>>
  /\ Remember

WriteManage(h) ==
  /\ Commit(h, "manage", "audit")
  /\ owed' = owed + 1
  /\ UNCHANGED <<users, minted, providers, taken>>
  /\ Remember

WriteOwn(h) ==
  /\ Commit(h, "own", "audit")
  /\ OwnChange
  /\ owed' = owed + 1
  /\ UNCHANGED <<providers, taken>>
  /\ Remember

\* faulty: a change that failed is audited all the same
AuditedFailure(h) ==
  /\ pc[h] = "write"
  /\ Finish(h, IF req[h].op = "config" THEN "idle" ELSE "audit")
  /\ UNCHANGED <<status, keySet, users, minted, providers, taken, audit, writes, owed>>
  /\ Remember

\* the store refuses it, or the request itself is invalid: 400 or 500
WriteFails(h) ==
  /\ pc[h] = "write"
  /\ Finish(h, "idle")
  /\ UNCHANGED <<status, keySet, users, minted, providers, taken, audit, writes, owed>>
  /\ Remember

\* AddAudit with adminActor; its error is ignored
AddAudit(h) ==
  /\ pc[h] = "audit"
  /\ \/ audit' = AdminActor(req[h].cred) /\ owed' = owed - 1
     \/ UNCHANGED <<audit, owed>>
  /\ Finish(h, "idle")
  /\ UNCHANGED <<status, keySet, users, minted, providers, taken, writes>>
  /\ Remember

\* AdminLogin: the enabled account is read and its password compared
LoginRead(h, id) ==
  /\ Serving /\ pc[h] = "idle"
  /\ Live(id) /\ users[id].enabled
  /\ req' = [req EXCEPT ![h] = [NoRequest EXCEPT !.id = id, !.row = users[id]]]
  /\ pc' = [pc EXCEPT ![h] = "login"]
  /\ UNCHANGED <<status, keySet, users, minted, providers, taken, audit, writes, owed>>
  /\ Remember

Login(h, u) ==
  /\ pc[h] = "login" /\ minted < MaxTokens
  /\ minted' = minted + 1
  /\ users' = u
  /\ Finish(h, "idle")
  /\ UNCHANGED <<status, keySet, providers, taken, audit, writes, owed>>
  /\ Remember

\* faulty: the login saves the row it has read, with the new token
SaveReadRow(h) ==
  Login(h, [users EXCEPT ![req[h].id] = [req[h].row EXCEPT !.token = minted + 1]])

\* faulty: it updates the token by user name
TokenByName(h) ==
  Login(h, [i \in Ids |-> IF users[i].name = req[h].row.name
                          THEN [users[i] EXCEPT !.token = minted + 1] ELSE users[i]])

\* and a new token is written: UPDATE admin_users SET token = ? WHERE id = ?
LoginWrite(h) == Login(h, [users EXCEPT ![req[h].id].token = minted + 1])

\* or the store fails
LoginFails(h) ==
  /\ pc[h] = "login"
  /\ Finish(h, "idle")
  /\ UNCHANGED <<status, keySet, users, minted, providers, taken, audit, writes, owed>>
  /\ Remember

-----------------------------------------------------------------------------
(* The start of the process: SeedFromConfig, then NewServer *)

\* SeedFromConfig goes on only when the providers table is empty
SeedWanted == providers = {}

\* the seed meets a row with one of its unique names
Conflict == taken # {} \/ providers \cap SeedProviders # {}

\* the transaction is rolled back
SeedFails == UNCHANGED <<providers, taken, users, minted>>

Seed ==
  /\ providers' = SeedProviders /\ taken' = SeedRows
  /\ CreateByName(SeedAdmin, "owner")

Quiet ==
  /\ pc' = [h \in Handlers |-> "idle"] /\ req' = [h \in Handlers |-> NoRequest]
  /\ Remember

Start ==
  /\ ~Serving
  /\ keySet' \in BOOLEAN
  /\ \/ /\ ~SeedWanted
        /\ status' = "up"
        /\ UNCHANGED <<providers, taken, users, minted>>
     \/ /\ SeedWanted /\ ~Conflict
        /\ status' = "up" /\ Seed
     \/ /\ SeedWanted /\ Conflict       \* log.Fatalf
        /\ status' = "refused" /\ SeedFails
     \/ /\ SeedWanted                   \* an error of the store, log.Fatalf as well
        /\ status' = "down" /\ SeedFails
  /\ UNCHANGED <<audit, writes, owed>>
  /\ Quiet

Crash ==
  /\ Serving
  /\ status' = "down"
  /\ UNCHANGED <<keySet, users, minted, providers, taken, audit, writes, owed>>
  /\ Quiet

Next ==
  \/ \E h \in Handlers, c \in {Key} \cup 1 .. minted :
       BeginTopup(h, c) \/ \E op \in Ops : Begin(h, c, op)
  \/ \E h \in Handlers :
       \/ CheckRole(h) \/ AddAudit(h)
       \/ WriteConfig(h) \/ WriteManage(h) \/ WriteOwn(h) \/ WriteFails(h)
       \/ LoginWrite(h) \/ LoginFails(h) \/ \E id \in Ids : LoginRead(h, id)
  \/ Start \/ Crash

Spec == Init /\ [][Next]_vars

-----------------------------------------------------------------------------
\* Type invariant: roles are the three normalizeRole knows.
TypeOK ==
  /\ status \in {"down", "up", "refused"} /\ keySet \in BOOLEAN
  /\ users \in [Ids -> Row \cup {NoRow}] /\ minted \in 0 .. MaxTokens
  /\ providers \subseteq Providers /\ taken \subseteq SeedRows
  /\ pc \in [Handlers -> {"idle", "role", "write", "audit", "login"}]
  /\ req \in [Handlers -> [cred : {Nobody, Key} \cup 1 .. MaxTokens, op : Ops \cup {"none"},
                           id : {0} \cup Ids, row : Row \cup {NoRow}]]
  /\ audit \in {Nobody, ByConfig} \cup Ids
  /\ writes \in 0 .. MaxWrites /\ owed \in Int
  /\ was \in [Handlers -> SUBSET [account : {Nobody, ByConfig} \cup Ids,
                                  role : Roles \cup {"none"}]]

Changes(h) == pc[h] = "write" /\ writes' = writes + 1 /\ pc'[h] # "write"

\* A change is made only by a request that stood for a role that may make it at some
\* moment while it ran, although it is looked up twice and the token may be rotated,
\* the account disabled or demoted, between the lookups and before the change.
PrivilegedWhileRunning ==
  [][\A h \in Handlers : Changes(h) =>
       \E s \in was[h] :
         s.role \in CASE req[h].op = "own" -> {"owner"}
                      [] req[h].op = "manage" -> {"owner", "admin"}
                      [] OTHER -> {"owner", "admin", "viewer"}]_vars

\* Name, role and enabled of an account change only by an owner's request, or by a
\* start that seeds its account: a login racing a demotion or a disabling does not
\* undo it.
OwnerOwnsAccounts ==
  [][\A id \in Ids :
       Live(id) /\ [users'[id] EXCEPT !.token = 0] # [users[id] EXCEPT !.token = 0]
       => \/ \E h \in Handlers : Changes(h) /\ req[h].op = "own"
          \/ ~Serving /\ providers = {} /\ users[id].name = SeedAdmin]_vars

\* The token of an account changes only by a login that has read this account: an
\* upsert, a seeding start or a login of another account that has taken over the
\* name in between leaves its sessions alone.
TokensComeFromLogins ==
  [][\A id \in Ids : Live(id) /\ users'[id].token # users[id].token =>
       \E h \in Handlers : pc[h] = "login" /\ req[h].id = id /\ pc'[h] = "idle"]_vars

\* An entry of the audit log names the account or the key its request stood for at
\* some moment while it ran, and nobody only when the credential stopped verifying
\* in the meantime; never another account.
ActorForCause ==
  [][\A h \in Handlers : pc[h] = "audit" /\ owed' < owed /\ pc'[h] = "idle" =>
       \E s \in was[h] : s.account = audit']_vars

\* No entry without its change: a request about to audit has committed a change that
\* no other entry accounts for.  (A change may remain without its entry.)
NoEntryWithoutChange == owed >= Cardinality({h \in Handlers : pc[h] = "audit"})

\* A start seeds everything or nothing, and what it seeds leaves an owner who can log
\* in.
SeedingIsWhole ==
  [][~Serving =>
       \/ UNCHANGED <<providers, taken, users, minted>>
       \/ /\ providers' = SeedProviders /\ taken' = SeedRows
          /\ \E id \in Ids : /\ users'[id].name = SeedAdmin
                             /\ users'[id].enabled /\ users'[id].role = "owner"]_vars

\* A gateway that has a provider comes up again after a crash, whatever else its
\* tables hold; SeedFromConfig refuses only when there is none and a configured name
\* is taken.
RefusedForCause == status = "refused" => providers = {} /\ taken # {}

\* "Seed DB from YAML only when DB is empty": a start changes the tables, or tries
\* to, only when there is no row in any.
SeedOnlyEmptyDB ==
  [][~Serving /\ (status' = "refused" \/ users' # users) =>
       /\ providers = {} /\ taken = {}
       /\ \A id \in Ids : ~Live(id)]_vars
=============================================================================
