------------------------------- MODULE Billing -------------------------------
(***************************************************************************)
(* Prepaid billing of requests (billing.enabled).                          *)
(*                                                                         *)
(* A request is estimated and its key's balance compared with the estimate *)
(* before it is forwarded; only after the answer has been served is the    *)
(* actual cost computed, from the price at that time, and taken from the   *)
(* balance.  Nothing is reserved in between, so other requests of the key  *)
(* and the admin handlers change the balance under it.  A deduction that   *)
(* fails is only logged.                                                   *)
(*                                                                         *)
(* One model is priced: price is what ResolveModelPriceMicros returns.     *)
(* Reloads are one step here; SnapshotReload takes them apart.             *)
(***************************************************************************)
EXTENDS Integers, FiniteSets

CONSTANTS
  Users,            \* key_value column of api_keys
  NoUser,           \* the key of an idle request
  Handlers,         \* goroutines inside handleProxy
  Tokens,           \* token counts a request can have
  Prices,           \* micros per Unit tokens an administrator can set
  DefaultPrice,     \* billing.default_price_per_million_micros
  Unit,             \* 1_000_000
  WordHalf,         \* 2^63: int64 is -WordHalf .. WordHalf - 1
  OpeningBalances,  \* balance_micros of a seeded key
  TopupAmounts,     \* amount_micros of a top-up
  MaxLedger,        \* bound on a key's ledger, for TLC
  MaxRequests,      \* bound on the requests admitted, for TLC
  StoreMayFail,     \* may a statement of the store return an error?
  MayCrash          \* may the process die and be started again?

ASSUME BillingAssumption ==
  /\ IsFiniteSet(Handlers)
  /\ Tokens \subseteq Nat \ {0}
  /\ Prices \subseteq Int /\ DefaultPrice \in Int
  /\ Unit \in Nat \ {0} /\ WordHalf \in Nat \ {0}
  /\ OpeningBalances \subseteq Nat
  /\ TopupAmounts \subseteq Nat \ {0}
  /\ MaxLedger \in Int /\ MaxRequests \in Nat
  /\ StoreMayFail \in BOOLEAN /\ MayCrash \in BOOLEAN
  /\ NoUser \notin Users

VARIABLES
  accts,     \* api_keys: does the row exist, and its balance_micros
  ledger,    \* billing_txns: sum of delta_micros per key
  charges,   \* billing_txns: number of usage rows
  usageRows, \* usage_records: number of rows
  price,     \* what the price rules say of the model now
  known,     \* keys of the published snapshot
  pc, req,   \* where each request stands and what it carries
  admitted,  \* requests admitted so far
  opening,   \* history: the balance each key was seeded with
  raced,     \* history: did something take from the key since the check?
  missed     \* history: charged requests that lost their usage row

store == <<accts, ledger, charges, usageRows, price>>
vars == <<store, known, pc, req, admitted, opening, raced, missed>>

Stages == {"idle", "estimate", "check", "serve", "price", "deduct", "reload", "record"}

NoReq == [user |-> NoUser, tokens |-> 0, estimate |-> 0, cost |-> 0, charged |-> FALSE]

Absent == [live |-> FALSE, balance |-> 0]
Live   == {u \in Users : accts[u].live}

\* the balance a key can be charged
Bal(u) == accts[u].balance
Balances == [u \in Users |-> Bal(u)]

\* requests that were charged and have not written their usage row yet
Charged == {h \in Handlers : req[h].charged}

-----------------------------------------------------------------------------
(* Faulty forms of the definitions below, which the properties must refuse. *)

CostOfUnbounded(tokens, p) == (tokens * p) \div Unit

CanPayOneMore(u, n) == accts[u].live /\ accts[u].balance + 1 >= n

PostDebitTwice(u, n) ==
  /\ accts' = [accts EXCEPT ![u].balance = @ - n]
  /\ ledger' = [ledger EXCEPT ![u] = @ - n - n]

CheckKeyOnly(h) ==
  /\ pc[h] = "check"
  /\ accts[req[h].user].live
  /\ pc' = [pc EXCEPT ![h] = "serve"]
  /\ raced' = [raced EXCEPT ![h] = FALSE]
  /\ UNCHANGED <<store, known, req, admitted, opening, missed>>

ReturnAfterReload(h) ==
  /\ pc[h] = "reload"
  /\ known' \in {Live} \cup (IF StoreMayFail THEN {known} ELSE {})
  /\ pc' = [pc EXCEPT ![h] = "idle"]
  /\ req' = [req EXCEPT ![h] = NoReq]
  /\ UNCHANGED <<store, admitted, opening, raced, missed>>

-----------------------------------------------------------------------------
(* Cost in int64 arithmetic: the product wraps, the division truncates.    *)

Wrap(x) == ((x + WordHalf) % (2 * WordHalf)) - WordHalf

TruncDiv(x, d) == IF x >= 0 THEN x \div d ELSE -((-x) \div d)

CostOf(tokens, p) == TruncDiv(Wrap(tokens * p), Unit)

MaxTokens(a, b) == IF a > b THEN a ELSE b

\* ResolveModelPriceMicros falls back to the default on a store error
ResolvedPrices == {price} \cup (IF StoreMayFail THEN {DefaultPrice} ELSE {})

\* WHERE key_value = u AND balance_micros >= n
CanPay(u, n) == accts[u].live /\ accts[u].balance >= n

-----------------------------------------------------------------------------
Init ==
  \* SeedFromConfig: some keys, each with its balance and no ledger entry
  /\ \E seeded \in SUBSET Users, b \in [Users -> OpeningBalances] :
        accts = [u \in Users |-> IF u \in seeded THEN [live |-> TRUE, balance |-> b[u]]
                                                 ELSE Absent]
  /\ ledger = [u \in Users |-> 0]
  /\ charges = 0 /\ usageRows = 0
  /\ price \in Prices \cup {DefaultPrice}
  /\ known = Live
  /\ pc = [h \in Handlers |-> "idle"]
  /\ req = [h \in Handlers |-> NoReq]
  /\ admitted = 0
  /\ opening = Balances
  /\ raced = [h \in Handlers |-> FALSE]
  /\ missed = 0

Goto(h, stage) == pc' = [pc EXCEPT ![h] = stage]

Finish(h) == Goto(h, "idle") /\ req' = [req EXCEPT ![h] = NoReq]

\* the requests between check and deduction that count on u's balance
Relying(u) == {h \in Handlers : /\ req[h].user = u
                                /\ pc[h] \in {"serve", "price", "deduct"}}

MarkRaced(hs) == raced' = [h \in Handlers |-> raced[h] \/ h \in hs]

-----------------------------------------------------------------------------
(* The steps of handleProxy that concern money.                            *)

\* authenticateUser, allowed models, rules: the key is taken from the snapshot
Admit(h, u, estimated) ==
  /\ pc[h] = "idle" /\ admitted < MaxRequests
  /\ u \in known
  /\ Goto(h, "estimate")
  /\ req' = [req EXCEPT ![h] = [NoReq EXCEPT !.user = u, !.tokens = estimated]]
  /\ admitted' = admitted + 1
  /\ UNCHANGED <<store, known, opening, raced, missed>>

\* an estimate that costs nothing is not checked
Estimate(h) ==
  /\ pc[h] = "estimate"
  /\ \E p \in ResolvedPrices :
       LET cost == CostOf(req[h].tokens, p)
       IN  /\ req' = [req EXCEPT ![h].estimate = cost]
           /\ Goto(h, IF cost > 0 THEN "check" ELSE "serve")
  /\ raced' = [raced EXCEPT ![h] = FALSE]
  /\ UNCHANGED <<store, known, admitted, opening, missed>>

\* FindAPIKeyByValue and the comparison with the live balance
CheckPasses(h) ==
  /\ pc[h] = "check"
  /\ CanPay(req[h].user, req[h].estimate)
  /\ Goto(h, "serve")
  /\ raced' = [raced EXCEPT ![h] = FALSE]
  /\ UNCHANGED <<store, known, req, admitted, opening, missed>>

\* 401 when the row is not found or not read, 402 when the balance is short
CheckRefuses(h) ==
  /\ pc[h] = "check"
  /\ StoreMayFail \/ ~CanPay(req[h].user, req[h].estimate)
  /\ Finish(h)
  /\ UNCHANGED <<store, known, admitted, opening, raced, missed>>

\* a limiter, the selection or the upstream refuses: 429, 503, 502
NotServed(h) ==
  /\ pc[h] = "serve"
  /\ Finish(h)
  /\ UNCHANGED <<store, known, admitted, opening, raced, missed>>

\* the answer is written to the client; its usage may exceed the estimate
Served(h, total) ==
  /\ pc[h] = "serve"
  /\ Goto(h, "price")
  /\ req' = [req EXCEPT ![h].tokens = MaxTokens(@, total)]
  /\ UNCHANGED <<store, known, admitted, opening, raced, missed>>

PriceActual(h) ==
  /\ pc[h] = "price"
  /\ \E p \in ResolvedPrices :
       LET cost == CostOf(req[h].tokens, p)
       IN  /\ req' = [req EXCEPT ![h].cost = cost]
           /\ Goto(h, IF cost > 0 THEN "deduct" ELSE "record")
  /\ UNCHANGED <<store, known, admitted, opening, raced, missed>>

\* the two statements of DeductAPIKeyBalance's transaction
PostDebit(u, n) ==
  /\ accts' = [accts EXCEPT ![u].balance = @ - n]
  /\ ledger' = [ledger EXCEPT ![u] = @ - n]

Deduct(h) ==
  LET u == req[h].user
  IN  /\ pc[h] = "deduct"
      /\ CanPay(u, req[h].cost)
      /\ PostDebit(u, req[h].cost)
      /\ charges' = charges + 1
      /\ req' = [req EXCEPT ![h].charged = TRUE]
      /\ MarkRaced(Relying(u) \ {h})
      /\ Goto(h, "reload")
      /\ UNCHANGED <<usageRows, price, known, admitted, opening, missed>>

\* insufficient balance, or an error of the store: logged, the answer is out
DeductFails(h) ==
  /\ pc[h] = "deduct"
  /\ StoreMayFail \/ ~CanPay(req[h].user, req[h].cost)
  /\ Goto(h, "reload")
  /\ UNCHANGED <<store, known, req, admitted, opening, raced, missed>>

ReloadAfterCharge(h) ==
  /\ pc[h] = "reload"
  /\ known' \in {Live} \cup (IF StoreMayFail THEN {known} ELSE {})
  /\ Goto(h, "record")
  /\ UNCHANGED <<store, req, admitted, opening, raced, missed>>

AddUsage(h) ==
  /\ pc[h] = "record"
  /\ \/ usageRows' = usageRows + 1 /\ missed' = missed
     \/ /\ StoreMayFail
        /\ missed' = missed + (IF req[h].charged THEN 1 ELSE 0)
        /\ usageRows' = usageRows
  /\ Finish(h)
  /\ UNCHANGED <<accts, ledger, charges, price, known, admitted, opening, raced>>

-----------------------------------------------------------------------------
(* The admin handlers that touch keys, money or prices.                    *)

\* TopupAPIKeyBalance: the update matches no row when the key is gone, the
\* ledger entry is inserted all the same
Topup(u, amount) ==
  /\ ledger[u] + amount <= MaxLedger
  /\ accts' = IF accts[u].live THEN [accts EXCEPT ![u].balance = @ + amount] ELSE accts
  /\ ledger' = [ledger EXCEPT ![u] = @ + amount]
  /\ UNCHANGED <<charges, usageRows, price, known, pc, req, admitted, opening, raced, missed>>

\* POST /admin/api-keys decodes no balance, so every upsert writes 0 over it:
\* a new or existing key value, or the row of u renamed to v
UpsertKey(v) ==
  /\ accts' = [accts EXCEPT ![v] = [live |-> TRUE, balance |-> 0]]
  /\ MarkRaced(Relying(v))
  /\ UNCHANGED <<ledger, charges, usageRows, price, known, pc, req, admitted, opening, missed>>

UpdateKeyByID(u, v) ==
  /\ accts[u].live
  /\ v = u \/ ~accts[v].live
  /\ accts' = [[accts EXCEPT ![u] = Absent] EXCEPT ![v] = [live |-> TRUE, balance |-> 0]]
  /\ MarkRaced(Relying(u))
  /\ UNCHANGED <<ledger, charges, usageRows, price, known, pc, req, admitted, opening, missed>>

DeleteKey(u) ==
  /\ accts[u].live
  /\ accts' = [accts EXCEPT ![u] = Absent]
  /\ MarkRaced(Relying(u))
  /\ UNCHANGED <<ledger, charges, usageRows, price, known, pc, req, admitted, opening, missed>>

\* UpsertPriceRule and DeletePriceRule
SetPrice(p) ==
  /\ price' = p
  /\ UNCHANGED <<accts, ledger, charges, usageRows, known, pc, req, admitted, opening, raced, missed>>

\* a reload by the ticker or an admin handler
Reload ==
  /\ known' = Live
  /\ UNCHANGED <<store, pc, req, admitted, opening, raced, missed>>

\* a crash and a restart: the store survives, the requests do not
Restart ==
  /\ MayCrash
  /\ pc' = [h \in Handlers |-> "idle"]
  /\ req' = [h \in Handlers |-> NoReq]
  /\ missed' = missed + Cardinality(Charged)
  /\ known' = Live
  /\ UNCHANGED <<store, admitted, opening, raced>>

Request(h) ==
  \/ \E u \in Users, estimated \in Tokens : Admit(h, u, estimated)
  \/ Estimate(h)
  \/ CheckPasses(h)
  \/ CheckRefuses(h)
  \/ NotServed(h)
  \/ \E total \in Tokens : Served(h, total)
  \/ PriceActual(h)
  \/ Deduct(h)
  \/ DeductFails(h)
  \/ ReloadAfterCharge(h)
  \/ AddUsage(h)

Admin ==
  \/ \E u \in Users, amount \in TopupAmounts : Topup(u, amount)
  \/ \E v \in Users : UpsertKey(v)
  \/ \E u, v \in Users : UpdateKeyByID(u, v)
  \/ \E u \in Users : DeleteKey(u)
  \/ \E p \in Prices \cup {DefaultPrice} : SetPrice(p)

Next == (\E h \in Handlers : Request(h)) \/ Admin \/ Reload \/ Restart

Spec == Init /\ [][Next]_vars

-----------------------------------------------------------------------------
Word == -WordHalf .. WordHalf - 1

\* Type invariant; costs are int64 values.
TypeOK ==
  /\ accts \in [Users -> [live : BOOLEAN, balance : Int]]
  /\ ledger \in [Users -> Int]
  /\ charges \in Nat /\ usageRows \in Nat /\ missed \in Nat /\ admitted \in Nat
  /\ price \in Prices \cup {DefaultPrice}
  /\ known \subseteq Users
  /\ pc \in [Handlers -> Stages]
  /\ req \in [Handlers -> [user : Users \cup {NoUser}, tokens : Nat, estimate : Word,
                           cost : Word, charged : BOOLEAN]]
  /\ opening \in [Users -> Nat]
  /\ raced \in [Handlers -> BOOLEAN]

\* However requests and administrators interleave, a balance never goes below
\* zero and never above what was put on the key and entered in the ledger: no
\* key is charged more than its opening balance and its top-ups.
CreditBacksBalance ==
  \A u \in Users : 0 <= Bal(u) /\ Bal(u) <= opening[u] + ledger[u]

\* The check before forwarding is enough when nothing else takes from the key
\* between check and deduction and the answer costs no more than its estimate:
\* then a served request is never left unpaid.
UncontestedChargeSucceeds ==
  \A h \in Handlers :
    (pc[h] = "deduct" /\ ~raced[h] /\ req[h].cost <= req[h].estimate)
    => CanPay(req[h].user, req[h].cost)

\* Every usage entry of the ledger has its usage record, is about to get it, or
\* belongs to a request whose record a crash or a store error took.
UsageCoversCharges == charges <= usageRows + missed + Cardinality(Charged)

\* Requests and admin handlers move money only as the wallet allows: balance and
\* ledger in one step, and never more than there is.
W == INSTANCE Wallet WITH balance <- Balances
ImplementsWallet == W!WalletSpec
=============================================================================
