---------------------------- MODULE BillingProofs ----------------------------
(***************************************************************************)
(* Proofs about Billing for every set of keys and requests, every price,   *)
(* token count, word size and unit.                                        *)
(*                                                                         *)
(* UncontestedChargeSucceeds speaks of a request about to deduct.  What    *)
(* makes it true is older: since the check, and through the whole upstream *)
(* call, the balance has covered the estimate unless something took from   *)
(* it.  Covered states that for every stage after the check.               *)
(***************************************************************************)
EXTENDS Billing, FiniteSetTheorems, TLAPS

Committed == {"serve", "price", "deduct"}

\* the check of an uncontested request still holds
Covered ==
  \A h \in Handlers :
    (pc[h] \in Committed /\ ~raced[h] /\ req[h].estimate > 0)
    => CanPay(req[h].user, req[h].estimate)

StagesSound ==
  \A h \in Handlers : /\ pc[h] # "idle" => req[h].user \in Users
                      /\ pc[h] = "deduct" => req[h].cost > 0

AbsentIsEmpty == \A u \in Users : ~accts[u].live => accts[u].balance = 0

BillingInv == TypeOK /\ StagesSound /\ AbsentIsEmpty /\ CreditBacksBalance /\ Covered

-----------------------------------------------------------------------------
(* Arithmetic.                                                             *)

\* A remainder is smaller than what it is taken by.
LEMMA RemainderInRange ==
  ASSUME NEW x \in Int, NEW m \in Nat \ {0}
  PROVE  x % m \in 0 .. m - 1
  OBVIOUS

\* A wrapped product is an int64.
LEMMA WrapIsWord ==
  ASSUME NEW x \in Int
  PROVE  Wrap(x) \in Word
<1>1. 2 * WordHalf \in Nat \ {0} /\ x + WordHalf \in Int
  BY BillingAssumption
<1>2. (x + WordHalf) % (2 * WordHalf) \in 0 .. (2 * WordHalf - 1)
  BY <1>1, RemainderInRange
<1>3. QED
  BY <1>2, BillingAssumption DEF Wrap, Word

\* Truncating division makes nothing larger.
LEMMA DivisionShrinks ==
  ASSUME NEW x \in Nat, NEW d \in Nat \ {0}
  PROVE  x \div d \in 0 .. x
<1>1. /\ x \div d \in Int
      /\ x = d * (x \div d) + (x % d)
      /\ x % d \in 0 .. d - 1
  OBVIOUS
<1>2. x \div d >= 0
  BY <1>1
<1>3. d * (x \div d) >= x \div d
  BY <1>1, <1>2
<1>4. QED
  BY <1>1, <1>2, <1>3

\* A cost is an int64.
LEMMA CostIsWord ==
  ASSUME NEW t \in Int, NEW p \in Int
  PROVE  CostOf(t, p) \in Word
<1>1. t * p \in Int
  OBVIOUS
<1>2. ASSUME NEW x \in Word PROVE TruncDiv(x, Unit) \in Word
  <2>1. CASE x >= 0
    BY <2>1, DivisionShrinks, BillingAssumption DEF TruncDiv, Word
  <2>2. CASE x < 0
    BY <2>2, DivisionShrinks, BillingAssumption DEF TruncDiv, Word
  <2>3. QED
    BY <2>1, <2>2, BillingAssumption DEF Word
<1>3. QED
  BY <1>1, <1>2, WrapIsWord DEF CostOf

\* A product that fits a word is itself.
LEMMA WrapIsIdentity ==
  ASSUME NEW x \in 0 .. WordHalf - 1
  PROVE  Wrap(x) = x
<1> DEFINE h == WordHalf
           y == x + h
<1>1. h \in Nat \ {0} /\ x \in 0 .. h - 1
  BY BillingAssumption
<1> HIDE DEF h
<1>2. y \in 0 .. 2 * h - 1 /\ 2 * h \in Nat \ {0}
  BY <1>1
<1>3. y % (2 * h) = y
  <2> DEFINE n == 2 * h
  <2>1. n \in Nat \ {0} /\ y \in 0 .. n - 1
    BY <1>2
  <2> HIDE DEF n, y
  <2>2. y % n = y
    BY <2>1
  <2>3. QED
    BY <2>2 DEF n
<1>4. Wrap(x) = (y % (2 * h)) - h
  BY DEF Wrap, h
<1>5. QED
  BY <1>1, <1>3, <1>4

\* What int64 and the truncating division do to a price: as long as tokens times price
\* fits an int64, a cost is never negative and never rounded up, and a request loses the
\* gateway less than one micro.
THEOREM CostIsExact ==
  ASSUME NEW t \in Nat, NEW p \in Nat, t * p < WordHalf
  PROVE  /\ CostOf(t, p) \in Nat
         /\ Unit * CostOf(t, p) <= t * p /\ t * p < Unit * CostOf(t, p) + Unit
<1> DEFINE x == t * p
           d == Unit
           q == x \div d
<1>1. x \in Nat /\ x < WordHalf /\ d \in Nat \ {0} /\ WordHalf \in Nat
  BY BillingAssumption
<1>2. CostOf(t, p) = q
  <2>1. CostOf(t, p) = TruncDiv(Wrap(x), d)
    BY DEF CostOf
  <2> HIDE DEF x, d
  <2>2. x \in 0 .. WordHalf - 1
    BY <1>1
  <2>3. QED
    BY <1>1, <2>1, <2>2, WrapIsIdentity DEF TruncDiv
<1> HIDE DEF x, d
<1>3. q \in Nat
  BY <1>1, DivisionShrinks
<1>4. x = d * q + (x % d) /\ x % d \in 0 .. d - 1
  BY <1>1
<1> HIDE DEF q
<1>5. d * q \in Nat
  BY <1>1, <1>3
<1>6. d * q <= x /\ x < d * q + d
  BY <1>1, <1>4, <1>5
<1>7. QED
  BY <1>2, <1>3, <1>6 DEF x, d

\* With no overflow, an answer with more tokens at a price no lower costs no less: an
\* answer within its estimate, at the price of the estimate, is within what was checked.
THEOREM CostIsMonotone ==
  ASSUME NEW t \in Nat, NEW p \in Nat, NEW more \in Nat, NEW dearer \in Nat,
         t <= more, p <= dearer, more * dearer < WordHalf
  PROVE  CostOf(t, p) <= CostOf(more, dearer)
<1>1. t * p <= more * dearer
  <2>1. t * p <= more * p /\ more * p <= more * dearer
    BY Z3
  <2>2. t * p \in Nat /\ more * p \in Nat /\ more * dearer \in Nat
    OBVIOUS
  <2>3. QED
    BY <2>1, <2>2
<1> DEFINE x == t * p
           y == more * dearer
           a == CostOf(t, p)
           b == CostOf(more, dearer)
<1>2. x \in Nat /\ y \in Nat /\ WordHalf \in Nat /\ Unit \in Nat \ {0}
  BY BillingAssumption
<1>3. x < WordHalf
  BY <1>1, <1>2
<1>4. a \in Nat /\ Unit * a <= x
  BY <1>3, CostIsExact
<1>5. b \in Nat /\ y < Unit * b + Unit
  BY CostIsExact
<1> HIDE DEF x, y, a, b
<1>6. ASSUME b + 1 <= a PROVE FALSE
  <2>1. Unit * (b + 1) <= Unit * a
    BY <1>2, <1>4, <1>5, <1>6
  <2>2. Unit * (b + 1) = Unit * b + Unit /\ Unit * b \in Nat /\ Unit * a \in Nat
    BY <1>2, <1>4, <1>5
  <2>3. QED
    BY <1>1, <1>2, <1>4, <1>5, <2>1, <2>2 DEF x, y
<1>7. QED
  BY <1>4, <1>5, <1>6 DEF a, b

-----------------------------------------------------------------------------
(* Types.                                                                  *)

ReqType == [user : Users \cup {NoUser}, tokens : Nat, estimate : Word,
            cost : Word, charged : BOOLEAN]

Acct == [live : BOOLEAN, balance : Int]

\* The records the steps make up are well-typed.
LEMMA RecordTypes ==
  /\ NoReq \in ReqType /\ Absent \in Acct
  /\ \A n \in Int : [live |-> TRUE, balance |-> n] \in Acct
  BY BillingAssumption DEF NoReq, ReqType, Word, Absent, Acct

\* Whatever ResolveModelPriceMicros returns is an integer.
LEMMA PricesAreInts ==
  ASSUME TypeOK
  PROVE  ResolvedPrices \subseteq Int
  BY BillingAssumption DEF ResolvedPrices, TypeOK

\* There is a number of charged requests.
LEMMA ChargedCount == Cardinality(Charged) \in Nat
<1>1. IsFiniteSet(Charged)
  BY FS_Subset, BillingAssumption DEF Charged
<1>2. QED
  BY <1>1, FS_CardinalityType

\* The fields a request's steps set are well-typed.
LEMMA ReqUpdates ==
  ASSUME NEW r \in ReqType
  PROVE  /\ \A c \in Word : [r EXCEPT !.estimate = c] \in ReqType
         /\ \A c \in Word : [r EXCEPT !.cost = c] \in ReqType
         /\ \A t \in Nat : [r EXCEPT !.tokens = t] \in ReqType
         /\ [r EXCEPT !.charged = TRUE] \in ReqType
  BY DEF ReqType

\* The inductive invariant holds of the seeded keys, none with a request.
LEMMA InitInv == Init => BillingInv
<1> SUFFICES ASSUME Init PROVE BillingInv
  OBVIOUS
<1>1. PICK seeded \in SUBSET Users, b \in [Users -> OpeningBalances] :
        accts = [u \in Users |-> IF u \in seeded THEN [live |-> TRUE, balance |-> b[u]]
                                                  ELSE Absent]
  BY DEF Init
<1>2. ASSUME NEW u \in Users
      PROVE  accts[u] \in Acct /\ accts[u].balance \in Nat
             /\ (~accts[u].live => accts[u].balance = 0)
  <2>1. b[u] \in Nat
    BY BillingAssumption
  <2>2. CASE u \in seeded
    BY <1>1, <2>1, <2>2 DEF Acct
  <2>3. CASE u \notin seeded
    BY <1>1, <2>3 DEF Acct, Absent
  <2>4. QED
    BY <2>2, <2>3
<1>3. accts \in [Users -> Acct]
  BY <1>1, <1>2
<1>4. TypeOK
  <2>1. opening \in [Users -> Nat]
    BY <1>2 DEF Init, Balances, Bal
  <2>2. req \in [Handlers -> ReqType]
    BY RecordTypes DEF Init
  <2>3. QED
    BY <1>3, <2>1, <2>2 DEF Init, TypeOK, Acct, ReqType, Live, Stages
<1>5. StagesSound /\ Covered
  BY DEF Init, StagesSound, Covered, Committed
<1>6. AbsentIsEmpty
  BY <1>2 DEF AbsentIsEmpty
<1>7. CreditBacksBalance
  <2>1. ASSUME NEW u \in Users
        PROVE  opening[u] = accts[u].balance /\ ledger[u] = 0
    BY DEF Init, Balances, Bal
  <2>2. QED
    BY <1>2, <2>1 DEF CreditBacksBalance, Bal
<1>8. QED
  BY <1>4, <1>5, <1>6, <1>7 DEF BillingInv


-----------------------------------------------------------------------------
(* The steps of a request that leave money alone.                          *)

\* What such a step of h may do.
Quiet(h) ==
  /\ UNCHANGED <<accts, ledger, charges, price, opening>>
  /\ req' \in [Handlers -> ReqType]
  /\ pc' \in [Handlers -> Stages]
  /\ raced' \in [Handlers -> BOOLEAN]
  /\ known' \in {known, Live}
  /\ admitted' \in Nat /\ usageRows' \in Nat /\ missed' \in Nat
  /\ \A g \in Handlers \ {h} : pc'[g] = pc[g] /\ req'[g] = req[g] /\ raced'[g] = raced[g]
  /\ pc'[h] # "idle" => req'[h].user \in Users
  /\ pc'[h] = "deduct" => req'[h].cost > 0
  /\ (pc'[h] \in Committed /\ ~raced'[h] /\ req'[h].estimate > 0)
       => CanPay(req'[h].user, req'[h].estimate)

\* A step of a request that moves no money keeps the invariant.
LEMMA QuietKeepsInv ==
  ASSUME BillingInv, NEW h \in Handlers, Quiet(h)
  PROVE  BillingInv'
<1>1. TypeOK'
  BY DEF BillingInv, TypeOK, Quiet, ReqType, Live
<1>2. StagesSound'
  BY DEF BillingInv, StagesSound, Quiet
<1>3. AbsentIsEmpty' /\ CreditBacksBalance'
  BY DEF BillingInv, AbsentIsEmpty, CreditBacksBalance, Bal, Quiet
<1>4. Covered'
  BY DEF BillingInv, Covered, CanPay, Quiet
<1>5. QED
  BY <1>1, <1>2, <1>3, <1>4 DEF BillingInv

\* Admitting a request moves no money.
LEMMA AdmitIsQuiet ==
  ASSUME BillingInv, NEW h \in Handlers, NEW u \in Users, NEW estimated \in Tokens,
         Admit(h, u, estimated)
  PROVE  Quiet(h)
<1> DEFINE r == [NoReq EXCEPT !.user = u, !.tokens = estimated]
<1>1. r \in ReqType /\ r.user = u
  <2>1. [NoReq EXCEPT !.user = u] \in ReqType
    BY RecordTypes DEF ReqType
  <2>2. \A q \in ReqType : [q EXCEPT !.tokens = estimated] \in ReqType
                           /\ [q EXCEPT !.tokens = estimated].user = q.user
    BY BillingAssumption DEF ReqType
  <2>3. r = [[NoReq EXCEPT !.user = u] EXCEPT !.tokens = estimated]
    OBVIOUS
  <2>4. [NoReq EXCEPT !.user = u].user = u
    BY DEF NoReq
  <2>5. QED
    BY <2>1, <2>2, <2>3, <2>4
<1> HIDE DEF r
<1>2. /\ pc' = [pc EXCEPT ![h] = "estimate"] /\ req' = [req EXCEPT ![h] = r]
      /\ UNCHANGED <<store, known, opening, raced, missed>> /\ admitted' = admitted + 1
  BY DEF Admit, Goto, r
<1>3. /\ pc \in [Handlers -> Stages] /\ req \in [Handlers -> ReqType]
      /\ raced \in [Handlers -> BOOLEAN]
      /\ admitted \in Nat /\ usageRows \in Nat /\ missed \in Nat
  BY DEF BillingInv, TypeOK, ReqType
<1>4. QED
  BY <1>1, <1>2, <1>3 DEF Stages, store, Quiet, Committed

\* Neither the estimate nor the actual price moves money.
LEMMA PricingIsQuiet ==
  ASSUME BillingInv, NEW h \in Handlers, Estimate(h) \/ PriceActual(h)
  PROVE  Quiet(h)
<1>1. /\ pc \in [Handlers -> Stages] /\ req \in [Handlers -> ReqType]
      /\ raced \in [Handlers -> BOOLEAN]
      /\ admitted \in Nat /\ usageRows \in Nat /\ missed \in Nat
  BY DEF BillingInv, TypeOK, ReqType
<1>2. req[h].tokens \in Int
  BY <1>1 DEF ReqType
<1>3. CASE Estimate(h)
  <2>1. PICK p \in ResolvedPrices :
          /\ req' = [req EXCEPT ![h].estimate = CostOf(req[h].tokens, p)]
          /\ pc' = [pc EXCEPT ![h] = IF CostOf(req[h].tokens, p) > 0 THEN "check" ELSE "serve"]
    BY <1>3 DEF Estimate, Goto
  <2>2. CostOf(req[h].tokens, p) \in Word
    BY <1>2, PricesAreInts, CostIsWord DEF BillingInv
  <2>3. [req[h] EXCEPT !.estimate = CostOf(req[h].tokens, p)] \in ReqType
    BY <1>1, <2>2, ReqUpdates
  <2>4. req[h].user \in Users
    BY <1>3 DEF Estimate, BillingInv, StagesSound
  <2>5. QED
    BY <1>1, <1>3, <2>1, <2>2, <2>3, <2>4 DEF Estimate, store, Quiet, Committed, Stages, ReqType
<1>4. CASE PriceActual(h)
  <2>1. PICK p \in ResolvedPrices :
          /\ req' = [req EXCEPT ![h].cost = CostOf(req[h].tokens, p)]
          /\ pc' = [pc EXCEPT ![h] = IF CostOf(req[h].tokens, p) > 0 THEN "deduct" ELSE "record"]
    BY <1>4 DEF PriceActual, Goto
  <2>2. CostOf(req[h].tokens, p) \in Word
    BY <1>2, PricesAreInts, CostIsWord DEF BillingInv
  <2>3. [req[h] EXCEPT !.cost = CostOf(req[h].tokens, p)] \in ReqType
    BY <1>1, <2>2, ReqUpdates
  <2>4. req[h].user \in Users /\ pc[h] \in Committed
    BY <1>4 DEF PriceActual, BillingInv, StagesSound, Committed
  <2>5. req'[h].user = req[h].user /\ req'[h].estimate = req[h].estimate
        /\ req'[h].cost = CostOf(req[h].tokens, p)
    BY <1>1, <2>1 DEF ReqType
  <2>6. QED
    BY <1>1, <1>4, <2>1, <2>3, <2>4, <2>5
       DEF PriceActual, store, Quiet, Stages, BillingInv, Covered
<1>5. QED
  BY <1>3, <1>4

\* A passed check moves no money, and leaves its request covered.
LEMMA CheckIsQuiet ==
  ASSUME BillingInv, NEW h \in Handlers, CheckPasses(h)
  PROVE  Quiet(h)
<1>1. /\ pc \in [Handlers -> Stages] /\ req \in [Handlers -> ReqType]
      /\ raced \in [Handlers -> BOOLEAN]
      /\ admitted \in Nat /\ usageRows \in Nat /\ missed \in Nat
  BY DEF BillingInv, TypeOK, ReqType
<1>2. req[h].user \in Users /\ CanPay(req[h].user, req[h].estimate)
  BY DEF CheckPasses, BillingInv, StagesSound
<1>3. QED
  BY <1>1, <1>2 DEF CheckPasses, Goto, Stages, store, Quiet, Committed

\* Serving the answer moves no money and takes no coverage away.
LEMMA ServingIsQuiet ==
  ASSUME BillingInv, NEW h \in Handlers, NEW total \in Tokens, Served(h, total)
  PROVE  Quiet(h)
<1>1. /\ pc \in [Handlers -> Stages] /\ req \in [Handlers -> ReqType]
      /\ raced \in [Handlers -> BOOLEAN]
      /\ admitted \in Nat /\ usageRows \in Nat /\ missed \in Nat
  BY DEF BillingInv, TypeOK, ReqType
<1>2. MaxTokens(req[h].tokens, total) \in Nat
  BY <1>1, BillingAssumption DEF MaxTokens, ReqType
<1> DEFINE r == [req[h] EXCEPT !.tokens = MaxTokens(@, total)]
<1>3. r \in ReqType /\ r.user = req[h].user /\ r.estimate = req[h].estimate
  BY <1>1, <1>2 DEF ReqType
<1>4. req' = [req EXCEPT ![h] = r] /\ pc' = [pc EXCEPT ![h] = "price"]
  BY DEF Served, Goto
<1>5. req[h].user \in Users
      /\ (~raced[h] /\ req[h].estimate > 0 => CanPay(req[h].user, req[h].estimate))
  BY DEF Served, BillingInv, StagesSound, Covered, Committed
<1> HIDE DEF r
<1>6. QED
  BY <1>1, <1>3, <1>4, <1>5 DEF Served, Stages, store, Quiet

\* No money moves in refusals, a deduction that fails, the reload and the usage row
LEMMA EndingIsQuiet ==
  ASSUME BillingInv, NEW h \in Handlers,
         \/ CheckRefuses(h) \/ NotServed(h) \/ DeductFails(h)
         \/ ReloadAfterCharge(h) \/ AddUsage(h)
  PROVE  Quiet(h)
<1>1. /\ pc \in [Handlers -> Stages] /\ req \in [Handlers -> ReqType]
      /\ raced \in [Handlers -> BOOLEAN]
      /\ admitted \in Nat /\ usageRows \in Nat /\ missed \in Nat
  BY DEF BillingInv, TypeOK, ReqType
<1>2. req[h].user \in Users \/ pc[h] = "idle"
  BY DEF BillingInv, StagesSound
<1>3. CASE CheckRefuses(h) \/ NotServed(h)
  BY <1>1, <1>3, RecordTypes
     DEF CheckRefuses, NotServed, Finish, Goto, Stages, store, Quiet, Committed
<1>4. CASE DeductFails(h) \/ ReloadAfterCharge(h)
  <2>1. /\ UNCHANGED <<store, req, admitted, opening, raced, missed>>
        /\ known' \in {known, Live}
        /\ \E l \in {"reload", "record"} : pc' = [pc EXCEPT ![h] = l]
        /\ pc[h] # "idle"
    BY <1>4 DEF DeductFails, ReloadAfterCharge, Goto
  <2>2. QED
    BY <1>1, <1>2, <2>1 DEF Stages, store, Quiet, Committed
<1>5. CASE AddUsage(h)
  <2>1. usageRows' \in Nat /\ missed' \in Nat
    BY <1>1, <1>5 DEF AddUsage
  <2>2. QED
    BY <1>1, <1>5, <2>1, RecordTypes DEF AddUsage, Finish, Goto, Stages, Quiet, Committed
<1>6. QED
  BY <1>3, <1>4, <1>5

-----------------------------------------------------------------------------
(* The steps that move money.                                              *)

\* A deduction takes what the balance has, and marks every request that relied on it.
LEMMA DeductKeepsInv ==
  ASSUME BillingInv, NEW h \in Handlers, Deduct(h)
  PROVE  BillingInv'
<1> DEFINE u == req[h].user
           n == req[h].cost
<1>1. /\ accts \in [Users -> Acct] /\ ledger \in [Users -> Int]
      /\ pc \in [Handlers -> Stages] /\ req \in [Handlers -> ReqType]
      /\ raced \in [Handlers -> BOOLEAN] /\ opening \in [Users -> Nat]
      /\ charges \in Nat
  BY DEF BillingInv, TypeOK, ReqType, Acct
<1>2. u \in Users /\ n \in Int /\ n > 0 /\ CanPay(u, n)
  BY <1>1, BillingAssumption DEF Deduct, BillingInv, StagesSound, ReqType, Word
<1>3. /\ accts' = [accts EXCEPT ![u].balance = @ - n]
      /\ ledger' = [ledger EXCEPT ![u] = @ - n]
      /\ charges' = charges + 1
      /\ pc' = [pc EXCEPT ![h] = "reload"]
      /\ req' = [req EXCEPT ![h].charged = TRUE]
      /\ raced' = [g \in Handlers |-> raced[g] \/ g \in Relying(u) \ {h}]
      /\ UNCHANGED <<usageRows, price, known, admitted, opening, missed>>
  BY DEF Deduct, PostDebit, MarkRaced, Goto
<1>4. /\ accts'[u].live = accts[u].live /\ accts'[u].balance = accts[u].balance - n
      /\ accts' \in [Users -> Acct]
      /\ \A v \in Users \ {u} : accts'[v] = accts[v]
  <2>1. [accts[u] EXCEPT !.balance = @ - n] \in Acct
    BY <1>1, <1>2 DEF Acct
  <2>2. QED
    BY <1>1, <1>2, <1>3, <2>1 DEF Acct
<1>5. /\ ledger'[u] = ledger[u] - n /\ ledger' \in [Users -> Int]
      /\ \A v \in Users \ {u} : ledger'[v] = ledger[v]
  BY <1>1, <1>2, <1>3
<1>6. req' \in [Handlers -> ReqType] /\ req'[h].user = u
      /\ \A g \in Handlers \ {h} : req'[g] = req[g] /\ pc'[g] = pc[g]
  BY <1>1, <1>3, ReqUpdates DEF ReqType
<1>7. TypeOK'
  <2>1. raced' \in [Handlers -> BOOLEAN]
    BY <1>1, <1>3
  <2>2. pc' \in [Handlers -> Stages]
    BY <1>1, <1>3 DEF Stages
  <2>3. QED
    BY <1>3, <1>4, <1>5, <1>6, <2>1, <2>2 DEF BillingInv, TypeOK, Acct, ReqType
<1>8. StagesSound'
  BY <1>1, <1>2, <1>3, <1>6 DEF BillingInv, StagesSound
<1>9. AbsentIsEmpty'
  BY <1>2, <1>4 DEF BillingInv, AbsentIsEmpty, CanPay
<1>10. CreditBacksBalance'
  <2>1. ASSUME NEW v \in Users
        PROVE  0 <= accts'[v].balance /\ accts'[v].balance <= opening[v] + ledger'[v]
    <3>1. 0 <= accts[v].balance /\ accts[v].balance <= opening[v] + ledger[v]
      BY DEF BillingInv, CreditBacksBalance, Bal
    <3>2. CASE v = u
      BY <1>1, <1>2, <1>4, <1>5, <3>1, <3>2 DEF CanPay, Acct
    <3>3. CASE v # u
      BY <1>4, <1>5, <3>1, <3>3
    <3>4. QED
      BY <3>2, <3>3
  <2>2. QED
    BY <1>3, <2>1 DEF CreditBacksBalance, Bal
<1>11. Covered'
  <2>1. ASSUME NEW g \in Handlers, pc'[g] \in Committed, ~raced'[g], req'[g].estimate > 0
        PROVE  CanPay(req[g].user, req[g].estimate)'
    <3>1. g # h
      BY <1>1, <1>3, <2>1 DEF Committed
    <3>2. ~raced[g] /\ g \notin Relying(u) /\ pc[g] \in Committed /\ req[g].estimate > 0
      BY <1>3, <1>6, <2>1, <3>1
    <3>3. CanPay(req[g].user, req[g].estimate)
      BY <3>2 DEF BillingInv, Covered
    <3>4. req[g].user \in Users \ {u}
      BY <3>2 DEF Relying, Committed, BillingInv, StagesSound
    <3>5. QED
      BY <1>4, <1>6, <3>1, <3>3, <3>4 DEF CanPay
  <2>2. QED
    BY <2>1 DEF Covered
<1>12. QED
  BY <1>7, <1>8, <1>9, <1>10, <1>11 DEF BillingInv

\* A top-up raises the ledger by what it raises the balance, or by more.
LEMMA TopupKeepsInv ==
  ASSUME BillingInv, NEW u \in Users, NEW n \in TopupAmounts, Topup(u, n)
  PROVE  BillingInv'
<1>1. /\ accts \in [Users -> Acct] /\ ledger \in [Users -> Int] /\ opening \in [Users -> Nat]
      /\ n \in Nat \ {0}
  BY BillingAssumption DEF BillingInv, TypeOK, Acct
<1>2. /\ UNCHANGED <<charges, usageRows, price, known, pc, req, admitted, opening, raced, missed>>
      /\ accts' = IF accts[u].live THEN [accts EXCEPT ![u].balance = @ + n] ELSE accts
      /\ ledger' = [ledger EXCEPT ![u] = @ + n]
  BY DEF Topup
<1>3. [accts[u] EXCEPT !.balance = @ + n] \in Acct
  BY <1>1 DEF Acct
<1>4. /\ accts' \in [Users -> Acct]
      /\ \A v \in Users : /\ accts'[v].live = accts[v].live
                          /\ v # u => accts'[v] = accts[v]
      /\ accts'[u].balance = IF accts[u].live THEN accts[u].balance + n ELSE accts[u].balance
  BY <1>1, <1>2, <1>3 DEF Acct
<1>5. /\ ledger' \in [Users -> Int] /\ ledger'[u] = ledger[u] + n
      /\ \A v \in Users \ {u} : ledger'[v] = ledger[v]
  BY <1>1, <1>2
<1>6. TypeOK'
  BY <1>2, <1>4, <1>5 DEF BillingInv, TypeOK, Acct
<1>7. StagesSound' /\ AbsentIsEmpty'
  BY <1>2, <1>4 DEF BillingInv, StagesSound, AbsentIsEmpty
<1>8. CreditBacksBalance'
  <2>1. ASSUME NEW v \in Users
        PROVE  0 <= accts'[v].balance /\ accts'[v].balance <= opening[v] + ledger'[v]
    <3>1. /\ 0 <= accts[v].balance /\ accts[v].balance <= opening[v] + ledger[v]
          /\ accts[v].balance \in Int
      BY <1>1 DEF BillingInv, CreditBacksBalance, Bal, Acct
    <3>2. CASE v = u
      BY <1>1, <1>4, <1>5, <3>1, <3>2
    <3>3. CASE v # u
      BY <1>4, <1>5, <3>1, <3>3
    <3>4. QED
      BY <3>2, <3>3
  <2>2. QED
    BY <1>2, <2>1 DEF CreditBacksBalance, Bal
<1>9. Covered'
  <2>1. ASSUME NEW g \in Handlers, pc[g] \in Committed, ~raced[g], req[g].estimate > 0
        PROVE  accts'[req[g].user].live /\ accts'[req[g].user].balance >= req[g].estimate
    <3>1. req[g].user \in Users /\ accts[req[g].user] \in Acct /\ req[g].estimate \in Int
      BY <1>1, <2>1, BillingAssumption
         DEF BillingInv, StagesSound, Committed, TypeOK, Word
    <3>2. accts[req[g].user].live /\ accts[req[g].user].balance >= req[g].estimate
      BY <2>1 DEF BillingInv, Covered, CanPay
    <3>3. CASE req[g].user = u
      BY <1>1, <1>4, <3>1, <3>2, <3>3 DEF Acct
    <3>4. CASE req[g].user # u
      BY <1>4, <3>1, <3>2, <3>4
    <3>5. QED
      BY <3>3, <3>4
  <2>2. QED
    BY <1>2, <2>1 DEF Covered, CanPay
<1>10. QED
  BY <1>6, <1>7, <1>8, <1>9 DEF BillingInv

\* An upsert, a rename or a delete empties rows; whoever relied on one is raced.
LEMMA WriteOffKeepsInv ==
  ASSUME BillingInv,
         UNCHANGED <<ledger, charges, usageRows, price, known, pc, req, admitted, opening, missed>>,
         accts' \in [Users -> Acct], raced' \in [Handlers -> BOOLEAN],
         \A h \in Handlers : raced[h] => raced'[h],
         \A u \in Users : \/ accts'[u] = accts[u]
                         \/ /\ accts'[u].balance = 0
                            /\ \/ ~accts[u].live
                               \/ \A h \in Relying(u) : raced'[h]
  PROVE  BillingInv'
<1>1. TypeOK'
  BY DEF BillingInv, TypeOK, Acct
<1>2. StagesSound'
  BY DEF BillingInv, StagesSound
<1>3. AbsentIsEmpty'
  BY DEF BillingInv, AbsentIsEmpty
<1>4. CreditBacksBalance'
  <2>1. ASSUME NEW u \in Users
        PROVE  0 <= accts'[u].balance /\ accts'[u].balance <= opening[u] + ledger[u]
    <3>1. /\ 0 <= accts[u].balance /\ accts[u].balance <= opening[u] + ledger[u]
          /\ accts[u].balance \in Int /\ opening[u] + ledger[u] \in Int
      BY DEF BillingInv, CreditBacksBalance, Bal, TypeOK
    <3>2. QED
      BY <3>1
  <2>2. QED
    BY <2>1 DEF CreditBacksBalance, Bal
<1>5. Covered'
  <2>1. ASSUME NEW h \in Handlers, pc[h] \in Committed, ~raced'[h], req[h].estimate > 0
        PROVE  accts'[req[h].user].live /\ accts'[req[h].user].balance >= req[h].estimate
    <3>1. req[h].user \in Users /\ h \in Relying(req[h].user)
      BY <2>1 DEF BillingInv, StagesSound, Committed, Relying
    <3>2. accts[req[h].user].live /\ accts[req[h].user].balance >= req[h].estimate
      BY <2>1 DEF BillingInv, Covered, CanPay
    <3>3. QED
      BY <2>1, <3>1, <3>2
  <2>2. QED
    BY <2>1 DEF Covered, CanPay
<1>6. QED
  BY <1>1, <1>2, <1>3, <1>4, <1>5 DEF BillingInv

\* Every admin statement on keys, money or prices keeps the invariant.
LEMMA AdminKeepsInv ==
  ASSUME BillingInv, Admin
  PROVE  BillingInv'
<1> USE DEF MarkRaced
<1>1. accts \in [Users -> Acct] /\ raced \in [Handlers -> BOOLEAN]
      /\ Absent \in Acct /\ [live |-> TRUE, balance |-> 0] \in Acct
  BY RecordTypes DEF BillingInv, TypeOK, Acct
<1>2. ASSUME NEW u \in Users, NEW n \in TopupAmounts, Topup(u, n) PROVE BillingInv'
  BY <1>2, TopupKeepsInv
<1>3. ASSUME NEW v \in Users, UpsertKey(v) PROVE BillingInv'
  <2>1. accts'[v].balance = 0 /\ accts' \in [Users -> Acct]
        /\ \A q \in Users \ {v} : accts'[q] = accts[q]
    BY <1>1, <1>3 DEF UpsertKey
  <2>2. /\ raced' \in [Handlers -> BOOLEAN] /\ \A h \in Handlers : raced[h] => raced'[h]
        /\ \A h \in Relying(v) : raced'[h]
    BY <1>1, <1>3 DEF UpsertKey, Relying
  <2>3. QED
    BY <1>3, <2>1, <2>2, WriteOffKeepsInv DEF UpsertKey
<1>4. ASSUME NEW u \in Users, NEW v \in Users, UpdateKeyByID(u, v) PROVE BillingInv'
  <2>1. accts' \in [Users -> Acct]
    BY <1>1, <1>4 DEF UpdateKeyByID
  <2>2. raced' \in [Handlers -> BOOLEAN] /\ \A h \in Handlers : raced[h] => raced'[h]
    BY <1>1, <1>4 DEF UpdateKeyByID
  <2>3. \A q \in Users : \/ accts'[q] = accts[q]
                        \/ /\ accts'[q].balance = 0
                           /\ ~accts[q].live \/ \A h \in Relying(q) : raced'[h]
    <3>1. ASSUME NEW q \in Users, q # u, q # v PROVE accts'[q] = accts[q]
      BY <1>1, <1>4, <3>1 DEF UpdateKeyByID
    <3>2. accts'[u].balance = 0 /\ accts'[v].balance = 0
      BY <1>1, <1>4 DEF UpdateKeyByID, Absent
    <3>3. \A h \in Relying(u) : raced'[h]
      BY <1>1, <1>4 DEF UpdateKeyByID, Relying
    <3>4. v = u \/ ~accts[v].live
      BY <1>4 DEF UpdateKeyByID
    <3>5. QED
      BY <3>1, <3>2, <3>3, <3>4
  <2>4. QED
    BY <1>4, <2>1, <2>2, <2>3, WriteOffKeepsInv DEF UpdateKeyByID
<1>5. ASSUME NEW u \in Users, DeleteKey(u) PROVE BillingInv'
  <2>1. accts'[u].balance = 0 /\ accts' \in [Users -> Acct]
        /\ \A q \in Users \ {u} : accts'[q] = accts[q]
    BY <1>1, <1>5 DEF DeleteKey, Absent
  <2>2. /\ raced' \in [Handlers -> BOOLEAN] /\ \A h \in Handlers : raced[h] => raced'[h]
        /\ \A h \in Relying(u) : raced'[h]
    BY <1>1, <1>5 DEF DeleteKey, Relying
  <2>3. QED
    BY <1>5, <2>1, <2>2, WriteOffKeepsInv DEF DeleteKey
<1>6. ASSUME NEW p \in Prices \cup {DefaultPrice}, SetPrice(p) PROVE BillingInv'
  BY <1>6 DEF SetPrice, BillingInv, TypeOK, StagesSound, AbsentIsEmpty, CreditBacksBalance,
              Bal, Covered, CanPay
<1>7. QED
  BY <1>2, <1>3, <1>4, <1>5, <1>6 DEF Admin

\* A reload and a restart leave the store alone.
LEMMA EnvironmentKeepsInv ==
  ASSUME BillingInv, Reload \/ Restart
  PROVE  BillingInv'
<1>1. CASE Reload
  BY <1>1 DEF Reload, store, Live, BillingInv, TypeOK, StagesSound, AbsentIsEmpty,
              CreditBacksBalance, Bal, Covered, CanPay
<1>2. CASE Restart
  <2>1. missed' \in Nat
    BY <1>2, ChargedCount DEF Restart, BillingInv, TypeOK
  <2>2. req' \in [Handlers -> ReqType] /\ pc' \in [Handlers -> Stages]
        /\ \A h \in Handlers : pc'[h] = "idle"
    BY <1>2, RecordTypes DEF Restart, Stages
  <2>3. TypeOK'
    BY <1>2, <2>1, <2>2 DEF Restart, store, BillingInv, TypeOK, Live, ReqType
  <2>4. StagesSound' /\ Covered'
    BY <2>2 DEF StagesSound, Covered, Committed
  <2>5. AbsentIsEmpty' /\ CreditBacksBalance'
    BY <1>2 DEF Restart, store, BillingInv, AbsentIsEmpty, CreditBacksBalance, Bal
  <2>6. QED
    BY <2>3, <2>4, <2>5 DEF BillingInv
<1>3. QED
  BY <1>1, <1>2

\* A request keeps the invariant whatever its step.
LEMMA RequestKeepsInv ==
  ASSUME BillingInv, NEW h \in Handlers, Request(h)
  PROVE  BillingInv'
<1>1. CASE Deduct(h)
  BY <1>1, DeductKeepsInv
<1>2. CASE Quiet(h)
  BY <1>2, QuietKeepsInv
<1>3. QED
  BY <1>1, <1>2, AdmitIsQuiet, PricingIsQuiet, CheckIsQuiet, ServingIsQuiet,
     EndingIsQuiet DEF Request

-----------------------------------------------------------------------------
(* The theorems.                                                           *)

\* Every reachable state satisfies the inductive invariant.
THEOREM InductiveInvariant == Spec => []BillingInv
<1>1. Init => BillingInv
  BY InitInv
<1>2. BillingInv /\ [Next]_vars => BillingInv'
  <2> SUFFICES ASSUME BillingInv, [Next]_vars PROVE BillingInv'
    OBVIOUS
  <2>1. ASSUME NEW h \in Handlers, Request(h) PROVE BillingInv'
    BY <2>1, RequestKeepsInv
  <2>2. CASE Admin
    BY <2>2, AdminKeepsInv
  <2>3. CASE Reload \/ Restart
    BY <2>3, EnvironmentKeepsInv
  <2>4. CASE UNCHANGED vars
    BY <2>4 DEF vars, store, BillingInv, TypeOK, StagesSound, AbsentIsEmpty,
                CreditBacksBalance, Bal, Covered, CanPay
  <2>5. QED
    BY <2>1, <2>2, <2>3, <2>4 DEF Next
<1>3. QED
  BY <1>1, <1>2, PTL DEF Spec

\* Every variable keeps its type; in particular every estimate and every cost is
\* the int64 that handleProxy computes, whatever the price and the tokens.
THEOREM TypeCorrect == Spec => []TypeOK
  BY InductiveInvariant, PTL DEF BillingInv

\* The conditional UPDATE of DeductAPIKeyBalance keeps every balance backed by the
\* opening balance and the ledger under any interleaving of requests and admins.
THEOREM CreditBacksBalanceHolds == Spec => []CreditBacksBalance
  BY InductiveInvariant, PTL DEF BillingInv

\* handleProxy's check is enough for a request nobody races and whose answer costs
\* no more than estimated.
THEOREM UncontestedChargeSucceedsHolds == Spec => []UncontestedChargeSucceeds
<1>1. ASSUME BillingInv PROVE UncontestedChargeSucceeds
  <2>1. SUFFICES ASSUME NEW h \in Handlers, pc[h] = "deduct", ~raced[h],
                        req[h].cost <= req[h].estimate
                 PROVE  CanPay(req[h].user, req[h].cost)
    BY DEF UncontestedChargeSucceeds
  <2>2. /\ req[h].cost \in Int /\ req[h].estimate \in Int
        /\ req[h].cost > 0 /\ req[h].user \in Users
    BY <1>1, <2>1, BillingAssumption DEF BillingInv, TypeOK, StagesSound, Word
  <2>3. CanPay(req[h].user, req[h].estimate)
    BY <1>1, <2>1, <2>2 DEF BillingInv, Covered, Committed
  <2>4. accts[req[h].user].balance \in Int
    BY <1>1, <2>2 DEF BillingInv, TypeOK
  <2>5. QED
    BY <2>1, <2>2, <2>3, <2>4 DEF CanPay
<1>2. QED
  BY <1>1, InductiveInvariant, PTL

-----------------------------------------------------------------------------
(* Billing implements the wallet.                                          *)

\* The balance the wallet sees is the column of the row.
LEMMA BalancesNow ==
  ASSUME NEW u \in Users
  PROVE  Balances[u] = accts[u].balance
  BY DEF Balances, Bal

\* DeductAPIKeyBalance is a debit of the wallet.
LEMMA DeductIsDebit ==
  ASSUME BillingInv, NEW h \in Handlers, Deduct(h)
  PROVE  W!Move
<1> DEFINE u == req[h].user
           n == req[h].cost
<1>1. /\ accts \in [Users -> Acct] /\ ledger \in [Users -> Int]
      /\ u \in Users /\ n \in Int /\ n > 0 /\ CanPay(u, n)
  BY BillingAssumption DEF Deduct, BillingInv, TypeOK, Acct, StagesSound, Word
<1>2. /\ accts' = [accts EXCEPT ![u].balance = @ - n]
      /\ ledger' = [ledger EXCEPT ![u] = @ - n]
  BY DEF Deduct, PostDebit
<1>3. Balances' = [Balances EXCEPT ![u] = @ - n]
  BY <1>1, <1>2 DEF Balances, Bal, Acct
<1>4. n \in 1 .. Balances[u]
  BY <1>1, BalancesNow DEF CanPay, Acct
<1>5. QED
  BY <1>1, <1>2, <1>3, <1>4 DEF W!Move, W!Debit

\* TopupAPIKeyBalance is a credit, of a key or of nobody.
LEMMA TopupIsCredit ==
  ASSUME BillingInv, NEW u \in Users, NEW n \in TopupAmounts, Topup(u, n)
  PROVE  W!Move
<1>1. /\ accts \in [Users -> Acct] /\ ledger \in [Users -> Int] /\ n \in Int /\ n > 0
      /\ ~accts[u].live => accts[u].balance = 0
  BY BillingAssumption DEF BillingInv, TypeOK, Acct, AbsentIsEmpty
<1>2. ledger' = [ledger EXCEPT ![u] = @ + n] /\ W!Entered(u) = n
  BY <1>1 DEF Topup, W!Entered
<1>3. CASE accts[u].live
  <2>1. accts' = [accts EXCEPT ![u].balance = @ + n]
    BY <1>3 DEF Topup
  <2>2. Balances' = [Balances EXCEPT ![u] = @ + n]
    BY <1>1, <2>1 DEF Balances, Bal, Acct
  <2>3. QED
    BY <1>1, <1>2, <2>2 DEF W!Move, W!Credit
<1>4. CASE ~accts[u].live
  <2>1. Balances' = Balances /\ Balances[u] = 0
    BY <1>1, <1>4 DEF Topup, Balances, Bal
  <2>2. QED
    BY <1>1, <1>2, <2>1 DEF W!Move, W!CreditNobody
<1>5. QED
  BY <1>3, <1>4

\* Upserting, renaming and deleting keys write balances off.
LEMMA UpsertIsWriteOff ==
  ASSUME BillingInv,
         \/ \E v \in Users : UpsertKey(v)
         \/ \E u, v \in Users : UpdateKeyByID(u, v)
         \/ \E u \in Users : DeleteKey(u)
  PROVE  W!Move
<1>1. /\ accts \in [Users -> Acct] /\ ledger' = ledger
      /\ \A u \in Users : ~accts[u].live => accts[u].balance = 0
  BY DEF BillingInv, TypeOK, Acct, AbsentIsEmpty, UpsertKey, UpdateKeyByID, DeleteKey
<1> DEFINE Emptied(gone) == Balances' = [q \in Users |-> IF q \in gone THEN 0 ELSE Balances[q]]
<1>2. ASSUME NEW v \in Users, UpsertKey(v) PROVE Emptied({v})
  BY <1>1, <1>2 DEF UpsertKey, Balances, Bal
<1>3. ASSUME NEW u \in Users, NEW v \in Users, UpdateKeyByID(u, v) PROVE Emptied({u, v})
  BY <1>1, <1>3 DEF UpdateKeyByID, Absent, Balances, Bal
<1>4. ASSUME NEW u \in Users, DeleteKey(u) PROVE Emptied({u})
  BY <1>1, <1>4 DEF DeleteKey, Absent, Balances, Bal
<1>5. ASSUME NEW gone \in SUBSET Users, Emptied(gone) PROVE W!Move
  BY <1>1, <1>5 DEF W!Move, W!WriteOff
<1> HIDE DEF Emptied
<1>6. \A u, v \in Users : {u} \in SUBSET Users /\ {u, v} \in SUBSET Users
  OBVIOUS
<1>7. QED
  BY <1>2, <1>3, <1>4, <1>5, <1>6

\* Whatever requests and admin handlers do to balances and ledger, the wallet allows.
THEOREM BillingImplementsWallet == Spec => ImplementsWallet
<1>1. ASSUME Init PROVE W!Open
  <2>1. BillingInv
    BY <1>1, InitInv
  <2>2. ASSUME NEW u \in Users PROVE Balances[u] \in Nat
    BY <2>1, BalancesNow DEF BillingInv, TypeOK, CreditBacksBalance, Bal
  <2>3. Balances \in [Users -> Nat]
    BY <2>2 DEF Balances
  <2>4. QED
    BY <1>1, <2>3 DEF Init, W!Open, W!Accounts
<1>2. ASSUME BillingInv, [Next]_vars PROVE [W!Move]_<<Balances, ledger>>
  <2>1. ASSUME NEW h \in Handlers, Request(h), ~Deduct(h)
        PROVE  UNCHANGED <<accts, ledger>>
    BY <2>1 DEF Request, Admit, Estimate, CheckPasses, CheckRefuses, NotServed, Served,
                PriceActual, DeductFails, ReloadAfterCharge, AddUsage, store
  <2>2. ASSUME Reload \/ Restart \/ UNCHANGED vars
               \/ \E p \in Prices \cup {DefaultPrice} : SetPrice(p)
        PROVE  UNCHANGED <<accts, ledger>>
    BY <2>2 DEF Reload, Restart, SetPrice, vars, store
  <2>3. UNCHANGED <<accts, ledger>> => UNCHANGED <<Balances, ledger>>
    BY DEF Balances, Bal
  <2>4. QED
    BY <1>2, <2>1, <2>2, <2>3, DeductIsDebit, TopupIsCredit, UpsertIsWriteOff DEF Next, Admin
<1>3. QED
  BY <1>1, <1>2, InductiveInvariant, PTL DEF Spec, ImplementsWallet, W!WalletSpec

-----------------------------------------------------------------------------
(* Usage records and charges.                                              *)

\* A request carries a charge only from its deduction to its usage record.
ChargedSound == \A h \in Handlers : req[h].charged => pc[h] \in {"reload", "record"}

\* How a step moves the charged requests: a deduction adds one, and one that leaves
\* has its usage row or is counted as missed.
LEMMA ChargedMoves ==
  ASSUME BillingInv, ChargedSound, NEW h \in Handlers, Request(h)
  PROVE  /\ ChargedSound'
         /\ \/ /\ Charged' = Charged
               /\ charges' = charges /\ usageRows' >= usageRows /\ missed' = missed
            \/ /\ Charged' = Charged \cup {h} /\ h \notin Charged
               /\ charges' = charges + 1 /\ usageRows' = usageRows /\ missed' = missed
            \/ /\ Charged' = Charged \ {h} /\ h \in Charged /\ charges' = charges
               /\ usageRows' + missed' = usageRows + missed + 1
<1> DEFINE Same == UNCHANGED <<charges, usageRows, missed>>
           Rec == [user : Users \cup {NoUser}, tokens : Nat, estimate : Word,
                   cost : Word, charged : BOOLEAN]
<1>1. /\ req \in [Handlers -> Rec] /\ pc \in [Handlers -> Stages]
      /\ usageRows \in Nat /\ missed \in Nat /\ charges \in Nat
  BY DEF BillingInv, TypeOK
<1>2. ASSUME NEW r, NEW st, req' = [req EXCEPT ![h] = r], pc' = [pc EXCEPT ![h] = st],
             r.charged = FALSE, ~req[h].charged
      PROVE  ChargedSound' /\ Charged' = Charged
  BY <1>1, <1>2 DEF ChargedSound, Charged
<1>3. NoReq.charged = FALSE
  BY DEF NoReq
<1>4. pc[h] \notin {"reload", "record"} => ~req[h].charged
  BY DEF ChargedSound
<1>5. ASSUME \E u \in Users, estimated \in Tokens : Admit(h, u, estimated)
      PROVE  ChargedSound' /\ Charged' = Charged /\ Same
  <2>1. PICK u \in Users, estimated \in Tokens : Admit(h, u, estimated)
    BY <1>5
  <2> DEFINE r == [NoReq EXCEPT !.user = u, !.tokens = estimated]
  <2>2. r.charged = FALSE
    BY DEF NoReq
  <2>3. /\ req' = [req EXCEPT ![h] = r] /\ pc' = [pc EXCEPT ![h] = "estimate"]
        /\ pc[h] = "idle" /\ Same
    BY <2>1 DEF Admit, Goto, store
  <2> HIDE DEF r
  <2>4. QED
    BY <1>2, <1>4, <2>2, <2>3
<1>6. ASSUME Estimate(h) \/ PriceActual(h) \/ \E total \in Tokens : Served(h, total)
      PROVE  ChargedSound' /\ Charged' = Charged /\ Same
  <2>1. \A n : /\ [req[h] EXCEPT !.estimate = n].charged = req[h].charged
              /\ [req[h] EXCEPT !.cost = n].charged = req[h].charged
              /\ [req[h] EXCEPT !.tokens = n].charged = req[h].charged
    BY <1>1
  <2> DEFINE KeepsCharge == \E r, st : /\ req' = [req EXCEPT ![h] = r]
                                       /\ pc' = [pc EXCEPT ![h] = st]
                                       /\ r.charged = req[h].charged
  <2>2. /\ KeepsCharge
        /\ pc[h] \in {"estimate", "price", "serve"} /\ Same
    <3>1. ASSUME Estimate(h) PROVE KeepsCharge
      <4>1. PICK p \in ResolvedPrices :
              LET cost == CostOf(req[h].tokens, p)
              IN  /\ req' = [req EXCEPT ![h].estimate = cost]
                  /\ pc' = [pc EXCEPT ![h] = IF cost > 0 THEN "check" ELSE "serve"]
        BY <3>1 DEF Estimate, Goto
      <4> DEFINE n == CostOf(req[h].tokens, p)
                 r == [req[h] EXCEPT !.estimate = n]
                 st == IF n > 0 THEN "check" ELSE "serve"
      <4>2. req' = [req EXCEPT ![h] = r] /\ pc' = [pc EXCEPT ![h] = st]
        BY <4>1
      <4>3. r.charged = req[h].charged
        BY <2>1
      <4> HIDE DEF r, st
      <4>4. QED
        BY <4>2, <4>3
    <3>2. ASSUME PriceActual(h) PROVE KeepsCharge
      <4>1. PICK p \in ResolvedPrices :
              LET cost == CostOf(req[h].tokens, p)
              IN  /\ req' = [req EXCEPT ![h].cost = cost]
                  /\ pc' = [pc EXCEPT ![h] = IF cost > 0 THEN "deduct" ELSE "record"]
        BY <3>2 DEF PriceActual, Goto
      <4> DEFINE n == CostOf(req[h].tokens, p)
                 r == [req[h] EXCEPT !.cost = n]
                 st == IF n > 0 THEN "deduct" ELSE "record"
      <4>2. req' = [req EXCEPT ![h] = r] /\ pc' = [pc EXCEPT ![h] = st]
        BY <4>1
      <4>3. r.charged = req[h].charged
        BY <2>1
      <4> HIDE DEF r, st
      <4>4. QED
        BY <4>2, <4>3
    <3>3. ASSUME \E total \in Tokens : Served(h, total) PROVE KeepsCharge
      <4>1. PICK total \in Tokens : Served(h, total)
        BY <3>3
      <4> DEFINE r == [req[h] EXCEPT !.tokens = MaxTokens(@, total)]
      <4>2. req' = [req EXCEPT ![h] = r] /\ pc' = [pc EXCEPT ![h] = "price"]
        BY <4>1 DEF Served, Goto
      <4>3. r.charged = req[h].charged
        BY <2>1
      <4> HIDE DEF r
      <4>4. QED
        BY <4>2, <4>3
    <3>4. pc[h] \in {"estimate", "price", "serve"} /\ Same
      BY <1>6 DEF Estimate, PriceActual, Served, store
    <3>5. QED
      BY <1>6, <3>1, <3>2, <3>3, <3>4
  <2>3. ~req[h].charged
    BY <1>4, <2>2
  <2>4. PICK r, st : /\ req' = [req EXCEPT ![h] = r] /\ pc' = [pc EXCEPT ![h] = st]
                     /\ r.charged = req[h].charged
    BY <2>2
  <2>5. req[h].charged = FALSE
    BY <1>1, <2>3
  <2>6. QED
    BY <1>2, <2>2, <2>3, <2>4, <2>5
<1>7. ASSUME CheckPasses(h) \/ DeductFails(h) \/ ReloadAfterCharge(h)
      PROVE  ChargedSound' /\ Charged' = Charged /\ Same
  <2>1. req' = req /\ Same
    BY <1>7 DEF CheckPasses, DeductFails, ReloadAfterCharge, store
  <2>2. \A g \in Handlers : pc'[g] = pc[g] \/ pc'[g] \in {"reload", "record"}
                            \/ pc[g] = "check"
    BY <1>1, <1>7 DEF CheckPasses, DeductFails, ReloadAfterCharge, Goto
  <2>3. QED
    BY <2>1, <2>2 DEF ChargedSound, Charged
<1>8. ASSUME CheckRefuses(h) \/ NotServed(h)
      PROVE  ChargedSound' /\ Charged' = Charged /\ Same
  <2>1. /\ pc[h] \in {"check", "serve"} /\ Finish(h) /\ Same
    BY <1>8 DEF CheckRefuses, NotServed, store
  <2>2. QED
    BY <1>2, <1>3, <1>4, <2>1 DEF Finish, Goto
<1>9. ASSUME Deduct(h)
      PROVE  /\ ChargedSound' /\ Charged' = Charged \cup {h} /\ h \notin Charged
             /\ charges' = charges + 1 /\ usageRows' = usageRows /\ missed' = missed
  <2>1. /\ pc[h] = "deduct" /\ req' = [req EXCEPT ![h].charged = TRUE]
        /\ pc' = [pc EXCEPT ![h] = "reload"]
        /\ charges' = charges + 1 /\ usageRows' = usageRows /\ missed' = missed
    BY <1>9 DEF Deduct, Goto
  <2>2. /\ req'[h].charged /\ pc'[h] = "reload"
        /\ \A g \in Handlers \ {h} : req'[g] = req[g] /\ pc'[g] = pc[g]
    BY <1>1, <2>1
  <2>3. h \notin Charged
    BY <1>4, <2>1 DEF Charged
  <2>4. QED
    BY <2>1, <2>2, <2>3 DEF ChargedSound, Charged
<1>10. ASSUME AddUsage(h)
       PROVE  /\ ChargedSound' /\ Charged' = Charged \ {h} /\ charges' = charges
              /\ req[h].charged => usageRows' + missed' = usageRows + missed + 1
              /\ ~req[h].charged => usageRows' >= usageRows /\ missed' = missed
  <2>1. /\ req' = [req EXCEPT ![h] = NoReq] /\ pc' = [pc EXCEPT ![h] = "idle"]
        /\ charges' = charges
    BY <1>10 DEF AddUsage, Finish, Goto
  <2>2. /\ ~req'[h].charged
        /\ \A g \in Handlers \ {h} : req'[g] = req[g] /\ pc'[g] = pc[g]
    BY <1>1, <1>3, <2>1
  <2>3. ChargedSound' /\ Charged' = Charged \ {h}
    BY <2>2 DEF ChargedSound, Charged
  <2>4. \/ usageRows' = usageRows + 1 /\ missed' = missed
        \/ /\ usageRows' = usageRows
           /\ missed' = missed + (IF req[h].charged THEN 1 ELSE 0)
    BY <1>10 DEF AddUsage
  <2>5. /\ req[h].charged => usageRows' + missed' = usageRows + missed + 1
        /\ ~req[h].charged => usageRows' >= usageRows /\ missed' = missed
    BY <1>1, <2>4
  <2>6. QED
    BY <2>1, <2>3, <2>5
<1>11. h \in Charged <=> req[h].charged
  BY DEF Charged
<1>12. CASE AddUsage(h)
  BY <1>10, <1>11, <1>12
<1>13. CASE Deduct(h)
  BY <1>9, <1>13
<1>14. CASE ~AddUsage(h) /\ ~Deduct(h)
  <2>1. ChargedSound' /\ Charged' = Charged /\ Same
    BY <1>5, <1>6, <1>7, <1>8, <1>14 DEF Request
  <2>2. QED
    BY <1>1, <2>1
<1>15. QED
  BY <1>12, <1>13, <1>14

\* What leaves one summand has joined the others.
LEMMA SumStays ==
  ASSUME NEW c \in Int, NEW u \in Int, NEW m \in Int, NEW k \in Int,
         NEW u1 \in Int, NEW m1 \in Int, NEW k1 \in Int,
         c <= u + m + k, u1 + m1 = u + m + 1, k1 = k - 1
  PROVE  c <= u1 + m1 + k1
  OBVIOUS

\* Every usage entry of the ledger has its usage record, is about to get it, or belongs
\* to a request whose record a crash or a store error took.
THEOREM UsageCoversChargesHolds == Spec => []UsageCoversCharges
<1>1. Init => ChargedSound /\ UsageCoversCharges
  <2> SUFFICES ASSUME Init PROVE ChargedSound /\ UsageCoversCharges
    OBVIOUS
  <2>1. NoReq.charged = FALSE
    BY DEF NoReq
  <2>2. ChargedSound /\ Charged = {}
    BY <2>1 DEF Init, ChargedSound, Charged
  <2>3. QED
    BY <2>2, FS_EmptySet DEF Init, UsageCoversCharges
<1>2. /\ BillingInv /\ ChargedSound /\ UsageCoversCharges /\ [Next]_vars
      => ChargedSound' /\ UsageCoversCharges'
  <2> SUFFICES ASSUME BillingInv, ChargedSound, UsageCoversCharges, [Next]_vars
               PROVE  ChargedSound' /\ UsageCoversCharges'
    OBVIOUS
  <2>1. IsFiniteSet(Charged) /\ Cardinality(Charged) \in Nat
    <3>1. Charged \in SUBSET Handlers /\ IsFiniteSet(Handlers)
      BY BillingAssumption DEF Charged
    <3>2. IsFiniteSet(Charged)
      BY <3>1, FS_Subset
    <3>3. QED
      BY <3>2, FS_CardinalityType
  <2>2. /\ charges \in Nat /\ usageRows \in Nat /\ missed \in Nat
        /\ charges <= usageRows + missed + Cardinality(Charged)
    BY DEF BillingInv, TypeOK, UsageCoversCharges
  <2>3. ASSUME NEW h \in Handlers, Request(h) PROVE ChargedSound' /\ UsageCoversCharges'
    <3>1. usageRows' \in Nat /\ missed' \in Nat
      <4>1. BillingInv'
        BY <2>3, RequestKeepsInv
      <4>2. QED
        BY <4>1 DEF BillingInv, TypeOK
    <3>2. ChargedSound'
      BY <2>3, ChargedMoves
    <3>3. CASE /\ Charged' = Charged
               /\ charges' = charges /\ usageRows' >= usageRows /\ missed' = missed
      BY <3>2, <2>1, <2>2, <3>1, <3>3 DEF UsageCoversCharges
    <3>4. CASE /\ Charged' = Charged \cup {h} /\ h \notin Charged
               /\ charges' = charges + 1 /\ usageRows' = usageRows /\ missed' = missed
      <4>1. Cardinality(Charged') = Cardinality(Charged) + 1
        BY <2>1, <3>4, FS_AddElement
      <4>2. QED
        BY <2>1, <2>2, <3>2, <3>4, <4>1 DEF UsageCoversCharges
    <3>5. CASE /\ Charged' = Charged \ {h} /\ h \in Charged /\ charges' = charges
               /\ usageRows' + missed' = usageRows + missed + 1
      <4>1. Cardinality(Charged') = Cardinality(Charged) - 1
        BY <2>1, <3>5, FS_RemoveElement
      <4>2. /\ charges' = charges /\ Cardinality(Charged) \in Nat
            /\ usageRows' + missed' = usageRows + missed + 1
        BY <2>1, <3>5
      <4>3. charges' <= usageRows' + missed' + Cardinality(Charged')
        <5> DEFINE k == Cardinality(Charged)
                   k1 == Cardinality(Charged')
                   u1 == usageRows'
                   m1 == missed'
        <5>1. /\ charges \in Int /\ usageRows \in Int /\ missed \in Int /\ k \in Int
              /\ charges <= usageRows + missed + k
          BY <2>2, <4>2
        <5>2. u1 \in Int /\ m1 \in Int /\ u1 + m1 = usageRows + missed + 1
          BY <3>1, <4>2
        <5>3. k1 \in Int /\ k1 = k - 1
          BY <4>1, <4>2
        <5> HIDE DEF k, k1, u1, m1
        <5>4. charges <= u1 + m1 + k1
          BY <5>1, <5>2, <5>3, SumStays
        <5>5. QED
          BY <4>2, <5>4 DEF u1, m1, k1
      <4>4. QED
        BY <3>2, <4>3 DEF UsageCoversCharges, Charged
    <3>6. QED
      BY <2>3, <3>3, <3>4, <3>5, ChargedMoves
  <2>4. CASE Admin \/ Reload \/ UNCHANGED vars
    <3>1. UNCHANGED <<charges, usageRows, missed, pc, req>>
      BY <2>4 DEF Admin, Topup, UpsertKey, UpdateKeyByID, DeleteKey, SetPrice, Reload,
                  vars, store
    <3>2. QED
      BY <2>2, <3>1 DEF ChargedSound, UsageCoversCharges, Charged
  <2>5. CASE Restart
    <3>1. /\ UNCHANGED <<charges, usageRows>> /\ missed' = missed + Cardinality(Charged)
          /\ \A h \in Handlers : req'[h] = NoReq
      BY <2>5 DEF Restart, store
    <3>2. Charged' = {} /\ ChargedSound'
      BY <3>1 DEF NoReq, Charged, ChargedSound
    <3>3. Cardinality(Charged') = 0
      BY <3>2, FS_EmptySet
    <3>4. QED
      BY <2>1, <2>2, <3>1, <3>2, <3>3 DEF UsageCoversCharges
  <2>6. QED
    BY <2>3, <2>4, <2>5 DEF Next
<1>3. QED
  BY <1>1, <1>2, InductiveInvariant, PTL DEF Spec
=============================================================================
