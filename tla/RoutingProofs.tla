---------------------------- MODULE RoutingProofs ----------------------------
(***************************************************************************)
(* Proofs about Routing, for any requests, sessions, providers and         *)
(* configurations.                                                         *)
(*                                                                         *)
(* The properties look at a request that is about to be sent or refused.   *)
(* The invariant says it of every stage: each thing the request holds was  *)
(* decided in a world it has run in.  Worlds are only ever added to what a *)
(* request has seen, so a decision once explained stays explained.         *)
(***************************************************************************)
EXTENDS Routing, FunctionTheorems, FiniteSetTheorems, SequenceTheorems,
        WellFoundedInduction, TLAPS

Tenants == {"default", "team"}

Worlds == [cfg : Configs, now : Nat, tenants : SUBSET Tenants]

Stages == {"idle", "tenant", "rules", "select", "lookup", "bind", "channel", "unavailable"}

Held == [session : Sessions \cup {NoSession}, model : Models \cup {"none"},
         allowed : SUBSET Models, tenant : Tenants \cup {"none"}, excused : BOOLEAN,
         forced : Providers \cup {NoProvider}, view : Configs \cup {"none"}, at : Nat,
         provider : Providers \cup {NoProvider}]

-----------------------------------------------------------------------------
(* What a request at stage l that holds q and has seen the worlds ws may    *)
(* rely on.                                                                 *)

KeySeen(l, q, ws) ==
  \E w \in ws : /\ w.cfg.keyOn /\ w.cfg.tenant = q.tenant
                /\ IF l = "tenant" THEN q.allowed = w.cfg.allowed
                                   ELSE SupportsModel(w.cfg.allowed, q.model)

TenantSeen(q, ws) ==
  \/ \E w \in ws : q.tenant \in w.tenants
  \/ q.excused /\ q.tenant = "default"

RulesSeen(q, ws) ==
  \E w \in ws : /\ ~Verdict(w.cfg, q.model).deny
                /\ Verdict(w.cfg, q.model).force = q.forced

ViewSeen(q, ws) == \E w \in ws : w.cfg = q.view /\ w.now = q.at

ProviderSeen(q, ws) == \E w \in ws : Eligible(w.cfg, w.now, q.provider, q.model)

NoneSeen(q, ws) ==
  \E w \in ws : \A p \in DOMAIN w.cfg.rows :
    q.forced \in {NoProvider, p} => ~Eligible(w.cfg, w.now, p, q.model)

Sound(l, q, ws) ==
  /\ (l = "idle") <=> (ws = {})
  /\ l # "idle" => KeySeen(l, q, ws)
  /\ l \notin {"idle", "tenant"} => TenantSeen(q, ws)
  /\ l \notin {"idle", "tenant", "rules"} => RulesSeen(q, ws)
  /\ l = "lookup" => ViewSeen(q, ws)
  /\ l \in {"lookup", "bind"} => q.forced = NoProvider
  /\ l \in {"bind", "channel"} => ProviderSeen(q, ws) /\ q.provider \in Providers
  /\ l \notin {"bind", "channel"} => q.provider = NoProvider
  /\ l = "channel" => q.forced \in {NoProvider, q.provider}
  /\ l = "unavailable" => NoneSeen(q, ws)

\* a binding that is about to be replaced was of no use to the request, or is newer
MayRebind(r) ==
  (pc[r] = "bind" /\ req[r].session \in Sessions /\ ~rebound[r])
  => \/ sticky[req[r].session] = NoProvider
     \/ \E w \in seen[r] : ~Eligible(w.cfg, w.now, sticky[req[r].session], req[r].model)

Typed ==
  /\ world \in Worlds
  /\ sticky \in [Sessions -> Providers \cup {NoProvider}]
  /\ pc \in [Requests -> Stages]
  /\ req \in [Requests -> Held]
  /\ seen \in [Requests -> SUBSET Worlds]
  /\ rebound \in [Requests -> BOOLEAN]

RoutingInv ==
  /\ Typed
  /\ \A r \in Requests : pc[r] # "idle" => world \in seen[r]
  /\ \A r \in Requests : Sound(pc[r], req[r], seen[r])
  /\ \A r \in Requests : MayRebind(r)

-----------------------------------------------------------------------------
(* Facts about the operators.                                              *)

\* A nonempty set of natural numbers has a least element.
LEMMA LeastElement ==
  ASSUME NEW T \in SUBSET Nat, T # {}
  PROVE  \E x \in T : \A y \in T : x <= y
<1>1. PICK x \in T : \A y \in T : ~(<<y, x>> \in OpToRel(<, Nat))
  BY NatLessThanWellFounded, WFMin
<1>2. ASSUME NEW y \in T PROVE x <= y
  <2>1. ~(y < x)
    BY <1>1 DEF OpToRel
  <2>2. QED
    BY <2>1
<1>3. QED
  BY <1>2

\* A nonempty set of numbers up to n has a greatest element.
LEMMA GreatestElement ==
  ASSUME NEW n \in Nat, NEW T \in SUBSET (1 .. n), T # {}
  PROVE  \E x \in T : \A y \in T : y <= x
<1> DEFINE U == {i \in Nat : n - i \in T}
<1>1. U # {}
  <2>1. PICK t \in T : TRUE
    OBVIOUS
  <2>2. n - t \in Nat /\ n - (n - t) = t
    OBVIOUS
  <2>3. QED
    BY <2>1, <2>2
<1>2. PICK u \in U : \A v \in U : u <= v
  BY <1>1, LeastElement
<1>3. ASSUME NEW y \in T PROVE y <= n - u
  <2>1. n - y \in Nat /\ n - (n - y) = y
    OBVIOUS
  <2>2. u <= n - y
    BY <1>2, <2>1
  <2>3. QED
    BY <2>2
<1>4. QED
  BY <1>3

\* What the assumption says of one configuration.
LEMMA ConfigSound ==
  ASSUME NEW c \in Configs
  PROVE  /\ c.keyOn \in BOOLEAN /\ c.allowed \in SUBSET Models /\ c.tenant \in Tenants
         /\ c.rules \in Seq(Rules)
         /\ DOMAIN c.rows \subseteq Providers
         /\ NoProvider \notin DOMAIN c.rows
  BY RoutingAssumption DEF Tenants

\* The provider applyRules returns is that of the last matching rule that names one.
LEMMA VerdictForces ==
  ASSUME NEW c \in Configs, NEW m
  PROVE  LET v == Verdict(c, m)
         IN  /\ v.force \in Providers \cup {NoProvider}
             /\ ~v.deny => \A i \in Matching(c, m) : ~c.rules[i].deny
             /\ v.force = NoProvider => \A i \in Matching(c, m) : c.rules[i].force = NoProvider
             /\ v.force # NoProvider =>
                  \E i \in Matching(c, m) :
                    /\ c.rules[i].force = v.force
                    /\ \A j \in Matching(c, m) : j > i => c.rules[j].force = NoProvider
<1> DEFINE hits    == Matching(c, m)
           forcing == {i \in hits : c.rules[i].force # NoProvider}
           last    == CHOOSE i \in forcing : \A j \in forcing : j <= i
<1>1. c.rules \in Seq(Rules)
  BY ConfigSound
<1>2. Len(c.rules) \in Nat /\ DOMAIN c.rules = 1 .. Len(c.rules)
      /\ \A i \in DOMAIN c.rules : c.rules[i] \in Rules
  BY <1>1, LenProperties
<1>3. hits \subseteq 1 .. Len(c.rules)
  BY <1>2 DEF Matching
<1>4. \A i \in hits : c.rules[i].force \in Providers \cup {NoProvider} /\ i \in Nat
  BY <1>2, <1>3 DEF Rules
<1>5. Verdict(c, m) = [deny  |-> \E i \in hits : c.rules[i].deny,
                       force |-> IF forcing = {} THEN NoProvider ELSE c.rules[last].force]
  BY DEF Verdict
<1>6. forcing # {} => last \in forcing /\ \A j \in forcing : j <= last
  <2>1. forcing \in SUBSET (1 .. Len(c.rules))
    BY <1>3
  <2>2. forcing # {} => \E i \in forcing : \A j \in forcing : j <= i
    BY <1>2, <2>1, GreatestElement
  <2>3. QED
    BY <2>2
<1> HIDE DEF last
<1>7. CASE forcing = {}
  BY <1>5, <1>7
<1>8. CASE forcing # {}
  <2>1. last \in hits /\ c.rules[last].force # NoProvider /\ Verdict(c, m).force = c.rules[last].force
    BY <1>5, <1>6, <1>8
  <2>2. \A j \in hits : j > last => c.rules[j].force = NoProvider
    <3>1. ASSUME NEW j \in hits, j > last, j \in forcing PROVE FALSE
      BY <1>4, <1>6, <1>8, <2>1, <3>1
    <3>2. QED
      BY <3>1
  <2>3. ~Verdict(c, m).deny => \A i \in hits : ~c.rules[i].deny
    BY <1>5
  <2>4. QED
    BY <1>4, <2>1, <2>2, <2>3
<1>9. QED
  BY <1>7, <1>8

\* The draw picks one of the candidates.
LEMMA PickIsCandidate ==
  ASSUME NEW cfg, NEW ps \in SUBSET Providers, ps # {}, NEW items \in Orders(ps), NEW d
  PROVE  Pick(cfg, items, d) \in ps
<1> DEFINE hits  == {i \in DOMAIN items : d < Acc(cfg, items)[i]}
           first == CHOOSE i \in hits : \A j \in hits : i <= j
<1>1. IsFiniteSet(ps) /\ Cardinality(ps) \in Nat /\ Cardinality(ps) # 0
  BY RoutingAssumption, FS_Subset, FS_CardinalityType, FS_EmptySet
<1>2. items \in [1 .. Cardinality(ps) -> ps]
  BY DEF Orders
<1>3. items \in Seq(ps)
  BY <1>1, <1>2
<1>4. Len(items) = Cardinality(ps)
  BY <1>1, <1>2
<1>5. hits \in SUBSET Nat /\ hits \subseteq DOMAIN items
  BY <1>1, <1>2
<1> HIDE DEF hits
<1>6. hits # {} => first \in hits
  <2>1. hits # {} => \E i \in hits : \A j \in hits : i <= j
    BY <1>5, LeastElement
  <2>2. QED
    BY <2>1
<1>7. hits # {} => items[first] \in ps
  BY <1>2, <1>5, <1>6
<1>8. items[Len(items)] \in ps
  BY <1>1, <1>2, <1>4
<1>9. Pick(cfg, items, d) = IF hits = {} THEN items[Len(items)] ELSE items[first]
  BY DEF Pick, hits
<1>10. QED
  BY <1>7, <1>8, <1>9

-----------------------------------------------------------------------------
(* The draw.  The sums of the weights are a recursive function, which TLA+  *)
(* takes as any function that satisfies its equation: there is one, it      *)
(* grows with every item, and so the draws of two items never meet.         *)

\* The sums of n positive weights exist.
LEMMA SumsExist ==
  ASSUME NEW n \in Nat, NEW w \in [1 .. n -> Nat]
  PROVE  \E f : f = [i \in 0 .. n |-> IF i = 0 THEN 0 ELSE f[i - 1] + w[i]]
<1> DEFINE SumsTo(f, k) == f = [i \in 0 .. k |-> IF i = 0 THEN 0 ELSE f[i - 1] + w[i]]
           Bad == {k \in 0 .. n : ~ \E f : SumsTo(f, k)}
<1>1. ASSUME Bad # {} PROVE FALSE
  <2>1. PICK k \in Bad : \A j \in Bad : k <= j
    <3>1. Bad \in SUBSET Nat
      OBVIOUS
    <3> HIDE DEF Bad
    <3>2. QED
      BY <1>1, <3>1, LeastElement
  <2>2. CASE k = 0
    <3> DEFINE z == [i \in 0 .. 0 |-> 0]
    <3>1. SumsTo(z, 0)
      <4>1. \A i \in 0 .. 0 : i = 0 /\ z[i] = 0
        OBVIOUS
      <4>2. z = [i \in 0 .. 0 |-> z[i]]
        OBVIOUS
      <4> HIDE DEF z
      <4>3. QED
        BY <4>1, <4>2
    <3>2. QED
      BY <2>1, <2>2, <3>1
  <2>3. CASE k # 0
    <3>1. k - 1 \in 0 .. n /\ k \in 0 .. n /\ ~(k <= k - 1)
      BY <2>3
    <3>2. PICK f : SumsTo(f, k - 1)
      BY <2>1, <3>1
    <3> DEFINE g == [i \in 0 .. k |-> IF i = k THEN f[k - 1] + w[k] ELSE f[i]]
    <3>3. ASSUME NEW i \in 0 .. k
          PROVE  g[i] = IF i = 0 THEN 0 ELSE g[i - 1] + w[i]
      <4>1. CASE i = 0
        BY <2>3, <3>1, <3>2, <4>1
      <4>2. CASE i # 0
        BY <2>3, <3>1, <3>2, <4>2
      <4>3. QED
        BY <4>1, <4>2
    <3>4. SumsTo(g, k)
      <4>1. g = [i \in 0 .. k |-> g[i]]
        OBVIOUS
      <4> HIDE DEF g
      <4>2. QED
        BY <3>3, <4>1
    <3>5. QED
      BY <2>1, <3>4
  <2>4. QED
    BY <2>2, <2>3
<1>2. n \notin Bad
  BY <1>1
<1>3. QED
  BY <1>2

\* An order of candidates names each of them, at one place, and weighs it positively.
LEMMA OrdersName ==
  ASSUME NEW cfg \in Configs, NEW ps \in SUBSET (DOMAIN cfg.rows), ps # {},
         NEW items \in Orders(ps)
  PROVE  /\ Len(items) \in Nat \ {0}
         /\ items \in [1 .. Len(items) -> ps] /\ DOMAIN items = 1 .. Len(items)
         /\ \A i, j \in 1 .. Len(items) : items[i] = items[j] => i = j
         /\ \A p \in ps : \E k \in 1 .. Len(items) : items[k] = p
         /\ \A p \in ps : Weight(cfg.rows[p]) \in Nat \ {0}
<1> DEFINE n == Cardinality(ps)
<1>1. ps \in SUBSET Providers /\ \A p \in ps : Weight(cfg.rows[p]) \in Nat \ {0}
  <2>1. DOMAIN cfg.rows \subseteq Providers /\ \A p \in DOMAIN cfg.rows : cfg.rows[p].weight \in Int
    BY RoutingAssumption DEF ProviderRows
  <2>2. QED
    BY <2>1 DEF Weight
<1>2. IsFiniteSet(ps) /\ n \in Nat /\ n # 0
  BY <1>1, RoutingAssumption, FS_Subset, FS_CardinalityType, FS_EmptySet
<1> HIDE DEF n
<1>3. items \in [1 .. n -> ps] /\ \A i, j \in 1 .. n : items[i] = items[j] => i = j
  BY DEF Orders, n
<1>4. items \in Seq(ps) /\ Len(items) = n
  BY <1>2, <1>3
<1>5. items \in Surjection(1 .. n, ps)
  <2>1. items \in Injection(1 .. n, ps)
    BY <1>3, Fun_IsInj
  <2>2. IsFiniteSet(1 .. n) /\ Cardinality(1 .. n) = n
    BY <1>2, FS_Interval
  <2>3. QED
    BY <1>2, <2>1, <2>2, FS_Injection DEF n
<1>6. \A p \in ps : \E k \in 1 .. n : items[k] = p
  BY <1>5 DEF Surjection
<1>7. QED
  BY <1>1, <1>2, <1>3, <1>4, <1>6

\* The sums of the weights satisfy their equation, and they grow.
LEMMA AccGrows ==
  ASSUME NEW cfg \in Configs, NEW ps \in SUBSET (DOMAIN cfg.rows), ps # {},
         NEW items \in Orders(ps)
  PROVE  /\ Acc(cfg, items) \in [0 .. Len(items) -> Nat]
         /\ Acc(cfg, items)[0] = 0
         /\ \A i \in 1 .. Len(items) : Acc(cfg, items)[i]
                                = Acc(cfg, items)[i - 1] + Weight(cfg.rows[items[i]])
         /\ \A i, j \in 0 .. Len(items) : i <= j => Acc(cfg, items)[i] <= Acc(cfg, items)[j]
<1> DEFINE n == Len(items)
           w == [i \in 1 .. n |-> Weight(cfg.rows[items[i]])]
           a == Acc(cfg, items)
<1>1. n \in Nat /\ \A i \in 1 .. n : Weight(cfg.rows[items[i]]) \in Nat \ {0}
  BY OrdersName
<1>2. w \in [1 .. n -> Nat]
  BY <1>1
<1>3. \A i \in 1 .. n : w[i] = Weight(cfg.rows[items[i]]) /\ w[i] \in Nat \ {0}
  BY <1>1
<1> HIDE DEF w
<1>4. PICK f : f = [i \in 0 .. n |-> IF i = 0 THEN 0 ELSE f[i - 1] + w[i]]
  BY <1>1, <1>2, SumsExist
<1>5. f = [i \in 0 .. n |-> IF i = 0 THEN 0 ELSE f[i - 1] + Weight(cfg.rows[items[i]])]
  <2>1. \A i \in 0 .. n : (IF i = 0 THEN 0 ELSE f[i - 1] + w[i])
                          = (IF i = 0 THEN 0 ELSE f[i - 1] + Weight(cfg.rows[items[i]]))
    BY <1>3
  <2>2. QED
    BY <1>4, <2>1
<1>6. a = [i \in 0 .. n |-> IF i = 0 THEN 0 ELSE a[i - 1] + Weight(cfg.rows[items[i]])]
  BY <1>5 DEF Acc
<1> HIDE DEF a, n
<1>7. a[0] = 0
  BY <1>1, <1>6
<1>8. \A i \in 1 .. n : a[i] = a[i - 1] + w[i]
  BY <1>1, <1>3, <1>6
<1>9. \A i \in 0 .. n : a[i] \in Nat
  <2> DEFINE Bad == {i \in 0 .. n : a[i] \notin Nat}
  <2>1. ASSUME Bad # {} PROVE FALSE
    <3>1. PICK k \in Bad : \A j \in Bad : k <= j
      <4>1. Bad \in SUBSET Nat
        BY <1>1
      <4> HIDE DEF Bad
      <4>2. QED
        BY <2>1, <4>1, LeastElement
    <3>2. k # 0
      BY <1>7, <3>1
    <3>3. k \in 1 .. n /\ k - 1 \in 0 .. n /\ ~(k <= k - 1)
      BY <1>1, <3>2
    <3>4. a[k - 1] \in Nat
      BY <3>1, <3>3
    <3>5. QED
      BY <1>3, <1>8, <3>3, <3>4
  <2>2. QED
    BY <2>1
<1>10. a \in [0 .. n -> Nat]
  BY <1>6, <1>9
<1>11. \A i, j \in 0 .. n : i <= j => a[i] <= a[j]
  <2> SUFFICES ASSUME NEW i \in 0 .. n
               PROVE  \A j \in 0 .. n : i <= j => a[i] <= a[j]
    OBVIOUS
  <2> DEFINE Bad == {j \in 0 .. n : i <= j /\ ~(a[i] <= a[j])}
  <2>1. ASSUME Bad # {} PROVE FALSE
    <3>1. PICK k \in Bad : \A j \in Bad : k <= j
      <4>1. Bad \in SUBSET Nat
        BY <1>1
      <4> HIDE DEF Bad
      <4>2. QED
        BY <2>1, <4>1, LeastElement
    <3>2. k # i
      BY <1>9, <3>1
    <3>3. k \in 1 .. n /\ k - 1 \in 0 .. n /\ i <= k - 1 /\ ~(k <= k - 1)
      BY <1>1, <3>2
    <3>4. a[i] <= a[k - 1]
      BY <3>1, <3>3
    <3>5. a[k] = a[k - 1] + w[k] /\ w[k] \in Nat /\ a[k - 1] \in Nat /\ a[i] \in Nat
      BY <1>3, <1>8, <1>9, <3>3
    <3>6. QED
      BY <3>4, <3>5
  <2>2. QED
    BY <2>1
<1>12. QED
  BY <1>3, <1>7, <1>8, <1>10, <1>11 DEF a, n

\* The draws that pick the k-th item are those from the sum before it to its own.
LEMMA PickIsBetweenSums ==
  ASSUME NEW cfg \in Configs, NEW ps \in SUBSET (DOMAIN cfg.rows), ps # {},
         NEW items \in Orders(ps), NEW k \in 1 .. Len(items), NEW d \in Draws(cfg, items)
  PROVE  Pick(cfg, items, d) = items[k]
           <=> Acc(cfg, items)[k - 1] <= d /\ d < Acc(cfg, items)[k]
<1> DEFINE hits  == {i \in DOMAIN items : d < Acc(cfg, items)[i]}
           first == CHOOSE i \in hits : \A j \in hits : i <= j
           a == Acc(cfg, items)
           n == Len(items)
<1>1. /\ n \in Nat \ {0} /\ DOMAIN items = 1 .. n
      /\ \A i, j \in 1 .. n : items[i] = items[j] => i = j
  BY OrdersName
<1>2. /\ a \in [0 .. n -> Nat] /\ a[0] = 0
      /\ \A i, j \in 0 .. n : i <= j => a[i] <= a[j]
  BY AccGrows
<1>3. d \in 0 .. (a[n] - 1)
  BY DEF Draws
<1>4. /\ n \in Nat \ {0} /\ k \in 1 .. n /\ d \in Nat
      /\ \A i \in 0 .. n : a[i] \in Nat
  BY <1>1, <1>2, <1>3
<1>5. hits = {i \in 1 .. n : d < a[i]}
  BY <1>1
<1>6. Pick(cfg, items, d) = IF hits = {} THEN items[Len(items)] ELSE items[first]
  BY DEF Pick
<1> HIDE DEF a, n
<1>7. n \in hits /\ hits \in SUBSET Nat /\ hits \subseteq 1 .. n
  BY <1>1, <1>2, <1>3, <1>5
<1>8. \A i \in 1 .. n : i \in hits <=> d < a[i]
  BY <1>5
<1> HIDE DEF hits
<1>9. first \in hits /\ \A j \in hits : first <= j
  <2>1. \E i \in hits : \A j \in hits : i <= j
    BY <1>7, LeastElement
  <2>2. QED
    BY <2>1
<1> HIDE DEF first
<1>10. Pick(cfg, items, d) = items[first] /\ first \in 1 .. n /\ d < a[first]
  BY <1>6, <1>7, <1>8, <1>9
<1>11. a[first - 1] <= d
  <2>1. CASE first = 1
    BY <1>2, <1>4, <2>1
  <2>2. CASE first # 1
    <3>1. first - 1 \in 1 .. n /\ ~(first <= first - 1)
      BY <1>10, <1>4, <2>2
    <3>2. ~(d < a[first - 1]) /\ a[first - 1] \in Nat
      BY <1>8, <1>9, <1>4, <3>1
    <3>3. QED
      BY <1>4, <3>2
  <2>3. QED
    BY <2>1, <2>2
<1>12. ASSUME a[k - 1] <= d, d < a[k] PROVE k = first
  <2>1. k \in hits
    BY <1>8, <1>12, <1>4 DEF a, n
  <2>2. first <= k
    BY <1>9, <2>1
  <2>3. ASSUME first <= k - 1 PROVE FALSE
    <3>1. k - 1 \in 0 .. n /\ first \in 0 .. n
      BY <1>10, <1>4
    <3>2. a[first] <= a[k - 1] /\ a[first] \in Nat /\ a[k - 1] \in Nat
      BY <1>2, <1>4, <2>3, <3>1
    <3>3. QED
      BY <1>10, <1>12, <1>4, <3>2 DEF a
  <2>4. QED
    BY <1>10, <1>4, <2>2, <2>3
<1>13. QED
  BY <1>10, <1>11, <1>12, <1>1, <1>4 DEF a

\* In every order, a provider is picked by as many draws as its weight says.
LEMMA DrawIsProportional ==
  ASSUME NEW cfg \in Configs, NEW ps \in SUBSET (DOMAIN cfg.rows), ps # {},
         NEW items \in Orders(ps), NEW p \in ps
  PROVE  Cardinality({d \in Draws(cfg, items) : Pick(cfg, items, d) = p})
           = Weight(cfg.rows[p])
<1> DEFINE n == Len(items)
           a == Acc(cfg, items)
           picked == {d \in Draws(cfg, items) : Pick(cfg, items, d) = p}
<1>1. n \in Nat \ {0} /\ Weight(cfg.rows[p]) \in Nat \ {0}
  BY OrdersName
<1>2. PICK k \in 1 .. n : items[k] = p
  BY OrdersName
<1>3. /\ a \in [0 .. n -> Nat]
      /\ a[k] = a[k - 1] + Weight(cfg.rows[p])
      /\ \A i, j \in 0 .. n : i <= j => a[i] <= a[j]
  BY <1>2, AccGrows
<1>4. \A d \in Draws(cfg, items) : Pick(cfg, items, d) = p <=> a[k - 1] <= d /\ d < a[k]
  BY <1>2, PickIsBetweenSums
<1>5. Draws(cfg, items) = 0 .. (a[n] - 1)
  BY DEF Draws
<1>6. picked = {d \in 0 .. (a[n] - 1) : a[k - 1] <= d /\ d < a[k]}
  BY <1>4, <1>5
<1> HIDE DEF a, n, picked
<1>7. a[k - 1] \in Nat /\ a[k] \in Nat /\ a[n] \in Nat /\ a[k] <= a[n]
  BY <1>1, <1>3
<1>8. picked = a[k - 1] .. (a[k] - 1)
  BY <1>6, <1>7
<1> DEFINE x == a[k - 1]
           y == a[k]
           g == Weight(cfg.rows[p])
<1>9. x \in Nat /\ y \in Nat /\ g \in Nat \ {0} /\ y = x + g
  BY <1>1, <1>3, <1>7
<1>10. Cardinality(picked) = Cardinality(x .. (y - 1))
  BY <1>8
<1> HIDE DEF x, y, g
<1>11. Cardinality(x .. (y - 1)) = IF x > y - 1 THEN 0 ELSE (y - 1) - x + 1
  BY <1>9, FS_Interval
<1>12. Cardinality(picked) = g
  BY <1>9, <1>10, <1>11
<1>13. QED
  BY <1>12 DEF picked, g

\* The weights add up to something, and every draw is below the sum of some item.
LEMMA DrawMeetsSum ==
  ASSUME NEW cfg \in Configs, NEW ps \in SUBSET (DOMAIN cfg.rows), ps # {},
         NEW items \in Orders(ps)
  PROVE  /\ Acc(cfg, items)[Len(items)] \in Nat \ {0}
         /\ \A d \in Draws(cfg, items) : \E i \in DOMAIN items : d < Acc(cfg, items)[i]
<1> DEFINE n == Len(items)
           a == Acc(cfg, items)
<1>1. /\ n \in Nat \ {0} /\ DOMAIN items = 1 .. n
      /\ items \in [1 .. n -> ps] /\ \A p \in ps : Weight(cfg.rows[p]) \in Nat \ {0}
  BY OrdersName
<1>2. /\ a \in [0 .. n -> Nat]
      /\ \A i \in 1 .. n : a[i] = a[i - 1] + Weight(cfg.rows[items[i]])
  BY AccGrows
<1>3. Draws(cfg, items) = 0 .. (a[n] - 1)
  BY DEF Draws
<1> DEFINE g == Weight(cfg.rows[items[n]])
<1> HIDE DEF a, n
<1>4. n \in 1 .. n /\ n - 1 \in 0 .. n /\ n \in 0 .. n
  BY <1>1
<1>5. a[n] = a[n - 1] + g /\ a[n - 1] \in Nat /\ g \in Nat \ {0}
  BY <1>1, <1>2, <1>4
<1> HIDE DEF g
<1>6. a[n] \in Nat \ {0}
  BY <1>5
<1>7. \A d \in Draws(cfg, items) : d < a[n]
  BY <1>3, <1>6
<1>8. QED
  BY <1>1, <1>4, <1>6, <1>7 DEF a, n

-----------------------------------------------------------------------------
(* What a request relies on lasts.                                         *)

\* Having seen more worlds, a request is as sound as before.
LEMMA SoundStable ==
  ASSUME NEW l, NEW q, NEW ws, NEW more, ws \subseteq more, l # "idle", Sound(l, q, ws)
  PROVE  Sound(l, q, more)
<1>1. ws # {} /\ more # {}
  BY DEF Sound
<1>2. QED
  BY <1>1 DEF Sound, KeySeen, TenantSeen, RulesSeen, ViewSeen, ProviderSeen, NoneSeen

\* A request that has been answered holds nothing.
LEMMA IdleSound == NoReq \in Held /\ Sound("idle", NoReq, {})
  BY DEF NoReq, Held, Sound

-----------------------------------------------------------------------------
(* The invariant holds at first and is kept by every action.               *)

\* The invariant holds before the first request.
LEMMA InitInv == Init => RoutingInv
<1> SUFFICES ASSUME Init PROVE RoutingInv
  OBVIOUS
<1>1. Typed
  <2>1. world \in Worlds
    BY DEF Init, Worlds, Tenants
  <2>2. QED
    BY <2>1, IdleSound DEF Init, Typed, Stages
<1>2. \A r \in Requests : pc[r] = "idle" /\ req[r] = NoReq /\ seen[r] = {}
  BY DEF Init
<1>3. \A r \in Requests : Sound(pc[r], req[r], seen[r])
  BY <1>2, IdleSound
<1>4. QED
  BY <1>1, <1>2, <1>3 DEF RoutingInv, MayRebind

\* A step of one request keeps the invariant if it leaves that request sound.
LEMMA RequestStep ==
  ASSUME RoutingInv, NEW r \in Requests,
         NEW l \in Stages, NEW q \in Held, NEW ws \in SUBSET Worlds, NEW b \in BOOLEAN,
         pc' = [pc EXCEPT ![r] = l], req' = [req EXCEPT ![r] = q],
         seen' = [seen EXCEPT ![r] = ws], rebound' = [rebound EXCEPT ![r] = b],
         world' = world, sticky' = sticky,
         l # "idle" => world \in ws,
         Sound(l, q, ws),
         (l = "bind" /\ q.session \in Sessions /\ ~b)
           => \/ sticky[q.session] = NoProvider
              \/ \E w \in ws : ~Eligible(w.cfg, w.now, sticky[q.session], q.model)
  PROVE  RoutingInv'
<1>1. Typed
  BY DEF RoutingInv
<1>2. Typed'
  BY <1>1 DEF Typed
<1>3. /\ pc'[r] = l /\ req'[r] = q /\ seen'[r] = ws /\ rebound'[r] = b
      /\ \A x \in Requests \ {r} : /\ pc'[x] = pc[x] /\ req'[x] = req[x]
                                   /\ seen'[x] = seen[x] /\ rebound'[x] = rebound[x]
  BY <1>1 DEF Typed
<1>4. ASSUME NEW x \in Requests
      PROVE  /\ pc'[x] # "idle" => world' \in seen'[x]
             /\ Sound(pc'[x], req'[x], seen'[x])
             /\ MayRebind(x)'
  <2>1. CASE x = r
    BY <1>3, <2>1 DEF MayRebind
  <2>2. CASE x # r
    BY <1>3, <2>2 DEF RoutingInv, MayRebind
  <2>3. QED
    BY <2>1, <2>2
<1>5. QED
  BY <1>2, <1>4 DEF RoutingInv

\* A step that leaves what the request has seen.
LEMMA QuietStep ==
  ASSUME RoutingInv, NEW r \in Requests, NEW l \in Stages, NEW q \in Held,
         pc' = [pc EXCEPT ![r] = l], req' = [req EXCEPT ![r] = q],
         UNCHANGED <<world, sticky, seen, rebound>>,
         pc[r] # "idle", Sound(l, q, seen[r]),
         (l = "bind" /\ q.session \in Sessions)
           => \/ sticky[q.session] = NoProvider
              \/ \E w \in seen[r] : ~Eligible(w.cfg, w.now, sticky[q.session], q.model)
  PROVE  RoutingInv'
<1>1. seen \in [Requests -> SUBSET Worlds] /\ rebound \in [Requests -> BOOLEAN]
  BY DEF RoutingInv, Typed
<1>2. seen[r] \in SUBSET Worlds /\ rebound[r] \in BOOLEAN /\ world \in seen[r]
  BY <1>1 DEF RoutingInv
<1>3. seen' = [seen EXCEPT ![r] = seen[r]] /\ rebound' = [rebound EXCEPT ![r] = rebound[r]]
  BY <1>1
<1>4. world' = world /\ sticky' = sticky
  OBVIOUS
<1>5. QED
  BY <1>2, <1>3, <1>4, RequestStep

\* An answered request is sound.
LEMMA LeaveInv ==
  ASSUME RoutingInv, NEW r \in Requests, Leave(r)
  PROVE  RoutingInv'
<1>1. "idle" \in Stages /\ NoReq \in Held /\ Sound("idle", NoReq, {}) /\ {} \in SUBSET Worlds
  BY IdleSound DEF Stages
<1>2. QED
  BY <1>1, RequestStep DEF Leave, Goto

\* What the invariant says of a request that is under way.
LEMMA Underway ==
  ASSUME RoutingInv, NEW r \in Requests, pc[r] # "idle"
  PROVE  /\ req[r] \in Held /\ seen[r] \in SUBSET Worlds /\ world \in seen[r]
         /\ world \in Worlds /\ Sound(pc[r], req[r], seen[r])
  BY DEF RoutingInv, Typed

\* The key of a new request is in force as it is looked up.
LEMMA AuthenticateInv ==
  ASSUME RoutingInv, NEW r \in Requests, NEW s \in Sessions \cup {NoSession}, NEW m \in Models,
         Authenticate(r, s, m)
  PROVE  RoutingInv'
<1> DEFINE q == [NoReq EXCEPT !.session = s, !.model = m,
                              !.allowed = world.cfg.allowed, !.tenant = world.cfg.tenant]
<1>1. world \in Worlds /\ world.cfg \in Configs
  BY DEF RoutingInv, Typed, Worlds
<1>2. world.cfg.allowed \in SUBSET Models /\ world.cfg.tenant \in Tenants
  BY <1>1, ConfigSound
<1>3. q \in Held
  BY <1>2 DEF NoReq, Held
<1>4. q.allowed = world.cfg.allowed /\ q.tenant = world.cfg.tenant /\ q.provider = NoProvider
  BY DEF NoReq
<1>5. Sound("tenant", q, {world})
  BY <1>4 DEF Sound, KeySeen, Authenticate
<1>6. /\ pc' = [pc EXCEPT ![r] = "tenant"] /\ req' = [req EXCEPT ![r] = q]
      /\ seen' = [seen EXCEPT ![r] = {world}] /\ rebound' = [rebound EXCEPT ![r] = FALSE]
      /\ world' = world /\ sticky' = sticky
  BY DEF Authenticate, Goto
<1>7. "tenant" \in Stages /\ {world} \in SUBSET Worlds /\ world \in {world}
  BY <1>1 DEF Stages
<1> HIDE DEF q
<1>8. QED
  BY <1>3, <1>5, <1>6, <1>7, RequestStep

\* The tenant is enabled in the world the request is in, or excused by an error.
LEMMA CheckTenantInv ==
  ASSUME RoutingInv, NEW r \in Requests, CheckTenant(r)
  PROVE  RoutingInv'
<1>1. pc[r] = "tenant"
  BY DEF CheckTenant
<1>2. PICK failed \in BOOLEAN :
        IF /\ IsTenantEnabled(req[r].tenant, failed)
           /\ SupportsModel(req[r].allowed, req[r].model)
        THEN /\ Goto(r, "rules")
             /\ req' = [req EXCEPT ![r].excused = failed, ![r].allowed = {}]
             /\ UNCHANGED <<world, sticky, changes, seen, rebound>>
        ELSE Leave(r)
  BY DEF CheckTenant
<1>3. CASE Leave(r)
  BY <1>3, LeaveInv
<1>4. CASE /\ IsTenantEnabled(req[r].tenant, failed)
           /\ SupportsModel(req[r].allowed, req[r].model)
           /\ Goto(r, "rules")
           /\ req' = [req EXCEPT ![r].excused = failed, ![r].allowed = {}]
           /\ UNCHANGED <<world, sticky, changes, seen, rebound>>
  <2> DEFINE q == [req[r] EXCEPT !.excused = failed, !.allowed = {}]
  <2>1. req[r] \in Held /\ world \in seen[r] /\ Sound("tenant", req[r], seen[r])
    BY <1>1, Underway
  <2>2. q \in Held
    BY <2>1 DEF Held
  <2>3. /\ q.excused = failed /\ q.tenant = req[r].tenant /\ q.model = req[r].model
        /\ q.provider = req[r].provider
    BY <2>1 DEF Held
  <2>4. req' = [req EXCEPT ![r] = q] /\ pc' = [pc EXCEPT ![r] = "rules"]
    BY <1>4, <2>1 DEF RoutingInv, Typed, Held, Goto
  <2> HIDE DEF q
  <2>5. KeySeen("rules", q, seen[r])
    BY <1>4, <2>1, <2>3 DEF Sound, KeySeen
  <2>6. TenantSeen(q, seen[r])
    BY <1>4, <2>1, <2>3 DEF TenantSeen, IsTenantEnabled
  <2>7. Sound("rules", q, seen[r])
    BY <2>1, <2>3, <2>5, <2>6 DEF Sound
  <2>8. "rules" \in Stages
    BY DEF Stages
  <2>9. QED
    BY <1>1, <1>4, <2>2, <2>4, <2>7, <2>8, QuietStep
<1>5. QED
  BY <1>2, <1>3, <1>4

\* The verdict is that of the rules in force.
LEMMA ApplyRulesInv ==
  ASSUME RoutingInv, NEW r \in Requests, ApplyRules(r)
  PROVE  RoutingInv'
<1> DEFINE v == Verdict(world.cfg, req[r].model)
           q == [req[r] EXCEPT !.forced = v.force]
<1>1. pc[r] = "rules"
  BY DEF ApplyRules
<1>2. req[r] \in Held /\ world \in seen[r] /\ world \in Worlds /\ Sound("rules", req[r], seen[r])
  BY <1>1, Underway
<1>3. v.force \in Providers \cup {NoProvider}
  BY <1>2, VerdictForces DEF Worlds
<1>4. CASE v.deny
  BY <1>4, LeaveInv DEF ApplyRules
<1>5. CASE ~v.deny
  <2>1. /\ Goto(r, "select") /\ req' = [req EXCEPT ![r].forced = v.force]
        /\ UNCHANGED <<world, sticky, changes, seen, rebound>>
    BY <1>5 DEF ApplyRules
  <2> HIDE DEF v
  <2>2. q \in Held
    BY <1>2, <1>3 DEF Held
  <2>3. /\ q.excused = req[r].excused /\ q.tenant = req[r].tenant /\ q.model = req[r].model
        /\ q.provider = req[r].provider /\ q.forced = v.force
    BY <1>2 DEF Held
  <2>4. req' = [req EXCEPT ![r] = q] /\ pc' = [pc EXCEPT ![r] = "select"]
    BY <1>2, <2>1 DEF RoutingInv, Typed, Held, Goto
  <2> HIDE DEF q
  <2>5. KeySeen("select", q, seen[r]) /\ TenantSeen(q, seen[r])
    BY <1>2, <2>3 DEF Sound, KeySeen, TenantSeen
  <2>6. RulesSeen(q, seen[r])
    BY <1>2, <1>5, <2>3 DEF RulesSeen, v
  <2>7. Sound("select", q, seen[r])
    BY <1>2, <2>3, <2>5, <2>6 DEF Sound
  <2>8. "select" \in Stages
    BY DEF Stages
  <2>9. QED
    BY <1>1, <2>1, <2>2, <2>4, <2>7, <2>8, QuietStep
<1>6. QED
  BY <1>4, <1>5

\* A provider that is eligible has a row, so it is one of the providers.
LEMMA EligibleIsProvider ==
  ASSUME NEW c \in Configs, NEW now, NEW p, NEW m, Eligible(c, now, p, m)
  PROVE  p \in Providers /\ p # NoProvider
  BY ConfigSound DEF Eligible

\* What a request holds is sound at a later stage if only its provider and its
\* view changed and the stage's own conditions hold.
LEMMA CarriedOver ==
  ASSUME NEW l \in {"select", "lookup", "bind"}, NEW q, NEW ws, Sound(l, q, ws),
         NEW k \in {"lookup", "bind", "channel", "unavailable"}, NEW n,
         n.tenant = q.tenant, n.excused = q.excused, n.model = q.model, n.forced = q.forced,
         k = "lookup" => ViewSeen(n, ws),
         k \in {"lookup", "bind"} => n.forced = NoProvider,
         k \in {"bind", "channel"} => ProviderSeen(n, ws) /\ n.provider \in Providers,
         k \notin {"bind", "channel"} => n.provider = NoProvider,
         k = "channel" => n.forced \in {NoProvider, n.provider},
         k = "unavailable" => NoneSeen(n, ws)
  PROVE  Sound(k, n, ws)
<1>1. KeySeen(k, n, ws) /\ TenantSeen(n, ws) /\ RulesSeen(n, ws) /\ ws # {}
  BY DEF Sound, KeySeen, TenantSeen, RulesSeen
<1>2. QED
  BY <1>1 DEF Sound

\* A forced provider is judged in the world the request is in; any other choice is
\* left to the view it takes of it.
LEMMA ReadProvidersInv ==
  ASSUME RoutingInv, NEW r \in Requests, ReadProviders(r)
  PROVE  RoutingInv'
<1> DEFINE p  == req[r].forced
           ok == Eligible(world.cfg, world.now, p, req[r].model)
<1>1. pc[r] = "select" /\ UNCHANGED <<world, sticky, seen, rebound>>
  BY DEF ReadProviders
<1>2. req[r] \in Held /\ world \in seen[r] /\ world \in Worlds /\ Sound("select", req[r], seen[r])
  BY <1>1, Underway
<1>3. world.cfg \in Configs /\ world.now \in Nat /\ p \in Providers \cup {NoProvider}
  BY <1>2 DEF Worlds, Held
<1>4. req[r].provider = NoProvider
  BY <1>2 DEF Sound
<1>5. CASE p = NoProvider
  <2> DEFINE q == [req[r] EXCEPT !.view = world.cfg, !.at = world.now]
  <2>1. q \in Held
    BY <1>2, <1>3 DEF Held
  <2>2. /\ q.tenant = req[r].tenant /\ q.excused = req[r].excused /\ q.model = req[r].model
        /\ q.forced = req[r].forced /\ q.provider = NoProvider
        /\ q.view = world.cfg /\ q.at = world.now
    BY <1>2, <1>4 DEF Held
  <2>3. req' = [req EXCEPT ![r] = q] /\ pc' = [pc EXCEPT ![r] = "lookup"]
    BY <1>2, <1>5 DEF ReadProviders, RoutingInv, Typed, Held, Goto
  <2> HIDE DEF q
  <2>4. ViewSeen(q, seen[r])
    BY <1>2, <2>2 DEF ViewSeen
  <2>5. Sound("lookup", q, seen[r])
    BY <1>2, <1>5, <2>2, <2>4, CarriedOver
  <2>6. "lookup" \in Stages
    BY DEF Stages
  <2>7. QED
    BY <1>1, <2>1, <2>3, <2>5, <2>6, QuietStep
<1>6. CASE p # NoProvider /\ ok
  <2> DEFINE q == [req[r] EXCEPT !.provider = p]
  <2>1. q \in Held
    BY <1>2, <1>3 DEF Held
  <2>2. /\ q.tenant = req[r].tenant /\ q.excused = req[r].excused /\ q.model = req[r].model
        /\ q.forced = req[r].forced /\ q.provider = p
    BY <1>2 DEF Held
  <2>3. req' = [req EXCEPT ![r] = q] /\ pc' = [pc EXCEPT ![r] = "channel"]
    BY <1>2, <1>6 DEF ReadProviders, RoutingInv, Typed, Held, Goto
  <2> HIDE DEF q
  <2>4. ProviderSeen(q, seen[r]) /\ q.provider \in Providers
    BY <1>2, <1>3, <1>6, <2>2 DEF ProviderSeen
  <2>5. Sound("channel", q, seen[r])
    BY <1>2, <2>2, <2>4, CarriedOver
  <2>6. "channel" \in Stages
    BY DEF Stages
  <2>7. QED
    BY <1>1, <2>1, <2>3, <2>5, <2>6, QuietStep
<1>7. CASE p # NoProvider /\ ~ok
  <2> DEFINE q == [req[r] EXCEPT !.provider = NoProvider]
  <2>1. q \in Held
    BY <1>2, <1>3 DEF Held
  <2>2. /\ q.tenant = req[r].tenant /\ q.excused = req[r].excused /\ q.model = req[r].model
        /\ q.forced = req[r].forced /\ q.provider = NoProvider
    BY <1>2 DEF Held
  <2>3. req' = [req EXCEPT ![r] = q] /\ pc' = [pc EXCEPT ![r] = "unavailable"]
    BY <1>2, <1>7 DEF ReadProviders, RoutingInv, Typed, Held, Goto
  <2> HIDE DEF q
  <2>4. NoneSeen(q, seen[r])
    BY <1>2, <1>7, <2>2 DEF NoneSeen
  <2>5. Sound("unavailable", q, seen[r])
    BY <1>2, <2>2, <2>4, CarriedOver
  <2>6. "unavailable" \in Stages
    BY DEF Stages
  <2>7. QED
    BY <1>1, <2>1, <2>3, <2>5, <2>6, QuietStep
<1>8. QED
  BY <1>5, <1>6, <1>7

\* The view is one of a world the request has seen.
LEMMA ViewOfLookup ==
  ASSUME RoutingInv, NEW r \in Requests, pc[r] = "lookup"
  PROVE  /\ req[r] \in Held /\ Sound("lookup", req[r], seen[r])
         /\ req[r].view \in Configs /\ req[r].forced = NoProvider
         /\ \E w \in seen[r] : w.cfg = req[r].view /\ w.now = req[r].at
<1>1. req[r] \in Held /\ seen[r] \in SUBSET Worlds /\ Sound("lookup", req[r], seen[r])
  BY Underway
<1>2. \E w \in seen[r] : w.cfg = req[r].view /\ w.now = req[r].at
  BY <1>1 DEF Sound, ViewSeen
<1>3. req[r].view \in Configs
  BY <1>1, <1>2 DEF Worlds
<1>4. QED
  BY <1>1, <1>2, <1>3 DEF Sound

\* The provider of a binding is judged in the view.
LEMMA FollowBindingInv ==
  ASSUME RoutingInv, NEW r \in Requests, FollowBinding(r)
  PROVE  RoutingInv'
<1> DEFINE p == IF req[r].session = NoSession THEN NoProvider ELSE sticky[req[r].session]
           q == [req[r] EXCEPT !.provider = p, !.view = "none", !.at = 0]
<1>1. /\ pc[r] = "lookup" /\ UNCHANGED <<world, sticky, seen, rebound>>
      /\ Eligible(req[r].view, req[r].at, p, req[r].model)
  BY DEF FollowBinding, BindingUsable
<1>2. /\ req[r] \in Held /\ Sound("lookup", req[r], seen[r])
      /\ req[r].view \in Configs /\ req[r].forced = NoProvider
      /\ \E w \in seen[r] : w.cfg = req[r].view /\ w.now = req[r].at
  BY <1>1, ViewOfLookup
<1>3. p \in Providers
  BY <1>1, <1>2, EligibleIsProvider
<1>4. req' = [req EXCEPT ![r] = q] /\ pc' = [pc EXCEPT ![r] = "channel"]
  BY <1>2 DEF FollowBinding, RoutingInv, Typed, Held, Goto
<1> HIDE DEF p
<1>5. q \in Held
  BY <1>2, <1>3 DEF Held
<1>6. /\ q.tenant = req[r].tenant /\ q.excused = req[r].excused /\ q.model = req[r].model
      /\ q.forced = req[r].forced /\ q.provider = p
  BY <1>2 DEF Held
<1> HIDE DEF q
<1>7. ProviderSeen(q, seen[r])
  BY <1>1, <1>2, <1>6 DEF ProviderSeen
<1>8. Sound("channel", q, seen[r])
  BY <1>2, <1>3, <1>6, <1>7, CarriedOver
<1>9. "channel" \in Stages
  BY DEF Stages
<1>10. QED
  BY <1>1, <1>4, <1>5, <1>8, <1>9, QuietStep

\* Every candidate is eligible in the view, and so is the one that is drawn; if the
\* session was bound, the binding was of no use in that view.
LEMMA DrawProviderInv ==
  ASSUME RoutingInv, NEW r \in Requests, DrawProvider(r)
  PROVE  RoutingInv'
<1> DEFINE p  == IF req[r].session = NoSession THEN NoProvider ELSE sticky[req[r].session]
           ps == Candidates(req[r].view, req[r].at, req[r].model)
<1>1. /\ pc[r] = "lookup" /\ UNCHANGED <<world, sticky, seen, rebound>>
      /\ ~Eligible(req[r].view, req[r].at, p, req[r].model)
  BY DEF DrawProvider, BindingUsable
<1>2. /\ req[r] \in Held /\ Sound("lookup", req[r], seen[r])
      /\ req[r].view \in Configs /\ req[r].forced = NoProvider
      /\ \E w \in seen[r] : w.cfg = req[r].view /\ w.now = req[r].at
  BY <1>1, ViewOfLookup
<1>3. CASE ps = {}
  <2>1. pc' = [pc EXCEPT ![r] = "unavailable"] /\ req' = [req EXCEPT ![r] = req[r]]
    BY <1>3 DEF DrawProvider, Goto, RoutingInv, Typed
  <2>2. NoneSeen(req[r], seen[r])
    BY <1>2, <1>3 DEF NoneSeen, Candidates
  <2>3. req[r].provider = NoProvider
    BY <1>2 DEF Sound
  <2>4. Sound("unavailable", req[r], seen[r])
    BY <1>2, <2>2, <2>3, CarriedOver
  <2>5. "unavailable" \in Stages
    BY DEF Stages
  <2>6. QED
    BY <1>1, <1>2, <2>1, <2>4, <2>5, QuietStep
<1>4. CASE ps # {}
  <2>1. PICK items \in Orders(ps) : \E d \in Draws(req[r].view, items) :
          /\ req' = [req EXCEPT ![r].provider = Pick(req[r].view, items, d),
                                ![r].view = "none", ![r].at = 0]
          /\ Goto(r, "bind")
    BY <1>4 DEF DrawProvider
  <2>2. PICK d \in Draws(req[r].view, items) :
          /\ req' = [req EXCEPT ![r].provider = Pick(req[r].view, items, d),
                                ![r].view = "none", ![r].at = 0]
          /\ Goto(r, "bind")
    BY <2>1
  <2> DEFINE pick == Pick(req[r].view, items, d)
             q    == [req[r] EXCEPT !.provider = pick, !.view = "none", !.at = 0]
  <2>3. ps \in SUBSET Providers
    BY <1>2, ConfigSound DEF Candidates
  <2>4. pick \in ps
    BY <1>4, <2>3, PickIsCandidate
  <2>5. pick \in Providers /\ Eligible(req[r].view, req[r].at, pick, req[r].model)
    BY <2>3, <2>4 DEF Candidates
  <2>6. req' = [req EXCEPT ![r] = q] /\ pc' = [pc EXCEPT ![r] = "bind"]
    BY <1>2, <2>2 DEF RoutingInv, Typed, Held, Goto
  <2> HIDE DEF pick
  <2>7. q \in Held
    BY <1>2, <2>5 DEF Held
  <2>8. /\ q.tenant = req[r].tenant /\ q.excused = req[r].excused /\ q.model = req[r].model
        /\ q.forced = req[r].forced /\ q.provider = pick /\ q.session = req[r].session
    BY <1>2 DEF Held
  <2> HIDE DEF q
  <2>9. ProviderSeen(q, seen[r])
    BY <1>2, <2>5, <2>8 DEF ProviderSeen
  <2>10. Sound("bind", q, seen[r])
    BY <1>2, <2>5, <2>8, <2>9, CarriedOver
  <2>11. q.session \in Sessions =>
           \E w \in seen[r] : ~Eligible(w.cfg, w.now, sticky[q.session], q.model)
    <3>1. q.session \in Sessions => p = sticky[q.session]
      BY <2>8, RoutingAssumption
    <3>2. QED
      BY <1>1, <1>2, <2>8, <3>1
  <2>12. "bind" \in Stages
    BY DEF Stages
  <2>13. QED
    BY <1>1, <2>6, <2>7, <2>10, <2>11, <2>12, QuietStep
<1>5. QED
  BY <1>3, <1>4

\* Whoever else is about to bind the session is told of it.
LEMMA BindInv ==
  ASSUME RoutingInv, NEW r \in Requests, Bind(r)
  PROVE  RoutingInv'
<1>1. /\ pc[r] = "bind" /\ pc' = [pc EXCEPT ![r] = "channel"]
      /\ UNCHANGED <<world, req, seen>>
      /\ sticky' = Bound(req[r].session, req[r].provider)
      /\ rebound' = [x \in Requests |->
           \/ rebound[x]
           \/ x # r /\ x \in Running /\ req[x].session = req[r].session]
  BY DEF Bind, Goto
<1>2. req[r] \in Held /\ seen[r] \in SUBSET Worlds /\ Sound("bind", req[r], seen[r])
  BY <1>1, Underway
<1>3. req[r].provider \in Providers /\ req[r].forced = NoProvider
  BY <1>2 DEF Sound
<1>4. Sound("channel", req[r], seen[r])
  BY <1>2, <1>3, CarriedOver DEF Sound
<1>5. req[r].session \in Sessions \cup {NoSession}
  BY <1>2 DEF Held
<1>6. Typed'
  <2>1. sticky' \in [Sessions -> Providers \cup {NoProvider}]
    BY <1>1, <1>3, <1>5 DEF Bound, RoutingInv, Typed
  <2>2. rebound' \in [Requests -> BOOLEAN]
    BY <1>1 DEF RoutingInv, Typed, Running
  <2>3. "channel" \in Stages
    BY DEF Stages
  <2>4. QED
    BY <1>1, <2>1, <2>2, <2>3 DEF RoutingInv, Typed
<1>7. ASSUME NEW x \in Requests
      PROVE  /\ pc'[x] # "idle" => world' \in seen'[x]
             /\ Sound(pc'[x], req'[x], seen'[x])
             /\ MayRebind(x)'
  <2>1. pc'[r] = "channel" /\ (x # r => pc'[x] = pc[x])
    BY <1>1 DEF RoutingInv, Typed
  <2>2. CASE x = r
    <3>1. MayRebind(r)'
      BY <2>1 DEF MayRebind
    <3>2. QED
      BY <1>1, <1>4, <2>1, <2>2, <3>1 DEF RoutingInv
  <2>3. CASE x # r
    <3>1. /\ pc'[x] # "idle" => world' \in seen'[x]
          /\ Sound(pc'[x], req'[x], seen'[x])
      BY <1>1, <2>1, <2>3 DEF RoutingInv
    <3>2. ASSUME pc'[x] = "bind", req'[x].session \in Sessions, ~rebound'[x]
          PROVE  sticky'[req'[x].session] = sticky[req[x].session] /\ ~rebound[x]
      <4>1. ~rebound[x] /\ req[x].session # req[r].session
        BY <1>1, <2>1, <2>3, <3>2 DEF Running
      <4>2. sticky'[req[x].session] = sticky[req[x].session]
        BY <1>1, <3>2, <4>1 DEF Bound, RoutingInv, Typed
      <4>3. QED
        BY <1>1, <4>1, <4>2
    <3>3. MayRebind(x)'
      BY <1>1, <2>1, <2>3, <3>2 DEF MayRebind, RoutingInv
    <3>4. QED
      BY <3>1, <3>3
  <2>4. QED
    BY <2>2, <2>3
<1>8. QED
  BY <1>6, <1>7 DEF RoutingInv

\* A new world is added to what the requests under way have seen.
LEMMA WorldInv ==
  ASSUME RoutingInv, NEW w \in Worlds, WorldBecomes(w)
  PROVE  RoutingInv'
<1>1. /\ world' = w /\ UNCHANGED <<sticky, pc, req, rebound>>
      /\ seen' = [r \in Requests |-> IF r \in Running THEN seen[r] \cup {w} ELSE {}]
  BY DEF WorldBecomes
<1>2. Typed'
  BY <1>1 DEF RoutingInv, Typed
<1>3. ASSUME NEW r \in Requests
      PROVE  /\ pc'[r] # "idle" => world' \in seen'[r]
             /\ Sound(pc'[r], req'[r], seen'[r])
             /\ MayRebind(r)'
  <2>1. Sound(pc[r], req[r], seen[r])
    BY DEF RoutingInv
  <2>2. CASE pc[r] = "idle"
    <3>1. seen'[r] = {} /\ seen[r] = {}
      BY <1>1, <2>1, <2>2 DEF Running, Sound
    <3>2. QED
      BY <1>1, <2>1, <2>2, <3>1 DEF MayRebind
  <2>3. CASE pc[r] # "idle"
    <3>1. seen'[r] = seen[r] \cup {w}
      BY <1>1, <2>3 DEF Running
    <3>2. Sound(pc[r], req[r], seen'[r])
      BY <2>1, <2>3, <3>1, SoundStable
    <3>3. MayRebind(r)'
      BY <1>1, <3>1 DEF RoutingInv, MayRebind
    <3>4. QED
      BY <1>1, <3>1, <3>2, <3>3
  <2>4. QED
    BY <2>2, <2>3
<1>4. QED
  BY <1>2, <1>3 DEF RoutingInv

\* Configurations, tenants and the clock change to those of another world.
LEMMA ChangeInv ==
  ASSUME RoutingInv, Publish \/ SetTenants \/ Tick
  PROVE  RoutingInv'
<1>1. world \in Worlds
  BY DEF RoutingInv, Typed
<1>2. CASE Publish
  <2>1. PICK c \in Configs : WorldBecomes([world EXCEPT !.cfg = c])
    BY <1>2 DEF Publish
  <2>2. [world EXCEPT !.cfg = c] \in Worlds
    BY <1>1 DEF Worlds
  <2>3. QED
    BY <2>1, <2>2, WorldInv
<1>3. CASE SetTenants
  <2>1. PICK t \in Tenants : \/ WorldBecomes([world EXCEPT !.tenants = @ \cup {t}])
                             \/ WorldBecomes([world EXCEPT !.tenants = @ \ {t}])
    BY <1>3 DEF SetTenants, Tenants
  <2>2. /\ [world EXCEPT !.tenants = @ \cup {t}] \in Worlds
        /\ [world EXCEPT !.tenants = @ \ {t}] \in Worlds
    BY <1>1 DEF Worlds
  <2>3. QED
    BY <2>1, <2>2, WorldInv
<1>4. CASE Tick
  <2>1. [world EXCEPT !.now = @ + 1] \in Worlds
    BY <1>1 DEF Worlds
  <2>2. QED
    BY <1>4, <2>1, WorldInv DEF Tick
<1>5. QED
  BY <1>2, <1>3, <1>4

\* A restart forgets bindings and requests.
LEMMA RestartInv ==
  ASSUME RoutingInv, Restart
  PROVE  RoutingInv'
<1>1. Typed'
  BY IdleSound DEF Restart, RoutingInv, Typed, Stages
<1>2. \A r \in Requests : pc'[r] = "idle" /\ req'[r] = NoReq /\ seen'[r] = {}
  BY DEF Restart
<1>3. \A r \in Requests : Sound(pc'[r], req'[r], seen'[r])
  BY <1>2, IdleSound
<1>4. \A r \in Requests : MayRebind(r)'
  BY <1>2 DEF MayRebind
<1>5. QED
  BY <1>1, <1>2, <1>3, <1>4 DEF RoutingInv

\* RoutingInv holds in every reachable state: whatever a request holds was decided
\* in a world it has run in.
THEOREM InductiveInvariant == Spec => []RoutingInv
<1>1. RoutingInv /\ [Next]_vars => RoutingInv'
  <2> SUFFICES ASSUME RoutingInv, [Next]_vars PROVE RoutingInv'
    OBVIOUS
  <2>1. ASSUME NEW r \in Requests, NEW s \in Sessions \cup {NoSession}, NEW m \in Models,
               Authenticate(r, s, m)
        PROVE  RoutingInv'
    BY <2>1, AuthenticateInv
  <2>2. ASSUME NEW r \in Requests, CheckTenant(r) PROVE RoutingInv'
    BY <2>2, CheckTenantInv
  <2>3. ASSUME NEW r \in Requests, ApplyRules(r) PROVE RoutingInv'
    BY <2>3, ApplyRulesInv
  <2>4. ASSUME NEW r \in Requests, LimitRefuses(r) \/ Finish(r) PROVE RoutingInv'
    BY <2>4, LeaveInv DEF LimitRefuses, Finish
  <2>5. ASSUME NEW r \in Requests, ReadProviders(r) PROVE RoutingInv'
    BY <2>5, ReadProvidersInv
  <2>6. ASSUME NEW r \in Requests, FollowBinding(r) PROVE RoutingInv'
    BY <2>6, FollowBindingInv
  <2>7. ASSUME NEW r \in Requests, DrawProvider(r) PROVE RoutingInv'
    BY <2>7, DrawProviderInv
  <2>8. ASSUME NEW r \in Requests, Bind(r) PROVE RoutingInv'
    BY <2>8, BindInv
  <2>9. CASE Publish \/ SetTenants \/ Tick
    BY <2>9, ChangeInv
  <2>10. CASE Restart
    BY <2>10, RestartInv
  <2>11. CASE UNCHANGED vars
    BY <2>11 DEF vars, RoutingInv, Typed, MayRebind
  <2>12. QED
    BY <2>1, <2>2, <2>3, <2>4, <2>5, <2>6, <2>7, <2>8, <2>9, <2>10, <2>11 DEF Next
<1>2. QED
  BY <1>1, InitInv, PTL DEF Spec

-----------------------------------------------------------------------------
(* What it gives.                                                          *)

\* A request at stage "channel" is sound there.
LEMMA Sent ==
  ASSUME RoutingInv, NEW r \in Requests, pc[r] = "channel"
  PROVE  /\ KeySeen("channel", req[r], seen[r]) /\ TenantSeen(req[r], seen[r])
         /\ RulesSeen(req[r], seen[r]) /\ ProviderSeen(req[r], seen[r])
         /\ req[r].forced \in {NoProvider, req[r].provider}
         /\ seen[r] \in SUBSET Worlds
<1>1. Sound("channel", req[r], seen[r]) /\ seen[r] \in SUBSET Worlds
  BY Underway
<1>2. QED
  BY <1>1 DEF Sound

\* TypeOK: the bindings are of real sessions, and a request has a provider exactly
\* while it is bound and sent to it.
THEOREM TypeCorrect == Spec => []TypeOK
<1>1. RoutingInv => TypeOK
  <2> SUFFICES ASSUME RoutingInv PROVE TypeOK
    OBVIOUS
  <2>1. world.cfg \in Configs /\ world.now \in Nat /\ world.tenants \subseteq {"default", "team"}
    BY DEF RoutingInv, Typed, Worlds, Tenants
  <2>2. ASSUME NEW r \in Requests
        PROVE  /\ pc[r] \in Stages
               /\ pc[r] \in {"bind", "channel"} <=> req[r].provider \in Providers
               /\ pc[r] = "bind" => req[r].forced = NoProvider
               /\ (pc[r] = "idle") <=> (seen[r] = {})
    <3>1. pc[r] \in Stages /\ Sound(pc[r], req[r], seen[r])
      BY DEF RoutingInv, Typed
    <3>2. QED
      BY <3>1, RoutingAssumption DEF Sound
  <2>3. QED
    BY <2>1, <2>2 DEF TypeOK, Stages, RoutingInv, Typed
<1>2. QED
  BY <1>1, InductiveInvariant, PTL

\* RoutedAsPublished: a request goes to a provider that could serve it at some
\* moment while it ran.
THEOREM RoutedAsPublishedHolds == Spec => []RoutedAsPublished
<1>1. RoutingInv => RoutedAsPublished
  <2> SUFFICES ASSUME RoutingInv, NEW r \in Requests, pc[r] = "channel"
               PROVE  \E w \in seen[r] :
                        LET p == req[r].provider
                        IN  /\ p \in DOMAIN w.cfg.rows /\ w.cfg.rows[p].enabled
                            /\ w.cfg.rows[p].models = {} \/ req[r].model \in w.cfg.rows[p].models
                            /\ w.now > w.cfg.rows[p].ready
    BY DEF RoutedAsPublished
  <2>1. ProviderSeen(req[r], seen[r])
    BY Sent
  <2>2. QED
    BY <2>1 DEF ProviderSeen, Eligible, SupportsModel, HasLiveKey
<1>2. QED
  BY <1>1, InductiveInvariant, PTL

\* UnavailableForCause: a request is refused for want of a provider only if there
\* was none at some moment while it ran.
THEOREM UnavailableForCauseHolds == Spec => []UnavailableForCause
<1>1. RoutingInv => UnavailableForCause
  <2> SUFFICES ASSUME RoutingInv, NEW r \in Requests, pc[r] = "unavailable"
               PROVE  NoneSeen(req[r], seen[r])
    BY DEF UnavailableForCause, NoneSeen
  <2>1. Sound("unavailable", req[r], seen[r])
    BY Underway
  <2>2. QED
    BY <2>1 DEF Sound
<1>2. QED
  BY <1>1, InductiveInvariant, PTL

\* RulesObeyed: a request that is sent passed a rule set that was published while it
\* ran, and the last rule that forces a provider forced the one it is sent to.
THEOREM RulesObeyedHolds == Spec => []RulesObeyed
<1>1. RoutingInv => RulesObeyed
  <2> SUFFICES ASSUME RoutingInv, NEW r \in Requests, pc[r] = "channel"
               PROVE  \E w \in seen[r] :
                        LET hits == {w.cfg.rules[i] : i \in Matching(w.cfg, req[r].model)}
                        IN  /\ \A h \in hits : ~h.deny
                            /\ \/ \A h \in hits : h.force = NoProvider
                               \/ \E i \in Matching(w.cfg, req[r].model) :
                                    /\ w.cfg.rules[i].force = req[r].provider
                                    /\ \A j \in Matching(w.cfg, req[r].model) :
                                         j > i => w.cfg.rules[j].force = NoProvider
    BY DEF RulesObeyed
  <2>1. PICK w \in seen[r] : /\ ~Verdict(w.cfg, req[r].model).deny
                             /\ Verdict(w.cfg, req[r].model).force = req[r].forced
    BY Sent DEF RulesSeen
  <2>2. w.cfg \in Configs /\ req[r].forced \in {NoProvider, req[r].provider}
    BY Sent DEF Worlds
  <2>3. \A i \in Matching(w.cfg, req[r].model) : ~w.cfg.rules[i].deny
    BY <2>1, <2>2, VerdictForces
  <2>4. CASE req[r].forced = NoProvider
    <3>1. \A i \in Matching(w.cfg, req[r].model) : w.cfg.rules[i].force = NoProvider
      BY <2>1, <2>2, <2>4, VerdictForces
    <3>2. QED
      BY <2>3, <3>1
  <2>5. CASE req[r].forced # NoProvider
    <3>1. \E i \in Matching(w.cfg, req[r].model) :
            /\ w.cfg.rules[i].force = req[r].provider
            /\ \A j \in Matching(w.cfg, req[r].model) :
                 j > i => w.cfg.rules[j].force = NoProvider
      BY <2>1, <2>2, <2>5, VerdictForces
    <3>2. QED
      BY <2>3, <3>1
  <2>6. QED
    BY <2>4, <2>5
<1>2. QED
  BY <1>1, InductiveInvariant, PTL

\* AdmittedAsConfigured: a request that is sent came with a key and a tenant that
\* were in force while it ran.
THEOREM AdmittedAsConfiguredHolds == Spec => []AdmittedAsConfigured
<1>1. RoutingInv => AdmittedAsConfigured
  <2> SUFFICES ASSUME RoutingInv, NEW r \in Requests, pc[r] = "channel"
               PROVE  /\ \E w \in seen[r] :
                           /\ w.cfg.keyOn /\ w.cfg.tenant = req[r].tenant
                           /\ w.cfg.allowed = {} \/ req[r].model \in w.cfg.allowed
                      /\ TenantSeen(req[r], seen[r])
    BY DEF AdmittedAsConfigured, TenantSeen
  <2>1. KeySeen("channel", req[r], seen[r]) /\ TenantSeen(req[r], seen[r])
    BY Sent
  <2>2. QED
    BY <2>1 DEF KeySeen, SupportsModel
<1>2. QED
  BY <1>1, InductiveInvariant, PTL

\* StickyMovesForCause: a binding is replaced only by a request that saw its provider
\* unable to serve, or that raced another request of the session.
THEOREM StickyMovesForCauseHolds == Spec => StickyMovesForCause
<1> DEFINE Cause(s, r) ==
      (/\ pc[r] = "bind" /\ pc'[r] = "channel"
       /\ sticky[s] # NoProvider /\ sticky'[s] # sticky[s])
      => \/ rebound[r]
         \/ \E w \in seen[r] : ~Eligible(w.cfg, w.now, sticky[s], req[r].model)
<1>1. RoutingInv /\ [Next]_vars => [\A s \in Sessions, r \in Requests : Cause(s, r)]_vars
  <2> SUFFICES ASSUME RoutingInv, Next, NEW s \in Sessions, NEW r \in Requests,
                      pc[r] = "bind", pc'[r] = "channel",
                      sticky[s] # NoProvider, sticky'[s] # sticky[s]
               PROVE  \/ rebound[r]
                      \/ \E w \in seen[r] : ~Eligible(w.cfg, w.now, sticky[s], req[r].model)
    OBVIOUS
  <2>1. \E x \in Requests : Bind(x)
    <3>1. \/ sticky' = sticky
          \/ Restart
          \/ \E x \in Requests : Bind(x)
      BY DEF Next, Authenticate, CheckTenant, ApplyRules, LimitRefuses, ReadProviders,
             FollowBinding, DrawProvider, Finish, Leave, Publish, SetTenants, Tick,
             WorldBecomes
    <3>2. ~Restart
      BY DEF Restart
    <3>3. QED
      BY <3>1, <3>2
  <2>2. PICK x \in Requests : Bind(x)
    BY <2>1
  <2>3. x = r
    BY <2>2 DEF Bind, Goto, RoutingInv, Typed
  <2>4. s = req[r].session
    BY <2>2, <2>3 DEF Bind, Bound, RoutingInv, Typed
  <2>5. MayRebind(r)
    BY DEF RoutingInv
  <2>6. QED
    BY <2>4, <2>5 DEF MayRebind
<1>2. QED
  BY <1>1, InductiveInvariant, PTL DEF Spec, StickyMovesForCause

\* PickIsProportional: whatever the order in which the map of candidates is walked,
\* each is picked by as many draws as its weight says.
THEOREM PickIsProportionalHolds == Spec => []PickIsProportional
<1>1. RoutingInv => PickIsProportional
  <2> SUFFICES ASSUME RoutingInv, NEW m \in Models,
                      NEW items \in Orders(Candidates(world.cfg, world.now, m)),
                      NEW p \in Candidates(world.cfg, world.now, m)
               PROVE  Cardinality({d \in Draws(world.cfg, items) : Pick(world.cfg, items, d) = p})
                        = Weight(world.cfg.rows[p])
    BY DEF PickIsProportional
  <2>1. world.cfg \in Configs
    BY DEF RoutingInv, Typed, Worlds
  <2>2. Candidates(world.cfg, world.now, m) \in SUBSET (DOMAIN world.cfg.rows)
    BY DEF Candidates
  <2>3. QED
    BY <2>1, <2>2, DrawIsProportional
<1>2. QED
  BY <1>1, InductiveInvariant, PTL

\* A draw never fails.  Whenever a request that has read its providers finds one that is
\* eligible, rand.Intn of weightedProviderPick gets a positive sum, in every order of the
\* map of candidates, and its loop returns before it ends, whatever weights are stored.
THEOREM DrawAlwaysDecides ==
  Spec => [](\A r \in Requests :
               LET ps == Candidates(req[r].view, req[r].at, req[r].model)
               IN  pc[r] = "lookup" /\ ps # {} =>
                     \A items \in Orders(ps) :
                       /\ Draws(req[r].view, items) # {}
                       /\ \A d \in Draws(req[r].view, items) :
                            \E i \in DOMAIN items : d < Acc(req[r].view, items)[i])
<1>1. ASSUME RoutingInv, NEW r \in Requests, pc[r] = "lookup",
             Candidates(req[r].view, req[r].at, req[r].model) # {},
             NEW items \in Orders(Candidates(req[r].view, req[r].at, req[r].model))
      PROVE  /\ Draws(req[r].view, items) # {}
             /\ \A d \in Draws(req[r].view, items) :
                  \E i \in DOMAIN items : d < Acc(req[r].view, items)[i]
  <2> DEFINE c == req[r].view
  <2>1. c \in Configs
    BY <1>1, ViewOfLookup
  <2>2. Candidates(c, req[r].at, req[r].model) \in SUBSET (DOMAIN c.rows)
    BY DEF Candidates
  <2> HIDE DEF c
  <2>3. Acc(c, items)[Len(items)] \in Nat \ {0}
        /\ \A d \in Draws(c, items) : \E i \in DOMAIN items : d < Acc(c, items)[i]
    BY <1>1, <2>1, <2>2, DrawMeetsSum DEF c
  <2>4. 0 \in Draws(c, items)
    BY <2>3 DEF Draws
  <2>5. QED
    BY <2>3, <2>4 DEF c
<1>2. RoutingInv =>
        \A r \in Requests :
          LET ps == Candidates(req[r].view, req[r].at, req[r].model)
          IN  pc[r] = "lookup" /\ ps # {} =>
                \A items \in Orders(ps) :
                  /\ Draws(req[r].view, items) # {}
                  /\ \A d \in Draws(req[r].view, items) :
                       \E i \in DOMAIN items : d < Acc(req[r].view, items)[i]
  BY <1>1
<1>3. QED
  BY <1>2, InductiveInvariant, PTL
=============================================================================
