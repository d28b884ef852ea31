------------------------------- MODULE Routing -------------------------------
(***************************************************************************)
(* How a request finds its provider.                                       *)
(*                                                                         *)
(* One request reads the published snapshot three times (its gateway key,  *)
(* the rules, the providers), its tenant from the store, and the binding   *)
(* of its session from a map it locks twice, once to read and once to      *)
(* write.  Snapshots are published and sessions are bound between any two  *)
(* of these steps, so the request is not decided by one configuration.     *)
(*                                                                         *)
(* A provider's key pool is the second after which one of its keys is      *)
(* live; module KeyPool models the keys.  What the limiters and the        *)
(* balance check answer is left open; Billing and the limiter modules      *)
(* model them.                                                             *)
(***************************************************************************)
EXTENDS Integers, Sequences, FiniteSets

CONSTANTS
  Requests,    \* goroutines inside handleProxy
  Sessions,    \* values of the sticky session header
  NoSession,   \* the header is missing
  Providers,   \* names of providers, in the table or not
  NoProvider,
  Models,      \* the models requests ask for
  Configs,     \* the snapshots an administrator's changes lead to
  MaxChanges,  \* bound on the changes of the world, for TLC
  StoreMayFail \* may the tenant's row be unreadable?

\* what a matching rule does: deny, or force a provider, or neither
Rules == [matches : SUBSET Models, deny : BOOLEAN, force : Providers \cup {NoProvider}]

ProviderRows == [enabled : BOOLEAN, weight : Int, models : SUBSET Models, ready : Nat]

ASSUME RoutingAssumption ==
  /\ NoSession \notin Sessions /\ NoProvider \notin Providers /\ IsFiniteSet(Providers)
  /\ MaxChanges \in Nat
  /\ StoreMayFail \in BOOLEAN
  /\ \A c \in Configs :
       /\ c.keyOn \in BOOLEAN /\ c.allowed \subseteq Models /\ c.tenant \in {"default", "team"}
       /\ c.rules \in Seq(Rules)
       /\ DOMAIN c.rows \subseteq Providers
       /\ \A p \in DOMAIN c.rows : c.rows[p] \in ProviderRows

VARIABLES
  world,    \* what is in force: the snapshot, the clock, the enabled tenants
  sticky,   \* stickySession
  pc,       \* where each request stands
  req,      \* what each request holds
  changes,  \* changes of the world so far
  seen,     \* history: every world each request has run in
  rebound   \* history: was the session bound by another request meanwhile?

vars == <<world, sticky, pc, req, changes, seen, rebound>>

NoReq == [session |-> NoSession, model |-> "none", allowed |-> {}, tenant |-> "none",
          excused |-> FALSE, forced |-> NoProvider, view |-> "none", at |-> 0,
          provider |-> NoProvider]

Running == {r \in Requests : pc[r] # "idle"}

-----------------------------------------------------------------------------
(* Reading a configuration.                                                *)

\* an empty list allows every model
SupportsModel(models, m) == models = {} \/ m \in models

\* hasLiveKey, and the condition under which pickProviderKey finds a key
HasLiveKey(row, now) == now > row.ready

Eligible(cfg, now, p, m) ==
  /\ p \in DOMAIN cfg.rows
  /\ cfg.rows[p].enabled
  /\ SupportsModel(cfg.rows[p].models, m)
  /\ HasLiveKey(cfg.rows[p], now)

Weight(row) == IF row.weight <= 0 THEN 1 ELSE row.weight

\* the sum of the weights of the first i items
Acc(cfg, items) ==
  LET acc[i \in 0 .. Len(items)] ==
        IF i = 0 THEN 0 ELSE acc[i - 1] + Weight(cfg.rows[items[i]])
  IN  acc

\* every order in which the map of providers can be walked
Orders(ps) ==
  {s \in [1 .. Cardinality(ps) -> ps] : \A i, j \in DOMAIN s : s[i] = s[j] => i = j}

\* the rules a request of model m meets
Matching(cfg, m) == {i \in DOMAIN cfg.rules : m \in cfg.rules[i].matches}

-----------------------------------------------------------------------------
(* Faulty forms of the definitions below, which the properties must refuse. *)

\* a rule that forces a provider ends the walk through the rules
VerdictOfFirst(cfg, m) ==
  LET i == CHOOSE i \in Matching(cfg, m) : \A j \in Matching(cfg, m) : i <= j
  IN  IF Matching(cfg, m) = {} THEN [deny |-> FALSE, force |-> NoProvider]
      ELSE [deny |-> cfg.rules[i].deny, force |-> cfg.rules[i].force]

\* a row that cannot be read counts as enabled
FailOpen(tenant, failed) == failed \/ tenant \in world.tenants

\* the provider of a binding is not looked up again
TrustedBinding(cfg, now, p, m) == p # NoProvider

\* the binding is not read
ForgottenBinding(cfg, now, p, m) == FALSE

\* a weight of zero takes a provider out of the draw
CandidatesByWeight(cfg, now, m) ==
  {p \in DOMAIN cfg.rows : Eligible(cfg, now, p, m) /\ cfg.rows[p].weight > 0}

\* r <= acc for r < acc
PickOneLate(cfg, items, r) ==
  LET hits  == {i \in DOMAIN items : r <= Acc(cfg, items)[i]}
      first == CHOOSE i \in hits : \A j \in hits : i <= j
  IN  IF hits = {} THEN items[Len(items)] ELSE items[first]

\* a request without a session is bound like one with the empty session
BindAny(s, p) == [x \in DOMAIN sticky \cup {s} |-> IF x = s THEN p ELSE sticky[x]]

-----------------------------------------------------------------------------
(* The decisions of a request.                                             *)

\* world.tenants has the enabled rows, and the default tenant if it has no row; an
\* error counts like a missing row
IsTenantEnabled(tenant, failed) ==
  IF failed THEN tenant = "default" ELSE tenant \in world.tenants

\* applyRules: a rule that denies ends it, the last one that forces wins
Verdict(cfg, m) ==
  LET forcing == {i \in Matching(cfg, m) : cfg.rules[i].force # NoProvider}
      last    == CHOOSE i \in forcing : \A j \in forcing : j <= i
  IN  [deny  |-> \E i \in Matching(cfg, m) : cfg.rules[i].deny,
       force |-> IF forcing = {} THEN NoProvider ELSE cfg.rules[last].force]

BindingUsable(cfg, now, p, m) == Eligible(cfg, now, p, m)

Candidates(cfg, now, m) == {p \in DOMAIN cfg.rows : Eligible(cfg, now, p, m)}

\* weightedProviderPick after rand.Intn(total) has drawn r; the last item is there
\* for the end of the loop, which no draw reaches
Pick(cfg, items, r) ==
  LET hits  == {i \in DOMAIN items : r < Acc(cfg, items)[i]}
      first == CHOOSE i \in hits : \A j \in hits : i <= j
  IN  IF hits = {} THEN items[Len(items)] ELSE items[first]

Draws(cfg, items) == 0 .. (Acc(cfg, items)[Len(items)] - 1)

\* what the write of the binding makes of the map
Bound(s, p) == IF s = NoSession THEN sticky ELSE [sticky EXCEPT ![s] = p]

-----------------------------------------------------------------------------
Init ==
  /\ world \in [cfg : Configs, now : {1}, tenants : {{"default", "team"}}]
  /\ sticky = [s \in Sessions |-> NoProvider]
  /\ pc = [r \in Requests |-> "idle"]
  /\ req = [r \in Requests |-> NoReq]
  /\ changes = 0
  /\ seen = [r \in Requests |-> {}]
  /\ rebound = [r \in Requests |-> FALSE]

Goto(r, label) == pc' = [pc EXCEPT ![r] = label]

\* the request is answered
Leave(r) ==
  /\ Goto(r, "idle")
  /\ req' = [req EXCEPT ![r] = NoReq]
  /\ seen' = [seen EXCEPT ![r] = {}]
  /\ rebound' = [rebound EXCEPT ![r] = FALSE]
  /\ UNCHANGED <<world, sticky, changes>>

\* the lookup of the key in authenticateUser; a key that is unknown or disabled
\* is answered 401 and nothing changes
Authenticate(r, s, m) ==
  /\ pc[r] = "idle"
  /\ world.cfg.keyOn
  /\ Goto(r, "tenant")
  /\ req' = [req EXCEPT ![r] = [NoReq EXCEPT !.session = s, !.model = m,
                                             !.allowed = world.cfg.allowed,
                                             !.tenant = world.cfg.tenant]]
  /\ seen' = [seen EXCEPT ![r] = {world}]
  /\ rebound' = [rebound EXCEPT ![r] = FALSE]
  /\ UNCHANGED <<world, sticky, changes>>

\* the tenant's row is read from the store; then the body is parsed and the
\* models the key is limited to are checked: 401, 400 or 403
CheckTenant(r) ==
  /\ pc[r] = "tenant"
  /\ \E failed \in IF StoreMayFail THEN BOOLEAN ELSE {FALSE} :
       IF /\ IsTenantEnabled(req[r].tenant, failed)
          /\ SupportsModel(req[r].allowed, req[r].model)
       THEN /\ Goto(r, "rules")
            /\ req' = [req EXCEPT ![r].excused = failed, ![r].allowed = {}]
            /\ UNCHANGED <<world, sticky, changes, seen, rebound>>
       ELSE Leave(r)

ApplyRules(r) ==
  LET v == Verdict(world.cfg, req[r].model)
  IN  /\ pc[r] = "rules"
      /\ IF v.deny THEN Leave(r)
         ELSE /\ Goto(r, "select")
              /\ req' = [req EXCEPT ![r].forced = v.force]
              /\ UNCHANGED <<world, sticky, changes, seen, rebound>>

\* the balance check or the user limiter refuses: 401, 402 or 429
LimitRefuses(r) == pc[r] = "select" /\ Leave(r)

\* selectProviderAndKey reads the snapshot and the clock; a forced provider is
\* taken or refused on the spot
ReadProviders(r) ==
  /\ pc[r] = "select"
  /\ LET p  == req[r].forced
         ok == Eligible(world.cfg, world.now, p, req[r].model)
     IN  IF p = NoProvider
         THEN /\ req' = [req EXCEPT ![r].view = world.cfg, ![r].at = world.now]
              /\ Goto(r, "lookup")
         ELSE /\ req' = [req EXCEPT ![r].provider = IF ok THEN p ELSE NoProvider]
              /\ Goto(r, IF ok THEN "channel" ELSE "unavailable")
  /\ UNCHANGED <<world, sticky, changes, seen, rebound>>

\* the binding is read under stickyMu and used if its provider still can serve
FollowBinding(r) ==
  LET p == IF req[r].session = NoSession THEN NoProvider ELSE sticky[req[r].session]
  IN  /\ pc[r] = "lookup"
      /\ BindingUsable(req[r].view, req[r].at, p, req[r].model)
      /\ req' = [req EXCEPT ![r].provider = p, ![r].view = "none", ![r].at = 0]
      /\ Goto(r, "channel")
      /\ UNCHANGED <<world, sticky, changes, seen, rebound>>

\* no binding of use: a weighted draw from the candidates, if there is one
DrawProvider(r) ==
  LET p  == IF req[r].session = NoSession THEN NoProvider ELSE sticky[req[r].session]
      ps == Candidates(req[r].view, req[r].at, req[r].model)
  IN  /\ pc[r] = "lookup"
      /\ ~BindingUsable(req[r].view, req[r].at, p, req[r].model)
      /\ IF ps = {}
         THEN Goto(r, "unavailable") /\ UNCHANGED req
         ELSE \E items \in Orders(ps) : \E d \in Draws(req[r].view, items) :
                /\ req' = [req EXCEPT ![r].provider = Pick(req[r].view, items, d),
                                      ![r].view = "none", ![r].at = 0]
                /\ Goto(r, "bind")
      /\ UNCHANGED <<world, sticky, changes, seen, rebound>>

\* the session is bound under stickyMu, taken again
Bind(r) ==
  /\ pc[r] = "bind"
  /\ sticky' = Bound(req[r].session, req[r].provider)
  /\ rebound' = [x \in Requests |->
       \/ rebound[x]
       \/ x # r /\ x \in Running /\ req[x].session = req[r].session]
  /\ Goto(r, "channel")
  /\ UNCHANGED <<world, req, changes, seen>>

\* sent upstream and answered, or refused by the channel limiter; or answered 503
Finish(r) == pc[r] \in {"channel", "unavailable"} /\ Leave(r)

-----------------------------------------------------------------------------
\* the requests under way live on in a new world
WorldBecomes(w) ==
  /\ world' = w
  /\ seen' = [r \in Requests |-> IF r \in Running THEN seen[r] \cup {w} ELSE {}]
  /\ UNCHANGED <<sticky, pc, req, rebound>>

\* a reload publishes another configuration
Publish ==
  /\ changes < MaxChanges
  /\ changes' = changes + 1
  /\ \E c \in Configs \ {world.cfg} : WorldBecomes([world EXCEPT !.cfg = c])

\* POST and DELETE /admin/tenants: no snapshot holds tenants, so nothing is reloaded
SetTenants ==
  /\ changes < MaxChanges
  /\ changes' = changes + 1
  /\ \E t \in {"default", "team"} :
       \/ WorldBecomes([world EXCEPT !.tenants = @ \cup {t}])
       \/ WorldBecomes([world EXCEPT !.tenants = @ \ {t}])

Tick ==
  /\ changes < MaxChanges
  /\ changes' = changes + 1
  /\ WorldBecomes([world EXCEPT !.now = @ + 1])

\* the process is started again: bindings and requests are gone
Restart ==
  /\ sticky' = [s \in Sessions |-> NoProvider]
  /\ pc' = [r \in Requests |-> "idle"]
  /\ req' = [r \in Requests |-> NoReq]
  /\ seen' = [r \in Requests |-> {}]
  /\ rebound' = [r \in Requests |-> FALSE]
  /\ UNCHANGED <<world, changes>>

Next ==
  \/ \E r \in Requests :
       \/ \E s \in Sessions \cup {NoSession}, m \in Models : Authenticate(r, s, m)
       \/ CheckTenant(r)
       \/ ApplyRules(r)
       \/ LimitRefuses(r)
       \/ ReadProviders(r)
       \/ FollowBinding(r)
       \/ DrawProvider(r)
       \/ Bind(r)
       \/ Finish(r)
  \/ Publish
  \/ SetTenants
  \/ Tick
  \/ Restart

Spec == Init /\ [][Next]_vars

-----------------------------------------------------------------------------
\* Type invariant.  The map of bindings has an entry for real sessions only, and
\* a request has a provider exactly while it is bound and sent to it.
TypeOK ==
  /\ world.cfg \in Configs /\ world.now \in Nat /\ world.tenants \subseteq {"default", "team"}
  /\ sticky \in [Sessions -> Providers \cup {NoProvider}]
  /\ \A r \in Requests :
       /\ pc[r] \in {"idle", "tenant", "rules", "select", "lookup", "bind", "channel", "unavailable"}
       /\ pc[r] \in {"bind", "channel"} <=> req[r].provider \in Providers
       /\ pc[r] = "bind" => req[r].forced = NoProvider
       /\ (pc[r] = "idle") <=> (seen[r] = {})

\* A request is sent only to a provider that, at some moment while the request
\* ran, was published as enabled and serving its model and had a live key,
\* whatever its session was bound to and whatever was published in between.
RoutedAsPublished ==
  \A r \in Requests :
    pc[r] = "channel" =>
      \E w \in seen[r] :
        LET p == req[r].provider
        IN  /\ p \in DOMAIN w.cfg.rows /\ w.cfg.rows[p].enabled
            /\ w.cfg.rows[p].models = {} \/ req[r].model \in w.cfg.rows[p].models
            /\ w.now > w.cfg.rows[p].ready

\* A request is answered "no provider" only if at some moment while it ran no
\* provider could serve it, or the one its rules force could not.
UnavailableForCause ==
  \A r \in Requests :
    pc[r] = "unavailable" =>
      \E w \in seen[r] :
        \A p \in DOMAIN w.cfg.rows :
          req[r].forced \in {NoProvider, p} => ~Eligible(w.cfg, w.now, p, req[r].model)

\* A request that is sent passed a rule set published while it ran: none of the
\* rules that match it denies, and if one forces a provider, the last of them
\* that does named the provider it is sent to.
RulesObeyed ==
  \A r \in Requests :
    pc[r] = "channel" =>
      \E w \in seen[r] :
        LET hits == {w.cfg.rules[i] : i \in Matching(w.cfg, req[r].model)}
        IN  /\ \A h \in hits : ~h.deny
            /\ \/ \A h \in hits : h.force = NoProvider
               \/ \E i \in Matching(w.cfg, req[r].model) :
                    /\ w.cfg.rules[i].force = req[r].provider
                    /\ \A j \in Matching(w.cfg, req[r].model) :
                         j > i => w.cfg.rules[j].force = NoProvider

\* A request that is sent came with a key published as enabled for its model and
\* tenant while it ran, and the tenant was enabled then or later, unless the store
\* could not be read and the tenant is the default one.
AdmittedAsConfigured ==
  \A r \in Requests :
    pc[r] = "channel" =>
      /\ \E w \in seen[r] : /\ w.cfg.keyOn /\ w.cfg.tenant = req[r].tenant
                            /\ w.cfg.allowed = {} \/ req[r].model \in w.cfg.allowed
      /\ \/ \E w \in seen[r] : req[r].tenant \in w.tenants
         \/ req[r].excused /\ req[r].tenant = "default"

\* A session leaves the provider it is bound to only for cause: the request that
\* binds it anew saw that provider unable to serve it at some moment while it ran,
\* or the session was bound by another request in that time.
StickyMovesForCause ==
  [][\A s \in Sessions, r \in Requests :
       (/\ pc[r] = "bind" /\ pc'[r] = "channel"
        /\ sticky[s] # NoProvider /\ sticky'[s] # sticky[s])
       => \/ rebound[r]
          \/ \E w \in seen[r] : ~Eligible(w.cfg, w.now, sticky[s], req[r].model)]_vars

\* The draw is fair to the weights in every order the map of candidates is walked:
\* each candidate is picked by as many draws as its weight says, at least by one.
PickIsProportional ==
  \A m \in Models :
    LET cfg == world.cfg
        ps  == Candidates(cfg, world.now, m)
    IN  ps # {} =>
          \A items \in Orders(ps) : \A p \in ps :
            Cardinality({d \in Draws(cfg, items) : Pick(cfg, items, d) = p})
              = Weight(cfg.rows[p])
=============================================================================
