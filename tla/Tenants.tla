------------------------------ MODULE Tenants ------------------------------
(***************************************************************************)
(* gcplane serve --tenants-dir: a controller for every subdirectory, all   *)
(* reconciling one GoClaw at once (internal/controller/tenant_manager.go). *)
(* The directory _system declares the Tenants, with a system key; a        *)
(* tenant's directory declares its resources and names its tenant in       *)
(* connection.tenantId.  A provider looks the tenant's UUID up once        *)
(* (sync.Once) and filters by it what GoClaw lists.                        *)
(*                                                                         *)
(* A cycle is followed for two kinds, Tenant and Agent, of which two       *)
(* tenants may use the same key; module Engine has the cycle of every kind *)
(* and module Controller the loop around it.  A UUID is a tenant's slug    *)
(* and how many times it has been created.                                 *)
(***************************************************************************)
EXTENDS Manifest, Integers

CONSTANTS
  Slugs,      \* the tenants, named like their directories
  Layouts,    \* contents of --tenants-dir: functions on Names
  Followed,   \* bound: the contents that are followed beyond loading
  MaxGens,    \* bound on the creations of a tenant
  MaxEvents   \* bound on the environment's steps

Names == Slugs \cup {SystemTenant}
All(v) == [n \in Names |-> v]

ASSUME TenantsAssumption ==
  /\ SystemTenant \notin Slugs
  /\ Followed \subseteq Layouts
  /\ MaxGens \in Nat \ {0}
  /\ MaxEvents \in Nat

VARIABLES
  dirs,       \* the content of --tenants-dir; <<>> once it has been read
  serving,    \* "starting", "serving" or "exited"
  inst,       \* inst[n]: tm.tenants, NoInstance for a directory that is skipped
  prune,      \* the flag --prune
  scoped,     \* whether GoClaw's lists hold only the agents of the header's tenant
  tenants,    \* tenants[s]: creation the Tenant s is of, 0 when there is none
  gens,       \* gens[s]: creations of the Tenant s so far
  agents,     \* GoClaw's agents
  cache,      \* cache[n]: tenantOnce, tenantUUID and tenantErr of n's provider
  pc, todo,   \* where n's cycle is, and the keys of that phase it has not done
  plan,       \* plan[n]: changes to execute, <<key, action>>
  errs,       \* errs[n]: the cycle has an error
  synced,     \* synced[n]: the Synced condition of n's tracker
  probe,      \* one run of isReady
  events,     \* environment steps so far
  deleted     \* history: another user has deleted something

goclaw == <<tenants, gens, agents>>
cycleVars == <<pc, todo, plan, errs>>
setup == <<dirs, serving, inst, prune, scoped>>
vars == <<setup, goclaw, cache, cycleVars, synced, probe, events, deleted>>

NoInstance == [found |-> FALSE, slug |-> "", agents |-> {}, tenants |-> {}]

\* The cache before the first lookup, and after a lookup that failed.
Unset == -1
Error == 0

NoProbe == [answer |-> "none", left |-> {}]

NewAgent(s, g, name, spec) == [name |-> name, slug |-> s, gen |-> g, spec |-> spec]

OnNames(f) == f = [n \in Names |-> f[n]]

TypeOK ==
  /\ IF serving = "starting" THEN dirs \in Layouts ELSE dirs = <<>>
  /\ serving \in {"starting", "serving", "exited"}
  /\ OnNames(inst) /\ OnNames(todo) /\ OnNames(plan)
  /\ \A n \in Names : inst[n].slug \in Slugs \cup {""}
  /\ prune \in BOOLEAN /\ scoped \in BOOLEAN
  /\ tenants \in [Slugs -> 0..MaxGens] /\ gens \in [Slugs -> 0..MaxGens]
  /\ \A a \in agents : a.slug \in Slugs /\ a.gen = tenants[a.slug] /\ a.gen # 0
  /\ cache \in [Names -> Unset..MaxGens]
  /\ pc \in [Names -> {"idle", "apply", "list Agent", "delete Agent",
                       "delete Tenant", "condition"}]
  /\ \A n \in Names : \A k \in todo[n] : k[1] \in {"Agent", "Tenant"}
  /\ \A n \in Names : \A c \in plan[n] : c[2] \in {"create", "update"}
  /\ errs \in [Names -> BOOLEAN] /\ synced \in [Names -> BOOLEAN]
  /\ probe.answer \in {"none", "asking", "ready", "not ready"}
  /\ probe.left \subseteq Names
  /\ events \in 0..MaxEvents /\ deleted \in BOOLEAN

-----------------------------------------------------------------------------
(* NewTenantManager.                                                         *)

\* secrets.Resolve has a value; "${UNSET}" stands for a reference without one.
Resolvable(v) == v # "${UNSET}"

\* tenantIDRe; "Bad_ID" stands for what it does not match.
ValidTenantID(v) == v # "Bad_ID"

InstanceOf(d) ==
  LET m == Fetch(d)
      ofKind(k) == {r \in ToSet(m.items) : r.kind = k}
  IN IF \/ ~m.ok
        \/ m.conn.endpoint = "" \/ m.conn.token = ""
        \/ ~Resolvable(m.conn.endpoint) \/ ~Resolvable(m.conn.token)
        \/ ~Resolvable(m.conn.tenantId) \/ ~ValidTenantID(m.conn.tenantId)
     THEN NoInstance
     ELSE [found |-> TRUE, slug |-> m.conn.tenantId,
           agents |-> {[name |-> r.name, spec |-> r.spec] : r \in ofKind("Agent")},
           tenants |-> {r.name : r \in ofKind("Tenant")}]

\* Limit: in the contents that are followed a directory with agents names its
\* tenant, no two name the same one, and the Tenants are among Slugs.
Followable(L) ==
  \A n \in Names :
    LET i == InstanceOf(L[n])
    IN /\ i.slug \in Slugs \cup {""} /\ i.tenants \subseteq Slugs
       /\ i.slug = "" => i.agents = {}
       /\ \A m \in Names \ {n} : InstanceOf(L[m]).slug = i.slug => i.slug = ""

ASSUME LayoutsAssumption ==
  /\ \A L \in Layouts : \A n \in Names : IsDirectory(L[n])
  /\ \A L \in Followed : Followable(L)

\* "skip tenant" is the only effect of a directory that is not in order; serve
\* gives up when none is left.
NewTenantManager ==
  /\ serving = "starting"
  /\ dirs \in Followed
  /\ LET found == [n \in Names |-> InstanceOf(dirs[n])]
     IN /\ inst' = found
        /\ serving' = IF \E n \in Names : found[n].found THEN "serving" ELSE "exited"
  /\ dirs' = <<>>
  /\ UNCHANGED <<prune, scoped, goclaw, cache, cycleVars, synced, probe, events, deleted>>

Found == {n \in Names : inst[n].found}

-----------------------------------------------------------------------------
(* The provider of directory n.                                              *)

Declared(n) == {<<"Agent", r.name>> : r \in inst[n].agents}
                 \cup {<<"Tenant", s>> : s \in inst[n].tenants}

SpecOf(n, k) == (CHOOSE r \in inst[n].agents : r.name = k[2]).spec

\* What GoClaw lists for n's key and header (assumed: a system key sees no
\* tenant's agents, and a tenant's key sees at least its own Tenant).
Listed(n) ==
  IF n = SystemTenant THEN {}
  ELSE {a \in agents : scoped => a.slug = inst[n].slug}
TenantsListed(n) ==
  {s \in Slugs : tenants[s] # 0 /\ (n = SystemTenant \/ s = inst[n].slug)}

\* resolveTenantUUID: what the one lookup finds.
Resolution(n) == IF tenants[inst[n].slug] = 0 THEN Error ELSE tenants[inst[n].slug]
Resolved(n) == IF cache[n] = Unset THEN Resolution(n) ELSE cache[n]

\* Mutant: the UUID is not compared.
MatchesTenantOpen(n, a, c) == TRUE

\* matchesTenant, when the cache is c.
MatchesTenant(n, a, c) ==
  \/ inst[n].slug = ""
  \/ c = Error
  \/ a.slug = inst[n].slug /\ a.gen = c

\* The agents of a key that n takes for its own, when the cache is c.
OwnAgents(n, name, c) == {a \in Listed(n) : a.name = name /\ MatchesTenant(n, a, c)}

\* A list with such an agent in it makes matchesTenant look the UUID up.
CacheAfter(n, A, c) ==
  IF inst[n].slug # "" /\ A # {} THEN [cache EXCEPT ![n] = c] ELSE cache
Named(n, name) == {a \in Listed(n) : a.name = name}

-----------------------------------------------------------------------------
(* One cycle: observe, execute, prune, publish.                              *)

\* Mutant: a directory that is unchanged since a clean cycle is skipped.
StartUnlessSynced(n) ==
  /\ serving = "serving" /\ inst[n].found
  /\ pc[n] = "idle" /\ ~synced[n]
  /\ pc' = [pc EXCEPT ![n] = "apply"]
  /\ todo' = [todo EXCEPT ![n] = Declared(n)]
  /\ plan' = [plan EXCEPT ![n] = {}]
  /\ errs' = [errs EXCEPT ![n] = FALSE]
  /\ UNCHANGED <<setup, goclaw, cache, synced, probe, events, deleted>>

Start(n) ==
  /\ serving = "serving" /\ inst[n].found
  /\ pc[n] = "idle"
  /\ pc' = [pc EXCEPT ![n] = "apply"]
  /\ todo' = [todo EXCEPT ![n] = Declared(n)]
  /\ plan' = [plan EXCEPT ![n] = {}]
  /\ errs' = [errs EXCEPT ![n] = FALSE]
  /\ UNCHANGED <<setup, goclaw, cache, synced, probe, events, deleted>>

\* Mutant: the changes to execute include those that do nothing.
PlanNoops(n, k, action) ==
  /\ todo' = [todo EXCEPT ![n] = @ \ {k}]
  /\ plan' = [plan EXCEPT ![n] = @ \cup {<<k, action>>}]
  /\ UNCHANGED <<setup, goclaw, pc, errs, synced, probe>>

Plan(n, k, action) ==
  /\ todo' = [todo EXCEPT ![n] = @ \ {k}]
  /\ plan' = IF action = "noop" THEN plan ELSE [plan EXCEPT ![n] = @ \cup {<<k, action>>}]
  /\ UNCHANGED <<setup, goclaw, pc, errs, synced, probe>>

ObserveTenant(n, k) ==
  /\ k[1] = "Tenant"
  /\ Plan(n, k, IF tenants[k[2]] = 0 THEN "create" ELSE "noop")
  /\ UNCHANGED cache

\* observeAgent and stepCompare, when the lookup of the UUID gives c.
ObserveAgent(n, k, c) ==
  /\ k[1] = "Agent"
  /\ LET own == OwnAgents(n, k[2], c)
     IN \/ own = {} /\ Plan(n, k, "create")
        \/ \E a \in own : Plan(n, k, IF a.spec = SpecOf(n, k) THEN "noop" ELSE "update")
  /\ cache' = CacheAfter(n, Named(n, k[2]), c)

Observe(n) ==
  /\ pc[n] = "apply"
  /\ \E k \in todo[n] : ObserveTenant(n, k) \/ ObserveAgent(n, k, Resolved(n))
  /\ UNCHANGED <<events, deleted>>

\* The change has been tried.
Executed(n, c, err) ==
  /\ plan' = [plan EXCEPT ![n] = @ \ {c}]
  /\ errs' = [errs EXCEPT ![n] = @ \/ err]
  /\ UNCHANGED <<setup, pc, todo, synced, probe, events, deleted>>

CreateTenant(n, c) ==
  LET s == c[1][2]
  IN /\ c[1][1] = "Tenant"
     /\ tenants[s] = 0 => gens[s] < MaxGens
     /\ IF tenants[s] = 0
        THEN /\ gens' = [gens EXCEPT ![s] = @ + 1]
             /\ tenants' = [tenants EXCEPT ![s] = gens'[s]]
        ELSE UNCHANGED <<tenants, gens>>
     /\ Executed(n, c, tenants[s] # 0)
     /\ UNCHANGED <<agents, cache>>

\* Provider.Create: the UUID goes into the request, and without one there is no
\* request.  GoClaw refuses a UUID it does not know and a key that is taken.
CreateAgent(n, c) ==
  LET s == inst[n].slug
      g == Resolved(n)
      taken == \E a \in agents : a.slug = s /\ a.name = c[1][2]
      ok == g # Error /\ tenants[s] = g /\ ~taken
  IN /\ c[1][1] = "Agent" /\ c[2] = "create"
     /\ cache' = [cache EXCEPT ![n] = g]
     /\ agents' = IF ok THEN agents \cup {NewAgent(s, g, c[1][2], SpecOf(n, c[1]))} ELSE agents
     /\ Executed(n, c, ~ok)
     /\ UNCHANGED <<tenants, gens>>

\* updateAgent looks the key up again.
UpdateAgent(n, c) ==
  LET own == OwnAgents(n, c[1][2], Resolved(n))
  IN /\ c[1][1] = "Agent" /\ c[2] = "update"
     /\ \/ own = {} /\ UNCHANGED agents
        \/ \E a \in own : agents' = (agents \ {a}) \cup {[a EXCEPT !.spec = SpecOf(n, c[1])]}
     /\ cache' = CacheAfter(n, Named(n, c[1][2]), Resolved(n))
     /\ Executed(n, c, own = {})
     /\ UNCHANGED <<tenants, gens>>

Execute(n) ==
  /\ pc[n] = "apply" /\ todo[n] = {}
  /\ \E c \in plan[n] : CreateTenant(n, c) \/ CreateAgent(n, c) \/ UpdateAgent(n, c)

Goto(n, label) ==
  /\ pc' = [pc EXCEPT ![n] = label]
  /\ UNCHANGED <<setup, plan, errs, probe, events, deleted>>

\* Without --prune the cycle is over; tracker.Update replaces the status,
\* conditions included.
EndApply(n) ==
  /\ pc[n] = "apply" /\ todo[n] = {} /\ plan[n] = {}
  /\ Goto(n, IF prune THEN "list Agent" ELSE "condition")
  /\ synced' = IF prune THEN synced ELSE [synced EXCEPT ![n] = FALSE]
  /\ UNCHANGED <<goclaw, cache, todo>>

(* detectAndExecutePrunes, for the agents and then for the tenants: the list *)
(* of tenants is not filtered.                                               *)
ListAgents(n) ==
  /\ pc[n] = "list Agent"
  /\ todo' = [todo EXCEPT ![n] =
       {<<"Agent", a.name>> :
          a \in {x \in Listed(n) : MatchesTenant(n, x, Resolved(n))}} \ Declared(n)]
  /\ cache' = CacheAfter(n, Listed(n), Resolved(n))
  /\ Goto(n, "delete Agent")
  /\ UNCHANGED <<goclaw, synced>>

DeleteAgent(n, k) ==
  LET own == OwnAgents(n, k[2], Resolved(n))
  IN /\ pc[n] = "delete Agent" /\ k \in todo[n]
     /\ \/ own = {} /\ UNCHANGED agents
        \/ \E a \in own : agents' = agents \ {a}
     /\ cache' = CacheAfter(n, Named(n, k[2]), Resolved(n))
     /\ todo' = [todo EXCEPT ![n] = @ \ {k}]
     /\ UNCHANGED <<setup, tenants, gens, pc, plan, errs, synced, probe, events, deleted>>

ListTenants(n) ==
  /\ pc[n] = "delete Agent" /\ todo[n] = {}
  /\ todo' = [todo EXCEPT ![n] =
       {<<"Tenant", s>> : s \in TenantsListed(n)} \ Declared(n)]
  /\ Goto(n, "delete Tenant")
  /\ UNCHANGED <<goclaw, cache, synced>>

\* GoClaw deletes a tenant's agents with it.
WithoutTenant(s) ==
  /\ tenants' = [tenants EXCEPT ![s] = 0]
  /\ agents' = {a \in agents : a.slug # s}
  /\ UNCHANGED gens

DeleteTenant(n, k) ==
  /\ pc[n] = "delete Tenant" /\ k \in todo[n]
  /\ WithoutTenant(k[2])
  /\ todo' = [todo EXCEPT ![n] = @ \ {k}]
  /\ UNCHANGED <<setup, cache, pc, plan, errs, synced, probe, events, deleted>>

EndPrune(n) ==
  /\ pc[n] = "delete Tenant" /\ todo[n] = {}
  /\ Goto(n, "condition")
  /\ synced' = [synced EXCEPT ![n] = FALSE]
  /\ UNCHANGED <<goclaw, cache, todo>>

\* Mutant: the cycle's errors are not counted.
SetConditionAlways(n) ==
  /\ pc[n] = "condition"
  /\ synced' = [synced EXCEPT ![n] = TRUE]
  /\ Goto(n, "idle")
  /\ UNCHANGED <<goclaw, cache, todo>>

SetCondition(n) ==
  /\ pc[n] = "condition"
  /\ synced' = [synced EXCEPT ![n] = ~errs[n]]
  /\ Goto(n, "idle")
  /\ UNCHANGED <<goclaw, cache, todo>>

ControllerStep(n) ==
  \/ Start(n) \/ Observe(n) \/ Execute(n) \/ EndApply(n)
  \/ ListAgents(n) \/ ListTenants(n) \/ EndPrune(n)
  \/ \E k \in todo[n] : DeleteAgent(n, k) \/ DeleteTenant(n, k)
  \/ SetCondition(n)

-----------------------------------------------------------------------------
(* handleReadyz: isReady reads one tracker after the other.                  *)

Probe ==
  /\ serving = "serving" /\ probe.answer = "none"
  /\ ~prune /\ ~deleted \* bound: what ReadyMeansServed is about
  /\ probe' = [answer |-> "asking", left |-> Found]
  /\ UNCHANGED <<setup, goclaw, cache, cycleVars, synced, events, deleted>>

IsSynced(n) ==
  /\ probe.answer = "asking" /\ n \in probe.left
  /\ probe' = IF ~synced[n] THEN [answer |-> "not ready", left |-> {}]
              ELSE [answer |-> IF probe.left = {n} THEN "ready" ELSE "asking",
                    left |-> probe.left \ {n}]
  /\ UNCHANGED <<setup, goclaw, cache, cycleVars, synced, events, deleted>>

-----------------------------------------------------------------------------
(* The environment.                                                          *)

\* Bound: no more than MaxEvents, and none after a probe or with
\* --prune, where the controllers themselves delete Tenants.
Event == events < MaxEvents /\ ~prune /\ probe = NoProbe /\ events' = events + 1

\* Someone deletes a Tenant.
DropTenant(s) ==
  /\ serving = "serving" /\ tenants[s] # 0
  /\ Event
  /\ WithoutTenant(s)
  /\ deleted' = TRUE
  /\ UNCHANGED <<setup, cache, cycleVars, synced, probe>>

\* Someone deletes an agent.
DropAgent(a) ==
  /\ Event
  /\ agents' = agents \ {a}
  /\ deleted' = TRUE
  /\ UNCHANGED <<setup, tenants, gens, cache, cycleVars, synced, probe>>

\* The request of an observe fails: the error is in the plan.
ObserveFails(n) ==
  /\ pc[n] = "apply"
  /\ \E k \in todo[n] : todo' = [todo EXCEPT ![n] = @ \ {k}]
  /\ errs' = [errs EXCEPT ![n] = TRUE]
  /\ Event
  /\ UNCHANGED <<setup, goclaw, cache, pc, plan, synced, probe, deleted>>

\* The request of the one lookup fails, and the error is kept: a create fails
\* with it, an observe takes every agent of that key for its own.
ResolveFails(n) ==
  /\ pc[n] = "apply" /\ cache[n] = Unset
  /\ Event
  /\ UNCHANGED deleted
  /\ \/ /\ todo[n] = {}
        /\ \E c \in plan[n] : c[1][1] = "Agent" /\ plan' = [plan EXCEPT ![n] = @ \ {c}]
        /\ cache' = [cache EXCEPT ![n] = Error]
        /\ errs' = [errs EXCEPT ![n] = TRUE]
        /\ UNCHANGED <<setup, goclaw, pc, todo, synced, probe>>
     \/ \E k \in todo[n] : Named(n, k[2]) # {} /\ ObserveAgent(n, k, Error)

\* The process dies and is started again, on the same directories.
Restart ==
  /\ serving = "serving"
  /\ Event
  /\ pc' = All("idle") /\ todo' = All({}) /\ plan' = All({})
  /\ errs' = All(FALSE) /\ synced' = All(FALSE) /\ cache' = All(Unset)
  /\ probe' = NoProbe
  /\ UNCHANGED <<setup, goclaw, deleted>>

Init ==
  /\ dirs \in Layouts
  /\ serving = "starting"
  /\ inst = All(NoInstance)
  /\ prune \in BOOLEAN /\ scoped \in BOOLEAN
  /\ tenants = [s \in Slugs |-> 0] /\ gens = [s \in Slugs |-> 0]
  /\ agents = {}
  /\ pc = All("idle") /\ todo = All({}) /\ plan = All({})
  /\ errs = All(FALSE) /\ synced = All(FALSE) /\ cache = All(Unset)
  /\ probe = NoProbe
  /\ events = 0 /\ deleted = FALSE

Next ==
  \/ NewTenantManager
  \/ \E n \in Names : ControllerStep(n) \/ ObserveFails(n) \/ ResolveFails(n) \/ IsSynced(n)
  \/ Probe \/ Restart
  \/ \E s \in Slugs : DropTenant(s)
  \/ \E a \in agents : DropAgent(a)

Spec == Init /\ [][Next]_vars

(* Every controller has a goroutine of its own and a ticker.                 *)
FairSpec ==
  Spec /\ WF_vars(NewTenantManager) /\ \A n \in Names : WF_vars(ControllerStep(n))

-----------------------------------------------------------------------------
(* What the loader returns for a directory is what the directory means, and  *)
(* it fails exactly on the directories that are not well formed: the order   *)
(* of files, composites, skills and checks loses and invents nothing.        *)
FetchMatchesMeaning ==
  serving = "starting" =>
    \A n \in Names :
      LET d == dirs[n]
          m == Fetch(d)
      IN /\ m.ok <=> WellFormed(d)
         /\ m.ok => ToSet(m.items) = Meaning(d) /\ Len(m.items) = Cardinality(Meaning(d))

(* A controller that knows its tenant's UUID changes no other tenant's       *)
(* agents, whether or not GoClaw's lists are scoped and although another     *)
(* tenant uses the same keys.                                                *)
ResolvedStaysInTenant ==
  [][\A n \in Slugs :
       /\ inst[n].found /\ cache'[n] > 0
       /\ <<pc[n], todo[n], plan[n]>>' # <<pc[n], todo[n], plan[n]>>
       => \A a \in (agents \ agents') \cup (agents' \ agents) : a.slug = inst[n].slug]_vars

\* Every Tenant, and every agent of a tenant's directory, is there as declared.
Served(n) ==
  /\ \A s \in inst[n].tenants : tenants[s] # 0
  /\ \A r \in inst[n].agents :
       \E a \in agents : a.slug = inst[n].slug /\ a.name = r.name /\ a.spec = r.spec

(* /readyz answers 200 only when every tenant is served, although isReady    *)
(* reads the trackers one by one while the controllers run; not so when      *)
(* something was deleted, or an error was cached.                            *)
ReadyMeansServed ==
  /\ probe.answer = "ready" /\ ~deleted /\ ~prune
  /\ \A n \in Names : cache[n] # Error
  => \A n \in Found : Served(n)

(* What makes these inductive.                                               *)

\* A process that has done nothing yet.
Fresh ==
  /\ pc = All("idle") /\ todo = All({}) /\ plan = All({})
  /\ errs = All(FALSE) /\ synced = All(FALSE) /\ cache = All(Unset)
  /\ probe = NoProbe

\* What the manager knows of the directories.
InstInv ==
  /\ serving = "starting" => Fresh
  /\ \A n \in Names :
       /\ inst[n].tenants \subseteq Slugs
       /\ inst[n].slug = "" => inst[n].agents = {} /\ cache[n] = Unset
       /\ \A r, q \in inst[n].agents : r.name = q.name => r = q
       /\ \A m \in Names \ {n} : inst[m].slug = inst[n].slug => inst[n].slug = ""

AgentInv == \A a \in agents : a = NewAgent(a.slug, a.gen, a.name, a.spec)

\* What the phase of n's cycle has left to do.
PhaseInv(n) ==
  /\ pc[n] = "apply" => todo[n] \subseteq Declared(n)
  /\ \A c \in plan[n] : c[1] \in Declared(n)
  /\ pc[n] = "delete Agent" => \A k \in todo[n] : k[1] = "Agent"
  /\ pc[n] = "delete Tenant" =>
       \A k \in todo[n] :
         /\ k[1] = "Tenant" /\ k[2] \in Slugs
         /\ n # SystemTenant => k[2] = inst[n].slug
  /\ pc[n] \in {"list Agent", "delete Agent", "delete Tenant"} => prune

\* The object of a declared key is there as declared.
ServedKey(n, k) ==
  IF k[1] = "Tenant" THEN tenants[k[2]] # 0
  ELSE \E a \in agents : a.slug = inst[n].slug /\ a.name = k[2] /\ a.spec = SpecOf(n, k)

\* Nothing was deleted, and no provider has cached an error.
Undisturbed == ~deleted /\ ~prune /\ \A n \in Names : cache[n] # Error

\* Then a UUID that is cached is the tenant's, and what n's cycle has behind it
\* is served, unless it counts an error.
ServedInv(n) ==
  /\ cache[n] # Unset => cache[n] = tenants[inst[n].slug]
  /\ pc[n] = "apply" /\ ~errs[n] =>
       \A k \in Declared(n) :
         k \in todo[n] \/ (\E c \in plan[n] : c[1] = k) \/ ServedKey(n, k)
  /\ synced[n] \/ (pc[n] = "condition" /\ ~errs[n]) => Served(n)

\* What the probe has behind it is served too.
ProbeInv ==
  /\ probe.answer = "ready" => probe.left = {}
  /\ Undisturbed /\ probe.answer \in {"asking", "ready"} =>
       \A n \in Found \ probe.left : Served(n)

IInv ==
  /\ TypeOK /\ InstInv /\ AgentInv /\ ProbeInv
  /\ \A n \in Names : PhaseInv(n)
  /\ Undisturbed => \A n \in Names : ServedInv(n)

\* No provider has cached an error or the UUID of a tenant that is gone.
CachesRight ==
  \A n \in Found \ {SystemTenant} : cache[n] \in {Unset, tenants[inst[n].slug]} \ {Error}

(* Crashes, failed requests and deleted Tenants heal: once the environment   *)
(* is quiet every tenant is served, if no provider keeps a wrong UUID.       *)
TenantsHeal ==
  <>[](~prune /\ CachesRight /\ SystemTenant \in Found) => <>[](\A n \in Found : Served(n))

(* "Each tenant runs independently - one tenant failure doesn't affect       *)
(* others": a tenant's agents are there in the end, whenever the controller  *)
(* of _system gets around to creating the Tenant.                            *)
TenantRunsIndependently ==
  [](~prune /\ (serving = "serving" => SystemTenant \in Found))
    => <>[](\A n \in Found : Served(n))
=============================================================================
