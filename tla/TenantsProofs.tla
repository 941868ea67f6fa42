--------------------------- MODULE TenantsProofs ---------------------------
(***************************************************************************)
(* Proofs about module Tenants, for any set of tenants, any contents of    *)
(* their directories within the limits of LayoutsAssumption, and any       *)
(* number of environment steps.                                            *)
(*                                                                         *)
(* A step belongs to one controller.  ControllerFrame reduces IInv' to     *)
(* what that controller has to show for itself; Keeps is what it owes the  *)
(* others: no agent as declared is changed or lost, no Tenant is replaced. *)
(* It holds while nothing is disturbed, as MatchesTenant then tells the    *)
(* tenants apart although they use the same keys.                          *)
(***************************************************************************)
EXTENDS Tenants, ManifestProofs

USE DEF Unset, Error

\* The cache tells a lookup that failed from none.
LEMMA UnsetIsNoError == Unset # Error
OBVIOUS

-----------------------------------------------------------------------------
(* The loader.                                                               *)

\* FetchIsMeaning, for the directories that are there when the process starts.
LEMMA FetchMatches ==
  ASSUME TypeOK
  PROVE  FetchMatchesMeaning
<1>1. SUFFICES ASSUME serving = "starting", NEW n \in Names
               PROVE  /\ Fetch(dirs[n]).ok <=> WellFormed(dirs[n])
                      /\ Fetch(dirs[n]).ok =>
                           /\ ToSet(Fetch(dirs[n]).items) = Meaning(dirs[n])
                           /\ Len(Fetch(dirs[n]).items) = Cardinality(Meaning(dirs[n]))
  BY DEF FetchMatchesMeaning
<1>2. IsDirectory(dirs[n])
  BY <1>1, LayoutsAssumption DEF TypeOK
<1>3. QED
  BY <1>2, FetchIsMeaning

\* The agents of a directory differ in their names.
LEMMA InstanceForm ==
  ASSUME NEW d, IsDirectory(d)
  PROVE  /\ InstanceOf(d).found \in BOOLEAN
         /\ \A r, q \in InstanceOf(d).agents : r.name = q.name => r = q
<1> DEFINE m == Fetch(d)
           ofKind(k) == {r \in ToSet(m.items) : r.kind = k}
           i == [found |-> TRUE, slug |-> m.conn.tenantId,
                 agents |-> {[name |-> r.name, spec |-> r.spec] : r \in ofKind("Agent")},
                 tenants |-> {r.name : r \in ofKind("Tenant")}]
           skip == \/ ~m.ok
                   \/ m.conn.endpoint = "" \/ m.conn.token = ""
                   \/ ~Resolvable(m.conn.endpoint) \/ ~Resolvable(m.conn.token)
                   \/ ~Resolvable(m.conn.tenantId) \/ ~ValidTenantID(m.conn.tenantId)
<1>1. InstanceOf(d) = NoInstance \/ (m.ok /\ InstanceOf(d) = i)
  <2>1. InstanceOf(d) = IF skip THEN NoInstance ELSE i
    BY DEF InstanceOf
  <2>2. ~skip => m.ok
    OBVIOUS
  <2> HIDE DEF skip, i
  <2>3. QED
    BY <2>1, <2>2
<1>2. CASE InstanceOf(d) = NoInstance
  <2>1. NoInstance.found = FALSE /\ NoInstance.agents = {}
    BY DEF NoInstance
  <2>2. QED
    BY <1>2, <2>1
<1>3. CASE m.ok /\ InstanceOf(d) = i
  <2>1. IsSeq(m.items) /\ KeysDistinct(m.items)
    BY <1>3, FetchIsMeaning
  <2> HIDE DEF m
  <2>2. \A a, b \in 1..Len(m.items) : Key(m.items[a]) = Key(m.items[b]) => a = b
    BY <2>1, KeysDistinctForm
  <2>3. DOMAIN m.items = 1..Len(m.items)
    BY <2>1, SeqDomain
  <2>4. ASSUME NEW r \in ofKind("Agent"), NEW q \in ofKind("Agent"), r.name = q.name
        PROVE  r = q
    BY <2>2, <2>3, <2>4 DEF ToSet, Key
  <2>5. \A r, q \in i.agents : r.name = q.name => r = q
    BY <2>4
  <2>6. QED
    BY <1>3, <2>5
<1>4. QED
  BY <1>1, <1>2, <1>3

-----------------------------------------------------------------------------
(* What a provider knows and finds.                                          *)

\* What is declared is an agent with a spec, in a directory that names its
\* tenant, or a Tenant.
LEMMA DeclaredForm ==
  ASSUME TypeOK, InstInv, NEW n \in Names, NEW k \in Declared(n)
  PROVE  /\ k[1] \in {"Agent", "Tenant"}
         /\ k[1] = "Agent" => /\ inst[n].slug # "" /\ inst[n].slug \in Slugs
                              /\ \E r \in inst[n].agents :
                                   r.name = k[2] /\ r.spec = SpecOf(n, k)
         /\ k[1] = "Tenant" => k[2] \in inst[n].tenants /\ k[2] \in Slugs
<1>1. CASE \E s \in inst[n].tenants : k = <<"Tenant", s>>
  <2>1. PICK s \in inst[n].tenants : k = <<"Tenant", s>>
    BY <1>1
  <2>2. s \in Slugs
    BY DEF InstInv
  <2>3. k[1] = "Tenant" /\ k[2] = s
    BY <2>1
  <2>4. QED
    BY <2>2, <2>3
<1>2. CASE \E r \in inst[n].agents : k = <<"Agent", r.name>>
  <2>1. PICK r \in inst[n].agents : k = <<"Agent", r.name>>
    BY <1>2
  <2>2. inst[n].slug # "" /\ inst[n].slug \in Slugs
    BY <2>1 DEF TypeOK, InstInv
  <2>3. \E q \in inst[n].agents : q.name = k[2]
    BY <2>1
  <2>4. (CHOOSE q \in inst[n].agents : q.name = k[2]) \in inst[n].agents
        /\ (CHOOSE q \in inst[n].agents : q.name = k[2]).name = k[2]
    BY <2>3
  <2>5. \E q \in inst[n].agents : q.name = k[2] /\ q.spec = SpecOf(n, k)
    BY <2>4 DEF SpecOf
  <2>6. QED
    BY <2>1, <2>2, <2>5
<1>3. QED
  BY <1>1, <1>2 DEF Declared

\* The spec of an agent that is declared.
LEMMA SpecOfAgent ==
  ASSUME TypeOK, InstInv, NEW n \in Names, NEW r \in inst[n].agents
  PROVE  /\ <<"Agent", r.name>> \in Declared(n)
         /\ SpecOf(n, <<"Agent", r.name>>) = r.spec
<1>1. <<"Agent", r.name>> \in Declared(n)
  BY DEF Declared
<1>2. PICK q \in inst[n].agents :
        q.name = r.name /\ q.spec = SpecOf(n, <<"Agent", r.name>>)
  BY <1>1, DeclaredForm
<1>3. q = r
  BY <1>2 DEF InstInv
<1>4. QED
  BY <1>1, <1>2, <1>3

\* Served, key by key.
LEMMA ServedForm ==
  ASSUME TypeOK, InstInv, NEW n \in Names, \A k \in Declared(n) : ServedKey(n, k)
  PROVE  Served(n)
<1>1. ASSUME NEW s \in inst[n].tenants
      PROVE  tenants[s] # 0
  <2>1. <<"Tenant", s>> \in Declared(n)
    BY DEF Declared
  <2>2. QED
    BY <2>1 DEF ServedKey
<1>2. ASSUME NEW r \in inst[n].agents
      PROVE  \E a \in agents :
               a.slug = inst[n].slug /\ a.name = r.name /\ a.spec = r.spec
  <2>1. ServedKey(n, <<"Agent", r.name>>)
    BY SpecOfAgent
  <2>2. QED
    BY <2>1, SpecOfAgent DEF ServedKey
<1>3. QED
  BY <1>1, <1>2 DEF Served

\* What the lookup gives is an error or a creation.
LEMMA ResolvedType ==
  ASSUME TypeOK, NEW n \in Names, inst[n].slug \in Slugs
  PROVE  /\ Resolved(n) \in 0..MaxGens /\ Resolved(n) \in Unset..MaxGens
         /\ cache[n] # Unset => Resolved(n) = cache[n]
         /\ cache[n] = Unset => Resolved(n) = tenants[inst[n].slug]
<1>1. /\ tenants[inst[n].slug] \in 0..MaxGens /\ cache[n] \in -1..MaxGens
      /\ MaxGens \in Nat
  BY TenantsAssumption DEF TypeOK
<1>2. CASE cache[n] = Unset
  BY <1>1, <1>2 DEF Resolved, Resolution
<1>3. CASE cache[n] # Unset
  BY <1>1, <1>3 DEF Resolved
<1>4. QED
  BY <1>2, <1>3

\* The cache after a list has been filtered.
LEMMA CacheAfterType ==
  ASSUME TypeOK, InstInv, NEW n \in Names, NEW A, NEW c,
         inst[n].slug # "" => c \in Unset..MaxGens,
         cache' = CacheAfter(n, A, c)
  PROVE  /\ cache' \in [Names -> Unset..MaxGens]
         /\ \A m \in Names \ {n} : cache'[m] = cache[m]
         /\ cache'[n] \in {cache[n], c}
         /\ inst[n].slug = "" => cache'[n] = cache[n]
         /\ inst[n].slug # "" /\ A # {} => cache'[n] = c
BY DEF TypeOK, CacheAfter

-----------------------------------------------------------------------------
(* What a step of one controller leaves to the others.                       *)

\* Everything that is served stays so.
Keeps ==
  /\ \A s \in Slugs : tenants[s] # 0 => tenants'[s] = tenants[s]
  /\ \A n \in Names : \A r \in inst[n].agents : \A a \in agents :
       a.slug = inst[n].slug /\ a.name = r.name /\ a.spec = r.spec =>
         \E b \in agents' : b.slug = a.slug /\ b.name = a.name /\ b.spec = a.spec

\* What Keeps leaves, key by key and directory by directory.
LEMMA KeepsServed ==
  ASSUME TypeOK, InstInv, inst' = inst, Keeps, NEW n \in Names
  PROVE  /\ Served(n) => Served(n)'
         /\ \A k \in Declared(n) : ServedKey(n, k) => ServedKey(n, k)'
<1>1. ASSUME Served(n)
      PROVE  Served(n)'
  <2>1. ASSUME NEW s \in inst[n].tenants
        PROVE  tenants'[s] # 0
    <3>1. s \in Slugs
      BY DEF InstInv
    <3>2. QED
      BY <1>1, <3>1 DEF Served, Keeps
  <2>2. ASSUME NEW r \in inst[n].agents
        PROVE  \E b \in agents' :
                 b.slug = inst[n].slug /\ b.name = r.name /\ b.spec = r.spec
    BY <1>1 DEF Served, Keeps
  <2>3. QED
    BY <2>1, <2>2 DEF Served
<1>2. ASSUME NEW k \in Declared(n), ServedKey(n, k)
      PROVE  ServedKey(n, k)'
  <2>1. CASE k[1] = "Tenant"
    <3>1. k[2] \in Slugs
      BY <2>1, DeclaredForm
    <3>2. QED
      BY <1>2, <2>1, <3>1 DEF ServedKey, Keeps
  <2>2. CASE k[1] # "Tenant"
    <3>1. PICK r \in inst[n].agents : r.name = k[2] /\ r.spec = SpecOf(n, k)
      BY <2>2, DeclaredForm
    <3>2. PICK a \in agents : a.slug = inst[n].slug /\ a.name = k[2]
                              /\ a.spec = SpecOf(n, k)
      BY <1>2, <2>2 DEF ServedKey
    <3>3. \E b \in agents' : b.slug = a.slug /\ b.name = a.name /\ b.spec = a.spec
      BY <3>1, <3>2 DEF Keeps
    <3>4. SpecOf(n, k)' = SpecOf(n, k)
      BY DEF SpecOf
    <3>5. QED
      BY <2>2, <3>2, <3>3, <3>4 DEF ServedKey
  <2>3. QED
    BY <2>1, <2>2
<1>3. QED
  BY <1>1, <1>2

\* Nothing of m's controller changes.
Same(m) ==
  /\ pc'[m] = pc[m] /\ todo'[m] = todo[m] /\ plan'[m] = plan[m]
  /\ errs'[m] = errs[m] /\ synced'[m] = synced[m] /\ cache'[m] = cache[m]

\* A directory whose controller does not step has as much served as before.
LEMMA OthersServed ==
  ASSUME TypeOK, InstInv, inst' = inst, Keeps, NEW m \in Names, Same(m),
         ServedInv(m), cache[m] # Error
  PROVE  ServedInv(m)'
<1>1. Served(m) => Served(m)'
  BY KeepsServed
<1>2. \A k \in Declared(m) : ServedKey(m, k) => ServedKey(m, k)'
  BY KeepsServed
<1>3. Declared(m)' = Declared(m)
  BY DEF Declared
<1>4. cache'[m] # Unset => cache'[m] = tenants'[inst'[m].slug]
  <2>1. SUFFICES ASSUME cache[m] # Unset
                 PROVE  cache[m] = tenants'[inst[m].slug]
    BY DEF Same
  <2>2. inst[m].slug \in Slugs
    BY <2>1 DEF TypeOK, InstInv
  <2>3. cache[m] = tenants[inst[m].slug]
    BY <2>1 DEF ServedInv
  <2>4. QED
    BY <2>2, <2>3 DEF Keeps
<1>5. ASSUME pc'[m] = "apply", ~errs'[m], NEW k \in Declared(m)
      PROVE  k \in todo'[m] \/ (\E c \in plan'[m] : c[1] = k) \/ ServedKey(m, k)'
  BY <1>2, <1>5 DEF ServedInv, Same
<1>6. synced'[m] \/ (pc'[m] = "condition" /\ ~errs'[m]) => Served(m)'
  BY <1>1 DEF ServedInv, Same
<1>7. QED
  BY <1>3, <1>4, <1>5, <1>6 DEF ServedInv

\* What is left to show for a step of n's controller: the types, its own phase,
\* and, while nothing is disturbed, that it keeps what is served and that its own
\* cycle has served what it has behind it.
LEMMA ControllerFrame ==
  ASSUME IInv, NEW n \in Names, pc[n] # "idle" \/ serving = "serving",
         UNCHANGED setup, probe' = probe, \A m \in Names \ {n} : Same(m),
         TypeOK', AgentInv', PhaseInv(n)', inst[n].slug = "" => cache'[n] = Unset,
         Undisturbed' => Undisturbed /\ Keeps /\ ServedInv(n)'
  PROVE  IInv'
<1> USE DEF IInv
<1>1. inst' = inst /\ prune' = prune /\ serving' = serving
  BY DEF setup
<1>2. InstInv'
  <2>1. serving' # "starting"
    BY <1>1 DEF InstInv, Fresh, All
  <2>2. ASSUME NEW m \in Names
        PROVE  inst[m].slug = "" => cache'[m] = Unset
    BY DEF InstInv, Same
  <2>3. QED
    BY <1>1, <2>1, <2>2 DEF InstInv
<1>3. ASSUME NEW m \in Names, m # n
      PROVE  PhaseInv(m)'
  BY <1>1, <1>3 DEF PhaseInv, Same, Declared
<1>4. ASSUME NEW m \in Names, Undisturbed'
      PROVE  ServedInv(m)'
  <2>1. CASE m = n
    BY <1>4, <2>1
  <2>2. CASE m # n
    <3>1. cache[m] # Error /\ ServedInv(m) /\ Same(m)
      BY <1>4, <2>2 DEF Undisturbed
    <3>2. QED
      BY <1>1, <1>4, <3>1, OthersServed
  <2>3. QED
    BY <2>1, <2>2
<1>5. ProbeInv'
  <2>1. ASSUME Undisturbed', NEW m \in Names, Served(m)
        PROVE  Served(m)'
    BY <1>1, <2>1, KeepsServed
  <2>2. Found' = Found
    BY <1>1 DEF Found
  <2>3. QED
    BY <2>1, <2>2 DEF ProbeInv, Found
<1>6. \A m \in Names : PhaseInv(m)'
  BY <1>3
<1>7. QED
  BY <1>2, <1>4, <1>5, <1>6

\* A step that does not touch GoClaw keeps what is served.
LEMMA KeepsSame ==
  ASSUME tenants' = tenants, agents' = agents
  PROVE  Keeps
BY DEF Keeps

-----------------------------------------------------------------------------
(* One lemma for each action of a controller.                                *)

\* A cycle that starts has everything to do.
LEMMA StartStep ==
  ASSUME IInv, NEW n \in Names, Start(n)
  PROVE  IInv'
<1> USE DEF IInv
<1>1. UNCHANGED setup /\ serving = "serving" /\ probe' = probe
  BY DEF Start
<1>2. \A m \in Names \ {n} : Same(m)
  BY DEF Start, Same, TypeOK, OnNames
<1>3. TypeOK'
  <2>1. \A k \in Declared(n) : k[1] \in {"Agent", "Tenant"}
    BY DeclaredForm
  <2>2. QED
    BY <2>1 DEF Start, TypeOK, OnNames, setup, goclaw
<1>4. AgentInv' /\ Keeps
  BY KeepsSame DEF Start, AgentInv, goclaw
<1>5. /\ pc'[n] = "apply" /\ todo'[n] = Declared(n) /\ plan'[n] = {}
      /\ cache'[n] = cache[n] /\ synced'[n] = synced[n]
      /\ inst' = inst /\ tenants' = tenants /\ (Undisturbed' <=> Undisturbed)
  BY DEF Start, TypeOK, OnNames, setup, goclaw, Undisturbed
<1>6. Declared(n)' = Declared(n)
  BY <1>5 DEF Declared
<1>7. PhaseInv(n)'
  BY <1>5, <1>6 DEF PhaseInv
<1>8. inst[n].slug = "" => cache'[n] = Unset
  BY <1>5 DEF InstInv
<1>9. ASSUME Undisturbed'
      PROVE  ServedInv(n)'
  <2>1. Served(n) => Served(n)'
    BY <1>4, <1>5, KeepsServed
  <2>2. ServedInv(n)
    BY <1>5, <1>9
  <2>3. QED
    BY <1>5, <1>6, <2>1, <2>2 DEF ServedInv
<1>10. QED
  BY <1>1, <1>2, <1>3, <1>4, <1>5, <1>7, <1>8, <1>9, ControllerFrame

\* What a plan for k does to a cycle in its apply phase.
LEMMA PlanStep ==
  ASSUME IInv, NEW n \in Names, pc[n] = "apply", NEW k \in todo[n],
         NEW action \in {"create", "update", "noop"}, Plan(n, k, action),
         events' \in 0..MaxEvents, deleted' = deleted,
         cache' \in [Names -> Unset..MaxGens],
         \A m \in Names \ {n} : cache'[m] = cache[m],
         inst[n].slug = "" => cache'[n] = cache[n],
         Undisturbed' => Undisturbed,
         Undisturbed' /\ cache'[n] # Unset => cache'[n] = tenants[inst[n].slug],
         Undisturbed' /\ action = "noop" => ServedKey(n, k)
  PROVE  IInv'
<1> USE DEF IInv
<1>1. UNCHANGED setup /\ probe' = probe
  BY DEF Plan
<1>2. \A m \in Names \ {n} : Same(m)
  BY DEF Plan, Same, TypeOK, OnNames
<1>3. k \in Declared(n) /\ Declared(n)' = Declared(n)
  BY DEF PhaseInv, Plan, setup, Declared
<1>4. /\ todo'[n] = todo[n] \ {k}
      /\ plan'[n] = IF action = "noop" THEN plan[n] ELSE plan[n] \cup {<<k, action>>}
      /\ pc' = pc /\ errs' = errs /\ synced' = synced
      /\ inst' = inst /\ tenants' = tenants /\ agents' = agents /\ prune' = prune
  BY DEF Plan, TypeOK, OnNames, setup, goclaw
<1>5. TypeOK'
  <2>1. ASSUME NEW m \in Names, NEW c \in plan'[m]
        PROVE  c[2] \in {"create", "update"}
    <3>1. CASE c \in plan[m]
      BY <3>1 DEF TypeOK
    <3>2. CASE c \notin plan[m]
      <4>1. action # "noop" /\ c = <<k, action>>
        BY <1>2, <1>4, <3>2 DEF Same
      <4>2. QED
        BY <4>1
    <3>3. QED
      BY <3>1, <3>2
  <2>2. \A m \in Names : \A x \in todo'[m] : x[1] \in {"Agent", "Tenant"}
    BY <1>2, <1>4 DEF TypeOK, Same
  <2>3. QED
    BY <2>1, <2>2 DEF Plan, TypeOK, OnNames, setup, goclaw
<1>6. AgentInv' /\ Keeps
  BY <1>4, KeepsSame DEF AgentInv
<1>7. PhaseInv(n)'
  <2>1. <<k, action>>[1] = k
    OBVIOUS
  <2>2. \A c \in plan'[n] : c \in plan[n] \/ c = <<k, action>>
    BY <1>4
  <2>3. \A c \in plan'[n] : c[1] \in Declared(n)
    BY <1>3, <2>1, <2>2 DEF PhaseInv
  <2>4. todo'[n] \subseteq Declared(n)
    BY <1>4 DEF PhaseInv
  <2>5. pc'[n] = "apply"
    BY <1>4
  <2>6. QED
    BY <1>3, <2>3, <2>4, <2>5 DEF PhaseInv
<1>8. inst[n].slug = "" => cache'[n] = Unset
  BY DEF InstInv
<1>9. ASSUME Undisturbed'
      PROVE  ServedInv(n)'
  <2>1. Served(n) => Served(n)'
    BY <1>4, <1>6, KeepsServed
  <2>2. \A x \in Declared(n) : ServedKey(n, x) => ServedKey(n, x)'
    BY <1>4, <1>6, KeepsServed
  <2>3. ServedInv(n)
    BY <1>9
  <2>4. ASSUME ~errs[n], NEW x \in Declared(n)
        PROVE  x \in todo'[n] \/ (\E c \in plan'[n] : c[1] = x) \/ ServedKey(n, x)'
    <3>1. CASE x = k
      <4>1. CASE action = "noop"
        BY <1>9, <2>2, <3>1, <4>1
      <4>2. CASE action # "noop"
        <5>1. <<k, action>> \in plan'[n] /\ <<k, action>>[1] = k
          BY <1>4, <4>2
        <5>2. QED
          BY <3>1, <5>1
      <4>3. QED
        BY <4>1, <4>2
    <3>2. CASE x # k
      BY <1>4, <2>2, <2>3, <2>4, <3>2 DEF ServedInv
    <3>3. QED
      BY <3>1, <3>2
  <2>5. QED
    BY <1>3, <1>4, <1>9, <2>1, <2>3, <2>4 DEF ServedInv
<1>10. QED
  BY <1>1, <1>2, <1>5, <1>6, <1>7, <1>8, <1>9, ControllerFrame

\* n's own agents of a name, when the cache is no error, are the tenant's.
LEMMA OwnOfTenant ==
  ASSUME TypeOK, NEW n \in Names, NEW name, NEW c, inst[n].slug # "", c # Error,
         NEW a \in OwnAgents(n, name, c)
  PROVE  /\ a \in agents /\ a.slug = inst[n].slug /\ a.name = name
         /\ Named(n, name) # {}
BY DEF OwnAgents, Listed, MatchesTenant, Named

\* While no provider has cached an error, a lookup that finds none stands for
\* the tenant.
LEMMA CacheOfTenant ==
  ASSUME IInv, NEW n \in Names, inst[n].slug \in Slugs, inst[n].slug # "", NEW A,
         cache' = CacheAfter(n, A, Resolved(n)), UNCHANGED <<deleted, prune>>
  PROVE  /\ Undisturbed' => Undisturbed
         /\ Undisturbed' /\ A # {} => Resolved(n) # Error
         /\ Undisturbed' /\ cache'[n] # Unset => cache'[n] = tenants[inst[n].slug]
<1> USE DEF IInv
<1>1. /\ Resolved(n) \in Unset..MaxGens
      /\ cache[n] # Unset => Resolved(n) = cache[n]
      /\ cache[n] = Unset => Resolved(n) = tenants[inst[n].slug]
  BY ResolvedType
<1>2. /\ \A m \in Names \ {n} : cache'[m] = cache[m]
      /\ cache'[n] \in {cache[n], Resolved(n)}
      /\ A # {} => cache'[n] = Resolved(n)
  <2>1. cache' = IF A # {} THEN [cache EXCEPT ![n] = Resolved(n)] ELSE cache
    BY DEF CacheAfter
  <2>2. cache \in [Names -> Unset..MaxGens]
    BY DEF TypeOK
  <2>3. QED
    BY <2>1, <2>2
<1>3. Undisturbed' => Undisturbed
  <2>1. ASSUME Undisturbed', NEW m \in Names
        PROVE  cache[m] # Error
    <3>1. cache'[m] # Error
      BY <2>1 DEF Undisturbed
    <3>2. CASE m # n
      BY <1>2, <3>1, <3>2
    <3>3. CASE m = n /\ cache[n] = Unset
      <4> HIDE DEF Unset, Error
      <4>1. QED
        BY <3>3, UnsetIsNoError
    <3>4. CASE m = n /\ cache[n] # Unset
      BY <1>1, <1>2, <3>1, <3>4
    <3>5. QED
      BY <3>2, <3>3, <3>4
  <2>2. QED
    BY <2>1 DEF Undisturbed
<1>4. Undisturbed' /\ A # {} => Resolved(n) # Error
  BY <1>2 DEF Undisturbed
<1>5. Undisturbed' /\ cache'[n] # Unset => cache'[n] = tenants[inst[n].slug]
  BY <1>1, <1>2, <1>3 DEF ServedInv
<1>6. QED
  BY <1>3, <1>4, <1>5

\* A key that is observed and not planned for is served: the agent that was
\* compared is the tenant's, or an error is cached.
LEMMA ObserveStep ==
  ASSUME IInv, NEW n \in Names, Observe(n)
  PROVE  IInv'
<1> USE DEF IInv
<1>1. PICK k \in todo[n] : ObserveTenant(n, k) \/ ObserveAgent(n, k, Resolved(n))
  BY DEF Observe
<1>2. /\ pc[n] = "apply" /\ events' \in 0..MaxEvents /\ deleted' = deleted
      /\ k \in Declared(n)
  BY DEF Observe, PhaseInv, TypeOK
<1>3. CASE ObserveTenant(n, k)
  <2> DEFINE action == IF tenants[k[2]] = 0 THEN "create" ELSE "noop"
  <2>1. k[1] = "Tenant" /\ Plan(n, k, action) /\ cache' = cache
    BY <1>3 DEF ObserveTenant
  <2>2. prune' = prune /\ (Undisturbed' <=> Undisturbed)
    BY <1>2, <2>1 DEF Plan, setup, Undisturbed
  <2>3. action = "noop" => ServedKey(n, k)
    BY <2>1 DEF ServedKey
  <2>4. action \in {"create", "update", "noop"}
    OBVIOUS
  <2>5. cache \in [Names -> Unset..MaxGens]
    BY DEF TypeOK
  <2>6. Undisturbed' /\ cache'[n] # Unset => cache'[n] = tenants[inst[n].slug]
    BY <2>1, <2>2 DEF ServedInv
  <2> HIDE DEF action
  <2>7. QED
    BY <1>2, <2>1, <2>2, <2>3, <2>4, <2>5, <2>6, PlanStep
<1>4. CASE ObserveAgent(n, k, Resolved(n))
  <2> DEFINE own == OwnAgents(n, k[2], Resolved(n))
  <2>1. /\ k[1] = "Agent" /\ cache' = CacheAfter(n, Named(n, k[2]), Resolved(n))
        /\ \/ own = {} /\ Plan(n, k, "create")
           \/ \E a \in own :
                Plan(n, k, IF a.spec = SpecOf(n, k) THEN "noop" ELSE "update")
    BY <1>4 DEF ObserveAgent
  <2>2. inst[n].slug # "" /\ inst[n].slug \in Slugs
    BY <1>2, <2>1, DeclaredForm
  <2>3. Resolved(n) \in Unset..MaxGens
    BY <2>2, ResolvedType
  <2>4. /\ cache' \in [Names -> Unset..MaxGens]
        /\ \A m \in Names \ {n} : cache'[m] = cache[m]
    BY <2>1, <2>3, CacheAfterType
  <2>5. UNCHANGED <<deleted, prune>>
    BY <1>2, <2>1 DEF Plan, setup
  <2>6. /\ Undisturbed' => Undisturbed
        /\ Undisturbed' /\ Named(n, k[2]) # {} => Resolved(n) # Error
        /\ Undisturbed' /\ cache'[n] # Unset => cache'[n] = tenants[inst[n].slug]
    BY <2>1, <2>2, <2>5, CacheOfTenant
  <2>7. CASE Plan(n, k, "create")
    BY <1>2, <2>2, <2>4, <2>6, <2>7, PlanStep
  <2>8. ASSUME NEW a \in own,
               Plan(n, k, IF a.spec = SpecOf(n, k) THEN "noop" ELSE "update")
        PROVE  IInv'
    <3> DEFINE action == IF a.spec = SpecOf(n, k) THEN "noop" ELSE "update"
    <3>1. action \in {"create", "update", "noop"} /\ Plan(n, k, action)
      BY <2>8
    <3>2. ASSUME Undisturbed', action = "noop"
          PROVE  ServedKey(n, k)
      <4>1. Named(n, k[2]) # {}
        BY <2>8 DEF OwnAgents, Named
      <4>2. Resolved(n) # Error
        BY <2>6, <3>2, <4>1
      <4>3. a \in agents /\ a.slug = inst[n].slug /\ a.name = k[2]
        BY <2>2, <4>2 DEF OwnAgents, Listed, MatchesTenant
      <4>4. QED
        BY <2>1, <3>2, <4>3 DEF ServedKey
    <3> HIDE DEF action
    <3>3. QED
      BY <1>2, <2>2, <2>4, <2>6, <3>1, <3>2, PlanStep
  <2>9. QED
    BY <2>1, <2>7, <2>8
<1>5. QED
  BY <1>1, <1>3, <1>4

\* What a change that has been tried does to a cycle.
LEMMA ExecutedStep ==
  ASSUME IInv, NEW n \in Names, pc[n] = "apply", NEW c \in plan[n],
         NEW err \in BOOLEAN, Executed(n, c, err),
         tenants' \in [Slugs -> 0..MaxGens], gens' \in [Slugs -> 0..MaxGens],
         \A a \in agents' : a.slug \in Slugs /\ a.gen = tenants'[a.slug] /\ a.gen # 0,
         AgentInv', cache' \in [Names -> Unset..MaxGens],
         \A m \in Names \ {n} : cache'[m] = cache[m],
         inst[n].slug = "" => cache'[n] = cache[n],
         Undisturbed' => /\ Undisturbed /\ Keeps
                         /\ cache'[n] # Unset => cache'[n] = tenants'[inst[n].slug]
                         /\ err \/ ServedKey(n, c[1])'
  PROVE  IInv'
<1> USE DEF IInv
<1>1. UNCHANGED setup /\ probe' = probe
  BY DEF Executed
<1>2. \A m \in Names \ {n} : Same(m)
  BY DEF Executed, Same, TypeOK, OnNames
<1>3. /\ plan'[n] = plan[n] \ {c} /\ errs'[n] = (errs[n] \/ err)
      /\ pc' = pc /\ todo' = todo /\ synced' = synced
      /\ inst' = inst /\ prune' = prune
  BY DEF Executed, TypeOK, OnNames, setup
<1>4. TypeOK'
  <2>1. \A m \in Names : \A x \in plan'[m] : x[2] \in {"create", "update"}
    BY <1>2, <1>3 DEF TypeOK, Same
  <2>2. errs' \in [Names -> BOOLEAN] /\ OnNames(plan')
    BY DEF Executed, TypeOK, OnNames
  <2>3. QED
    BY <2>1, <2>2 DEF Executed, TypeOK, OnNames, setup
<1>5. Declared(n)' = Declared(n)
  BY <1>3 DEF Declared
<1>6. PhaseInv(n)'
  BY <1>3, <1>5 DEF PhaseInv
<1>7. inst[n].slug = "" => cache'[n] = Unset
  BY DEF InstInv
<1>8. ASSUME Undisturbed'
      PROVE  ServedInv(n)'
  <2>1. Served(n) => Served(n)'
    BY <1>3, <1>8, KeepsServed
  <2>2. \A x \in Declared(n) : ServedKey(n, x) => ServedKey(n, x)'
    BY <1>3, <1>8, KeepsServed
  <2>3. ServedInv(n)
    BY <1>8
  <2>4. ASSUME ~errs'[n], NEW x \in Declared(n)
        PROVE  x \in todo'[n] \/ (\E y \in plan'[n] : y[1] = x) \/ ServedKey(n, x)'
    <3>1. ~errs[n] /\ ~err
      BY <1>3, <2>4
    <3>2. CASE x = c[1]
      BY <1>8, <3>1, <3>2
    <3>3. CASE x # c[1]
      BY <1>3, <2>2, <2>3, <3>1, <3>3 DEF ServedInv
    <3>4. QED
      BY <3>2, <3>3
  <2>5. synced'[n] \/ (pc'[n] = "condition" /\ ~errs'[n]) => Served(n)'
    BY <1>3, <2>1, <2>3 DEF ServedInv
  <2>6. cache'[n] # Unset => cache'[n] = tenants'[inst'[n].slug]
    BY <1>3, <1>8
  <2>7. QED
    BY <1>5, <2>4, <2>5, <2>6 DEF ServedInv
<1>9. QED
  BY <1>1, <1>2, <1>4, <1>6, <1>7, <1>8, ControllerFrame

\* Provider.Create of a Tenant, which may have been created in the meantime.
LEMMA CreateTenantStep ==
  ASSUME IInv, NEW n \in Names, pc[n] = "apply", NEW c \in plan[n], CreateTenant(n, c)
  PROVE  IInv'
<1> USE DEF IInv
<1> DEFINE s == c[1][2]
           err == tenants[s] # 0
<1>1. c[1] \in Declared(n) /\ c[1][1] = "Tenant" /\ s \in Slugs
  BY DeclaredForm DEF PhaseInv, CreateTenant
<1>2. /\ Executed(n, c, err) /\ agents' = agents /\ cache' = cache
      /\ tenants[s] = 0 => gens[s] < MaxGens
      /\ IF tenants[s] = 0
         THEN /\ gens' = [gens EXCEPT ![s] = @ + 1]
              /\ tenants' = [tenants EXCEPT ![s] = gens'[s]]
         ELSE UNCHANGED <<tenants, gens>>
  BY DEF CreateTenant
<1>3. /\ tenants \in [Slugs -> 0..MaxGens] /\ gens \in [Slugs -> 0..MaxGens]
      /\ MaxGens \in Nat
  BY TenantsAssumption DEF TypeOK
<1> HIDE DEF s
<1>4. /\ tenants' \in [Slugs -> 0..MaxGens] /\ gens' \in [Slugs -> 0..MaxGens]
      /\ \A x \in Slugs : tenants[x] # 0 => tenants'[x] = tenants[x]
      /\ tenants'[s] # 0
  <2>1. CASE tenants[s] = 0
    <3>1. gens[s] + 1 \in 0..MaxGens /\ gens[s] + 1 # 0
      BY <1>1, <1>2, <1>3, <2>1
    <3>2. gens' = [gens EXCEPT ![s] = gens[s] + 1] /\ gens'[s] = gens[s] + 1
      BY <1>1, <1>2, <1>3, <2>1
    <3>3. tenants' = [tenants EXCEPT ![s] = gens[s] + 1]
      BY <1>2, <2>1, <3>2
    <3>4. QED
      BY <1>1, <1>3, <2>1, <3>1, <3>2, <3>3
  <2>2. CASE tenants[s] # 0
    BY <1>2, <1>3, <2>2
  <2>3. QED
    BY <2>1, <2>2
<1>5. \A a \in agents' : a.slug \in Slugs /\ a.gen = tenants'[a.slug] /\ a.gen # 0
  BY <1>2, <1>4 DEF TypeOK
<1>6. AgentInv' /\ Keeps
  BY <1>2, <1>4 DEF AgentInv, Keeps
<1>7. cache' \in [Names -> Unset..MaxGens]
  BY <1>2 DEF TypeOK
<1>8. UNCHANGED <<deleted, prune>> /\ (Undisturbed' <=> Undisturbed)
  BY <1>2 DEF Executed, setup, Undisturbed
<1>9. ServedKey(n, c[1])'
  BY <1>1, <1>4 DEF ServedKey, s
<1>10. ASSUME Undisturbed', cache'[n] # Unset
       PROVE  cache'[n] = tenants'[inst[n].slug]
  <2>1. cache[n] # Error /\ cache[n] = tenants[inst[n].slug]
    BY <1>2, <1>8, <1>10 DEF Undisturbed, ServedInv
  <2>2. inst[n].slug \in Slugs
    BY <1>2, <1>10 DEF TypeOK, InstInv
  <2>3. QED
    BY <1>2, <1>4, <2>1, <2>2
<1>11. err \in BOOLEAN
  OBVIOUS
<1> HIDE DEF err
<1>12. QED
  BY <1>2, <1>4, <1>5, <1>6, <1>7, <1>8, <1>9, <1>10, <1>11, ExecutedStep

\* Provider.Create of an agent: refused, or the agent is there as declared.
LEMMA CreateAgentStep ==
  ASSUME IInv, NEW n \in Names, pc[n] = "apply", NEW c \in plan[n], CreateAgent(n, c)
  PROVE  IInv'
<1> USE DEF IInv
<1> DEFINE s == inst[n].slug
           g == Resolved(n)
           taken == \E a \in agents : a.slug = s /\ a.name = c[1][2]
           ok == g # Error /\ tenants[s] = g /\ ~taken
           err == ~ok
           new == NewAgent(s, g, c[1][2], SpecOf(n, c[1]))
<1>1. c[1] \in Declared(n) /\ c[1][1] = "Agent" /\ s # "" /\ s \in Slugs
  BY DeclaredForm DEF PhaseInv, CreateAgent
<1>2. /\ Executed(n, c, err) /\ cache' = [cache EXCEPT ![n] = g]
      /\ agents' = IF ok THEN agents \cup {new} ELSE agents
      /\ tenants' = tenants /\ gens' = gens
  BY DEF CreateAgent
<1>3. g \in 0..MaxGens /\ g \in Unset..MaxGens
  BY <1>1, ResolvedType
<1>4. cache' = CacheAfter(n, {0}, g)
  BY <1>1, <1>2 DEF CacheAfter
<1>5. /\ new.slug = s /\ new.gen = g /\ new.name = c[1][2]
      /\ new.spec = SpecOf(n, c[1])
  BY DEF NewAgent
<1>6. new = NewAgent(new.slug, new.gen, new.name, new.spec)
  BY DEF NewAgent
<1>7. UNCHANGED <<deleted, prune>> /\ inst' = inst
  BY <1>2 DEF Executed, setup
<1>8. /\ Undisturbed' => Undisturbed
      /\ Undisturbed' /\ cache'[n] # Unset => cache'[n] = tenants[inst[n].slug]
  BY <1>1, <1>4, <1>7, CacheOfTenant
<1>9. cache' \in [Names -> Unset..MaxGens] /\ \A m \in Names \ {n} : cache'[m] = cache[m]
  BY <1>2, <1>3 DEF TypeOK
<1> HIDE DEF new, g, s
<1>10. \A a \in agents' : a.slug \in Slugs /\ a.gen = tenants'[a.slug] /\ a.gen # 0
  BY <1>1, <1>2, <1>3, <1>5 DEF TypeOK
<1>11. AgentInv'
  BY <1>2, <1>6 DEF AgentInv
<1>12. Keeps
  BY <1>2 DEF Keeps
<1>13. err \/ ServedKey(n, c[1])'
  <2>1. SUFFICES ASSUME ok
                 PROVE  ServedKey(n, c[1])'
    OBVIOUS
  <2>2. new \in agents'
    BY <1>2, <2>1
  <2>3. SpecOf(n, c[1])' = SpecOf(n, c[1])
    BY <1>7 DEF SpecOf
  <2>4. QED
    BY <1>1, <1>5, <1>7, <2>2, <2>3 DEF ServedKey, s
<1>14. tenants' \in [Slugs -> 0..MaxGens] /\ gens' \in [Slugs -> 0..MaxGens]
  BY <1>2 DEF TypeOK
<1>15. err \in BOOLEAN
  OBVIOUS
<1>16. Undisturbed' /\ cache'[n] # Unset => cache'[n] = tenants'[inst[n].slug]
  BY <1>2, <1>8
<1>17. inst[n].slug # "" /\ Executed(n, c, err)
  BY <1>1, <1>2 DEF s
<1> HIDE DEF err
<1>18. QED
  BY <1>8, <1>9, <1>10, <1>11, <1>12, <1>13, <1>14, <1>15, <1>16, <1>17, ExecutedStep

\* updateAgent changes an agent of the same key of the same tenant, so no other
\* directory loses what it has served.
LEMMA UpdateAgentStep ==
  ASSUME IInv, NEW n \in Names, pc[n] = "apply", NEW c \in plan[n], UpdateAgent(n, c)
  PROVE  IInv'
<1> USE DEF IInv
<1> DEFINE s == inst[n].slug
           g == Resolved(n)
           own == OwnAgents(n, c[1][2], g)
           err == own = {}
           changed(a) == [a EXCEPT !.spec = SpecOf(n, c[1])]
<1>1. c[1] \in Declared(n) /\ c[1][1] = "Agent" /\ s # "" /\ s \in Slugs
  BY DeclaredForm DEF PhaseInv, UpdateAgent
<1>2. /\ Executed(n, c, err) /\ cache' = CacheAfter(n, Named(n, c[1][2]), g)
      /\ \/ own = {} /\ UNCHANGED agents
         \/ \E a \in own : agents' = (agents \ {a}) \cup {changed(a)}
      /\ tenants' = tenants /\ gens' = gens
  BY DEF UpdateAgent
<1>3. g \in 0..MaxGens /\ g \in Unset..MaxGens
  BY <1>1, ResolvedType
<1>4. UNCHANGED <<deleted, prune>> /\ inst' = inst
  BY <1>2 DEF Executed, setup
<1>5. /\ Undisturbed' => Undisturbed
      /\ Undisturbed' /\ Named(n, c[1][2]) # {} => g # Error
      /\ Undisturbed' /\ cache'[n] # Unset => cache'[n] = tenants[inst[n].slug]
  BY <1>1, <1>2, <1>4, CacheOfTenant
<1>6. cache' \in [Names -> Unset..MaxGens] /\ \A m \in Names \ {n} : cache'[m] = cache[m]
  BY <1>1, <1>2, <1>3, CacheAfterType
<1>7. ASSUME NEW a \in agents
      PROVE  /\ changed(a).slug = a.slug /\ changed(a).gen = a.gen
             /\ changed(a).name = a.name /\ changed(a).spec = SpecOf(n, c[1])
             /\ changed(a) = NewAgent(a.slug, a.gen, a.name, SpecOf(n, c[1]))
  <2>1. a = NewAgent(a.slug, a.gen, a.name, a.spec)
    BY DEF AgentInv
  <2>2. QED
    BY <2>1 DEF NewAgent
<1>8. \A a \in own : a \in agents /\ Named(n, c[1][2]) # {} /\ a.name = c[1][2]
  BY DEF OwnAgents, Listed, Named
<1>9. \A a \in own : g # Error => a.slug = s
  BY <1>1 DEF OwnAgents, MatchesTenant
<1>10. SpecOf(n, c[1])' = SpecOf(n, c[1])
  BY <1>4 DEF SpecOf
<1> HIDE DEF g, s, own, changed
<1>11. CASE own = {} /\ UNCHANGED agents
  <2>1. \A a \in agents' : a.slug \in Slugs /\ a.gen = tenants'[a.slug] /\ a.gen # 0
    BY <1>2, <1>11 DEF TypeOK
  <2>2. AgentInv' /\ Keeps
    BY <1>2, <1>11, KeepsSame DEF AgentInv
  <2>3. tenants' \in [Slugs -> 0..MaxGens] /\ gens' \in [Slugs -> 0..MaxGens]
    BY <1>2 DEF TypeOK
  <2>4. err \in BOOLEAN /\ err
    BY <1>11
  <2> HIDE DEF err
  <2>5. QED
    BY <1>1, <1>2, <1>5, <1>6, <2>1, <2>2, <2>3, <2>4, ExecutedStep DEF s
<1>12. ASSUME NEW a \in own, agents' = (agents \ {a}) \cup {changed(a)}
       PROVE  IInv'
  <2>1. a \in agents
    BY <1>8
  <2>2. \A b \in agents' : b.slug \in Slugs /\ b.gen = tenants'[b.slug] /\ b.gen # 0
    <3>1. \A b \in agents : b.slug \in Slugs /\ b.gen = tenants'[b.slug] /\ b.gen # 0
      BY <1>2 DEF TypeOK
    <3>2. changed(a).slug = a.slug /\ changed(a).gen = a.gen
      BY <1>7, <2>1
    <3>3. QED
      BY <1>12, <2>1, <3>1, <3>2
  <2>3. AgentInv'
    <3>1. changed(a) = NewAgent(changed(a).slug, changed(a).gen, changed(a).name,
                                changed(a).spec)
      BY <1>7, <2>1
    <3>2. QED
      BY <1>12, <3>1 DEF AgentInv
  <2>4. tenants' \in [Slugs -> 0..MaxGens] /\ gens' \in [Slugs -> 0..MaxGens]
    BY <1>2 DEF TypeOK
  <2>5. ASSUME Undisturbed'
        PROVE  Keeps /\ ServedKey(n, c[1])'
    <3>1. a.slug = s /\ a.name = c[1][2]
      BY <1>5, <1>8, <1>9, <2>5
    <3>2. changed(a) \in agents' /\ changed(a).slug = s /\ changed(a).name = c[1][2]
          /\ changed(a).spec = SpecOf(n, c[1])
      BY <1>7, <1>12, <2>1, <3>1
    <3>3. ServedKey(n, c[1])'
      BY <1>1, <1>4, <1>10, <3>2 DEF ServedKey, s
    <3>4. ASSUME NEW m \in Names, NEW r \in inst[m].agents, NEW b \in agents,
                 b.slug = inst[m].slug, b.name = r.name, b.spec = r.spec
          PROVE  \E x \in agents' : x.slug = b.slug /\ x.name = b.name /\ x.spec = b.spec
      <4>1. CASE b # a
        BY <1>12, <4>1
      <4>2. CASE b = a
        <5>1. m = n
          BY <1>1, <3>1, <3>4, <4>2 DEF InstInv, s
        <5>2. PICK q \in inst[n].agents : q.name = c[1][2] /\ q.spec = SpecOf(n, c[1])
          BY <1>1, DeclaredForm
        <5>3. r = q
          BY <3>1, <3>4, <4>2, <5>1, <5>2 DEF InstInv
        <5>4. QED
          BY <3>1, <3>2, <3>4, <4>2, <5>2, <5>3
      <4>3. QED
        BY <4>1, <4>2
    <3>5. Keeps
      BY <1>2, <3>4 DEF Keeps
    <3>6. QED
      BY <3>3, <3>5
  <2>6. err \in BOOLEAN
    OBVIOUS
  <2> HIDE DEF err
  <2>7. QED
    BY <1>1, <1>2, <1>5, <1>6, <2>2, <2>3, <2>4, <2>5, <2>6, ExecutedStep DEF s
<1>13. QED
  BY <1>2, <1>11, <1>12

\* Every change of a plan.
LEMMA ExecuteStep ==
  ASSUME IInv, NEW n \in Names, Execute(n)
  PROVE  IInv'
BY CreateTenantStep, CreateAgentStep, UpdateAgentStep DEF Execute

\* Nothing to do and nothing to execute: all is served, or there is an error.
LEMMA EndApplyStep ==
  ASSUME IInv, NEW n \in Names, EndApply(n)
  PROVE  IInv'
<1> USE DEF IInv
<1>1. UNCHANGED setup /\ probe' = probe /\ pc[n] # "idle"
  BY DEF EndApply, Goto
<1>2. \A m \in Names \ {n} : Same(m)
  BY DEF EndApply, Goto, Same, TypeOK, OnNames
<1>3. TypeOK'
  BY DEF EndApply, Goto, TypeOK, OnNames, setup, goclaw
<1>4. AgentInv' /\ Keeps
  BY KeepsSame DEF EndApply, AgentInv, goclaw
<1>5. /\ pc[n] = "apply" /\ todo[n] = {} /\ plan[n] = {}
      /\ pc'[n] = IF prune THEN "list Agent" ELSE "condition"
      /\ ~prune => synced'[n] = FALSE
      /\ todo' = todo /\ plan' = plan /\ errs' = errs /\ cache' = cache
      /\ inst' = inst /\ prune' = prune /\ tenants' = tenants
      /\ (Undisturbed' <=> Undisturbed)
  BY DEF EndApply, Goto, TypeOK, setup, goclaw, Undisturbed
<1>6. PhaseInv(n)'
  BY <1>5 DEF PhaseInv, TypeOK
<1>7. inst[n].slug = "" => cache'[n] = Unset
  BY <1>5 DEF InstInv
<1>8. ASSUME Undisturbed'
      PROVE  ServedInv(n)'
  <2>1. Undisturbed /\ ~prune /\ ServedInv(n)
    BY <1>5, <1>8 DEF Undisturbed
  <2>2. ~errs[n] => Served(n)
    BY <1>5, <2>1, ServedForm DEF ServedInv
  <2>3. Served(n) => Served(n)'
    BY <1>4, <1>5, KeepsServed
  <2>4. QED
    BY <1>5, <2>1, <2>2, <2>3 DEF ServedInv
<1>9. QED
  BY <1>1, <1>2, <1>3, <1>4, <1>5, <1>6, <1>7, <1>8, ControllerFrame

\* Synced is set from the errors of the cycle that served the directory.
LEMMA SetConditionStep ==
  ASSUME IInv, NEW n \in Names, SetCondition(n)
  PROVE  IInv'
<1> USE DEF IInv
<1>1. UNCHANGED setup /\ probe' = probe /\ pc[n] # "idle"
  BY DEF SetCondition, Goto
<1>2. \A m \in Names \ {n} : Same(m)
  BY DEF SetCondition, Goto, Same, TypeOK, OnNames
<1>3. TypeOK'
  BY DEF SetCondition, Goto, TypeOK, OnNames, setup, goclaw
<1>4. AgentInv' /\ Keeps
  BY KeepsSame DEF SetCondition, AgentInv, goclaw
<1>5. /\ pc[n] = "condition" /\ pc'[n] = "idle" /\ synced'[n] = ~errs[n]
      /\ todo' = todo /\ plan' = plan /\ errs' = errs /\ cache' = cache
      /\ inst' = inst /\ prune' = prune /\ tenants' = tenants
      /\ (Undisturbed' <=> Undisturbed)
  BY DEF SetCondition, Goto, TypeOK, setup, goclaw, Undisturbed
<1>6. PhaseInv(n)'
  BY <1>5 DEF PhaseInv, Declared
<1>7. inst[n].slug = "" => cache'[n] = Unset
  BY <1>5 DEF InstInv
<1>8. ASSUME Undisturbed'
      PROVE  ServedInv(n)'
  <2>1. ServedInv(n)
    BY <1>5, <1>8
  <2>2. Served(n) => Served(n)'
    BY <1>4, <1>5, KeepsServed
  <2>3. QED
    BY <1>5, <2>1, <2>2 DEF ServedInv
<1>9. QED
  BY <1>1, <1>2, <1>3, <1>4, <1>5, <1>6, <1>7, <1>8, ControllerFrame

\* The steps of a prune: only what they may delete is at stake.
LEMMA PruneFrame ==
  ASSUME IInv, NEW n \in Names, prune, pc[n] # "idle", UNCHANGED setup, probe' = probe,
         \A m \in Names \ {n} : Same(m), TypeOK', AgentInv', PhaseInv(n)',
         inst[n].slug = "" => cache'[n] = cache[n]
  PROVE  IInv'
<1>1. ~Undisturbed'
  BY DEF setup, Undisturbed
<1>2. inst[n].slug = "" => cache'[n] = Unset
  BY DEF IInv, InstInv
<1>3. QED
  BY <1>1, <1>2, ControllerFrame

\* The candidates for pruning are agents.
LEMMA ListAgentsStep ==
  ASSUME IInv, NEW n \in Names, ListAgents(n)
  PROVE  IInv'
<1> USE DEF IInv
<1> DEFINE T == {<<"Agent", a.name>> :
                   a \in {x \in Listed(n) : MatchesTenant(n, x, Resolved(n))}}
                  \ Declared(n)
<1>1. /\ UNCHANGED setup /\ probe' = probe /\ pc[n] = "list Agent"
      /\ todo' = [todo EXCEPT ![n] = T] /\ pc' = [pc EXCEPT ![n] = "delete Agent"]
      /\ cache' = CacheAfter(n, Listed(n), Resolved(n))
      /\ UNCHANGED <<goclaw, synced, plan, errs, events, deleted>>
  BY DEF ListAgents, Goto
<1>2. prune
  BY <1>1 DEF PhaseInv
<1>3. /\ cache' \in [Names -> Unset..MaxGens]
      /\ \A m \in Names \ {n} : cache'[m] = cache[m]
      /\ inst[n].slug = "" => cache'[n] = cache[n]
  <2>1. inst[n].slug # "" => Resolved(n) \in Unset..MaxGens
    BY ResolvedType DEF TypeOK
  <2>2. QED
    BY <1>1, <2>1, CacheAfterType
<1>4. \A k \in T : k[1] = "Agent"
  OBVIOUS
<1> HIDE DEF T
<1>5. \A m \in Names \ {n} : Same(m)
  BY <1>1, <1>3 DEF Same, TypeOK, OnNames
<1>6. TypeOK'
  BY <1>1, <1>3, <1>4 DEF TypeOK, OnNames, setup, goclaw
<1>7. AgentInv'
  BY <1>1 DEF AgentInv, goclaw
<1>8. pc'[n] = "delete Agent" /\ todo'[n] = T /\ prune' = prune /\ inst' = inst
  BY <1>1 DEF TypeOK, OnNames, setup
<1>9. PhaseInv(n)'
  BY <1>1, <1>2, <1>4, <1>8 DEF PhaseInv, Declared
<1>10. QED
  BY <1>1, <1>2, <1>3, <1>5, <1>6, <1>7, <1>9, PruneFrame

\* One agent is pruned.
LEMMA DeleteAgentStep ==
  ASSUME IInv, NEW n \in Names, NEW k, DeleteAgent(n, k)
  PROVE  IInv'
<1> USE DEF IInv
<1>1. /\ UNCHANGED setup /\ probe' = probe /\ pc[n] = "delete Agent"
      /\ todo' = [todo EXCEPT ![n] = todo[n] \ {k}] /\ agents' \subseteq agents
      /\ cache' = CacheAfter(n, Named(n, k[2]), Resolved(n))
      /\ UNCHANGED <<tenants, gens, pc, plan, errs, synced, events, deleted>>
  BY DEF DeleteAgent
<1>2. prune
  BY <1>1 DEF PhaseInv
<1>3. /\ cache' \in [Names -> Unset..MaxGens]
      /\ \A m \in Names \ {n} : cache'[m] = cache[m]
      /\ inst[n].slug = "" => cache'[n] = cache[n]
  <2>1. inst[n].slug # "" => Resolved(n) \in Unset..MaxGens
    BY ResolvedType DEF TypeOK
  <2>2. QED
    BY <1>1, <2>1, CacheAfterType
<1>4. \A m \in Names \ {n} : Same(m)
  BY <1>1, <1>3 DEF Same, TypeOK, OnNames
<1>5. TypeOK'
  BY <1>1, <1>3 DEF TypeOK, OnNames, setup
<1>6. AgentInv'
  BY <1>1 DEF AgentInv
<1>7. todo'[n] = todo[n] \ {k} /\ prune' = prune /\ inst' = inst
  BY <1>1 DEF TypeOK, OnNames, setup
<1>8. PhaseInv(n)'
  BY <1>1, <1>2, <1>7 DEF PhaseInv, Declared
<1>9. QED
  BY <1>1, <1>2, <1>3, <1>4, <1>5, <1>6, <1>8, PruneFrame

\* The candidates for pruning are Tenants, and for a tenant's key only its own.
LEMMA ListTenantsStep ==
  ASSUME IInv, NEW n \in Names, ListTenants(n)
  PROVE  IInv'
<1> USE DEF IInv
<1> DEFINE T == {<<"Tenant", s>> : s \in TenantsListed(n)} \ Declared(n)
<1>1. /\ UNCHANGED setup /\ probe' = probe /\ pc[n] = "delete Agent"
      /\ todo' = [todo EXCEPT ![n] = T] /\ pc' = [pc EXCEPT ![n] = "delete Tenant"]
      /\ UNCHANGED <<goclaw, cache, synced, plan, errs, events, deleted>>
  BY DEF ListTenants, Goto
<1>2. prune
  BY <1>1 DEF PhaseInv
<1>3. \A k \in T : /\ k[1] = "Tenant" /\ k[2] \in Slugs
                   /\ n # SystemTenant => k[2] = inst[n].slug
  BY DEF TenantsListed
<1> HIDE DEF T
<1>4. \A m \in Names \ {n} : Same(m)
  BY <1>1 DEF Same, TypeOK, OnNames
<1>5. TypeOK'
  BY <1>1, <1>3 DEF TypeOK, OnNames, setup, goclaw
<1>6. AgentInv'
  BY <1>1 DEF AgentInv, goclaw
<1>7. pc'[n] = "delete Tenant" /\ todo'[n] = T /\ prune' = prune /\ inst' = inst
  BY <1>1 DEF TypeOK, OnNames, setup
<1>8. PhaseInv(n)'
  BY <1>1, <1>2, <1>3, <1>7 DEF PhaseInv, Declared
<1>9. QED
  BY <1>1, <1>2, <1>4, <1>5, <1>6, <1>8, PruneFrame

\* A Tenant that goes takes its agents with it.
LEMMA WithoutTenantType ==
  ASSUME IInv, NEW s \in Slugs, WithoutTenant(s)
  PROVE  /\ tenants' \in [Slugs -> 0..MaxGens] /\ gens' \in [Slugs -> 0..MaxGens]
         /\ \A a \in agents' : a.slug \in Slugs /\ a.gen = tenants'[a.slug] /\ a.gen # 0
         /\ AgentInv'
<1> USE DEF IInv
<1>1. tenants' \in [Slugs -> 0..MaxGens] /\ gens' \in [Slugs -> 0..MaxGens]
  <2>1. /\ tenants \in [Slugs -> 0..MaxGens] /\ gens \in [Slugs -> 0..MaxGens]
        /\ MaxGens \in Nat
    BY TenantsAssumption DEF TypeOK
  <2>2. 0 \in 0..MaxGens
    BY <2>1
  <2>3. QED
    BY <2>1, <2>2 DEF WithoutTenant
<1>2. agents' = {a \in agents : a.slug # s}
  BY DEF WithoutTenant
<1>3. \A x \in Slugs : x # s => tenants'[x] = tenants[x]
  BY DEF WithoutTenant, TypeOK
<1>4. QED
  BY <1>1, <1>2, <1>3 DEF TypeOK, AgentInv

\* One Tenant is pruned, with its agents.
LEMMA DeleteTenantStep ==
  ASSUME IInv, NEW n \in Names, NEW k, DeleteTenant(n, k)
  PROVE  IInv'
<1> USE DEF IInv
<1>1. /\ UNCHANGED setup /\ probe' = probe /\ pc[n] = "delete Tenant" /\ k \in todo[n]
      /\ todo' = [todo EXCEPT ![n] = todo[n] \ {k}] /\ WithoutTenant(k[2])
      /\ UNCHANGED <<cache, pc, plan, errs, synced, events, deleted>>
  BY DEF DeleteTenant
<1>2. prune /\ k[2] \in Slugs
  BY <1>1 DEF PhaseInv
<1>3. /\ tenants' \in [Slugs -> 0..MaxGens] /\ gens' \in [Slugs -> 0..MaxGens]
      /\ \A a \in agents' : a.slug \in Slugs /\ a.gen = tenants'[a.slug] /\ a.gen # 0
      /\ AgentInv'
  BY <1>1, <1>2, WithoutTenantType
<1>4. \A m \in Names \ {n} : Same(m)
  BY <1>1 DEF Same, TypeOK, OnNames
<1>5. TypeOK'
  BY <1>1, <1>3 DEF TypeOK, OnNames, setup
<1>6. todo'[n] = todo[n] \ {k} /\ prune' = prune /\ inst' = inst
  BY <1>1 DEF TypeOK, OnNames, setup
<1>7. PhaseInv(n)'
  BY <1>1, <1>2, <1>6 DEF PhaseInv, Declared
<1>8. QED
  BY <1>1, <1>2, <1>3, <1>4, <1>5, <1>7, PruneFrame

\* The prune is over.
LEMMA EndPruneStep ==
  ASSUME IInv, NEW n \in Names, EndPrune(n)
  PROVE  IInv'
<1> USE DEF IInv
<1>1. /\ UNCHANGED setup /\ probe' = probe /\ pc[n] = "delete Tenant"
      /\ pc' = [pc EXCEPT ![n] = "condition"] /\ synced' = [synced EXCEPT ![n] = FALSE]
      /\ UNCHANGED <<goclaw, cache, todo, plan, errs, events, deleted>>
  BY DEF EndPrune, Goto
<1>2. prune
  BY <1>1 DEF PhaseInv
<1>3. \A m \in Names \ {n} : Same(m)
  BY <1>1 DEF Same, TypeOK, OnNames
<1>4. TypeOK'
  BY <1>1 DEF TypeOK, OnNames, setup, goclaw
<1>5. AgentInv'
  BY <1>1 DEF AgentInv, goclaw
<1>6. pc'[n] = "condition" /\ inst' = inst
  BY <1>1 DEF TypeOK, setup
<1>7. PhaseInv(n)'
  BY <1>1, <1>6 DEF PhaseInv, Declared
<1>8. QED
  BY <1>1, <1>2, <1>3, <1>4, <1>5, <1>7, PruneFrame

-----------------------------------------------------------------------------
(* The environment's steps, the probe and the manager.                       *)

\* A step of the environment is within the bound, before any probe.
LEMMA EventBound ==
  ASSUME TypeOK, Event
  PROVE  events' \in 0..MaxEvents /\ ~prune /\ probe = NoProbe
<1>1. events \in 0..MaxEvents /\ events < MaxEvents /\ events' = events + 1 /\ MaxEvents \in Nat
  BY TenantsAssumption DEF TypeOK, Event
<1>2. events' \in 0..MaxEvents
  BY <1>1
<1>3. QED
  BY <1>2 DEF Event

\* A request that fails leaves an error in the cycle.
LEMMA ObserveFailsStep ==
  ASSUME IInv, NEW n \in Names, ObserveFails(n)
  PROVE  IInv'
<1> USE DEF IInv
<1>1. PICK k \in todo[n] : todo' = [todo EXCEPT ![n] = todo[n] \ {k}]
  BY DEF ObserveFails
<1>2. /\ UNCHANGED setup /\ probe' = probe /\ pc[n] = "apply"
      /\ errs' = [errs EXCEPT ![n] = TRUE] /\ events' \in 0..MaxEvents
      /\ UNCHANGED <<goclaw, cache, pc, plan, synced, deleted>>
  BY EventBound DEF ObserveFails
<1>3. \A m \in Names \ {n} : Same(m)
  BY <1>1, <1>2 DEF Same, TypeOK, OnNames
<1>4. TypeOK'
  BY <1>1, <1>2 DEF TypeOK, OnNames, setup, goclaw
<1>5. AgentInv' /\ Keeps
  BY <1>2, KeepsSame DEF AgentInv, goclaw
<1>6. /\ todo'[n] = todo[n] \ {k} /\ errs'[n] = TRUE /\ inst' = inst
      /\ tenants' = tenants /\ (Undisturbed' <=> Undisturbed)
  BY <1>1, <1>2 DEF TypeOK, OnNames, setup, goclaw, Undisturbed
<1>7. PhaseInv(n)'
  BY <1>2, <1>6 DEF PhaseInv, Declared
<1>8. inst[n].slug = "" => cache'[n] = Unset
  BY <1>2 DEF InstInv
<1>9. ASSUME Undisturbed'
      PROVE  ServedInv(n)'
  <2>1. ServedInv(n)
    BY <1>6, <1>9
  <2>2. Served(n) => Served(n)'
    BY <1>5, <1>6, KeepsServed
  <2>3. QED
    BY <1>2, <1>6, <2>1, <2>2 DEF ServedInv
<1>10. QED
  BY <1>2, <1>3, <1>4, <1>5, <1>6, <1>7, <1>8, <1>9, ControllerFrame

\* A lookup that fails is cached: nothing is claimed from there on.
LEMMA ResolveFailsStep ==
  ASSUME IInv, NEW n \in Names, ResolveFails(n)
  PROVE  IInv'
<1> USE DEF IInv
<1>1. /\ pc[n] = "apply" /\ cache[n] = Unset /\ events' \in 0..MaxEvents
      /\ deleted' = deleted
  BY EventBound DEF ResolveFails
<1>2. MaxGens \in Nat /\ Error \in Unset..MaxGens
  BY TenantsAssumption
<1>3. CASE /\ \E c \in plan[n] : c[1][1] = "Agent" /\ plan' = [plan EXCEPT ![n] = @ \ {c}]
           /\ cache' = [cache EXCEPT ![n] = Error]
           /\ errs' = [errs EXCEPT ![n] = TRUE]
           /\ UNCHANGED <<setup, goclaw, pc, todo, synced, probe>>
  <2>1. PICK c \in plan[n] : c[1][1] = "Agent" /\ plan' = [plan EXCEPT ![n] = plan[n] \ {c}]
    BY <1>3
  <2>2. inst[n].slug # ""
    BY <2>1, DeclaredForm DEF PhaseInv
  <2>3. \A m \in Names \ {n} : Same(m)
    BY <1>3, <2>1 DEF Same, TypeOK, OnNames
  <2>4. /\ cache' \in [Names -> Unset..MaxGens] /\ cache'[n] = Error
        /\ plan'[n] = plan[n] \ {c} /\ inst' = inst
    BY <1>2, <1>3, <2>1 DEF TypeOK, OnNames, setup
  <2>5. TypeOK'
    BY <1>1, <1>3, <2>1, <2>4 DEF TypeOK, OnNames, setup, goclaw
  <2>6. AgentInv'
    BY <1>3 DEF AgentInv, goclaw
  <2>7. PhaseInv(n)'
    BY <1>1, <1>3, <2>4 DEF PhaseInv, Declared
  <2>8. ~Undisturbed'
    BY <2>4 DEF Undisturbed
  <2>9. UNCHANGED setup /\ probe' = probe /\ pc[n] # "idle"
    BY <1>1, <1>3
  <2>10. QED
    BY <2>2, <2>3, <2>5, <2>6, <2>7, <2>8, <2>9, ControllerFrame
<1>4. CASE \E k \in todo[n] : Named(n, k[2]) # {} /\ ObserveAgent(n, k, Error)
  <2>1. PICK k \in todo[n] : Named(n, k[2]) # {} /\ ObserveAgent(n, k, Error)
    BY <1>4
  <2>2. /\ k[1] = "Agent" /\ cache' = CacheAfter(n, Named(n, k[2]), Error)
        /\ \E action \in {"create", "update", "noop"} : Plan(n, k, action)
    BY <2>1 DEF ObserveAgent
  <2>3. inst[n].slug # "" /\ inst[n].slug \in Slugs
    BY <1>1, <2>2, DeclaredForm DEF PhaseInv
  <2>4. /\ cache' \in [Names -> Unset..MaxGens]
        /\ \A m \in Names \ {n} : cache'[m] = cache[m]
        /\ cache'[n] = Error
    <3>1. cache' = [cache EXCEPT ![n] = Error]
      BY <2>1, <2>2, <2>3 DEF CacheAfter
    <3>2. cache \in [Names -> Unset..MaxGens]
      BY DEF TypeOK
    <3>3. QED
      BY <1>2, <3>1, <3>2
  <2>5. ~Undisturbed'
    BY <2>4 DEF Undisturbed
  <2>6. PICK action \in {"create", "update", "noop"} : Plan(n, k, action)
    BY <2>2
  <2>7. QED
    BY <1>1, <2>3, <2>4, <2>5, <2>6, PlanStep
<1>5. QED
  BY <1>3, <1>4 DEF ResolveFails

\* After a deletion by another user nothing is claimed but the types.
LEMMA DropFrame ==
  ASSUME IInv, TypeOK', AgentInv', deleted',
         UNCHANGED <<setup, cache, cycleVars, synced, probe>>
  PROVE  IInv'
<1> USE DEF IInv
<1>1. ~Undisturbed'
  BY DEF Undisturbed
<1>2. InstInv'
  BY DEF InstInv, Fresh, setup, cycleVars
<1>3. ProbeInv'
  BY <1>1 DEF ProbeInv
<1>4. \A n \in Names : PhaseInv(n)'
  BY DEF PhaseInv, Declared, setup, cycleVars
<1>5. QED
  BY <1>1, <1>2, <1>3, <1>4

\* Another user deletes a Tenant.
LEMMA DropTenantStep ==
  ASSUME IInv, NEW s \in Slugs, DropTenant(s)
  PROVE  IInv'
<1> USE DEF IInv
<1>1. events' \in 0..MaxEvents
  BY EventBound DEF DropTenant
<1>2. /\ tenants' \in [Slugs -> 0..MaxGens] /\ gens' \in [Slugs -> 0..MaxGens]
      /\ \A a \in agents' : a.slug \in Slugs /\ a.gen = tenants'[a.slug] /\ a.gen # 0
      /\ AgentInv'
  BY WithoutTenantType DEF DropTenant
<1>3. deleted' = TRUE /\ UNCHANGED <<setup, cache, cycleVars, synced, probe>>
  BY DEF DropTenant
<1>4. TypeOK'
  BY <1>1, <1>2, <1>3 DEF TypeOK, OnNames, setup, cycleVars
<1>5. QED
  BY <1>2, <1>3, <1>4, DropFrame

\* Another user deletes an agent.
LEMMA DropAgentStep ==
  ASSUME IInv, NEW a \in agents, DropAgent(a)
  PROVE  IInv'
<1> USE DEF IInv
<1>1. events' \in 0..MaxEvents
  BY EventBound DEF DropAgent
<1>2. /\ deleted' = TRUE /\ UNCHANGED <<setup, cache, cycleVars, synced, probe>>
      /\ agents' \subseteq agents /\ tenants' = tenants /\ gens' = gens
  BY DEF DropAgent
<1>3. TypeOK' /\ AgentInv'
  BY <1>1, <1>2 DEF TypeOK, OnNames, AgentInv, setup, cycleVars
<1>4. QED
  BY <1>2, <1>3, DropFrame

\* A probe that is asked, and a tracker that it reads.
LEMMA ProbeFrame ==
  ASSUME IInv, UNCHANGED <<setup, goclaw, cache, cycleVars, synced, events, deleted>>,
         serving # "starting", probe'.left \subseteq Names,
         probe'.answer \in {"none", "asking", "ready", "not ready"},
         probe'.answer = "ready" => probe'.left = {},
         Undisturbed /\ probe'.answer \in {"asking", "ready"} =>
           \A n \in Found \ probe'.left : Served(n)
  PROVE  IInv'
<1> USE DEF IInv
<1>1. TypeOK'
  BY DEF TypeOK, OnNames, setup, goclaw, cycleVars
<1>2. InstInv' /\ AgentInv'
  BY DEF InstInv, AgentInv, setup, goclaw
<1>3. \A n \in Names : PhaseInv(n)'
  BY DEF PhaseInv, Declared, setup, cycleVars
<1>4. Keeps /\ inst' = inst /\ (Undisturbed' <=> Undisturbed)
  BY KeepsSame DEF goclaw, setup, Undisturbed
<1>5. ASSUME Undisturbed', NEW n \in Names
      PROVE  ServedInv(n)'
  <2>1. ServedInv(n) /\ Same(n) /\ cache[n] # Error
    BY <1>4, <1>5 DEF Same, cycleVars, Undisturbed
  <2>2. QED
    BY <1>4, <2>1, OthersServed
<1>6. ProbeInv'
  <2>1. \A n \in Names : Served(n) => Served(n)'
    BY <1>4, KeepsServed
  <2>2. QED
    BY <1>4, <2>1 DEF ProbeInv, Found
<1>7. QED
  BY <1>1, <1>2, <1>3, <1>5, <1>6

\* A probe starts with every tracker before it.
LEMMA ProbeStep ==
  ASSUME IInv, Probe
  PROVE  IInv'
<1>1. probe'.answer = "asking" /\ probe'.left = Found /\ Found \subseteq Names
  BY DEF Probe, Found
<1>2. serving # "starting"
  BY DEF Probe
<1>3. UNCHANGED <<setup, goclaw, cache, cycleVars, synced, events, deleted>>
  BY DEF Probe
<1>4. QED
  BY <1>1, <1>2, <1>3, ProbeFrame

\* A tracker that says Synced belongs to a directory that is served.
LEMMA IsSyncedStep ==
  ASSUME IInv, NEW n \in Names, IsSynced(n)
  PROVE  IInv'
<1> USE DEF IInv
<1>1. /\ probe.answer = "asking" /\ n \in probe.left
      /\ probe' = IF ~synced[n] THEN [answer |-> "not ready", left |-> {}]
                  ELSE [answer |-> IF probe.left = {n} THEN "ready" ELSE "asking",
                        left |-> probe.left \ {n}]
      /\ UNCHANGED <<setup, goclaw, cache, cycleVars, synced, events, deleted>>
  BY DEF IsSynced
<1>2. serving # "starting"
  <2>1. NoProbe.answer = "none"
    BY DEF NoProbe
  <2>2. serving = "starting" => probe = NoProbe
    BY DEF InstInv, Fresh
  <2>3. QED
    BY <1>1, <2>1, <2>2
<1>3. CASE ~synced[n]
  <2>1. probe'.answer = "not ready" /\ probe'.left = {}
    BY <1>1, <1>3
  <2>2. QED
    BY <1>1, <1>2, <2>1, ProbeFrame
<1>4. CASE synced[n]
  <2>1. /\ probe'.answer = IF probe.left = {n} THEN "ready" ELSE "asking"
        /\ probe'.left = probe.left \ {n}
    BY <1>1, <1>4
  <2>2. Undisturbed => \A m \in Found \ probe'.left : Served(m)
    BY <1>1, <1>4, <2>1 DEF ProbeInv, ServedInv
  <2>3. probe'.left \subseteq Names
    BY <2>1 DEF TypeOK
  <2>4. probe'.answer \in {"ready", "asking"} /\ (probe'.answer = "ready" => probe'.left = {})
    BY <2>1
  <2>5. QED
    BY <1>1, <1>2, <2>2, <2>3, <2>4, ProbeFrame
<1>5. QED
  BY <1>3, <1>4

\* A process that has done nothing yet claims nothing.
LEMMA FreshFrame ==
  ASSUME TypeOK', Fresh', AgentInv',
         \A n \in Names :
           /\ inst'[n].tenants \subseteq Slugs
           /\ inst'[n].slug = "" => inst'[n].agents = {}
           /\ \A r, q \in inst'[n].agents : r.name = q.name => r = q
           /\ \A m \in Names \ {n} : inst'[m].slug = inst'[n].slug => inst'[n].slug = ""
  PROVE  IInv'
<1>1. /\ probe' = NoProbe
      /\ \A n \in Names : /\ pc'[n] = "idle" /\ todo'[n] = {} /\ plan'[n] = {}
                          /\ synced'[n] = FALSE /\ cache'[n] = Unset
  BY DEF Fresh, All
<1>2. InstInv'
  BY <1>1 DEF InstInv
<1>3. \A n \in Names : PhaseInv(n)' /\ ServedInv(n)'
  BY <1>1 DEF PhaseInv, ServedInv
<1>4. probe'.answer = "none"
  BY <1>1 DEF NoProbe
<1>5. ProbeInv'
  BY <1>4 DEF ProbeInv
<1>6. QED
  BY <1>2, <1>3, <1>5 DEF IInv

\* A restart forgets what was cached, also an error: nothing is claimed of the
\* new process until its cycles have run.
LEMMA RestartStep ==
  ASSUME IInv, Restart
  PROVE  IInv'
<1> USE DEF IInv
<1>1. events' \in 0..MaxEvents
  BY EventBound DEF Restart
<1>2. Fresh' /\ UNCHANGED <<setup, goclaw, deleted>>
  BY DEF Restart, Fresh
<1>3. TypeOK'
  <2>1. Unset \in Unset..MaxGens
    BY TenantsAssumption
  <2>2. /\ pc' \in [Names -> {"idle"}] /\ todo' = [n \in Names |-> {}]
        /\ plan' = [n \in Names |-> {}] /\ errs' \in [Names -> BOOLEAN]
        /\ synced' \in [Names -> BOOLEAN] /\ cache' \in [Names -> Unset..MaxGens]
    BY <1>2, <2>1 DEF Fresh, All
  <2>3. probe'.answer = "none" /\ probe'.left = {}
    BY <1>2 DEF Fresh, NoProbe
  <2>4. /\ pc' \in [Names -> {"idle", "apply", "list Agent", "delete Agent",
                              "delete Tenant", "condition"}]
        /\ \A n \in Names : todo'[n] = {} /\ plan'[n] = {}
    BY <2>2
  <2>5. OnNames(todo') /\ OnNames(plan')
    BY <2>2 DEF OnNames
  <2>6. QED
    BY <1>1, <1>2, <2>2, <2>3, <2>4, <2>5 DEF TypeOK, OnNames, setup, goclaw
<1>4. AgentInv'
  BY <1>2 DEF AgentInv, goclaw
<1>5. inst' = inst
  BY <1>2 DEF setup
<1>6. QED
  BY <1>2, <1>3, <1>4, <1>5, FreshFrame DEF InstInv

\* What the manager makes of the directories is within the limits of the model.
LEMMA NewTenantManagerStep ==
  ASSUME IInv, NewTenantManager
  PROVE  IInv'
<1> USE DEF IInv
<1> DEFINE found == [n \in Names |-> InstanceOf(dirs[n])]
<1>1. /\ dirs \in Followed /\ inst' = found /\ dirs' = <<>>
      /\ serving' \in {"serving", "exited"} /\ serving = "starting"
      /\ UNCHANGED <<prune, scoped, goclaw, cache, cycleVars, synced, probe, events, deleted>>
  BY DEF NewTenantManager
<1>2. Followable(dirs) /\ \A n \in Names : IsDirectory(dirs[n])
  BY <1>1, TenantsAssumption, LayoutsAssumption
<1>3. \A n \in Names : inst'[n] = InstanceOf(dirs[n])
  BY <1>1
<1>4. Fresh'
  BY <1>1 DEF InstInv, Fresh, cycleVars
<1>5. OnNames(inst')
  BY <1>1 DEF OnNames
<1> HIDE DEF found
<1>6. ASSUME NEW n \in Names
      PROVE  /\ inst'[n].slug \in Slugs \cup {""} /\ inst'[n].tenants \subseteq Slugs
             /\ inst'[n].slug = "" => inst'[n].agents = {}
             /\ \A r, q \in inst'[n].agents : r.name = q.name => r = q
             /\ \A m \in Names \ {n} : inst'[m].slug = inst'[n].slug => inst'[n].slug = ""
  <2>1. \A r, q \in InstanceOf(dirs[n]).agents : r.name = q.name => r = q
    BY <1>2, InstanceForm
  <2>2. QED
    BY <1>2, <1>3, <2>1 DEF Followable
<1>7. TypeOK'
  BY <1>1, <1>5, <1>6 DEF TypeOK, OnNames, goclaw, cycleVars
<1>8. AgentInv'
  BY <1>1 DEF AgentInv, goclaw
<1>9. QED
  BY <1>4, <1>6, <1>7, <1>8, FreshFrame

\* The invariant holds at the start.
LEMMA InitIInv == Init => IInv
<1> SUFFICES ASSUME Init
             PROVE  IInv
  OBVIOUS
<1>1. TypeOK
  <2>1. MaxGens \in Nat /\ MaxEvents \in Nat /\ Unset \in Unset..MaxGens
        /\ 0 \in 0..MaxGens /\ 0 \in 0..MaxEvents
    BY TenantsAssumption
  <2>2. probe.answer = "none" /\ probe.left = {} /\ NoInstance.slug = ""
    BY DEF Init, NoProbe, NoInstance
  <2>3. /\ pc \in [Names -> {"idle", "apply", "list Agent", "delete Agent",
                             "delete Tenant", "condition"}]
        /\ errs \in [Names -> BOOLEAN] /\ synced \in [Names -> BOOLEAN]
        /\ cache \in [Names -> Unset..MaxGens]
        /\ tenants \in [Slugs -> 0..MaxGens] /\ gens \in [Slugs -> 0..MaxGens]
    BY <2>1 DEF Init, All
  <2>4. /\ OnNames(inst) /\ OnNames(todo) /\ OnNames(plan)
        /\ \A n \in Names : inst[n] = NoInstance /\ todo[n] = {} /\ plan[n] = {}
    BY DEF Init, All, OnNames
  <2>5. QED
    BY <2>1, <2>2, <2>3, <2>4 DEF Init, TypeOK
<1>2. \A n \in Names : inst[n] = NoInstance
  BY DEF Init, All
<1>3. NoInstance.slug = "" /\ NoInstance.agents = {} /\ NoInstance.tenants = {}
  BY DEF NoInstance
<1>4. /\ probe.answer = "none" /\ agents = {}
      /\ \A n \in Names : /\ pc[n] = "idle" /\ todo[n] = {} /\ plan[n] = {}
                          /\ synced[n] = FALSE /\ cache[n] = Unset
  BY DEF Init, All, NoProbe
<1>5. Fresh
  BY DEF Init, Fresh
<1>6. InstInv
  BY <1>2, <1>3, <1>4, <1>5 DEF InstInv
<1>7. AgentInv /\ ProbeInv
  BY <1>4 DEF AgentInv, ProbeInv
<1>8. \A n \in Names : PhaseInv(n) /\ ServedInv(n)
  BY <1>4 DEF PhaseInv, ServedInv
<1>9. QED
  BY <1>1, <1>6, <1>7, <1>8 DEF IInv

\* A step that changes nothing.
LEMMA StutterIInv ==
  ASSUME IInv, UNCHANGED vars
  PROVE  IInv'
<1> USE DEF IInv
<1>1. TypeOK'
  BY DEF TypeOK, OnNames, vars, setup, goclaw, cycleVars
<1>2. InstInv' /\ AgentInv'
  BY DEF InstInv, AgentInv, Fresh, vars, setup, goclaw, cycleVars
<1>3. \A n \in Names : PhaseInv(n)'
  BY DEF PhaseInv, Declared, vars, setup, cycleVars
<1>4. Undisturbed' <=> Undisturbed
  BY DEF Undisturbed, vars, setup
<1>5. \A n \in Names : (Served(n)' <=> Served(n))
  BY DEF Served, vars, setup, goclaw
<1>6. ProbeInv'
  BY <1>4, <1>5 DEF ProbeInv, Found, vars, setup
<1>7. ASSUME Undisturbed', NEW n \in Names
      PROVE  ServedInv(n)'
  <2>1. Keeps /\ Same(n) /\ inst' = inst /\ ServedInv(n) /\ cache[n] # Error
    BY <1>4, <1>7, KeepsSame DEF Same, vars, setup, goclaw, cycleVars, Undisturbed
  <2>2. QED
    BY <2>1, OthersServed
<1>8. QED
  BY <1>1, <1>2, <1>3, <1>6, <1>7

\* The invariant is inductive.
LEMMA NextIInv == IInv /\ [Next]_vars => IInv'
<1> SUFFICES ASSUME IInv, [Next]_vars
             PROVE  IInv'
  OBVIOUS
<1>1. ASSUME NEW n \in Names, ControllerStep(n)
      PROVE  IInv'
  BY <1>1, StartStep, ObserveStep, ExecuteStep, EndApplyStep, ListAgentsStep,
     ListTenantsStep, EndPruneStep, DeleteAgentStep, DeleteTenantStep, SetConditionStep
     DEF ControllerStep
<1>2. ASSUME NEW n \in Names, ObserveFails(n) \/ ResolveFails(n) \/ IsSynced(n)
      PROVE  IInv'
  BY <1>2, ObserveFailsStep, ResolveFailsStep, IsSyncedStep
<1>3. CASE Probe \/ Restart \/ NewTenantManager
  BY <1>3, ProbeStep, RestartStep, NewTenantManagerStep
<1>4. CASE \/ \E s \in Slugs : DropTenant(s)
           \/ \E a \in agents : DropAgent(a)
  BY <1>4, DropTenantStep, DropAgentStep
<1>5. CASE UNCHANGED vars
  BY <1>5, StutterIInv
<1>6. QED
  BY <1>1, <1>2, <1>3, <1>4, <1>5 DEF Next

-----------------------------------------------------------------------------
(* What a controller does to agents.                                         *)

\* A controller's step leaves the cycles of the others alone.
LEMMA OthersCycles ==
  ASSUME TypeOK, NEW m \in Names, ControllerStep(m), NEW n \in Names, n # m
  PROVE  pc'[n] = pc[n] /\ todo'[n] = todo[n] /\ plan'[n] = plan[n]
<1> USE DEF TypeOK, OnNames
<1>1. CASE Start(m)
  BY <1>1 DEF Start
<1>2. CASE Observe(m)
  <2>1. PICK k, action : Plan(m, k, action)
    BY <1>2 DEF Observe, ObserveTenant, ObserveAgent
  <2>2. QED
    BY <2>1 DEF Plan
<1>3. CASE Execute(m)
  <2>1. PICK c, err : Executed(m, c, err)
    BY <1>3 DEF Execute, CreateTenant, CreateAgent, UpdateAgent
  <2>2. QED
    BY <2>1 DEF Executed
<1>4. CASE EndApply(m) \/ ListAgents(m) \/ ListTenants(m) \/ EndPrune(m) \/ SetCondition(m)
  BY <1>4 DEF EndApply, ListAgents, ListTenants, EndPrune, SetCondition, Goto
<1>5. CASE \E k \in todo[m] : DeleteAgent(m, k) \/ DeleteTenant(m, k)
  BY <1>5 DEF DeleteAgent, DeleteTenant
<1>6. QED
  BY <1>1, <1>2, <1>3, <1>4, <1>5 DEF ControllerStep

\* The agents that n takes for its own are its tenant's, once it knows the UUID.
LEMMA OwnAreTenants ==
  ASSUME IInv, NEW n \in Names, NEW name, cache'[n] > 0,
         cache' = CacheAfter(n, Named(n, name), Resolved(n)),
         NEW a \in OwnAgents(n, name, Resolved(n))
  PROVE  a.slug = inst[n].slug
<1> USE DEF IInv
<1>1. Named(n, name) # {}
  BY DEF Named, OwnAgents
<1>2. inst[n].slug # ""
  <2>1. SUFFICES ASSUME inst[n].slug = ""
                 PROVE  FALSE
    OBVIOUS
  <2>2. cache' = cache /\ cache[n] = Unset
    BY <2>1 DEF CacheAfter, InstInv
  <2>3. QED
    BY <2>2
<1>3. Resolved(n) # Error
  <2>1. cache' = [cache EXCEPT ![n] = Resolved(n)] /\ cache \in [Names -> Unset..MaxGens]
    BY <1>1, <1>2 DEF CacheAfter, TypeOK
  <2>2. cache'[n] = Resolved(n)
    BY <2>1
  <2>3. QED
    BY <2>2
<1>4. QED
  BY <1>2, <1>3 DEF OwnAgents, MatchesTenant

\* The agents that a controller's step adds, changes or removes.
LEMMA OwnTenantsAgents ==
  ASSUME IInv, NEW n \in Slugs, ControllerStep(n), cache'[n] > 0,
         NEW a \in (agents \ agents') \cup (agents' \ agents)
  PROVE  a.slug = inst[n].slug
<1> USE DEF IInv
<1>1. n \in Names /\ n # SystemTenant
  BY TenantsAssumption DEF Names
<1>2. agents' # agents
  OBVIOUS
<1>3. CASE Execute(n)
  <2>1. PICK c \in plan[n] : CreateTenant(n, c) \/ CreateAgent(n, c) \/ UpdateAgent(n, c)
    BY <1>3 DEF Execute
  <2>2. CASE CreateTenant(n, c)
    BY <1>2, <2>2 DEF CreateTenant
  <2>3. CASE CreateAgent(n, c)
    <3>1. a = NewAgent(inst[n].slug, Resolved(n), c[1][2], SpecOf(n, c[1]))
      BY <2>3 DEF CreateAgent
    <3>2. QED
      BY <3>1 DEF NewAgent
  <2>4. CASE UpdateAgent(n, c)
    <3>1. PICK b \in OwnAgents(n, c[1][2], Resolved(n)) :
            agents' = (agents \ {b}) \cup {[b EXCEPT !.spec = SpecOf(n, c[1])]}
      BY <1>2, <2>4 DEF UpdateAgent
    <3>2. cache' = CacheAfter(n, Named(n, c[1][2]), Resolved(n))
      BY <2>4 DEF UpdateAgent
    <3>3. b.slug = inst[n].slug
      BY <1>1, <3>2, OwnAreTenants
    <3>4. a = b \/ a = [b EXCEPT !.spec = SpecOf(n, c[1])]
      BY <3>1
    <3>5. b = NewAgent(b.slug, b.gen, b.name, b.spec)
      BY DEF AgentInv, OwnAgents, Listed
    <3>6. [b EXCEPT !.spec = SpecOf(n, c[1])].slug = b.slug
      BY <3>5 DEF NewAgent
    <3>7. QED
      BY <3>3, <3>4, <3>6
  <2>5. QED
    BY <2>1, <2>2, <2>3, <2>4
<1>4. ASSUME NEW k \in todo[n], DeleteAgent(n, k)
      PROVE  a.slug = inst[n].slug
  <2>1. PICK b \in OwnAgents(n, k[2], Resolved(n)) : agents' = agents \ {b}
    BY <1>2, <1>4 DEF DeleteAgent
  <2>2. cache' = CacheAfter(n, Named(n, k[2]), Resolved(n))
    BY <1>4 DEF DeleteAgent
  <2>3. QED
    BY <1>1, <2>1, <2>2, OwnAreTenants
<1>5. ASSUME NEW k \in todo[n], DeleteTenant(n, k)
      PROVE  a.slug = inst[n].slug
  <2>1. k[2] = inst[n].slug
    BY <1>1, <1>5 DEF DeleteTenant, PhaseInv
  <2>2. QED
    BY <1>5, <2>1 DEF DeleteTenant, WithoutTenant
<1>6. ~(Start(n) \/ EndApply(n) \/ ListAgents(n) \/ ListTenants(n) \/ EndPrune(n) \/ SetCondition(n))
  BY <1>2 DEF Start, EndApply, ListAgents, ListTenants, EndPrune, SetCondition, goclaw
<1>7. ~Observe(n)
  BY <1>2 DEF Observe, ObserveTenant, ObserveAgent, Plan, goclaw
<1>8. QED
  BY <1>3, <1>4, <1>5, <1>6, <1>7 DEF ControllerStep

\* The same for every step that moves n's cycle.
LEMMA StaysInTenantStep ==
  ASSUME IInv, Next, NEW n \in Slugs, inst[n].found, cache'[n] > 0,
         <<pc[n], todo[n], plan[n]>>' # <<pc[n], todo[n], plan[n]>>,
         NEW a \in (agents \ agents') \cup (agents' \ agents)
  PROVE  a.slug = inst[n].slug
<1>1. n \in Names /\ agents' # agents
  BY DEF Names
<1>2. ASSUME NEW m \in Names, ControllerStep(m)
      PROVE  a.slug = inst[n].slug
  <2>1. m = n
    BY <1>1, <1>2, OthersCycles DEF IInv
  <2>2. QED
    BY <1>2, <2>1, OwnTenantsAgents
<1>3. ~(NewTenantManager \/ Probe \/ Restart)
  BY <1>1 DEF NewTenantManager, Probe, Restart, goclaw
<1>4. ASSUME NEW m \in Names
      PROVE  ~(ObserveFails(m) \/ ResolveFails(m) \/ IsSynced(m))
  BY <1>1 DEF ObserveFails, ResolveFails, IsSynced, ObserveAgent, Plan, goclaw
<1>5. ASSUME NEW s \in Slugs
      PROVE  ~DropTenant(s)
  BY DEF DropTenant, cycleVars
<1>6. ASSUME NEW b \in agents
      PROVE  ~DropAgent(b)
  BY DEF DropAgent, cycleVars
<1>7. QED
  BY <1>2, <1>3, <1>4, <1>5, <1>6 DEF Next

-----------------------------------------------------------------------------
(* The theorems.                                                             *)

(* The types, what each phase of a cycle has left to do, and what is served  *)
(* while nothing is disturbed, hold in every state.                          *)
THEOREM TenantsInvariant == Spec => []IInv
<1>1. Init => IInv
  BY InitIInv
<1>2. IInv /\ [Next]_vars => IInv'
  BY NextIInv
<1>3. QED
  BY <1>1, <1>2, PTL DEF Spec

(* Type correctness, for any tenants and any contents of their directories.  *)
THEOREM TypeCorrect == Spec => []TypeOK
<1>1. IInv => TypeOK
  BY DEF IInv
<1>2. QED
  BY <1>1, TenantsInvariant, PTL

(* For any contents of --tenants-dir, FileSource.Fetch returns what each     *)
(* directory means, and fails exactly on one that is not well formed.        *)
THEOREM LoaderReturnsMeaning == Spec => []FetchMatchesMeaning
<1>1. TypeOK => FetchMatchesMeaning
  BY FetchMatches
<1>2. QED
  BY <1>1, TypeCorrect, PTL

(* When /readyz has answered 200 and nothing was disturbed, every tenant is  *)
(* served.                                                                   *)
THEOREM ReadyTellsTheTruth == Spec => []ReadyMeansServed
<1>1. IInv => ReadyMeansServed
  BY DEF IInv, ProbeInv, Undisturbed, ReadyMeansServed, Found
<1>2. QED
  BY <1>1, TenantsInvariant, PTL

(* No step of a controller that knows its tenant's UUID touches an agent of  *)
(* another tenant.                                                           *)
THEOREM TenantsAreIsolated == Spec => ResolvedStaysInTenant
<1> DEFINE Stays ==
      \A n \in Slugs :
        /\ inst[n].found /\ cache'[n] > 0
        /\ <<pc[n], todo[n], plan[n]>>' # <<pc[n], todo[n], plan[n]>>
        => \A a \in (agents \ agents') \cup (agents' \ agents) : a.slug = inst[n].slug
<1>1. IInv /\ [Next]_vars => [Stays]_vars
  BY StaysInTenantStep
<1>2. ResolvedStaysInTenant <=> [][Stays]_vars
  BY DEF ResolvedStaysInTenant
<1>3. QED
  BY <1>1, <1>2, TenantsInvariant, PTL DEF Spec
=============================================================================
