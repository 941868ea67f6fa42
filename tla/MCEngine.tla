------------------------------ MODULE MCEngine ------------------------------
(***************************************************************************)
(* Small instances of the engine.  A scope is a resource and the ones it   *)
(* refers to; between them the scopes use every kind whose handler is not  *)
(* Plain or the like of one that is there.                                 *)
(***************************************************************************)
EXTENDS Engine

Res(k, n) == [kind |-> k, name |-> n]

agent1   == Res("Agent", "a1")
agent2   == Res("Agent", "a2")
link     == Res("AgentLink", "a1--a2")
llm      == Res("Provider", "p1")
server   == Res("MCPServer", "m1")
creds    == Res("MCPCredentials", "m1")
skill    == Res("Skill", "s1")
channel  == Res("Channel", "c1")
cron     == Res("CronJob", "j1")
cli      == Res("SecureCLI", "b1")
grant    == Res("SecureCLIGrant", "b1--a1")
station  == Res("Workstation", "w1")

(* What the spec of r refers to (validateReferences).                        *)
Reference(r) ==
  CASE r = link -> {agent1, agent2}
    [] r = grant -> {cli, agent1}
    [] r \in {server, skill, channel, cron, station} -> {agent1}
    [] r = creds -> {server}
    [] OTHER -> {}

RefersTo(S) == [r \in S |-> Reference(r) \cap S]

OneSpec(p, s) == [pub |-> p, side |-> s]

\* The manifests over the resources R that declare only resources of one of
\* the scopes, with the given specs.
ManifestsOver(R, scopes, specs) ==
  UNION {{[r \in R |-> IF r \in S THEN f[r] ELSE NoSpec] :
            f \in [S -> specs \cup {NoSpec}]} : S \in scopes}

Apply == [dryRun |-> FALSE, prune |-> FALSE, force |-> FALSE, label |-> FALSE]

ApplyPrune == [Apply EXCEPT !.prune = TRUE]
ApplyForce == [Apply EXCEPT !.force = TRUE]
ApplyLabel == [Apply EXCEPT !.label = TRUE]
PlanPrune  == [Apply EXCEPT !.dryRun = TRUE, !.prune = TRUE]
AllOptions == {Apply, ApplyPrune, ApplyForce, ApplyLabel, PlanPrune}
ServeOptions == {ApplyPrune}
LabelOptions == {Apply, [ApplyLabel EXCEPT !.prune = TRUE]}

SafetyScopes ==
  {{agent1, agent2, link}, {agent1, cli, grant}, {agent1, station},
   {agent1, skill}, {server, creds}}
SafetyResources == UNION SafetyScopes
SafetyNeeds == RefersTo(SafetyResources)
SafetyManifests ==
  ManifestsOver(SafetyResources, SafetyScopes, {OneSpec("v1", "list")})
SafetyIgnored == {agent2}
SafetyUntracked == {agent1}
SafetyLabelled == {agent1, link, creds}

LiveScopes == {{llm, server}, {agent1, cron}, {agent1, channel}}
LiveResources == UNION LiveScopes
LiveNeeds == RefersTo(LiveResources)
LiveManifests ==
  ManifestsOver(LiveResources, LiveScopes,
                {OneSpec("v1", "list"), OneSpec("v2", "list")})

SideScopes == {{agent1, server}, {agent1, skill}}
SideResources == UNION SideScopes
SideNeeds == RefersTo(SideResources)
SideManifests ==
  ManifestsOver(SideResources, SideScopes,
                {OneSpec("v1", "list"), OneSpec("v1", NoSide)})

LabelResources == {agent1, llm}
LabelScopes == {LabelResources}
LabelNeeds == RefersTo(LabelResources)
LabelManifests == ManifestsOver(LabelResources, LabelScopes, {OneSpec("v1", "list")})
JustAgent1 == {agent1}

PubValues == {"v1", "v2"}
SideValues == {NoSide, "list"}
OneSecret == {"s1"}
TwoSecrets == {"s1", "s2"}
None == {}
=============================================================================
