---------------------------- MODULE ResourceKinds ----------------------------
(***************************************************************************)
(* What the code knows of each kind of resource: the dependency order and  *)
(* the field tables of internal/manifest, the kinds the prune skips, and,  *)
(* per kind, what the GoClaw provider's observe, create, update and delete *)
(* handlers do beyond the request for the object itself.                   *)
(***************************************************************************)
EXTENDS Naturals, Sequences

-----------------------------------------------------------------------------
(* internal/manifest.                                                        *)

(* Mutant: alphabetical order.                                               *)
AlphabeticalOrder ==
  <<"AgentLink", "AgentTeam", "Agent", "BuiltinToolConfig", "Channel", "CronJob",
    "MCPCredentials", "MCPServer", "Provider", "SecureCLI", "SecureCLIGrant",
    "Skill", "SkillConfig", "SystemConfig", "Tenant", "Workstation">>

(* ApplyOrder; DeleteOrder is the reverse.                                   *)
ApplyOrder ==
  <<"Tenant", "Provider", "Agent", "Skill", "BuiltinToolConfig", "SkillConfig",
    "SystemConfig", "MCPServer", "MCPCredentials", "Channel", "CronJob",
    "SecureCLI", "SecureCLIGrant", "AgentTeam", "AgentLink", "Workstation">>

Kinds == {ApplyOrder[i] : i \in 1..16}

Rank == [k \in Kinds |-> CHOOSE i \in 1..16 : ApplyOrder[i] = k]

(* The kind of S that the apply loop, or the prune loop, comes to first.     *)
FirstKind(S) == CHOOSE k \in S : \A j \in S : Rank[k] <= Rank[j]
\* Mutant: the prune loop runs in apply order.
LastKindInApplyOrder(S) == FirstKind(S)
LastKind(S)  == CHOOSE k \in S : \A j \in S : Rank[k] >= Rank[j]

(* validateReferences looks at the references of these kinds only.           *)
ReferencesChecked == {"Agent", "Channel", "CronJob", "MCPServer",
                      "SecureCLIGrant", "AgentTeam", "AgentLink"}

(* <<k, j>>: a spec of kind k may name a resource of kind j, either checked  *)
(* by validateReferences or only looked up by k's handler.                   *)
References ==
  {<<"Agent", "Provider">>, <<"Channel", "Agent">>, <<"CronJob", "Agent">>,
   <<"MCPServer", "Agent">>, <<"SecureCLIGrant", "Agent">>,
   <<"SecureCLIGrant", "SecureCLI">>, <<"AgentTeam", "Agent">>,
   <<"AgentLink", "Agent">>, <<"Skill", "Agent">>, <<"Workstation", "Agent">>,
   <<"MCPCredentials", "MCPServer">>, <<"SkillConfig", "Skill">>}

(* writeOnlyFields: these kinds have none.                                   *)
NoWriteOnlyFields == {"Tenant", "BuiltinToolConfig", "SkillConfig",
                      "SystemConfig"}

(* writeOnlyFields that are applied by a second request: contextFiles,       *)
(* grants, allowlist.  They are left out of the comparison.                  *)
WriteOnlySide == {"Agent", "MCPServer", "Workstation"}

(* SupportsWriteOnlyHash: GoClaw stores and returns the hash.                *)
SupportsWriteOnlyHash == {"CronJob", "Provider", "Agent"}

(* Kinds detectAndExecutePrunes skips.                                       *)
NotPruned == {"Skill", "BuiltinToolConfig", "SkillConfig", "SystemConfig",
              "MCPCredentials", "SecureCLIGrant"}

(* Kinds destroy skips, and kinds ListAll returns nothing of.                *)
NotDestroyed == {"Skill", "BuiltinToolConfig", "SkillConfig", "SystemConfig",
                 "MCPCredentials"}
NotListed == {"BuiltinToolConfig", "SkillConfig", "SystemConfig",
              "MCPCredentials", "SecureCLIGrant"}

-----------------------------------------------------------------------------
(* internal/provider/goclaw.  A handler is described by                      *)
(*   stub      observe invents the object whenever its server is there       *)
(*   upsert    create and update are the same idempotent request             *)
(*   looksUp   the operations that look up the objects the spec names and    *)
(*             fail when one is missing; "side" is the second request        *)
(*   side      the second request: there is "none", its failure is           *)
(*             "reported", or it is logged and "swallowed"                   *)
(*   listsSide observe reads back what the second request set                *)
(*   clears    the operations that apply an empty list                       *)
(*   sideFirst the list is applied before the names are looked up            *)

Plain == [stub |-> FALSE, upsert |-> FALSE, looksUp |-> {}, side |-> "none",
          listsSide |-> FALSE, clears |-> {}, sideFirst |-> FALSE]

TenantHandler    == Plain
ProviderHandler  == Plain
SecureCLIHandler == Plain

\* Lead and members are names that GoClaw itself resolves.
AgentTeamHandler == Plain

\* Context files; an empty list is never sent.
AgentHandler == [Plain EXCEPT !.side = "swallowed"]

\* Grants.  An update with a sourceDir uploads the skill again, like a create.
SkillHandler ==
  [Plain EXCEPT !.upsert = TRUE, !.looksUp = {"side"}, !.side = "reported",
                !.listsSide = TRUE]

\* Grants.
MCPServerHandler ==
  [Plain EXCEPT !.looksUp = {"side"}, !.side = "reported", !.listsSide = TRUE,
                !.clears = {"update"}]

\* The allowlist is reconciled before the agents are looked up to be linked.
WorkstationHandler ==
  [Plain EXCEPT !.looksUp = {"side"}, !.side = "reported",
                !.clears = {"update"}, !.sideFirst = TRUE]

BuiltinToolConfigHandler == [Plain EXCEPT !.upsert = TRUE]
SystemConfigHandler      == [Plain EXCEPT !.upsert = TRUE]

\* The skill is looked up by its slug.
SkillConfigHandler ==
  [Plain EXCEPT !.upsert = TRUE, !.looksUp = {"create", "update"}]

\* GoClaw has no request that reads credentials.
MCPCredentialsHandler ==
  [Plain EXCEPT !.stub = TRUE, !.upsert = TRUE, !.looksUp = {"create", "update"}]

\* agentKey becomes agent_id.
ChannelHandler == [Plain EXCEPT !.looksUp = {"create", "update"}]
CronJobHandler == [Plain EXCEPT !.looksUp = {"create", "update"}]

\* The name is made of the binary's and the agent's.
SecureCLIGrantHandler ==
  [Plain EXCEPT !.looksUp = {"observe", "create", "update"}]

\* The name is made of the two agents'; create leaves them to GoClaw.
AgentLinkHandler == [Plain EXCEPT !.looksUp = {"observe", "update"}]

(* The switches of Provider.Observe, Create and Update.                      *)
Handler ==
  [Tenant |-> TenantHandler, Provider |-> ProviderHandler,
   Agent |-> AgentHandler, Skill |-> SkillHandler,
   BuiltinToolConfig |-> BuiltinToolConfigHandler,
   SkillConfig |-> SkillConfigHandler, SystemConfig |-> SystemConfigHandler,
   MCPServer |-> MCPServerHandler, MCPCredentials |-> MCPCredentialsHandler,
   Channel |-> ChannelHandler, CronJob |-> CronJobHandler,
   SecureCLI |-> SecureCLIHandler, SecureCLIGrant |-> SecureCLIGrantHandler,
   AgentTeam |-> AgentTeamHandler, AgentLink |-> AgentLinkHandler,
   Workstation |-> WorkstationHandler]

(* Whether stepCompare sees what the second request set.                     *)
SideCompared(k) == Handler[k].listsSide /\ k \notin WriteOnlySide
=============================================================================
