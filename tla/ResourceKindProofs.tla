-------------------------- MODULE ResourceKindProofs --------------------------
(***************************************************************************)
(* Facts about the tables of module ResourceKinds that the proofs about    *)
(* the engine rest on: the loops over kinds really come to a first and a   *)
(* last kind, and ApplyOrder puts every kind after the kinds it refers to. *)
(***************************************************************************)
EXTENDS ResourceKinds, TLAPS, WellFoundedInduction

(* Rank inverts ApplyOrder. *)
LEMMA RankOfKind ==
  \A k \in Kinds : Rank[k] \in 1..16 /\ ApplyOrder[Rank[k]] = k
<1> SUFFICES ASSUME NEW k \in Kinds
             PROVE  Rank[k] \in 1..16 /\ ApplyOrder[Rank[k]] = k
  OBVIOUS
<1>1. \E i \in 1..16 : ApplyOrder[i] = k
  BY Zenon DEF Kinds
<1>2. Rank[k] = CHOOSE i \in 1..16 : ApplyOrder[i] = k
  BY DEF Rank
<1>3. QED
  BY <1>1, <1>2

(* A nonempty set of naturals has a least element. *)
LEMMA LeastNatural ==
  ASSUME NEW T \in SUBSET Nat, T # {}
  PROVE  \E x \in T : \A y \in T : x <= y
<1>1. PICK x \in T : \A y \in T : ~(<<y, x>> \in OpToRel(<, Nat))
  BY WFMin, NatLessThanWellFounded, Zenon
<1>2. ASSUME NEW y \in T
      PROVE  x <= y
  <2>1. ~(y < x)
    BY <1>1 DEF OpToRel
  <2>2. QED
    BY <2>1
<1>3. QED
  BY <1>2

(* The apply loop's next kind is one that is left, and none left ranks lower. *)
LEMMA FirstKindRanksLowest ==
  ASSUME NEW S \in SUBSET Kinds, S # {}
  PROVE  FirstKind(S) \in S /\ \A j \in S : Rank[FirstKind(S)] <= Rank[j]
<1>1. {Rank[k] : k \in S} \in SUBSET Nat /\ {Rank[k] : k \in S} # {}
  BY RankOfKind
<1>2. PICK x \in {Rank[k] : k \in S} : \A y \in {Rank[k] : k \in S} : x <= y
  BY <1>1, LeastNatural
<1>3. \E k \in S : \A j \in S : Rank[k] <= Rank[j]
  BY <1>2
<1>4. QED
  BY <1>3 DEF FirstKind

(* The prune loop's next kind is one that is left, and none left ranks higher. *)
LEMMA LastKindRanksHighest ==
  ASSUME NEW S \in SUBSET Kinds, S # {}
  PROVE  LastKind(S) \in S /\ \A j \in S : Rank[LastKind(S)] >= Rank[j]
<1>1. {17 - Rank[k] : k \in S} \in SUBSET Nat /\ {17 - Rank[k] : k \in S} # {}
  BY RankOfKind
<1>2. PICK x \in {17 - Rank[k] : k \in S} : \A y \in {17 - Rank[k] : k \in S} : x <= y
  BY <1>1, LeastNatural
<1>3. PICK k \in S : x = 17 - Rank[k]
  BY <1>2
<1>4. ASSUME NEW j \in S
      PROVE  Rank[k] >= Rank[j]
  <2>1. 17 - Rank[k] <= 17 - Rank[j]
    BY <1>2, <1>3
  <2>2. QED
    BY <2>1, RankOfKind
<1>5. QED
  BY <1>4 DEF LastKind

(* The position of a kind in ApplyOrder is its rank: no kind is there twice. *)
LEMMA RankOfEntry ==
  ASSUME NEW i \in 1..16
  PROVE  ApplyOrder[i] \in Kinds /\ Rank[ApplyOrder[i]] = i
<1>1. ApplyOrder[i] \in Kinds
  BY DEF Kinds
<1>2. \A a, b \in 1..16 : ApplyOrder[a] = ApplyOrder[b] => a = b
  BY DEF ApplyOrder
<1>3. QED
  BY <1>1, <1>2, RankOfKind

(* ApplyOrder is a dependency order: every kind comes after the kinds that its
   specs refer to. *)
THEOREM ReferencesRankLower ==
  \A p \in References : p[1] \in Kinds /\ p[2] \in Kinds /\ Rank[p[2]] < Rank[p[1]]
<1> DEFINE R(k, i) == k \in Kinds /\ Rank[k] = i
<1>1. R("Provider", 2) /\ R("Agent", 3) /\ R("Skill", 4) /\ R("SkillConfig", 6)
  <2>1. /\ ApplyOrder[2] = "Provider" /\ ApplyOrder[3] = "Agent"
        /\ ApplyOrder[4] = "Skill" /\ ApplyOrder[6] = "SkillConfig"
    BY DEF ApplyOrder
  <2>2. QED
    BY <2>1, RankOfEntry
<1>2. R("MCPServer", 8) /\ R("MCPCredentials", 9) /\ R("Channel", 10) /\ R("CronJob", 11)
  <2>1. /\ ApplyOrder[8] = "MCPServer" /\ ApplyOrder[9] = "MCPCredentials"
        /\ ApplyOrder[10] = "Channel" /\ ApplyOrder[11] = "CronJob"
    BY DEF ApplyOrder
  <2>2. QED
    BY <2>1, RankOfEntry
<1>3. /\ R("SecureCLI", 12) /\ R("SecureCLIGrant", 13) /\ R("AgentTeam", 14)
      /\ R("AgentLink", 15) /\ R("Workstation", 16)
  <2>1. /\ ApplyOrder[12] = "SecureCLI" /\ ApplyOrder[13] = "SecureCLIGrant"
        /\ ApplyOrder[14] = "AgentTeam" /\ ApplyOrder[15] = "AgentLink"
        /\ ApplyOrder[16] = "Workstation"
    BY DEF ApplyOrder
  <2>2. QED
    BY <2>1, RankOfEntry
<1>4. QED
  BY <1>1, <1>2, <1>3 DEF References

(* The kinds that others refer to are looked up by nothing but a second
   request: their object is written whatever is missing. *)
LEMMA ReferredNeedNoLookup ==
  \A p \in References : Handler[p[2]].looksUp \subseteq {"side"}
<1>1. /\ ProviderHandler.looksUp = {} /\ SecureCLIHandler.looksUp = {}
      /\ AgentHandler.looksUp = {}
  BY Zenon DEF Plain, ProviderHandler, SecureCLIHandler, AgentHandler
<1>2. SkillHandler.looksUp = {"side"} /\ MCPServerHandler.looksUp = {"side"}
  BY Zenon DEF Plain, SkillHandler, MCPServerHandler
<1>3. QED
  BY <1>1, <1>2 DEF References, Handler

(* What observe invents can be created again. *)
LEMMA StubIsUpsert ==
  \A k \in Kinds : Handler[k].stub => Handler[k].upsert
<1>1. /\ ~TenantHandler.stub /\ ~ProviderHandler.stub /\ ~AgentHandler.stub
      /\ ~SkillHandler.stub /\ ~BuiltinToolConfigHandler.stub
      /\ ~SkillConfigHandler.stub /\ ~SystemConfigHandler.stub
      /\ ~MCPServerHandler.stub
  BY Zenon DEF Plain, TenantHandler, ProviderHandler, AgentHandler, SkillHandler,
     BuiltinToolConfigHandler, SkillConfigHandler, SystemConfigHandler,
     MCPServerHandler
<1>2. /\ ~ChannelHandler.stub /\ ~CronJobHandler.stub /\ ~SecureCLIHandler.stub
      /\ ~SecureCLIGrantHandler.stub /\ ~AgentTeamHandler.stub
      /\ ~AgentLinkHandler.stub /\ ~WorkstationHandler.stub
  BY Zenon DEF Plain, ChannelHandler, CronJobHandler, SecureCLIHandler,
     SecureCLIGrantHandler, AgentTeamHandler, AgentLinkHandler, WorkstationHandler
<1>3. MCPCredentialsHandler.upsert
  BY Zenon DEF Plain, MCPCredentialsHandler
<1>4. \A k \in Kinds :
        k \in {"Tenant", "Provider", "Agent", "Skill", "BuiltinToolConfig",
               "SkillConfig", "SystemConfig", "MCPServer", "MCPCredentials",
               "Channel", "CronJob", "SecureCLI", "SecureCLIGrant", "AgentTeam",
               "AgentLink", "Workstation"}
  BY DEF Kinds, ApplyOrder
<1>5. QED
  BY <1>1, <1>2, <1>3, <1>4 DEF Handler
=============================================================================
