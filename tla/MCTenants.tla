----------------------------- MODULE MCTenants -----------------------------
(***************************************************************************)
(* Two tenants that use the same agent key, and contents of acme's         *)
(* directory that exercise every rule of the loader.                       *)
(***************************************************************************)
EXTENDS Tenants

MCSlugs == {"acme", "globex"}

Res(k, name, spec, refs, templates) ==
  [kind |-> k, name |-> name, spec |-> spec, refs |-> refs, labels |-> {},
   templates |-> templates]

Bot(spec) == Res("Agent", "bot", spec, {}, <<>>)

Conn(s) == [endpoint |-> "url", token |-> "key", tenantId |-> s]

File(c, items) == [readable |-> TRUE, conn |-> c, items |-> items]

Dir(base, files, skills) ==
  [base |-> base, files |-> files, skills |-> skills, overrides |-> {}]

EmptyDir(n) == Dir(n, <<>>, <<>>)

System ==
  Dir(SystemTenant,
      <<File(Conn(""), <<Res("Tenant", "acme", "v", {}, <<>>),
                         Res("Tenant", "globex", "v", {}, <<>>)>>)>>, <<>>)
Globex == Dir("globex", <<File(Conn("globex"), <<Bot("globex")>>)>>, <<>>)

With(acme) == [n \in Names |-> CASE n = SystemTenant -> System
                                 [] n = "globex" -> Globex
                                 [] OTHER -> acme]
Alone(acme) == [n \in Names |-> IF n = "acme" THEN acme ELSE EmptyDir(n)]

\* The files of acme's directory.
Squad == Res("CompositeDefinition", "Squad", "v", {},
             <<Res("Agent", "{{.name}}", "squad", {}, <<>>),
               Res("CronJob", "{{.name}}", "squad", {<<"Agent", "{{.name}}">>}, <<>>)>>)
Unlisted == Res("CompositeDefinition", "Squad", "bad", {}, <<>>)
Broken == Res("CompositeDefinition", "Squad", "v", {},
              <<Res("Agent", "{{.name}}", "bad", {}, <<>>)>>)
Instance(name) == Res("Squad", name, "v", {}, <<>>)
Second == Res("CompositeDefinition", "Squad", "v", {},
              <<Res("Squad", "{{.name}}", "squad", {}, <<>>)>>)

ItemLists ==
  {<<>>, <<Bot("acme")>>, <<Bot("acme"), Bot("acme")>>,
   <<Squad, Instance("bot")>>, <<Instance("bot"), Squad>>, <<Squad>>, <<Instance("bot")>>,
   <<Unlisted>>, <<Broken, Instance("bot")>>, <<Broken>>,
   <<Second, Squad, Instance("bot")>>, <<Squad, Second, Instance("bot")>>,
   <<Squad, Instance("bot"), Instance("bot")>>,
   <<Res("CronJob", "daily", "v", {<<"Agent", "bot">>}, <<>>)>>,
   <<Res("CronJob", "bot", "v", {<<"Agent", "bot">>}, <<>>)>>,
   <<Res("Provider", "p", "v", {<<"Agent", "nobody">>}, <<>>)>>,
   <<Res("Agent", "Bad_Name", "v", {}, <<>>)>>,
   <<Res("SystemConfig", "Bad_Name", "v", {}, <<>>)>>,
   <<Res("Agent", "bot", "nil", {}, <<>>)>>,
   <<Res("AgentLink", "a--b", "bad", {}, <<>>)>>,
   <<Res("Skill", "sum", "v", {}, <<>>)>>}

SkillLists ==
  {<<>>, <<[slug |-> "sum", readable |-> TRUE, overlay |-> "v"]>>,
   <<[slug |-> "sum", readable |-> TRUE, overlay |-> "bad"]>>,
   <<[slug |-> "sum", readable |-> FALSE, overlay |-> "v"]>>}

Connections ==
  {Conn("acme"), Conn("Bad_ID"), Conn("${UNSET}"), NoConnection,
   [Conn("acme") EXCEPT !.token = ""], [Conn("acme") EXCEPT !.token = "${UNSET}"],
   [Conn("acme") EXCEPT !.endpoint = "${UNSET}"]}

Unreadable == [File(Conn("acme"), <<Bot("acme")>>) EXCEPT !.readable = FALSE]

\* One file, or two of which the second may have the connection.
AcmeDirs ==
  {Dir("acme", <<File(Conn("acme"), a), File(NoConnection, b)>>, s) :
     a \in ItemLists, b \in ItemLists, s \in SkillLists}
  \cup {Dir("acme", <<File(c, <<>>), File(Conn("acme"), <<Bot("acme")>>)>>, <<>>) : c \in Connections}
  \cup {Dir("acme", <<File(c, <<Bot("acme")>>)>>, <<>>) : c \in Connections}
  \cup {Dir("acme", <<Unreadable>>, <<>>),
        [Dir("acme", <<File(Conn("acme"), <<Bot("acme")>>)>>, <<>>) EXCEPT !.overrides = {"sum"}]}

Good == Dir("acme", <<File(Conn("acme"), <<Bot("acme")>>)>>, <<>>)

\* Everything is in order, acme is skipped, and serve gives up.
MCFollowed ==
  {With(Good), With(Dir("acme", <<File(Conn("Bad_ID"), <<Bot("acme")>>)>>, <<>>)),
   Alone(Dir("acme", <<Unreadable>>, <<>>))}

MCLayouts == {With(d) : d \in AcmeDirs} \cup MCFollowed

BootstrapLayouts == {With(Good)}
=============================================================================
