------------------------------ MODULE Manifest ------------------------------
(***************************************************************************)
(* Loading a manifest (internal/manifest): reading the files of a          *)
(* directory, expanding composites, merging, the skills of the file        *)
(* system, and validation, as operators on the content of a directory.     *)
(*                                                                         *)
(* A resource is a record of kind, name, labels (key=value pairs), refs    *)
(* (the <<kind, name>> pairs its spec refers to), templates (of a          *)
(* CompositeDefinition) and spec, of which only this is told apart: "nil"  *)
(* (there is none), "bad" (the checks of its kind, or for a template the   *)
(* rendering, fail) or a value.                                            *)
(***************************************************************************)
EXTENDS ResourceKinds, SequencesExt

SystemTenant == "_system"

NoConnection == [endpoint |-> "", token |-> "", tenantId |-> ""]

Failed == [ok |-> FALSE, conn |-> NoConnection, items |-> <<>>]
Loaded(c, items) == [ok |-> TRUE, conn |-> c, items |-> items]

IsSeq(s) == s \in Seq(ToSet(s))

Key(r) == <<r.kind, r.name>>
KeysDistinct(items) == IsInjective([i \in DOMAIN items |-> Key(items[i])])

-----------------------------------------------------------------------------
(* composite.go.                                                             *)

Definition == "CompositeDefinition"

IsDefinition(r) == r.kind = Definition
IsOther(r) == r.kind # Definition

\* The registry: the last definition of a name is the one that counts.
Defined(items) == {r.name : r \in {items[i] : i \in {j \in DOMAIN items : IsDefinition(items[j])}}}

TemplatesOf(items, k) ==
  LET I == {i \in DOMAIN items : IsDefinition(items[i]) /\ items[i].name = k}
  IN items[CHOOSE i \in I : \A j \in I : j <= i].templates

\* renderTemplate, where the only variable is the instance's name.
Rendered(text, instance) == IF text = "{{.name}}" THEN instance.name ELSE text

ExpandResource(t, instance) ==
  [kind |-> t.kind, name |-> Rendered(t.name, instance), spec |-> t.spec,
   refs |-> {<<p[1], Rendered(p[2], instance)>> : p \in t.refs},
   labels |-> instance.labels, templates |-> <<>>]

\* A definition without a list of resources, or a template that does not render.
ExpandFails(items) ==
  \/ \E i \in DOMAIN items : IsDefinition(items[i]) /\ items[i].spec = "bad"
  \/ \E i \in DOMAIN items :
       /\ IsOther(items[i]) /\ items[i].kind \in Defined(items)
       /\ \E t \in ToSet(TemplatesOf(items, items[i].kind)) : t.spec = "bad"

\* expandInstances: what becomes of item i.  What a template yields is not
\* looked up in the registry again.
Expansion(items, i) ==
  IF items[i].kind \in Defined(items)
  THEN LET ts == TemplatesOf(items, items[i].kind)
       IN [j \in DOMAIN ts |-> ExpandResource(ts[j], items[i])]
  ELSE <<items[i]>>

\* Mutant: a definition stays in the list.
ExpandCompositesKeeps(items) ==
  FlattenSeq([i \in DOMAIN items |-> Expansion(items, i)])

ExpandComposites(items) ==
  FlattenSeq([i \in DOMAIN items |->
    IF IsDefinition(items[i]) THEN <<>> ELSE Expansion(items, i)])

-----------------------------------------------------------------------------
(* loader.go and skill_loader.go.  A file is readable when it is within the  *)
(* size limit and parses.                                                    *)

LoadFile(f) ==
  IF ~f.readable \/ ExpandFails(f.items) THEN Failed
  ELSE Loaded(f.conn, ExpandComposites(f.items))

\* loadSkillDir.
SkillResource(s, base) ==
  [kind |-> "Skill", name |-> s.slug,
   spec |-> IF s.overlay = "bad" THEN "bad"
            ELSE IF base = SystemTenant THEN "public" ELSE "internal",
   refs |-> {}, labels |-> {}, templates |-> <<>>]

OverrideResource(slug) ==
  [kind |-> "SkillConfig", name |-> slug, spec |-> "enabled", refs |-> {},
   labels |-> {}, templates |-> <<>>]

LoadSkillResources(d) ==
  [i \in DOMAIN d.skills |-> SkillResource(d.skills[i], d.base)]
    \o SetToSeq({OverrideResource(slug) : slug \in d.overrides})

\* "First file with connection info wins".
FirstConnection(files) ==
  LET I == {i \in DOMAIN files : files[i].conn.endpoint # ""}
  IN IF I = {} THEN NoConnection ELSE files[CHOOSE i \in I : \A j \in I : i <= j].conn

\* Every file is expanded on its own before the merge, so the expansion that
\* follows the merge finds no definition.
LoadDir(d) ==
  LET parts == [i \in DOMAIN d.files |-> LoadFile(d.files[i])]
      merged == FlattenSeq([i \in DOMAIN parts |-> parts[i].items])
                  \o LoadSkillResources(d)
  IN IF \/ \E i \in DOMAIN parts : ~parts[i].ok
        \/ \E i \in DOMAIN d.skills : ~d.skills[i].readable
        \/ ~KeysDistinct(merged)
        \/ ExpandFails(merged)
     THEN Failed
     ELSE Loaded(FirstConnection(d.files), ExpandComposites(merged))

-----------------------------------------------------------------------------
(* validate.go and validate_refs.go.                                         *)

\* "Bad_Name" stands for what only the pattern for system config keys allows.
ValidName(k, n) == n # "" /\ (n = "Bad_Name" => k = "SystemConfig")

\* Mutant: a reference may point to a resource of any kind.
UnresolvedByName(items, r) ==
  {p \in r.refs : r.kind \in ReferencesChecked
                  /\ \A i \in DOMAIN items : items[i].name # p[2]}

Unresolved(items, r) ==
  {p \in r.refs : r.kind \in ReferencesChecked
                  /\ \A i \in DOMAIN items : Key(items[i]) # p}

\* validateSkillSpec, and the checks of an AgentLink's name against its spec.
InvalidSpec(r) == r.kind \in {"Skill", "AgentLink"} /\ r.spec = "bad"

ErrorsOf(items, i) ==
  LET r == items[i]
  IN {e \in {"kind", "name", "duplicate", "spec", "invalid", "reference"} :
        \/ e = "kind" /\ r.kind \notin Kinds
        \/ e = "name" /\ ~ValidName(r.kind, r.name)
        \/ e = "duplicate" /\ \E j \in 1..(i - 1) : Key(items[j]) = Key(r)
        \/ e = "spec" /\ r.spec = "nil"
        \/ e = "invalid" /\ InvalidSpec(r)
        \/ e = "reference" /\ Unresolved(items, r) # {}}

Validate(items) == UNION {ErrorsOf(items, i) : i \in DOMAIN items}

(* FileSource.Fetch on a directory.                                          *)
Fetch(d) ==
  LET m == LoadDir(d)
  IN IF m.ok /\ Validate(m.items) = {} THEN m ELSE Failed

-----------------------------------------------------------------------------
\* What can be in a directory.  Skills are subdirectories, so their names
\* differ.  Limit of the model: no template is itself a CompositeDefinition,
\* which the expansion after the merge would take for one.
IsDirectory(d) ==
  /\ IsSeq(d.files) /\ IsSeq(d.skills) /\ IsFiniteSet(d.overrides)
  /\ \A f \in ToSet(d.files) :
       /\ IsSeq(f.items)
       /\ \A r \in ToSet(f.items) :
            IsSeq(r.templates) /\ \A t \in ToSet(r.templates) : IsOther(t)
  /\ \A i, j \in DOMAIN d.skills : d.skills[i].slug = d.skills[j].slug => i = j

(* What a directory means, stated without the loader's order of work.        *)

\* An item of a file stands for itself (0), or for the templates of its kind
\* (1, 2, ...); a definition stands for nothing.
StandsFor(items, j) ==
  IF IsDefinition(items[j]) THEN {}
  ELSE IF items[j].kind \in Defined(items) THEN DOMAIN TemplatesOf(items, items[j].kind)
  ELSE {0}

\* Where the resources of the files come from.
Origins(d) ==
  UNION {UNION {{<<i, j, k>> : k \in StandsFor(d.files[i].items, j)} :
                  j \in DOMAIN d.files[i].items} :
           i \in DOMAIN d.files}

FromOrigin(d, o) ==
  LET items == d.files[o[1]].items
      r == items[o[2]]
  IN IF o[3] = 0 THEN r ELSE ExpandResource(TemplatesOf(items, r.kind)[o[3]], r)

Meaning(d) ==
  {FromOrigin(d, o) : o \in Origins(d)} \cup ToSet(LoadSkillResources(d))

\* No file or skill is broken, no two resources have the same kind and name,
\* every resource is of a known kind, and the references that are checked lead
\* to a resource of the directory.
WellFormed(d) ==
  /\ \A i \in DOMAIN d.files : d.files[i].readable /\ ~ExpandFails(d.files[i].items)
  /\ \A i \in DOMAIN d.skills : d.skills[i].readable
  /\ \A o, p \in Origins(d) : Key(FromOrigin(d, o)) = Key(FromOrigin(d, p)) => o = p
  /\ \A o \in Origins(d), s \in ToSet(LoadSkillResources(d)) :
       Key(FromOrigin(d, o)) # Key(s)
  /\ \A r \in Meaning(d) :
       /\ r.kind \in Kinds /\ ValidName(r.kind, r.name)
       /\ r.spec # "nil" /\ ~InvalidSpec(r)
       /\ r.kind \in ReferencesChecked =>
            r.refs \subseteq {Key(x) : x \in Meaning(d)}
=============================================================================
