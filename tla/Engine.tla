------------------------------- MODULE Engine -------------------------------
(***************************************************************************)
(* The Observe -> Compare -> Act engine of internal/reconciler against the *)
(* GoClaw provider of internal/provider/goclaw.                            *)
(*                                                                         *)
(* Reconcile walks the kinds of the manifest in dependency order.  For     *)
(* each kind it observes every resource in parallel and plans a change,    *)
(* waits for all of them, executes the changes in parallel and waits       *)
(* again.  Then, with Prune, it walks the kinds backwards, lists what      *)
(* GoClaw has and deletes the gcplane-owned objects the manifest lacks.    *)
(*                                                                         *)
(* A spec is abstracted to three parts: pub, what GoClaw returns when it   *)
(* is listed; side, what a second API call applies after the main one      *)
(* (grants, context files, allowlist and links); and a write-only value    *)
(* that refers to a secret file.  Other users of GoClaw, the secret file,  *)
(* the manifest's authors and failing API calls are the environment.       *)
(***************************************************************************)
EXTENDS ResourceKinds

CONSTANTS
  Resources,    \* the resources of this instance: records with kind and name
  Needs,        \* Needs[r]: the resources r's spec refers to
  Ignored,      \* resources annotated gcplane.io/sync-policy: Ignore
  Untracked,    \* resources annotated gcplane.io/ignore-write-only: "true"
  Labelled,     \* resources with the label that apply --label selects by
  Pubs, Sides,  \* values of pub and side; NoSide is the empty list
  Secrets,      \* values of the secret file
  Manifests,    \* manifests the authors may push
  Scopes,       \* bound: the sets of resources that occur together
  Options,      \* ReconcileOpts the callers use
  MaxEvents,    \* bound on the environment's steps
  RotateInCycle \* TRUE if the secret file may change while a cycle runs

NoSide == "empty"

H(r) == Handler[r.kind]

NoSpec == [pub |-> "none", side |-> NoSide]
Specs == [pub : Pubs, side : Sides]

ASSUME EngineAssumption ==
  /\ \A r \in Resources : r.kind \in Kinds
  /\ Needs \in [Resources -> SUBSET Resources]
  /\ \A r \in Resources : \A d \in Needs[r] : <<r.kind, d.kind>> \in References
  /\ Ignored \subseteq Resources
  /\ Untracked \subseteq Resources
  /\ Labelled \subseteq Resources
  /\ Scopes \subseteq SUBSET Resources
  /\ Pubs # {} /\ "none" \notin Pubs
  /\ NoSide \in Sides
  /\ Manifests \subseteq [Resources -> Specs \cup {NoSpec}]
  /\ Options \subseteq [dryRun : BOOLEAN, prune : BOOLEAN, force : BOOLEAN, label : BOOLEAN]
  /\ MaxEvents \in Nat
  /\ RotateInCycle \in BOOLEAN

-----------------------------------------------------------------------------
VARIABLES
  manifest,   \* manifest[r]: the spec of r, or NoSpec
  secret,     \* content of the secret file, "unset" when it cannot be read
  remote,     \* remote[r]: GoClaw's object of r's kind and name, or NoObject
  opts,       \* options of the running cycle
  phase,      \* where Reconcile is
  todo,       \* kinds the loop of this phase has not finished
  plan,       \* plan[r]: the change of r in this cycle and how far it is
  listed,     \* orphans of the current kind still to delete
  failed,     \* resources with an entry in plan.Errors or result.Errors
  events,     \* environment steps so far
  disturbed   \* history: what the environment did since the cycle started

cycleVars == <<opts, phase, todo, plan, listed, failed>>
vars == <<manifest, secret, remote, cycleVars, events, disturbed>>

\* What a write-only field can hold: a secret, the literal reference that is
\* sent when it cannot be resolved, or what another user put there.
Contents == Secrets \cup {"reference", "theirs"}

\* HashWriteOnlyFields: injective, <<>> is the empty string.
NoHash == <<>>
Hashes == {NoHash} \cup (Contents \X Sides)

NoObject == [owner |-> "none", pub |-> "none", wo |-> "theirs",
             side |-> NoSide, hash |-> NoHash]
Objects == [owner : {"gcplane", "user"}, pub : Pubs, wo : Contents,
            side : Sides, hash : Hashes]

\* A change that is only recorded: nothing is left to be done for it.
Recorded(a) == [action |-> a, hash |-> NoHash, step |-> "done"]
NoChange == Recorded("none")
Changes == [action : {"none", "create", "update", "noop", "delete"},
            hash : Hashes, step : {"main", "side", "done"}]

TypeOK ==
  /\ manifest \in [Resources -> Specs \cup {NoSpec}]
  /\ secret \in Secrets \cup {"unset"}
  /\ remote \in [Resources -> Objects \cup {NoObject}]
  /\ opts \in [dryRun : BOOLEAN, prune : BOOLEAN, force : BOOLEAN, label : BOOLEAN]
  /\ phase \in {"idle", "observe", "execute", "list", "delete", "survey", "destroy"}
  /\ todo \subseteq Kinds
  /\ plan \in [Resources -> Changes]
  /\ listed \subseteq Resources
  /\ failed \subseteq Resources
  /\ events \in 0..MaxEvents
  /\ disturbed \subseteq {"edit", "rotate", "meddle", "fault", "destroy"}

-----------------------------------------------------------------------------
(* Reading the state.                                                        *)

Exists(r) == remote[r].owner # "none"
Declared == {r \in Resources : manifest[r] # NoSpec}

\* FilterByLabels: what plan and apply leave of the manifest before they
\* reconcile it.
Selected == IF opts.label THEN Declared \cap Labelled ELSE Declared

\* Mutant: the createdBy check is missing.
OrphanOfAnyOwner(r) == Exists(r) /\ r \notin Selected

\* An object detectAndExecutePrunes takes for an orphan.
Orphan(r) == remote[r].owner = "gcplane" /\ r \notin Selected

\* Operation op of r's handler finds the objects that the spec names.
Finds(r, op) == op \in H(r).looksUp => \A d \in Needs[r] : Exists(d)

(* resolveValue: a reference that cannot be resolved is passed on literally. *)
Resolved == IF secret = "unset" THEN "reference" ELSE secret

(* The write-only hash of r's spec, as stepCompare computes it.              *)
DesiredHash(r) ==
  IF r \in Untracked \/ r.kind \in NoWriteOnlyFields THEN NoHash
  ELSE <<Resolved,
         IF r.kind \in WriteOnlySide THEN manifest[r].side ELSE NoSide>>

(* validateReferences, run by every source before a manifest is returned.    *)
ValidManifest(m) ==
  \A r \in Resources :
    m[r] # NoSpec /\ r.kind \in ReferencesChecked => \A d \in Needs[r] : m[d] # NoSpec

\* The resources that are declared by m or exist are all in one scope.
InScope(m, rem) ==
  \E S \in Scopes : \A r \in Resources \ S : m[r] = NoSpec /\ rem[r] = NoObject

-----------------------------------------------------------------------------
(* Provider.Observe.  There is no request that reads MCP credentials: what   *)
(* is observed is a stub, and it is there whenever the server is.            *)

Stub == [NoObject EXCEPT !.owner = "user"]

Observed(r) ==
  IF ~H(r).stub THEN remote[r]
  ELSE IF \E s \in Resources : s.kind = "MCPServer" /\ s.name = r.name /\ Exists(s)
       THEN Stub ELSE NoObject

(* stepCompare.                                                              *)

\* Mutant: an absent hash counts as a different one for every kind.
HashDriftEmptyDiffers(r) ==
  DesiredHash(r) # NoHash /\ DesiredHash(r) # Observed(r).hash

\* Mutant: only two present hashes are compared.
HashDriftBothPresent(r) ==
  /\ DesiredHash(r) # NoHash
  /\ Observed(r).hash # NoHash
  /\ DesiredHash(r) # Observed(r).hash

HashDrift(r) ==
  LET desired == DesiredHash(r)
      observed == Observed(r).hash
  IN /\ desired # NoHash
     /\ desired # observed
     /\ observed # NoHash \/ r.kind \in SupportsWriteOnlyHash

\* Mutant: a hash that is equal is taken to mean that the spec is.
DiffersByHash(r) ==
  IF Observed(r).hash # NoHash THEN HashDrift(r)
  ELSE Observed(r).pub # manifest[r].pub \/ HashDrift(r)

Differs(r) ==
  \/ Observed(r).pub # manifest[r].pub
  \/ SideCompared(r.kind) /\ Observed(r).side # manifest[r].side
  \/ HashDrift(r)

\* Mutant: an ignored resource gets an action that no caller knows.
ActionSkip(r) ==
  IF r \in Ignored THEN "skip"
  ELSE IF Observed(r) = NoObject THEN "create"
  ELSE IF Differs(r) \/ opts.force THEN "update" ELSE "noop"

Action(r) ==
  IF r \in Ignored THEN "noop"
  ELSE IF Observed(r) = NoObject THEN "create"
  ELSE IF Differs(r) \/ opts.force THEN "update" ELSE "noop"

Change(r, action) ==
  [action |-> action,
   hash |-> IF r \in Ignored THEN NoHash ELSE DesiredHash(r),
   step |-> IF action = "noop" THEN "done" ELSE "main"]

Compare(r) == Change(r, Action(r))

-----------------------------------------------------------------------------
(* Provider.Create and Provider.Update.                                      *)

\* GoClaw refuses a second object of the same name.
CanWrite(r) ==
  /\ Finds(r, plan[r].action)
  /\ H(r).upsert \/ (plan[r].action = "create" <=> ~Exists(r))

\* The object after the main request.  The secret is resolved again here; the
\* hash is the one computed when the resource was compared.
Written(r) ==
  [owner |-> IF Exists(r) THEN remote[r].owner ELSE "gcplane",
   pub |-> manifest[r].pub,
   wo |-> IF r.kind \in NoWriteOnlyFields THEN remote[r].wo ELSE Resolved,
   side |-> remote[r].side,
   hash |-> IF r.kind \in SupportsWriteOnlyHash /\ plan[r].hash # NoHash
            THEN plan[r].hash ELSE remote[r].hash]

\* An empty list is applied only by the updates that compare with what is
\* there; a skill's update uploads it again, like its create.
SideSkipped(r) ==
  /\ manifest[r].side = NoSide
  /\ plan[r].action \notin H(r).clears

CanWriteSide(r) == Exists(r) /\ Finds(r, "side")

WithSide(r) == [remote EXCEPT ![r].side = manifest[r].side]

-----------------------------------------------------------------------------
(* Reconcile.  The source's snapshot of the manifest does not change during  *)
(* a cycle.                                                                  *)

InitialObjects ==
  {NoObject} \cup
  {[owner |-> o, pub |-> p, wo |-> "theirs", side |-> NoSide, hash |-> NoHash] :
     o \in {"gcplane", "user"}, p \in Pubs}

Init ==
  /\ manifest \in {m \in Manifests : ValidManifest(m)}
  /\ secret \in Secrets
  /\ \E S \in Scopes : \E f \in [S -> InitialObjects] :
       remote = [r \in Resources |-> IF r \in S THEN f[r] ELSE NoObject]
  /\ InScope(manifest, remote)
  /\ opts = [dryRun |-> TRUE, prune |-> FALSE, force |-> FALSE, label |-> FALSE]
  /\ phase = "idle"
  /\ todo = {}
  /\ plan = [r \in Resources |-> NoChange]
  /\ listed = {}
  /\ failed = {}
  /\ events = 0
  /\ disturbed = {"edit"}

Start ==
  /\ phase = "idle"
  /\ opts' \in Options
  /\ UNCHANGED <<manifest, secret, remote, listed, events>>
  /\ phase' = "observe"
  /\ todo' = {r.kind : r \in Selected'}
  /\ plan' = [r \in Resources |-> NoChange]
  /\ failed' = {}
  /\ disturbed' = {}

\* The resource is of the kind the loop is at and waits for this step.
ToObserve(r) ==
  /\ phase = "observe"
  /\ r \in Selected
  /\ r.kind \in todo
  /\ r.kind = FirstKind(todo)
  /\ plan[r].action = "none"

\* reconcileOne: resolve, observe, compare.
Observe(r) ==
  /\ ToObserve(r)
  /\ Finds(r, "observe")
  /\ plan' = [plan EXCEPT ![r] = Compare(r)]
  /\ UNCHANGED <<manifest, secret, remote, opts, phase, todo, listed, failed,
                 events, disturbed>>

\* stepObserve's error path: the resource is left alone and reported.
ObserveError(r) ==
  /\ plan' = [plan EXCEPT ![r] = Recorded("noop")]
  /\ failed' = failed \cup {r}
  /\ UNCHANGED <<manifest, secret, remote, opts, phase, todo, listed>>

ObserveUnresolved(r) ==
  /\ ToObserve(r)
  /\ ~Finds(r, "observe")
  /\ ObserveError(r)
  /\ UNCHANGED <<events, disturbed>>

\* reconcileKind has returned; a dry run goes on to the next kind.
EndObserve ==
  /\ phase = "observe"
  /\ todo # {}
  /\ \A r \in Selected : r.kind = FirstKind(todo) => plan[r].action # "none"
  /\ IF opts.dryRun
     THEN phase' = phase /\ todo' = todo \ {FirstKind(todo)}
     ELSE phase' = "execute" /\ todo' = todo
  /\ UNCHANGED <<manifest, secret, remote, opts, plan, listed, failed, events,
                 disturbed>>

ToWrite(r, step) ==
  /\ phase = "execute"
  /\ r.kind \in todo
  /\ r.kind = FirstKind(todo)
  /\ plan[r].action \in {"create", "update"}
  /\ plan[r].step = step

\* Mutant: an error is logged and not reported.
FinishLogsOnly(r, err) ==
  /\ plan' = [plan EXCEPT ![r].step = "done"]
  /\ UNCHANGED <<failed, manifest, secret, opts, phase, todo, listed>>

\* The resource's goroutine ends, with an error or without.
Finish(r, err) ==
  /\ plan' = [plan EXCEPT ![r].step = "done"]
  /\ failed' = IF err THEN failed \cup {r} ELSE failed
  /\ UNCHANGED <<manifest, secret, opts, phase, todo, listed>>

Write(r) ==
  /\ ToWrite(r, "main")
  /\ CanWrite(r)
  /\ remote' = [remote EXCEPT ![r] = Written(r)]
  /\ IF H(r).side # "none"
     THEN /\ plan' = [plan EXCEPT ![r].step = "side"]
          /\ UNCHANGED <<manifest, secret, opts, phase, todo, listed, failed>>
     ELSE Finish(r, FALSE)
  /\ UNCHANGED <<events, disturbed>>

WriteRefused(r) ==
  /\ ToWrite(r, "main")
  /\ ~CanWrite(r)
  /\ Finish(r, TRUE)
  /\ UNCHANGED <<remote, events, disturbed>>

WriteSide(r) ==
  /\ ToWrite(r, "side")
  /\ SideSkipped(r) \/ CanWriteSide(r)
  /\ remote' = IF SideSkipped(r) THEN remote ELSE WithSide(r)
  /\ Finish(r, FALSE)
  /\ UNCHANGED <<events, disturbed>>

WriteSideRefused(r) ==
  /\ ToWrite(r, "side")
  /\ ~SideSkipped(r) /\ ~CanWriteSide(r)
  /\ remote' = IF Exists(r) /\ H(r).sideFirst THEN WithSide(r) ELSE remote
  /\ Finish(r, H(r).side = "reported")
  /\ UNCHANGED <<events, disturbed>>

\* executeChanges has returned: on to the next kind.
EndExecute ==
  /\ phase = "execute"
  /\ \A r \in Selected : r.kind = FirstKind(todo) => plan[r].step = "done"
  /\ phase' = "observe"
  /\ todo' = todo \ {FirstKind(todo)}
  /\ UNCHANGED <<manifest, secret, remote, opts, plan, listed, failed, events,
                 disturbed>>

EndApply ==
  /\ phase = "observe"
  /\ todo = {}
  /\ IF opts.prune
     THEN phase' = "list" /\ todo' = {r.kind : r \in Resources} \ NotPruned
     ELSE phase' = "idle" /\ todo' = todo
  /\ UNCHANGED <<manifest, secret, remote, opts, plan, listed, failed, events,
                 disturbed>>

-----------------------------------------------------------------------------
(* detectAndExecutePrunes.                                                   *)

Orphans(k) == {r \in Resources : r.kind = k /\ Orphan(r)}

List ==
  /\ phase = "list"
  /\ todo # {}
  /\ listed' = Orphans(LastKind(todo))
  /\ IF listed' = {}
     THEN phase' = phase /\ todo' = todo \ {LastKind(todo)}
     ELSE phase' = "delete" /\ todo' = todo
  /\ UNCHANGED <<manifest, secret, remote, opts, plan, failed, events, disturbed>>

\* Record the change and take the resource off the list.
Pruned(r) ==
  /\ phase = "delete"
  /\ r \in listed
  /\ plan' = [plan EXCEPT ![r] = Recorded("delete")]
  /\ listed' = listed \ {r}
  /\ UNCHANGED <<manifest, secret, opts, phase, todo>>

\* Provider.Delete looks the name up again and deletes what it finds.
Delete(r) ==
  /\ Pruned(r)
  /\ remote' = IF opts.dryRun THEN remote ELSE [remote EXCEPT ![r] = NoObject]
  /\ UNCHANGED <<failed, events, disturbed>>

EndDelete ==
  /\ phase = "delete"
  /\ listed = {}
  /\ phase' = "list"
  /\ todo' = todo \ {LastKind(todo)}
  /\ UNCHANGED <<manifest, secret, remote, opts, plan, listed, failed, events,
                 disturbed>>

EndPrune ==
  /\ phase = "list"
  /\ todo = {}
  /\ phase' = "idle"
  /\ UNCHANGED <<manifest, secret, remote, opts, todo, plan, listed, failed,
                 events, disturbed>>

-----------------------------------------------------------------------------
(* gcplane destroy: everything is listed before anything is deleted, and     *)
(* nothing is asked of the manifest.                                         *)

StartDestroy ==
  /\ phase = "idle"
  /\ phase' = "survey"
  /\ todo' = {r.kind : r \in Resources} \ NotDestroyed
  /\ opts' \in {[o EXCEPT !.prune = FALSE, !.force = FALSE, !.label = FALSE] : o \in Options}
  /\ plan' = [r \in Resources |-> NoChange]
  /\ failed' = {}
  /\ events < MaxEvents /\ events' = events + 1
  /\ disturbed' = {"destroy"}
  /\ UNCHANGED <<manifest, secret, remote, listed>>

\* Mutant: the list is replaced for each kind.
SurveyReplaces ==
  /\ phase = "survey"
  /\ todo # {}
  /\ listed' = {r \in Resources : /\ r.kind = LastKind(todo)
                                  /\ r.kind \notin NotListed
                                  /\ remote[r].owner = "gcplane"}
  /\ todo' = todo \ {LastKind(todo)}
  /\ UNCHANGED <<manifest, secret, remote, opts, phase, plan, failed, events, disturbed>>

Survey ==
  /\ phase = "survey"
  /\ todo # {}
  /\ listed' = listed \cup {r \in Resources : /\ r.kind = LastKind(todo)
                                           /\ r.kind \notin NotListed
                                           /\ remote[r].owner = "gcplane"}
  /\ todo' = todo \ {LastKind(todo)}
  /\ UNCHANGED <<manifest, secret, remote, opts, phase, plan, failed, events, disturbed>>

\* --dry-run, or the answer to the prompt is not yes.
EndSurvey ==
  /\ phase = "survey"
  /\ todo = {}
  /\ \/ phase' = "idle" /\ listed' = {}
     \/ ~opts.dryRun /\ phase' = "destroy" /\ listed' = listed
  /\ UNCHANGED <<manifest, secret, remote, opts, todo, plan, failed, events, disturbed>>

\* The list is in DeleteOrder.
Destroyed(r) ==
  /\ phase = "destroy"
  /\ r \in listed
  /\ r.kind = LastKind({x.kind : x \in listed})
  /\ plan' = [plan EXCEPT ![r] = Recorded("delete")]
  /\ listed' = listed \ {r}
  /\ UNCHANGED <<manifest, secret, opts, phase, todo>>

Destroy(r) ==
  /\ Destroyed(r)
  /\ remote' = [remote EXCEPT ![r] = NoObject]
  /\ UNCHANGED <<failed, events, disturbed>>

EndDestroy ==
  /\ phase = "destroy"
  /\ listed = {}
  /\ phase' = "idle"
  /\ UNCHANGED <<manifest, secret, remote, opts, todo, plan, listed, failed, events,
                 disturbed>>

-----------------------------------------------------------------------------
(* API calls that fail.  A request may fail before or after it took effect.  *)

Event(e) ==
  /\ events < MaxEvents
  /\ events' = events + 1
  /\ disturbed' = disturbed \cup {e}

\* The failed lookup of a stub's server counts as "not there", and a failed
\* listing of grants as "not returned", which differs from any declared list.
ObserveFails(r) ==
  /\ ToObserve(r)
  /\ Event("fault")
  /\ \/ ~H(r).stub /\ ObserveError(r)
     \/ /\ H(r).stub \/ (SideCompared(r.kind) /\ Exists(r))
        /\ plan' = [plan EXCEPT ![r] =
             Change(r, IF r \in Ignored THEN "noop"
                       ELSE IF H(r).stub THEN "create" ELSE "update")]
        /\ UNCHANGED <<manifest, secret, remote, opts, phase, todo, listed, failed>>

WriteFails(r) ==
  /\ ToWrite(r, "main")
  /\ \/ remote' = remote
     \/ CanWrite(r) /\ remote' = [remote EXCEPT ![r] = Written(r)]
  /\ Finish(r, TRUE)
  /\ Event("fault")

WriteSideFails(r) ==
  /\ ToWrite(r, "side")
  /\ ~SideSkipped(r)
  /\ \/ remote' = remote
     \/ CanWriteSide(r) /\ remote' = WithSide(r)
  /\ Finish(r, H(r).side = "reported")
  /\ Event("fault")

\* "Can't list this kind - skip silently"; destroy skips it silently too.
ListFails ==
  /\ phase \in {"list", "survey"}
  /\ todo # {}
  /\ todo' = todo \ {LastKind(todo)}
  /\ Event("fault")
  /\ UNCHANGED <<manifest, secret, remote, opts, phase, plan, listed, failed>>

DeleteFails(r) ==
  /\ ~opts.dryRun
  /\ Pruned(r) \/ Destroyed(r)
  /\ failed' = failed \cup {r}
  /\ Event("fault")
  /\ UNCHANGED remote

-----------------------------------------------------------------------------
(* Everyone else.                                                            *)

EditManifest ==
  /\ phase = "idle"
  /\ manifest' \in {m \in Manifests : ValidManifest(m)} \ {manifest}
  /\ InScope(manifest', remote)
  /\ Event("edit")
  /\ UNCHANGED <<secret, remote, cycleVars>>

Rotate ==
  /\ RotateInCycle \/ phase = "idle"
  /\ secret' \in (Secrets \cup {"unset"}) \ {secret}
  /\ Event("rotate")
  /\ UNCHANGED <<manifest, remote, cycleVars>>

\* Another user creates, edits or deletes an object.
Meddle(r) ==
  /\ \/ /\ ~Exists(r)
        /\ remote' = [remote EXCEPT ![r] =
             [owner |-> "user", pub |-> CHOOSE p \in Pubs : TRUE, wo |-> "theirs",
              side |-> NoSide, hash |-> NoHash]]
     \/ /\ Exists(r)
        /\ remote' = [remote EXCEPT ![r] = NoObject]
     \/ /\ Exists(r)
        /\ \E p \in Pubs \ {remote[r].pub} : remote' = [remote EXCEPT ![r].pub = p]
  /\ InScope(manifest, remote')
  /\ Event("meddle")
  /\ UNCHANGED <<manifest, secret, cycleVars>>

-----------------------------------------------------------------------------
EngineStep ==
  \/ Start \/ EndObserve \/ EndExecute \/ EndApply
  \/ List \/ EndDelete \/ EndPrune
  \/ Survey \/ EndSurvey \/ EndDestroy
  \/ \E r \in Resources :
       \/ Observe(r) \/ ObserveUnresolved(r)
       \/ Write(r) \/ WriteRefused(r) \/ WriteSide(r) \/ WriteSideRefused(r)
       \/ Delete(r) \/ Destroy(r)

Fault ==
  \/ ListFails
  \/ \E r \in Resources :
       \/ ObserveFails(r) \/ WriteFails(r) \/ WriteSideFails(r) \/ DeleteFails(r)

Next ==
  \/ EngineStep
  \/ Fault
  \/ EditManifest \/ Rotate \/ StartDestroy
  \/ \E r \in Resources : Meddle(r)

Spec == Init /\ [][Next]_vars

(* The controller's ticker starts cycle after cycle and a cycle's goroutines *)
(* run.  The environment's steps are bounded: properties are about what      *)
(* happens once it is quiet.                                                 *)
FairSpec == Spec /\ WF_vars(EngineStep)

-----------------------------------------------------------------------------
(* A cycle that reports no error left every selected resource there          *)
(* and as declared, as far as GoClaw can show it, whatever calls failed or   *)
(* took effect without an answer, unless other users changed something in    *)
(* the meantime.  It is what the controller's Synced condition stands for.   *)
CleanCycleInSync ==
  phase = "idle" /\ failed = {} /\ ~opts.dryRun
    /\ disturbed \cap {"edit", "meddle", "destroy"} = {}
    => \A r \in Selected \ Ignored :
         Exists(r) /\ remote[r].pub = manifest[r].pub

(* One apply is enough: when nothing interferes, ApplyOrder makes every      *)
(* reference resolve and no call is refused, except where a resource refers  *)
(* to one that is ignored, or not selected, and missing; with Prune no orphan *)
(* is left.                                                                  *)
QuietApplySucceeds ==
  phase = "idle" /\ disturbed = {} /\ ~opts.dryRun =>
    /\ \A r \in failed :
         \E d \in Needs[r] : ~Exists(d) /\ (d \in Ignored \/ d \notin Selected)
    /\ opts.prune => \A r \in Resources : r.kind \notin NotPruned => ~Orphan(r)

(* A destroy that went ahead, and that nothing interfered with, leaves no    *)
(* gcplane object of a kind that can be listed.                              *)
QuietDestroyEmpties ==
  /\ phase = "idle" /\ disturbed = {"destroy"}
  /\ \E r \in Resources : plan[r].action = "delete"
  => \A r \in Resources :
       remote[r].owner = "gcplane" => r.kind \in NotDestroyed \cup NotListed

(* The engine touches only what it may: nothing in a dry run, otherwise the  *)
(* selected resources that are not ignored and, when pruning, gcplane        *)
(* objects that are not selected; destroy deletes gcplane objects only.      *)
EngineInScope ==
  [][\A r \in Resources :
       remote'[r] # remote[r] /\ "meddle" \notin disturbed' =>
         /\ ~opts.dryRun
         /\ CASE phase = "destroy" -> remote'[r] = NoObject /\ remote[r].owner = "gcplane"
              [] phase # "destroy" /\ r \in Selected -> remote'[r] # NoObject /\ r \notin Ignored
              [] OTHER -> /\ remote'[r] = NoObject
                          /\ opts.prune /\ remote[r].owner = "gcplane"]_vars

(* "Deletes happen in reverse dependency order": an object is pruned after   *)
(* every orphan that refers to it, and destroyed after every gcplane object  *)
(* that refers to it.                                                        *)
DependentsDeletedFirst ==
  [][\A r \in listed \ listed', d \in Resources :
       /\ disturbed' \subseteq {"destroy"} /\ ~opts.dryRun
       /\ r \in Needs[d] /\ d.kind \notin NotPruned
       => IF phase = "destroy" THEN remote[d].owner # "gcplane"
          ELSE phase = "delete" => ~Orphan(d)]_vars

(* "--prune: Delete resources removed from manifest": an object is deleted   *)
(* only if the manifest does not have it.                                    *)
PrunesOnlyRemoved ==
  [][\A r \in Declared :
       phase = "delete" /\ "meddle" \notin disturbed' => remote[r] = remote'[r]]_vars

(* Once nothing interferes, what GoClaw shows converges to the manifest.     *)
Converges ==
  <>[]( /\ \A r \in Declared \ Ignored : Exists(r) /\ remote[r].pub = manifest[r].pub
        /\ \A r \in Resources : r.kind \notin NotPruned => ~Orphan(r) )

(* "Idempotent reconciliation": once nothing interferes, the engine comes to *)
(* rest; the hash comparison does not update a resource in every cycle.      *)
ComesToRest ==
  <>[](\A r \in Resources : plan[r].action \in {"none", "noop"})

(* A rotated secret reaches the kinds that return the hash, also when the    *)
(* update failed, took effect without an answer, or the object was deleted   *)
(* and recreated by someone else.                                            *)
RotationReachesProvider ==
  <>[](\A r \in Declared \ (Ignored \cup Untracked) :
         r.kind \in SupportsWriteOnlyHash => remote[r].wo = Resolved)

(* "manual edits, failed side effects, and partially applied grants heal" and *)
(* "a manifest that drops a name actually unwires it": what a second request *)
(* applies (context files, grants, allowlists) becomes what the manifest     *)
(* lists, also when it lists nothing, where the agents it names exist.       *)
SideEffectsHeal ==
  <>[](\A r \in Declared \ Ignored :
         H(r).side # "none" /\ (\A d \in Needs[r] : Exists(d))
           => remote[r].side = manifest[r].side)

-----------------------------------------------------------------------------
(* The inductive invariant behind the safety properties.                     *)

\* The apply loop or the prune loop runs, or has ended and nothing came since.
Undisturbed == disturbed \cap {"edit", "destroy"} = {}

\* Only selected resources that are not ignored are planned to be written, and
\* never in a dry run.
PlanInv ==
  /\ phase \in {"observe", "execute"} =>
       \A r \in Resources :
         plan[r].action \in {"create", "update"} => r \in Selected \ Ignored
  /\ phase = "execute" => ~opts.dryRun /\ todo # {}

\* What is listed is of the current kind, not selected, and gcplane's.
ListInv ==
  /\ phase \in {"list", "delete"} => opts.prune
  /\ phase \in {"idle", "observe", "execute", "list"} => listed = {}
  /\ phase = "delete" =>
       todo # {} /\ \A r \in listed : r.kind = LastKind(todo) /\ r \notin Selected
  /\ phase = "destroy" => ~opts.dryRun
  /\ "meddle" \notin disturbed => \A r \in listed : remote[r].owner = "gcplane"

PhaseInv ==
  /\ phase \in {"observe", "execute", "list", "delete"} => Undisturbed
  /\ phase \in {"survey", "destroy"} => "destroy" \in disturbed

\* Every kind the apply loop has left behind is observed and written.
ProgressInv ==
  /\ Undisturbed =>
       \A r \in Selected :
         \/ phase \in {"observe", "execute"} /\ r.kind \in todo
         \/ plan[r].action # "none" /\ (opts.dryRun \/ plan[r].step = "done")
  /\ phase = "execute" =>
       \A r \in Selected : r.kind = FirstKind(todo) => plan[r].action # "none"

\* The main request of r, if it needed one, has been made.
Handled(r) == plan[r].action # "none" /\ plan[r].step # "main"

\* What is handled and not failed is as declared.
SyncInv ==
  Undisturbed /\ "meddle" \notin disturbed =>
    \A r \in Selected \ (Ignored \cup failed) :
      Handled(r) => Exists(r) /\ remote[r].pub = manifest[r].pub

\* When nothing interferes, what the manifest's other resources refer to exists
\* once it is handled, nothing changes between observe and write, and a failure
\* is due to a missing resource that the cycle does not create.
QuietInv ==
  disturbed = {} =>
    /\ \A r \in Selected \ Ignored :
         /\ Handled(r) /\ H(r).looksUp \subseteq {"side"} => Exists(r)
         /\ plan[r].step = "side" => Exists(r)
         /\ plan[r].step = "main" /\ ~H(r).upsert
              => (plan[r].action = "create" <=> ~Exists(r))
    /\ ~opts.dryRun =>
         \A r \in failed :
           \E d \in Needs[r] : ~Exists(d) /\ (d \in Ignored \/ d \notin Selected)

\* The orphans left are of kinds to come, or listed.
OrphanInv ==
  disturbed = {} /\ opts.prune /\ ~opts.dryRun /\ phase \in {"list", "delete", "idle"} =>
    \A r \in Resources :
      Orphan(r) /\ r.kind \notin NotPruned =>
        /\ phase # "idle"
        /\ r.kind \in todo
        /\ phase = "delete" /\ r.kind = LastKind(todo) => r \in listed

\* destroy has listed the gcplane objects of the kinds it has surveyed.
DestroyInv ==
  disturbed = {"destroy"} =>
    /\ phase = "survey" => \A r \in Resources : plan[r].action # "delete"
    /\ phase \in {"survey", "destroy"} =>
         \A r \in Resources :
           remote[r].owner = "gcplane" /\ r.kind \notin NotDestroyed \cup NotListed =>
             r \in listed \/ (phase = "survey" /\ r.kind \in todo)

IInv ==
  /\ TypeOK
  /\ PlanInv
  /\ ListInv
  /\ PhaseInv
  /\ ProgressInv
  /\ SyncInv
  /\ QuietInv
  /\ OrphanInv
  /\ DestroyInv
  /\ QuietDestroyEmpties
=============================================================================
