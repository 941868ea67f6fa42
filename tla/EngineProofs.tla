----------------------------- MODULE EngineProofs -----------------------------
(***************************************************************************)
(* Proofs of the engine's safety properties for any resources, manifests,  *)
(* options and number of environment steps.                                *)
(*                                                                         *)
(* The steps of one resource fall into three groups: planning, writing and *)
(* deleting.  For each group a definition says what such a step does to    *)
(* the state, as far as the invariant can tell, and a lemma shows it; the  *)
(* parts of the invariant are then proved from the effects.                *)
(***************************************************************************)
EXTENDS Engine, ResourceKindProofs

-----------------------------------------------------------------------------
(* Groups of steps.                                                          *)

Planning(r) == Observe(r) \/ ObserveUnresolved(r) \/ ObserveFails(r)

Writing(r) ==
  \/ Write(r) \/ WriteRefused(r) \/ WriteFails(r)
  \/ WriteSide(r) \/ WriteSideRefused(r) \/ WriteSideFails(r)

Deleting(r) == Delete(r) \/ Destroy(r) \/ DeleteFails(r)

(* The step is not counted as a disturbance, or it is a fault. *)
MayFail == disturbed' \in {disturbed, disturbed \cup {"fault"}} /\ events' \in 0..MaxEvents

-----------------------------------------------------------------------------
(* The data.                                                                 *)

(* The fields of an object, there or not. *)
LEMMA ObjectFields ==
  ASSUME TypeOK, NEW r \in Resources
  PROVE  /\ remote[r].owner \in {"none", "gcplane", "user"}
         /\ remote[r].wo \in Contents
         /\ remote[r].side \in Sides
         /\ remote[r].hash \in Hashes
         /\ Exists(r) => remote[r] \in Objects
         /\ ~Exists(r) => remote[r] = NoObject
<1>1. remote[r] \in Objects \cup {NoObject}
  BY DEF TypeOK
<1>2. NoHash \in Hashes /\ "theirs" \in Contents /\ NoSide \in Sides
  BY EngineAssumption DEF Hashes, Contents
<1>3. CASE remote[r] \in Objects
  BY <1>3 DEF Objects, Exists
<1>4. CASE remote[r] = NoObject
  BY <1>2, <1>4 DEF NoObject, Exists
<1>5. QED
  BY <1>1, <1>3, <1>4

(* The fields of a spec. *)
LEMMA SpecFields ==
  ASSUME TypeOK, NEW r \in Resources
  PROVE  /\ manifest[r].side \in Sides
         /\ r \in Selected => manifest[r].pub \in Pubs
<1>1. manifest[r] \in Specs \cup {NoSpec}
  BY DEF TypeOK
<1>2. CASE manifest[r] \in Specs
  BY <1>2 DEF Specs
<1>3. CASE manifest[r] = NoSpec
  <2>1. r \notin Selected
    BY <1>3 DEF Selected, Declared
  <2>2. manifest[r].side \in Sides
    BY <1>3, EngineAssumption DEF NoSpec
  <2>3. QED
    BY <2>1, <2>2
<1>4. QED
  BY <1>1, <1>2, <1>3

(* Selected depends on the manifest and the options only. *)
LEMMA SelectedStable == UNCHANGED <<manifest, opts>> => Selected' = Selected
  BY DEF Selected, Declared

(* Selected resources are resources. *)
LEMMA SelectedAreResources == Selected \subseteq Resources
  BY DEF Selected, Declared

(* A change that is only recorded is a change. *)
LEMMA RecordedType ==
  ASSUME NEW a \in {"none", "noop", "delete"}
  PROVE  /\ Recorded(a) \in Changes
         /\ Recorded(a).action = a
         /\ Recorded(a).step = "done"
<1>1. NoHash \in Hashes
  BY DEF Hashes
<1>2. QED
  BY <1>1 DEF Recorded, Changes

(* What the hash comparison computes is a hash. *)
LEMMA DesiredHashType ==
  ASSUME TypeOK, NEW r \in Resources
  PROVE  DesiredHash(r) \in Hashes
<1>1. Resolved \in Contents
  BY DEF Resolved, Contents, TypeOK
<1>2. manifest[r].side \in Sides /\ NoSide \in Sides
  BY SpecFields, EngineAssumption
<1>3. QED
  BY <1>1, <1>2 DEF DesiredHash, Hashes

-----------------------------------------------------------------------------
(* Planning.                                                                 *)

PlanningEffect(r) ==
  /\ phase = "observe" /\ r \in Selected /\ plan[r].action = "none"
  /\ r.kind \in todo /\ r.kind = FirstKind(todo)
  /\ UNCHANGED <<manifest, secret, remote, opts, phase, todo, listed>>
  /\ plan' \in [Resources -> Changes]
  /\ \A s \in Resources : s # r => plan'[s] = plan[s]
  /\ plan'[r].action \in {"noop", "create", "update"}
  /\ plan'[r].step = IF plan'[r].action = "noop" THEN "done" ELSE "main"
  /\ r \in Ignored => plan'[r].action = "noop"
  /\ failed' \in {failed, failed \cup {r}}
  /\ MayFail

(* What a planned change says of the object: nothing is to be done only for an
   object that is as declared, and when nothing fails, create and update match
   what is there, and an error is a missing reference. *)
PlanningFinds(r) ==
  /\ r \notin Ignored =>
       /\ plan'[r].action = "noop" /\ r \notin failed' =>
            Exists(r) /\ remote[r].pub = manifest[r].pub
       /\ disturbed' = {} =>
            /\ plan'[r].action = "noop" /\ H(r).looksUp \subseteq {"side"} => Exists(r)
            /\ plan'[r].action # "noop" /\ ~H(r).upsert
                 => (plan'[r].action = "create" <=> ~Exists(r))
  /\ disturbed' = {} /\ failed' # failed => \E d \in Needs[r] : ~Exists(d)

(* stepCompare decides among three actions. *)
LEMMA ActionType ==
  ASSUME NEW r \in Resources
  PROVE  Action(r) \in {"noop", "create", "update"} /\ (r \in Ignored => Action(r) = "noop")
  BY DEF Action

(* A planned change is a change. *)
LEMMA ChangeType ==
  ASSUME TypeOK, NEW r \in Resources, NEW a \in {"noop", "create", "update"}
  PROVE  /\ Change(r, a) \in Changes
         /\ Change(r, a).action = a
         /\ Change(r, a).step = IF a = "noop" THEN "done" ELSE "main"
<1>1. DesiredHash(r) \in Hashes /\ NoHash \in Hashes
  BY DesiredHashType DEF Hashes
<1>2. QED
  BY <1>1 DEF Change, Changes

(* A planning step plans one resource and touches nothing in GoClaw. *)
LEMMA PlanningDoes ==
  ASSUME TypeOK, NEW r \in Resources, Planning(r)
  PROVE  PlanningEffect(r)
<1> USE EngineAssumption DEF TypeOK
<1>1. CASE Observe(r)
  <2>1. plan' = [plan EXCEPT ![r] = Change(r, Action(r))]
    BY <1>1 DEF Observe, Compare
  <2>2. QED
    BY <1>1, <2>1, ActionType, ChangeType DEF Observe, ToObserve,
       PlanningEffect, MayFail
<1>2. CASE ObserveUnresolved(r)
  BY <1>2, RecordedType DEF ObserveUnresolved, ObserveError, ToObserve,
     PlanningEffect, MayFail
<1>3. CASE ObserveFails(r)
  <2>1. MayFail /\ ToObserve(r)
    BY <1>3 DEF ObserveFails, Event, MayFail
  <2>2. CASE ObserveError(r)
    BY <2>1, <2>2, RecordedType DEF ObserveError, ToObserve, PlanningEffect
  <2>3. CASE ~ObserveError(r)
    <3> DEFINE a == IF r \in Ignored THEN "noop"
                    ELSE IF H(r).stub THEN "create" ELSE "update"
    <3>1. /\ plan' = [plan EXCEPT ![r] = Change(r, a)]
          /\ UNCHANGED <<manifest, secret, remote, opts, phase, todo, listed, failed>>
      BY <1>3, <2>3 DEF ObserveFails
    <3>2. a \in {"noop", "create", "update"} /\ (r \in Ignored => a = "noop")
      OBVIOUS
    <3> HIDE DEF a
    <3>3. QED
      BY <2>1, <3>1, <3>2, ChangeType DEF ToObserve, PlanningEffect
  <2>4. QED
    BY <2>2, <2>3
<1>4. QED
  BY <1>1, <1>2, <1>3 DEF Planning

(* What a planning step finds out about the object. *)
LEMMA PlanningFindsOut ==
  ASSUME TypeOK, NEW r \in Resources, Planning(r)
  PROVE  PlanningFinds(r)
<1>1. r \in Selected /\ plan \in [Resources -> Changes]
  BY PlanningDoes DEF PlanningEffect, TypeOK
<1>2. CASE Observe(r)
  <2>1. plan' = [plan EXCEPT ![r] = Change(r, Action(r))] /\ failed' = failed
    BY <1>2 DEF Observe, Compare
  <2>2. plan'[r].action = Action(r)
    BY <1>1, <2>1, ActionType, ChangeType
  <2>3. ~H(r).stub => Observed(r) = remote[r]
    BY DEF Observed
  <2>4. r \notin Ignored /\ Action(r) = "noop" => ~H(r).stub
    <3> SUFFICES ASSUME r \notin Ignored, H(r).stub
                 PROVE  Action(r) # "noop"
      OBVIOUS
    <3>1. Stub.pub = "none" /\ NoObject.pub = "none"
      BY Zenon DEF Stub, NoObject
    <3>2. Observed(r).pub = "none"
      BY <3>1 DEF Observed
    <3>3. Observed(r).pub # manifest[r].pub
      BY <1>1, <3>2, SpecFields, EngineAssumption
    <3>4. QED
      BY <3>3 DEF Action, Differs
  <2>5. r \notin Ignored /\ Action(r) = "noop"
          => Exists(r) /\ remote[r].pub = manifest[r].pub
    BY <2>3, <2>4, ObjectFields DEF Action, Differs
  <2>6. ~H(r).upsert => ~H(r).stub
    BY StubIsUpsert, EngineAssumption DEF H
  <2>7. r \notin Ignored /\ ~H(r).stub => (Action(r) = "create" <=> ~Exists(r))
    BY <2>3, ObjectFields DEF Action, NoObject, Exists
  <2>8. QED
    BY <2>1, <2>2, <2>5, <2>6, <2>7 DEF PlanningFinds
<1>3. CASE ObserveUnresolved(r)
  <2>1. "observe" \in H(r).looksUp /\ \E d \in Needs[r] : ~Exists(d)
    BY <1>3 DEF ObserveUnresolved, Finds
  <2>2. r \in failed' /\ plan'[r].action = "noop"
    BY <1>1, <1>3, RecordedType DEF ObserveUnresolved, ObserveError
  <2>3. QED
    BY <2>1, <2>2 DEF PlanningFinds
<1>4. CASE ObserveFails(r)
  <2>1. disturbed' # {}
    BY <1>4 DEF ObserveFails, Event
  <2>2. r \in Ignored \cup failed' \/ plan'[r].action # "noop"
    <3>1. CASE r \in Ignored \/ ObserveError(r)
      BY <3>1 DEF ObserveError
    <3>2. CASE r \notin Ignored /\ ~ObserveError(r)
      <4>1. plan' = [plan EXCEPT ![r] = Change(r, IF H(r).stub THEN "create" ELSE "update")]
        BY <1>4, <3>2 DEF ObserveFails
      <4>2. QED
        BY <1>1, <4>1, ChangeType
    <3>3. QED
      BY <3>1, <3>2
  <2>3. QED
    BY <2>1, <2>2 DEF PlanningFinds
<1>5. QED
  BY <1>2, <1>3, <1>4 DEF Planning

-----------------------------------------------------------------------------
(* Writing.                                                                  *)

WritingEffect(r) ==
  /\ phase = "execute" /\ r.kind \in todo /\ r.kind = FirstKind(todo)
  /\ plan[r].action \in {"create", "update"} /\ plan[r].step \in {"main", "side"}
  /\ UNCHANGED <<manifest, secret, opts, phase, todo, listed>>
  /\ remote' \in [Resources -> Objects \cup {NoObject}]
  /\ \A s \in Resources : s # r => remote'[s] = remote[s]
  /\ remote'[r] # remote[r] \/ Exists(r) => Exists(r)'
  /\ plan' \in [Resources -> Changes]
  /\ \A s \in Resources : s # r => plan'[s] = plan[s]
  /\ plan'[r].action = plan[r].action
  /\ plan'[r].step = "done" \/ (plan'[r].step = "side" /\ plan[r].step = "main")
  /\ failed' \in {failed, failed \cup {r}}
  /\ MayFail

(* How a write ends: without an error the object is as declared, if it was
   already so where the main request is done; when nothing fails and observe
   had found what is there, an error is a missing reference. *)
WritingEnds(r) ==
  /\ r \notin failed' /\ (plan[r].step = "side" => Exists(r) /\ remote[r].pub = manifest[r].pub)
       => Exists(r)' /\ remote'[r].pub = manifest[r].pub
  /\ plan'[r].step = "side" => Exists(r)'
  /\ /\ disturbed' = {}
     /\ plan[r].step = "side" => Exists(r)
     /\ plan[r].step = "main" /\ ~H(r).upsert => (plan[r].action = "create" <=> ~Exists(r))
     => /\ H(r).looksUp \subseteq {"side"} => Exists(r)'
        /\ failed' # failed => \E d \in Needs[r] : ~Exists(d)

(* The object after the main request. *)
LEMMA WrittenType ==
  ASSUME TypeOK, NEW r \in Resources, r \in Selected
  PROVE  /\ Written(r) \in Objects
         /\ Written(r).owner # "none"
         /\ Written(r).pub = manifest[r].pub
<1>1. Resolved \in Contents
  BY DEF Resolved, Contents, TypeOK
<1>2. plan[r].hash \in Hashes
  BY DEF TypeOK, Changes
<1>3. (IF Exists(r) THEN remote[r].owner ELSE "gcplane") \in {"gcplane", "user"}
  BY ObjectFields DEF Exists
<1>4. manifest[r].pub \in Pubs
  BY SpecFields
<1>5. (IF r.kind \in NoWriteOnlyFields THEN remote[r].wo ELSE Resolved) \in Contents
  BY <1>1, ObjectFields
<1>6. (IF r.kind \in SupportsWriteOnlyHash /\ plan[r].hash # NoHash
       THEN plan[r].hash ELSE remote[r].hash) \in Hashes
  BY <1>2, ObjectFields
<1>7. remote[r].side \in Sides
  BY ObjectFields
<1>8. QED
  BY <1>3, <1>4, <1>5, <1>6, <1>7 DEF Written, Objects

(* The second request changes one field of an object that is there. *)
LEMMA WithSideType ==
  ASSUME TypeOK, NEW r \in Resources, Exists(r), remote' = WithSide(r)
  PROVE  /\ remote' \in [Resources -> Objects \cup {NoObject}]
         /\ \A s \in Resources : s # r => remote'[s] = remote[s]
         /\ Exists(r)'
         /\ remote'[r].pub = remote[r].pub
<1>1. remote[r] \in Objects /\ manifest[r].side \in Sides
  BY ObjectFields, SpecFields
<1>2. remote' = [remote EXCEPT ![r] = [remote[r] EXCEPT !.side = manifest[r].side]]
  BY DEF WithSide
<1>3. /\ [remote[r] EXCEPT !.side = manifest[r].side] \in Objects
      /\ [remote[r] EXCEPT !.side = manifest[r].side].owner = remote[r].owner
      /\ [remote[r] EXCEPT !.side = manifest[r].side].pub = remote[r].pub
  BY <1>1 DEF Objects
<1>4. QED
  BY <1>2, <1>3 DEF TypeOK, Exists

(* A change that moves on keeps its action. *)
LEMMA PlanMovesOn ==
  ASSUME TypeOK, NEW r \in Resources, NEW st \in {"side", "done"},
         plan' = [plan EXCEPT ![r].step = st]
  PROVE  /\ plan' \in [Resources -> Changes]
         /\ \A s \in Resources : s # r => plan'[s] = plan[s]
         /\ plan'[r].action = plan[r].action
         /\ plan'[r].step = st
<1>1. plan[r] \in Changes
  BY DEF TypeOK
<1>2. plan' = [plan EXCEPT ![r] = [plan[r] EXCEPT !.step = st]]
  OBVIOUS
<1>3. /\ [plan[r] EXCEPT !.step = st] \in Changes
      /\ [plan[r] EXCEPT !.step = st].action = plan[r].action
      /\ [plan[r] EXCEPT !.step = st].step = st
  BY <1>1 DEF Changes
<1>4. QED
  BY <1>2, <1>3 DEF TypeOK

(* What a write does to the object: nothing, the main request or the second. *)
LEMMA WritingRemote ==
  ASSUME TypeOK, PlanInv, NEW r \in Resources, Writing(r)
  PROVE  /\ r \in Selected
         /\ \/ remote' = remote
            \/ plan[r].step = "main" /\ remote' = [remote EXCEPT ![r] = Written(r)]
            \/ plan[r].step = "side" /\ Exists(r) /\ remote' = WithSide(r)
<1>1. phase = "execute" /\ plan[r].action \in {"create", "update"}
  BY DEF Writing, Write, WriteRefused, WriteFails, WriteSide, WriteSideRefused,
     WriteSideFails, ToWrite
<1>2. r \in Selected
  BY <1>1 DEF PlanInv
<1>3. QED
  BY <1>2 DEF Writing, Write, WriteRefused, WriteFails, WriteSide,
     WriteSideRefused, WriteSideFails, ToWrite, CanWriteSide

(* What a write does to the plan: the change goes on to the second request,
   or it is done. *)
LEMMA WritingPlan ==
  ASSUME NEW r \in Resources, Writing(r)
  PROVE  /\ phase = "execute" /\ r.kind \in todo /\ r.kind = FirstKind(todo)
         /\ plan[r].action \in {"create", "update"}
         /\ UNCHANGED <<manifest, secret, opts, phase, todo, listed>>
         /\ \/ /\ plan' = [plan EXCEPT ![r].step = "done"]
               /\ plan[r].step \in {"main", "side"}
            \/ /\ plan' = [plan EXCEPT ![r].step = "side"]
               /\ plan[r].step = "main"
               /\ remote' = [remote EXCEPT ![r] = Written(r)]
         /\ failed' \in {failed, failed \cup {r}}
  BY DEF Writing, Write, WriteRefused, WriteFails, WriteSide, WriteSideRefused,
     WriteSideFails, ToWrite, Finish

(* A writing step writes one resource and moves its change on. *)
LEMMA WritingDoes ==
  ASSUME TypeOK, PlanInv, NEW r \in Resources, Writing(r)
  PROVE  WritingEffect(r)
<1>1. MayFail
  BY EngineAssumption DEF Writing, Write, WriteRefused, WriteFails, WriteSide,
     WriteSideRefused, WriteSideFails, Finish, Event, MayFail, TypeOK
<1>2. /\ plan' \in [Resources -> Changes]
      /\ \A s \in Resources : s # r => plan'[s] = plan[s]
      /\ plan'[r].action = plan[r].action
      /\ plan'[r].step = "done" \/ (plan'[r].step = "side" /\ plan[r].step = "main")
  BY WritingPlan, PlanMovesOn
<1>3. /\ remote' \in [Resources -> Objects \cup {NoObject}]
      /\ \A s \in Resources : s # r => remote'[s] = remote[s]
      /\ remote'[r] # remote[r] \/ Exists(r) => Exists(r)'
  <2>1. CASE remote' = remote
    BY <2>1 DEF TypeOK, Exists
  <2>2. CASE remote' = [remote EXCEPT ![r] = Written(r)]
    BY <2>2, WritingRemote, WrittenType DEF TypeOK, Exists
  <2>3. CASE Exists(r) /\ remote' = WithSide(r)
    BY <2>3, WithSideType
  <2>4. QED
    BY <2>1, <2>2, <2>3, WritingRemote
<1>4. QED
  BY <1>1, <1>2, <1>3, WritingPlan DEF WritingEffect

(* How the step leaves the object and the errors. *)
LEMMA WritingEndsSo ==
  ASSUME TypeOK, PlanInv, NEW r \in Resources, Writing(r)
  PROVE  WritingEnds(r)
<1>1. remote' = [remote EXCEPT ![r] = Written(r)] =>
        Exists(r)' /\ remote'[r].pub = manifest[r].pub
  BY WritingRemote, WrittenType DEF TypeOK, Exists
<1>2. plan'[r].step = "side" => Exists(r)'
  BY <1>1, WritingPlan, PlanMovesOn
<1>3. Exists(r) => Exists(r)'
  BY WritingDoes DEF WritingEffect
<1>4. plan[r].step = "side" /\ Exists(r) => remote'[r].pub = remote[r].pub
  BY WritingRemote, WithSideType
<1>5. plan[r].step = "main" /\ failed' = failed /\ r \notin failed'
        => remote' = [remote EXCEPT ![r] = Written(r)]
  BY DEF Writing, Write, WriteRefused, WriteFails, WriteSide, WriteSideRefused,
     WriteSideFails, ToWrite, Finish
<1>6. /\ r \notin failed'
      /\ plan[r].step = "side" => Exists(r) /\ remote[r].pub = manifest[r].pub
      => Exists(r)' /\ remote'[r].pub = manifest[r].pub
  BY <1>1, <1>3, <1>4, <1>5, WritingDoes DEF WritingEffect
<1>7. ASSUME disturbed' = {},
             plan[r].step = "side" => Exists(r),
             plan[r].step = "main" /\ ~H(r).upsert => (plan[r].action = "create" <=> ~Exists(r))
      PROVE  /\ H(r).looksUp \subseteq {"side"} => Exists(r)'
             /\ failed' # failed => \E d \in Needs[r] : ~Exists(d)
  <2>1. ~WriteFails(r) /\ ~WriteSideFails(r)
    BY <1>7 DEF WriteFails, WriteSideFails, Event
  <2>2. CASE Write(r)
    BY <1>1, <2>2 DEF Write, Finish
  <2>3. CASE WriteRefused(r)
    <3>1. ~Finds(r, plan[r].action)
      BY <1>7, <2>3 DEF WriteRefused, ToWrite, CanWrite
    <3>2. plan[r].action \in H(r).looksUp /\ \E d \in Needs[r] : ~Exists(d)
      BY <3>1 DEF Finds
    <3>3. plan[r].action # "side"
      BY <2>3 DEF WriteRefused, ToWrite
    <3>4. QED
      BY <3>2, <3>3
  <2>4. CASE WriteSide(r)
    BY <1>3, <1>7, <2>4 DEF WriteSide, ToWrite, Finish
  <2>5. CASE WriteSideRefused(r)
    BY <1>3, <1>7, <2>5 DEF WriteSideRefused, ToWrite, CanWriteSide, Finds
  <2>6. QED
    BY <2>1, <2>2, <2>3, <2>4, <2>5 DEF Writing
<1>8. QED
  BY <1>2, <1>6, <1>7 DEF WritingEnds

-----------------------------------------------------------------------------
(* Deleting.                                                                 *)

DeletingEffect(r) ==
  /\ phase \in {"delete", "destroy"} /\ r \in listed
  /\ phase = "destroy" => r.kind = LastKind({x.kind : x \in listed})
  /\ UNCHANGED <<manifest, secret, opts, phase, todo>>
  /\ listed' = listed \ {r}
  /\ plan' = [plan EXCEPT ![r] = Recorded("delete")]
  /\ remote' \in {remote, [remote EXCEPT ![r] = NoObject]}
  /\ phase = "delete" /\ opts.dryRun => remote' = remote
  /\ "fault" \notin disturbed' /\ ~opts.dryRun => remote' = [remote EXCEPT ![r] = NoObject]
  /\ "fault" \notin disturbed' => failed' = failed
  /\ failed' \in {failed, failed \cup {r}}
  /\ MayFail

(* A deleting step takes one resource off the list. *)
LEMMA DeletingDoes ==
  ASSUME TypeOK, NEW r \in Resources, Deleting(r)
  PROVE  DeletingEffect(r)
<1>1. MayFail
  BY EngineAssumption DEF Deleting, Delete, Destroy, DeleteFails, Event,
     MayFail, TypeOK
<1>2. CASE Delete(r)
  BY <1>1, <1>2 DEF Delete, Pruned, DeletingEffect
<1>3. CASE Destroy(r)
  BY <1>1, <1>3 DEF Destroy, Destroyed, DeletingEffect
<1>4. CASE DeleteFails(r)
  <2>1. "fault" \in disturbed'
    BY <1>4 DEF DeleteFails, Event
  <2>2. QED
    BY <1>1, <1>4, <2>1 DEF DeleteFails, Pruned, Destroyed, DeletingEffect
<1>5. QED
  BY <1>2, <1>3, <1>4 DEF Deleting

-----------------------------------------------------------------------------
(* The parts of the invariant, one after the other.                          *)

(* Every step keeps the types. *)
LEMMA TypeStep == TypeOK /\ PlanInv /\ [Next]_vars => TypeOK'
<1> SUFFICES ASSUME TypeOK, PlanInv, [Next]_vars
             PROVE  TypeOK'
  OBVIOUS
<1> USE EngineAssumption DEF NoChange
<1>1. ASSUME NEW r \in Resources, Planning(r)
      PROVE  TypeOK'
  <2>1. PlanningEffect(r)
    BY <1>1, PlanningDoes
  <2>2. QED
    BY <2>1, SelectedStable, RecordedType DEF PlanningEffect, MayFail, TypeOK
<1>2. ASSUME NEW r \in Resources, Writing(r)
      PROVE  TypeOK'
  <2>1. WritingEffect(r)
    BY <1>2, WritingDoes
  <2>2. QED
    BY <2>1, SelectedStable, RecordedType DEF WritingEffect, MayFail, TypeOK
<1>3. ASSUME NEW r \in Resources, Deleting(r)
      PROVE  TypeOK'
  <2>1. DeletingEffect(r)
    BY <1>3, DeletingDoes
  <2>2. QED
    BY <2>1, SelectedStable, RecordedType DEF DeletingEffect, MayFail, TypeOK
<1>4. CASE Start
  <2>1. Selected' \subseteq Resources
    BY DEF Selected, Declared
  <2>2. todo' \subseteq Kinds
    BY <1>4, <2>1 DEF Start
  <2>3. opts' \in [dryRun : BOOLEAN, prune : BOOLEAN, force : BOOLEAN, label : BOOLEAN]
    BY <1>4 DEF Start
  <2>4. plan' \in [Resources -> Changes]
    BY <1>4, RecordedType DEF Start
  <2>5. QED
    BY <1>4, <2>2, <2>3, <2>4 DEF Start, TypeOK
<1>5. CASE EndObserve
  BY <1>5, SelectedStable, RecordedType DEF EndObserve, TypeOK
<1>6. CASE EndExecute
  BY <1>6, SelectedStable, RecordedType DEF EndExecute, TypeOK
<1>7. CASE EndApply
  BY <1>7, SelectedStable, RecordedType DEF EndApply, TypeOK
<1>8. CASE List
  <2>1. listed' \subseteq Resources
    BY <1>8 DEF List, Orphans
  <2>2. todo' \subseteq Kinds /\ phase' \in {"list", "delete"}
    BY <1>8 DEF List, TypeOK
  <2>3. QED
    BY <1>8, <2>1, <2>2 DEF List, TypeOK
<1>9. CASE EndDelete
  BY <1>9, SelectedStable, RecordedType DEF EndDelete, TypeOK
<1>10. CASE EndPrune
  BY <1>10, SelectedStable, RecordedType DEF EndPrune, TypeOK
<1>11. CASE Survey
  BY <1>11, SelectedStable, RecordedType DEF Survey, TypeOK
<1>12. CASE EndSurvey
  BY <1>12, SelectedStable, RecordedType DEF EndSurvey, TypeOK
<1>13. CASE EndDestroy
  BY <1>13, SelectedStable, RecordedType DEF EndDestroy, TypeOK
<1>14. CASE ListFails
  BY <1>14, SelectedStable, RecordedType DEF ListFails, Event, TypeOK
<1>15. CASE StartDestroy
  <2>1. todo' \subseteq Kinds
    BY <1>15 DEF StartDestroy
  <2>2. PICK o \in Options :
          opts' = [o EXCEPT !.prune = FALSE, !.force = FALSE, !.label = FALSE]
    BY <1>15 DEF StartDestroy
  <2>3. opts' \in [dryRun : BOOLEAN, prune : BOOLEAN, force : BOOLEAN, label : BOOLEAN]
    BY <2>2
  <2>4. plan' \in [Resources -> Changes]
    BY <1>15, RecordedType DEF StartDestroy
  <2>5. /\ phase' = "survey" /\ failed' = {} /\ disturbed' = {"destroy"}
        /\ events < MaxEvents /\ events' = events + 1
        /\ UNCHANGED <<manifest, secret, remote, listed>>
    BY <1>15, Zenon DEF StartDestroy
  <2>6. QED
    BY <2>1, <2>3, <2>4, <2>5 DEF TypeOK
<1>16. CASE EditManifest
  BY <1>16, SelectedStable, RecordedType DEF EditManifest, Event, TypeOK,
     cycleVars
<1>17. CASE Rotate
  BY <1>17, SelectedStable, RecordedType DEF Rotate, Event, TypeOK, cycleVars
<1>18. ASSUME NEW r \in Resources, Meddle(r)
      PROVE  TypeOK'
  <2>1. remote' \in [Resources -> Objects \cup {NoObject}]
    <3> DEFINE new == [owner |-> "user", pub |-> CHOOSE p \in Pubs : TRUE,
                       wo |-> "theirs", side |-> NoSide, hash |-> NoHash]
    <3>1. (CHOOSE p \in Pubs : TRUE) \in Pubs
      OBVIOUS
    <3>2. new \in Objects
      BY <3>1 DEF Objects, Contents, Hashes
    <3>3. CASE remote' = [remote EXCEPT ![r] = new]
      BY <3>2, <3>3 DEF TypeOK
    <3>4. CASE remote' = [remote EXCEPT ![r] = NoObject]
      BY <3>4 DEF TypeOK
    <3>5. ASSUME Exists(r), NEW p \in Pubs, remote' = [remote EXCEPT ![r].pub = p]
          PROVE  remote' \in [Resources -> Objects \cup {NoObject}]
      <4>1. remote[r] \in Objects
        BY <3>5, ObjectFields
      <4>2. [remote[r] EXCEPT !.pub = p] \in Objects
        BY <4>1 DEF Objects
      <4>3. remote' = [remote EXCEPT ![r] = [remote[r] EXCEPT !.pub = p]]
        BY <3>5
      <4>4. QED
        BY <4>2, <4>3 DEF TypeOK
    <3>6. QED
      BY <1>18, <3>3, <3>4, <3>5 DEF Meddle
  <2>2. QED
    BY <1>18, <2>1 DEF Meddle, Event, TypeOK, cycleVars
<1>19. CASE UNCHANGED vars
  BY <1>19, SelectedStable DEF vars, TypeOK, cycleVars
<1>20. QED
  BY <1>1, <1>2, <1>3, <1>4, <1>5, <1>6, <1>7, <1>8, <1>9, <1>10, <1>11, <1>12,
     <1>13, <1>14, <1>15, <1>16, <1>17, <1>18, <1>19 DEF Next, EngineStep,
     Fault, Planning, Writing, Deleting

(* Only what is selected and not ignored is planned to be written. *)
LEMMA PlanStep == TypeOK /\ PlanInv /\ [Next]_vars => PlanInv'
<1> SUFFICES ASSUME TypeOK, PlanInv, [Next]_vars
             PROVE  PlanInv'
  OBVIOUS
<1> USE DEF NoChange
<1>1. ASSUME NEW r \in Resources, Planning(r)
      PROVE  PlanInv'
  <2>1. PlanningEffect(r)
    BY <1>1, PlanningDoes
  <2>2. QED
    BY <2>1, SelectedStable, RecordedType DEF PlanningEffect, PlanInv
<1>2. ASSUME NEW r \in Resources, Writing(r)
      PROVE  PlanInv'
  <2>1. WritingEffect(r)
    BY <1>2, WritingDoes
  <2>2. QED
    BY <2>1, SelectedStable, RecordedType DEF WritingEffect, PlanInv
<1>3. ASSUME NEW r \in Resources, Deleting(r)
      PROVE  PlanInv'
  <2>1. DeletingEffect(r)
    BY <1>3, DeletingDoes
  <2>2. QED
    BY <2>1, SelectedStable, RecordedType DEF DeletingEffect, PlanInv
<1>4. CASE Start
  BY <1>4, SelectedStable, RecordedType DEF Start, PlanInv
<1>5. CASE EndObserve
  BY <1>5, SelectedStable, RecordedType DEF EndObserve, PlanInv
<1>6. CASE EndExecute
  BY <1>6, SelectedStable, RecordedType DEF EndExecute, PlanInv
<1>7. CASE EndApply
  BY <1>7, SelectedStable, RecordedType DEF EndApply, PlanInv
<1>8. CASE List
  BY <1>8, SelectedStable, RecordedType DEF List, PlanInv
<1>9. CASE EndDelete
  BY <1>9, SelectedStable, RecordedType DEF EndDelete, PlanInv
<1>10. CASE EndPrune
  BY <1>10, SelectedStable, RecordedType DEF EndPrune, PlanInv
<1>11. CASE Survey
  BY <1>11, SelectedStable, RecordedType DEF Survey, PlanInv
<1>12. CASE EndSurvey
  BY <1>12, SelectedStable, RecordedType DEF EndSurvey, PlanInv
<1>13. CASE EndDestroy
  BY <1>13, SelectedStable, RecordedType DEF EndDestroy, PlanInv
<1>14. CASE ListFails
  BY <1>14, SelectedStable, RecordedType DEF ListFails, PlanInv
<1>15. CASE StartDestroy
  BY <1>15, SelectedStable, RecordedType DEF StartDestroy, PlanInv
<1>16. CASE EditManifest
  BY <1>16, SelectedStable, RecordedType DEF EditManifest, PlanInv, cycleVars
<1>17. CASE Rotate
  BY <1>17, SelectedStable, RecordedType DEF Rotate, PlanInv, cycleVars
<1>18. ASSUME NEW r \in Resources, Meddle(r)
      PROVE  PlanInv'
  BY <1>18, SelectedStable DEF Meddle, PlanInv, cycleVars
<1>19. CASE UNCHANGED vars
  BY <1>19, SelectedStable DEF vars, PlanInv, cycleVars
<1>20. QED
  BY <1>1, <1>2, <1>3, <1>4, <1>5, <1>6, <1>7, <1>8, <1>9, <1>10, <1>11, <1>12,
     <1>13, <1>14, <1>15, <1>16, <1>17, <1>18, <1>19 DEF Next, EngineStep,
     Fault, Planning, Writing, Deleting

(* What is listed is of the current kind, not selected, and gcplane's. *)
LEMMA ListStep == TypeOK /\ PlanInv /\ ListInv /\ [Next]_vars => ListInv'
<1> SUFFICES ASSUME TypeOK, PlanInv, ListInv, [Next]_vars
             PROVE  ListInv'
  OBVIOUS
<1>1. ASSUME NEW r \in Resources, Planning(r)
      PROVE  ListInv'
  <2>1. PlanningEffect(r)
    BY <1>1, PlanningDoes
  <2>2. QED
    BY <2>1, SelectedStable, RecordedType DEF PlanningEffect, ListInv
<1>2. ASSUME NEW r \in Resources, Writing(r)
      PROVE  ListInv'
  <2>1. WritingEffect(r)
    BY <1>2, WritingDoes
  <2>2. QED
    BY <2>1, SelectedStable, RecordedType DEF WritingEffect, ListInv
<1>3. ASSUME NEW r \in Resources, Deleting(r)
      PROVE  ListInv'
  <2>1. DeletingEffect(r)
    BY <1>3, DeletingDoes
  <2>2. QED
    BY <2>1, SelectedStable, RecordedType DEF DeletingEffect, MayFail, TypeOK,
       ListInv
<1>4. CASE Start
  BY <1>4, SelectedStable, RecordedType DEF Start, ListInv
<1>5. CASE EndObserve
  BY <1>5, SelectedStable, RecordedType DEF EndObserve, ListInv
<1>6. CASE EndExecute
  BY <1>6, SelectedStable, RecordedType DEF EndExecute, ListInv
<1>7. CASE EndApply
  BY <1>7, SelectedStable, RecordedType DEF EndApply, ListInv
<1>8. CASE List
  BY <1>8, SelectedStable DEF List, Orphans, Orphan, ListInv
<1>9. CASE EndDelete
  BY <1>9, SelectedStable, RecordedType DEF EndDelete, ListInv
<1>10. CASE EndPrune
  BY <1>10, SelectedStable, RecordedType DEF EndPrune, ListInv
<1>11. CASE Survey
  BY <1>11, SelectedStable, RecordedType DEF Survey, ListInv
<1>12. CASE EndSurvey
  BY <1>12, SelectedStable, RecordedType DEF EndSurvey, ListInv
<1>13. CASE EndDestroy
  BY <1>13, SelectedStable, RecordedType DEF EndDestroy, ListInv
<1>14. CASE ListFails
  BY <1>14, SelectedStable, RecordedType DEF ListFails, Event, ListInv
<1>15. CASE StartDestroy
  BY <1>15, SelectedStable, RecordedType DEF StartDestroy, ListInv
<1>16. CASE EditManifest
  BY <1>16, SelectedStable, RecordedType DEF EditManifest, ListInv, cycleVars
<1>17. CASE Rotate
  BY <1>17, SelectedStable, RecordedType DEF Rotate, Event, ListInv, cycleVars
<1>18. ASSUME NEW r \in Resources, Meddle(r)
      PROVE  ListInv'
  BY <1>18, SelectedStable DEF Meddle, Event, ListInv, cycleVars
<1>19. CASE UNCHANGED vars
  BY <1>19, SelectedStable DEF vars, ListInv, cycleVars
<1>20. QED
  BY <1>1, <1>2, <1>3, <1>4, <1>5, <1>6, <1>7, <1>8, <1>9, <1>10, <1>11, <1>12,
     <1>13, <1>14, <1>15, <1>16, <1>17, <1>18, <1>19 DEF Next, EngineStep,
     Fault, Planning, Writing, Deleting

(* While a cycle runs the manifest does not change. *)
LEMMA PhaseStep == TypeOK /\ PlanInv /\ PhaseInv /\ [Next]_vars => PhaseInv'
<1> SUFFICES ASSUME TypeOK, PlanInv, PhaseInv, [Next]_vars
             PROVE  PhaseInv'
  OBVIOUS
<1>1. ASSUME NEW r \in Resources, Planning(r)
      PROVE  PhaseInv'
  <2>1. PlanningEffect(r)
    BY <1>1, PlanningDoes
  <2>2. QED
    BY <2>1, SelectedStable, RecordedType DEF PlanningEffect, MayFail,
       PhaseInv, Undisturbed
<1>2. ASSUME NEW r \in Resources, Writing(r)
      PROVE  PhaseInv'
  <2>1. WritingEffect(r)
    BY <1>2, WritingDoes
  <2>2. QED
    BY <2>1, SelectedStable, RecordedType DEF WritingEffect, MayFail, PhaseInv,
       Undisturbed
<1>3. ASSUME NEW r \in Resources, Deleting(r)
      PROVE  PhaseInv'
  <2>1. DeletingEffect(r)
    BY <1>3, DeletingDoes
  <2>2. QED
    BY <2>1, SelectedStable, RecordedType DEF DeletingEffect, MayFail,
       PhaseInv, Undisturbed
<1>4. CASE Start
  BY <1>4, SelectedStable, RecordedType DEF Start, PhaseInv, Undisturbed
<1>5. CASE EndObserve
  BY <1>5, SelectedStable, RecordedType DEF EndObserve, PhaseInv, Undisturbed
<1>6. CASE EndExecute
  BY <1>6, SelectedStable, RecordedType DEF EndExecute, PhaseInv, Undisturbed
<1>7. CASE EndApply
  BY <1>7, SelectedStable, RecordedType DEF EndApply, PhaseInv, Undisturbed
<1>8. CASE List
  BY <1>8, SelectedStable, RecordedType DEF List, PhaseInv, Undisturbed
<1>9. CASE EndDelete
  BY <1>9, SelectedStable, RecordedType DEF EndDelete, PhaseInv, Undisturbed
<1>10. CASE EndPrune
  BY <1>10, SelectedStable, RecordedType DEF EndPrune, PhaseInv
<1>11. CASE Survey
  BY <1>11, SelectedStable, RecordedType DEF Survey, PhaseInv
<1>12. CASE EndSurvey
  BY <1>12, SelectedStable, RecordedType DEF EndSurvey, PhaseInv
<1>13. CASE EndDestroy
  BY <1>13, SelectedStable, RecordedType DEF EndDestroy, PhaseInv
<1>14. CASE ListFails
  BY <1>14, SelectedStable, RecordedType DEF ListFails, Event, PhaseInv,
     Undisturbed
<1>15. CASE StartDestroy
  BY <1>15, SelectedStable, RecordedType DEF StartDestroy, PhaseInv
<1>16. CASE EditManifest
  BY <1>16, SelectedStable, RecordedType DEF EditManifest, PhaseInv, cycleVars
<1>17. CASE Rotate
  BY <1>17, SelectedStable, RecordedType DEF Rotate, Event, PhaseInv,
     Undisturbed, cycleVars
<1>18. ASSUME NEW r \in Resources, Meddle(r)
      PROVE  PhaseInv'
  BY <1>18, SelectedStable DEF Meddle, Event, PhaseInv, Undisturbed, cycleVars
<1>19. CASE UNCHANGED vars
  BY <1>19, SelectedStable DEF vars, PhaseInv, Undisturbed, cycleVars
<1>20. QED
  BY <1>1, <1>2, <1>3, <1>4, <1>5, <1>6, <1>7, <1>8, <1>9, <1>10, <1>11, <1>12,
     <1>13, <1>14, <1>15, <1>16, <1>17, <1>18, <1>19 DEF Next, EngineStep,
     Fault, Planning, Writing, Deleting

(* Every kind that the apply loop has left behind is observed and written. *)
LEMMA ProgressStep ==
  TypeOK /\ PlanInv /\ ListInv /\ PhaseInv /\ ProgressInv /\ [Next]_vars => ProgressInv'
<1> SUFFICES ASSUME TypeOK, PlanInv, ListInv, PhaseInv, ProgressInv, [Next]_vars
             PROVE  ProgressInv'
  OBVIOUS
<1> USE SelectedAreResources DEF NoChange
<1>1. ASSUME NEW r \in Resources, Planning(r)
      PROVE  ProgressInv'
  <2>1. PlanningEffect(r)
    BY <1>1, PlanningDoes
  <2>2. QED
    BY <2>1, SelectedStable, RecordedType DEF PlanningEffect, PhaseInv,
       ProgressInv
<1>2. ASSUME NEW r \in Resources, Writing(r)
      PROVE  ProgressInv'
  <2>1. WritingEffect(r)
    BY <1>2, WritingDoes
  <2>2. QED
    BY <2>1, SelectedStable, RecordedType DEF WritingEffect, PhaseInv,
       ProgressInv
<1>3. ASSUME NEW r \in Resources, Deleting(r)
      PROVE  ProgressInv'
  <2>1. DeletingEffect(r)
    BY <1>3, DeletingDoes
  <2>2. QED
    BY <2>1, SelectedStable, RecordedType DEF DeletingEffect, MayFail,
       ProgressInv, Undisturbed
<1>4. CASE Start
  BY <1>4, SelectedStable, RecordedType DEF Start, ProgressInv
<1>5. CASE EndObserve
  BY <1>5, SelectedStable, RecordedType DEF EndObserve, PhaseInv, ProgressInv
<1>6. CASE EndExecute
  BY <1>6, SelectedStable, RecordedType DEF EndExecute, PhaseInv, ProgressInv
<1>7. CASE EndApply
  BY <1>7, SelectedStable, RecordedType DEF EndApply, PhaseInv, ProgressInv
<1>8. CASE List
  BY <1>8, SelectedStable, RecordedType DEF List, PhaseInv, ProgressInv
<1>9. CASE EndDelete
  BY <1>9, SelectedStable, RecordedType DEF EndDelete, PhaseInv, ProgressInv
<1>10. CASE EndPrune
  BY <1>10, SelectedStable, RecordedType DEF EndPrune, PhaseInv, ProgressInv
<1>11. CASE Survey
  BY <1>11, SelectedStable, RecordedType DEF Survey, ProgressInv, Undisturbed
<1>12. CASE EndSurvey
  BY <1>12, SelectedStable, RecordedType DEF EndSurvey, ProgressInv,
     Undisturbed
<1>13. CASE EndDestroy
  BY <1>13, SelectedStable, RecordedType DEF EndDestroy, ProgressInv,
     Undisturbed
<1>14. CASE ListFails
  BY <1>14, SelectedStable, RecordedType DEF ListFails, Event, ProgressInv,
     Undisturbed
<1>15. CASE StartDestroy
  BY <1>15, SelectedStable, RecordedType DEF StartDestroy, ProgressInv,
     Undisturbed
<1>16. CASE EditManifest
  BY <1>16, SelectedStable, RecordedType DEF EditManifest, Event, ProgressInv,
     Undisturbed, cycleVars
<1>17. CASE Rotate
  BY <1>17, SelectedStable, RecordedType DEF Rotate, Event, ProgressInv,
     Undisturbed, cycleVars
<1>18. ASSUME NEW r \in Resources, Meddle(r)
      PROVE  ProgressInv'
  BY <1>18, SelectedStable DEF Meddle, Event, ProgressInv, Undisturbed,
     cycleVars
<1>19. CASE UNCHANGED vars
  BY <1>19, SelectedStable DEF vars, ProgressInv, Undisturbed, cycleVars
<1>20. QED
  BY <1>1, <1>2, <1>3, <1>4, <1>5, <1>6, <1>7, <1>8, <1>9, <1>10, <1>11, <1>12,
     <1>13, <1>14, <1>15, <1>16, <1>17, <1>18, <1>19 DEF Next, EngineStep,
     Fault, Planning, Writing, Deleting

(* What is handled and not failed is as declared. *)
LEMMA SyncStep ==
  TypeOK /\ PlanInv /\ ListInv /\ PhaseInv /\ SyncInv /\ [Next]_vars => SyncInv'
<1> SUFFICES ASSUME TypeOK, PlanInv, ListInv, PhaseInv, SyncInv, [Next]_vars
             PROVE  SyncInv'
  OBVIOUS
<1> USE SelectedAreResources DEF NoChange
<1>1. ASSUME NEW r \in Resources, Planning(r)
      PROVE  SyncInv'
  <2>1. PlanningEffect(r) /\ PlanningFinds(r)
    BY <1>1, PlanningDoes, PlanningFindsOut
  <2>2. QED
    BY <2>1, SelectedStable DEF PlanningEffect, PlanningFinds, MayFail,
       PhaseInv, SyncInv, Handled, Exists
<1>2. ASSUME NEW r \in Resources, Writing(r)
      PROVE  SyncInv'
  <2>1. WritingEffect(r) /\ WritingEnds(r)
    BY <1>2, WritingDoes, WritingEndsSo
  <2>2. QED
    BY <2>1, SelectedStable DEF WritingEffect, WritingEnds, MayFail, PhaseInv,
       SyncInv, Handled, Exists
<1>3. ASSUME NEW r \in Resources, Deleting(r)
      PROVE  SyncInv'
  <2>1. DeletingEffect(r)
    BY <1>3, DeletingDoes
  <2>2. QED
    BY <2>1, SelectedStable, RecordedType DEF DeletingEffect, MayFail, TypeOK,
       ListInv, PhaseInv, SyncInv, Undisturbed, Handled, Exists
<1>4. CASE Start
  <2>1. Selected' \subseteq Resources
    BY DEF Selected, Declared
  <2>2. \A r \in Resources : plan'[r].action = "none" /\ plan'[r].step = "done"
    BY <1>4, RecordedType DEF Start
  <2>3. disturbed' = {} /\ failed' = {}
    BY <1>4 DEF Start
  <2>4. QED
    BY <2>1, <2>2, <2>3 DEF SyncInv, Handled
<1>5. CASE EndObserve
  BY <1>5, SelectedStable, RecordedType DEF EndObserve, PhaseInv, SyncInv,
     Handled, Exists
<1>6. CASE EndExecute
  BY <1>6, SelectedStable, RecordedType DEF EndExecute, PhaseInv, SyncInv,
     Handled, Exists
<1>7. CASE EndApply
  BY <1>7, SelectedStable, RecordedType DEF EndApply, PhaseInv, SyncInv,
     Handled, Exists
<1>8. CASE List
  BY <1>8, SelectedStable, RecordedType DEF List, PhaseInv, SyncInv, Handled,
     Exists
<1>9. CASE EndDelete
  BY <1>9, SelectedStable, RecordedType DEF EndDelete, PhaseInv, SyncInv,
     Handled, Exists
<1>10. CASE EndPrune
  BY <1>10, SelectedStable, RecordedType DEF EndPrune, PhaseInv, SyncInv,
     Handled, Exists
<1>11. CASE Survey
  BY <1>11, SelectedStable, RecordedType DEF Survey, PhaseInv, SyncInv,
     Undisturbed
<1>12. CASE EndSurvey
  BY <1>12, SelectedStable, RecordedType DEF EndSurvey, PhaseInv, SyncInv,
     Undisturbed
<1>13. CASE EndDestroy
  BY <1>13, SelectedStable, RecordedType DEF EndDestroy, PhaseInv, SyncInv,
     Undisturbed
<1>14. CASE ListFails
  BY <1>14, SelectedStable, RecordedType DEF ListFails, Event, SyncInv,
     Undisturbed, Handled, Exists
<1>15. CASE StartDestroy
  BY <1>15, SelectedStable, RecordedType DEF StartDestroy, SyncInv, Undisturbed
<1>16. CASE EditManifest
  BY <1>16, SelectedStable, RecordedType DEF EditManifest, Event, SyncInv,
     Undisturbed
<1>17. CASE Rotate
  BY <1>17, SelectedStable, RecordedType DEF Rotate, Event, SyncInv,
     Undisturbed, Handled, Exists, cycleVars
<1>18. ASSUME NEW r \in Resources, Meddle(r)
      PROVE  SyncInv'
  BY <1>18, SelectedStable DEF Meddle, Event, SyncInv
<1>19. CASE UNCHANGED vars
  BY <1>19, SelectedStable DEF vars, SyncInv, Undisturbed, Handled, Exists,
     cycleVars
<1>20. QED
  BY <1>1, <1>2, <1>3, <1>4, <1>5, <1>6, <1>7, <1>8, <1>9, <1>10, <1>11, <1>12,
     <1>13, <1>14, <1>15, <1>16, <1>17, <1>18, <1>19 DEF Next, EngineStep,
     Fault, Planning, Writing, Deleting

(* When nothing interferes, what the resource at hand refers to is there,
   unless this cycle does not provide it: ApplyOrder has put it before. *)
LEMMA MissingReference ==
  ASSUME TypeOK, ProgressInv, QuietInv, disturbed = {}, ~opts.dryRun,
         NEW r \in Resources, r.kind \in todo, r.kind = FirstKind(todo),
         NEW d \in Needs[r], ~Exists(d)
  PROVE  d \in Ignored \/ d \notin Selected
<1> SUFFICES ASSUME d \in Selected \ Ignored
             PROVE  Exists(d)
  OBVIOUS
<1>1. d \in Resources /\ <<r.kind, d.kind>> \in References
  BY EngineAssumption
<1>2. Rank[d.kind] < Rank[r.kind] /\ H(d).looksUp \subseteq {"side"}
  BY <1>1, ReferencesRankLower, ReferredNeedNoLookup DEF H
<1>3. todo \subseteq Kinds /\ todo # {}
  BY DEF TypeOK
<1>4. \A j \in todo : Rank[r.kind] <= Rank[j]
  BY <1>3, FirstKindRanksLowest
<1>5. d.kind \notin todo
  <2> SUFFICES ASSUME d.kind \in todo
               PROVE  FALSE
    OBVIOUS
  <2>1. Rank[d.kind] \in 1..16 /\ Rank[r.kind] \in 1..16
    BY <1>3, RankOfKind
  <2>2. QED
    BY <1>2, <1>4, <2>1
<1>6. Handled(d)
  BY <1>5 DEF ProgressInv, Undisturbed, Handled
<1>7. QED
  BY <1>2, <1>6 DEF QuietInv

(* A failure that the step records has such a reference. *)
LEMMA FailureStays ==
  ASSUME TypeOK, QuietInv, disturbed = {}, ~opts.dryRun,
         UNCHANGED <<manifest, opts>>,
         \A s \in Resources : (s \in Ignored \/ s \notin Selected) /\ ~Exists(s) => ~Exists(s)',
         NEW s \in failed
  PROVE  \E d \in Needs[s] : ~Exists(d)' /\ (d \in Ignored \/ d \notin Selected')
<1>1. PICK d \in Needs[s] : ~Exists(d) /\ (d \in Ignored \/ d \notin Selected)
  BY DEF QuietInv
<1>2. d \in Resources
  BY EngineAssumption DEF TypeOK
<1>3. QED
  BY <1>1, <1>2, SelectedStable

(* When nothing interferes, failures come from references that the cycle does not provide. *)
LEMMA QuietStep ==
  TypeOK /\ PlanInv /\ ListInv /\ PhaseInv /\ ProgressInv /\ QuietInv /\ [Next]_vars => QuietInv'
<1> SUFFICES ASSUME TypeOK, PlanInv, ListInv, PhaseInv, ProgressInv, QuietInv, [Next]_vars
             PROVE  QuietInv'
  OBVIOUS
<1> USE SelectedAreResources, EngineAssumption DEF NoChange
<1>1. ASSUME NEW r \in Resources, Planning(r)
      PROVE  QuietInv'
  <2>1. PlanningEffect(r) /\ PlanningFinds(r)
    BY <1>1, PlanningDoes, PlanningFindsOut
  <2>2. disturbed' = {} => disturbed = {}
    BY <2>1 DEF PlanningEffect, MayFail
  <2>3. Selected' = Selected /\ opts' = opts
    BY <2>1, SelectedStable DEF PlanningEffect
  <2>4. ASSUME disturbed' = {}, NEW s \in Selected \ Ignored
        PROVE  /\ Handled(s)' /\ H(s).looksUp \subseteq {"side"} => Exists(s)'
               /\ plan'[s].step = "side" => Exists(s)'
               /\ plan'[s].step = "main" /\ ~H(s).upsert
                    => (plan'[s].action = "create" <=> ~Exists(s)')
    <3>1. CASE s = r
      BY <2>1, <2>2, <2>4, <3>1 DEF PlanningEffect, PlanningFinds, Handled,
         Exists
    <3>2. CASE s # r
      BY <2>1, <2>2, <2>4, <3>2 DEF PlanningEffect, QuietInv, Handled, Exists
    <3>3. QED
      BY <3>1, <3>2
  <2>5. ASSUME disturbed' = {}, ~opts.dryRun, NEW s \in failed'
        PROVE  \E d \in Needs[s] : ~Exists(d)' /\ (d \in Ignored \/ d \notin Selected')
    <3>1. \A x \in Resources : (x \in Ignored \/ x \notin Selected) /\ ~Exists(x) => ~Exists(x)'
      BY <2>1 DEF PlanningEffect, Exists
    <3>2. CASE s \in failed
      BY <2>1, <2>2, <2>5, <3>1, <3>2, FailureStays DEF PlanningEffect
    <3>3. CASE s \notin failed
      <4>1. s = r /\ failed' # failed
        BY <2>1, <2>5, <3>3 DEF PlanningEffect
      <4>2. PICK d \in Needs[r] : ~Exists(d)
        BY <2>1, <2>2, <2>5, <4>1 DEF PlanningFinds
      <4>3. d \in Ignored \/ d \notin Selected
        BY <2>1, <2>2, <2>5, <4>2, MissingReference DEF PlanningEffect
      <4>4. d \in Resources
        BY EngineAssumption
      <4>5. QED
        BY <2>3, <3>1, <4>1, <4>2, <4>3, <4>4
    <3>4. QED
      BY <3>2, <3>3
  <2>6. QED
    BY <2>3, <2>4, <2>5 DEF QuietInv
<1>2. ASSUME NEW r \in Resources, Writing(r)
      PROVE  QuietInv'
  <2>1. WritingEffect(r) /\ WritingEnds(r)
    BY <1>2, WritingDoes, WritingEndsSo
  <2>2. disturbed' = {} => disturbed = {}
    BY <2>1 DEF WritingEffect, MayFail
  <2>3. Selected' = Selected /\ opts' = opts
    BY <2>1, SelectedStable DEF WritingEffect
  <2>4. ASSUME disturbed' = {}, NEW s \in Selected \ Ignored
        PROVE  /\ Handled(s)' /\ H(s).looksUp \subseteq {"side"} => Exists(s)'
               /\ plan'[s].step = "side" => Exists(s)'
               /\ plan'[s].step = "main" /\ ~H(s).upsert
                    => (plan'[s].action = "create" <=> ~Exists(s)')
    <3>1. CASE s = r
      BY <2>1, <2>2, <2>4, <3>1 DEF WritingEffect, WritingEnds, QuietInv
    <3>2. CASE s # r
      BY <2>1, <2>2, <2>4, <3>2 DEF WritingEffect, QuietInv, Handled, Exists
    <3>3. QED
      BY <3>1, <3>2
  <2>5. ASSUME disturbed' = {}, ~opts.dryRun, NEW s \in failed'
        PROVE  \E d \in Needs[s] : ~Exists(d)' /\ (d \in Ignored \/ d \notin Selected')
    <3>1. \A x \in Resources : (x \in Ignored \/ x \notin Selected) /\ ~Exists(x) => ~Exists(x)'
      BY <2>1 DEF WritingEffect, PlanInv, Exists
    <3>2. CASE s \in failed
      BY <2>1, <2>2, <2>5, <3>1, <3>2, FailureStays DEF WritingEffect
    <3>3. CASE s \notin failed
      <4>1. s = r /\ failed' # failed
        BY <2>1, <2>5, <3>3 DEF WritingEffect
      <4>2. PICK d \in Needs[r] : ~Exists(d)
        BY <2>1, <2>2, <2>5, <4>1 DEF WritingEffect, WritingEnds, PlanInv,
           QuietInv
      <4>3. d \in Ignored \/ d \notin Selected
        BY <2>1, <2>2, <2>5, <4>2, MissingReference DEF WritingEffect
      <4>4. d \in Resources
        BY EngineAssumption
      <4>5. QED
        BY <2>3, <3>1, <4>1, <4>2, <4>3, <4>4
    <3>4. QED
      BY <3>2, <3>3
  <2>6. QED
    BY <2>3, <2>4, <2>5 DEF QuietInv
<1>3. ASSUME NEW r \in Resources, Deleting(r)
      PROVE  QuietInv'
  <2>1. DeletingEffect(r)
    BY <1>3, DeletingDoes
  <2>2. QED
    BY <2>1, SelectedStable, RecordedType DEF DeletingEffect, MayFail, TypeOK,
       PhaseInv, QuietInv, ListInv, Handled, Exists
<1>4. CASE Start
  <2>1. Selected' \subseteq Resources
    BY DEF Selected, Declared
  <2>2. \A r \in Resources : plan'[r].action = "none" /\ plan'[r].step = "done"
    BY <1>4, RecordedType DEF Start
  <2>3. disturbed' = {} /\ failed' = {}
    BY <1>4 DEF Start
  <2>4. QED
    BY <2>1, <2>2, <2>3 DEF QuietInv, Handled
<1>5. CASE EndObserve
  BY <1>5, SelectedStable, RecordedType DEF EndObserve, QuietInv, Handled,
     Exists
<1>6. CASE EndExecute
  BY <1>6, SelectedStable, RecordedType DEF EndExecute, QuietInv, Handled,
     Exists
<1>7. CASE EndApply
  BY <1>7, SelectedStable, RecordedType DEF EndApply, QuietInv, Handled, Exists
<1>8. CASE List
  BY <1>8, SelectedStable, RecordedType DEF List, QuietInv, Handled, Exists
<1>9. CASE EndDelete
  BY <1>9, SelectedStable, RecordedType DEF EndDelete, QuietInv, Handled,
     Exists
<1>10. CASE EndPrune
  BY <1>10, SelectedStable, RecordedType DEF EndPrune, QuietInv, Handled,
     Exists
<1>11. CASE Survey
  BY <1>11, SelectedStable, RecordedType DEF Survey, PhaseInv, QuietInv
<1>12. CASE EndSurvey
  BY <1>12, SelectedStable, RecordedType DEF EndSurvey, PhaseInv, QuietInv
<1>13. CASE EndDestroy
  BY <1>13, SelectedStable, RecordedType DEF EndDestroy, PhaseInv, QuietInv
<1>14. CASE ListFails
  BY <1>14, SelectedStable, RecordedType DEF ListFails, Event, QuietInv
<1>15. CASE StartDestroy
  BY <1>15, SelectedStable, RecordedType DEF StartDestroy, QuietInv
<1>16. CASE EditManifest
  BY <1>16, SelectedStable, RecordedType DEF EditManifest, Event, QuietInv
<1>17. CASE Rotate
  BY <1>17, SelectedStable, RecordedType DEF Rotate, Event, QuietInv
<1>18. ASSUME NEW r \in Resources, Meddle(r)
      PROVE  QuietInv'
  BY <1>18, SelectedStable DEF Meddle, Event, QuietInv
<1>19. CASE UNCHANGED vars
  BY <1>19, SelectedStable DEF vars, QuietInv, Handled, Exists, cycleVars
<1>20. QED
  BY <1>1, <1>2, <1>3, <1>4, <1>5, <1>6, <1>7, <1>8, <1>9, <1>10, <1>11, <1>12,
     <1>13, <1>14, <1>15, <1>16, <1>17, <1>18, <1>19 DEF Next, EngineStep,
     Fault, Planning, Writing, Deleting

(* The orphans left are of kinds to come, or listed. *)
LEMMA OrphanStep ==
  TypeOK /\ PlanInv /\ ListInv /\ PhaseInv /\ OrphanInv /\ [Next]_vars => OrphanInv'
<1> SUFFICES ASSUME TypeOK, PlanInv, ListInv, PhaseInv, OrphanInv, [Next]_vars
             PROVE  OrphanInv'
  OBVIOUS
<1>1. ASSUME NEW r \in Resources, Planning(r)
      PROVE  OrphanInv'
  <2>1. PlanningEffect(r)
    BY <1>1, PlanningDoes
  <2>2. QED
    BY <2>1, SelectedStable, RecordedType DEF PlanningEffect, OrphanInv
<1>2. ASSUME NEW r \in Resources, Writing(r)
      PROVE  OrphanInv'
  <2>1. WritingEffect(r)
    BY <1>2, WritingDoes
  <2>2. QED
    BY <2>1, SelectedStable, RecordedType DEF WritingEffect, OrphanInv
<1>3. ASSUME NEW r \in Resources, Deleting(r)
      PROVE  OrphanInv'
  <2>1. DeletingEffect(r)
    BY <1>3, DeletingDoes
  <2>2. QED
    BY <2>1, SelectedStable, RecordedType DEF DeletingEffect, MayFail, TypeOK,
       OrphanInv, Orphan, NoObject
<1>4. CASE Start
  BY <1>4, SelectedStable, RecordedType DEF Start, OrphanInv
<1>5. CASE EndObserve
  BY <1>5, SelectedStable, RecordedType DEF EndObserve, OrphanInv
<1>6. CASE EndExecute
  BY <1>6, SelectedStable, RecordedType DEF EndExecute, OrphanInv
<1>7. CASE EndApply
  BY <1>7, SelectedStable, RecordedType DEF EndApply, OrphanInv
<1>8. CASE List
  BY <1>8, SelectedStable DEF List, Orphans, OrphanInv, Orphan
<1>9. CASE EndDelete
  BY <1>9, SelectedStable, RecordedType DEF EndDelete, OrphanInv, Orphan
<1>10. CASE EndPrune
  BY <1>10, SelectedStable, RecordedType DEF EndPrune, OrphanInv, Orphan
<1>11. CASE Survey
  BY <1>11, SelectedStable, RecordedType DEF Survey, OrphanInv
<1>12. CASE EndSurvey
  BY <1>12, SelectedStable, RecordedType DEF EndSurvey, PhaseInv, OrphanInv
<1>13. CASE EndDestroy
  BY <1>13, SelectedStable, RecordedType DEF EndDestroy, PhaseInv, OrphanInv
<1>14. CASE ListFails
  BY <1>14, SelectedStable, RecordedType DEF ListFails, Event, OrphanInv
<1>15. CASE StartDestroy
  BY <1>15, SelectedStable, RecordedType DEF StartDestroy, OrphanInv
<1>16. CASE EditManifest
  BY <1>16, SelectedStable, RecordedType DEF EditManifest, Event, OrphanInv
<1>17. CASE Rotate
  BY <1>17, SelectedStable, RecordedType DEF Rotate, Event, OrphanInv
<1>18. ASSUME NEW r \in Resources, Meddle(r)
      PROVE  OrphanInv'
  BY <1>18, SelectedStable DEF Meddle, Event, OrphanInv
<1>19. CASE UNCHANGED vars
  BY <1>19, SelectedStable DEF vars, OrphanInv, Orphan, cycleVars
<1>20. QED
  BY <1>1, <1>2, <1>3, <1>4, <1>5, <1>6, <1>7, <1>8, <1>9, <1>10, <1>11, <1>12,
     <1>13, <1>14, <1>15, <1>16, <1>17, <1>18, <1>19 DEF Next, EngineStep,
     Fault, Planning, Writing, Deleting

(* destroy has listed the gcplane objects of the kinds it has surveyed. *)
LEMMA DestroyStep ==
  TypeOK /\ PlanInv /\ ListInv /\ PhaseInv /\ DestroyInv /\ [Next]_vars => DestroyInv'
<1> SUFFICES ASSUME TypeOK, PlanInv, ListInv, PhaseInv, DestroyInv, [Next]_vars
             PROVE  DestroyInv'
  OBVIOUS
<1> USE DEF NoChange
<1>1. ASSUME NEW r \in Resources, Planning(r)
      PROVE  DestroyInv'
  <2>1. PlanningEffect(r)
    BY <1>1, PlanningDoes
  <2>2. QED
    BY <2>1, SelectedStable, RecordedType DEF PlanningEffect, DestroyInv
<1>2. ASSUME NEW r \in Resources, Writing(r)
      PROVE  DestroyInv'
  <2>1. WritingEffect(r)
    BY <1>2, WritingDoes
  <2>2. QED
    BY <2>1, SelectedStable, RecordedType DEF WritingEffect, DestroyInv
<1>3. ASSUME NEW r \in Resources, Deleting(r)
      PROVE  DestroyInv'
  <2>1. DeletingEffect(r)
    BY <1>3, DeletingDoes
  <2>2. QED
    BY <2>1, SelectedStable, RecordedType DEF DeletingEffect, MayFail, TypeOK,
       ListInv, DestroyInv, NoObject
<1>4. CASE Start
  BY <1>4, SelectedStable, RecordedType DEF Start, DestroyInv
<1>5. CASE EndObserve
  BY <1>5, SelectedStable, RecordedType DEF EndObserve, DestroyInv
<1>6. CASE EndExecute
  BY <1>6, SelectedStable, RecordedType DEF EndExecute, DestroyInv
<1>7. CASE EndApply
  BY <1>7, SelectedStable, RecordedType DEF EndApply, DestroyInv
<1>8. CASE List
  BY <1>8, SelectedStable, RecordedType DEF List, DestroyInv
<1>9. CASE EndDelete
  BY <1>9, SelectedStable, RecordedType DEF EndDelete, DestroyInv
<1>10. CASE EndPrune
  BY <1>10, SelectedStable, RecordedType DEF EndPrune, DestroyInv
<1>11. CASE Survey
  BY <1>11, SelectedStable, RecordedType DEF Survey, DestroyInv
<1>12. CASE EndSurvey
  BY <1>12, SelectedStable, RecordedType DEF EndSurvey, DestroyInv
<1>13. CASE EndDestroy
  BY <1>13, SelectedStable, RecordedType DEF EndDestroy, DestroyInv
<1>14. CASE ListFails
  <2>1. "fault" \in disturbed'
    BY <1>14 DEF ListFails, Event
  <2>2. disturbed' # {"destroy"}
    BY <2>1
  <2>3. QED
    BY <2>2 DEF DestroyInv
<1>15. CASE StartDestroy
  BY <1>15, SelectedStable, RecordedType DEF StartDestroy, DestroyInv
<1>16. CASE EditManifest
  BY <1>16, SelectedStable, RecordedType DEF EditManifest, Event, DestroyInv
<1>17. CASE Rotate
  BY <1>17, SelectedStable, RecordedType DEF Rotate, Event, DestroyInv
<1>18. ASSUME NEW r \in Resources, Meddle(r)
      PROVE  DestroyInv'
  BY <1>18, SelectedStable DEF Meddle, Event, DestroyInv
<1>19. CASE UNCHANGED vars
  BY <1>19, SelectedStable DEF vars, DestroyInv, cycleVars
<1>20. QED
  BY <1>1, <1>2, <1>3, <1>4, <1>5, <1>6, <1>7, <1>8, <1>9, <1>10, <1>11, <1>12,
     <1>13, <1>14, <1>15, <1>16, <1>17, <1>18, <1>19 DEF Next, EngineStep,
     Fault, Planning, Writing, Deleting

(* A destroy that went ahead leaves nothing it could list. *)
LEMMA EmptiesStep ==
  TypeOK /\ PlanInv /\ ListInv /\ PhaseInv /\ DestroyInv /\ QuietDestroyEmpties
    /\ [Next]_vars => QuietDestroyEmpties'
<1> SUFFICES ASSUME TypeOK, PlanInv, ListInv, PhaseInv, DestroyInv, QuietDestroyEmpties, [Next]_vars
             PROVE  QuietDestroyEmpties'
  OBVIOUS
<1> USE DEF NoChange
<1>1. ASSUME NEW r \in Resources, Planning(r)
      PROVE  QuietDestroyEmpties'
  <2>1. PlanningEffect(r)
    BY <1>1, PlanningDoes
  <2>2. QED
    BY <2>1, SelectedStable, RecordedType DEF PlanningEffect,
       QuietDestroyEmpties
<1>2. ASSUME NEW r \in Resources, Writing(r)
      PROVE  QuietDestroyEmpties'
  <2>1. WritingEffect(r)
    BY <1>2, WritingDoes
  <2>2. QED
    BY <2>1, SelectedStable, RecordedType DEF WritingEffect,
       QuietDestroyEmpties
<1>3. ASSUME NEW r \in Resources, Deleting(r)
      PROVE  QuietDestroyEmpties'
  <2>1. DeletingEffect(r)
    BY <1>3, DeletingDoes
  <2>2. QED
    BY <2>1, SelectedStable, RecordedType DEF DeletingEffect,
       QuietDestroyEmpties
<1>4. CASE Start
  BY <1>4, SelectedStable, RecordedType DEF Start, QuietDestroyEmpties
<1>5. CASE EndObserve
  BY <1>5, SelectedStable, RecordedType DEF EndObserve, QuietDestroyEmpties
<1>6. CASE EndExecute
  BY <1>6, SelectedStable, RecordedType DEF EndExecute, QuietDestroyEmpties
<1>7. CASE EndApply
  BY <1>7, SelectedStable, RecordedType DEF EndApply, PhaseInv,
     QuietDestroyEmpties, Undisturbed
<1>8. CASE List
  BY <1>8, SelectedStable, RecordedType DEF List, QuietDestroyEmpties
<1>9. CASE EndDelete
  BY <1>9, SelectedStable, RecordedType DEF EndDelete, QuietDestroyEmpties
<1>10. CASE EndPrune
  BY <1>10, SelectedStable, RecordedType DEF EndPrune, PhaseInv,
     QuietDestroyEmpties, Undisturbed
<1>11. CASE Survey
  BY <1>11, SelectedStable, RecordedType DEF Survey, QuietDestroyEmpties
<1>12. CASE EndSurvey
  BY <1>12, SelectedStable, RecordedType DEF EndSurvey, DestroyInv,
     QuietDestroyEmpties
<1>13. CASE EndDestroy
  BY <1>13, SelectedStable, RecordedType DEF EndDestroy, DestroyInv,
     QuietDestroyEmpties
<1>14. CASE ListFails
  BY <1>14, SelectedStable, RecordedType DEF ListFails, QuietDestroyEmpties
<1>15. CASE StartDestroy
  BY <1>15, SelectedStable, RecordedType DEF StartDestroy, QuietDestroyEmpties
<1>16. CASE EditManifest
  BY <1>16, SelectedStable, RecordedType DEF EditManifest, Event,
     QuietDestroyEmpties, cycleVars
<1>17. CASE Rotate
  BY <1>17, SelectedStable, RecordedType DEF Rotate, Event, ListInv,
     QuietDestroyEmpties, NoObject
<1>18. ASSUME NEW r \in Resources, Meddle(r)
      PROVE  QuietDestroyEmpties'
  BY <1>18, SelectedStable DEF Meddle, Event, ListInv, QuietDestroyEmpties
<1>19. CASE UNCHANGED vars
  BY <1>19, SelectedStable DEF vars, QuietDestroyEmpties, cycleVars
<1>20. QED
  BY <1>1, <1>2, <1>3, <1>4, <1>5, <1>6, <1>7, <1>8, <1>9, <1>10, <1>11, <1>12,
     <1>13, <1>14, <1>15, <1>16, <1>17, <1>18, <1>19 DEF Next, EngineStep,
     Fault, Planning, Writing, Deleting

-----------------------------------------------------------------------------
(* The theorems.                                                             *)

(* The initial states satisfy the invariant. *)
LEMMA InitIInv == Init => IInv
<1> SUFFICES ASSUME Init
             PROVE  IInv
  OBVIOUS
<1>1. TypeOK
  <2>1. remote \in [Resources -> Objects \cup {NoObject}]
    <3>1. PICK S \in Scopes : \E f \in [S -> InitialObjects] :
            remote = [r \in Resources |-> IF r \in S THEN f[r] ELSE NoObject]
      BY DEF Init
    <3>2. PICK f \in [S -> InitialObjects] :
            remote = [r \in Resources |-> IF r \in S THEN f[r] ELSE NoObject]
      BY <3>1
    <3>3. "theirs" \in Contents /\ NoHash \in Hashes /\ NoSide \in Sides
      BY EngineAssumption DEF Contents, Hashes
    <3>4. InitialObjects \subseteq Objects \cup {NoObject}
      BY <3>3 DEF InitialObjects, Objects
    <3>5. QED
      BY <3>2, <3>4
  <2>2. plan \in [Resources -> Changes]
    BY RecordedType DEF Init, NoChange
  <2>3. manifest \in [Resources -> Specs \cup {NoSpec}]
    BY EngineAssumption DEF Init
  <2>4. QED
    BY <2>1, <2>2, <2>3, EngineAssumption DEF Init, TypeOK
<1>2. phase = "idle" /\ listed = {} /\ disturbed = {"edit"}
  BY DEF Init
<1>3. QED
  BY <1>1, <1>2 DEF IInv, PlanInv, ListInv, PhaseInv, ProgressInv, SyncInv,
     QuietInv, OrphanInv, DestroyInv, QuietDestroyEmpties, Undisturbed

(* The engine keeps its inductive invariant, for any resources and options. *)
THEOREM EngineInvariant == Spec => []IInv
<1>1. IInv /\ [Next]_vars => IInv'
  BY TypeStep, PlanStep, ListStep, PhaseStep, ProgressStep, SyncStep,
     QuietStep, OrphanStep, DestroyStep, EmptiesStep DEF IInv
<1>2. QED
  BY InitIInv, <1>1, PTL DEF Spec

(* Every variable of the engine keeps its type: specs, objects, hashes and
   changes are never mixed up or made from parts that are not there. *)
THEOREM EngineTypes == Spec => []TypeOK
<1>1. IInv => TypeOK
  BY DEF IInv
<1>2. QED
  BY <1>1, EngineInvariant, PTL

(* When Reconcile reports no error, every selected resource that is not
   ignored exists with the declared spec, unless other users interfered. *)
THEOREM CleanCycleIsInSync == Spec => []CleanCycleInSync
<1>1. IInv => CleanCycleInSync
  <2> SUFFICES ASSUME IInv, phase = "idle", failed = {}, ~opts.dryRun,
                      disturbed \cap {"edit", "meddle", "destroy"} = {},
                      NEW r \in Selected \ Ignored
               PROVE  Exists(r) /\ remote[r].pub = manifest[r].pub
    BY DEF CleanCycleInSync
  <2>1. Undisturbed /\ "meddle" \notin disturbed
    BY DEF Undisturbed
  <2>2. Handled(r)
    BY <2>1 DEF IInv, ProgressInv, Handled
  <2>3. QED
    BY <2>1, <2>2 DEF IInv, SyncInv
<1>2. QED
  BY <1>1, EngineInvariant, PTL

(* A cycle that nothing interferes with has no error but a reference that it
   does not provide, whatever the manifest: ApplyOrder is a dependency order;
   and with Prune it leaves no orphan. *)
THEOREM QuietApplySucceedsAlways == Spec => []QuietApplySucceeds
<1>1. IInv => QuietApplySucceeds
  BY DEF IInv, QuietApplySucceeds, QuietInv, OrphanInv
<1>2. QED
  BY <1>1, EngineInvariant, PTL

(* A destroy that went ahead undisturbed leaves no gcplane object of a kind
   that it can list. *)
THEOREM QuietDestroyEmptiesAlways == Spec => []QuietDestroyEmpties
<1>1. IInv => QuietDestroyEmpties
  BY DEF IInv
<1>2. QED
  BY <1>1, EngineInvariant, PTL

(* The engine touches only what it may: nothing in a dry run, no ignored
   resource, no object of another user that is not declared. *)
THEOREM EngineStaysInScope == Spec => EngineInScope
<1> DEFINE InScopeOf(r) ==
      remote'[r] # remote[r] /\ "meddle" \notin disturbed' =>
        /\ ~opts.dryRun
        /\ CASE phase = "destroy" -> remote'[r] = NoObject /\ remote[r].owner = "gcplane"
             [] phase # "destroy" /\ r \in Selected -> remote'[r] # NoObject /\ r \notin Ignored
             [] OTHER -> /\ remote'[r] = NoObject
                         /\ opts.prune /\ remote[r].owner = "gcplane"
<1>1. IInv /\ [Next]_vars => [\A r \in Resources : InScopeOf(r)]_vars
  <2> SUFFICES ASSUME IInv, Next, NEW r \in Resources, remote'[r] # remote[r],
                      "meddle" \notin disturbed'
               PROVE  InScopeOf(r)
    OBVIOUS
  <2>1. TypeOK /\ PlanInv /\ ListInv
    BY DEF IInv
  <2>2. ASSUME NEW s \in Resources, Writing(s)
        PROVE  InScopeOf(r)
    <3>1. WritingEffect(s)
      BY <2>1, <2>2, WritingDoes
    <3>2. s = r /\ phase = "execute" /\ Exists(r)'
      BY <3>1 DEF WritingEffect
    <3>3. r \in Selected \ Ignored /\ ~opts.dryRun
      BY <2>1, <3>1, <3>2 DEF WritingEffect, PlanInv
    <3>4. remote'[r] # NoObject
      BY <3>2 DEF Exists, NoObject
    <3>5. QED
      BY <3>2, <3>3, <3>4
  <2>3. ASSUME NEW s \in Resources, Deleting(s)
        PROVE  InScopeOf(r)
    <3>1. DeletingEffect(s)
      BY <2>1, <2>3, DeletingDoes
    <3>2. s = r /\ r \in listed /\ remote'[r] = NoObject
      BY <2>1, <3>1 DEF DeletingEffect, TypeOK
    <3>3. remote[r].owner = "gcplane"
      BY <2>1, <3>1, <3>2 DEF DeletingEffect, ListInv, MayFail
    <3>4. phase = "delete" => opts.prune /\ r \notin Selected /\ ~opts.dryRun
      BY <2>1, <3>1, <3>2 DEF DeletingEffect, ListInv
    <3>5. phase = "destroy" => ~opts.dryRun
      BY <2>1 DEF ListInv
    <3>6. QED
      BY <3>1, <3>2, <3>3, <3>4, <3>5 DEF DeletingEffect
  <2>4. ASSUME NEW s \in Resources, Planning(s)
        PROVE  FALSE
    BY <2>1, <2>4, PlanningDoes DEF PlanningEffect
  <2>5. ASSUME NEW s \in Resources, Meddle(s)
        PROVE  FALSE
    BY <2>5 DEF Meddle, Event
  <2>6. QED
    BY <2>2, <2>3, <2>4, <2>5 DEF Next, EngineStep, Fault, Planning, Writing,
       Deleting, Start, EndObserve, EndExecute, EndApply, List, EndDelete,
       EndPrune, Survey, EndSurvey, EndDestroy, ListFails, EditManifest,
       Rotate, StartDestroy
<1>2. QED
  BY <1>1, EngineInvariant, PTL DEF Spec, EngineInScope

(* Deletes happen in reverse dependency order, in a prune and in a destroy. *)
THEOREM DependentsAreDeletedFirst == Spec => DependentsDeletedFirst
<1> DEFINE InOrder(r, d) ==
      /\ disturbed' \subseteq {"destroy"} /\ ~opts.dryRun
      /\ r \in Needs[d] /\ d.kind \notin NotPruned
      => IF phase = "destroy" THEN remote[d].owner # "gcplane"
         ELSE phase = "delete" => ~Orphan(d)
<1>1. IInv /\ [Next]_vars => [\A r \in listed \ listed', d \in Resources : InOrder(r, d)]_vars
  <2> SUFFICES ASSUME IInv, Next, NEW r \in listed \ listed', NEW d \in Resources,
                      disturbed' \subseteq {"destroy"}, ~opts.dryRun,
                      r \in Needs[d], d.kind \notin NotPruned
               PROVE  IF phase = "destroy" THEN remote[d].owner # "gcplane"
                      ELSE phase = "delete" => ~Orphan(d)
    OBVIOUS
  <2>1. TypeOK /\ ListInv /\ PhaseInv /\ OrphanInv /\ DestroyInv
    BY DEF IInv
  <2>2. /\ r \in Resources /\ r.kind \in Kinds /\ d.kind \in Kinds
        /\ Rank[r.kind] < Rank[d.kind]
    <3>1. r \in Resources /\ <<d.kind, r.kind>> \in References
      BY EngineAssumption
    <3>2. QED
      BY <3>1, ReferencesRankLower
  <2>3. Rank[r.kind] \in 1..16 /\ Rank[d.kind] \in 1..16
    BY <2>2, RankOfKind
  <2>4. ASSUME NEW s \in Resources, Deleting(s)
        PROVE  IF phase = "destroy" THEN remote[d].owner # "gcplane"
               ELSE phase = "delete" => ~Orphan(d)
    <3>1. DeletingEffect(s)
      BY <2>1, <2>4, DeletingDoes
    <3>2. s = r /\ disturbed \subseteq {"destroy"}
      BY <3>1 DEF DeletingEffect, MayFail
    <3>3. CASE phase = "delete"
      <4>1. disturbed = {} /\ opts.prune /\ todo # {} /\ r.kind = LastKind(todo)
        BY <2>1, <3>2, <3>3 DEF ListInv, PhaseInv, Undisturbed
      <4>2. \A j \in todo : Rank[r.kind] >= Rank[j]
        BY <2>1, <4>1, LastKindRanksHighest DEF TypeOK
      <4>3. d.kind \notin todo
        BY <2>2, <2>3, <4>2
      <4>4. QED
        BY <2>1, <3>3, <4>1, <4>3 DEF OrphanInv
    <3>4. CASE phase = "destroy"
      <4>1. disturbed = {"destroy"}
        BY <2>1, <3>2, <3>4 DEF PhaseInv
      <4>2. NotDestroyed \cup NotListed \subseteq NotPruned
        BY DEF NotDestroyed, NotListed, NotPruned
      <4>3. remote[d].owner = "gcplane" => d \in listed
        BY <2>1, <3>4, <4>1, <4>2 DEF DestroyInv
      <4>4. /\ {x.kind : x \in listed} \subseteq Kinds
            /\ {x.kind : x \in listed} # {}
        BY <2>1, EngineAssumption DEF TypeOK
      <4>5. r.kind = LastKind({x.kind : x \in listed})
        BY <3>1, <3>2, <3>4 DEF DeletingEffect
      <4>6. \A j \in {x.kind : x \in listed} : Rank[r.kind] >= Rank[j]
        BY <4>4, <4>5, LastKindRanksHighest
      <4>7. d \notin listed
        BY <2>2, <2>3, <4>6
      <4>8. QED
        BY <3>4, <4>3, <4>7
    <3>5. QED
      BY <3>1, <3>3, <3>4
  <2>5. ASSUME NEW s \in Resources, Planning(s)
        PROVE  FALSE
    BY <2>1, <2>5, PlanningDoes DEF PlanningEffect
  <2>6. ASSUME NEW s \in Resources, Writing(s)
        PROVE  FALSE
    BY <2>6, WritingPlan
  <2>7. CASE EndSurvey
    BY <2>7 DEF EndSurvey
  <2>8. CASE List
    BY <2>1, <2>8 DEF List
  <2>9. QED
    BY <2>4, <2>5, <2>6, <2>7, <2>8 DEF Next, EngineStep, Fault, Planning,
       Writing, Deleting, Start, EndObserve, EndExecute, EndApply, EndDelete,
       EndPrune, Survey, EndDestroy, ListFails, EditManifest, Rotate,
       StartDestroy, Meddle, cycleVars
<1>2. QED
  BY <1>1, EngineInvariant, PTL DEF Spec, DependentsDeletedFirst
=============================================================================
