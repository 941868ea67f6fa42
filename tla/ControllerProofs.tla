--------------------------- MODULE ControllerProofs ---------------------------
(***************************************************************************)
(* Proofs that the controller keeps its invariants, for any set of calls   *)
(* and any bounds.  The inductive invariant IInv of module Controller has  *)
(* four parts (types, trigger path, waiters, status); each lemma below     *)
(* shows that one part survives every step.                                *)
(***************************************************************************)
EXTENDS ControllerRefinement, TLAPS

(* Every step keeps the types. *)
LEMMA TypeStep == TypeOK /\ [Next]_vars => TypeOK'
<1> SUFFICES ASSUME TypeOK, [Next]_vars
             PROVE  TypeOK'
  OBVIOUS
<1> USE DEF loopVars, triggerVars, callVars
<1>1. CASE Tick
  BY <1>1 DEF Tick, TypeOK, LoopSteps, CycleSteps, FailureSteps, SuccessSteps,
     ConditionType, ConditionStatus, SyncResult, Outcome
<1>2. CASE TakeTrigger
  BY <1>2 DEF TakeTrigger, TypeOK, LoopSteps, CycleSteps, FailureSteps,
     SuccessSteps, ConditionType, ConditionStatus, SyncResult, Outcome
<1>3. CASE Stop
  BY <1>3 DEF Stop, TypeOK, LoopSteps, CycleSteps, FailureSteps, SuccessSteps,
     ConditionType, ConditionStatus, SyncResult, Outcome
<1>4. CASE Fetch
  <2>1. PICK ok \in BOOLEAN :
          outcome' = [fetched |-> ok, errors |-> FALSE, drift |-> FALSE]
    BY <1>4 DEF Fetch
  <2>2. outcome' \in Outcome
    BY <2>1 DEF Outcome
  <2>3. pc' \in LoopSteps
    BY <1>4 DEF Fetch, LoopSteps, CycleSteps, FailureSteps, SuccessSteps
  <2>4. QED
    BY <1>4, <2>2, <2>3 DEF Fetch, TypeOK
<1>5. CASE Reconcile
  <2>1. PICK e \in BOOLEAN, d \in BOOLEAN :
          outcome' = [fetched |-> TRUE, errors |-> e, drift |-> d]
    BY <1>5 DEF Reconcile
  <2>2. outcome' \in Outcome
    BY <2>1 DEF Outcome
  <2>3. pc' \in LoopSteps
    BY <1>5 DEF Reconcile, LoopSteps, CycleSteps, FailureSteps, SuccessSteps
  <2>4. QED
    BY <1>5, <2>2, <2>3 DEF Reconcile, TypeOK
<1>6. CASE Update
  BY <1>6 DEF Update, TypeOK, LoopSteps, CycleSteps, FailureSteps,
     SuccessSteps, ConditionType, ConditionStatus, SyncResult, Outcome
<1>7. CASE FailError
  BY <1>7 DEF FailError, SetStep, TypeOK, LoopSteps, CycleSteps, FailureSteps,
     SuccessSteps, ConditionType, ConditionStatus, SyncResult, Outcome
<1>8. CASE FailSynced
  BY <1>8 DEF FailSynced, SetStep, TypeOK, LoopSteps, CycleSteps,
     FailureSteps, SuccessSteps, ConditionType, ConditionStatus, SyncResult,
     Outcome
<1>9. CASE SetSynced
  BY <1>9 DEF SetSynced, SetStep, TypeOK, LoopSteps, CycleSteps, FailureSteps,
     SuccessSteps, ConditionType, ConditionStatus, SyncResult, Outcome
<1>10. CASE SetError
  BY <1>10 DEF SetError, SetStep, TypeOK, LoopSteps, CycleSteps, FailureSteps,
     SuccessSteps, ConditionType, ConditionStatus, SyncResult, Outcome
<1>11. CASE SetDrifted
  BY <1>11 DEF SetDrifted, SetStep, TypeOK, LoopSteps, CycleSteps,
     FailureSteps, SuccessSteps, ConditionType, ConditionStatus, SyncResult,
     Outcome
<1>12. CASE VerifyStep
  BY <1>12 DEF VerifyStep, TypeOK, LoopSteps, CycleSteps, FailureSteps,
     SuccessSteps, ConditionType, ConditionStatus, SyncResult, Outcome
<1>13. CASE CountCycle
  BY <1>13 DEF CountCycle, TypeOK, LoopSteps, CycleSteps, FailureSteps,
     SuccessSteps, ConditionType, ConditionStatus, SyncResult, Outcome
<1>14. CASE TakeWaiters
  BY <1>14 DEF TakeWaiters, TypeOK, LoopSteps, CycleSteps, FailureSteps,
     SuccessSteps, ConditionType, ConditionStatus, SyncResult, Outcome
<1>15. CASE EndCycle
  BY <1>15 DEF EndCycle, TypeOK, LoopSteps, CycleSteps, FailureSteps,
     SuccessSteps, ConditionType, ConditionStatus, SyncResult, Outcome
<1>16. CASE Trigger
  <2>1. triggers \in 0..MaxTriggers /\ triggers < MaxTriggers /\ triggers' = triggers + 1
    BY <1>16, Zenon DEF Trigger, TypeOK
  <2>2. triggers' \in 0..MaxTriggers
    BY <2>1, BoundAssumption
  <2>3. QED
    BY <1>16, <2>2, Zenon DEF Trigger, TypeOK
<1>17. CASE Fire
  <2>1. fired \in 0..MaxFired /\ fired < MaxFired /\ fired' = fired + 1
    BY <1>17, Zenon DEF Fire, TypeOK
  <2>2. fired' \in 0..MaxFired
    BY <2>1, BoundAssumption
  <2>3. QED
    BY <1>17, <2>2, Zenon DEF Fire, TypeOK
<1>18. CASE DebouncedSend
  <2>1. fired \in 0..MaxFired /\ fired > 0 /\ fired' = fired - 1
    BY <1>18, Zenon DEF DebouncedSend, TypeOK
  <2>2. fired' \in 0..MaxFired
    BY <2>1, BoundAssumption
  <2>3. QED
    BY <1>18, <2>2, Zenon DEF DebouncedSend, TypeOK
<1>19. CASE CloseDone
  BY <1>19 DEF CloseDone, TypeOK, LoopSteps, CycleSteps, FailureSteps,
     SuccessSteps, ConditionType, ConditionStatus, SyncResult, Outcome
<1>20. ASSUME NEW w \in Calls, Deliver(w)
      PROVE  TypeOK'
  BY <1>20 DEF Deliver, TypeOK, LoopSteps, CycleSteps, FailureSteps,
     SuccessSteps, ConditionType, ConditionStatus, SyncResult, Outcome
<1>21. ASSUME NEW w \in Calls, Register(w)
      PROVE  TypeOK'
  BY <1>21 DEF Register, TypeOK, LoopSteps, CycleSteps, FailureSteps,
     SuccessSteps, ConditionType, ConditionStatus, SyncResult, Outcome
<1>22. ASSUME NEW w \in Calls, Kick(w)
      PROVE  TypeOK'
  BY <1>22 DEF Kick, TypeOK, LoopSteps, CycleSteps, FailureSteps,
     SuccessSteps, ConditionType, ConditionStatus, SyncResult, Outcome
<1>23. ASSUME NEW w \in Calls, Receive(w)
      PROVE  TypeOK'
  BY <1>23 DEF Receive, TypeOK, LoopSteps, CycleSteps, FailureSteps,
     SuccessSteps, ConditionType, ConditionStatus, SyncResult, Outcome
<1>24. ASSUME NEW w \in Calls, TimeOut(w)
      PROVE  TypeOK'
  BY <1>24 DEF TimeOut, TypeOK, LoopSteps, CycleSteps, FailureSteps,
     SuccessSteps, ConditionType, ConditionStatus, SyncResult, Outcome
<1>25. CASE UNCHANGED vars
  BY <1>25 DEF vars, TypeOK, LoopSteps, CycleSteps, FailureSteps,
     SuccessSteps, ConditionType, ConditionStatus, SyncResult, Outcome
<1>26. QED
  BY <1>1, <1>2, <1>3, <1>4, <1>5, <1>6, <1>7, <1>8, <1>9, <1>10, <1>11,
     <1>12, <1>13, <1>14, <1>15, <1>16, <1>17, <1>18, <1>19, <1>20, <1>21,
     <1>22, <1>23, <1>24, <1>25 DEF Next, LoopStep

(* A pending push stays on its way to the loop. *)
LEMMA TriggerStep == TypeOK /\ TriggerInv /\ [Next]_vars => TriggerInv'
<1> SUFFICES ASSUME TypeOK /\ TriggerInv, [Next]_vars
             PROVE  TriggerInv'
  OBVIOUS
<1> USE DEF loopVars, triggerVars, callVars
<1>1. CASE Tick
  BY <1>1 DEF Tick, TriggerInv, NoLostTrigger, OwnReconcileFollows
<1>2. CASE TakeTrigger
  BY <1>2 DEF TakeTrigger, TriggerInv, NoLostTrigger, OwnReconcileFollows
<1>3. CASE Stop
  BY <1>3 DEF Stop, TriggerInv, NoLostTrigger, OwnReconcileFollows
<1>4. CASE Fetch
  BY <1>4 DEF Fetch, TriggerInv, NoLostTrigger, OwnReconcileFollows
<1>5. CASE Reconcile
  BY <1>5 DEF Reconcile, TriggerInv, NoLostTrigger, OwnReconcileFollows
<1>6. CASE Update
  BY <1>6 DEF Update, TriggerInv, NoLostTrigger, OwnReconcileFollows
<1>7. CASE FailError
  BY <1>7 DEF FailError, SetStep, TriggerInv, NoLostTrigger, OwnReconcileFollows
<1>8. CASE FailSynced
  BY <1>8 DEF FailSynced, SetStep, TriggerInv, NoLostTrigger, OwnReconcileFollows
<1>9. CASE SetSynced
  BY <1>9 DEF SetSynced, SetStep, TriggerInv, NoLostTrigger, OwnReconcileFollows
<1>10. CASE SetError
  BY <1>10 DEF SetError, SetStep, TriggerInv, NoLostTrigger, OwnReconcileFollows
<1>11. CASE SetDrifted
  BY <1>11 DEF SetDrifted, SetStep, TriggerInv, NoLostTrigger, OwnReconcileFollows
<1>12. CASE VerifyStep
  BY <1>12 DEF VerifyStep, TriggerInv, NoLostTrigger, OwnReconcileFollows
<1>13. CASE CountCycle
  BY <1>13 DEF CountCycle, TriggerInv, NoLostTrigger, OwnReconcileFollows
<1>14. CASE TakeWaiters
  BY <1>14 DEF TakeWaiters, TriggerInv, NoLostTrigger, OwnReconcileFollows
<1>15. CASE EndCycle
  BY <1>15 DEF EndCycle, TriggerInv, NoLostTrigger, OwnReconcileFollows
<1>16. CASE Trigger
  BY <1>16 DEF Trigger, TriggerInv, NoLostTrigger, OwnReconcileFollows
<1>17. CASE Fire
  <2>1. fired \in 0..MaxFired /\ fired' = fired + 1
    BY <1>17, Zenon DEF Fire, TypeOK
  <2>2. fired' > 0
    BY <2>1, BoundAssumption
  <2>3. QED
    BY <1>17, <2>2 DEF Fire, TriggerInv, NoLostTrigger, OwnReconcileFollows
<1>18. CASE DebouncedSend
  BY <1>18 DEF DebouncedSend, TriggerInv, NoLostTrigger, OwnReconcileFollows
<1>19. CASE CloseDone
  BY <1>19 DEF CloseDone, TriggerInv, NoLostTrigger, OwnReconcileFollows
<1>20. ASSUME NEW w \in Calls, Deliver(w)
      PROVE  TriggerInv'
  BY <1>20 DEF Deliver, TriggerInv, NoLostTrigger, OwnReconcileFollows
<1>21. ASSUME NEW w \in Calls, Register(w)
      PROVE  TriggerInv'
  BY <1>21 DEF Register, TypeOK, TriggerInv, NoLostTrigger, OwnReconcileFollows
<1>22. ASSUME NEW w \in Calls, Kick(w)
      PROVE  TriggerInv'
  BY <1>22 DEF Kick, TypeOK, TriggerInv, NoLostTrigger, OwnReconcileFollows
<1>23. ASSUME NEW w \in Calls, Receive(w)
      PROVE  TriggerInv'
  BY <1>23 DEF Receive, TypeOK, TriggerInv, NoLostTrigger, OwnReconcileFollows
<1>24. ASSUME NEW w \in Calls, TimeOut(w)
      PROVE  TriggerInv'
  BY <1>24 DEF TimeOut, TypeOK, TriggerInv, NoLostTrigger, OwnReconcileFollows
<1>25. CASE UNCHANGED vars
  BY <1>25 DEF vars, TriggerInv, NoLostTrigger, OwnReconcileFollows
<1>26. QED
  BY <1>1, <1>2, <1>3, <1>4, <1>5, <1>6, <1>7, <1>8, <1>9, <1>10, <1>11,
     <1>12, <1>13, <1>14, <1>15, <1>16, <1>17, <1>18, <1>19, <1>20, <1>21,
     <1>22, <1>23, <1>24, <1>25 DEF Next, LoopStep

(* No waiter is lost, answered twice or left behind. *)
LEMMA WaiterStep == TypeOK /\ WaiterInv /\ [Next]_vars => WaiterInv'
<1> SUFFICES ASSUME TypeOK /\ WaiterInv, [Next]_vars
             PROVE  WaiterInv'
  OBVIOUS
<1> USE DEF loopVars, triggerVars, callVars
<1>1. CASE Tick
  BY <1>1 DEF Tick, TypeOK, WaiterInv, WaiterCovered, NoForgottenWaiter,
     RegisteredIsKnown, DeliverNeverBlocks, NoOrphan, BatchIsLocal,
     ChannelsInUse, CycleSteps, FailureSteps, SuccessSteps
<1>2. CASE TakeTrigger
  BY <1>2 DEF TakeTrigger, TypeOK, WaiterInv, WaiterCovered,
     NoForgottenWaiter, RegisteredIsKnown, DeliverNeverBlocks, NoOrphan,
     BatchIsLocal, ChannelsInUse, CycleSteps, FailureSteps, SuccessSteps
<1>3. CASE Stop
  BY <1>3 DEF Stop, TypeOK, WaiterInv, WaiterCovered, NoForgottenWaiter,
     RegisteredIsKnown, DeliverNeverBlocks, NoOrphan, BatchIsLocal,
     ChannelsInUse, CycleSteps, FailureSteps, SuccessSteps
<1>4. CASE Fetch
  BY <1>4 DEF Fetch, TypeOK, WaiterInv, WaiterCovered, NoForgottenWaiter,
     RegisteredIsKnown, DeliverNeverBlocks, NoOrphan, BatchIsLocal,
     ChannelsInUse, CycleSteps, FailureSteps, SuccessSteps
<1>5. CASE Reconcile
  BY <1>5 DEF Reconcile, TypeOK, WaiterInv, WaiterCovered, NoForgottenWaiter,
     RegisteredIsKnown, DeliverNeverBlocks, NoOrphan, BatchIsLocal,
     ChannelsInUse, CycleSteps, FailureSteps, SuccessSteps
<1>6. CASE Update
  BY <1>6 DEF Update, TypeOK, WaiterInv, WaiterCovered, NoForgottenWaiter,
     RegisteredIsKnown, DeliverNeverBlocks, NoOrphan, BatchIsLocal,
     ChannelsInUse, CycleSteps, FailureSteps, SuccessSteps
<1>7. CASE FailError
  BY <1>7 DEF FailError, SetStep, TypeOK, WaiterInv, WaiterCovered,
     NoForgottenWaiter, RegisteredIsKnown, DeliverNeverBlocks, NoOrphan,
     BatchIsLocal, ChannelsInUse, CycleSteps, FailureSteps, SuccessSteps
<1>8. CASE FailSynced
  BY <1>8 DEF FailSynced, SetStep, TypeOK, WaiterInv, WaiterCovered,
     NoForgottenWaiter, RegisteredIsKnown, DeliverNeverBlocks, NoOrphan,
     BatchIsLocal, ChannelsInUse, CycleSteps, FailureSteps, SuccessSteps
<1>9. CASE SetSynced
  BY <1>9 DEF SetSynced, SetStep, TypeOK, WaiterInv, WaiterCovered,
     NoForgottenWaiter, RegisteredIsKnown, DeliverNeverBlocks, NoOrphan,
     BatchIsLocal, ChannelsInUse, CycleSteps, FailureSteps, SuccessSteps
<1>10. CASE SetError
  BY <1>10 DEF SetError, SetStep, TypeOK, WaiterInv, WaiterCovered,
     NoForgottenWaiter, RegisteredIsKnown, DeliverNeverBlocks, NoOrphan,
     BatchIsLocal, ChannelsInUse, CycleSteps, FailureSteps, SuccessSteps
<1>11. CASE SetDrifted
  BY <1>11 DEF SetDrifted, SetStep, TypeOK, WaiterInv, WaiterCovered,
     NoForgottenWaiter, RegisteredIsKnown, DeliverNeverBlocks, NoOrphan,
     BatchIsLocal, ChannelsInUse, CycleSteps, FailureSteps, SuccessSteps
<1>12. CASE VerifyStep
  BY <1>12 DEF VerifyStep, TypeOK, WaiterInv, WaiterCovered,
     NoForgottenWaiter, RegisteredIsKnown, DeliverNeverBlocks, NoOrphan,
     BatchIsLocal, ChannelsInUse, CycleSteps, FailureSteps, SuccessSteps
<1>13. CASE CountCycle
  BY <1>13 DEF CountCycle, TypeOK, WaiterInv, WaiterCovered,
     NoForgottenWaiter, RegisteredIsKnown, DeliverNeverBlocks, NoOrphan,
     BatchIsLocal, ChannelsInUse, CycleSteps, FailureSteps, SuccessSteps
<1>14. CASE TakeWaiters
  BY <1>14 DEF TakeWaiters, TypeOK, WaiterInv, WaiterCovered,
     NoForgottenWaiter, RegisteredIsKnown, DeliverNeverBlocks, NoOrphan,
     BatchIsLocal, ChannelsInUse, CycleSteps, FailureSteps, SuccessSteps
<1>15. CASE EndCycle
  BY <1>15 DEF EndCycle, TypeOK, WaiterInv, WaiterCovered, NoForgottenWaiter,
     RegisteredIsKnown, DeliverNeverBlocks, NoOrphan, BatchIsLocal,
     ChannelsInUse, CycleSteps, FailureSteps, SuccessSteps
<1>16. CASE Trigger
  BY <1>16 DEF Trigger, TypeOK, WaiterInv, WaiterCovered, NoForgottenWaiter,
     RegisteredIsKnown, DeliverNeverBlocks, NoOrphan, BatchIsLocal,
     ChannelsInUse, CycleSteps, FailureSteps, SuccessSteps
<1>17. CASE Fire
  BY <1>17 DEF Fire, TypeOK, WaiterInv, WaiterCovered, NoForgottenWaiter,
     RegisteredIsKnown, DeliverNeverBlocks, NoOrphan, BatchIsLocal,
     ChannelsInUse, CycleSteps, FailureSteps, SuccessSteps
<1>18. CASE DebouncedSend
  BY <1>18 DEF DebouncedSend, TypeOK, WaiterInv, WaiterCovered,
     NoForgottenWaiter, RegisteredIsKnown, DeliverNeverBlocks, NoOrphan,
     BatchIsLocal, ChannelsInUse, CycleSteps, FailureSteps, SuccessSteps
<1>19. CASE CloseDone
  BY <1>19 DEF CloseDone, TypeOK, WaiterInv, WaiterCovered, NoForgottenWaiter,
     RegisteredIsKnown, DeliverNeverBlocks, NoOrphan, BatchIsLocal,
     ChannelsInUse, CycleSteps, FailureSteps, SuccessSteps
<1>20. ASSUME NEW w \in Calls, Deliver(w)
      PROVE  WaiterInv'
  BY <1>20 DEF Deliver, TypeOK, WaiterInv, WaiterCovered, NoForgottenWaiter,
     RegisteredIsKnown, DeliverNeverBlocks, NoOrphan, BatchIsLocal,
     ChannelsInUse, CycleSteps, FailureSteps, SuccessSteps
<1>21. ASSUME NEW w \in Calls, Register(w)
      PROVE  WaiterInv'
  BY <1>21 DEF Register, TypeOK, WaiterInv, WaiterCovered, NoForgottenWaiter,
     RegisteredIsKnown, DeliverNeverBlocks, NoOrphan, BatchIsLocal,
     ChannelsInUse, CycleSteps, FailureSteps, SuccessSteps
<1>22. ASSUME NEW w \in Calls, Kick(w)
      PROVE  WaiterInv'
  BY <1>22 DEF Kick, TypeOK, WaiterInv, WaiterCovered, NoForgottenWaiter,
     RegisteredIsKnown, DeliverNeverBlocks, NoOrphan, BatchIsLocal,
     ChannelsInUse, CycleSteps, FailureSteps, SuccessSteps
<1>23. ASSUME NEW w \in Calls, Receive(w)
      PROVE  WaiterInv'
  BY <1>23 DEF Receive, TypeOK, WaiterInv, WaiterCovered, NoForgottenWaiter,
     RegisteredIsKnown, DeliverNeverBlocks, NoOrphan, BatchIsLocal,
     ChannelsInUse, CycleSteps, FailureSteps, SuccessSteps
<1>24. ASSUME NEW w \in Calls, TimeOut(w)
      PROVE  WaiterInv'
  BY <1>24 DEF TimeOut, TypeOK, WaiterInv, WaiterCovered, NoForgottenWaiter,
     RegisteredIsKnown, DeliverNeverBlocks, NoOrphan, BatchIsLocal,
     ChannelsInUse, CycleSteps, FailureSteps, SuccessSteps
<1>25. CASE UNCHANGED vars
  BY <1>25 DEF vars, TypeOK, WaiterInv, WaiterCovered, NoForgottenWaiter,
     RegisteredIsKnown, DeliverNeverBlocks, NoOrphan, BatchIsLocal,
     ChannelsInUse, CycleSteps, FailureSteps, SuccessSteps
<1>26. QED
  BY <1>1, <1>2, <1>3, <1>4, <1>5, <1>6, <1>7, <1>8, <1>9, <1>10, <1>11,
     <1>12, <1>13, <1>14, <1>15, <1>16, <1>17, <1>18, <1>19, <1>20, <1>21,
     <1>22, <1>23, <1>24, <1>25 DEF Next, LoopStep

(* The conditions and counters follow the cycle. *)
LEMMA StatusStep == TypeOK /\ StatusInv /\ [Next]_vars => StatusInv'
<1> SUFFICES ASSUME TypeOK /\ StatusInv, [Next]_vars
             PROVE  StatusInv'
  OBVIOUS
<1> USE DEF loopVars, triggerVars, callVars
<1>1. CASE Tick
  BY <1>1 DEF Tick, TypeOK, StatusInv, StatusMatchesResult,
     ContradictionOnlyInFailedFetch, StatusProgress, HasErrors, CycleSteps,
     FailureSteps, SuccessSteps, ConditionType, ConditionStatus, SyncResult,
     Outcome
<1>2. CASE TakeTrigger
  BY <1>2 DEF TakeTrigger, TypeOK, StatusInv, StatusMatchesResult,
     ContradictionOnlyInFailedFetch, StatusProgress, HasErrors, CycleSteps,
     FailureSteps, SuccessSteps, ConditionType, ConditionStatus, SyncResult,
     Outcome
<1>3. CASE Stop
  BY <1>3 DEF Stop, TypeOK, StatusInv, StatusMatchesResult,
     ContradictionOnlyInFailedFetch, StatusProgress, HasErrors, CycleSteps,
     FailureSteps, SuccessSteps, ConditionType, ConditionStatus, SyncResult,
     Outcome
<1>4. CASE Fetch
  <2>1. PICK ok \in BOOLEAN :
          /\ outcome' = [fetched |-> ok, errors |-> FALSE, drift |-> FALSE]
          /\ pc' = IF ok THEN "reconcile" ELSE "failError"
    BY <1>4 DEF Fetch
  <2>2. outcome'.fetched = ok
    BY <2>1
  <2>3. pc = "fetch" /\ counted' = counted /\ conds' = conds
    BY <1>4 DEF Fetch
  <2>4. counted = {} /\ ~(conds["Synced"] = "True" /\ conds["Error"] = "True")
    BY <2>3 DEF StatusInv, StatusProgress, ContradictionOnlyInFailedFetch, CycleSteps
  <2>5. CASE ok
    BY <2>1, <2>2, <2>3, <2>4, <2>5 DEF StatusInv, StatusMatchesResult,
       ContradictionOnlyInFailedFetch, StatusProgress, CycleSteps, FailureSteps,
       SuccessSteps
  <2>6. CASE ~ok
    BY <2>1, <2>2, <2>3, <2>4, <2>6 DEF StatusInv, StatusMatchesResult,
       ContradictionOnlyInFailedFetch, StatusProgress, CycleSteps, FailureSteps,
       SuccessSteps
  <2>7. QED
    BY <2>5, <2>6
<1>5. CASE Reconcile
  <2>1. PICK e \in BOOLEAN, d \in BOOLEAN :
          outcome' = [fetched |-> TRUE, errors |-> e, drift |-> d]
    BY <1>5 DEF Reconcile
  <2>2. outcome'.fetched = TRUE
    BY <2>1
  <2>3. pc = "reconcile" /\ pc' = "update" /\ counted' = counted /\ conds' = conds
    BY <1>5 DEF Reconcile
  <2>4. QED
    BY <2>2, <2>3 DEF StatusInv, StatusMatchesResult,
       ContradictionOnlyInFailedFetch, StatusProgress, CycleSteps, FailureSteps,
       SuccessSteps
<1>6. CASE Update
  BY <1>6 DEF Update, TypeOK, StatusInv, StatusMatchesResult,
     ContradictionOnlyInFailedFetch, StatusProgress, HasErrors, CycleSteps,
     FailureSteps, SuccessSteps, ConditionType, ConditionStatus, SyncResult,
     Outcome
<1>7. CASE FailError
  BY <1>7 DEF FailError, SetStep, TypeOK, StatusInv, StatusMatchesResult,
     ContradictionOnlyInFailedFetch, StatusProgress, HasErrors, CycleSteps,
     FailureSteps, SuccessSteps, ConditionType, ConditionStatus, SyncResult,
     Outcome
<1>8. CASE FailSynced
  BY <1>8 DEF FailSynced, SetStep, TypeOK, StatusInv, StatusMatchesResult,
     ContradictionOnlyInFailedFetch, StatusProgress, HasErrors, CycleSteps,
     FailureSteps, SuccessSteps, ConditionType, ConditionStatus, SyncResult,
     Outcome
<1>9. CASE SetSynced
  BY <1>9 DEF SetSynced, SetStep, TypeOK, StatusInv, StatusMatchesResult,
     ContradictionOnlyInFailedFetch, StatusProgress, HasErrors, CycleSteps,
     FailureSteps, SuccessSteps, ConditionType, ConditionStatus, SyncResult,
     Outcome
<1>10. CASE SetError
  BY <1>10 DEF SetError, SetStep, TypeOK, StatusInv, StatusMatchesResult,
     ContradictionOnlyInFailedFetch, StatusProgress, HasErrors, CycleSteps,
     FailureSteps, SuccessSteps, ConditionType, ConditionStatus, SyncResult,
     Outcome
<1>11. CASE SetDrifted
  BY <1>11 DEF SetDrifted, SetStep, TypeOK, StatusInv, StatusMatchesResult,
     ContradictionOnlyInFailedFetch, StatusProgress, HasErrors, CycleSteps,
     FailureSteps, SuccessSteps, ConditionType, ConditionStatus, SyncResult,
     Outcome
<1>12. CASE VerifyStep
  BY <1>12 DEF VerifyStep, TypeOK, StatusInv, StatusMatchesResult,
     ContradictionOnlyInFailedFetch, StatusProgress, HasErrors, CycleSteps,
     FailureSteps, SuccessSteps, ConditionType, ConditionStatus, SyncResult,
     Outcome
<1>13. CASE CountCycle
  BY <1>13 DEF CountCycle, TypeOK, StatusInv, StatusMatchesResult,
     ContradictionOnlyInFailedFetch, StatusProgress, HasErrors, CycleSteps,
     FailureSteps, SuccessSteps, ConditionType, ConditionStatus, SyncResult,
     Outcome
<1>14. CASE TakeWaiters
  BY <1>14 DEF TakeWaiters, TypeOK, StatusInv, StatusMatchesResult,
     ContradictionOnlyInFailedFetch, StatusProgress, HasErrors, CycleSteps,
     FailureSteps, SuccessSteps, ConditionType, ConditionStatus, SyncResult,
     Outcome
<1>15. CASE EndCycle
  BY <1>15 DEF EndCycle, TypeOK, StatusInv, StatusMatchesResult,
     ContradictionOnlyInFailedFetch, StatusProgress, HasErrors, CycleSteps,
     FailureSteps, SuccessSteps, ConditionType, ConditionStatus, SyncResult,
     Outcome
<1>16. CASE Trigger
  BY <1>16 DEF Trigger, TypeOK, StatusInv, StatusMatchesResult,
     ContradictionOnlyInFailedFetch, StatusProgress, HasErrors, CycleSteps,
     FailureSteps, SuccessSteps, ConditionType, ConditionStatus, SyncResult,
     Outcome
<1>17. CASE Fire
  BY <1>17 DEF Fire, TypeOK, StatusInv, StatusMatchesResult,
     ContradictionOnlyInFailedFetch, StatusProgress, HasErrors, CycleSteps,
     FailureSteps, SuccessSteps, ConditionType, ConditionStatus, SyncResult,
     Outcome
<1>18. CASE DebouncedSend
  BY <1>18 DEF DebouncedSend, TypeOK, StatusInv, StatusMatchesResult,
     ContradictionOnlyInFailedFetch, StatusProgress, HasErrors, CycleSteps,
     FailureSteps, SuccessSteps, ConditionType, ConditionStatus, SyncResult,
     Outcome
<1>19. CASE CloseDone
  BY <1>19 DEF CloseDone, TypeOK, StatusInv, StatusMatchesResult,
     ContradictionOnlyInFailedFetch, StatusProgress, HasErrors, CycleSteps,
     FailureSteps, SuccessSteps, ConditionType, ConditionStatus, SyncResult,
     Outcome
<1>20. ASSUME NEW w \in Calls, Deliver(w)
      PROVE  StatusInv'
  BY <1>20 DEF Deliver, TypeOK, StatusInv, StatusMatchesResult,
     ContradictionOnlyInFailedFetch, StatusProgress, HasErrors, CycleSteps,
     FailureSteps, SuccessSteps, ConditionType, ConditionStatus, SyncResult,
     Outcome
<1>21. ASSUME NEW w \in Calls, Register(w)
      PROVE  StatusInv'
  BY <1>21 DEF Register, TypeOK, StatusInv, StatusMatchesResult,
     ContradictionOnlyInFailedFetch, StatusProgress, HasErrors, CycleSteps,
     FailureSteps, SuccessSteps, ConditionType, ConditionStatus, SyncResult,
     Outcome
<1>22. ASSUME NEW w \in Calls, Kick(w)
      PROVE  StatusInv'
  BY <1>22 DEF Kick, TypeOK, StatusInv, StatusMatchesResult,
     ContradictionOnlyInFailedFetch, StatusProgress, HasErrors, CycleSteps,
     FailureSteps, SuccessSteps, ConditionType, ConditionStatus, SyncResult,
     Outcome
<1>23. ASSUME NEW w \in Calls, Receive(w)
      PROVE  StatusInv'
  BY <1>23 DEF Receive, TypeOK, StatusInv, StatusMatchesResult,
     ContradictionOnlyInFailedFetch, StatusProgress, HasErrors, CycleSteps,
     FailureSteps, SuccessSteps, ConditionType, ConditionStatus, SyncResult,
     Outcome
<1>24. ASSUME NEW w \in Calls, TimeOut(w)
      PROVE  StatusInv'
  BY <1>24 DEF TimeOut, TypeOK, StatusInv, StatusMatchesResult,
     ContradictionOnlyInFailedFetch, StatusProgress, HasErrors, CycleSteps,
     FailureSteps, SuccessSteps, ConditionType, ConditionStatus, SyncResult,
     Outcome
<1>25. CASE UNCHANGED vars
  BY <1>25 DEF vars, TypeOK, StatusInv, StatusMatchesResult,
     ContradictionOnlyInFailedFetch, StatusProgress, HasErrors, CycleSteps,
     FailureSteps, SuccessSteps, ConditionType, ConditionStatus, SyncResult,
     Outcome
<1>26. QED
  BY <1>1, <1>2, <1>3, <1>4, <1>5, <1>6, <1>7, <1>8, <1>9, <1>10, <1>11,
     <1>12, <1>13, <1>14, <1>15, <1>16, <1>17, <1>18, <1>19, <1>20, <1>21,
     <1>22, <1>23, <1>24, <1>25 DEF Next, LoopStep

(* The controller keeps its inductive invariant: types, the trigger path,    *)
(* the waiters and the status, whatever Trigger, TriggerAndWait, the timer   *)
(* and the shutdown do between the steps of reconcileOnce.                   *)
THEOREM ControllerInvariant == Spec => []IInv
<1>1. Init => IInv
  <2> SUFFICES ASSUME Init PROVE IInv
    OBVIOUS
  <2>1. outcome \in Outcome
    BY DEF Init, Outcome
  <2>2. fired = 0 /\ triggers = 0
    BY Zenon DEF Init
  <2>8. fired \in 0..MaxFired /\ triggers \in 0..MaxTriggers
    BY <2>2, BoundAssumption
  <2>3. TypeOK
    BY <2>1, <2>8 DEF Init, TypeOK, LoopSteps, CycleSteps, SyncResult
  <2>4. TriggerInv
    BY DEF Init, TriggerInv, NoLostTrigger, OwnReconcileFollows
  <2>5. WaiterInv
    BY DEF Init, WaiterInv, WaiterCovered, NoForgottenWaiter, RegisteredIsKnown,
       DeliverNeverBlocks, NoOrphan, BatchIsLocal, ChannelsInUse
  <2>6. StatusInv
    BY DEF Init, StatusInv, StatusMatchesResult, ContradictionOnlyInFailedFetch,
       StatusProgress, FailureSteps, SuccessSteps, ConditionType
  <2>7. QED
    BY <2>3, <2>4, <2>5, <2>6 DEF IInv
<1>2. IInv /\ [Next]_vars => IInv'
  BY TypeStep, TriggerStep, WaiterStep, StatusStep DEF IInv
<1>3. QED
  BY <1>1, <1>2, PTL DEF Spec

(* Every variable keeps its type.                                            *)
THEOREM ControllerTypes == Spec => []TypeOK
BY ControllerInvariant, PTL DEF IInv

(* A push that a webhook announced with Trigger is never lost between the    *)
(* debounce timer, its late callbacks and the one-slot trigger channel.      *)
THEOREM TriggerIsNotLost == Spec => []NoLostTrigger
BY ControllerInvariant, PTL DEF IInv, TriggerInv

(* A call of TriggerAndWait that came too late for the running cycle's fetch *)
(* has another cycle coming, whatever that cycle answered it meanwhile.      *)
THEOREM LateCallHasItsOwnCycle == Spec => []OwnReconcileFollows
BY ControllerInvariant, PTL DEF IInv, TriggerInv

(* Every call of TriggerAndWait that waits is covered by a queued token or a *)
(* running cycle and keeps its channel until it has its result.              *)
THEOREM WaitersAreServed == Spec => [](WaiterCovered /\ NoForgottenWaiter)
BY ControllerInvariant, PTL DEF IInv, WaiterInv

(* The loop never blocks on a result channel, whoever timed out meanwhile.   *)
THEOREM LoopNeverBlocks == Spec => [](DeliverNeverBlocks /\ NoOrphan)
BY ControllerInvariant, PTL DEF IInv, WaiterInv

(* When waiters are told, the tracker's conditions and the counters already  *)
(* say the same, until the next cycle writes them.                           *)
THEOREM StatusIsConsistent ==
  Spec => [](StatusMatchesResult /\ ContradictionOnlyInFailedFetch)
BY ControllerInvariant, PTL DEF IInv, StatusInv

(* Every step of the controller is a step of the service or invisible to it. *)
LEMMA ServiceStep == IInv /\ [Next]_vars => [Service!ServiceNext]_(Service!serviceVars)
<1> SUFFICES ASSUME IInv, [Next]_vars
             PROVE  [Service!ServiceNext]_(Service!serviceVars)
  OBVIOUS
<1> USE DEF loopVars, triggerVars, callVars
<1>1. CASE Tick
  <2>1. Service!StartCycle
    BY <1>1 DEF Tick, requestBar, cycleBar, CycleSteps, FailureSteps,
       SuccessSteps, Service!StartCycle
  <2>2. QED
    BY <2>1 DEF Service!ServiceNext
<1>2. CASE TakeTrigger
  <2>1. Service!StartCycle
    BY <1>2 DEF TakeTrigger, requestBar, cycleBar, CycleSteps, FailureSteps,
       SuccessSteps, Service!StartCycle
  <2>2. QED
    BY <2>1 DEF Service!ServiceNext
<1>3. CASE Stop
  <2>1. Service!Halt
    BY <1>3 DEF Stop, requestBar, cycleBar, CycleSteps, FailureSteps,
       SuccessSteps, Service!Halt
  <2>2. QED
    BY <2>1 DEF Service!ServiceNext
<1>4. CASE Fetch
  BY <1>4 DEF Fetch, requestBar, cycleBar, CycleSteps, FailureSteps,
     SuccessSteps, Service!serviceVars
<1>5. CASE Reconcile
  BY <1>5 DEF Reconcile, requestBar, cycleBar, CycleSteps, FailureSteps,
     SuccessSteps, Service!serviceVars
<1>6. CASE Update
  BY <1>6 DEF Update, requestBar, cycleBar, CycleSteps, FailureSteps,
     SuccessSteps, Service!serviceVars
<1>7. CASE FailError
  BY <1>7 DEF FailError, SetStep, requestBar, cycleBar, CycleSteps, FailureSteps,
     SuccessSteps, Service!serviceVars
<1>8. CASE FailSynced
  BY <1>8 DEF FailSynced, SetStep, requestBar, cycleBar, CycleSteps,
     FailureSteps, SuccessSteps, Service!serviceVars
<1>9. CASE SetSynced
  BY <1>9 DEF SetSynced, SetStep, requestBar, cycleBar, CycleSteps, FailureSteps,
     SuccessSteps, Service!serviceVars
<1>10. CASE SetError
  BY <1>10 DEF SetError, SetStep, requestBar, cycleBar, CycleSteps, FailureSteps,
     SuccessSteps, Service!serviceVars
<1>11. CASE SetDrifted
  BY <1>11 DEF SetDrifted, SetStep, requestBar, cycleBar, CycleSteps,
     FailureSteps, SuccessSteps, Service!serviceVars
<1>12. CASE VerifyStep
  BY <1>12 DEF VerifyStep, requestBar, cycleBar, CycleSteps, FailureSteps,
     SuccessSteps, Service!serviceVars
<1>13. CASE CountCycle
  BY <1>13 DEF CountCycle, requestBar, cycleBar, CycleSteps, FailureSteps,
     SuccessSteps, Service!serviceVars
<1>14. CASE TakeWaiters
  <2>1. Service!GrantAll
    BY <1>14 DEF TakeWaiters, requestBar, cycleBar, CycleSteps, FailureSteps,
       SuccessSteps, Service!GrantAll, IInv, WaiterInv, NoOrphan, TypeOK
  <2>2. QED
    BY <2>1 DEF Service!ServiceNext
<1>15. CASE EndCycle
  BY <1>15 DEF EndCycle, requestBar, cycleBar, CycleSteps, FailureSteps,
     SuccessSteps, Service!serviceVars
<1>16. CASE Trigger
  BY <1>16 DEF Trigger, requestBar, cycleBar, CycleSteps, FailureSteps,
     SuccessSteps, Service!serviceVars
<1>17. CASE Fire
  BY <1>17 DEF Fire, requestBar, cycleBar, CycleSteps, FailureSteps, SuccessSteps,
     Service!serviceVars
<1>18. CASE DebouncedSend
  BY <1>18 DEF DebouncedSend, requestBar, cycleBar, CycleSteps, FailureSteps,
     SuccessSteps, Service!serviceVars
<1>19. CASE CloseDone
  BY <1>19 DEF CloseDone, requestBar, cycleBar, CycleSteps, FailureSteps,
     SuccessSteps, Service!serviceVars
<1>20. ASSUME NEW w \in Calls, Deliver(w)
      PROVE  [Service!ServiceNext]_(Service!serviceVars)
  BY <1>20 DEF Deliver, requestBar, cycleBar, CycleSteps, FailureSteps,
     SuccessSteps, Service!serviceVars
<1>21. ASSUME NEW w \in Calls, Register(w)
      PROVE  [Service!ServiceNext]_(Service!serviceVars)
  <2>1. Service!Ask(w)
    BY <1>21 DEF Register, requestBar, cycleBar, CycleSteps, FailureSteps,
       SuccessSteps, Service!Ask, IInv, TypeOK, WaiterInv, ChannelsInUse
  <2>2. QED
    BY <2>1 DEF Service!ServiceNext
<1>22. ASSUME NEW w \in Calls, Kick(w)
      PROVE  [Service!ServiceNext]_(Service!serviceVars)
  BY <1>22 DEF Kick, requestBar, cycleBar, CycleSteps, FailureSteps, SuccessSteps,
     Service!serviceVars, IInv, TypeOK
<1>23. ASSUME NEW w \in Calls, Receive(w)
      PROVE  [Service!ServiceNext]_(Service!serviceVars)
  <2>1. Service!Collect(w)
    BY <1>23 DEF Receive, requestBar, cycleBar, CycleSteps, FailureSteps,
       SuccessSteps, Service!Collect, IInv, TypeOK, WaiterInv, NoOrphan
  <2>2. QED
    BY <2>1 DEF Service!ServiceNext
<1>24. ASSUME NEW w \in Calls, TimeOut(w)
      PROVE  [Service!ServiceNext]_(Service!serviceVars)
  <2>1. Service!GiveUp(w)
    BY <1>24 DEF TimeOut, requestBar, cycleBar, CycleSteps, FailureSteps,
       SuccessSteps, Service!GiveUp, IInv, TypeOK
  <2>2. QED
    BY <2>1 DEF Service!ServiceNext
<1>25. CASE UNCHANGED vars
  BY <1>25 DEF vars, requestBar, cycleBar, CycleSteps, FailureSteps, SuccessSteps,
     Service!serviceVars
<1>26. QED
  BY <1>1, <1>2, <1>3, <1>4, <1>5, <1>6, <1>7, <1>8, <1>9, <1>10, <1>11,
     <1>12, <1>13, <1>14, <1>15, <1>16, <1>17, <1>18, <1>19, <1>20, <1>21,
     <1>22, <1>23, <1>24, <1>25 DEF Next, LoopStep

(* The controller implements the batch service of module SyncService (its    *)
(* safety part): every waiting call is granted by the first cycle that takes *)
(* the list, together with all the others, and by no other step.             *)
THEOREM ControllerImplementsService == Spec => Service!ServiceSafety
<1>1. Init => Service!ServiceInit
  BY DEF Init, Service!ServiceInit, requestBar, cycleBar, CycleSteps
<1>2. QED
  BY <1>1, ServiceStep, ControllerInvariant, PTL DEF Spec, Service!ServiceSafety
=============================================================================
