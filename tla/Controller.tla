----------------------------- MODULE Controller -----------------------------
(***************************************************************************)
(* The reconcile loop of internal/controller: one goroutine (Run) that     *)
(* selects over a ticker, a one-slot trigger channel and the done channel, *)
(* webhook handlers that call Trigger (debounced by a timer), API handlers *)
(* that call TriggerAndWait, and the StatusTracker that HTTP readers see   *)
(* between any two of the loop's steps.                                    *)
(*                                                                         *)
(* What a cycle does to the provider is module Engine; here a cycle is its *)
(* outcome: whether it had errors and whether it found drift.              *)
(***************************************************************************)
EXTENDS Naturals

CONSTANTS
  Calls,        \* calls of TriggerAndWait; each makes its own result channel
  MaxTriggers,  \* bound on the calls of Trigger
  MaxFired      \* bound on debounce callbacks that have started and not sent

ASSUME BoundAssumption == MaxTriggers \in Nat /\ MaxFired \in Nat \ {0}

VARIABLES
  pc,         \* where the Run goroutine is
  closed,     \* the done channel has been closed
  queued,     \* triggerCh (capacity 1) holds a token
  armed,      \* debounceTimer is running
  fired,      \* AfterFunc callbacks that started and have not sent yet
  triggers,   \* Trigger calls made so far
  call,       \* call[w]: where TriggerAndWait call w is
  waiters,    \* c.waiters: calls whose channel is registered
  batch,      \* notifyWaiters' local list: channels still to be sent to
  inbox,      \* inbox[w]: what was sent to w's result channel (capacity 1)
  outcome,    \* outcome of the cycle that is running or ended last
  conds,      \* the tracker's conditions; "" where there is no entry
  counted,    \* the sync counters this cycle has incremented
  \* History variables: they record what happened and restrict nothing.
  unseen,     \* a Trigger was called since the last Fetch
  behind      \* calls registered after the running cycle fetched

loopVars   == <<pc, outcome, counted>>
triggerVars == <<queued, armed, fired, triggers, unseen>>
callVars   == <<call, waiters, batch, inbox, behind>>
vars == <<loopVars, closed, triggerVars, callVars, conds>>

-----------------------------------------------------------------------------
ConditionType == {"Synced", "Error", "Drifted"}
ConditionStatus == {"True", "False"}

\* Results a waiter can be sent: a cycle without and one with errors.
SyncResult == {"clean", "failed"}

(* Steps of Run.  The cycle goes fetch, then either the failure branch       *)
(* (failError, failSynced, failMetrics) or reconcile .. metrics, and then    *)
(* notify, deliver and back to idle, the select.                             *)
FailureSteps == {"failError", "failSynced", "failMetrics"}
SuccessSteps == {"reconcile", "update", "setSynced", "setError", "setDrifted",
                 "verify", "metrics"}
CycleSteps == {"fetch"} \cup FailureSteps \cup SuccessSteps \cup {"notify"}
LoopSteps == CycleSteps \cup {"deliver", "idle", "stopped"}

Outcome == [fetched : BOOLEAN, errors : BOOLEAN, drift : BOOLEAN]

HasErrors == ~outcome.fetched \/ outcome.errors

TypeOK ==
  /\ pc \in LoopSteps
  /\ closed \in BOOLEAN
  /\ queued \in BOOLEAN
  /\ armed \in BOOLEAN
  /\ fired \in 0..MaxFired
  /\ triggers \in 0..MaxTriggers
  /\ call \in [Calls -> {"idle", "registered", "waiting", "answered", "timedout"}]
  /\ waiters \subseteq Calls
  /\ batch \subseteq Calls
  /\ inbox \in [Calls -> SyncResult \cup {"empty"}]
  /\ outcome \in Outcome
  /\ conds \in [ConditionType -> ConditionStatus \cup {""}]
  /\ counted \subseteq {"success", "errors"}
  /\ unseen \in BOOLEAN
  /\ behind \subseteq Calls

Init ==
  /\ pc = "fetch"           \* Run reconciles once before its first select
  /\ closed = FALSE
  /\ queued = FALSE
  /\ armed = FALSE
  /\ fired = 0
  /\ triggers = 0
  /\ call = [w \in Calls |-> "idle"]
  /\ waiters = {}
  /\ batch = {}
  /\ inbox = [w \in Calls |-> "empty"]
  /\ outcome = [fetched |-> TRUE, errors |-> FALSE, drift |-> FALSE]
  /\ conds = [t \in ConditionType |-> ""]
  /\ counted = {}
  /\ unseen = FALSE
  /\ behind = {}

-----------------------------------------------------------------------------
(* The select of Run.                                                        *)

Tick ==
  /\ pc = "idle"
  /\ pc' = "fetch"
  /\ counted' = {}
  /\ UNCHANGED <<outcome, closed, triggerVars, callVars, conds>>

TakeTrigger ==
  /\ pc = "idle"
  /\ queued
  /\ queued' = FALSE
  /\ pc' = "fetch"
  /\ counted' = {}
  /\ UNCHANGED <<outcome, closed, armed, fired, triggers, unseen, callVars,
                 conds>>

Stop ==
  /\ pc = "idle"
  /\ closed
  /\ pc' = "stopped"
  /\ UNCHANGED <<outcome, counted, closed, triggerVars, callVars, conds>>

-----------------------------------------------------------------------------
(* reconcileOnce.  Every tracker call takes the tracker's lock on its own,   *)
(* so a reader can see the status between any two of these steps.            *)

\* source.Fetch: whatever was pushed before this point is in the manifest.
Fetch ==
  /\ pc = "fetch"
  /\ unseen' = FALSE
  /\ behind' = {}
  /\ \E ok \in BOOLEAN :
       /\ outcome' = [fetched |-> ok, errors |-> FALSE, drift |-> FALSE]
       /\ pc' = IF ok THEN "reconcile" ELSE "failError"
  /\ UNCHANGED <<counted, closed, queued, armed, fired, triggers, call, waiters,
                 batch, inbox, conds>>

\* Engine.Reconcile and the two summaries the controller draws from it.
Reconcile ==
  /\ pc = "reconcile"
  /\ \E e, d \in BOOLEAN :
       outcome' = [fetched |-> TRUE, errors |-> e, drift |-> d]
  /\ pc' = "update"
  /\ UNCHANGED <<counted, closed, triggerVars, callVars, conds>>

\* StatusTracker.Update with a SyncStatus that carries no conditions.
Update ==
  /\ pc = "update"
  /\ conds' = [t \in ConditionType |-> ""]
  /\ pc' = "setSynced"
  /\ UNCHANGED <<outcome, counted, closed, triggerVars, callVars>>

\* One step of reconcileOnce that calls SetCondition for type t, status s.
SetStep(from, to, t, s) ==
  /\ pc = from
  /\ conds' = [conds EXCEPT ![t] = s]
  /\ pc' = to
  /\ UNCHANGED <<outcome, counted, closed, triggerVars, callVars>>

\* Mutants: a third status; Synced keeps its value when the fetch fails.
FailSyncedUnknown == SetStep("failSynced", "failMetrics", "Synced", "Unknown")
FailSyncedSkipped ==
  SetStep("failSynced", "failMetrics", "Synced", conds["Synced"])

FailError  == SetStep("failError", "failSynced", "Error", "True")
FailSynced == SetStep("failSynced", "failMetrics", "Synced", "False")

SetSynced  == SetStep("setSynced", "setError", "Synced",
                      IF outcome.errors THEN "False" ELSE "True")
SetError   == SetStep("setError", "setDrifted", "Error",
                      IF outcome.errors THEN "True" ELSE "False")
\* The drift alert that goes with the condition does not touch this state.
SetDrifted == SetStep("setDrifted", "verify", "Drifted",
                      IF outcome.drift THEN "True" ELSE "False")

\* verifyProviders checks the providers' keys and reports; it changes nothing
\* here.
VerifyStep ==
  /\ pc = "verify"
  /\ pc' = "metrics"
  /\ UNCHANGED <<outcome, counted, closed, triggerVars, callVars, conds>>

\* The counters are bumped under the metrics lock, before the waiters hear.
CountCycle ==
  /\ pc \in {"metrics", "failMetrics"}
  /\ counted' = counted \cup {IF HasErrors THEN "errors" ELSE "success"}
  /\ pc' = "notify"
  /\ UNCHANGED <<outcome, closed, triggerVars, callVars, conds>>

\* Mutant: the list is not cleared when it is taken.
TakeWaitersKeepsList ==
  /\ pc = "notify"
  /\ batch' = waiters
  /\ pc' = "deliver"
  /\ UNCHANGED <<outcome, counted, closed, triggerVars, call, waiters, inbox,
                 behind, conds>>

\* notifyWaiters: take the list and clear it under c.mu ...
TakeWaiters ==
  /\ pc = "notify"
  /\ batch' = waiters
  /\ waiters' = {}
  /\ pc' = "deliver"
  /\ UNCHANGED <<outcome, counted, closed, triggerVars, call, inbox, behind,
                 conds>>

\* ... then send to each channel.  A send blocks while the slot is taken.
Deliver(w) ==
  /\ pc = "deliver"
  /\ w \in batch
  /\ inbox[w] = "empty"
  /\ inbox' = [inbox EXCEPT ![w] = IF HasErrors THEN "failed" ELSE "clean"]
  /\ batch' = batch \ {w}
  /\ UNCHANGED <<loopVars, closed, triggerVars, call, waiters, behind, conds>>

\* Mutants: the list is cleared after the sends; the channel is drained.
EndCycleClearsList ==
  /\ pc = "deliver"
  /\ batch = {}
  /\ pc' = "idle"
  /\ waiters' = {}
  /\ UNCHANGED <<outcome, counted, closed, triggerVars, call, batch, inbox,
                 behind, conds>>

EndCycleDrainsTrigger ==
  /\ pc = "deliver"
  /\ batch = {}
  /\ pc' = "idle"
  /\ queued' = FALSE
  /\ UNCHANGED <<outcome, counted, closed, armed, fired, triggers, unseen,
                 callVars, conds>>

EndCycle ==
  /\ pc = "deliver"
  /\ batch = {}
  /\ pc' = "idle"
  /\ UNCHANGED <<outcome, counted, closed, triggerVars, callVars, conds>>

-----------------------------------------------------------------------------
(* Trigger: stop the timer if there is one and start a new one.  Stop does   *)
(* not recall a callback that has already started.                           *)

Trigger ==
  /\ triggers < MaxTriggers
  /\ triggers' = triggers + 1
  /\ armed' = TRUE
  /\ unseen' = TRUE
  /\ UNCHANGED <<loopVars, closed, queued, fired, callVars, conds>>

Fire ==
  /\ armed
  /\ fired < MaxFired
  /\ armed' = FALSE
  /\ fired' = fired + 1
  /\ UNCHANGED <<loopVars, closed, queued, triggers, unseen, callVars, conds>>

\* Mutant: the channel has no buffer, the send needs the loop at its select.
DebouncedSendUnbuffered ==
  /\ fired > 0
  /\ fired' = fired - 1
  /\ queued' = (queued \/ pc = "idle")
  /\ UNCHANGED <<loopVars, closed, armed, triggers, unseen, callVars, conds>>

\* Non-blocking send: with a token already queued it is a no-op.
DebouncedSend ==
  /\ fired > 0
  /\ fired' = fired - 1
  /\ queued' = TRUE
  /\ UNCHANGED <<loopVars, closed, armed, triggers, unseen, callVars, conds>>

-----------------------------------------------------------------------------
(* TriggerAndWait.                                                           *)

Register(w) ==
  /\ call[w] = "idle"
  /\ call' = [call EXCEPT ![w] = "registered"]
  /\ waiters' = waiters \cup {w}
  /\ behind' = IF pc \in {"idle", "fetch", "stopped"} THEN behind
               ELSE behind \cup {w}
  /\ UNCHANGED <<loopVars, closed, triggerVars, batch, inbox, conds>>

\* Mutant: no send while a cycle is running.
KickOnlyWhenIdle(w) ==
  /\ call[w] = "registered"
  /\ call' = [call EXCEPT ![w] = "waiting"]
  /\ queued' = (queued \/ pc = "idle")
  /\ UNCHANGED <<loopVars, closed, armed, fired, triggers, unseen, waiters, batch,
                 inbox, behind, conds>>

\* Non-blocking send to triggerCh, without the debounce.
Kick(w) ==
  /\ call[w] = "registered"
  /\ call' = [call EXCEPT ![w] = "waiting"]
  /\ queued' = TRUE
  /\ UNCHANGED <<loopVars, closed, armed, fired, triggers, unseen, waiters, batch,
                 inbox, behind, conds>>

Receive(w) ==
  /\ call[w] = "waiting"
  /\ inbox[w] # "empty"
  /\ call' = [call EXCEPT ![w] = "answered"]
  /\ UNCHANGED <<loopVars, closed, triggerVars, waiters, batch, inbox, behind,
                 conds>>

\* ctx.Done: the orphaned channel is filtered out of c.waiters under c.mu.
TimeOut(w) ==
  /\ call[w] = "waiting"
  /\ call' = [call EXCEPT ![w] = "timedout"]
  /\ waiters' = waiters \ {w}
  /\ UNCHANGED <<loopVars, closed, triggerVars, batch, inbox, behind, conds>>

-----------------------------------------------------------------------------
\* The serve command closes done on a signal; the loop sees it at its select.
CloseDone ==
  /\ ~closed
  /\ closed' = TRUE
  /\ UNCHANGED <<loopVars, triggerVars, callVars, conds>>

LoopStep ==
  \/ Fetch \/ Reconcile \/ Update \/ FailError \/ FailSynced
  \/ SetSynced \/ SetError \/ SetDrifted \/ VerifyStep \/ CountCycle
  \/ TakeWaiters \/ EndCycle
  \/ \E w \in Calls : Deliver(w)

Next ==
  \/ Tick \/ TakeTrigger \/ Stop
  \/ LoopStep
  \/ Trigger \/ Fire \/ DebouncedSend
  \/ \E w \in Calls : Register(w) \/ Kick(w) \/ Receive(w) \/ TimeOut(w)
  \/ CloseDone

Spec == Init /\ [][Next]_vars

(* Fairness: a runnable goroutine runs and a running timer fires (weak       *)
(* fairness); the select picks at random among its ready cases, so a case    *)
(* that is ready at infinitely many selects is taken (strong fairness).      *)
(* Nothing is assumed of the ticker, the callers' timeouts or the signal.    *)
Fairness ==
  /\ WF_vars(LoopStep)
  /\ SF_vars(TakeTrigger)
  /\ SF_vars(Stop)
  /\ WF_vars(Fire)
  /\ WF_vars(DebouncedSend)
  /\ \A w \in Calls : WF_vars(Kick(w)) /\ WF_vars(Receive(w))

FairSpec == Spec /\ Fairness

-----------------------------------------------------------------------------
(* Properties of the trigger path.                                           *)

(* A push announced by Trigger and not fetched yet is still on its way to    *)
(* the loop: its timer runs, its callback is about to send, a token is       *)
(* queued, or the loop has not fetched yet.  Re-arming the timer, a send     *)
(* dropped on a full channel and a callback that Stop came too late for      *)
(* never lose it (Trigger, controller.go).                                   *)
NoLostTrigger ==
  unseen => armed \/ fired > 0 \/ queued \/ pc = "fetch"

(* A call that came after the running cycle had fetched may get that cycle's *)
(* result, but the reconcile it asked for follows, answered or not: a token  *)
(* is queued or the loop is about to fetch.                                  *)
OwnReconcileFollows ==
  \A w \in behind :
    call[w] \in {"waiting", "answered", "timedout"} => queued \/ pc = "fetch"

(* TriggerAndWait drops its send when a token is queued and relies on that   *)
(* token: a call that waits in c.waiters always has a token queued or a      *)
(* cycle running that has not taken the list yet.                            *)
WaiterCovered ==
  \A w \in waiters : call[w] = "waiting" => queued \/ pc \in CycleSteps

(* A waiting call is registered, about to be sent to, or has its result;     *)
(* it is never forgotten between notifyWaiters' take and its send.           *)
NoForgottenWaiter ==
  \A w \in Calls : call[w] = "waiting" =>
    w \in waiters \/ w \in batch \/ inbox[w] # "empty"

(* notifyWaiters never blocks the loop: a channel it still has to send to is *)
(* empty, also when its call timed out after the list was taken, and it is   *)
(* not registered a second time.                                             *)
DeliverNeverBlocks ==
  \A w \in batch : inbox[w] = "empty" /\ w \notin waiters

(* The cleanup on ctx.Done leaves no channel behind in c.waiters.            *)
NoOrphan ==
  \A w \in waiters : call[w] \in {"registered", "waiting"} /\ inbox[w] = "empty"

(* Properties of the status.                                                 *)

(* From the moment the waiters are told until the next cycle starts, the     *)
(* conditions and the counters agree with the result the waiters get.        *)
StatusMatchesResult ==
  pc \in {"notify", "deliver", "idle", "stopped"} =>
    /\ conds["Synced"] = IF HasErrors THEN "False" ELSE "True"
    /\ conds["Error"] = IF HasErrors THEN "True" ELSE "False"
    /\ counted = {IF HasErrors THEN "errors" ELSE "success"}

(* A reader sees Synced and Error both True only between the two writes of   *)
(* a failed fetch, never at rest and never while a cycle is applied.         *)
ContradictionOnlyInFailedFetch ==
  conds["Synced"] = "True" /\ conds["Error"] = "True" => pc = "failSynced"

(* Strengthenings.  These carry the invariants above through the steps where *)
(* they are not yet, or no longer, true by themselves.                       *)

\* notifyWaiters' local list exists only while it is being sent.
BatchIsLocal == pc # "deliver" => batch = {}

\* A channel that is used belongs to a call that was made.
ChannelsInUse ==
  \A w \in Calls : w \in waiters \/ w \in batch \/ inbox[w] # "empty" =>
    call[w] # "idle"

\* A registered call has not lost its channel either.
RegisteredIsKnown ==
  \A w \in Calls : call[w] = "registered" =>
    w \in waiters \/ w \in batch \/ inbox[w] # "empty"

\* How far the conditions have come at each step of the cycle.
StatusProgress ==
  /\ pc \in SuccessSteps => outcome.fetched
  /\ pc \in FailureSteps => ~outcome.fetched
  /\ pc \in CycleSteps \ {"notify"} => counted = {}
  /\ pc = "setSynced" => \A t \in ConditionType : conds[t] = ""
  /\ pc = "setError" => conds["Error"] = ""
  /\ pc \in {"setError", "setDrifted", "verify", "metrics"} =>
       conds["Synced"] = IF outcome.errors THEN "False" ELSE "True"
  /\ pc \in {"setDrifted", "verify", "metrics"} =>
       conds["Error"] = IF outcome.errors THEN "True" ELSE "False"
  /\ pc \in {"failSynced", "failMetrics"} => conds["Error"] = "True"
  /\ pc = "failMetrics" => conds["Synced"] = "False"

TriggerInv == NoLostTrigger /\ OwnReconcileFollows

WaiterInv ==
  /\ WaiterCovered
  /\ NoForgottenWaiter
  /\ RegisteredIsKnown
  /\ DeliverNeverBlocks
  /\ NoOrphan
  /\ BatchIsLocal
  /\ ChannelsInUse

StatusInv ==
  /\ StatusMatchesResult
  /\ ContradictionOnlyInFailedFetch
  /\ StatusProgress

IInv == TypeOK /\ TriggerInv /\ WaiterInv /\ StatusInv

(* Liveness.                                                                 *)

(* Every call of TriggerAndWait that waits is answered or gives up, unless   *)
(* the controller was stopped.                                               *)
WaiterAnswered ==
  \A w \in Calls :
    call[w] = "waiting" ~> (call[w] \in {"answered", "timedout"} \/ pc = "stopped")

(* A webhook's Trigger is followed by a fetch even if the ticker never       *)
(* fires again, unless the controller was stopped.                           *)
TriggerFetched == unseen ~> (~unseen \/ pc = "stopped")

(* Closing done ends Run: neither blocked senders nor ready tickers hold it. *)
StopsEventually == closed ~> pc = "stopped"

=============================================================================
