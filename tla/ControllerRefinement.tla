------------------------- MODULE ControllerRefinement -------------------------
(***************************************************************************)
(* The controller implements SyncService.  A request is pending while its  *)
(* channel is in c.waiters; taking the list in notifyWaiters grants it; it *)
(* is done once TriggerAndWait has received.                               *)
(***************************************************************************)
EXTENDS Controller

requestBar ==
  [w \in Calls |->
     CASE call[w] = "idle"     -> "none"
       [] call[w] = "answered" -> "done"
       [] call[w] = "timedout" -> "abandoned"
       [] OTHER                -> IF w \in waiters THEN "pending" ELSE "granted"]

cycleBar ==
  IF pc = "stopped" THEN "stopped"
  ELSE IF pc \in CycleSteps THEN "running" ELSE "idle"

Service == INSTANCE SyncService
             WITH Clients <- Calls, request <- requestBar, cycle <- cycleBar

(* The loop, its trigger channel and its waiter list implement the batch     *)
(* service: every step is a service step or invisible, and every cycle ends  *)
(* and every granted result is collected.                                    *)
ImplementsService == Service!ServiceSpec
=============================================================================
