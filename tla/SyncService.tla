----------------------------- MODULE SyncService -----------------------------
(***************************************************************************)
(* What the controller promises the callers of TriggerAndWait, without     *)
(* channels, locks or timers: cycles run one at a time, the end of a cycle *)
(* grants its result to everyone who is pending at that moment, all at     *)
(* once, and a request is pending until it is granted or given up.         *)
(***************************************************************************)
CONSTANT Clients

VARIABLES
  request,  \* request[c]: what became of client c's request
  cycle     \* "idle", "running" or "stopped"

serviceVars == <<request, cycle>>

ServiceTypeOK ==
  /\ request \in [Clients -> {"none", "pending", "granted", "done", "abandoned"}]
  /\ cycle \in {"idle", "running", "stopped"}

ServiceInit ==
  /\ request = [c \in Clients |-> "none"]
  /\ cycle = "running"

Ask(c) ==
  /\ request[c] = "none"
  /\ request' = [request EXCEPT ![c] = "pending"]
  /\ UNCHANGED cycle

StartCycle ==
  /\ cycle = "idle"
  /\ cycle' = "running"
  /\ UNCHANGED request

\* The whole batch is granted in one step; nobody who is pending is left out.
GrantAll ==
  /\ cycle = "running"
  /\ cycle' = "idle"
  /\ request' = [c \in Clients |->
                   IF request[c] = "pending" THEN "granted" ELSE request[c]]

Collect(c) ==
  /\ request[c] = "granted"
  /\ request' = [request EXCEPT ![c] = "done"]
  /\ UNCHANGED cycle

GiveUp(c) ==
  /\ request[c] \in {"pending", "granted"}
  /\ request' = [request EXCEPT ![c] = "abandoned"]
  /\ UNCHANGED cycle

Halt ==
  /\ cycle = "idle"
  /\ cycle' = "stopped"
  /\ UNCHANGED request

ServiceNext ==
  \/ StartCycle \/ GrantAll \/ Halt
  \/ \E c \in Clients : Ask(c) \/ Collect(c) \/ GiveUp(c)

ServiceSafety == ServiceInit /\ [][ServiceNext]_serviceVars

(* Every cycle ends, and a granted result is collected unless the client has *)
(* given up.                                                                 *)
ServiceSpec ==
  /\ ServiceSafety
  /\ WF_serviceVars(GrantAll)
  /\ \A c \in Clients : WF_serviceVars(Collect(c))
=============================================================================
