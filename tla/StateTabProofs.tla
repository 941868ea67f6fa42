--------------------------- MODULE StateTabProofs ---------------------------
(***************************************************************************)
(* Proofs about module StateTab, for any manifest and any number of inputs. *)
(***************************************************************************)
EXTENDS StateTab, SequenceTheorems, TLAPS

-----------------------------------------------------------------------------
(* Tables and refreshes.                                                     *)

(* A filter of the plan is a table with rows of the plan, and its first row  *)
(* is selected.                                                              *)
LEMMA FilteredTable ==
  ASSUME IsTable(plan), NEW k, NEW s, RefreshTable(plan, k, s)
  PROVE  /\ IsTable(table') /\ cursor' \in Managed \cup {None}
         /\ DOMAIN table' \subseteq DOMAIN plan
         /\ \A r \in DOMAIN table' : table'[r] = plan[r]
<1>1. /\ DOMAIN table' = DOMAIN plan \cap k \cap s
      /\ \A r \in DOMAIN table' : table'[r] = plan[r]
  BY DEF RefreshTable, GetChanges
<1>2. IsTable(table')
  BY <1>1 DEF IsTable, RefreshTable, GetChanges
<1>3. cursor' \in DOMAIN table' \cup {None}
  BY DEF RefreshTable, FirstRow
<1>4. QED
  BY <1>1, <1>2, <1>3 DEF IsTable

(* TryLock: what runs after refresh was called is what ran, or a new one.    *)
LEMMA RefreshType ==
  ASSUME \A f \in refreshes : IsRefresh(f) /\ refreshes = {f},
         NEW by \in {"start", "loop", "action"}
  PROVE  /\ \A f \in Refresh(by) : IsRefresh(f) /\ Refresh(by) = {f}
         /\ \A f \in Refresh(by) : f \in refreshes \/ (f.pc = "reading" /\ f.got = Nothing)
<1> DEFINE new == [by |-> by, got |-> Nothing, pc |-> "reading"]
<1>1. IsTable(Nothing)
  BY DEF IsTable, Nothing
<1>2. IsRefresh(new)
  BY <1>1 DEF IsRefresh
<1>3. CASE refreshes = {}
  <2>1. Refresh(by) = {new}
    BY <1>3 DEF Refresh
  <2>2. QED
    BY <1>2, <2>1
<1>4. CASE refreshes # {}
  <2>1. Refresh(by) = refreshes
    BY <1>4 DEF Refresh
  <2>2. QED
    BY <2>1
<1>5. QED
  BY <1>3, <1>4

(* popView.                                                                  *)
LEMMA PopType ==
  ASSUME NEW S, NEW s \in Seq(S), s # <<>>
  PROVE  SubSeq(s, 1, Len(s) - 1) \in Seq(S)
OBVIOUS

(* The one that runs goes on.                                                *)
LEMMA ReplaceType ==
  ASSUME \A f \in refreshes : refreshes = {f},
         NEW f \in refreshes, NEW g, IsRefresh(g), Replace(f, g)
  PROVE  refreshes' = {g} /\ \A h \in refreshes' : IsRefresh(h) /\ refreshes' = {h}
BY DEF Replace

(* An observe adds a row to what a refresh has got.                          *)
LEMMA ObservedType ==
  ASSUME NEW f, IsRefresh(f), NEW r \in Managed, NEW row \in Rows
  PROVE  /\ IsRefresh(Observed(f, r, row))
         /\ DOMAIN Observed(f, r, row).got = DOMAIN f.got \cup {r}
         /\ \A x \in DOMAIN Observed(f, r, row).got :
              Observed(f, r, row).got[x] = IF x = r THEN row ELSE f.got[x]
         /\ Observed(f, r, row).pc = "read" => DOMAIN f.got \cup {r} = Managed
<1> DEFINE got == [x \in DOMAIN f.got \cup {r} |-> IF x = r THEN row ELSE f.got[x]]
           pc == IF DOMAIN got = Managed THEN "read" ELSE "reading"
<1>1. IsTable(got)
  BY DEF IsTable, IsRefresh
<1>2. Observed(f, r, row) = [f EXCEPT !.got = got, !.pc = pc]
  BY DEF Observed
<1>3. /\ Observed(f, r, row).by = f.by /\ Observed(f, r, row).got = got
      /\ Observed(f, r, row).pc = pc
  BY <1>2 DEF IsRefresh
<1>4. IsRefresh(Observed(f, r, row))
  BY <1>1, <1>2, <1>3 DEF IsRefresh
<1>5. QED
  BY <1>3, <1>4

(* What the modal asks, and where the keys go.                               *)
AskedType ==
  /\ asked \in Questions
  /\ overlays \in Seq({"confirm", "detail", "help"})
  /\ focus \in {"table", "modal", "bar", "other"}

(* deleteResource asks for the selected resource.                            *)
LEMMA DeleteAsks ==
  ASSUME StateTypeOK, DeleteResource
  PROVE  AskedType'
<1>1. CASE cursor # None
  <2>1. asked' = [op |-> "delete", of |-> {cursor}] /\ cursor \in Managed
    BY <1>1 DEF DeleteResource, Confirm, StateTypeOK
  <2>2. overlays' = Append(overlays, "confirm") /\ focus' = "modal"
    BY <1>1 DEF DeleteResource, Confirm
  <2>3. QED
    BY <2>1, <2>2 DEF AskedType, Questions, StateTypeOK
<1>2. CASE cursor = None
  BY <1>2 DEF DeleteResource, AskedType, StateTypeOK
<1>3. QED
  BY <1>1, <1>2

(* applyAll asks for everything.                                             *)
LEMMA ApplyAsks ==
  ASSUME StateTypeOK, ApplyAll
  PROVE  AskedType'
<1>1. CASE Confirm("apply", Managed)
  <2>1. asked' = [op |-> "apply", of |-> Managed]
    BY <1>1 DEF Confirm
  <2>2. overlays' = Append(overlays, "confirm") /\ focus' = "modal"
    BY <1>1 DEF Confirm
  <2>3. QED
    BY <2>1, <2>2 DEF AskedType, Questions, StateTypeOK
<1>2. CASE focus' = "table" /\ UNCHANGED <<asked, overlays>>
  BY <1>2 DEF AskedType, StateTypeOK
<1>3. QED
  BY <1>1, <1>2 DEF ApplyAll

(* A goroutine has one resource less to do.                                  *)
LEMMA WorkersGoOn ==
  ASSUME StateTypeOK, NEW w \in workers, NEW r,
         workers' = (workers \ {w}) \cup {[w EXCEPT !.left = @ \ {r}]}
  PROVE  workers' \subseteq Workers
<1>1. w \in Workers
  BY DEF StateTypeOK
<1>2. [w EXCEPT !.left = @ \ {r}] \in Workers
  BY <1>1 DEF Workers
<1>3. QED
  BY <1>2 DEF StateTypeOK

(* refreshFromServe takes what serve has reported of.                        *)
LEMMA StatusType ==
  ASSUME StateTypeOK, NEW f, IsRefresh(f), NEW g,
         g = [f EXCEPT !.pc = "read",
                       !.got = [r \in {x \in Managed : report[x].word # None} |->
                                  StatusToChanges(report[r])]]
  PROVE  /\ IsRefresh(g)
         /\ DOMAIN g.got = {r \in Managed : report[r].word # None}
         /\ \A r \in DOMAIN g.got : g.got[r].at = report[r].at
<1> DEFINE S == {x \in Managed : report[x].word # None}
           got == [r \in S |-> StatusToChanges(report[r])]
<1>1. \A r \in S : StatusToChanges(report[r]) \in Rows
                   /\ StatusToChanges(report[r]).at = report[r].at
  <2> SUFFICES ASSUME NEW r \in S
               PROVE  StatusToChanges(report[r]) \in Rows
                      /\ StatusToChanges(report[r]).at = report[r].at
    OBVIOUS
  <2>1. report[r].at \in Nat
    BY DEF StateTypeOK
  <2>2. QED
    BY <2>1 DEF StatusToChanges, Rows, States
<1>2. IsTable(got)
  BY <1>1 DEF IsTable
<1>3. g.by = f.by /\ g.got = got /\ g.pc = "read"
  BY DEF IsRefresh
<1>4. IsRefresh(g)
  BY <1>2, <1>3 DEF IsRefresh
<1>5. QED
  BY <1>1, <1>3, <1>4

(* A refresh that reads goes on with what it got.                            *)
LEMMA ReadsGoOn ==
  ASSUME StateTypeOK, NEW f \in refreshes, Reads(f)
  PROVE  \E g : /\ IsRefresh(g) /\ refreshes' = {g}
                /\ \A r \in DOMAIN g.got :
                     \/ r \in DOMAIN f.got /\ g.got[r] = f.got[r] /\ ~attached
                     \/ g.got[r].at = Latest(r) /\ (attached => report[r].word # None)
                /\ g.pc = "read" =>
                     DOMAIN g.got = IF attached THEN {r \in Managed : report[r].word # None}
                                    ELSE Managed
<1>1. IsRefresh(f) /\ \A h \in refreshes : refreshes = {h}
  BY DEF StateTypeOK
<1>2. CASE attached
  <2> DEFINE g == [f EXCEPT !.pc = "read",
                            !.got = [r \in {x \in Managed : report[x].word # None} |->
                                       StatusToChanges(report[r])]]
  <2>1. Replace(f, g)
    BY <1>2 DEF Reads
  <2>2. /\ IsRefresh(g) /\ DOMAIN g.got = {r \in Managed : report[r].word # None}
        /\ \A r \in DOMAIN g.got : g.got[r].at = report[r].at
    BY <1>1, StatusType
  <2>3. refreshes' = {g}
    BY <1>1, <2>1, <2>2, ReplaceType
  <2> HIDE DEF g
  <2>4. WITNESS g
  <2>5. QED
    BY <1>2, <2>2, <2>3 DEF Latest
<1>3. CASE ~attached
  <2>1. PICK r \in Managed : Replace(f, Observed(f, r, remote[r]))
    BY <1>3 DEF Reads
  <2>2. remote[r] \in Rows
    BY DEF StateTypeOK
  <2> DEFINE g == Observed(f, r, remote[r])
  <2>3. /\ IsRefresh(g) /\ DOMAIN g.got = DOMAIN f.got \cup {r}
        /\ \A x \in DOMAIN g.got : g.got[x] = IF x = r THEN remote[r] ELSE f.got[x]
        /\ g.pc = "read" => DOMAIN f.got \cup {r} = Managed
    BY <1>1, <2>2, ObservedType
  <2>4. refreshes' = {g}
    BY <1>1, <2>1, <2>3, ReplaceType
  <2> HIDE DEF g
  <2>5. WITNESS g
  <2>6. QED
    BY <1>3, <2>3, <2>4 DEF Latest
<1>4. QED
  BY <1>2, <1>3

-----------------------------------------------------------------------------
(* Every step keeps the types, and lets one refresh run.                     *)
LEMMA TypeStep == StateInv /\ [StateNext]_stateVars => StateTypeOK'
<1> SUFFICES ASSUME StateInv, [StateNext]_stateVars
             PROVE  StateTypeOK'
  OBVIOUS
<1> USE StateAssumption DEF StateInv, uiVars, refreshVars
<1>1. CASE TriggerRefresh
  BY <1>1 DEF TriggerRefresh, Input, Count, StateTypeOK
<1>2. CASE ShowDetail
  BY <1>2 DEF ShowDetail, Input, Count, StateTypeOK
<1>3. CASE ToggleHelp
  <2>1. overlays' \in Seq({"confirm", "detail", "help"}) /\ focus' \in {"table", "other"}
    <3>1. overlays \in Seq({"confirm", "detail", "help"})
      BY DEF StateTypeOK
    <3>2. CASE overlays # <<>> /\ overlays[Len(overlays)] = "help"
      BY <1>3, <3>1, <3>2, PopType DEF ToggleHelp
    <3>3. CASE ~(overlays # <<>> /\ overlays[Len(overlays)] = "help")
      BY <1>3, <3>1, <3>3 DEF ToggleHelp
    <3>4. QED
      BY <3>2, <3>3
  <2>2. QED
    BY <1>3, <2>1 DEF ToggleHelp, Input, Count, StateTypeOK
<1>4. CASE CtrlD
  <2>1. AskedType'
    BY <1>4, DeleteAsks DEF CtrlD, StateTypeOK
  <2>2. QED
    BY <1>4, <2>1 DEF CtrlD, Input, Count, AskedType, StateTypeOK
<1>5. CASE EditResource
  BY <1>5 DEF EditResource, Input, Count, Rows, StateTypeOK
<1>6. ASSUME NEW r \in Managed, Move(r)
      PROVE  StateTypeOK'
  BY <1>6 DEF Move, Input, Count, IsTable, StateTypeOK
<1>7. ASSUME NEW k \in {Managed} \cup {{r} : r \in Managed}, SwitchKind(k)
      PROVE  StateTypeOK'
  BY <1>7, FilteredTable DEF SwitchKind, Input, Count, StateTypeOK
<1>8. ASSUME NEW yes \in BOOLEAN, Answer(yes)
      PROVE  StateTypeOK'
  BY <1>8 DEF Answer, Input, Count, Worker, Workers, Questions, Ops,
     StateTypeOK
<1>9. CASE ActivateCommandBar
  BY <1>9 DEF ActivateCommandBar, Input, Count, StateTypeOK
<1>10. CASE ActivateSearch
  BY <1>10 DEF ActivateSearch, Input, Count, StateTypeOK
<1>11. CASE Escape
  <2>1. /\ search' \subseteq Managed /\ IsTable(table') /\ cursor' \in Managed \cup {None}
        /\ overlays' \in Seq({"confirm", "detail", "help"})
    <3>1. overlays \in Seq({"confirm", "detail", "help"}) /\ IsTable(plan)
      BY DEF StateTypeOK
    <3>2. CASE mode = "normal" /\ overlays # <<>>
      <4>1. /\ overlays' = SubSeq(overlays, 1, Len(overlays) - 1)
            /\ UNCHANGED <<search, table, cursor>>
        BY <1>11, <3>2 DEF Escape
      <4>2. overlays' \in Seq({"confirm", "detail", "help"})
        BY <3>1, <3>2, <4>1, PopType
      <4>3. QED
        BY <4>1, <4>2 DEF StateTypeOK
    <3>3. CASE mode # "normal" \/ (overlays = <<>> /\ search # Managed)
      BY <1>11, <3>1, <3>3, FilteredTable DEF Escape
    <3>4. CASE /\ ~(mode = "normal" /\ overlays # <<>>)
               /\ ~(mode # "normal" \/ (overlays = <<>> /\ search # Managed))
      BY <1>11, <3>4 DEF Escape, StateTypeOK
    <3>5. QED
      BY <3>2, <3>3, <3>4
  <2>2. QED
    BY <1>11, <2>1 DEF Escape, Input, Count, StateTypeOK
<1>12. ASSUME NEW c \in {"apply", "delete", "sync"}, Submit(c)
       PROVE  StateTypeOK'
  <2>1. CASE done = "command"
    <3>1. ExecuteCommand(c) /\ UNCHANGED <<search, table, cursor>>
      BY <1>12, <2>1 DEF Submit
    <3>2. AskedType'
      BY <3>1, DeleteAsks, ApplyAsks DEF ExecuteCommand, AskedType, StateTypeOK
    <3>3. Worker("sync", {}, None) \in Workers
      BY DEF Worker, Workers, Ops, StateTypeOK
    <3>4. workers' \subseteq Workers
      BY <3>1, <3>3 DEF ExecuteCommand, StateTypeOK
    <3>5. QED
      BY <1>12, <3>1, <3>2, <3>4 DEF Submit, Input, Count, AskedType, StateTypeOK
  <2>2. CASE done # "command"
    <3>1. search' = {} /\ focus' = "table" /\ UNCHANGED <<asked, overlays, workers>>
      BY <1>12, <2>2 DEF Submit
    <3>2. IsTable(table') /\ cursor' \in Managed \cup {None}
      BY <1>12, <2>2, FilteredTable DEF Submit, StateTypeOK
    <3>3. QED
      BY <1>12, <3>1, <3>2 DEF Submit, Input, Count, StateTypeOK
  <2>3. QED
    BY <2>1, <2>2
<1>13. ASSUME NEW found \in {{}, Managed}, Search(found)
       PROVE  StateTypeOK'
  BY <1>13, FilteredTable DEF Search, Input, Count, StateTypeOK
<1>14. CASE CloseEditor
  <2>1. editing.of \in Managed /\ editing.from \in States
    BY <1>14 DEF CloseEditor, StateTypeOK
  <2>2. \A to \in {"drifted", "synced", editing.from} :
          Worker("update", {editing.of}, to) \in Workers
    BY <2>1 DEF Worker, Workers, States, Ops, StateTypeOK
  <2>3. workers' \subseteq Workers
    <3>1. workers \subseteq Workers
      BY DEF StateTypeOK
    <3>2. QED
      BY <1>14, <2>2, <3>1, Zenon DEF CloseEditor
  <2>4. QED
    BY <1>14, <2>3 DEF CloseEditor, StateTypeOK
<1>15. ASSUME NEW signal \in BOOLEAN, LoopWakes(signal)
       PROVE  StateTypeOK'
  BY <1>15, RefreshType DEF LoopWakes, StateTypeOK
<1>16. ASSUME NEW f \in refreshes, Reads(f)
       PROVE  StateTypeOK'
  <2>1. \A g \in refreshes' : IsRefresh(g) /\ refreshes' = {g}
    BY <1>16, ReadsGoOn
  <2>2. QED
    BY <1>16, <2>1 DEF Reads, StateTypeOK
<1>17. ASSUME NEW f \in refreshes, UpdatePlan(f)
       PROVE  StateTypeOK'
  <2> DEFINE g == [f EXCEPT !.pc = "drawing", !.got = Nothing]
  <2>1. IsRefresh(f) /\ plan' = f.got
    BY <1>17 DEF UpdatePlan, StateTypeOK
  <2>2. IsTable(Nothing)
    BY DEF IsTable, Nothing
  <2>3. IsRefresh(g)
    BY <2>1, <2>2 DEF IsRefresh
  <2>4. \A h \in refreshes' : IsRefresh(h) /\ refreshes' = {h}
    BY <1>17, <2>3, ReplaceType DEF UpdatePlan, StateTypeOK
  <2>5. QED
    BY <1>17, <2>1, <2>4 DEF UpdatePlan, IsRefresh, StateTypeOK
<1>18. ASSUME NEW f \in refreshes, DrawTable(f)
       PROVE  StateTypeOK'
  BY <1>18, FilteredTable DEF DrawTable, Released, StateTypeOK
<1>19. ASSUME NEW w \in workers, ActRefreshes(w)
       PROVE  StateTypeOK'
  BY <1>19, RefreshType DEF ActRefreshes, StateTypeOK
<1>20. ASSUME NEW w \in workers, NEW r \in Managed, Acts(w, r)
       PROVE  StateTypeOK'
  <2>1. workers' \subseteq Workers
    BY <1>20, WorkersGoOn DEF Acts
  <2>2. \A s \in States \cup {w.to} : s \in States => Changed(r, s) \in [Managed -> Rows]
    BY DEF Changed, Rows, StateTypeOK
  <2>3. w.op = "update" => w.to \in States
    BY DEF OnlyAgreedDeletes
  <2>4. remote' \in [Managed -> Rows]
    BY <1>20, <2>2, <2>3 DEF Acts, States, StateTypeOK
  <2>5. QED
    BY <1>20, <2>1, <2>4 DEF Acts, StateTypeOK
<1>21. ASSUME NEW r \in Managed, DetailLoaded(r)
       PROVE  StateTypeOK'
  BY <1>21 DEF DetailLoaded, StateTypeOK
<1>22. ASSUME NEW w \in workers, NEW r \in Managed, ActFails(w, r)
       PROVE  StateTypeOK'
  <2>1. workers' \subseteq Workers
    BY <1>22, WorkersGoOn DEF ActFails
  <2>2. QED
    BY <1>22, <2>1 DEF ActFails, Count, StateTypeOK
<1>23. ASSUME NEW r \in Managed, NEW s \in {"missing", "drifted"}, Meddle(r, s)
       PROVE  StateTypeOK'
  BY <1>23 DEF Meddle, Count, Changed, Rows, States, StateTypeOK
<1>24. ASSUME NEW f \in refreshes, StatusFails(f)
       PROVE  StateTypeOK'
  BY <1>24 DEF StatusFails, Count, Released, StateTypeOK
<1>25. ASSUME NEW f \in refreshes, NEW r \in Managed, ObserveFails(f, r)
       PROVE  StateTypeOK'
  <2>1. [is |-> "error", at |-> remote[r].at] \in Rows
    BY DEF Rows, States, StateTypeOK
  <2>2. IsRefresh(Observed(f, r, [is |-> "error", at |-> remote[r].at]))
    BY <2>1, ObservedType DEF StateTypeOK
  <2>3. \A h \in refreshes' : IsRefresh(h) /\ refreshes' = {h}
    BY <1>25, <2>2, ReplaceType DEF ObserveFails, StateTypeOK
  <2>4. QED
    BY <1>25, <2>3 DEF ObserveFails, Count, StateTypeOK
<1>26. ASSUME NEW bad \in SUBSET Managed, ServeCycle(bad)
       PROVE  StateTypeOK'
  BY <1>26 DEF ServeCycle, Count, Words, Word, Rows, States, StateTypeOK
<1>27. CASE UNCHANGED stateVars
  BY <1>27 DEF stateVars, StateTypeOK
<1>28. QED
  BY <1>1, <1>2, <1>3, <1>4, <1>5, <1>6, <1>7, <1>8, <1>9, <1>10, <1>11, <1>12,
     <1>13, <1>14, <1>15, <1>16, <1>17, <1>18, <1>19, <1>20, <1>21, <1>22,
     <1>23, <1>24, <1>25, <1>26, <1>27
     DEF StateNext, StateKey, RefreshStep, DrawStep, WorkerStep

-----------------------------------------------------------------------------
(* Rows keep their order.                                                    *)

(* A key redraws the table from the plan, or leaves it.                      *)
LEMMA KeysRedraw ==
  ASSUME StateKey
  PROVE  /\ UNCHANGED <<attached, remote, report, plan, refreshes>>
         /\ UNCHANGED table \/ \E k, s : RefreshTable(plan, k, s)
<1>1. UNCHANGED <<attached, remote, report, plan, refreshes>>
  BY DEF StateKey, Input, Count, TriggerRefresh, ShowDetail, ToggleHelp, CtrlD,
     EditResource, Move, SwitchKind, Answer, ActivateCommandBar, ActivateSearch,
     Escape, Submit, Search
<1>2. CASE Escape
  <2>1. CASE mode = "normal" /\ overlays # <<>>
    BY <1>1, <1>2, <2>1 DEF Escape
  <2>2. CASE mode # "normal" \/ (overlays = <<>> /\ search # Managed)
    <3>1. RefreshTable(plan, kind, Managed)
      BY <1>2, <2>2 DEF Escape
    <3>2. QED
      BY <1>1, <3>1
  <2>3. CASE mode = "normal" /\ overlays = <<>> /\ search = Managed
    BY <1>1, <1>2, <2>3 DEF Escape
  <2>4. QED
    BY <1>1, <2>1, <2>2, <2>3
<1>3. ASSUME NEW c \in {"apply", "delete", "sync"}, Submit(c)
      PROVE  UNCHANGED table \/ \E k, s : RefreshTable(plan, k, s)
  BY <1>3 DEF Submit
<1>4. ASSUME NEW k, SwitchKind(k)
      PROVE  \E j, s : RefreshTable(plan, j, s)
  BY <1>4 DEF SwitchKind
<1>5. ASSUME NEW found, Search(found)
      PROVE  \E k, s : RefreshTable(plan, k, s)
  BY <1>5 DEF Search
<1>6. QED
  BY <1>1, <1>2, <1>3, <1>4, <1>5 DEF StateKey, TriggerRefresh, ShowDetail, ToggleHelp,
     CtrlD, EditResource, Move, Answer, ActivateCommandBar, ActivateSearch, uiVars

(* The versions are numbers.                                                 *)
LEMMA Versions ==
  ASSUME StateTypeOK
  PROVE  /\ \A r \in Managed : remote[r].at \in Nat /\ report[r].at \in Nat /\ Latest(r) \in Nat
         /\ DOMAIN plan \subseteq Managed /\ \A r \in DOMAIN plan : plan[r].at \in Nat
         /\ DOMAIN table \subseteq Managed /\ \A r \in DOMAIN table : table[r].at \in Nat
         /\ \A f \in refreshes : DOMAIN f.got \subseteq Managed
                                 /\ \A r \in DOMAIN f.got : f.got[r].at \in Nat
BY DEF StateTypeOK, IsTable, IsRefresh, Rows, Latest

(* GoClaw's versions only grow, and so do those serve reports.               *)
LEMMA VersionsGrow ==
  ASSUME StateTypeOK, RowsInOrder, [StateNext]_stateVars
  PROVE  /\ attached' = attached
         /\ \A r \in Managed :
              /\ remote'[r].at >= remote[r].at /\ report'[r].at >= report[r].at
              /\ report'[r].at <= remote'[r].at
              /\ report[r].word # None => report'[r].word # None
<1> SUFFICES ASSUME NEW r \in Managed
             PROVE  /\ attached' = attached
                    /\ remote'[r].at >= remote[r].at /\ report'[r].at >= report[r].at
                    /\ report'[r].at <= remote'[r].at
                    /\ report[r].word # None => report'[r].word # None
  BY StateAssumption
<1>1. attached' = attached
  <2>1. CASE StateKey
    BY <2>1, KeysRedraw
  <2>2. QED
    BY <2>1 DEF StateNext, stateVars, CloseEditor, LoopWakes, RefreshStep, Reads,
       UpdatePlan, DrawStep, DrawTable, WorkerStep, ActRefreshes, Acts, DetailLoaded,
       ActFails, Meddle, StatusFails, ObserveFails, ServeCycle
<1>2. /\ remote[r] \in Rows /\ remote[r].at \in Nat /\ report[r].at \in Nat
      /\ report[r].at <= remote[r].at
  BY DEF StateTypeOK, Rows, RowsInOrder
<1>3. CASE UNCHANGED <<remote, report>>
  BY <1>1, <1>2, <1>3
<1>4. ASSUME NEW x \in Managed, NEW s, remote' = Changed(x, s), report' = report
      PROVE  /\ remote'[r].at >= remote[r].at /\ report'[r].at >= report[r].at
             /\ report'[r].at <= remote'[r].at
             /\ report[r].word # None => report'[r].word # None
  <2>1. remote'[r].at = IF r = x THEN remote[r].at + 1 ELSE remote[r].at
    BY <1>4 DEF Changed, StateTypeOK
  <2>2. QED
    BY <1>2, <1>4, <2>1
<1>5. ASSUME NEW bad \in SUBSET Managed, ServeCycle(bad)
      PROVE  /\ remote'[r].at >= remote[r].at /\ report'[r].at >= report[r].at
             /\ report'[r].at <= remote'[r].at
             /\ report'[r].word # None
  <2>1. remote'[r].at = IF r \in bad \/ remote[r].is = "synced" THEN remote[r].at
                        ELSE remote[r].at + 1
    BY <1>5 DEF ServeCycle
  <2>2. /\ report'[r].at = remote[r].at
        /\ report'[r].word = IF r \in bad THEN "Error" ELSE Word(remote[r].is)
    BY <1>5 DEF ServeCycle
  <2>3. report'[r].word # None
    BY <2>2 DEF Word, None
  <2>4. QED
    BY <1>2, <2>1, <2>2, <2>3
<1>6. \/ UNCHANGED <<remote, report>>
      \/ \E x \in Managed : \E s : remote' = Changed(x, s) /\ report' = report
      \/ \E bad \in SUBSET Managed : ServeCycle(bad)
  <2>1. CASE StateKey
    BY <2>1, KeysRedraw
  <2>2. ASSUME NEW w \in workers, NEW x \in Managed, Acts(w, x)
        PROVE  report' = report /\ (remote' = remote \/ \E s : remote' = Changed(x, s))
    BY <2>2 DEF Acts
  <2>3. ASSUME NEW x \in Managed, NEW s, Meddle(x, s)
        PROVE  remote' = Changed(x, s) /\ report' = report
    BY <2>3 DEF Meddle
  <2>4. QED
    BY <2>1, <2>2, <2>3 DEF StateNext, stateVars, CloseEditor, LoopWakes, RefreshStep,
       Reads, UpdatePlan, DrawStep, DrawTable, WorkerStep, ActRefreshes, DetailLoaded,
       ActFails, StatusFails, ObserveFails
<1>7. QED
  BY <1>1, <1>3, <1>4, <1>5, <1>6

(* Rows move one place at a time, from GoClaw to the table.                  *)
LEMMA OrderStep == StateInv /\ [StateNext]_stateVars => RowsInOrder'
<1> SUFFICES ASSUME StateInv, [StateNext]_stateVars
             PROVE  RowsInOrder'
  OBVIOUS
<1>0. StateTypeOK /\ RowsInOrder /\ StateTypeOK'
  BY TypeStep DEF StateInv
<1>1. /\ DOMAIN plan \subseteq Managed /\ DOMAIN table \subseteq Managed
      /\ \A r \in Managed : Latest(r) \in Nat
      /\ \A r \in DOMAIN plan : plan[r].at \in Nat
      /\ \A r \in DOMAIN table : table[r].at \in Nat
      /\ \A f \in refreshes : /\ DOMAIN f.got \subseteq Managed
                              /\ \A r \in DOMAIN f.got : f.got[r].at \in Nat
  BY <1>0, Versions
<1>2. \A r \in Managed :
        /\ report'[r].at <= remote'[r].at
        /\ Latest(r)' \in Nat /\ Latest(r)' >= Latest(r)
        /\ (attached => report[r].word # None) => (attached' => report'[r].word # None)
  <2>1. \A r \in Managed : remote'[r].at \in Nat /\ report'[r].at \in Nat
    BY <1>0 DEF StateTypeOK, Rows
  <2>2. QED
    BY <1>0, <2>1, Versions, VersionsGrow DEF Latest
<1> DEFINE TableInOrder ==
             /\ DOMAIN table \subseteq DOMAIN plan
             /\ \A r \in DOMAIN table : table[r].at <= plan[r].at
           PlanInOrder ==
             \A r \in DOMAIN plan :
               plan[r].at <= Latest(r) /\ (attached => report[r].word # None)
           GotInOrder(f) ==
             /\ f.pc = "read" => DOMAIN plan \subseteq DOMAIN f.got
             /\ \A r \in DOMAIN f.got :
                  /\ f.got[r].at <= Latest(r) /\ (attached => report[r].word # None)
                  /\ r \in DOMAIN plan => plan[r].at <= f.got[r].at
<1>3. TableInOrder /\ PlanInOrder /\ \A f \in refreshes : GotInOrder(f)
  BY <1>0 DEF RowsInOrder
<1>4. SUFFICES TableInOrder' /\ PlanInOrder' /\ \A f \in refreshes' : GotInOrder(f)'
  BY <1>2 DEF RowsInOrder
<1>5. UNCHANGED plan => PlanInOrder' /\ \A f \in refreshes : GotInOrder(f)'
  BY <1>1, <1>2, <1>3
<1> DEFINE Redraws == UNCHANGED table \/ \E k, s : RefreshTable(plan, k, s)
<1>6. UNCHANGED plan /\ Redraws => TableInOrder'
  <2>1. CASE UNCHANGED <<plan, table>>
    BY <1>3, <2>1
  <2>2. ASSUME UNCHANGED plan, NEW k, NEW s, RefreshTable(plan, k, s)
        PROVE  TableInOrder'
    <3>1. IsTable(plan)
      BY <1>0 DEF StateTypeOK
    <3>2. DOMAIN table' \subseteq DOMAIN plan /\ \A r \in DOMAIN table' : table'[r] = plan[r]
      BY <2>2, <3>1, FilteredTable
    <3>3. QED
      BY <1>1, <2>2, <3>2
  <2>3. QED
    BY <2>1, <2>2
<1>7. ASSUME NEW by \in {"start", "loop", "action"}, refreshes' = Refresh(by),
             UNCHANGED <<plan, table>>
      PROVE  TableInOrder' /\ PlanInOrder' /\ \A f \in refreshes' : GotInOrder(f)'
  <2>1. \A f \in refreshes' : f \in refreshes \/ (f.pc = "reading" /\ f.got = Nothing)
    BY <1>0, <1>7, RefreshType DEF StateTypeOK
  <2>2. \A f : f.pc = "reading" /\ f.got = Nothing => GotInOrder(f)'
    BY DEF Nothing
  <2>3. QED
    BY <1>3, <1>5, <1>7, <2>1, <2>2
<1>8. ASSUME NEW f \in refreshes, Reads(f)
      PROVE  TableInOrder' /\ PlanInOrder' /\ \A g \in refreshes' : GotInOrder(g)'
  <2>1. UNCHANGED <<attached, remote, report, table, plan>>
    BY <1>8 DEF Reads, uiVars
  <2>2. PICK g : /\ IsRefresh(g) /\ refreshes' = {g}
                 /\ \A r \in DOMAIN g.got :
                      \/ r \in DOMAIN f.got /\ g.got[r] = f.got[r] /\ ~attached
                      \/ g.got[r].at = Latest(r) /\ (attached => report[r].word # None)
                 /\ g.pc = "read" =>
                      DOMAIN g.got = IF attached THEN {r \in Managed : report[r].word # None}
                                     ELSE Managed
    BY <1>0, <1>8, ReadsGoOn
  <2>3. DOMAIN g.got \subseteq Managed
    BY <2>2 DEF IsRefresh, IsTable
  <2>4. GotInOrder(g)
    BY <1>1, <1>3, <2>2, <2>3
  <2>5. GotInOrder(g)'
    BY <2>1, <2>4 DEF Latest
  <2>6. QED
    BY <1>3, <1>5, <2>1, <2>2, <2>5
<1>9. ASSUME NEW f \in refreshes, UpdatePlan(f)
      PROVE  TableInOrder' /\ PlanInOrder' /\ \A g \in refreshes' : GotInOrder(g)'
  <2>1. f.pc = "read" /\ plan' = f.got /\ UNCHANGED <<attached, remote, report, table>>
    BY <1>9 DEF UpdatePlan, uiVars
  <2>2. refreshes' = {[f EXCEPT !.pc = "drawing", !.got = Nothing]}
    BY <1>0, <1>9 DEF UpdatePlan, Replace, StateTypeOK
  <2>3. \A g \in refreshes' : g.pc = "drawing" /\ g.got = Nothing
    BY <1>0, <2>2 DEF StateTypeOK, IsRefresh
  <2>4. TableInOrder'
    BY <1>1, <1>3, <2>1
  <2>5. PlanInOrder'
    BY <1>3, <2>1 DEF Latest
  <2>6. QED
    BY <2>3, <2>4, <2>5 DEF Nothing
<1>10. ASSUME NEW f \in refreshes, NEW r \in Managed, ObserveFails(f, r)
       PROVE  TableInOrder' /\ PlanInOrder' /\ \A g \in refreshes' : GotInOrder(g)'
  <2>1. UNCHANGED <<attached, remote, report, table, plan>> /\ ~attached
    BY <1>10 DEF ObserveFails, uiVars
  <2>2. PICK row \in Rows : row.at = Latest(r) /\ Replace(f, Observed(f, r, row))
    <3>1. [is |-> "error", at |-> remote[r].at] \in Rows
      BY <1>0 DEF StateTypeOK, Rows, States
    <3>2. QED
      BY <1>10, <2>1, <3>1 DEF ObserveFails, Latest
  <2> DEFINE g == Observed(f, r, row)
  <2>3. /\ IsRefresh(g) /\ DOMAIN g.got = DOMAIN f.got \cup {r}
        /\ \A x \in DOMAIN g.got : g.got[x] = IF x = r THEN row ELSE f.got[x]
        /\ g.pc = "read" => DOMAIN f.got \cup {r} = Managed
    <3>1. IsRefresh(f)
      BY <1>0 DEF StateTypeOK
    <3>2. QED
      BY <3>1, ObservedType
  <2>4. refreshes' = {g}
    BY <1>0, <2>2, <2>3, ReplaceType DEF StateTypeOK
  <2> HIDE DEF g
  <2>5. GotInOrder(g)
    BY <1>1, <1>3, <2>1, <2>2, <2>3
  <2>6. GotInOrder(g)'
    BY <2>1, <2>5 DEF Latest, g
  <2>7. QED
    BY <1>5, <1>6, <2>1, <2>4, <2>6
<1>11. ASSUME NEW f \in refreshes, DrawTable(f) \/ StatusFails(f)
       PROVE  TableInOrder' /\ PlanInOrder' /\ \A g \in refreshes' : GotInOrder(g)'
  <2>1. /\ UNCHANGED plan /\ refreshes' \subseteq refreshes
        /\ Redraws
    BY <1>11 DEF DrawTable, StatusFails, Released, uiVars
  <2>2. QED
    BY <1>5, <1>6, <2>1
<1>12. CASE StateKey
  BY <1>5, <1>6, <1>12, KeysRedraw
<1>13. ASSUME NEW signal \in BOOLEAN, LoopWakes(signal)
       PROVE  TableInOrder' /\ PlanInOrder' /\ \A g \in refreshes' : GotInOrder(g)'
  BY <1>7, <1>13 DEF LoopWakes, uiVars
<1>14. ASSUME NEW w \in workers, ActRefreshes(w)
       PROVE  TableInOrder' /\ PlanInOrder' /\ \A g \in refreshes' : GotInOrder(g)'
  BY <1>7, <1>14 DEF ActRefreshes, uiVars
<1>15. CASE \/ CloseEditor \/ UNCHANGED stateVars
            \/ \E w \in workers, r \in Managed : Acts(w, r) \/ ActFails(w, r)
            \/ \E r \in Managed : DetailLoaded(r)
            \/ \E r \in Managed, s \in {"missing", "drifted"} : Meddle(r, s)
            \/ \E bad \in SUBSET Managed : ServeCycle(bad)
  <2>1. UNCHANGED <<plan, refreshes, table>>
    BY <1>15 DEF CloseEditor, Acts, ActFails, DetailLoaded, Meddle, ServeCycle, stateVars,
       uiVars, refreshVars
  <2>2. QED
    BY <1>5, <1>6, <2>1
<1>16. QED
  BY <1>8, <1>9, <1>10, <1>11, <1>12, <1>13, <1>14, <1>15
     DEF StateNext, RefreshStep, DrawStep, WorkerStep

-----------------------------------------------------------------------------
(* Deletes.                                                                  *)

(* A goroutine gets no more to do than it began with.                        *)
LEMMA WorkersShrink ==
  ASSUME StateTypeOK, NEW w \in workers, NEW r,
         workers' = (workers \ {w}) \cup {[w EXCEPT !.left = @ \ {r}]}
  PROVE  \A v \in workers' : \E u \in workers :
           v.op = u.op /\ v.to = u.to /\ v.left \subseteq u.left
<1>1. w \in Workers
  BY DEF StateTypeOK
<1> DEFINE v == [w EXCEPT !.left = @ \ {r}]
<1>2. v.op = w.op /\ v.to = w.to /\ v.left \subseteq w.left
  BY <1>1 DEF Workers
<1>3. QED
  BY <1>2

(* What is to be deleted was agreed to when the goroutine began, and nothing *)
(* takes the agreement back.                                                 *)
LEMMA AgreedStep == StateInv /\ [StateNext]_stateVars => OnlyAgreedDeletes'
<1> SUFFICES ASSUME StateInv, [StateNext]_stateVars
             PROVE  OnlyAgreedDeletes'
  OBVIOUS
<1>1. StateTypeOK /\ OnlyAgreedDeletes
  BY DEF StateInv
<1> DEFINE Allowed(w) == /\ w.op = "delete" => w.left \subseteq agreed
                         /\ w.op = "update" => w.to \in States \ {"missing"}
<1>2. CASE agreed \subseteq agreed' /\ workers' \subseteq workers
  BY <1>1, <1>2 DEF OnlyAgreedDeletes
<1>3. ASSUME NEW yes \in BOOLEAN, Answer(yes)
      PROVE  OnlyAgreedDeletes'
  <2> DEFINE w == Worker(asked.op, asked.of, None)
  <2>1. w.op = asked.op /\ w.left = asked.of
    BY DEF Worker
  <2>2. asked.op # "update"
    BY <1>1 DEF StateTypeOK, Questions, None
  <2>3. CASE ~yes
    BY <1>2, <1>3, <2>3 DEF Answer
  <2>4. CASE yes
    <3>1. /\ workers' = workers \cup {w} /\ agreed \subseteq agreed'
          /\ asked.op = "delete" => asked.of \subseteq agreed'
      BY <1>3, <2>4 DEF Answer
    <3>2. QED
      BY <1>1, <2>1, <2>2, <3>1 DEF OnlyAgreedDeletes
  <2>5. QED
    BY <2>3, <2>4
<1>4. ASSUME NEW c \in {"apply", "delete", "sync"}, Submit(c)
      PROVE  OnlyAgreedDeletes'
  <2> DEFINE w == Worker("sync", {}, None)
  <2>1. w.op = "sync"
    BY DEF Worker
  <2>2. agreed' = agreed /\ (workers' = workers \/ workers' = workers \cup {w})
    BY <1>4 DEF Submit, ExecuteCommand
  <2>3. QED
    BY <1>1, <2>1, <2>2 DEF OnlyAgreedDeletes
<1>5. CASE CloseEditor
  <2>1. /\ editing.from \in States \ {"missing"}
        /\ {"drifted", "synced"} \subseteq States \ {"missing"}
    BY <1>1, <1>5 DEF CloseEditor, StateTypeOK, States
  <2>2. CASE workers' = workers
    BY <1>2, <1>5, <2>2 DEF CloseEditor
  <2>3. ASSUME NEW to \in {"drifted", "synced", editing.from},
               workers' = workers \cup {Worker("update", {editing.of}, to)}
        PROVE  OnlyAgreedDeletes'
    <3> DEFINE w == Worker("update", {editing.of}, to)
    <3>1. w.op = "update" /\ w.to = to
      BY DEF Worker
    <3>2. agreed' = agreed
      BY <1>5 DEF CloseEditor
    <3>3. QED
      BY <1>1, <2>1, <2>3, <3>1, <3>2 DEF OnlyAgreedDeletes
  <2>4. QED
    BY <1>5, <2>2, <2>3 DEF CloseEditor
<1>6. ASSUME NEW w \in workers, NEW r \in Managed, Acts(w, r) \/ ActFails(w, r)
      PROVE  OnlyAgreedDeletes'
  <2>1. \A v \in workers' : \E u \in workers :
          v.op = u.op /\ v.to = u.to /\ v.left \subseteq u.left
    BY <1>1, <1>6, WorkersShrink DEF Acts, ActFails
  <2>2. agreed' = agreed
    BY <1>6 DEF Acts, ActFails, uiVars
  <2>3. QED
    BY <1>1, <2>1, <2>2 DEF OnlyAgreedDeletes
<1>7. CASE StateKey
  <2>1. CASE \/ TriggerRefresh \/ ShowDetail \/ ToggleHelp \/ CtrlD \/ EditResource
             \/ \E r \in Managed : Move(r)
             \/ \E k \in {Managed} \cup {{r} : r \in Managed} : SwitchKind(k)
             \/ ActivateCommandBar \/ ActivateSearch \/ Escape
             \/ \E found \in {{}, Managed} : Search(found)
    <3>1. UNCHANGED <<workers, agreed>>
      BY <2>1 DEF TriggerRefresh, ShowDetail, ToggleHelp, CtrlD, EditResource, Move,
         SwitchKind, ActivateCommandBar, ActivateSearch, Escape, Search, uiVars
    <3>2. QED
      BY <1>2, <3>1
  <2>2. QED
    BY <1>3, <1>4, <1>7, <2>1 DEF StateKey
<1>8. CASE \/ \E signal \in BOOLEAN : LoopWakes(signal)
           \/ RefreshStep \/ DrawStep \/ UNCHANGED stateVars
           \/ \E w \in workers : ActRefreshes(w)
           \/ \E r \in Managed : DetailLoaded(r)
           \/ \E r \in Managed, s \in {"missing", "drifted"} : Meddle(r, s)
           \/ \E f \in refreshes : StatusFails(f) \/ \E r \in Managed : ObserveFails(f, r)
           \/ \E bad \in SUBSET Managed : ServeCycle(bad)
  <2>1. agreed' = agreed /\ workers' \subseteq workers
    BY <1>8 DEF LoopWakes, RefreshStep, Reads, UpdatePlan, DrawStep, DrawTable,
       ActRefreshes, DetailLoaded, Meddle, StatusFails, ObserveFails, ServeCycle,
       stateVars, uiVars
  <2>2. QED
    BY <1>2, <2>1
<1>9. QED
  BY <1>5, <1>6, <1>7, <1>8 DEF StateNext, WorkerStep

-----------------------------------------------------------------------------
(* The inductive invariant holds of every behaviour.                         *)
THEOREM StateTabInvariant == StateSpec => []StateInv
<1>1. StateInit => StateInv
  <2> SUFFICES ASSUME StateInit
               PROVE  StateInv
    OBVIOUS
  <2>1. IsTable(Nothing) /\ DOMAIN Nothing = {}
    BY DEF IsTable, Nothing
  <2>2. StateTypeOK
    <3> DEFINE first == [by |-> "start", got |-> Nothing, pc |-> "reading"]
    <3>1. refreshes = {first} /\ IsRefresh(first)
      BY <2>1 DEF StateInit, IsRefresh
    <3>2. remote \in [Managed -> Rows]
      BY DEF StateInit, Rows, States
    <3>3. report \in [Managed -> [word : Words \cup {None}, at : Nat]]
      BY DEF StateInit
    <3>4. asked \in Questions /\ editing \in {NoEdit}
          /\ detailView \in [title : Managed \cup {None}, body : Managed \cup {None}]
      BY DEF StateInit, Questions
    <3>5. overlays \in Seq({"confirm", "detail", "help"})
      BY EmptySeq DEF StateInit
    <3>6. inputs \in 0..MaxInputs
      BY StateAssumption DEF StateInit
    <3>7. QED
      BY <2>1, <3>1, <3>2, <3>3, <3>4, <3>5, <3>6 DEF StateInit, StateTypeOK
  <2>3. RowsInOrder
    <3>1. \A r \in Managed : report[r].at = 0 /\ remote[r].at = 0
      <4>1. \A r \in Managed : remote[r] \in {[is |-> s, at |-> 0] : s \in {"missing", "synced"}}
        BY DEF StateInit
      <4>2. ASSUME NEW r \in Managed
            PROVE  remote[r].at = 0
        <5>1. PICK s : remote[r] = [is |-> s, at |-> 0]
          BY <4>1
        <5>2. QED
          BY <5>1
      <4>3. \A r \in Managed : report[r].at = 0
        BY DEF StateInit
      <4>4. QED
        BY <4>2, <4>3
    <3>2. table = Nothing /\ plan = Nothing
          /\ refreshes = {[by |-> "start", got |-> Nothing, pc |-> "reading"]}
      BY DEF StateInit
    <3>3. QED
      BY <2>1, <3>1, <3>2 DEF RowsInOrder
  <2>4. OnlyAgreedDeletes
    BY DEF StateInit, OnlyAgreedDeletes
  <2>5. QED
    BY <2>2, <2>3, <2>4 DEF StateInv
<1>2. StateInv /\ [StateNext]_stateVars => StateInv'
  BY TypeStep, OrderStep, AgreedStep DEF StateInv
<1>3. QED
  BY <1>1, <1>2, PTL DEF StateSpec

(* Every variable keeps its type, and TryLock lets one refresh run at a      *)
(* time.                                                                     *)
THEOREM StateTabTypes == StateSpec => []StateTypeOK
BY StateTabInvariant, PTL DEF StateInv

(* No row of the table is replaced by an older one, whoever refreshes and    *)
(* whatever the filters.                                                     *)
THEOREM RowsNeverGoBack == StateSpec => TableNeverGoesBack
<1> DEFINE Newer == \A r \in DOMAIN table \cap DOMAIN table' : table'[r].at >= table[r].at
<1>1. StateInv /\ [StateNext]_stateVars => [Newer]_stateVars
  <2> SUFFICES ASSUME StateInv, StateNext
               PROVE  Newer
    OBVIOUS
  <2>1. /\ DOMAIN table \subseteq DOMAIN plan /\ IsTable(plan)
        /\ \A r \in DOMAIN table : /\ table[r].at \in Nat /\ plan[r].at \in Nat
                                   /\ table[r].at <= plan[r].at
    BY Versions DEF StateInv, RowsInOrder, StateTypeOK
  <2>2. CASE UNCHANGED table
    BY <2>1, <2>2
  <2>3. ASSUME NEW k, NEW s, RefreshTable(plan, k, s)
        PROVE  Newer
    <3>1. \A r \in DOMAIN table' : table'[r] = plan[r]
      BY <2>1, <2>3, FilteredTable
    <3>2. QED
      BY <2>1, <3>1
  <2>4. UNCHANGED table \/ \E k, s : RefreshTable(plan, k, s)
    <3>1. CASE StateKey
      BY <3>1, KeysRedraw
    <3>2. CASE DrawStep
      BY <3>2 DEF DrawStep, DrawTable
    <3>3. QED
      BY <3>1, <3>2 DEF StateNext, CloseEditor, LoopWakes, RefreshStep, Reads, UpdatePlan,
         WorkerStep, ActRefreshes, Acts, DetailLoaded, ActFails, Meddle, StatusFails,
         ObserveFails, ServeCycle, uiVars
  <2>5. QED
    BY <2>2, <2>3, <2>4
<1>2. QED
  BY <1>1, StateTabInvariant, PTL DEF StateSpec, TableNeverGoesBack

(* What disappears from GoClaw through the terminal UI is what the user      *)
(* agreed to delete, whatever is selected by then.                           *)
THEOREM DeletesAreConfirmed == StateSpec => DeletesWhatWasConfirmed
<1> DEFINE Confirmed ==
      \A r \in Managed :
        remote[r].is # "missing" /\ remote'[r].is = "missing" /\ inputs' = inputs
          => r \in agreed
<1>1. StateInv /\ [StateNext]_stateVars => [Confirmed]_stateVars
  <2> SUFFICES ASSUME StateInv, StateNext, inputs' = inputs, NEW r \in Managed,
                      remote[r].is # "missing", remote'[r].is = "missing"
               PROVE  r \in agreed
    OBVIOUS
  <2>1. StateTypeOK /\ OnlyAgreedDeletes
    BY DEF StateInv
  <2>2. ASSUME NEW w \in workers, NEW x \in Managed, Acts(w, x)
        PROVE  r \in agreed
    <3>1. w.op = "delete" => w.left \subseteq agreed
      BY <2>1 DEF OnlyAgreedDeletes
    <3>2. \A s : remote' = Changed(x, s) => x = r /\ s = "missing"
      BY <2>1 DEF Changed, StateTypeOK
    <3>3. w.op = "update" => w.to # "missing"
      BY <2>1 DEF OnlyAgreedDeletes
    <3>4. QED
      BY <2>2, <3>1, <3>2, <3>3 DEF Acts
  <2>3. ASSUME NEW bad \in SUBSET Managed, ServeCycle(bad)
        PROVE  FALSE
    BY <2>3 DEF ServeCycle
  <2>4. ASSUME NEW x \in Managed, NEW s, Meddle(x, s)
        PROVE  FALSE
    BY <2>1, <2>4 DEF Meddle, Count, StateTypeOK
  <2>5. CASE StateKey
    BY <2>5, KeysRedraw
  <2>6. QED
    BY <2>2, <2>3, <2>4, <2>5 DEF StateNext, CloseEditor, LoopWakes, RefreshStep, Reads,
       UpdatePlan, DrawStep, DrawTable, WorkerStep, ActRefreshes, DetailLoaded, ActFails,
       StatusFails, ObserveFails
<1>2. QED
  BY <1>1, StateTabInvariant, PTL DEF StateSpec, DeletesWhatWasConfirmed
=============================================================================
