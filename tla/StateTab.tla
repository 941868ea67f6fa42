------------------------------ MODULE StateTab ------------------------------
(***************************************************************************)
(* The State tab of internal/tui: the refreshes of the plan, of which      *)
(* TryLock lets one run at a time; the table; apply, delete, edit and sync *)
(* with their confirmation; the overlays; and the command bar.  Attached   *)
(* to gcplane serve, the tab shows what serve reports.                     *)
(*                                                                         *)
(* A row is the state of a resource and its version, which counts the      *)
(* changes of the resource in GoClaw.                                      *)
(***************************************************************************)
EXTENDS Naturals, Sequences

CONSTANTS
  Managed,    \* the resources of the manifest
  Uses,       \* sets of inputs: a user makes those of one set; with {} the
              \* user is on another tab
  MaxInputs   \* bound on the inputs, the failures and the changes in GoClaw

ASSUME StateAssumption == Managed # {} /\ MaxInputs \in Nat

VARIABLES
  attached,   \* attachClient # nil
  uses,       \* the inputs of this user
  remote,     \* GoClaw
  report,     \* serve's status of every resource
  plan,       \* model.plan
  kind,       \* model.currentKind, as the resources it lets through
  search,     \* model.searchFilter, likewise
  table,      \* rt.rows
  cursor,     \* the row that is selected
  refreshes,  \* goroutines inside refresh, past TryLock
  loop,       \* refreshLoop: "waiting" or "busy"
  pending,    \* refreshCh holds a signal
  workers,    \* goroutines of doApply, doDelete, editResource, triggerRemoteSync
  overlays,   \* registry.overlayStack
  asked,      \* what the confirm modal asks, and does on Yes
  agreed,     \* resources the user agreed to delete
  detailView, \* detail: the title and the YAML below it
  loads,      \* resources that goroutines of detail.Show observe
  editing,    \* the editor's resource and what was observed of it
  mode,       \* keys.mode
  done,       \* cmdBar's DoneFunc
  focus,      \* the widget that gets the keys
  inputs

uiVars == <<kind, search, table, cursor, overlays, asked, agreed, detailView, loads,
            editing, mode, done, focus>>
refreshVars == <<plan, refreshes, loop, pending>>
stateVars == <<attached, uses, remote, report, uiVars, refreshVars, workers, inputs>>

None == "none"
Nothing == [r \in {} |-> None]
NoEdit == [of |-> None, from |-> None]

States == {"missing", "drifted", "synced", "error"}
Rows == [is : States, at : Nat]
Words == {"InSync", "Created", "Updated", "Error"}

IsTable(t) == t \in [DOMAIN t -> Rows] /\ DOMAIN t \subseteq Managed
IsRefresh(f) ==
  /\ f \in [by : {"start", "loop", "action"}, got : {f.got},
            pc : {"reading", "read", "drawing"}]
  /\ IsTable(f.got)
Questions == [op : {None, "apply", "delete"}, of : SUBSET Managed]
Ops == {None, "apply", "delete", "update", "sync"}
Workers == [op : Ops, left : SUBSET Managed, to : States \cup {None}, id : 0..MaxInputs]

StateTypeOK ==
  /\ attached \in BOOLEAN /\ pending \in BOOLEAN
  /\ remote \in [Managed -> Rows]
  /\ report \in [Managed -> [word : Words \cup {None}, at : Nat]]
  /\ IsTable(plan)
  /\ kind \subseteq Managed /\ search \subseteq Managed
  /\ IsTable(table)
  /\ cursor \in Managed \cup {None}
  /\ \A f \in refreshes : IsRefresh(f) /\ refreshes = {f}
  /\ loop \in {"waiting", "busy"}
  /\ workers \subseteq Workers
  /\ overlays \in Seq({"confirm", "detail", "help"})
  /\ asked \in Questions
  /\ agreed \subseteq Managed /\ loads \subseteq Managed
  /\ detailView \in [title : Managed \cup {None}, body : Managed \cup {None}]
  /\ editing \in {NoEdit} \cup [of : Managed, from : States \ {"missing"}]
  /\ mode \in {"normal", "command", "search"} /\ done \in {"command", "search"}
  /\ focus \in {"table", "modal", "bar", "other"}
  /\ inputs \in 0..MaxInputs

\* App.Run starts a refresh beside the loops.
StateInit ==
  /\ attached \in BOOLEAN
  /\ uses \in Uses
  /\ remote \in [Managed -> {[is |-> s, at |-> 0] : s \in {"missing", "synced"}}]
  /\ report = [r \in Managed |-> [word |-> None, at |-> 0]]
  /\ plan = Nothing
  /\ kind = Managed /\ search = Managed
  /\ table = Nothing
  /\ cursor = None
  /\ refreshes = {[by |-> "start", got |-> Nothing, pc |-> "reading"]}
  /\ loop = "waiting" /\ pending = FALSE
  /\ workers = {}
  /\ overlays = <<>> /\ asked = [op |-> None, of |-> {}] /\ agreed = {}
  /\ detailView = [title |-> None, body |-> None] /\ loads = {}
  /\ editing = NoEdit
  /\ mode = "normal" /\ done = "command" /\ focus = "table"
  /\ inputs = 0

-----------------------------------------------------------------------------
(* Refreshing.                                                               *)

\* Mutant: refresh waits for nobody.
RefreshUnlocked(by) == refreshes \cup {[by |-> by, got |-> Nothing, pc |-> "reading"]}

\* refresh: "if !a.refreshMu.TryLock() { return }".
Refresh(by) ==
  IF refreshes = {} THEN {[by |-> by, got |-> Nothing, pc |-> "reading"]} ELSE refreshes

\* refreshLoop: the ticker, or the signal of a key.
LoopWakes(signal) ==
  /\ loop = "waiting"
  /\ signal => pending
  /\ pending' = (pending /\ ~signal)
  /\ refreshes' = Refresh("loop")
  /\ loop' = IF refreshes' = refreshes THEN "waiting" ELSE "busy"
  /\ UNCHANGED <<attached, uses, remote, report, uiVars, plan, workers, inputs>>

Replace(f, g) == refreshes' = (refreshes \ {f}) \cup {g}

\* What serve did in its last cycle is shown as still to be done.
StatusToChanges(s) ==
  [is |-> CASE s.word = "Created" -> "missing"
            [] s.word = "Updated" -> "drifted"
            [] s.word = "Error" -> "error"
            [] OTHER -> "synced",
   at |-> s.at]

\* One observe of the dry run, or all of serve's status.
Observed(f, r, row) ==
  LET got == [x \in DOMAIN f.got \cup {r} |-> IF x = r THEN row ELSE f.got[x]]
  IN [f EXCEPT !.got = got, !.pc = IF DOMAIN got = Managed THEN "read" ELSE "reading"]

Reads(f) ==
  /\ f.pc = "reading"
  /\ \/ /\ attached
        /\ Replace(f, [f EXCEPT !.pc = "read",
                               !.got = [r \in {x \in Managed : report[x].word # None} |->
                                          StatusToChanges(report[r])]])
     \/ \E r \in Managed \ DOMAIN f.got :
          /\ ~attached
          /\ Replace(f, Observed(f, r, remote[r]))
  /\ UNCHANGED <<attached, uses, remote, report, uiVars, plan, loop, pending, workers,
                 inputs>>

\* model.UpdatePlan.
UpdatePlan(f) ==
  /\ f.pc = "read"
  /\ plan' = f.got
  /\ Replace(f, [f EXCEPT !.pc = "drawing", !.got = Nothing])
  /\ UNCHANGED <<attached, uses, remote, report, uiVars, loop, pending, workers, inputs>>

\* model.GetChanges and table.Refresh, which selects the first row.
GetChanges(p, k, s) == [r \in DOMAIN p \cap k \cap s |-> p[r]]
FirstRow(rows) == IF rows = {} THEN None ELSE CHOOSE r \in rows : TRUE

RefreshTable(p, k, s) ==
  /\ table' = GetChanges(p, k, s)
  /\ cursor' = FirstRow(DOMAIN table')

Released(f) ==
  /\ refreshes' = refreshes \ {f}
  /\ loop' = IF f.by = "loop" THEN "waiting" ELSE loop

DrawTable(f) ==
  /\ f.pc = "drawing"
  /\ editing = NoEdit
  /\ RefreshTable(plan, kind, search)
  /\ Released(f)
  /\ UNCHANGED <<attached, uses, remote, report, plan, kind, search, overlays, asked,
                 agreed, detailView, loads, editing, mode, done, focus, pending,
                 workers, inputs>>

-----------------------------------------------------------------------------
(* Inputs.                                                                   *)

Count ==
  /\ inputs < MaxInputs
  /\ inputs' = inputs + 1

Input(k) ==
  /\ k \in uses
  /\ editing = NoEdit
  /\ Count
  /\ UNCHANGED <<attached, uses, remote, report, plan, refreshes, loop>>

TriggerRefresh ==
  /\ Input("r")
  /\ mode = "normal"
  /\ pending' = TRUE
  /\ UNCHANGED <<uiVars, workers>>

\* j and k.
Move(r) ==
  /\ Input("move")
  /\ mode = "normal" /\ focus = "table"
  /\ r \in DOMAIN table
  /\ cursor' = r
  /\ UNCHANGED <<kind, search, table, overlays, asked, agreed, detailView, loads, editing,
                 mode, done, focus, pending, workers>>

SwitchKind(k) ==
  /\ Input("kind")
  /\ mode = "normal"
  /\ kind' = k
  /\ RefreshTable(plan, k, search)
  /\ UNCHANGED <<search, overlays, asked, agreed, detailView, loads, editing, mode, done,
                 focus, pending, workers>>

\* Enter on a row: detail.Show and pushView.
ShowDetail ==
  /\ Input("detail")
  /\ mode = "normal" /\ focus = "table"
  /\ cursor # None
  /\ detailView' = [title |-> cursor, body |-> None]
  /\ loads' = loads \cup {cursor}
  /\ overlays' = Append(overlays, "detail")
  /\ focus' = "other"
  /\ UNCHANGED <<kind, search, table, cursor, asked, agreed, editing, mode, done,
                 pending, workers>>

DetailLoaded(r) ==
  /\ r \in loads
  /\ editing = NoEdit
  /\ loads' = loads \ {r}
  /\ detailView' = [detailView EXCEPT !.body = r]
  /\ UNCHANGED <<attached, uses, remote, report, kind, search, table, cursor, overlays,
                 asked, agreed, editing, mode, done, focus, refreshVars, workers,
                 inputs>>

\* toggleHelp; the drift view is pushed in the same way.
ToggleHelp ==
  /\ Input("help")
  /\ mode = "normal"
  /\ IF overlays # <<>> /\ overlays[Len(overlays)] = "help"
     THEN overlays' = SubSeq(overlays, 1, Len(overlays) - 1) /\ focus' = "table"
     ELSE overlays' = Append(overlays, "help") /\ focus' = "other"
  /\ UNCHANGED <<kind, search, table, cursor, asked, agreed, detailView, loads, editing,
                 mode, done, pending, workers>>

\* confirm.Show, pushView and SetFocus.
Confirm(op, of) ==
  /\ asked' = [op |-> op, of |-> of]
  /\ overlays' = Append(overlays, "confirm")
  /\ focus' = "modal"

\* applyAll: nothing without a plan that has something to do.
ApplyAll ==
  LET todo == \E r \in DOMAIN plan : plan[r].is \in {"missing", "drifted"}
  IN IF ~attached /\ todo THEN Confirm("apply", Managed)
     ELSE focus' = "table" /\ UNCHANGED <<asked, overlays>>

\* deleteResource; attached, the provider is a stub and not nil.
DeleteResource ==
  IF cursor # None THEN Confirm("delete", {cursor})
  ELSE focus' = "table" /\ UNCHANGED <<asked, overlays>>

CtrlD ==
  /\ Input("ctrl-d")
  /\ mode = "normal" /\ overlays = <<>>
  /\ cursor # None
  /\ DeleteResource
  /\ UNCHANGED <<kind, search, table, cursor, agreed, detailView, loads, editing, mode,
                 done, pending, workers>>

Worker(op, of, to) == [op |-> op, left |-> of, to |-> to, id |-> inputs]

\* Mutant: what is deleted is looked up when the user has answered.
AnswerSelected(yes) ==
  /\ Input("answer")
  /\ mode = "normal" /\ focus = "modal"
  /\ overlays' = SubSeq(overlays, 1, Len(overlays) - 1)
  /\ focus' = "table"
  /\ workers' = IF yes THEN workers \cup {Worker(asked.op, {cursor} \ {None}, None)}
                ELSE workers
  /\ agreed' = IF yes /\ asked.op = "delete" THEN agreed \cup asked.of ELSE agreed
  /\ UNCHANGED <<kind, search, table, cursor, asked, detailView, loads, editing, mode,
                 done, pending>>

\* The modal's Yes and No: popView, then "go a.doApply()" or "go a.doDelete(...)".
Answer(yes) ==
  /\ Input("answer")
  /\ mode = "normal" /\ focus = "modal"
  /\ overlays' = SubSeq(overlays, 1, Len(overlays) - 1)
  /\ focus' = "table"
  /\ workers' = IF yes THEN workers \cup {Worker(asked.op, asked.of, None)} ELSE workers
  /\ agreed' = IF yes /\ asked.op = "delete" THEN agreed \cup asked.of ELSE agreed
  /\ UNCHANGED <<kind, search, table, cursor, asked, detailView, loads, editing, mode,
                 done, pending>>

\* editResource: observe, then the UI goroutine waits for the editor.
EditResource ==
  /\ Input("ctrl-e")
  /\ mode = "normal" /\ overlays = <<>>
  /\ ~attached
  /\ cursor # None
  /\ remote[cursor].is # "missing"
  /\ editing' = [of |-> cursor, from |-> remote[cursor].is]
  /\ UNCHANGED <<kind, search, table, cursor, overlays, asked, agreed, detailView,
                 loads, mode, done, focus, pending, workers>>

\* The file is not YAML any more, or it is written whether it changed or not.
CloseEditor ==
  /\ editing # NoEdit
  /\ editing' = NoEdit
  /\ \/ workers' = workers
     \/ \E to \in {"drifted", "synced", editing.from} :
          workers' = workers \cup {Worker("update", {editing.of}, to)}
  /\ UNCHANGED <<attached, uses, remote, report, kind, search, table, cursor, overlays,
                 asked, agreed, detailView, loads, mode, done, focus, refreshVars,
                 inputs>>

-----------------------------------------------------------------------------
(* The command bar.                                                          *)

\* activateCommandBar leaves DoneFunc alone.
ActivateCommandBar ==
  /\ Input(":")
  /\ mode = "normal"
  /\ mode' = "command" /\ focus' = "bar"
  /\ UNCHANGED <<kind, search, table, cursor, overlays, asked, agreed, detailView,
                 loads, editing, done, pending, workers>>

ActivateSearch ==
  /\ Input("/")
  /\ mode = "normal"
  /\ mode' = "search" /\ focus' = "bar"
  /\ done' = "search"
  /\ UNCHANGED <<kind, search, table, cursor, overlays, asked, agreed, detailView,
                 loads, editing, pending, workers>>

\* Handle takes Escape before the input field can see it: DoneFunc stays.  (c
\* clears the filters likewise.)
Escape ==
  /\ Input("esc")
  /\ mode' = "normal" /\ focus' = "table"
  /\ CASE mode = "normal" /\ overlays # <<>> ->
            /\ overlays' = SubSeq(overlays, 1, Len(overlays) - 1)
            /\ UNCHANGED <<search, table, cursor>>
       [] mode # "normal" \/ (overlays = <<>> /\ search # Managed) ->
            /\ search' = Managed
            /\ RefreshTable(plan, kind, Managed)
            /\ UNCHANGED overlays
       [] OTHER -> UNCHANGED <<search, table, cursor, overlays>>
  /\ UNCHANGED <<kind, asked, agreed, detailView, loads, editing, done, pending,
                 workers>>

\* executeCommand; sync is apply when it is not attached.
ExecuteCommand(c) ==
  /\ CASE c = "delete" -> DeleteResource
       [] c = "sync" /\ attached -> focus' = "table" /\ UNCHANGED <<asked, overlays>>
       [] OTHER -> ApplyAll
  /\ workers' = IF c = "sync" /\ attached THEN workers \cup {Worker("sync", {}, None)}
                ELSE workers

\* onCommandDone; or onSearchDone, and no name contains the command.
Submit(c) ==
  /\ Input("enter")
  /\ mode = "command"
  /\ mode' = "normal"
  /\ done' = "command"
  /\ IF done = "command"
     THEN ExecuteCommand(c) /\ UNCHANGED <<search, table, cursor>>
     ELSE /\ search' = {}
          /\ RefreshTable(plan, kind, {})
          /\ focus' = "table"
          /\ UNCHANGED <<asked, overlays, workers>>
  /\ UNCHANGED <<kind, agreed, detailView, loads, editing, pending>>

Search(found) ==
  /\ Input("enter")
  /\ mode = "search"
  /\ mode' = "normal" /\ focus' = "table"
  /\ done' = "command"
  /\ search' = found
  /\ RefreshTable(plan, kind, found)
  /\ UNCHANGED <<kind, overlays, asked, agreed, detailView, loads, editing,
                 pending, workers>>

-----------------------------------------------------------------------------
(* The goroutines that the inputs start, and the world.                      *)

Changed(r, s) == [remote EXCEPT ![r] = [is |-> s, at |-> @.at + 1]]

\* One resource of Reconcile, or the Delete, or the Update.
Acts(w, r) ==
  /\ r \in w.left
  /\ ~attached
  /\ remote' = CASE w.op = "apply" /\ remote[r].is # "synced" -> Changed(r, "synced")
                 [] w.op = "delete" /\ remote[r].is # "missing" -> Changed(r, "missing")
                 [] w.op = "update" /\ remote[r].is # "missing" -> Changed(r, w.to)
                 [] OTHER -> remote
  /\ workers' = (workers \ {w}) \cup {[w EXCEPT !.left = @ \ {r}]}
  /\ UNCHANGED <<attached, uses, report, uiVars, refreshVars, inputs>>

\* The API fails, as the stub of the attached mode always does.
ActFails(w, r) ==
  /\ r \in w.left
  /\ IF attached THEN UNCHANGED inputs ELSE Count
  /\ workers' = (workers \ {w}) \cup {[w EXCEPT !.left = @ \ {r}]}
  /\ UNCHANGED <<attached, uses, remote, report, uiVars, refreshVars>>

\* "Refresh to show updated state".
ActRefreshes(w) ==
  /\ w.left = {}
  /\ workers' = workers \ {w}
  /\ refreshes' = Refresh("action")
  /\ UNCHANGED <<attached, uses, remote, report, uiVars, plan, loop, pending, inputs>>

\* Someone changes GoClaw.
Meddle(r, s) ==
  /\ Count
  /\ remote[r].is # s
  /\ remote' = Changed(r, s)
  /\ UNCHANGED <<attached, uses, report, uiVars, refreshVars, workers>>

ObserveFails(f, r) ==
  /\ Count
  /\ ~attached
  /\ f.pc = "reading" /\ r \notin DOMAIN f.got
  /\ Replace(f, Observed(f, r, [is |-> "error", at |-> remote[r].at]))
  /\ UNCHANGED <<attached, uses, remote, report, uiVars, plan, loop, pending, workers>>

\* Mutant: the lock is kept.
StatusFailsLocked(f) ==
  /\ Count
  /\ attached
  /\ f.pc = "reading"
  /\ Replace(f, [f EXCEPT !.pc = "failed"])
  /\ loop' = "waiting"
  /\ UNCHANGED <<attached, uses, remote, report, uiVars, plan, pending, workers>>

\* refreshFromServe returns before it draws.
StatusFails(f) ==
  /\ Count
  /\ attached
  /\ f.pc = "reading"
  /\ Released(f)
  /\ UNCHANGED <<attached, uses, remote, report, uiVars, plan, pending, workers>>

\* A cycle of serve reports what it found, and has put it right.
Word(s) ==
  CASE s = "missing" -> "Created" [] s = "drifted" -> "Updated" [] OTHER -> "InSync"

ServeCycle(bad) ==
  /\ attached
  /\ IF bad = {} THEN UNCHANGED inputs ELSE Count
  /\ report' = [r \in Managed |->
                  [word |-> IF r \in bad THEN "Error" ELSE Word(remote[r].is),
                   at |-> remote[r].at]]
  /\ remote' = [r \in Managed |->
                  IF r \in bad \/ remote[r].is = "synced" THEN remote[r]
                  ELSE [is |-> "synced", at |-> remote[r].at + 1]]
  /\ UNCHANGED <<attached, uses, uiVars, refreshVars, workers>>

-----------------------------------------------------------------------------
StateKey ==
  \/ TriggerRefresh \/ ShowDetail \/ ToggleHelp \/ CtrlD \/ EditResource
  \/ \E r \in Managed : Move(r)
  \/ \E k \in {Managed} \cup {{r} : r \in Managed} : SwitchKind(k)
  \/ \E yes \in BOOLEAN : Answer(yes)
  \/ ActivateCommandBar \/ ActivateSearch \/ Escape
  \/ \E c \in {"apply", "delete", "sync"} : Submit(c)
  \/ \E found \in {{}, Managed} : Search(found)

RefreshStep == \E f \in refreshes : Reads(f) \/ UpdatePlan(f)
DrawStep == \E f \in refreshes : DrawTable(f)
WorkerStep ==
  \E w \in workers : ActRefreshes(w) \/ \E r \in Managed : Acts(w, r)

StateNext ==
  \/ StateKey
  \/ CloseEditor
  \/ \E signal \in BOOLEAN : LoopWakes(signal)
  \/ RefreshStep \/ DrawStep \/ WorkerStep
  \/ \E r \in Managed : DetailLoaded(r)
  \/ \E w \in workers, r \in Managed : ActFails(w, r)
  \/ \E r \in Managed, s \in {"missing", "drifted"} : Meddle(r, s)
  \/ \E f \in refreshes : StatusFails(f) \/ \E r \in Managed : ObserveFails(f, r)
  \/ \E bad \in SUBSET Managed : ServeCycle(bad)

(* The ticker ticks, goroutines run, and the UI goroutine draws while it     *)
(* runs.  Nothing is assumed of the user.                                    *)
StateFairness ==
  /\ WF_stateVars(LoopWakes(FALSE))
  /\ WF_stateVars(RefreshStep) /\ WF_stateVars(DrawStep)
  /\ WF_stateVars(WorkerStep)
  /\ WF_stateVars(ServeCycle({}))

StateSpec == StateInit /\ [][StateNext]_stateVars

-----------------------------------------------------------------------------
(* No row is replaced by an older one, although the loop and every finished  *)
(* action start a refresh of their own: TryLock lets one of them run, and a  *)
(* filter redraws from the last plan.                                        *)
TableNeverGoesBack ==
  [][\A r \in DOMAIN table \cap DOMAIN table' : table'[r].at >= table[r].at]_stateVars

(* Whatever is deleted is what the modal named when the user said Yes, even  *)
(* if a refresh has moved the selection or another question came on top.     *)
DeletesWhatWasConfirmed ==
  [][\A r \in Managed :
       remote[r].is # "missing" /\ remote'[r].is = "missing" /\ inputs' = inputs
         => r \in agreed]_stateVars

(* The table comes to show GoClaw as it is, although the refresh after an    *)
(* action is dropped when another holds the lock, and a failed fetch draws   *)
(* nothing.                                                                  *)
TableCatchesUp ==
  uses # {} /\ <>[](editing = NoEdit) =>
    <>[](table = [r \in kind \cap search |-> remote[r]])

(* A command that is typed is executed: it does not become a filter.         *)
CommandIsNoFilter ==
  [][mode = "command" /\ search' # search => search' = Managed]_stateVars

(* "Show loads and displays the YAML for a given resource": when nothing is  *)
(* loading, the YAML is that of the resource in the title.                   *)
YamlOfTitle ==
  [][loads' = {} => detailView'.body = detailView'.title]_stateVars

-----------------------------------------------------------------------------
(* The inductive invariant.                                                  *)

\* The version that a refresh which begins now gets.
Latest(r) == IF attached THEN report[r].at ELSE remote[r].at

(* A row gets older from GoClaw to serve's report, to what a refresh has     *)
(* got, to the plan and to the table, and a refresh that has read everything *)
(* leaves no row of the plan out.                                            *)
RowsInOrder ==
  /\ \A r \in Managed : report[r].at <= remote[r].at
  /\ DOMAIN table \subseteq DOMAIN plan
  /\ \A r \in DOMAIN table : table[r].at <= plan[r].at
  /\ \A r \in DOMAIN plan :
       plan[r].at <= Latest(r) /\ (attached => report[r].word # None)
  /\ \A f \in refreshes :
       /\ f.pc = "read" => DOMAIN plan \subseteq DOMAIN f.got
       /\ \A r \in DOMAIN f.got :
            /\ f.got[r].at <= Latest(r) /\ (attached => report[r].word # None)
            /\ r \in DOMAIN plan => plan[r].at <= f.got[r].at

(* A goroutine deletes what was agreed to, and an edit deletes nothing.      *)
OnlyAgreedDeletes ==
  \A w \in workers :
    /\ w.op = "delete" => w.left \subseteq agreed
    /\ w.op = "update" => w.to \in States \ {"missing"}

StateInv == StateTypeOK /\ RowsInOrder /\ OnlyAgreedDeletes
=============================================================================
