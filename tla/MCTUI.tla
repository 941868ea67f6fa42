------------------------------- MODULE MCTUI --------------------------------
(***************************************************************************)
(* Small instances of the terminal UI.  A behaviour is a visit to the      *)
(* Traces and Logs tabs, in which the State tab does not refresh, or a     *)
(* visit to the State tab, in which nothing happens on the others: the     *)
(* panels share no data, only the UI goroutine.                            *)
(***************************************************************************)
EXTENDS TUI, StateTab

CONSTANTS t1, t2, r1, r2

OneTrace == {t1}
TwoTraces == {t1, t2}
TwoResources == {r1, r2}

AllKeys == {"tab", "enter", "h", "p", "r"}
TabAndRefresh == {"tab", "r"}

\* What a user of the State tab does; {} is the user of the other tabs.
AllUses ==
  {{}, {"r", "kind", "move", "ctrl-d", "ctrl-e", "answer"},
   {":", "/", "enter", "esc", "answer", "help", "detail"}}
DoubtfulUses == {{}, {":", "/", "enter", "esc"}, {"detail", "move", "esc"}}

MCVars == <<vars, stateVars>>

MCInit ==
  /\ Init
  /\ StateInit
  /\ remote[r2].is = "synced"
  /\ uses = {} => remote[r1].is = "synced"
  /\ attached => ":" \in uses \* bound: the keys that matter most when attached

OnOtherTabs(A) == uses = {} /\ A /\ UNCHANGED stateVars
OnStateTab(A) == uses # {} /\ A /\ UNCHANGED vars

MCNext == OnOtherTabs(Next) \/ OnStateTab(StateNext)

MCSpec == MCInit /\ [][MCNext]_MCVars

\* FairSpec of TUI and StateFairness, for the visit that a behaviour is.
MCFairSpec ==
  /\ MCSpec
  /\ WF_MCVars(OnOtherTabs(TabTick(FALSE))) /\ WF_MCVars(OnOtherTabs(TabTick(TRUE)))
  /\ WF_MCVars(OnOtherTabs(FetchList))
  /\ \A by \in {"drill", "live"} :
       /\ WF_MCVars(OnOtherTabs(AnswerDetails(by)))
       /\ WF_MCVars(OnOtherTabs(StoreDetails(by)))
  /\ WF_MCVars(OnOtherTabs(DrawList)) /\ WF_MCVars(OnOtherTabs(DrawSpans))
  /\ WF_MCVars(OnOtherTabs(DrawDrill)) /\ WF_MCVars(OnOtherTabs(DrawLogs))
  /\ WF_MCVars(OnOtherTabs(MarkClean))
  /\ WF_MCVars(OnStateTab(LoopWakes(FALSE)))
  /\ WF_MCVars(OnStateTab(RefreshStep)) /\ WF_MCVars(OnStateTab(DrawStep))
  /\ WF_MCVars(OnStateTab(WorkerStep)) /\ WF_MCVars(OnStateTab(ServeCycle({})))

(* A key does what the help says: it is handled (refreshActiveTab), a        *)
(* command is executed (onCommandDone) and a resource's YAML is shown below  *)
(* its own name (ResourceDetail.Show).                                       *)
KeysDoWhatTheySay ==
  KeyIsHandled /\ CommandIsNoFilter /\ YamlOfTitle
=============================================================================
