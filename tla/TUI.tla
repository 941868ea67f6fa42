-------------------------------- MODULE TUI ---------------------------------
(***************************************************************************)
(* The terminal UI of internal/tui: the UI goroutine, which handles keys   *)
(* and runs the closures that others queue with QueueUpdateDraw; the loop  *)
(* that refreshes the tabs; the goroutines that fetch traces and spans;    *)
(* and the WebSocket handler that fills the two stores.                    *)
(*                                                                         *)
(* QueueUpdateDraw returns when the UI goroutine has run the closure.  The *)
(* closures read the stores when they run, so a pending one stands for     *)
(* every pending one of its kind.                                          *)
(***************************************************************************)
EXTENDS TraceStore, LiveStore

CONSTANT Keys   \* the keys the user presses

ASSUME TUIAssumption == MaxEvents \in Nat

VARIABLES
  tab,        \* registry.activeTab
  level,      \* tracesPanel.Level
  paused,     \* tracesPanel.paused
  ui,         \* the UI goroutine: "ready", "marking" or "blocked"
  draws,      \* closures queued with QueueUpdateDraw and not run
  ticker,     \* tabRefreshLoop: "ticking" or "drawing"
  goclaw,     \* goclaw[t]: GoClaw's data on trace t
  screen,     \* what the panels show
  events      \* keys pressed, and events of GoClaw and the network, so far

shellVars == <<tab, level, paused, ui>>
vars == <<listVars, detailVars, liveVars, shellVars, draws, ticker, goclaw, screen,
          events>>

Tabs == {"state", "traces", "logs"}
Closures == {"list", "spans", "drill", "logs", "forced"}

TypeOK ==
  /\ StoreTypeOK
  /\ LiveTypeOK
  /\ tab \in Tabs
  /\ level \in 0..2
  /\ paused \in BOOLEAN
  /\ ui \in {"ready", "marking", "blocked"}
  /\ draws \subseteq Closures
  /\ ticker \in {"ticking", "drawing"}
  /\ goclaw \in [Traces -> Data]
  /\ screen \in [list : [Traces -> Data], spans : Details, logs : Seq(Nat)]
  /\ events \in 0..MaxEvents

Init ==
  /\ NewTraceStore
  /\ NewLiveStore
  /\ tab = "state"
  /\ level = 0
  /\ paused = FALSE
  /\ ui = "ready"
  /\ draws = {}
  /\ ticker = "ticking"
  /\ goclaw = [t \in Traces |-> [at |-> 1, running |-> TRUE]]
  /\ screen = [list |-> [t \in Traces |-> Unknown], spans |-> NoDetail,
               logs |-> <<>>]
  /\ events = 0

-----------------------------------------------------------------------------
(* tabRefreshLoop: with every twentieth tick, poll, the list is fetched      *)
(* anyway.  The step is one tick with the goroutines that refreshTraces      *)
(* starts.                                                                   *)

\* Mutant: the poll is gone.
WantsListUnpolled(poll) == listDirty
WantsList(poll) == listDirty \/ poll

\* Mutant: a running trace is not fetched again.
WantsDetailNotified == detailDirty

\* "Live span refresh: when viewing a running trace at level 1".
WantsDetail ==
  \/ detailDirty
  \/ /\ level = 1 /\ tab = "traces" /\ ~paused
     /\ detail # NoDetail /\ detail.data.running

TabTick(poll) ==
  /\ ticker = "ticking"
  /\ listDirty' = WantsList(poll)
  /\ BeginList(WantsList(poll) /\ ~paused)
  /\ detailDirty' = WantsDetail
  /\ fetches' = IF WantsDetail /\ ~paused /\ selected # NoTrace
                THEN fetches \cup {Request("live")} ELSE fetches
  /\ draws' = draws \cup (IF WantsList(poll) /\ ~paused /\ fetching THEN {"list"} ELSE {})
                    \cup (IF dirty THEN {"logs"} ELSE {})
  /\ ticker' = IF dirty THEN "drawing" ELSE "ticking"
  /\ UNCHANGED <<list, selected, detail, liveVars, shellVars, goclaw,
                 screen, events>>

ListAnswered(f) ==
  /\ AnswerList(f, goclaw)
  /\ UNCHANGED <<list, listDirty, fetching, detailVars, liveVars, shellVars, draws,
                 ticker, goclaw, screen, events>>

ListStored(f) ==
  /\ StoreList(f)
  /\ draws' = draws \cup {"list"}
  /\ UNCHANGED <<detailVars, liveVars, shellVars, ticker, goclaw, screen,
                 events>>

DetailAnswered(f) ==
  /\ AnswerDetail(f, goclaw)
  /\ UNCHANGED <<listVars, selected, detail, detailDirty, liveVars, shellVars, draws,
                 ticker, goclaw, screen, events>>

DetailStored(f) ==
  /\ StoreDetail(f)
  /\ draws' = draws \cup {IF f.by = "drill" THEN "drill" ELSE "spans"}
  /\ UNCHANGED <<listVars, selected, liveVars, shellVars, ticker, goclaw,
                 screen, events>>

-----------------------------------------------------------------------------
(* The UI goroutine runs the closures.                                       *)

Run(c) ==
  /\ ui = "ready"
  /\ c \in draws
  /\ draws' = draws \ {c}
  /\ UNCHANGED <<listVars, detailVars, liveVars, tab, paused, goclaw, events>>

DrawList ==
  /\ Run("list")
  /\ screen' = IF tab = "traces" /\ level = 0
               THEN [screen EXCEPT !.list = list] ELSE screen
  /\ UNCHANGED <<level, ui, ticker>>

DrawSpans ==
  /\ Run("spans")
  /\ screen' = IF tab = "traces" /\ level = 1 /\ detail # NoDetail
               THEN [screen EXCEPT !.spans = detail] ELSE screen
  /\ UNCHANGED <<level, ui, ticker>>

\* ShowSpans goes to level 1 wherever the user is by now.
DrawDrill ==
  /\ Run("drill")
  /\ IF detail = NoDetail THEN UNCHANGED <<screen, level>>
     ELSE screen' = [screen EXCEPT !.spans = detail] /\ level' = 1
  /\ UNCHANGED <<ui, ticker>>

\* The lines are read and the flag is reset under two separate locks.
DrawLogs ==
  /\ Run("logs")
  /\ screen' = IF tab = "logs" THEN [screen EXCEPT !.logs = LogSnapshot] ELSE screen
  /\ ui' = "marking"
  /\ UNCHANGED <<level, ticker>>

MarkClean ==
  /\ ui = "marking"
  /\ ui' = "ready"
  /\ dirty' = FALSE
  /\ ticker' = "ticking"
  /\ UNCHANGED <<listVars, detailVars, ring, logPos, tab, level, paused, draws,
                 goclaw, screen, events>>

-----------------------------------------------------------------------------
(* Keys.                                                                     *)

Event ==
  /\ events < MaxEvents
  /\ events' = events + 1

Press(k) ==
  /\ ui = "ready"
  /\ k \in Keys
  /\ Event
  /\ UNCHANGED <<list, fetching, listers, liveVars, ticker, goclaw, screen>>

SwitchTab(t) ==
  /\ Press("tab")
  /\ t # tab
  /\ tab' = t
  /\ listDirty' = (listDirty \/ t = "traces")
  /\ UNCHANGED <<detailVars, level, paused, ui, draws>>

\* drillIntoTrace: select and fetch; the spans are shown when they are there.
DrillIntoTrace(t) ==
  /\ Press("enter")
  /\ tab = "traces" /\ level = 0
  /\ screen.list[t].at > 0
  /\ SelectTrace(t)
  /\ fetches' = fetches \cup {Request("drill")}
  /\ UNCHANGED <<listDirty, shellVars, draws>>

DrillIn ==
  /\ Press("enter")
  /\ tab = "traces" /\ level = 1
  /\ level' = 2
  /\ UNCHANGED <<listDirty, detailVars, tab, paused, ui, draws>>

DrillOut ==
  /\ Press("h")
  /\ tab = "traces" /\ level > 0
  /\ level' = level - 1
  /\ UNCHANGED <<listDirty, detailVars, tab, paused, ui, draws>>

TogglePause ==
  /\ Press("p")
  /\ tab = "traces"
  /\ paused' = ~paused
  /\ UNCHANGED <<listDirty, detailVars, tab, level, ui, draws>>

\* refreshActiveTab; the State tab's plan is not modelled.  On the Logs tab the
\* UI goroutine itself calls QueueUpdateDraw, which waits for the UI goroutine.
RefreshActiveTab ==
  /\ Press("r")
  /\ tab # "state"
  /\ listDirty' = (listDirty \/ tab = "traces")
  /\ detailDirty' = (detailDirty \/ (tab = "traces" /\ level >= 1))
  /\ draws' = IF tab = "logs" THEN draws \cup {"forced"} ELSE draws
  /\ ui' = IF tab = "logs" THEN "blocked" ELSE "ready"
  /\ UNCHANGED <<selected, detail, fetches, tab, level, paused>>

-----------------------------------------------------------------------------
(* GoClaw and the network.                                                   *)

\* A trace changes, or ends; "trace.updated" reaches the handler or is lost.
TraceUpdated(t) ==
  /\ Event
  /\ goclaw[t].running
  /\ \E more \in BOOLEAN :
       goclaw' = [goclaw EXCEPT ![t] = [at |-> goclaw[t].at + 1, running |-> more]]
  /\ \/ UNCHANGED <<listDirty, detailDirty, dirty>>
     \/ /\ listDirty' = TRUE
        /\ detailDirty' = (detailDirty \/ level >= 1)
        /\ dirty' = TRUE
  /\ UNCHANGED <<list, fetching, listers, selected, detail, fetches, ring, logPos,
                 shellVars, draws, ticker, screen>>

LogLine ==
  /\ Event
  /\ AppendLog
  /\ UNCHANGED <<listVars, detailVars, shellVars, draws, ticker, goclaw,
                 screen>>

\* "silently skip; will retry next tick".
FetchFails ==
  /\ Event
  /\ \/ (\E f \in listers : FailList(f)) /\ UNCHANGED fetches
     \/ (\E f \in fetches : FailDetail(f)) /\ UNCHANGED <<fetching, listers>>
  /\ UNCHANGED <<list, listDirty, selected, detail, detailDirty, liveVars, shellVars,
                 draws, ticker, goclaw, screen>>

-----------------------------------------------------------------------------
FetchList == \E f \in listers : ListAnswered(f) \/ ListStored(f)

AnswerDetails(by) == \E f \in fetches : f.by = by /\ DetailAnswered(f)
StoreDetails(by) == \E f \in fetches : f.by = by /\ DetailStored(f)

Key ==
  \/ \E t \in Tabs : SwitchTab(t)
  \/ \E t \in Traces : DrillIntoTrace(t)
  \/ DrillIn \/ DrillOut \/ TogglePause \/ RefreshActiveTab

Next ==
  \/ \E poll \in BOOLEAN : TabTick(poll)
  \/ FetchList
  \/ \E by \in {"drill", "live"} : AnswerDetails(by) \/ StoreDetails(by)
  \/ DrawList \/ DrawSpans \/ DrawDrill \/ DrawLogs \/ MarkClean
  \/ Key
  \/ \E t \in Traces : TraceUpdated(t)
  \/ LogLine \/ FetchFails

Spec == Init /\ [][Next]_vars

(* Tickers tick, goroutines run, requests are answered or fail, and the UI   *)
(* goroutine runs every queued closure while it runs at all.  Nothing is     *)
(* assumed of the user.                                                      *)
FairSpec ==
  /\ Spec
  /\ WF_vars(TabTick(FALSE)) /\ WF_vars(TabTick(TRUE))
  /\ WF_vars(FetchList)
  /\ \A by \in {"drill", "live"} :
       WF_vars(AnswerDetails(by)) /\ WF_vars(StoreDetails(by))
  /\ WF_vars(DrawList) /\ WF_vars(DrawSpans) /\ WF_vars(DrawDrill)
  /\ WF_vars(DrawLogs) /\ WF_vars(MarkClean)

-----------------------------------------------------------------------------
(* The trace list on screen is never replaced by an older one, although      *)
(* every tick starts a goroutine: one of them fetches at a time, and the     *)
(* closures draw what is stored when they run.                               *)
ListNeverGoesBack ==
  [][\A t \in Traces : screen'.list[t].at >= screen.list[t].at]_vars

(* "Live: auto-polls every 3s + WS events": whoever stays on the trace list  *)
(* sees GoClaw's traces, although a notification that comes during a fetch,  *)
(* or on a lost connection, leaves no trace.                                 *)
TraceListCatchesUp ==
  <>[](tab = "traces" /\ level = 0 /\ ~paused) => <>[](screen.list = goclaw)

(* "when viewing a running trace at level 1, periodically re-fetch its spans *)
(* so new steps appear": whoever watches a trace that the store has as       *)
(* running sees it as it is, although detail fetches overlap and finish in   *)
(* any order.                                                                *)
Watching == tab = "traces" /\ level = 1 /\ ~paused

SpansCatchUp ==
  [](detail.data.running /\ detail # NoDetail /\ []Watching
       => <>(screen.spans = [id |-> selected, data |-> goclaw[selected]]))

(* "refreshActiveTab refreshes only the currently active tab's data": a key  *)
(* is handled and the UI goroutine goes on.                                  *)
KeyIsHandled == [](ui = "blocked" => <>(ui = "ready"))

-----------------------------------------------------------------------------
(* The inductive invariant.                                                  *)

(* One call of RefreshList runs at a time, and holds the claim.              *)
OneLister == \A f \in listers : fetching /\ listers = {f}

(* The data on a trace gets older from GoClaw to an answer, to the store and *)
(* to the screen.                                                            *)
ListInOrder ==
  \A t \in Traces :
    /\ screen.list[t].at <= list[t].at
    /\ list[t].at <= goclaw[t].at
    /\ goclaw[t].at <= events + 1
    /\ \A f \in listers :
         f.step = "answered" => list[t].at <= f.got[t].at /\ f.got[t].at <= goclaw[t].at

IInv == TypeOK /\ DetailOfSelection /\ RingInv /\ OneLister /\ ListInOrder
=============================================================================
