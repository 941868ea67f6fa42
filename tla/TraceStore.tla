----------------------------- MODULE TraceStore -----------------------------
(***************************************************************************)
(* The TraceStore of internal/tui: the traces last fetched, the trace the  *)
(* user selected with its spans, and the flags that ask for a refresh.     *)
(* Every access takes the store's lock; the requests run outside of it.    *)
(*                                                                         *)
(* The operators are parts of the actions of module TUI.  GoClaw's data on *)
(* a trace is how often it changed and whether it is still running.        *)
(***************************************************************************)
EXTENDS Naturals

CONSTANTS
  Traces,     \* ids of the traces
  MaxEvents   \* bound on the events of the user, GoClaw and the network

VARIABLES
  list,         \* s.traces: list[t], what the store knows of trace t
  listDirty,    \* s.listDirty
  fetching,     \* s.fetching: a RefreshList call has claimed the fetch
  listers,      \* RefreshList calls that run, with what they got
  selected,     \* s.selectedID, or NoTrace
  detail,       \* s.selectedData and s.spans: a trace and its data, or NoDetail
  detailDirty,  \* s.detailDirty
  fetches       \* RefreshDetail calls that run: who asked, what it got

listVars   == <<list, listDirty, fetching, listers>>
detailVars == <<selected, detail, detailDirty, fetches>>

NoTrace == "no trace"
Data == [at : 0..(MaxEvents + 1), running : BOOLEAN]
Unknown == [at |-> 0, running |-> TRUE]

NoDetail == [id |-> NoTrace, data |-> Unknown]
Details == {NoDetail} \cup [id : Traces, data : Data]

Listers == [step : {"asked", "answered"}, got : [Traces -> Data]]
ListRequest == [step |-> "asked", got |-> [t \in Traces |-> Unknown]]
Fetches == [by : {"drill", "live"}, got : Details]
Request(by) == [by |-> by, got |-> NoDetail]

StoreTypeOK ==
  /\ list \in [Traces -> Data]
  /\ listDirty \in BOOLEAN
  /\ fetching \in BOOLEAN
  /\ listers \subseteq Listers
  /\ selected \in Traces \cup {NoTrace}
  /\ detail \in Details
  /\ detailDirty \in BOOLEAN
  /\ fetches \subseteq Fetches

NewTraceStore ==
  /\ list = [t \in Traces |-> Unknown]
  /\ listDirty = FALSE
  /\ fetching = FALSE
  /\ listers = {}
  /\ selected = NoTrace
  /\ detail = NoDetail
  /\ detailDirty = FALSE
  /\ fetches = {}

-----------------------------------------------------------------------------
\* The spans of the old selection go at once.
SelectTrace(t) ==
  /\ selected' = t
  /\ IF selected = t THEN UNCHANGED <<detail, detailDirty>>
     ELSE detail' = NoDetail /\ detailDirty' = TRUE

\* Mutant: nothing claims the fetch.
BeginListUnclaimed(wanted) ==
  /\ fetching' = fetching
  /\ listers' = IF wanted THEN listers \cup {ListRequest} ELSE listers

\* RefreshList, if it is wanted.  The compare-and-swap lets one run at a time;
\* another returns at once.
BeginList(wanted) ==
  /\ fetching' = (fetching \/ wanted)
  /\ listers' = IF wanted /\ ~fetching THEN listers \cup {ListRequest} ELSE listers

AnswerList(f, now) ==
  /\ f \in listers
  /\ f.step = "asked"
  /\ listers' = (listers \ {f}) \cup {[step |-> "answered", got |-> now]}

FailList(f) ==
  /\ f \in listers
  /\ f.step = "asked"
  /\ listers' = listers \ {f}
  /\ fetching' = FALSE

\* A notification that came during the fetch is cleared with the others.
StoreList(f) ==
  /\ f \in listers
  /\ f.step = "answered"
  /\ list' = f.got
  /\ listDirty' = FALSE
  /\ listers' = listers \ {f}
  /\ fetching' = FALSE

-----------------------------------------------------------------------------
(* RefreshDetail.  Nothing keeps two of them from running at once.           *)

\* The trace asked for is the one selected when the goroutine runs.
AnswerDetail(f, now) ==
  /\ f \in fetches
  /\ f.got = NoDetail
  /\ selected # NoTrace
  /\ fetches' = (fetches \ {f})
       \cup {[f EXCEPT !.got = [id |-> selected, data |-> now[selected]]]}

FailDetail(f) ==
  /\ f \in fetches
  /\ f.got = NoDetail
  /\ fetches' = fetches \ {f}

\* Mutant: the answer is stored whatever is selected now.
StoreDetailUnchecked(f) ==
  /\ f \in fetches
  /\ f.got # NoDetail
  /\ fetches' = fetches \ {f}
  /\ detail' = f.got
  /\ detailDirty' = FALSE

\* "Only update if selection hasn't changed during fetch".
StoreDetail(f) ==
  /\ f \in fetches
  /\ f.got # NoDetail
  /\ fetches' = fetches \ {f}
  /\ IF selected = f.got.id
     THEN detail' = f.got /\ detailDirty' = FALSE
     ELSE UNCHANGED <<detail, detailDirty>>

-----------------------------------------------------------------------------
(* The spans in the store are those of the selected trace, however late the  *)
(* answers to earlier selections come.                                       *)
DetailOfSelection == detail # NoDetail => detail.id = selected
=============================================================================
