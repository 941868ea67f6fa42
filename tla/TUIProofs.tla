----------------------------- MODULE TUIProofs ------------------------------
(***************************************************************************)
(* Proofs about module TUI, for any set of traces, any keys and any size   *)
(* of the ring buffer.                                                     *)
(***************************************************************************)
EXTENDS TUI, SequenceTheorems, TLAPS

-----------------------------------------------------------------------------
(* The arithmetic of the ring buffer.                                        *)

(* The next place is the one after it, or the first.                         *)
LEMMA NextPlace ==
  ASSUME NEW a \in Nat, NEW n \in Nat \ {0}
  PROVE  /\ a % n \in 0..(n - 1)
         /\ a < n => a % n = a
         /\ (a + 1) % n = IF a % n = n - 1 THEN 0 ELSE (a % n) + 1
<1> DEFINE q == a \div n
           r == a % n
<1>1. q \in Nat /\ r \in 0..(n - 1) /\ a = q * n + r
  OBVIOUS
<1>2. \A k \in Nat, s \in 0..(n - 1) : (k * n + s) % n = s
  OBVIOUS
<1>3. a < n => r = a
  OBVIOUS
<1>4. CASE r = n - 1
  <2>1. a + 1 = (q + 1) * n + 0 /\ q + 1 \in Nat /\ 0 \in 0..(n - 1)
    BY <1>1, <1>4
  <2>2. (a + 1) % n = 0
    BY <1>2, <2>1
  <2>3. QED
    BY <1>1, <1>3, <1>4, <2>2
<1>5. CASE r # n - 1
  <2>1. a + 1 = q * n + (r + 1) /\ r + 1 \in 0..(n - 1)
    BY <1>1, <1>5
  <2>2. (a + 1) % n = r + 1
    BY <1>1, <1>2, <2>1
  <2>3. QED
    BY <1>1, <1>3, <1>5, <2>2
<1>6. QED
  BY <1>4, <1>5

(* The next step of the ring buffer: an append, or the oldest line replaced. *)
LEMMA SnapshotType ==
  ASSUME LiveTypeOK, RingInv
  PROVE  LogSnapshot \in Seq(Nat)
<1>1. logPos % LogCap \in 0..(LogCap - 1)
  BY NextPlace, LogAssumption DEF LiveTypeOK
<1> DEFINE start == logPos % LogCap
<1>2. CASE logPos > LogCap
  <2>1. Len(ring) = LogCap /\ ring \in Seq(Nat)
    BY <1>2, LogAssumption DEF LiveTypeOK, RingInv
  <2>2. SubSeq(ring, start + 1, LogCap) \in Seq(Nat) /\ SubSeq(ring, 1, start) \in Seq(Nat)
    BY <1>1, <2>1, LogAssumption
  <2>3. SubSeq(ring, start + 1, LogCap) \o SubSeq(ring, 1, start) \in Seq(Nat)
    BY <2>2
  <2>4. QED
    BY <1>2, <2>3, LogAssumption DEF LogSnapshot, LiveTypeOK
<1>3. CASE logPos <= LogCap
  BY <1>3 DEF LogSnapshot, LiveTypeOK
<1>4. QED
  BY <1>2, <1>3, LogAssumption DEF LiveTypeOK

-----------------------------------------------------------------------------
(* What the store starts from.                                               *)
LEMMA Beginnings ==
  /\ Unknown \in Data /\ NoDetail \in Details /\ ListRequest \in Listers
  /\ \A by \in {"drill", "live"} : Request(by) \in Fetches
<1>1. Unknown \in Data
  BY TUIAssumption DEF Unknown, Data
<1>2. NoDetail \in Details
  BY DEF Details
<1>3. ListRequest \in Listers
  BY <1>1 DEF ListRequest, Listers
<1>4. QED
  BY <1>1, <1>2, <1>3 DEF Request, Fetches

(* Every step keeps the types.                                               *)
LEMMA TypeStep == IInv /\ [Next]_vars => TypeOK'
<1> SUFFICES ASSUME IInv, [Next]_vars
             PROVE  TypeOK'
  OBVIOUS
<1> USE TUIAssumption, LogAssumption, Beginnings DEF IInv, listVars, detailVars, liveVars, shellVars
<1>1. ASSUME NEW poll \in BOOLEAN, TabTick(poll)
      PROVE  TypeOK'
  <2>1. listDirty' \in BOOLEAN /\ detailDirty' \in BOOLEAN /\ fetching' \in BOOLEAN
    BY <1>1 DEF TabTick, BeginList, WantsList, WantsDetail, TypeOK, StoreTypeOK, LiveTypeOK
  <2>2. listers' \subseteq Listers /\ fetches' \subseteq Fetches /\ draws' \subseteq Closures
    BY <1>1 DEF TabTick, BeginList, Closures, TypeOK, StoreTypeOK, LiveTypeOK
  <2>3. QED
    BY <1>1, <2>1, <2>2 DEF TabTick, TypeOK, StoreTypeOK, LiveTypeOK
<1>2. ASSUME NEW f \in listers, ListAnswered(f)
      PROVE  TypeOK'
  BY <1>2 DEF ListAnswered, AnswerList, Listers, TypeOK, StoreTypeOK, LiveTypeOK
<1>3. ASSUME NEW f \in listers, ListStored(f)
      PROVE  TypeOK'
  BY <1>3 DEF ListStored, StoreList, Listers, Closures, TypeOK, StoreTypeOK, LiveTypeOK
<1>4. ASSUME NEW f \in fetches, DetailAnswered(f)
      PROVE  TypeOK'
  <2>1. selected \in Traces /\ goclaw[selected] \in Data /\ f \in Fetches
    BY <1>4 DEF DetailAnswered, AnswerDetail, TypeOK, StoreTypeOK, LiveTypeOK
  <2> DEFINE got == [id |-> selected, data |-> goclaw[selected]]
             g == [f EXCEPT !.got = got]
  <2>2. got \in Details
    BY <2>1 DEF Details
  <2>3. g \in Fetches
    BY <2>1, <2>2 DEF Fetches
  <2>4. fetches' \subseteq Fetches
    BY <1>4, <2>3 DEF DetailAnswered, AnswerDetail, TypeOK, StoreTypeOK, LiveTypeOK
  <2>5. QED
    BY <1>4, <2>4 DEF DetailAnswered, TypeOK, StoreTypeOK, LiveTypeOK
<1>5. ASSUME NEW f \in fetches, DetailStored(f)
      PROVE  TypeOK'
  BY <1>5 DEF DetailStored, StoreDetail, Fetches, Closures, TypeOK, StoreTypeOK, LiveTypeOK
<1>6. CASE DrawList
  BY <1>6 DEF DrawList, Run, TypeOK, StoreTypeOK, LiveTypeOK
<1>7. CASE DrawSpans
  BY <1>7 DEF DrawSpans, Run, TypeOK, StoreTypeOK, LiveTypeOK
<1>8. CASE DrawDrill
  <2>1. CASE detail = NoDetail
    BY <1>8, <2>1 DEF DrawDrill, Run, TypeOK, StoreTypeOK, LiveTypeOK
  <2>2. CASE detail # NoDetail
    <3>1. screen' = [screen EXCEPT !.spans = detail] /\ level' = 1
      BY <1>8, <2>2 DEF DrawDrill
    <3>2. screen' \in [list : [Traces -> Data], spans : Details, logs : Seq(Nat)]
      BY <3>1 DEF TypeOK, StoreTypeOK, LiveTypeOK
    <3>3. QED
      BY <1>8, <3>1, <3>2 DEF DrawDrill, Run, TypeOK, StoreTypeOK, LiveTypeOK
  <2>3. QED
    BY <2>1, <2>2
<1>9. CASE DrawLogs
  <2>1. LogSnapshot \in Seq(Nat)
    BY SnapshotType DEF TypeOK, StoreTypeOK, LiveTypeOK
  <2>2. QED
    BY <1>9, <2>1 DEF DrawLogs, Run, TypeOK, StoreTypeOK, LiveTypeOK
<1>10. CASE MarkClean
  BY <1>10 DEF MarkClean, TypeOK, StoreTypeOK, LiveTypeOK
<1>11. ASSUME NEW t \in Tabs, SwitchTab(t)
       PROVE  TypeOK'
  BY <1>11 DEF SwitchTab, Press, Event, TypeOK, StoreTypeOK, LiveTypeOK
<1>12. ASSUME NEW t \in Traces, DrillIntoTrace(t)
       PROVE  TypeOK'
  <2>1. selected' \in Traces /\ detail' \in Details /\ detailDirty' \in BOOLEAN
    BY <1>12 DEF DrillIntoTrace, SelectTrace, TypeOK, StoreTypeOK, LiveTypeOK
  <2>2. fetches' \subseteq Fetches
    BY <1>12 DEF DrillIntoTrace, TypeOK, StoreTypeOK, LiveTypeOK
  <2>3. QED
    BY <1>12, <2>1, <2>2 DEF DrillIntoTrace, Press, Event, TypeOK, StoreTypeOK, LiveTypeOK
<1>13. CASE DrillIn
  BY <1>13 DEF DrillIn, Press, Event, TypeOK, StoreTypeOK, LiveTypeOK
<1>14. CASE DrillOut
  BY <1>14 DEF DrillOut, Press, Event, TypeOK, StoreTypeOK, LiveTypeOK
<1>15. CASE TogglePause
  BY <1>15 DEF TogglePause, Press, Event, TypeOK, StoreTypeOK, LiveTypeOK
<1>16. CASE RefreshActiveTab
  BY <1>16 DEF RefreshActiveTab, Press, Event, Closures, TypeOK, StoreTypeOK, LiveTypeOK
<1>17. ASSUME NEW t \in Traces, TraceUpdated(t)
       PROVE  TypeOK'
  <2>1. PICK more \in BOOLEAN :
          goclaw' = [goclaw EXCEPT ![t] = [at |-> goclaw[t].at + 1, running |-> more]]
    BY <1>17 DEF TraceUpdated
  <2>2. goclaw[t].at + 1 \in 0..(MaxEvents + 1) /\ events' \in 0..MaxEvents
    BY <1>17 DEF TraceUpdated, Event, ListInOrder, Data, TypeOK, StoreTypeOK, LiveTypeOK
  <2>3. goclaw' \in [Traces -> Data]
    BY <2>1, <2>2 DEF Data, TypeOK, StoreTypeOK, LiveTypeOK
  <2>4. QED
    BY <1>17, <2>2, <2>3 DEF TraceUpdated, TypeOK, StoreTypeOK, LiveTypeOK
<1>18. CASE LogLine
  <2>1. logPos % LogCap \in 0..(LogCap - 1)
    BY NextPlace DEF TypeOK, StoreTypeOK, LiveTypeOK
  <2>2. CASE logPos < LogCap
    <3>1. ring' = Append(ring, logPos + 1) /\ Len(ring) < LogCap
      BY <1>18, <2>2 DEF LogLine, AppendLog, RingInv
    <3>2. ring' \in Seq(Nat) /\ Len(ring') <= LogCap
      BY <3>1 DEF TypeOK, StoreTypeOK, LiveTypeOK
    <3>3. QED
      BY <1>18, <3>2 DEF LogLine, Event, AppendLog, TypeOK, StoreTypeOK, LiveTypeOK
  <2>3. CASE logPos >= LogCap
    <3>1. /\ ring' = [ring EXCEPT ![(logPos % LogCap) + 1] = logPos + 1]
          /\ (logPos % LogCap) + 1 \in 1..Len(ring)
      BY <1>18, <2>1, <2>3 DEF LogLine, AppendLog, RingInv, TypeOK, StoreTypeOK, LiveTypeOK
    <3>2. ring \in Seq(Nat) /\ logPos + 1 \in Nat
      BY DEF TypeOK, StoreTypeOK, LiveTypeOK
    <3>3. ring' \in Seq(Nat) /\ Len(ring') = Len(ring)
      BY <3>1, <3>2, ExceptSeq
    <3>4. QED
      BY <1>18, <3>3 DEF LogLine, Event, AppendLog, TypeOK, StoreTypeOK, LiveTypeOK
  <2>4. QED
    BY <2>2, <2>3 DEF TypeOK, StoreTypeOK, LiveTypeOK
<1>19. CASE FetchFails
  <2>1. listers' \subseteq listers /\ fetches' \subseteq fetches /\ fetching' \in BOOLEAN
    BY <1>19 DEF FetchFails, FailList, FailDetail, TypeOK, StoreTypeOK, LiveTypeOK
  <2>2. QED
    BY <1>19, <2>1 DEF FetchFails, Event, TypeOK, StoreTypeOK, LiveTypeOK
<1>20. CASE UNCHANGED vars
  BY <1>20 DEF vars, TypeOK, StoreTypeOK, LiveTypeOK
<1>21. QED
  BY <1>1, <1>2, <1>3, <1>4, <1>5, <1>6, <1>7, <1>8, <1>9, <1>10,
     <1>11, <1>12, <1>13, <1>14, <1>15, <1>16, <1>17, <1>18, <1>19, <1>20
     DEF Next, FetchList, AnswerDetails, StoreDetails, Key

-----------------------------------------------------------------------------
(* Only SelectTrace and StoreDetail change the selection or the spans.       *)
LEMMA DetailStep == DetailOfSelection /\ [Next]_vars => DetailOfSelection'
<1> SUFFICES ASSUME DetailOfSelection, [Next]_vars
             PROVE  DetailOfSelection'
  OBVIOUS
<1>1. \/ UNCHANGED <<selected, detail>>
      \/ \E t \in Traces : SelectTrace(t)
      \/ \E f \in fetches : StoreDetail(f) /\ selected' = selected
  BY DEF vars, detailVars, shellVars, AnswerDetail, Next, TabTick, FetchList,
     ListAnswered, ListStored, AnswerDetails, StoreDetails,
     DetailAnswered, DetailStored, DrawList, DrawSpans, DrawDrill, DrawLogs, Run,
     MarkClean, Key, Press, Event, SwitchTab, DrillIntoTrace, DrillIn, DrillOut,
     TogglePause, RefreshActiveTab, TraceUpdated, LogLine, FetchFails
<1>2. QED
  BY <1>1 DEF SelectTrace, StoreDetail, DetailOfSelection

(* Only AppendLog changes the buffer, and it replaces the oldest line.       *)
LEMMA RingStep ==
  TypeOK /\ RingInv /\ [Next]_vars => RingInv'
<1> SUFFICES ASSUME TypeOK, RingInv, [Next]_vars
             PROVE  RingInv'
  OBVIOUS
<1> DEFINE start == logPos % LogCap
<1>1. UNCHANGED <<ring, logPos>> \/ AppendLog
  BY DEF vars, liveVars, Next, TabTick, FetchList,
     ListAnswered, ListStored, AnswerDetails, StoreDetails,
     DetailAnswered, DetailStored, DrawList, DrawSpans, DrawDrill, DrawLogs, Run,
     MarkClean, Key, Press, Event, SwitchTab, DrillIntoTrace, DrillIn, DrillOut,
     TogglePause, RefreshActiveTab, TraceUpdated, LogLine, FetchFails
<1>2. CASE UNCHANGED <<ring, logPos>>
  BY <1>2 DEF RingInv
<1>3. CASE AppendLog
  <2>1. ring \in Seq(Nat) /\ logPos \in Nat /\ LogCap \in Nat \ {0}
    BY LogAssumption DEF TypeOK, LiveTypeOK
  <2>2. /\ start \in 0..(LogCap - 1)
        /\ logPos < LogCap => start = logPos
        /\ (logPos + 1) % LogCap = IF start = LogCap - 1 THEN 0 ELSE start + 1
    BY <2>1, NextPlace
  <2>3. CASE logPos < LogCap
    <3>1. ring' = Append(ring, logPos + 1) /\ logPos' = logPos + 1 /\ Len(ring) = logPos
      BY <1>3, <2>3 DEF AppendLog, RingInv
    <3>2. \A i \in 1..logPos : ring[i] = i
      BY <2>1, <2>2, <2>3, <3>1 DEF RingInv
    <3>3. Len(ring') = logPos + 1 /\ \A i \in 1..Len(ring') : ring'[i] = i
      BY <2>1, <3>1, <3>2, AppendProperties
    <3>4. QED
      BY <2>1, <2>2, <2>3, <3>1, <3>3 DEF RingInv
  <2>4. CASE logPos >= LogCap
    <3>1. /\ ring' = [ring EXCEPT ![start + 1] = logPos + 1] /\ logPos' = logPos + 1
          /\ Len(ring) = LogCap /\ start + 1 \in 1..LogCap
      BY <1>3, <2>1, <2>2, <2>4 DEF AppendLog, RingInv
    <3>2. /\ Len(ring') = LogCap
          /\ \A i \in 1..LogCap : ring'[i] = IF i = start + 1 THEN logPos + 1 ELSE ring[i]
      BY <2>1, <3>1, ExceptSeq
    <3>3. \A i \in 1..LogCap :
            ring[i] = IF i <= start THEN logPos - start + i ELSE logPos - start + i - LogCap
      BY <3>1 DEF RingInv
    <3> DEFINE next == (logPos + 1) % LogCap
    <3> HIDE DEF start, next
    <3>4. \A i \in 1..LogCap :
            ring'[i] = IF i <= next THEN (logPos + 1) - next + i
                       ELSE (logPos + 1) - next + i - LogCap
      <4>1. start \in 0..(LogCap - 1) /\ next = IF start = LogCap - 1 THEN 0 ELSE start + 1
        BY <2>2 DEF next
      <4>2. logPos \in Nat /\ LogCap \in Nat \ {0}
        BY <2>1
      <4> SUFFICES ASSUME NEW i \in 1..LogCap
                   PROVE  ring'[i] = IF i <= next THEN (logPos + 1) - next + i
                                     ELSE (logPos + 1) - next + i - LogCap
        OBVIOUS
      <4>3. ring'[i] = IF i <= start + 1 THEN logPos - start + i
                       ELSE logPos - start + i - LogCap
        BY <3>2, <3>3, <4>1, <4>2
      <4>4. QED
        BY <4>1, <4>2, <4>3
    <3>5. logPos' % LogCap = next /\ ~(logPos' < LogCap) /\ Len(ring') = LogCap
      BY <2>1, <2>4, <3>1, <3>2 DEF next
    <3>6. Len(ring') = IF logPos' < LogCap THEN logPos' ELSE LogCap
      BY <3>5
    <3>7. \A i \in 1..Len(ring') :
            ring'[i] = IF i <= next THEN logPos' - next + i ELSE logPos' - next + i - LogCap
      <4>1. logPos' = logPos + 1 /\ Len(ring') = LogCap
        BY <3>1, <3>5
      <4>2. QED
        BY <3>4, <4>1, Zenon
    <3>8. QED
      BY <3>5, <3>6, <3>7, Zenon DEF RingInv
  <2>5. QED
    BY <2>1, <2>3, <2>4
<1>4. QED
  BY <1>1, <1>2, <1>3

(* What the rotation of logSnapshot makes of such a buffer.                  *)
LEMMA Rotation == LiveTypeOK /\ RingInv => SnapshotIsChronological
<1> SUFFICES ASSUME LiveTypeOK, RingInv
             PROVE  SnapshotIsChronological
  OBVIOUS
<1> DEFINE start == logPos % LogCap
           n == IF logPos < LogCap THEN logPos ELSE LogCap
           lines == [i \in 1..n |-> logPos - n + i]
<1>1. ring \in Seq(Nat) /\ logPos \in Nat /\ LogCap \in Nat \ {0} /\ Len(ring) = n
  BY LogAssumption DEF LiveTypeOK, RingInv
<1>2. start \in 0..(LogCap - 1) /\ (logPos < LogCap => start = logPos)
  BY <1>1, NextPlace
<1>3. \A i \in 1..n :
        ring[i] = IF i <= start THEN logPos - start + i ELSE logPos - start + i - LogCap
  BY <1>1 DEF RingInv
<1>4. LogSnapshot \in Seq(Nat)
  BY SnapshotType
<1>5. lines \in Seq(Nat) /\ Len(lines) = n
  BY <1>1
<1>6. Len(LogSnapshot) = n /\ \A i \in 1..n : LogSnapshot[i] = logPos - n + i
  <2>1. CASE logPos < LogCap
    BY <1>1, <1>2, <1>3, <2>1 DEF LogSnapshot
  <2>2. CASE logPos = LogCap
    <3>1. start = 0
      BY <1>1, <2>2
    <3>2. QED
      BY <1>1, <1>3, <2>2, <3>1 DEF LogSnapshot
  <2>3. CASE logPos > LogCap
    <3> DEFINE old == SubSeq(ring, start + 1, LogCap)
               new == SubSeq(ring, 1, start)
    <3>1. LogSnapshot = old \o new /\ n = LogCap
      BY <1>1, <2>3 DEF LogSnapshot
    <3>2. /\ old \in Seq(Nat) /\ Len(old) = LogCap - start
          /\ \A i \in 1..(LogCap - start) : old[i] = ring[start + i]
      BY <1>1, <1>2, <3>1
    <3>3. /\ new \in Seq(Nat) /\ Len(new) = start
          /\ \A i \in 1..start : new[i] = ring[i]
      BY <1>1, <1>2, <3>1
    <3> HIDE DEF old, new
    <3>4. /\ Len(old \o new) = LogCap
          /\ \A i \in 1..LogCap : (old \o new)[i] = IF i <= LogCap - start THEN ring[start + i]
                                                   ELSE ring[i - (LogCap - start)]
      <4>1. /\ Len(old \o new) = Len(old) + Len(new)
            /\ \A i \in 1..(Len(old) + Len(new)) :
                 (old \o new)[i] = IF i <= Len(old) THEN old[i] ELSE new[i - Len(old)]
        BY <3>2, <3>3, ConcatProperties
      <4>2. Len(old) + Len(new) = LogCap
        BY <1>1, <1>2, <3>2, <3>3
      <4>3. LogCap \in Nat /\ start \in 0..(LogCap - 1)
        BY <1>1, <1>2
      <4> HIDE DEF start
      <4>4. ASSUME NEW i \in 1..LogCap
            PROVE  (old \o new)[i] = IF i <= LogCap - start THEN ring[start + i]
                                     ELSE ring[i - (LogCap - start)]
        <5>1. (old \o new)[i] = IF i <= LogCap - start THEN old[i]
                                ELSE new[i - (LogCap - start)]
          BY <3>2, <4>1, <4>2
        <5>2. CASE i <= LogCap - start
          BY <3>2, <4>3, <5>1, <5>2
        <5>3. CASE i > LogCap - start
          <6>1. i - (LogCap - start) \in 1..start
            BY <4>3, <5>3
          <6>2. QED
            BY <3>3, <4>3, <5>1, <5>3, <6>1
        <5>4. i <= LogCap - start \/ i > LogCap - start
          BY <4>3
        <5>5. QED
          BY <5>2, <5>3, <5>4, Zenon
      <4>5. QED
        BY <4>1, <4>2, <4>4
    <3> HIDE DEF start
    <3>5. \A i \in 1..LogCap :
            (IF i <= LogCap - start THEN ring[start + i] ELSE ring[i - (LogCap - start)])
              = logPos - LogCap + i
      BY <1>1, <1>2, <1>3, <3>1
    <3>6. QED
      BY <3>1, <3>4, <3>5
  <2>4. QED
    BY <1>1, <2>1, <2>2, <2>3
<1>7. LogSnapshot = lines
  BY <1>4, <1>5, <1>6, SeqEqual
<1>8. QED
  BY <1>7 DEF SnapshotIsChronological

(* A call of RefreshList that begins finds no other, and nothing else makes  *)
(* one.                                                                      *)
LEMMA OneListerStep == TypeOK /\ OneLister /\ [Next]_vars => OneLister'
<1> SUFFICES ASSUME TypeOK, OneLister, [Next]_vars
             PROVE  OneLister'
  OBVIOUS
<1>1. \/ UNCHANGED <<fetching, listers>>
      \/ \E wanted \in BOOLEAN : BeginList(wanted)
      \/ \E f \in listers : AnswerList(f, goclaw) /\ fetching' = fetching
      \/ \E f \in listers : FailList(f) \/ StoreList(f)
  BY DEF vars, listVars, WantsList, TypeOK, StoreTypeOK, Next, TabTick, FetchList,
     ListAnswered, ListStored, AnswerDetails, StoreDetails,
     DetailAnswered, DetailStored, DrawList, DrawSpans, DrawDrill, DrawLogs, Run,
     MarkClean, Key, Press, Event, SwitchTab, DrillIntoTrace, DrillIn, DrillOut,
     TogglePause, RefreshActiveTab, TraceUpdated, LogLine, FetchFails
<1>2. CASE UNCHANGED <<fetching, listers>>
  BY <1>2 DEF OneLister
<1>3. ASSUME NEW wanted \in BOOLEAN, BeginList(wanted)
      PROVE  OneLister'
  BY <1>3 DEF OneLister, BeginList, TypeOK, StoreTypeOK
<1>4. ASSUME NEW f \in listers, AnswerList(f, goclaw), fetching' = fetching
      PROVE  OneLister'
  BY <1>4 DEF OneLister, AnswerList
<1>5. ASSUME NEW f \in listers, FailList(f) \/ StoreList(f)
      PROVE  OneLister'
  BY <1>5 DEF OneLister, FailList, StoreList
<1>6. QED
  BY <1>1, <1>2, <1>3, <1>4, <1>5

(* The list on screen is replaced by nothing but the stored one.             *)
LEMMA ScreenShowsStore ==
  ASSUME TypeOK, [Next]_vars
  PROVE  screen'.list \in {screen.list, list}
BY DEF TypeOK, vars, Next, TabTick, FetchList,
     ListAnswered, ListStored, AnswerDetails, StoreDetails,
     DetailAnswered, DetailStored, DrawList, DrawSpans, DrawDrill, DrawLogs, Run,
     MarkClean, Key, Press, Event, SwitchTab, DrillIntoTrace, DrillIn, DrillOut,
     TogglePause, RefreshActiveTab, TraceUpdated, LogLine, FetchFails

(* Data moves one place at a time, from GoClaw to the screen.                *)
LEMMA OrderStep == TypeOK /\ OneLister /\ ListInOrder /\ [Next]_vars => ListInOrder'
<1> SUFFICES ASSUME TypeOK, OneLister, ListInOrder, [Next]_vars
             PROVE  ListInOrder'
  OBVIOUS
<1>1. /\ events \in Nat
      /\ \A t \in Traces :
           /\ list[t].at \in Nat /\ goclaw[t].at \in Nat /\ screen.list[t].at \in Nat
           /\ \A f \in listers : f.got[t].at \in Nat
  BY DEF TypeOK, StoreTypeOK, Data, Listers
<1>2. events' \in {events, events + 1}
  BY DEF vars, Next, TabTick, FetchList, ListAnswered, ListStored, AnswerDetails, StoreDetails,
     DetailAnswered, DetailStored, DrawList, DrawSpans, DrawDrill, DrawLogs, Run,
     MarkClean, Key, Press, Event, SwitchTab, DrillIntoTrace, DrillIn, DrillOut,
     TogglePause, RefreshActiveTab, TraceUpdated, LogLine, FetchFails
<1>3. screen'.list \in {screen.list, list}
  BY ScreenShowsStore
<1>4. \/ UNCHANGED <<list, goclaw, listers>>
      \/ \E wanted \in BOOLEAN : BeginList(wanted) /\ UNCHANGED <<list, goclaw>>
      \/ \E f \in listers : AnswerList(f, goclaw) /\ UNCHANGED <<list, goclaw>>
      \/ \E f \in listers : FailList(f) /\ UNCHANGED <<list, goclaw>>
      \/ \E f \in listers : StoreList(f) /\ UNCHANGED <<goclaw, screen>>
      \/ \E u \in Traces : TraceUpdated(u)
  BY DEF vars, listVars, WantsList, TypeOK, StoreTypeOK, Next, TabTick, FetchList,
     ListAnswered, ListStored, AnswerDetails, StoreDetails,
     DetailAnswered, DetailStored, DrawList, DrawSpans, DrawDrill, DrawLogs, Run,
     MarkClean, Key, Press, Event, SwitchTab, DrillIntoTrace, DrillIn, DrillOut,
     TogglePause, RefreshActiveTab, TraceUpdated, LogLine, FetchFails
<1>5. CASE UNCHANGED <<list, goclaw, listers>>
  BY <1>1, <1>2, <1>3, <1>5 DEF ListInOrder
<1>6. ASSUME NEW wanted \in BOOLEAN, BeginList(wanted), UNCHANGED <<list, goclaw>>
      PROVE  ListInOrder'
  <2>1. \A f \in listers' : f.step = "answered" => f \in listers
    BY <1>6 DEF BeginList, ListRequest
  <2>2. QED
    BY <1>1, <1>2, <1>3, <1>6, <2>1 DEF ListInOrder
<1>7. ASSUME NEW f \in listers, AnswerList(f, goclaw), UNCHANGED <<list, goclaw>>
      PROVE  ListInOrder'
  BY <1>1, <1>2, <1>3, <1>7 DEF ListInOrder, AnswerList
<1>8. ASSUME NEW f \in listers, FailList(f), UNCHANGED <<list, goclaw>>
      PROVE  ListInOrder'
  BY <1>1, <1>2, <1>3, <1>8 DEF ListInOrder, FailList
<1>9. ASSUME NEW f \in listers, StoreList(f), UNCHANGED <<goclaw, screen>>
      PROVE  ListInOrder'
  <2>1. listers' = {} /\ list' = f.got /\ f.step = "answered"
    BY <1>9 DEF StoreList, OneLister
  <2>2. QED
    BY <1>1, <1>2, <1>9, <2>1 DEF ListInOrder
<1>10. ASSUME NEW u \in Traces, TraceUpdated(u)
       PROVE  ListInOrder'
  <2>1. \A t \in Traces : goclaw'[t].at = IF t = u THEN goclaw[t].at + 1 ELSE goclaw[t].at
    BY <1>10 DEF TraceUpdated, TypeOK
  <2>2. UNCHANGED <<list, listers, screen>> /\ events' = events + 1
    BY <1>10 DEF TraceUpdated, Event
  <2>3. QED
    BY <1>1, <2>1, <2>2 DEF ListInOrder
<1>11. QED
  BY <1>4, <1>5, <1>6, <1>7, <1>8, <1>9, <1>10

-----------------------------------------------------------------------------
(* The inductive invariant holds of every behaviour.                         *)
THEOREM TUIInvariant == Spec => []IInv
<1>1. Init => IInv
  <2> SUFFICES ASSUME Init
               PROVE  IInv
    OBVIOUS
  <2>1. TypeOK
    <3>1. [at |-> 1, running |-> TRUE] \in Data
      BY TUIAssumption DEF Data
    <3>2. StoreTypeOK
      BY Beginnings DEF Init, NewTraceStore, StoreTypeOK
    <3>3. LiveTypeOK
      <4>1. ring = <<>> /\ logPos = 0 /\ dirty = FALSE
        BY DEF Init, NewLiveStore
      <4>2. QED
        <5>1. <<>> \in Seq(Nat) /\ Len(<<>>) = 0
          BY EmptySeq
        <5>2. 0 <= LogCap /\ 0 \in Nat
          BY LogAssumption
        <5>3. QED
          BY <4>1, <5>1, <5>2, Zenon DEF LiveTypeOK
    <3>4. screen \in [list : [Traces -> Data], spans : Details, logs : Seq(Nat)]
      BY Beginnings DEF Init
    <3>5. /\ tab \in Tabs /\ level \in 0..2 /\ paused \in BOOLEAN
          /\ ui \in {"ready", "marking", "blocked"} /\ draws \subseteq Closures
          /\ ticker \in {"ticking", "drawing"}
      <4>1. /\ tab = "state" /\ level = 0 /\ paused = FALSE /\ ui = "ready" /\ draws = {}
            /\ ticker = "ticking"
        BY DEF Init
      <4>2. QED
        <5>1. paused \in BOOLEAN
          BY <4>1
        <5>2. QED
          BY <4>1, <5>1 DEF Tabs
    <3>6. goclaw \in [Traces -> Data] /\ events \in 0..MaxEvents
      BY <3>1, TUIAssumption DEF Init
    <3>7. QED
      BY <3>2, <3>3, <3>4, <3>5, <3>6 DEF TypeOK
  <2>2. RingInv
    BY LogAssumption DEF Init, NewLiveStore, RingInv
  <2>3. OneLister /\ ListInOrder /\ DetailOfSelection
    BY DEF Init, NewTraceStore, OneLister, ListInOrder, DetailOfSelection, Unknown
  <2>4. QED
    BY <2>1, <2>2, <2>3 DEF IInv
<1>2. IInv /\ [Next]_vars => IInv'
  BY TypeStep, DetailStep, RingStep, OneListerStep, OrderStep DEF IInv
<1>3. QED
  BY <1>1, <1>2, PTL DEF Spec

(* Every variable keeps its type.                                            *)
THEOREM TUITypes == Spec => []TypeOK
BY TUIInvariant, PTL DEF IInv

(* The spans in the TraceStore are those of the selected trace, however late *)
(* the answers to earlier selections come.                                   *)
THEOREM SpansAreOfSelection == Spec => []DetailOfSelection
BY TUIInvariant, PTL DEF IInv

(* logSnapshot returns the last lines in the order they came, for any size   *)
(* of the buffer and any number of wraparounds.                              *)
THEOREM SnapshotsAreChronological == Spec => []SnapshotIsChronological
<1>1. IInv => SnapshotIsChronological
  BY Rotation DEF IInv, TypeOK
<1>2. QED
  BY <1>1, TUIInvariant, PTL

(* The trace list on screen is never replaced by an older one.               *)
THEOREM ScreenNeverGoesBack == Spec => ListNeverGoesBack
<1>1. IInv /\ [Next]_vars => [\A t \in Traces : screen'.list[t].at >= screen.list[t].at]_vars
  <2> SUFFICES ASSUME IInv, [Next]_vars, NEW t \in Traces
               PROVE  screen'.list[t].at >= screen.list[t].at
    OBVIOUS
  <2>1. screen'.list \in {screen.list, list}
    BY ScreenShowsStore DEF IInv
  <2>2. QED
    BY <2>1 DEF IInv, TypeOK, StoreTypeOK, Data, ListInOrder
<1>2. QED
  BY <1>1, TUIInvariant, PTL DEF Spec, ListNeverGoesBack
=============================================================================
