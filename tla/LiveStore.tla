----------------------------- MODULE LiveStore ------------------------------
(***************************************************************************)
(* The LiveStore of internal/tui: a ring buffer of the log lines GoClaw    *)
(* pushes, written by the WebSocket's readLoop and read by the UI.         *)
(* The i-th line is the number i.                                          *)
(***************************************************************************)
EXTENDS Integers, Sequences

CONSTANT LogCap   \* s.logCap

ASSUME LogAssumption == LogCap \in Nat \ {0}

VARIABLES
  ring,    \* s.logs, from 1
  logPos,  \* s.logPos: lines received
  dirty    \* s.dirty

liveVars == <<ring, logPos, dirty>>

LiveTypeOK ==
  /\ ring \in Seq(Nat) /\ Len(ring) <= LogCap
  /\ logPos \in Nat
  /\ dirty \in BOOLEAN

NewLiveStore ==
  /\ ring = <<>>
  /\ logPos = 0
  /\ dirty = FALSE

\* Mutant: the buffer grows with every line.
AppendLogGrowing ==
  /\ ring' = Append(ring, logPos + 1)
  /\ logPos' = logPos + 1
  /\ dirty' = TRUE

\* appendLog.
AppendLog ==
  /\ ring' = IF logPos < LogCap THEN Append(ring, logPos + 1)
             ELSE [ring EXCEPT ![(logPos % LogCap) + 1] = logPos + 1]
  /\ logPos' = logPos + 1
  /\ dirty' = TRUE

\* Mutant: the oldest line is taken to be at the front of the buffer.
LogSnapshotUnrotated == ring

\* logSnapshot: a copy that starts at the oldest line.
LogSnapshot ==
  LET start == logPos % LogCap
  IN IF logPos <= LogCap THEN ring
     ELSE SubSeq(ring, start + 1, LogCap) \o SubSeq(ring, 1, start)

(* The snapshot is the last lines received, in the order they came, whatever *)
(* the wraparound.                                                           *)
SnapshotIsChronological ==
  LET n == IF logPos < LogCap THEN logPos ELSE LogCap
  IN LogSnapshot = [i \in 1..n |-> logPos - n + i]

(* The inductive part: the buffer is full from the moment it has wrapped,    *)
(* and a place before the next one to be written has a line of the present   *)
(* round, the others one of the round before.                                *)
RingInv ==
  LET start == logPos % LogCap
  IN /\ Len(ring) = IF logPos < LogCap THEN logPos ELSE LogCap
     /\ \A i \in 1..Len(ring) :
          ring[i] = IF i <= start THEN logPos - start + i ELSE logPos - start + i - LogCap
=============================================================================
