------------------------------ MODULE WSClient ------------------------------
(***************************************************************************)
(* The WebSocket RPC client of internal/provider/goclaw (ws_client.go) and *)
(* the provider's ensureWS around it: concurrent calls share one socket, a *)
(* readLoop goroutine per socket hands responses to the pending calls, and *)
(* a dead socket is dropped and replaced by the next ensureWS.             *)
(*                                                                         *)
(* connMu is held during the whole of Connect, so Connect is one step for  *)
(* everything that looks at c.conn; pendingMu protects each access to the  *)
(* pending map.  Push events are not modelled: they touch no client state. *)
(***************************************************************************)
EXTENDS Naturals, FiniteSets

CONSTANTS
  Calls,      \* ensureWS + Call, each made once by some goroutine
  MaxConns,   \* bound on the sockets dialled
  MaxID,      \* bound on the request ids used on one connection
  MaxActors   \* bound on the goroutines: the calls that start, and Provider.Close

ASSUME WSAssumption ==
  /\ MaxConns \in Nat
  /\ MaxID \in Nat \ {0}   \* the handshake takes id 1
  /\ MaxActors \in Nat

VARIABLES
  conn,      \* c.conn: the number of the current socket, 0 for nil
  dialled,   \* number of sockets dialled so far
  sock,      \* sock[k]: "up", "broken" (peer gone) or "closed" (by us)
  reader,    \* reader[k]: the readLoop of socket k
  lastDone,  \* c.done: the socket whose readLoop closes it, 0 for nil
  nextID,    \* c.nextID
  pending,   \* pending[i]: the calls whose channel is registered under id i
  call,      \* call[c]: where call c is
  on,        \* on[c]: the socket call c took
  id,        \* id[c]: the request id of call c
  inbox,     \* inbox[c]: content of c's channel (capacity 1)
  requests,  \* calls whose request frame reached the peer of on[c]
  replies,   \* calls whose response frame is on its way back on on[c]
  closer     \* where Close is, and the socket and done channel it took

vars == <<conn, dialled, sock, reader, lastDone, nextID, pending, call, on, id,
          inbox, requests, replies, closer>>

Sockets == 1..MaxConns
IDs == 1..MaxID

\* What a channel can hold: nothing, the failure sent by cancelAllPending, or
\* the response to the request of some call.
Frame == {<<"empty">>, <<"error">>} \cup ({"response"} \X Calls)
Empty == <<"empty">>
Failure == <<"error">>
ResponseTo(c) == <<"response", c>>

CallSteps == {"start", "connected", "got", "numbered", "registered", "waiting",
              "returned", "failed"}

TypeOK ==
  /\ conn \in 0..MaxConns
  /\ dialled \in 0..MaxConns
  /\ sock \in [Sockets -> {"none", "up", "broken", "closed"}]
  /\ reader \in [Sockets -> {"none", "reading", "exiting", "exited"}]
  /\ lastDone \in 0..MaxConns
  /\ nextID \in 0..MaxID
  /\ pending \in [IDs -> SUBSET Calls]
  /\ call \in [Calls -> CallSteps]
  /\ on \in [Calls -> 0..MaxConns]
  /\ id \in [Calls -> 0..MaxID]
  /\ inbox \in [Calls -> Frame]
  /\ requests \subseteq Calls
  /\ replies \subseteq Calls
  /\ closer \in [step : {"idle", "waiting", "done"}, done : 0..MaxConns]

Init ==
  /\ conn = 0
  /\ dialled = 0
  /\ sock = [k \in Sockets |-> "none"]
  /\ reader = [k \in Sockets |-> "none"]
  /\ lastDone = 0
  /\ nextID = 0
  /\ pending = [i \in IDs |-> {}]
  /\ call = [c \in Calls |-> "start"]
  /\ on = [c \in Calls |-> 0]
  /\ id = [c \in Calls |-> 0]
  /\ inbox = [c \in Calls |-> Empty]
  /\ requests = {}
  /\ replies = {}
  /\ closer = [step |-> "idle", done |-> 0]

connVars  == <<conn, dialled, lastDone>>
callVars  == <<call, on, id, inbox>>
wireVars  == <<requests, replies>>

-----------------------------------------------------------------------------
(* ensureWS and Connect.                                                     *)

Actors == {c \in Calls : call[c] # "start"} \cup (IF closer.step = "idle" THEN {} ELSE {"Close"})

ToConnect(c) == call[c] = "start" /\ Cardinality(Actors) < MaxActors

\* IsConnected: some socket is current, so the call goes on with it.
EnsureConnected(c) ==
  /\ ToConnect(c)
  /\ conn # 0
  /\ call' = [call EXCEPT ![c] = "connected"]
  /\ UNCHANGED <<connVars, sock, reader, nextID, pending, on, id, inbox, wireVars,
                 closer>>

DialFails(c) ==
  /\ ToConnect(c)
  /\ conn = 0
  /\ call' = [call EXCEPT ![c] = "failed"]
  /\ UNCHANGED <<connVars, sock, reader, nextID, pending, on, id, inbox, wireVars,
                 closer>>

\* c.conn is set before the handshake and a failed handshake closes the
\* socket without clearing it.
HandshakeFails(c) ==
  /\ ToConnect(c)
  /\ conn = 0
  /\ dialled < MaxConns
  /\ dialled' = dialled + 1
  /\ conn' = dialled + 1
  /\ sock' = [sock EXCEPT ![dialled + 1] = "closed"]
  /\ call' = [call EXCEPT ![c] = "failed"]
  /\ UNCHANGED <<lastDone, reader, nextID, pending, on, id, inbox, wireVars, closer>>

\* The id counter restarts at 1, the id of the handshake itself.
Connect(c) ==
  /\ ToConnect(c)
  /\ conn = 0
  /\ dialled < MaxConns
  /\ dialled' = dialled + 1
  /\ conn' = dialled + 1
  /\ sock' = [sock EXCEPT ![dialled + 1] = "up"]
  /\ reader' = [reader EXCEPT ![dialled + 1] = "reading"]
  /\ lastDone' = dialled + 1
  /\ nextID' = 1
  /\ call' = [call EXCEPT ![c] = "connected"]
  /\ UNCHANGED <<pending, on, id, inbox, wireVars, closer>>

-----------------------------------------------------------------------------
(* Call.                                                                     *)

TakeConn(c) ==
  /\ call[c] = "connected"
  /\ call' = [call EXCEPT ![c] = IF conn = 0 THEN "failed" ELSE "got"]
  /\ on' = [on EXCEPT ![c] = conn]
  /\ UNCHANGED <<connVars, sock, reader, nextID, pending, id, inbox, wireVars,
                 closer>>

\* Mutant: the counter is bumped twice.
TakeIDTwice(c) ==
  /\ call[c] = "got"
  /\ nextID < MaxID
  /\ nextID' = nextID + 2
  /\ id' = [id EXCEPT ![c] = nextID + 2]
  /\ call' = [call EXCEPT ![c] = "numbered"]
  /\ UNCHANGED <<connVars, sock, reader, pending, on, inbox, wireVars, closer>>

TakeID(c) ==
  /\ call[c] = "got"
  /\ nextID < MaxID
  /\ nextID' = nextID + 1
  /\ id' = [id EXCEPT ![c] = nextID + 1]
  /\ call' = [call EXCEPT ![c] = "numbered"]
  /\ UNCHANGED <<connVars, sock, reader, pending, on, inbox, wireVars, closer>>

\* A map insert: it replaces whatever was registered under the id.
RegisterCall(c) ==
  /\ call[c] = "numbered"
  /\ pending' = [pending EXCEPT ![id[c]] = {c}]
  /\ call' = [call EXCEPT ![c] = "registered"]
  /\ UNCHANGED <<connVars, sock, reader, nextID, on, id, inbox, wireVars, closer>>

\* A write to a socket whose peer is gone may still be accepted by the kernel.
WriteSucceeds(c) ==
  /\ call[c] = "registered"
  /\ sock[on[c]] \in {"up", "broken"}
  /\ requests' = IF sock[on[c]] = "up" THEN requests \cup {c} ELSE requests
  /\ call' = [call EXCEPT ![c] = "waiting"]
  /\ UNCHANGED <<connVars, sock, reader, nextID, pending, on, id, inbox, replies,
                 closer>>

\* The entry is deleted by id and the socket dropped if it is still current;
\* the socket itself is not closed.
WriteFails(c) ==
  /\ call[c] = "registered"
  /\ sock[on[c]] # "up"
  /\ pending' = [pending EXCEPT ![id[c]] = {}]
  /\ conn' = IF conn = on[c] THEN 0 ELSE conn
  /\ call' = [call EXCEPT ![c] = "failed"]
  /\ UNCHANGED <<dialled, lastDone, sock, reader, nextID, on, id, inbox, wireVars,
                 closer>>

Return(c) ==
  /\ call[c] = "waiting"
  /\ inbox[c] # Empty
  /\ call' = [call EXCEPT ![c] = IF inbox[c] = Failure THEN "failed" ELSE "returned"]
  /\ UNCHANGED <<connVars, sock, reader, nextID, pending, on, id, inbox, wireVars,
                 closer>>

\* Mutant: the entry of a cancelled call is left in the map.
CancelKeepsEntry(c) ==
  /\ call[c] = "waiting"
  /\ call' = [call EXCEPT ![c] = "failed"]
  /\ UNCHANGED <<connVars, sock, reader, nextID, pending, on, id, inbox, wireVars,
                 closer>>

\* ctx.Done: delete by id.
Cancel(c) ==
  /\ call[c] = "waiting"
  /\ pending' = [pending EXCEPT ![id[c]] = {}]
  /\ call' = [call EXCEPT ![c] = "failed"]
  /\ UNCHANGED <<connVars, sock, reader, nextID, on, id, inbox, wireVars, closer>>

-----------------------------------------------------------------------------
(* The peer and the network.                                                 *)

Reply(c) ==
  /\ c \in requests
  /\ sock[on[c]] = "up"
  /\ requests' = requests \ {c}
  /\ replies' = replies \cup {c}
  /\ UNCHANGED <<connVars, sock, reader, nextID, pending, callVars, closer>>

Break(k) ==
  /\ sock[k] = "up"
  /\ sock' = [sock EXCEPT ![k] = "broken"]
  /\ UNCHANGED <<connVars, reader, nextID, pending, callVars, wireVars, closer>>

-----------------------------------------------------------------------------
(* readLoop.  Frames that arrived before the peer went away are still read.  *)

\* deliverResponse: the channel is looked up by the id in the frame.
Deliver(c) ==
  /\ c \in replies
  /\ reader[on[c]] = "reading"
  /\ sock[on[c]] # "closed"
  /\ replies' = replies \ {c}
  /\ pending' = [pending EXCEPT ![id[c]] = {}]
  /\ inbox' = [w \in Calls |-> IF w \in pending[id[c]] THEN ResponseTo(c)
                               ELSE inbox[w]]
  /\ UNCHANGED <<connVars, sock, reader, nextID, call, on, id, requests, closer>>

\* Mutants: a read timeout ends the loop of a healthy socket; the pending
\* calls are not failed.
ReadFailsOnTimeout(k) ==
  /\ reader[k] = "reading"
  /\ inbox' = [w \in Calls |-> IF \E i \in IDs : w \in pending[i] THEN Failure
                               ELSE inbox[w]]
  /\ pending' = [i \in IDs |-> {}]
  /\ reader' = [reader EXCEPT ![k] = "exiting"]
  /\ UNCHANGED <<connVars, sock, nextID, call, on, id, wireVars, closer>>

ReadFailsSilently(k) ==
  /\ reader[k] = "reading"
  /\ sock[k] # "up"
  /\ reader' = [reader EXCEPT ![k] = "exiting"]
  /\ UNCHANGED <<connVars, sock, nextID, pending, callVars, wireVars, closer>>

\* ReadMessage fails: cancelAllPending takes and fails the whole map, whatever
\* connection its entries belong to.
ReadFails(k) ==
  /\ reader[k] = "reading"
  /\ sock[k] # "up"
  /\ inbox' = [w \in Calls |-> IF \E i \in IDs : w \in pending[i] THEN Failure
                               ELSE inbox[w]]
  /\ pending' = [i \in IDs |-> {}]
  /\ reader' = [reader EXCEPT ![k] = "exiting"]
  /\ UNCHANGED <<connVars, sock, nextID, call, on, id, wireVars, closer>>

\* Mutants: the exit drops whatever is current; it drops nothing.
ReaderExitsDropsAny(k) ==
  /\ reader[k] = "exiting"
  /\ conn' = 0
  /\ reader' = [reader EXCEPT ![k] = "exited"]
  /\ UNCHANGED <<dialled, lastDone, sock, nextID, pending, callVars, wireVars, closer>>

ReaderExitsKeepsConn(k) ==
  /\ reader[k] = "exiting"
  /\ reader' = [reader EXCEPT ![k] = "exited"]
  /\ UNCHANGED <<connVars, sock, nextID, pending, callVars, wireVars, closer>>

\* The deferred clearConnIfSame and close(done).
ReaderExits(k) ==
  /\ reader[k] = "exiting"
  /\ conn' = IF conn = k THEN 0 ELSE conn
  /\ reader' = [reader EXCEPT ![k] = "exited"]
  /\ UNCHANGED <<dialled, lastDone, sock, nextID, pending, callVars, wireVars, closer>>

-----------------------------------------------------------------------------
(* Close.                                                                    *)

CloseConn ==
  /\ closer.step = "idle"
  /\ Cardinality(Actors) < MaxActors
  /\ closer' = IF conn = 0 THEN [closer EXCEPT !.step = "done"]
               ELSE [step |-> "waiting", done |-> lastDone]
  /\ sock' = IF conn = 0 THEN sock ELSE [sock EXCEPT ![conn] = "closed"]
  /\ UNCHANGED <<connVars, reader, nextID, pending, callVars, wireVars>>

CloseReturns ==
  /\ closer.step = "waiting"
  /\ IF closer.done = 0 THEN TRUE ELSE reader[closer.done] = "exited"
  /\ closer' = [closer EXCEPT !.step = "done"]
  /\ conn' = 0
  /\ UNCHANGED <<dialled, lastDone, sock, reader, nextID, pending, callVars, wireVars>>

-----------------------------------------------------------------------------
CallStep(c) ==
  \/ EnsureConnected(c) \/ DialFails(c) \/ HandshakeFails(c) \/ Connect(c)
  \/ TakeConn(c) \/ TakeID(c) \/ RegisterCall(c)
  \/ WriteSucceeds(c) \/ WriteFails(c) \/ Return(c)

ReaderStep(k) == ReadFails(k) \/ ReaderExits(k)

Next ==
  \/ \E c \in Calls : CallStep(c) \/ Cancel(c) \/ Reply(c) \/ Deliver(c)
  \/ \E k \in Sockets : ReaderStep(k) \/ Break(k)
  \/ CloseConn \/ CloseReturns

Spec == Init /\ [][Next]_vars

(* Goroutines run, the peer of a healthy socket answers and its frames       *)
(* arrive.  Nothing is assumed of contexts: the controller reconciles under  *)
(* context.Background().                                                     *)
FairSpec ==
  /\ Spec
  /\ \A c \in Calls : WF_vars(CallStep(c)) /\ WF_vars(Reply(c)) /\ WF_vars(Deliver(c))
  /\ \A k \in Sockets : WF_vars(ReaderStep(k))
-----------------------------------------------------------------------------
(* A registered channel belongs to the live call with that id and is empty:  *)
(* readLoop, which sends to it from deliverResponse and cancelAllPending,    *)
(* never blocks on a slow, cancelled or repeated call.                       *)
ReaderNeverBlocks ==
  \A i \in IDs : \A c \in pending[i] :
    id[c] = i /\ call[c] \in {"registered", "waiting"} /\ inbox[c] = Empty

(* A healthy current connection is never dropped: clearConnIfSame keeps the  *)
(* late exit of an old readLoop, and a late write failure on an old socket,  *)
(* away from the connection that replaced it.  Close is the exception: it    *)
(* sets c.conn to nil whatever it is by then.                                *)
HealthyConnKept ==
  [][conn # 0 /\ conn' = 0 => sock[conn] # "up" \/ closer' # closer]_vars

(* ensureWS "self-heals": a dead socket that was handshaken stops being      *)
(* current, so that the next call dials again.                               *)
DeadConnDropped ==
  \A k \in Sockets :
    conn = k /\ sock[k] # "up" /\ reader[k] # "none" ~> conn # k

(* As long as there has been one socket, what a call receives is its own: the *)
(* response to its request, or a read error once that socket is gone.  After *)
(* a reconnect it may not be, since ids start again and cancelAllPending     *)
(* takes the calls of every socket.                                          *)
OwnAnswerOnOneSocket ==
  dialled <= 1 =>
    \A c \in Calls :
      \/ inbox[c] \in {Empty, ResponseTo(c)}
      \/ inbox[c] = Failure /\ sock[on[c]] # "up"

(* A call that is pending while the readLoop of its socket reads gets an     *)
(* answer, the response or the read error, unless a second socket is dialled. *)
(* The calls are alike, so it is stated for one.                             *)
PendingIsAnswered ==
  LET c == CHOOSE x \in Calls : TRUE
  IN call[c] = "waiting" /\ c \in pending[id[c]] /\ reader[on[c]] = "reading"
       ~> call[c] \in {"returned", "failed"} \/ dialled > 1

(* "Call sends an RPC request and waits for the matching response": a call   *)
(* that waits returns, with the response to its own request or an error.     *)
CallAnswered ==
  \A c \in Calls :
    call[c] = "waiting" ~>
      call[c] = "failed" \/ (call[c] = "returned" /\ inbox[c] = ResponseTo(c))

-----------------------------------------------------------------------------
(* The inductive invariant behind the three safety properties.               *)

\* Sockets are numbered in the order they are dialled, and a readLoop only
\* leaves a socket that is gone.
SocketInv ==
  /\ conn <= dialled
  /\ \A k \in Sockets :
       /\ dialled < k => sock[k] = "none" /\ reader[k] = "none"
       /\ reader[k] = "exiting" => sock[k] # "up"

\* What a call has, and what it cannot have been sent yet, by where it is.
CallInv ==
  \A c \in Calls :
    /\ call[c] \in {"start", "connected", "got"} => id[c] = 0
    /\ call[c] \in {"start", "connected", "got", "numbered"} => inbox[c] = Empty
    /\ call[c] \in {"got", "numbered", "registered", "waiting"} => on[c] \in 1..dialled
    /\ call[c] \in {"numbered", "registered", "waiting"} => id[c] \in IDs
    /\ c \in requests \cup replies => id[c] \in IDs

\* Until a second socket is dialled no two calls have the same id.
OneSocketInv ==
  /\ dialled = 0 =>
       \A c \in Calls :
         call[c] \in {"start", "failed"} /\ id[c] = 0 /\ inbox[c] = Empty
  /\ dialled <= 1 =>
       /\ \A c \in Calls : id[c] <= nextID
       /\ \A c, d \in Calls : id[c] = id[d] /\ id[c] # 0 => c = d

IInv ==
  TypeOK /\ SocketInv /\ CallInv /\ OneSocketInv /\ ReaderNeverBlocks
    /\ OwnAnswerOnOneSocket
=============================================================================
