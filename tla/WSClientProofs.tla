---------------------------- MODULE WSClientProofs ----------------------------
(***************************************************************************)
(* Proofs of the safety properties of the WebSocket client for any set of  *)
(* calls and any bounds on sockets and request ids.  ReaderNeverBlocks     *)
(* rests on CallInv (a call that is not registered yet has an empty        *)
(* channel), OwnAnswerOnOneSocket also on OneSocketInv (no id is used      *)
(* twice before a reconnect), HealthyConnKept on SocketInv.                *)
(***************************************************************************)
EXTENDS WSClient, TLAPS

(* Every step keeps the types. *)
LEMMA TypeStep == TypeOK /\ [Next]_vars => TypeOK'
<1> SUFFICES ASSUME TypeOK, [Next]_vars
             PROVE  TypeOK'
  OBVIOUS
<1> USE WSAssumption DEF ToConnect, connVars, callVars, wireVars
<1>1. ASSUME NEW c \in Calls, EnsureConnected(c)
      PROVE  TypeOK'
  BY <1>1 DEF EnsureConnected, TypeOK, CallSteps
<1>2. ASSUME NEW c \in Calls, DialFails(c)
      PROVE  TypeOK'
  BY <1>2 DEF DialFails, TypeOK, CallSteps
<1>3. ASSUME NEW c \in Calls, HandshakeFails(c)
      PROVE  TypeOK'
  BY <1>3 DEF HandshakeFails, TypeOK, Sockets, CallSteps
<1>4. ASSUME NEW c \in Calls, Connect(c)
      PROVE  TypeOK'
  BY <1>4 DEF Connect, TypeOK, Sockets, CallSteps
<1>5. ASSUME NEW c \in Calls, TakeConn(c)
      PROVE  TypeOK'
  BY <1>5 DEF TakeConn, TypeOK, CallSteps
<1>6. ASSUME NEW c \in Calls, TakeID(c)
      PROVE  TypeOK'
  BY <1>6 DEF TakeID, TypeOK, CallSteps
<1>7. ASSUME NEW c \in Calls, RegisterCall(c)
      PROVE  TypeOK'
  BY <1>7 DEF RegisterCall, TypeOK, CallSteps
<1>8. ASSUME NEW c \in Calls, WriteSucceeds(c)
      PROVE  TypeOK'
  BY <1>8 DEF WriteSucceeds, TypeOK, CallSteps
<1>9. ASSUME NEW c \in Calls, WriteFails(c)
      PROVE  TypeOK'
  <2>1. conn' \in 0..MaxConns
    BY <1>9 DEF WriteFails, TypeOK
  <2>2. pending' \in [IDs -> SUBSET Calls] /\ call' \in [Calls -> CallSteps]
    BY <1>9 DEF WriteFails, TypeOK, CallSteps
  <2>3. QED
    BY <1>9, <2>1, <2>2 DEF WriteFails, TypeOK
<1>10. ASSUME NEW c \in Calls, Return(c)
      PROVE  TypeOK'
  BY <1>10 DEF Return, TypeOK, CallSteps
<1>11. ASSUME NEW c \in Calls, Cancel(c)
      PROVE  TypeOK'
  BY <1>11 DEF Cancel, TypeOK, CallSteps
<1>12. ASSUME NEW c \in Calls, Reply(c)
      PROVE  TypeOK'
  BY <1>12 DEF Reply, TypeOK
<1>13. ASSUME NEW c \in Calls, Deliver(c)
      PROVE  TypeOK'
  BY <1>13 DEF Deliver, TypeOK, Frame, ResponseTo
<1>14. ASSUME NEW k \in Sockets, ReadFails(k)
      PROVE  TypeOK'
  BY <1>14 DEF ReadFails, TypeOK, Frame, Failure
<1>15. ASSUME NEW k \in Sockets, ReaderExits(k)
      PROVE  TypeOK'
  BY <1>15 DEF ReaderExits, TypeOK
<1>16. ASSUME NEW k \in Sockets, Break(k)
      PROVE  TypeOK'
  BY <1>16 DEF Break, TypeOK
<1>17. CASE CloseConn
  BY <1>17 DEF CloseConn, TypeOK
<1>18. CASE CloseReturns
  <2>1. closer' \in [step : {"idle", "waiting", "done"}, done : 0..MaxConns]
    BY <1>18 DEF CloseReturns, TypeOK
  <2>2. conn' \in 0..MaxConns
    BY <1>18 DEF CloseReturns
  <2>3. QED
    BY <1>18, <2>1, <2>2 DEF CloseReturns, TypeOK
<1>19. CASE UNCHANGED vars
  BY <1>19 DEF vars, TypeOK
<1>20. QED
  BY <1>1, <1>2, <1>3, <1>4, <1>5, <1>6, <1>7, <1>8, <1>9, <1>10, <1>11, <1>12,
     <1>13, <1>14, <1>15, <1>16, <1>17, <1>18, <1>19 DEF Next, CallStep,
     ReaderStep

(* A socket is dialled with the next number, and readLoop leaves it only once
   it is gone. *)
LEMMA SocketStep == TypeOK /\ SocketInv /\ [Next]_vars => SocketInv'
<1> SUFFICES ASSUME TypeOK, SocketInv, [Next]_vars
             PROVE  SocketInv'
  OBVIOUS
<1> USE WSAssumption DEF ToConnect, connVars, callVars, wireVars
<1>1. ASSUME UNCHANGED <<conn, dialled, sock, reader>>
      PROVE  SocketInv'
  BY <1>1 DEF SocketInv
<1>2. ASSUME NEW c \in Calls, HandshakeFails(c)
      PROVE  SocketInv'
  BY <1>2 DEF HandshakeFails, TypeOK, SocketInv, Sockets
<1>3. ASSUME NEW c \in Calls, Connect(c)
      PROVE  SocketInv'
  BY <1>3 DEF Connect, TypeOK, SocketInv, Sockets
<1>4. ASSUME NEW c \in Calls, WriteFails(c)
      PROVE  SocketInv'
  BY <1>4 DEF WriteFails, TypeOK, SocketInv
<1>5. ASSUME NEW k \in Sockets, ReadFails(k)
      PROVE  SocketInv'
  BY <1>5 DEF ReadFails, SocketInv
<1>6. ASSUME NEW k \in Sockets, ReaderExits(k)
      PROVE  SocketInv'
  BY <1>6 DEF ReaderExits, TypeOK, SocketInv
<1>7. ASSUME NEW k \in Sockets, Break(k)
      PROVE  SocketInv'
  BY <1>7 DEF Break, SocketInv
<1>8. CASE CloseConn
  BY <1>8 DEF CloseConn, TypeOK, SocketInv
<1>9. CASE CloseReturns
  BY <1>9 DEF CloseReturns, TypeOK, SocketInv
<1>10. QED
  BY <1>1, <1>2, <1>3, <1>4, <1>5, <1>6, <1>7, <1>8, <1>9 DEF Next, CallStep,
     ReaderStep, vars, EnsureConnected, DialFails, TakeConn, TakeID,
     RegisterCall, WriteSucceeds, Return, Cancel, Reply, Deliver

(* Every step keeps what a call has, and has not, by where it is. *)
LEMMA CallInvStep ==
  TypeOK /\ SocketInv /\ ReaderNeverBlocks /\ CallInv /\ [Next]_vars => CallInv'
<1> SUFFICES ASSUME TypeOK, SocketInv, ReaderNeverBlocks, CallInv, [Next]_vars
             PROVE  CallInv'
  OBVIOUS
<1> USE WSAssumption DEF ToConnect, connVars, callVars, wireVars
<1>1. ASSUME UNCHANGED <<dialled, call, on, id, inbox, requests, replies>>
      PROVE  CallInv'
  BY <1>1 DEF CallInv
<1>2. ASSUME NEW c \in Calls, EnsureConnected(c)
      PROVE  CallInv'
  BY <1>2 DEF EnsureConnected, CallInv
<1>3. ASSUME NEW c \in Calls, DialFails(c)
      PROVE  CallInv'
  BY <1>3 DEF DialFails, CallInv
<1>4. ASSUME NEW c \in Calls, HandshakeFails(c)
      PROVE  CallInv'
  BY <1>4 DEF HandshakeFails, TypeOK, CallInv
<1>5. ASSUME NEW c \in Calls, Connect(c)
      PROVE  CallInv'
  BY <1>5 DEF Connect, TypeOK, CallInv
<1>6. ASSUME NEW c \in Calls, TakeConn(c)
      PROVE  CallInv'
  BY <1>6 DEF TakeConn, TypeOK, SocketInv, CallInv
<1>7. ASSUME NEW c \in Calls, TakeID(c)
      PROVE  CallInv'
  BY <1>7 DEF TakeID, TypeOK, CallInv, IDs
<1>8. ASSUME NEW c \in Calls, RegisterCall(c)
      PROVE  CallInv'
  BY <1>8 DEF RegisterCall, CallInv
<1>9. ASSUME NEW c \in Calls, WriteSucceeds(c)
      PROVE  CallInv'
  BY <1>9 DEF WriteSucceeds, CallInv
<1>10. ASSUME NEW c \in Calls, WriteFails(c)
      PROVE  CallInv'
  BY <1>10 DEF WriteFails, CallInv
<1>11. ASSUME NEW c \in Calls, Return(c)
      PROVE  CallInv'
  BY <1>11 DEF Return, CallInv
<1>12. ASSUME NEW c \in Calls, Cancel(c)
      PROVE  CallInv'
  BY <1>12 DEF Cancel, CallInv
<1>13. ASSUME NEW c \in Calls, Reply(c)
      PROVE  CallInv'
  BY <1>13 DEF Reply, CallInv
<1>14. ASSUME NEW c \in Calls, Deliver(c)
      PROVE  CallInv'
  BY <1>14 DEF Deliver, CallInv, ReaderNeverBlocks
<1>15. ASSUME NEW k \in Sockets, ReadFails(k)
      PROVE  CallInv'
  BY <1>15 DEF ReadFails, CallInv, ReaderNeverBlocks
<1>16. QED
  BY <1>1, <1>2, <1>3, <1>4, <1>5, <1>6, <1>7, <1>8, <1>9, <1>10, <1>11, <1>12,
     <1>13, <1>14, <1>15 DEF Next, CallStep, ReaderStep, vars, ReaderExits,
     Break, CloseConn, CloseReturns

(* Every step keeps the pending map on live calls with empty channels. *)
LEMMA PendingStep ==
  TypeOK /\ CallInv /\ ReaderNeverBlocks /\ [Next]_vars => ReaderNeverBlocks'
<1> SUFFICES ASSUME TypeOK, CallInv, ReaderNeverBlocks, [Next]_vars
             PROVE  ReaderNeverBlocks'
  OBVIOUS
<1> USE WSAssumption DEF ToConnect, connVars, callVars, wireVars
<1>1. ASSUME UNCHANGED <<pending, call, id, inbox>>
      PROVE  ReaderNeverBlocks'
  BY <1>1 DEF ReaderNeverBlocks
<1>2. ASSUME NEW c \in Calls, EnsureConnected(c)
      PROVE  ReaderNeverBlocks'
  BY <1>2 DEF EnsureConnected, ReaderNeverBlocks
<1>3. ASSUME NEW c \in Calls, DialFails(c)
      PROVE  ReaderNeverBlocks'
  BY <1>3 DEF DialFails, ReaderNeverBlocks
<1>4. ASSUME NEW c \in Calls, HandshakeFails(c)
      PROVE  ReaderNeverBlocks'
  BY <1>4 DEF HandshakeFails, ReaderNeverBlocks
<1>5. ASSUME NEW c \in Calls, Connect(c)
      PROVE  ReaderNeverBlocks'
  BY <1>5 DEF Connect, ReaderNeverBlocks
<1>6. ASSUME NEW c \in Calls, TakeConn(c)
      PROVE  ReaderNeverBlocks'
  BY <1>6 DEF TakeConn, ReaderNeverBlocks
<1>7. ASSUME NEW c \in Calls, TakeID(c)
      PROVE  ReaderNeverBlocks'
  BY <1>7 DEF TakeID, ReaderNeverBlocks
<1>8. ASSUME NEW c \in Calls, RegisterCall(c)
      PROVE  ReaderNeverBlocks'
  BY <1>8 DEF RegisterCall, TypeOK, CallInv, ReaderNeverBlocks
<1>9. ASSUME NEW c \in Calls, WriteSucceeds(c)
      PROVE  ReaderNeverBlocks'
  BY <1>9 DEF WriteSucceeds, ReaderNeverBlocks
<1>10. ASSUME NEW c \in Calls, WriteFails(c)
      PROVE  ReaderNeverBlocks'
  BY <1>10 DEF WriteFails, TypeOK, ReaderNeverBlocks
<1>11. ASSUME NEW c \in Calls, Return(c)
      PROVE  ReaderNeverBlocks'
  BY <1>11 DEF Return, ReaderNeverBlocks
<1>12. ASSUME NEW c \in Calls, Cancel(c)
      PROVE  ReaderNeverBlocks'
  BY <1>12 DEF Cancel, TypeOK, ReaderNeverBlocks
<1>13. ASSUME NEW c \in Calls, Deliver(c)
      PROVE  ReaderNeverBlocks'
  BY <1>13 DEF Deliver, TypeOK, CallInv, ReaderNeverBlocks
<1>14. ASSUME NEW k \in Sockets, ReadFails(k)
      PROVE  ReaderNeverBlocks'
  BY <1>14 DEF ReadFails, ReaderNeverBlocks
<1>15. QED
  BY <1>1, <1>2, <1>3, <1>4, <1>5, <1>6, <1>7, <1>8, <1>9, <1>10, <1>11, <1>12,
     <1>13, <1>14 DEF Next, CallStep, ReaderStep, vars, Reply, ReaderExits,
     Break, CloseConn, CloseReturns

(* Ids of the first socket stay apart: only Connect starts them again. *)
LEMMA OneSocketStep ==
  TypeOK /\ SocketInv /\ CallInv /\ ReaderNeverBlocks /\ OneSocketInv
    /\ [Next]_vars => OneSocketInv'
<1> SUFFICES ASSUME TypeOK, SocketInv, CallInv, ReaderNeverBlocks,
                    OneSocketInv, [Next]_vars
             PROVE  OneSocketInv'
  OBVIOUS
<1> USE WSAssumption DEF ToConnect, connVars, callVars, wireVars
<1>1. ASSUME UNCHANGED <<dialled, nextID, call, id, inbox>>
      PROVE  OneSocketInv'
  BY <1>1 DEF OneSocketInv
<1>2. ASSUME NEW c \in Calls, EnsureConnected(c)
      PROVE  OneSocketInv'
  BY <1>2 DEF EnsureConnected, TypeOK, SocketInv, OneSocketInv
<1>3. ASSUME NEW c \in Calls, DialFails(c)
      PROVE  OneSocketInv'
  BY <1>3 DEF DialFails, OneSocketInv
<1>4. ASSUME NEW c \in Calls, HandshakeFails(c)
      PROVE  OneSocketInv'
  BY <1>4 DEF HandshakeFails, TypeOK, OneSocketInv
<1>5. ASSUME NEW c \in Calls, Connect(c)
      PROVE  OneSocketInv'
  BY <1>5 DEF Connect, TypeOK, OneSocketInv
<1>6. ASSUME NEW c \in Calls, TakeConn(c)
      PROVE  OneSocketInv'
  BY <1>6 DEF TakeConn, OneSocketInv
<1>7. ASSUME NEW c \in Calls, TakeID(c)
      PROVE  OneSocketInv'
  BY <1>7 DEF TakeID, TypeOK, OneSocketInv
<1>8. ASSUME NEW c \in Calls, RegisterCall(c)
      PROVE  OneSocketInv'
  BY <1>8 DEF RegisterCall, OneSocketInv
<1>9. ASSUME NEW c \in Calls, WriteSucceeds(c)
      PROVE  OneSocketInv'
  BY <1>9 DEF WriteSucceeds, OneSocketInv
<1>10. ASSUME NEW c \in Calls, WriteFails(c)
      PROVE  OneSocketInv'
  BY <1>10 DEF WriteFails, OneSocketInv
<1>11. ASSUME NEW c \in Calls, Return(c)
      PROVE  OneSocketInv'
  BY <1>11 DEF Return, OneSocketInv
<1>12. ASSUME NEW c \in Calls, Cancel(c)
      PROVE  OneSocketInv'
  BY <1>12 DEF Cancel, OneSocketInv
<1>13. ASSUME NEW c \in Calls, Deliver(c)
      PROVE  OneSocketInv'
  BY <1>13 DEF Deliver, CallInv, OneSocketInv, ReaderNeverBlocks
<1>14. ASSUME NEW k \in Sockets, ReadFails(k)
      PROVE  OneSocketInv'
  BY <1>14 DEF ReadFails, OneSocketInv, ReaderNeverBlocks
<1>15. QED
  BY <1>1, <1>2, <1>3, <1>4, <1>5, <1>6, <1>7, <1>8, <1>9, <1>10, <1>11, <1>12,
     <1>13, <1>14 DEF Next, CallStep, ReaderStep, vars, Reply, ReaderExits,
     Break, CloseConn, CloseReturns

(* A channel of the first socket gets the call's own response, or the failure
   of a socket that is gone. *)
LEMMA OwnAnswerStep == IInv /\ [Next]_vars => OwnAnswerOnOneSocket'
<1> SUFFICES ASSUME IInv, [Next]_vars
             PROVE  OwnAnswerOnOneSocket'
  OBVIOUS
<1> USE WSAssumption DEF ToConnect, connVars, callVars, wireVars
<1>1. ASSUME UNCHANGED <<dialled, sock, on, inbox>>
      PROVE  OwnAnswerOnOneSocket'
  BY <1>1 DEF IInv, OwnAnswerOnOneSocket
<1>2. ASSUME NEW c \in Calls, HandshakeFails(c)
      PROVE  OwnAnswerOnOneSocket'
  BY <1>2 DEF HandshakeFails, IInv, TypeOK, OwnAnswerOnOneSocket
<1>3. ASSUME NEW c \in Calls, Connect(c)
      PROVE  OwnAnswerOnOneSocket'
  BY <1>3 DEF Connect, IInv, TypeOK, OneSocketInv, OwnAnswerOnOneSocket,
     Failure
<1>4. ASSUME NEW c \in Calls, TakeConn(c)
      PROVE  OwnAnswerOnOneSocket'
  BY <1>4 DEF TakeConn, IInv, CallInv, OwnAnswerOnOneSocket, Failure
<1>5. ASSUME NEW c \in Calls, Deliver(c)
      PROVE  OwnAnswerOnOneSocket'
  <2> SUFFICES ASSUME dialled <= 1, NEW w \in Calls, inbox'[w] # inbox[w]
               PROVE  inbox'[w] = ResponseTo(w)
    BY <1>5 DEF Deliver, IInv, OwnAnswerOnOneSocket
  <2>1. w \in pending[id[c]] /\ inbox'[w] = ResponseTo(c)
    BY <1>5 DEF Deliver
  <2>2. id[c] \in IDs /\ id[w] = id[c]
    BY <1>5, <2>1 DEF Deliver, IInv, CallInv, ReaderNeverBlocks
  <2>3. w = c
    BY <2>2 DEF IInv, OneSocketInv, IDs
  <2>4. QED
    BY <2>1, <2>3
<1>6. ASSUME NEW k \in Sockets, ReadFails(k)
      PROVE  OwnAnswerOnOneSocket'
  <2> SUFFICES ASSUME dialled <= 1, NEW w \in Calls, inbox'[w] # inbox[w]
               PROVE  inbox'[w] = Failure /\ sock'[on'[w]] # "up"
    BY <1>6 DEF ReadFails, IInv, OwnAnswerOnOneSocket
  <2>1. k = 1
    BY <1>6 DEF ReadFails, IInv, TypeOK, SocketInv, Sockets
  <2>2. inbox'[w] = Failure /\ \E i \in IDs : w \in pending[i]
    BY <1>6 DEF ReadFails
  <2>3. on[w] = 1
    BY <2>2 DEF IInv, TypeOK, CallInv, ReaderNeverBlocks, CallSteps
  <2>4. QED
    BY <1>6, <2>1, <2>2, <2>3 DEF ReadFails
<1>7. ASSUME NEW k \in Sockets, Break(k)
      PROVE  OwnAnswerOnOneSocket'
  BY <1>7 DEF Break, IInv, OwnAnswerOnOneSocket
<1>8. CASE CloseConn
  BY <1>8 DEF CloseConn, IInv, OwnAnswerOnOneSocket
<1>9. QED
  BY <1>1, <1>2, <1>3, <1>4, <1>5, <1>6, <1>7, <1>8 DEF Next, CallStep,
     ReaderStep, vars, EnsureConnected, DialFails, TakeID, RegisterCall,
     WriteSucceeds, WriteFails, Return, Cancel, Reply, ReaderExits,
     CloseReturns

(* The client keeps its inductive invariant: types, sockets numbered as they
   are dialled, what each call holds, ids apart on the first socket. *)
THEOREM WSClientInvariant == Spec => []IInv
<1>1. Init => IInv
  BY WSAssumption DEF Init, IInv, TypeOK, SocketInv, CallInv, OneSocketInv,
     ReaderNeverBlocks, OwnAnswerOnOneSocket, CallSteps, Frame, Empty
<1>2. IInv /\ [Next]_vars => IInv'
  BY TypeStep, SocketStep, CallInvStep, PendingStep, OneSocketStep,
     OwnAnswerStep DEF IInv
<1>3. QED
  BY <1>1, <1>2, PTL DEF Spec

(* Every variable of the client keeps its type; request ids stay in range. *)
THEOREM WSClientTypes == Spec => []TypeOK
<1>1. IInv => TypeOK
  BY DEF IInv
<1>2. QED
  BY <1>1, WSClientInvariant, PTL

(* deliverResponse and cancelAllPending send to the channels of the pending
   map without a default case: the channel always belongs to a live call with
   that id and is empty, whatever was cancelled, failed or reconnected. *)
THEOREM ReadLoopNeverBlocks == Spec => []ReaderNeverBlocks
<1>1. IInv => ReaderNeverBlocks
  BY DEF IInv
<1>2. QED
  BY <1>1, WSClientInvariant, PTL

(* Before the first reconnect, Call returns the response to its own request,
   or a read error of a socket that is really gone. *)
THEOREM AnswersAreOwn == Spec => []OwnAnswerOnOneSocket
<1>1. IInv => OwnAnswerOnOneSocket
  BY DEF IInv
<1>2. QED
  BY <1>1, WSClientInvariant, PTL

(* clearConnIfSame, called by a late readLoop exit or a late write failure,
   never drops a healthy current socket; only Close does. *)
THEOREM HealthyConnIsKept == Spec => HealthyConnKept
<1> DEFINE Kept ==
      conn # 0 /\ conn' = 0 => sock[conn] # "up" \/ closer' # closer
<1>1. IInv /\ [Next]_vars => [Kept]_vars
  <2> SUFFICES ASSUME IInv, Next, conn # 0, conn' = 0
               PROVE  sock[conn] # "up" \/ closer' # closer
    OBVIOUS
  <2> USE DEF ToConnect, connVars, callVars, wireVars
  <2>1. ASSUME NEW c \in Calls,
               CallStep(c) \/ Cancel(c) \/ Reply(c) \/ Deliver(c)
        PROVE  sock[conn] # "up"
    BY <2>1 DEF CallStep, EnsureConnected, DialFails, HandshakeFails, Connect,
       TakeConn, TakeID, RegisterCall, WriteSucceeds, WriteFails, Return,
       Cancel, Reply, Deliver
  <2>2. ASSUME NEW k \in Sockets, ReaderStep(k) \/ Break(k)
        PROVE  sock[conn] # "up"
    BY <2>2 DEF IInv, SocketInv, ReaderStep, ReadFails, ReaderExits, Break
  <2>3. CASE CloseConn
    BY <2>3 DEF CloseConn
  <2>4. CASE CloseReturns
    BY <2>4 DEF CloseReturns, IInv, TypeOK
  <2>5. QED
    BY <2>1, <2>2, <2>3, <2>4 DEF Next
<1>2. QED
  BY <1>1, WSClientInvariant, PTL DEF Spec, HealthyConnKept
=============================================================================
