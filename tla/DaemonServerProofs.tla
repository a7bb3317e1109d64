------------------------- MODULE DaemonServerProofs -------------------------
(***************************************************************************)
(* Proofs about DaemonServer for every set of connections, whatever the    *)
(* clients send, and whatever of Cancel, Close and failing Accepts the     *)
(* owner allows.  Two facts carry them: a goroutine holds a connection     *)
(* exactly while it is about to pass it on (HandOver), and the listener is *)
(* closed by Close, after the flag, or by a Run that selects no more       *)
(* (ClosedForAReason).  With them every step is a step of ServerRole or    *)
(* none.                                                                   *)
(***************************************************************************)
EXTENDS DaemonServer, FiniteSetTheorems, TLAPS

(* The listener, the flags, the clock and the buffered error keep their    *)
(* types.                                                                  *)
LEMMA ChannelsPreserved ==
    ASSUME TypeOK, [Next]_vars
    PROVE  ChannelTypes'
<1> USE DEF TypeOK, ChannelTypes
<1>1. CASE UNCHANGED <<idleTimeout, listener, closed, closer, canceled, age,
                       connChClosed, errCh>>
  BY <1>1
<1>2. CASE Elapse
  <2>1. age' \in 0..Timeout
    BY <1>2 DEF Elapse, Timeout
  <2> QED
    BY <1>2, <2>1 DEF Elapse
<1>3. CASE Cancel
  BY <1>3 DEF Cancel
<1>4. CASE MarkClosed
  BY <1>4 DEF MarkClosed
<1>5. CASE CloseListener
  BY <1>5 DEF CloseListener
<1>6. CASE AcceptorEnds
  <2>1. errCh' \in Errors /\ connChClosed' \in BOOLEAN
    BY <1>6 DEF AcceptorEnds
  <2> QED
    BY <1>6, <2>1 DEF AcceptorEnds
<1>7. CASE Serve
  BY <1>7 DEF Serve, Timeout
<1>8. CASE ReturnError
  BY <1>8 DEF ReturnError, Return, Errors
<1>9. CASE Cleanup
  BY <1>9 DEF Cleanup
<1> QED
  BY <1>1, <1>2, <1>3, <1>4, <1>5, <1>6, <1>7, <1>8, <1>9
     DEF Next, RunStep, vars, Connect, GoAway, Reset, Accept, Handle,
         WatcherTick, WatcherCanceled, AcceptFails, Receive, ReturnCanceled,
         ReturnIdle, ReturnClosed, Exit, Return

(* The goroutines and the connections keep their types: what Run serves is  *)
(* a connection, since it serves exactly while it has picked one.           *)
LEMMA GoroutinesPreserved ==
    ASSUME TypeOK, HandOver, [Next]_vars
    PROVE  GoroutineTypes'
<1> USE NoneAssumption DEF TypeOK, ChannelTypes, GoroutineTypes, HandOver,
       Errors
<1>1. CASE UNCHANGED <<watcher, acceptor, held, run, picked, cause, conn,
                       gone>>
  BY <1>1
<1>2. ASSUME NEW k \in Conns, Connect(k)
      PROVE  GoroutineTypes'
  BY <1>2 DEF Connect
<1>3. ASSUME NEW k \in Conns, GoAway(k)
      PROVE  GoroutineTypes'
  BY <1>3 DEF GoAway
<1>4. ASSUME NEW k \in Conns, Reset(k)
      PROVE  GoroutineTypes'
  BY <1>4 DEF Reset
<1>5. ASSUME NEW k \in Conns, Accept(k)
      PROVE  GoroutineTypes'
  BY <1>5 DEF Accept
<1>6. ASSUME NEW k \in Conns, Handle(k)
      PROVE  GoroutineTypes'
  BY <1>6 DEF Handle
<1>7. CASE WatcherTick
  BY <1>7 DEF WatcherTick
<1>8. CASE WatcherCanceled
  BY <1>8 DEF WatcherCanceled
<1>9. CASE AcceptFails
  BY <1>9 DEF AcceptFails
<1>10. CASE AcceptorEnds
  BY <1>10 DEF AcceptorEnds
<1>11. CASE Receive
  BY <1>11 DEF Receive
<1>12. CASE Serve
  BY <1>12 DEF Serve
<1>13. CASE ReturnCanceled
  BY <1>13 DEF ReturnCanceled, Return
<1>14. CASE ReturnIdle
  BY <1>14 DEF ReturnIdle, Return
<1>15. CASE ReturnError
  BY <1>15 DEF ReturnError, Return
<1>16. CASE ReturnClosed
  BY <1>16 DEF ReturnClosed, Return
<1>17. CASE Cleanup
  BY <1>17 DEF Cleanup
<1>18. CASE Exit
  BY <1>18 DEF Exit
<1> QED
  BY <1>1, <1>2, <1>3, <1>4, <1>5, <1>6, <1>7, <1>8, <1>9, <1>10, <1>11,
     <1>12, <1>13, <1>14, <1>15, <1>16, <1>17, <1>18
     DEF Next, RunStep, vars, Elapse, Cancel, MarkClosed, CloseListener

(* Receive passes a connection from the acceptor to Run and Serve from Run  *)
(* to a handler; nothing else touches one that is held.                     *)
LEMMA HandOverPreserved ==
    ASSUME TypeOK, HandOver, [Next]_vars
    PROVE  HandOver'
<1> USE NoneAssumption DEF TypeOK, GoroutineTypes, HandOver, Errors
<1>1. CASE UNCHANGED <<acceptor, held, run, picked, conn>>
  BY <1>1
<1>2. ASSUME NEW k \in Conns, Connect(k)
      PROVE  HandOver'
  BY <1>2 DEF Connect
<1>3. ASSUME NEW k \in Conns, Reset(k)
      PROVE  HandOver'
  BY <1>3 DEF Reset
<1>4. ASSUME NEW k \in Conns, Accept(k)
      PROVE  HandOver'
  BY <1>4 DEF Accept
<1>5. ASSUME NEW k \in Conns, Handle(k)
      PROVE  HandOver'
  BY <1>5 DEF Handle
<1>6. CASE AcceptFails
  BY <1>6 DEF AcceptFails
<1>7. CASE AcceptorEnds
  BY <1>7 DEF AcceptorEnds
<1>8. CASE Receive
  BY <1>8 DEF Receive
<1>9. CASE Serve
  BY <1>9 DEF Serve
<1>10. CASE ReturnCanceled
  BY <1>10 DEF ReturnCanceled, Return
<1>11. CASE ReturnIdle
  BY <1>11 DEF ReturnIdle, Return
<1>12. CASE ReturnError
  BY <1>12 DEF ReturnError, Return
<1>13. CASE ReturnClosed
  BY <1>13 DEF ReturnClosed, Return
<1>14. CASE Cleanup
  BY <1>14 DEF Cleanup
<1>15. CASE Exit
  BY <1>15 DEF Exit
<1> QED
  BY <1>1, <1>2, <1>3, <1>4, <1>5, <1>6, <1>7, <1>8, <1>9, <1>10, <1>11,
     <1>12, <1>13, <1>14, <1>15
     DEF Next, RunStep, vars, GoAway, Elapse, Cancel, MarkClosed,
         CloseListener, WatcherTick, WatcherCanceled

(* Close raises the flag before it closes the listener, so the acceptor     *)
(* takes the error for a failure only if the cleanup closed it, and then    *)
(* Run has left its select for good.                                        *)
LEMMA ClosedPreserved ==
    ASSUME TypeOK, ClosedForAReason, [Next]_vars
    PROVE  ClosedForAReason'
<1> USE DEF TypeOK, ChannelTypes, GoroutineTypes, ClosedForAReason, Stopped,
       Errors
<1>1. CASE UNCHANGED <<listener, closed, closer, acceptor, errCh, run>>
  BY <1>1
<1>2. CASE MarkClosed
  BY <1>2 DEF MarkClosed
<1>3. CASE CloseListener
  BY <1>3 DEF CloseListener
<1>4. CASE AcceptFails
  BY <1>4 DEF AcceptFails
<1>5. CASE AcceptorEnds
  BY <1>5 DEF AcceptorEnds
<1>6. ASSUME NEW k \in Conns, Accept(k)
      PROVE  ClosedForAReason'
  BY <1>6 DEF Accept
<1>7. CASE Receive
  BY <1>7 DEF Receive
<1>8. CASE Serve
  BY <1>8 DEF Serve
<1>9. CASE ReturnCanceled
  BY <1>9 DEF ReturnCanceled, Return
<1>10. CASE ReturnIdle
  BY <1>10 DEF ReturnIdle, Return
<1>11. CASE ReturnError
  BY <1>11 DEF ReturnError, Return
<1>12. CASE ReturnClosed
  BY <1>12 DEF ReturnClosed, Return
<1>13. CASE Cleanup
  BY <1>13 DEF Cleanup
<1>14. CASE Exit
  BY <1>14 DEF Exit
<1> QED
  BY <1>1, <1>2, <1>3, <1>4, <1>5, <1>6, <1>7, <1>8, <1>9, <1>10, <1>11,
     <1>12, <1>13, <1>14
     DEF Next, RunStep, vars, Connect, GoAway, Reset, Handle, Elapse,
         Cancel, WatcherTick, WatcherCanceled

(* Run returns an error only from errCh, and only out of its select.        *)
LEMMA CleanPreserved ==
    ASSUME ClosedForAReason, CleanShutdown, [Next]_vars
    PROVE  CleanShutdown'
<1> USE DEF ClosedForAReason, CleanShutdown, Stopped
<1>1. CASE UNCHANGED <<cause>>
  BY <1>1
<1>2. CASE ReturnCanceled
  BY <1>2 DEF ReturnCanceled, Return
<1>3. CASE ReturnIdle
  BY <1>3 DEF ReturnIdle, Return
<1>4. CASE ReturnError
  BY <1>4 DEF ReturnError, Return
<1>5. CASE ReturnClosed
  BY <1>5 DEF ReturnClosed, Return
<1> QED
  BY <1>1, <1>2, <1>3, <1>4, <1>5
     DEF Next, RunStep, vars, Connect, GoAway, Reset, Accept, Handle,
         Elapse, Cancel, MarkClosed, CloseListener, WatcherTick,
         WatcherCanceled, AcceptFails, AcceptorEnds, Receive, Serve,
         Cleanup, Exit

-----------------------------------------------------------------------------
(* The initial state, the invariant, and what follows from it.             *)

LEMMA InitInvariant == Init => IInv
<1> SUFFICES ASSUME Init PROVE IInv
  OBVIOUS
<1>1. ChannelTypes
  <2>1. age \in 0..Timeout /\ idleTimeout \in {0, Timeout} /\ errCh \in Errors
    BY DEF Init, Errors, Timeout
  <2> QED
    BY <2>1 DEF Init, ChannelTypes
<1>2. GoroutineTypes
  BY DEF Init, GoroutineTypes, Errors, Timeout
<1>3. HandOver
  BY NoneAssumption DEF Init, HandOver
<1>4. ClosedForAReason /\ CleanShutdown
  BY DEF Init, ClosedForAReason, CleanShutdown, Stopped
<1> QED
  BY <1>1, <1>2, <1>3, <1>4 DEF IInv, TypeOK

(* IInv holds in every reachable state: TypeOK needs HandOver, and          *)
(* CleanShutdown needs ClosedForAReason.                                    *)
THEOREM ServerInvariant == Spec => []IInv
<1>1. IInv /\ [Next]_vars => IInv'
  BY ChannelsPreserved, GoroutinesPreserved, HandOverPreserved, ClosedPreserved,
     CleanPreserved DEF IInv, TypeOK
<1> QED
  BY <1>1, InitInvariant, PTL DEF Spec

(* The variables keep their types.                                         *)
THEOREM TypeCorrect == Spec => []TypeOK
<1>1. IInv => TypeOK
  BY DEF IInv
<1> QED
  BY <1>1, ServerInvariant, PTL

(* Run never reports the error that its own shutdown, or Close, provokes    *)
(* in Accept.                                                               *)
THEOREM ShutdownIsClean == Spec => []CleanShutdown
<1>1. IInv => CleanShutdown
  BY DEF IInv
<1> QED
  BY <1>1, ServerInvariant, PTL

(* Between Accept and its handler a connection is with exactly one of the   *)
(* acceptor and Run, however many connections are opened.                   *)
THEOREM ConnectionsHaveOneHolder == Spec => []OneHolder
<1>1. IInv => OneHolder
  BY NoneAssumption DEF IInv, HandOver, OneHolder
<1> QED
  BY <1>1, ServerInvariant, PTL

(* When Run has returned, at most the connection in the acceptor's hands    *)
(* was accepted in vain: Run has handed its own to a handler.               *)
THEOREM FewAreStranded == Spec => []AtMostOneStranded
<1>1. IInv => AtMostOneStranded
  <2> SUFFICES ASSUME IInv, Stopped
               PROVE  Cardinality({k \in Conns : conn[k] = "held"}) <= 1
    BY DEF AtMostOneStranded
  <2> DEFINE Stranded == {k \in Conns : conn[k] = "held"}
  <2>1. picked = None
    BY DEF IInv, HandOver, Stopped
  <2>2. Stranded \subseteq {held}
    BY <2>1, NoneAssumption DEF IInv, HandOver
  <2>3. IsFiniteSet({held}) /\ Cardinality({held}) = 1
    BY FS_Singleton
  <2>4. Cardinality(Stranded) <= Cardinality({held})
    BY <2>2, <2>3, FS_Subset
  <2> QED
    BY <2>3, <2>4
<1> QED
  BY <1>1, ServerInvariant, PTL

-----------------------------------------------------------------------------
(* DaemonServer implements ServerRole.                                     *)

Seen == [k \in Conns |-> SeenAs(conn[k])]

LEMMA RoleInit == Init => Role!Init
  BY DEF Init, Role!Init, SeenAs

(* A step of one connection is a step of one connection to the role.       *)
LEMMA SeenMove ==
    ASSUME GoroutineTypes, NEW k \in Conns, NEW s, conn' = [conn EXCEPT ![k] = s]
    PROVE  Seen' = [Seen EXCEPT ![k] = SeenAs(s)]
  BY DEF Seen, GoroutineTypes

(* Step by step: what the role does not see is a stutter, and what it sees *)
(* is a move the role may make, because the invariant says that a returned *)
(* Run has closed the listener and that Run serves a connection it holds.  *)
LEMMA StepRefines ==
    ASSUME IInv, [Next]_vars
    PROVE  [Role!Next]_(Role!vars)
<1> DEFINE Goal == [Role!Next]_(Role!vars)
<1> USE DEF Role!vars, Role!Next
<1>1. CASE UNCHANGED <<listener, run, conn>>
  BY <1>1
<1>2. ASSUME NEW k \in Conns, Connect(k)
      PROVE  Goal
  <2>1. Role!Connect(k)
    BY <1>2, SeenMove DEF Connect, Role!Connect, Role!Move, SeenAs, Seen, IInv, TypeOK
  <2> QED
    BY <2>1
<1>3. ASSUME NEW k \in Conns, Reset(k)
      PROVE  Goal
  <2>1. Seen' = [Seen EXCEPT ![k] = "lost"]
    BY <1>3, SeenMove DEF Reset, SeenAs, IInv, TypeOK
  <2>2. CASE conn[k] = "queued" /\ listener = "closed"
    <3>1. Role!Lose(k)
      BY <1>3, <2>1, <2>2 DEF Reset, Role!Lose, Role!Move, Seen, SeenAs
    <3> QED
      BY <3>1
  <2>3. CASE conn[k] = "held" /\ run = "exited"
    <3>1. listener = "closed"
      BY <2>3 DEF IInv, ClosedForAReason, Stopped
    <3>2. Role!Lose(k)
      BY <1>3, <2>1, <2>3, <3>1 DEF Reset, Role!Lose, Role!Move, Seen, SeenAs
    <3> QED
      BY <3>2
  <2>4. CASE conn[k] = "handled" /\ run = "exited"
    <3>1. Role!Lose(k)
      BY <1>3, <2>1, <2>4 DEF Reset, Role!Lose, Role!Move, Seen, SeenAs
    <3> QED
      BY <3>1
  <2> QED
    BY <1>3, <2>2, <2>3, <2>4 DEF Reset
<1>4. ASSUME NEW k \in Conns, Accept(k)
      PROVE  Goal
  <2>1. Seen' = Seen
    BY <1>4, SeenMove DEF Accept, SeenAs, Seen, IInv, TypeOK, GoroutineTypes
  <2> QED
    BY <1>4, <2>1 DEF Seen, Accept
<1>5. ASSUME NEW k \in Conns, Handle(k)
      PROVE  Goal
  <2>1. Seen' = [Seen EXCEPT ![k] = "answered"]
    BY <1>5, SeenMove DEF Handle, SeenAs, IInv, TypeOK
  <2>2. Role!Answer(k)
    BY <1>5, <2>1 DEF Handle, Role!Answer, Role!Move, Seen, SeenAs
  <2> QED
    BY <2>2
<1>6. CASE CloseListener
  <2>1. CASE listener = "open"
    <3>1. Role!Unlisten
      BY <1>6, <2>1 DEF CloseListener, Role!Unlisten
    <3> QED
      BY <3>1
  <2>2. CASE listener = "closed"
    BY <1>6, <2>2 DEF CloseListener
  <2> QED
    BY <2>1, <2>2 DEF IInv, TypeOK, ChannelTypes
<1>7. CASE Receive
  BY <1>7 DEF Receive
<1>8. CASE Serve
  <2>1. picked \in Conns /\ conn[picked] = "held"
    BY <1>8 DEF Serve, IInv, TypeOK, GoroutineTypes, HandOver
  <2>2. Seen' = [Seen EXCEPT ![picked] = "handled"]
    BY <1>8, <2>1, SeenMove DEF Serve, SeenAs, IInv, TypeOK
  <2>3. Role!PickUp(picked)
    BY <1>8, <2>1, <2>2 DEF Serve, Role!PickUp, Role!Move, Seen, SeenAs
  <2> QED
    BY <2>1, <2>3
<1>9. ASSUME NEW why, Return(why)
      PROVE  Goal
  <2>1. Role!Return
    BY <1>9 DEF Return, Role!Return
  <2> QED
    BY <2>1
<1>10. CASE Cleanup
  <2>1. CASE listener = "open"
    <3>1. Role!Unlisten
      BY <1>10, <2>1 DEF Cleanup, Role!Unlisten
    <3> QED
      BY <3>1
  <2>2. CASE listener = "closed"
    BY <1>10, <2>2 DEF Cleanup
  <2> QED
    BY <2>1, <2>2 DEF IInv, TypeOK, ChannelTypes
<1>11. CASE Exit
  <2>1. listener = "closed"
    BY <1>11 DEF Exit, IInv, ClosedForAReason, Stopped
  <2>2. Role!Exit
    BY <1>11, <2>1 DEF Exit, Role!Exit
  <2> QED
    BY <2>2
<1> QED
  BY <1>1, <1>2, <1>3, <1>4, <1>5, <1>6, <1>7, <1>8, <1>9, <1>10, <1>11
     DEF Next, RunStep, vars, ReturnCanceled, ReturnIdle, ReturnError,
         ReturnClosed, Return, GoAway, Elapse, Cancel, MarkClosed,
         WatcherTick, WatcherCanceled, AcceptFails, AcceptorEnds

(* To its clients the server, with all its goroutines and channels, behaves *)
(* like a ServerRole: it loses no connection the role does not allow to be  *)
(* lost.                                                                   *)
THEOREM ServerImplementsRole == Spec => ImplementsRole
<1>1. IInv /\ [Next]_vars => [Role!Next]_(Role!vars)
  BY StepRefines
<1> QED
  BY <1>1, RoleInit, ServerInvariant, PTL DEF Spec, ImplementsRole, Role!Spec
=============================================================================
