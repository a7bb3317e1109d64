------------------------ MODULE DaemonElectionProofs ------------------------
(***************************************************************************)
(* Proofs about DaemonElection for every set of CLI processes and every    *)
(* choice of faults.  The argument: the flock serialises the part of       *)
(* EnsureRunning from the second probe to the return (LockDiscipline); as  *)
(* long as nobody dies or times out in there, a daemon that starts up is   *)
(* awaited by the lock holder (StartersAreAwaited), so nobody else comes   *)
(* to serve at the path while a client looks there (HolderSees).  As long  *)
(* as no daemon shuts down either, a client whose second probe fails knows *)
(* that nothing lives and nothing is on its way (HolderKnows), because a   *)
(* live daemon is always the one the socket path names                     *)
(* (LiveSocketsAreNamed).  If daemons crash and nothing else happens, a    *)
(* Ping fails only because one did (CrashesAreSurvived).  Each part of     *)
(* IInv has a lemma: the cases are the actions that change a variable the  *)
(* part mentions.                                                          *)
(***************************************************************************)
EXTENDS DaemonElection, TLAPS

(* Every step keeps the variables in their types; a probe that ends needs to
   know that only a probe holds a connection. *)
LEMMA TypePreserved ==
    ASSUME TypeOK, PeersHaveListened, [Next]_vars
    PROVE  TypeOK'
<1> USE NoneAssumption DEF TypeOK, ClientPC, DaemonPC, Probing, Critical,
   Finished, Starting, Leaving, Attempts, Stages, PeersHaveListened, Child,
   Daemons, FaultKinds
<1>1. CASE UNCHANGED <<path, lock, pidfile, pc, attempt, peer, stage, dpc, happened>>
  BY <1>1
<1>2. ASSUME NEW c \in Clients, Dial(c)
      PROVE  TypeOK'
  BY <1>2 DEF Dial, Listening
<1>3. ASSUME NEW c \in Clients, DialRefused(c)
      PROVE  TypeOK'
  BY <1>3 DEF DialRefused, ProbeFailed, HangUp, AfterFailure, Listening
<1>4. ASSUME NEW c \in Clients, ReadAnswer(c)
      PROVE  TypeOK'
  BY <1>4 DEF ReadAnswer, ProbeAnswered, HangUp, AfterAnswer, Released
<1>5. ASSUME NEW c \in Clients, ConnectionLost(c)
      PROVE  TypeOK'
  BY <1>5 DEF ConnectionLost, ProbeFailed, HangUp, AfterFailure
<1>6. ASSUME NEW c \in Clients, Acquire(c)
      PROVE  TypeOK'
  BY <1>6 DEF Acquire
<1>7. ASSUME NEW c \in Clients, Clear(c)
      PROVE  TypeOK'
  BY <1>7 DEF Clear
<1>8. ASSUME NEW c \in Clients, Spawn(c)
      PROVE  TypeOK'
  BY <1>8 DEF Spawn
<1>9. ASSUME NEW c \in Clients, Record(c)
      PROVE  TypeOK'
  BY <1>9 DEF Record
<1>10. ASSUME NEW c \in Clients, PickUp(c)
       PROVE  TypeOK'
  BY <1>10 DEF PickUp
<1>11. ASSUME NEW c \in Clients, Answer(c)
       PROVE  TypeOK'
  BY <1>11 DEF Answer
<1>12. ASSUME NEW c \in Clients, TimeOut(c)
       PROVE  TypeOK'
  BY <1>12 DEF TimeOut, ProbeFailed, HangUp, AfterFailure
<1>13. ASSUME NEW c \in Clients, GiveUp(c)
       PROVE  TypeOK'
  BY <1>13 DEF GiveUp, Released, Pending
<1>14. ASSUME NEW c \in Clients, Abort(c)
       PROVE  TypeOK'
  BY <1>14 DEF Abort, Released
<1>15. ASSUME NEW c \in Clients, Kill(c)
       PROVE  TypeOK'
  BY <1>15 DEF Kill, Released, HangUp
<1>16. ASSUME NEW d \in Daemons, ClearPath(d)
       PROVE  TypeOK'
  BY <1>16 DEF ClearPath
<1>17. ASSUME NEW d \in Daemons, Bind(d)
       PROVE  TypeOK'
  BY <1>17 DEF Bind
<1>18. ASSUME NEW d \in Daemons, Listen(d)
       PROVE  TypeOK'
  BY <1>18 DEF Listen
<1>19. ASSUME NEW d \in Daemons, IdleFires(d)
       PROVE  TypeOK'
  BY <1>19 DEF IdleFires
<1>20. ASSUME NEW d \in Daemons, CloseUnlinks(d)
       PROVE  TypeOK'
  BY <1>20 DEF CloseUnlinks
<1>21. ASSUME NEW d \in Daemons, CloseDescriptor(d)
       PROVE  TypeOK'
  BY <1>21 DEF CloseDescriptor
<1>22. ASSUME NEW d \in Daemons, RemoveAndExit(d)
       PROVE  TypeOK'
  BY <1>22 DEF RemoveAndExit
<1>23. ASSUME NEW d \in Daemons, Crash(d)
       PROVE  TypeOK'
  BY <1>23 DEF Crash
<1> QED
  BY <1>1, <1>2, <1>3, <1>4, <1>5, <1>6, <1>7, <1>8, <1>9, <1>10, <1>11,
     <1>12, <1>13, <1>14, <1>15, <1>16, <1>17, <1>18, <1>19, <1>20, <1>21,
     <1>22, <1>23 DEF Next, ClientStep, DaemonStep, vars

(* A client connects to sockets somebody listens on, and a daemon that has
   listened never starts again. *)
LEMMA PeersPreserved ==
    ASSUME TypeOK, PeersHaveListened, SpawnsAreFresh, [Next]_vars
    PROVE  PeersHaveListened'
<1> USE NoneAssumption DEF TypeOK, ClientPC, DaemonPC, Probing, Critical,
   Finished, Starting, Leaving, Attempts, Stages, PeersHaveListened,
   SpawnsAreFresh, Child, Daemons
<1>1. CASE UNCHANGED <<pc, peer, dpc>>
  BY <1>1
<1>2. ASSUME NEW c \in Clients, Dial(c)
      PROVE  PeersHaveListened'
  BY <1>2 DEF Dial, Listening
<1>3. ASSUME NEW c \in Clients, DialRefused(c)
      PROVE  PeersHaveListened'
  BY <1>3 DEF DialRefused, ProbeFailed, HangUp, AfterFailure, Listening
<1>4. ASSUME NEW c \in Clients, ReadAnswer(c)
      PROVE  PeersHaveListened'
  BY <1>4 DEF ReadAnswer, ProbeAnswered, HangUp, AfterAnswer, Released
<1>5. ASSUME NEW c \in Clients, ConnectionLost(c)
      PROVE  PeersHaveListened'
  BY <1>5 DEF ConnectionLost, ProbeFailed, HangUp, AfterFailure
<1>6. ASSUME NEW c \in Clients, Acquire(c)
      PROVE  PeersHaveListened'
  BY <1>6 DEF Acquire
<1>7. ASSUME NEW c \in Clients, Clear(c)
      PROVE  PeersHaveListened'
  BY <1>7 DEF Clear
<1>8. ASSUME NEW c \in Clients, Spawn(c)
      PROVE  PeersHaveListened'
  BY <1>8 DEF Spawn
<1>9. ASSUME NEW c \in Clients, Record(c)
      PROVE  PeersHaveListened'
  BY <1>9 DEF Record
<1>10. ASSUME NEW c \in Clients, TimeOut(c)
       PROVE  PeersHaveListened'
  BY <1>10 DEF TimeOut, ProbeFailed, HangUp, AfterFailure
<1>11. ASSUME NEW c \in Clients, GiveUp(c)
       PROVE  PeersHaveListened'
  BY <1>11 DEF GiveUp, Released, Pending
<1>12. ASSUME NEW c \in Clients, Abort(c)
       PROVE  PeersHaveListened'
  BY <1>12 DEF Abort, Released
<1>13. ASSUME NEW c \in Clients, Kill(c)
       PROVE  PeersHaveListened'
  BY <1>13 DEF Kill, Released, HangUp
<1>14. ASSUME NEW d \in Daemons, ClearPath(d)
       PROVE  PeersHaveListened'
  BY <1>14 DEF ClearPath
<1>15. ASSUME NEW d \in Daemons, Bind(d)
       PROVE  PeersHaveListened'
  BY <1>15 DEF Bind
<1>16. ASSUME NEW d \in Daemons, Listen(d)
       PROVE  PeersHaveListened'
  BY <1>16 DEF Listen
<1>17. ASSUME NEW d \in Daemons, IdleFires(d)
       PROVE  PeersHaveListened'
  BY <1>17 DEF IdleFires
<1>18. ASSUME NEW d \in Daemons, CloseUnlinks(d)
       PROVE  PeersHaveListened'
  BY <1>18 DEF CloseUnlinks
<1>19. ASSUME NEW d \in Daemons, CloseDescriptor(d)
       PROVE  PeersHaveListened'
  BY <1>19 DEF CloseDescriptor
<1>20. ASSUME NEW d \in Daemons, RemoveAndExit(d)
       PROVE  PeersHaveListened'
  BY <1>20 DEF RemoveAndExit
<1>21. ASSUME NEW d \in Daemons, Crash(d)
       PROVE  PeersHaveListened'
  BY <1>21 DEF Crash
<1> QED
  BY <1>1, <1>2, <1>3, <1>4, <1>5, <1>6, <1>7, <1>8, <1>9, <1>10, <1>11,
     <1>12, <1>13, <1>14, <1>15, <1>16, <1>17, <1>18, <1>19, <1>20, <1>21
     DEF Next, ClientStep, DaemonStep, vars, PickUp, Answer

(* cmd.Start makes a process that did not exist. *)
LEMMA FreshPreserved ==
    ASSUME TypeOK, PeersHaveListened, SpawnsAreFresh, [Next]_vars
    PROVE  SpawnsAreFresh'
<1> USE NoneAssumption DEF TypeOK, ClientPC, DaemonPC, Probing, Critical,
   Finished, Starting, Leaving, Attempts, Stages, PeersHaveListened,
   SpawnsAreFresh, Child, Daemons
<1>1. CASE UNCHANGED <<pc, attempt, dpc>>
  BY <1>1
<1>2. ASSUME NEW c \in Clients, DialRefused(c)
      PROVE  SpawnsAreFresh'
  BY <1>2 DEF DialRefused, ProbeFailed, HangUp, AfterFailure, Listening
<1>3. ASSUME NEW c \in Clients, ReadAnswer(c)
      PROVE  SpawnsAreFresh'
  BY <1>3 DEF ReadAnswer, ProbeAnswered, HangUp, AfterAnswer, Released
<1>4. ASSUME NEW c \in Clients, ConnectionLost(c)
      PROVE  SpawnsAreFresh'
  BY <1>4 DEF ConnectionLost, ProbeFailed, HangUp, AfterFailure
<1>5. ASSUME NEW c \in Clients, Acquire(c)
      PROVE  SpawnsAreFresh'
  BY <1>5 DEF Acquire
<1>6. ASSUME NEW c \in Clients, Clear(c)
      PROVE  SpawnsAreFresh'
  BY <1>6 DEF Clear
<1>7. ASSUME NEW c \in Clients, Spawn(c)
      PROVE  SpawnsAreFresh'
  BY <1>7 DEF Spawn
<1>8. ASSUME NEW c \in Clients, Record(c)
      PROVE  SpawnsAreFresh'
  BY <1>8 DEF Record
<1>9. ASSUME NEW c \in Clients, TimeOut(c)
      PROVE  SpawnsAreFresh'
  BY <1>9 DEF TimeOut, ProbeFailed, HangUp, AfterFailure
<1>10. ASSUME NEW c \in Clients, GiveUp(c)
       PROVE  SpawnsAreFresh'
  BY <1>10 DEF GiveUp, Released, Pending
<1>11. ASSUME NEW c \in Clients, Abort(c)
       PROVE  SpawnsAreFresh'
  BY <1>11 DEF Abort, Released
<1>12. ASSUME NEW c \in Clients, Kill(c)
       PROVE  SpawnsAreFresh'
  BY <1>12 DEF Kill, Released, HangUp
<1>13. ASSUME NEW d \in Daemons, ClearPath(d)
       PROVE  SpawnsAreFresh'
  BY <1>13 DEF ClearPath
<1>14. ASSUME NEW d \in Daemons, Bind(d)
       PROVE  SpawnsAreFresh'
  BY <1>14 DEF Bind
<1>15. ASSUME NEW d \in Daemons, Listen(d)
       PROVE  SpawnsAreFresh'
  BY <1>15 DEF Listen
<1>16. ASSUME NEW d \in Daemons, IdleFires(d)
       PROVE  SpawnsAreFresh'
  BY <1>16 DEF IdleFires
<1>17. ASSUME NEW d \in Daemons, CloseUnlinks(d)
       PROVE  SpawnsAreFresh'
  BY <1>17 DEF CloseUnlinks
<1>18. ASSUME NEW d \in Daemons, CloseDescriptor(d)
       PROVE  SpawnsAreFresh'
  BY <1>18 DEF CloseDescriptor
<1>19. ASSUME NEW d \in Daemons, RemoveAndExit(d)
       PROVE  SpawnsAreFresh'
  BY <1>19 DEF RemoveAndExit
<1>20. ASSUME NEW d \in Daemons, Crash(d)
       PROVE  SpawnsAreFresh'
  BY <1>20 DEF Crash
<1> QED
  BY <1>1, <1>2, <1>3, <1>4, <1>5, <1>6, <1>7, <1>8, <1>9, <1>10, <1>11,
     <1>12, <1>13, <1>14, <1>15, <1>16, <1>17, <1>18, <1>19, <1>20 DEF Next,
     ClientStep, DaemonStep, vars, Dial, PickUp, Answer

(* flockExclusive is where a client enters the critical section and the
   deferred unflock (or the kernel) is where it leaves it. *)
LEMMA LockPreserved ==
    ASSUME HasFlock, TypeOK, LockDiscipline, PeersHaveListened, [Next]_vars
    PROVE  LockDiscipline'
<1> USE NoneAssumption DEF TypeOK, ClientPC, DaemonPC, Probing, Critical,
   Finished, Starting, Leaving, Attempts, Stages, LockDiscipline,
   PeersHaveListened
<1>1. CASE UNCHANGED <<lock, pc>>
  BY <1>1
<1>2. ASSUME NEW c \in Clients, DialRefused(c)
      PROVE  LockDiscipline'
  BY <1>2 DEF DialRefused, ProbeFailed, HangUp, AfterFailure, Listening
<1>3. ASSUME NEW c \in Clients, ReadAnswer(c)
      PROVE  LockDiscipline'
  BY <1>3 DEF ReadAnswer, ProbeAnswered, HangUp, AfterAnswer, Released
<1>4. ASSUME NEW c \in Clients, ConnectionLost(c)
      PROVE  LockDiscipline'
  BY <1>4 DEF ConnectionLost, ProbeFailed, HangUp, AfterFailure
<1>5. ASSUME NEW c \in Clients, Acquire(c)
      PROVE  LockDiscipline'
  BY <1>5 DEF Acquire
<1>6. ASSUME NEW c \in Clients, Clear(c)
      PROVE  LockDiscipline'
  BY <1>6 DEF Clear
<1>7. ASSUME NEW c \in Clients, Spawn(c)
      PROVE  LockDiscipline'
  BY <1>7 DEF Spawn
<1>8. ASSUME NEW c \in Clients, Record(c)
      PROVE  LockDiscipline'
  BY <1>8 DEF Record
<1>9. ASSUME NEW c \in Clients, TimeOut(c)
      PROVE  LockDiscipline'
  BY <1>9 DEF TimeOut, ProbeFailed, HangUp, AfterFailure
<1>10. ASSUME NEW c \in Clients, GiveUp(c)
       PROVE  LockDiscipline'
  BY <1>10 DEF GiveUp, Released, Pending
<1>11. ASSUME NEW c \in Clients, Abort(c)
       PROVE  LockDiscipline'
  BY <1>11 DEF Abort, Released
<1>12. ASSUME NEW c \in Clients, Kill(c)
       PROVE  LockDiscipline'
  BY <1>12 DEF Kill, Released, HangUp
<1> QED
  BY <1>1, <1>2, <1>3, <1>4, <1>5, <1>6, <1>7, <1>8, <1>9, <1>10, <1>11,
     <1>12 DEF Next, ClientStep, DaemonStep, vars, Dial, PickUp, Answer,
     ClearPath, Bind, Listen, IdleFires, CloseUnlinks, CloseDescriptor,
     RemoveAndExit, Crash

(* A spawner leaves the poll loop only with an answer, which is its child's,
   or with nothing starting up. *)
LEMMA AwaitedPreserved ==
    ASSUME TypeOK, LockDiscipline, PeersHaveListened, SpawnsAreFresh,
           StartersAreAwaited, PathIsTheSpawners, [Next]_vars
    PROVE  StartersAreAwaited'
<1> USE NoneAssumption DEF TypeOK, ClientPC, DaemonPC, Probing, Critical,
   Finished, Starting, Leaving, Attempts, Stages, LockDiscipline,
   PeersHaveListened, StartersAreAwaited, PathIsTheSpawners, Quiet, Awaited,
   Child, Daemons
<1>1. CASE UNCHANGED <<pc, attempt, dpc, happened>>
  BY <1>1
<1>2. ASSUME NEW c \in Clients, DialRefused(c)
      PROVE  StartersAreAwaited'
  BY <1>2 DEF DialRefused, ProbeFailed, HangUp, AfterFailure, Listening
<1>3. ASSUME NEW c \in Clients, ReadAnswer(c)
      PROVE  StartersAreAwaited'
  BY <1>3 DEF ReadAnswer, ProbeAnswered, HangUp, AfterAnswer, Released
<1>4. ASSUME NEW c \in Clients, ConnectionLost(c)
      PROVE  StartersAreAwaited'
  BY <1>4 DEF ConnectionLost, ProbeFailed, HangUp, AfterFailure
<1>5. ASSUME NEW c \in Clients, Acquire(c)
      PROVE  StartersAreAwaited'
  BY <1>5 DEF Acquire
<1>6. ASSUME NEW c \in Clients, Clear(c)
      PROVE  StartersAreAwaited'
  BY <1>6 DEF Clear
<1>7. ASSUME NEW c \in Clients, Spawn(c)
      PROVE  StartersAreAwaited'
  BY <1>7 DEF Spawn
<1>8. ASSUME NEW c \in Clients, Record(c)
      PROVE  StartersAreAwaited'
  BY <1>8 DEF Record
<1>9. ASSUME NEW c \in Clients, TimeOut(c)
      PROVE  StartersAreAwaited'
  BY <1>9 DEF TimeOut, ProbeFailed, HangUp, AfterFailure
<1>10. ASSUME NEW c \in Clients, GiveUp(c)
       PROVE  StartersAreAwaited'
  BY <1>10 DEF GiveUp, Released, Pending
<1>11. ASSUME NEW c \in Clients, Abort(c)
       PROVE  StartersAreAwaited'
  BY <1>11 DEF Abort, Released
<1>12. ASSUME NEW c \in Clients, Kill(c)
       PROVE  StartersAreAwaited'
  BY <1>12 DEF Kill, Released, HangUp
<1>13. ASSUME NEW d \in Daemons, ClearPath(d)
       PROVE  StartersAreAwaited'
  BY <1>13 DEF ClearPath
<1>14. ASSUME NEW d \in Daemons, Bind(d)
       PROVE  StartersAreAwaited'
  BY <1>14 DEF Bind
<1>15. ASSUME NEW d \in Daemons, Listen(d)
       PROVE  StartersAreAwaited'
  BY <1>15 DEF Listen
<1>16. ASSUME NEW d \in Daemons, IdleFires(d)
       PROVE  StartersAreAwaited'
  BY <1>16 DEF IdleFires
<1>17. ASSUME NEW d \in Daemons, CloseUnlinks(d)
       PROVE  StartersAreAwaited'
  BY <1>17 DEF CloseUnlinks
<1>18. ASSUME NEW d \in Daemons, CloseDescriptor(d)
       PROVE  StartersAreAwaited'
  BY <1>18 DEF CloseDescriptor
<1>19. ASSUME NEW d \in Daemons, RemoveAndExit(d)
       PROVE  StartersAreAwaited'
  BY <1>19 DEF RemoveAndExit
<1>20. ASSUME NEW d \in Daemons, Crash(d)
       PROVE  StartersAreAwaited'
  BY <1>20 DEF Crash
<1> QED
  BY <1>1, <1>2, <1>3, <1>4, <1>5, <1>6, <1>7, <1>8, <1>9, <1>10, <1>11,
     <1>12, <1>13, <1>14, <1>15, <1>16, <1>17, <1>18, <1>19, <1>20 DEF Next,
     ClientStep, DaemonStep, vars, Dial, PickUp, Answer

(* Under the lock nobody but the spawner's child binds the socket path. *)
LEMMA PathPreserved ==
    ASSUME TypeOK, LockDiscipline, PeersHaveListened, SpawnsAreFresh,
           StartersAreAwaited, PathIsTheSpawners, [Next]_vars
    PROVE  PathIsTheSpawners'
<1> USE NoneAssumption DEF TypeOK, ClientPC, DaemonPC, Probing, Critical,
   Finished, Starting, Leaving, Attempts, Stages, LockDiscipline,
   PeersHaveListened, SpawnsAreFresh, StartersAreAwaited, PathIsTheSpawners,
   Quiet, Awaited, Child, Daemons
<1>1. CASE UNCHANGED <<path, pc, attempt, peer, dpc, happened>>
  BY <1>1
<1>2. ASSUME NEW c \in Clients, Dial(c)
      PROVE  PathIsTheSpawners'
  BY <1>2 DEF Dial, Listening
<1>3. ASSUME NEW c \in Clients, DialRefused(c)
      PROVE  PathIsTheSpawners'
  BY <1>3 DEF DialRefused, ProbeFailed, HangUp, AfterFailure, Listening
<1>4. ASSUME NEW c \in Clients, ReadAnswer(c)
      PROVE  PathIsTheSpawners'
  BY <1>4 DEF ReadAnswer, ProbeAnswered, HangUp, AfterAnswer, Released
<1>5. ASSUME NEW c \in Clients, ConnectionLost(c)
      PROVE  PathIsTheSpawners'
  BY <1>5 DEF ConnectionLost, ProbeFailed, HangUp, AfterFailure
<1>6. ASSUME NEW c \in Clients, Acquire(c)
      PROVE  PathIsTheSpawners'
  BY <1>6 DEF Acquire
<1>7. ASSUME NEW c \in Clients, Clear(c)
      PROVE  PathIsTheSpawners'
  BY <1>7 DEF Clear
<1>8. ASSUME NEW c \in Clients, Spawn(c)
      PROVE  PathIsTheSpawners'
  BY <1>8 DEF Spawn
<1>9. ASSUME NEW c \in Clients, Record(c)
      PROVE  PathIsTheSpawners'
  BY <1>9 DEF Record
<1>10. ASSUME NEW c \in Clients, TimeOut(c)
       PROVE  PathIsTheSpawners'
  BY <1>10 DEF TimeOut, ProbeFailed, HangUp, AfterFailure
<1>11. ASSUME NEW c \in Clients, GiveUp(c)
       PROVE  PathIsTheSpawners'
  BY <1>11 DEF GiveUp, Released, Pending
<1>12. ASSUME NEW c \in Clients, Abort(c)
       PROVE  PathIsTheSpawners'
  BY <1>12 DEF Abort, Released
<1>13. ASSUME NEW c \in Clients, Kill(c)
       PROVE  PathIsTheSpawners'
  BY <1>13 DEF Kill, Released, HangUp
<1>14. ASSUME NEW d \in Daemons, ClearPath(d)
       PROVE  PathIsTheSpawners'
  BY <1>14 DEF ClearPath
<1>15. ASSUME NEW d \in Daemons, Bind(d)
       PROVE  PathIsTheSpawners'
  BY <1>15 DEF Bind
<1>16. ASSUME NEW d \in Daemons, Listen(d)
       PROVE  PathIsTheSpawners'
  BY <1>16 DEF Listen
<1>17. ASSUME NEW d \in Daemons, IdleFires(d)
       PROVE  PathIsTheSpawners'
  BY <1>17 DEF IdleFires
<1>18. ASSUME NEW d \in Daemons, CloseUnlinks(d)
       PROVE  PathIsTheSpawners'
  BY <1>18 DEF CloseUnlinks
<1>19. ASSUME NEW d \in Daemons, CloseDescriptor(d)
       PROVE  PathIsTheSpawners'
  BY <1>19 DEF CloseDescriptor
<1>20. ASSUME NEW d \in Daemons, RemoveAndExit(d)
       PROVE  PathIsTheSpawners'
  BY <1>20 DEF RemoveAndExit
<1>21. ASSUME NEW d \in Daemons, Crash(d)
       PROVE  PathIsTheSpawners'
  BY <1>21 DEF Crash
<1> QED
  BY <1>1, <1>2, <1>3, <1>4, <1>5, <1>6, <1>7, <1>8, <1>9, <1>10, <1>11,
     <1>12, <1>13, <1>14, <1>15, <1>16, <1>17, <1>18, <1>19, <1>20, <1>21
     DEF Next, ClientStep, DaemonStep, vars, PickUp, Answer

(* While a client looks under the lock, no daemon starts up, so the one that
   serves at the socket path stays the one its second probe reaches. *)
LEMMA SeesPreserved ==
    ASSUME TypeOK, LockDiscipline, PeersHaveListened, SpawnsAreFresh,
           StartersAreAwaited, HolderSees, [Next]_vars
    PROVE  HolderSees'
<1> USE NoneAssumption DEF TypeOK, ClientPC, DaemonPC, Probing, Critical,
   Finished, Starting, Leaving, Attempts, Stages, LockDiscipline,
   PeersHaveListened, StartersAreAwaited, HolderSees, Quiet, Awaited, Child,
   Daemons
<1>1. CASE UNCHANGED <<path, pc, attempt, peer, dpc, happened>>
  BY <1>1
<1>2. ASSUME NEW c \in Clients, Dial(c)
      PROVE  HolderSees'
  BY <1>2 DEF Dial, Listening
<1>3. ASSUME NEW c \in Clients, DialRefused(c)
      PROVE  HolderSees'
  BY <1>3 DEF DialRefused, ProbeFailed, HangUp, AfterFailure, Listening
<1>4. ASSUME NEW c \in Clients, ReadAnswer(c)
      PROVE  HolderSees'
  BY <1>4 DEF ReadAnswer, ProbeAnswered, HangUp, AfterAnswer, Released
<1>5. ASSUME NEW c \in Clients, ConnectionLost(c)
      PROVE  HolderSees'
  BY <1>5 DEF ConnectionLost, ProbeFailed, HangUp, AfterFailure
<1>6. ASSUME NEW c \in Clients, Acquire(c)
      PROVE  HolderSees'
  BY <1>6 DEF Acquire
<1>7. ASSUME NEW c \in Clients, Clear(c)
      PROVE  HolderSees'
  BY <1>7 DEF Clear
<1>8. ASSUME NEW c \in Clients, Spawn(c)
      PROVE  HolderSees'
  BY <1>8 DEF Spawn, SpawnsAreFresh
<1>9. ASSUME NEW c \in Clients, Record(c)
      PROVE  HolderSees'
  BY <1>9 DEF Record
<1>10. ASSUME NEW c \in Clients, TimeOut(c)
       PROVE  HolderSees'
  BY <1>10 DEF TimeOut, ProbeFailed, HangUp, AfterFailure
<1>11. ASSUME NEW c \in Clients, GiveUp(c)
       PROVE  HolderSees'
  BY <1>11 DEF GiveUp, Released, Pending
<1>12. ASSUME NEW c \in Clients, Abort(c)
       PROVE  HolderSees'
  BY <1>12 DEF Abort, Released
<1>13. ASSUME NEW c \in Clients, Kill(c)
       PROVE  HolderSees'
  BY <1>13 DEF Kill, Released, HangUp
<1>14. ASSUME NEW d \in Daemons, ClearPath(d)
       PROVE  HolderSees'
  BY <1>14 DEF ClearPath
<1>15. ASSUME NEW d \in Daemons, Bind(d)
       PROVE  HolderSees'
  BY <1>15 DEF Bind
<1>16. ASSUME NEW d \in Daemons, Listen(d)
       PROVE  HolderSees'
  BY <1>16 DEF Listen
<1>17. ASSUME NEW d \in Daemons, IdleFires(d)
       PROVE  HolderSees'
  BY <1>17 DEF IdleFires
<1>18. ASSUME NEW d \in Daemons, CloseUnlinks(d)
       PROVE  HolderSees'
  BY <1>18 DEF CloseUnlinks
<1>19. ASSUME NEW d \in Daemons, CloseDescriptor(d)
       PROVE  HolderSees'
  BY <1>19 DEF CloseDescriptor
<1>20. ASSUME NEW d \in Daemons, RemoveAndExit(d)
       PROVE  HolderSees'
  BY <1>20 DEF RemoveAndExit
<1>21. ASSUME NEW d \in Daemons, Crash(d)
       PROVE  HolderSees'
  BY <1>21 DEF Crash
<1> QED
  BY <1>1, <1>2, <1>3, <1>4, <1>5, <1>6, <1>7, <1>8, <1>9, <1>10, <1>11,
     <1>12, <1>13, <1>14, <1>15, <1>16, <1>17, <1>18, <1>19, <1>20, <1>21
     DEF Next, ClientStep, DaemonStep, vars, PickUp, Answer

(* Whoever removes the socket path knows that no other daemon has bound it:
   a client from its second probe, NewServer from being the only live daemon. *)
LEMMA NamedPreserved ==
    ASSUME TypeOK, LiveSocketsAreNamed, HolderKnows, OneLiveDaemon,
           [Next]_vars
    PROVE  LiveSocketsAreNamed'
<1> USE NoneAssumption DEF TypeOK, ClientPC, DaemonPC, Probing, Critical,
   Finished, Starting, Leaving, Attempts, Stages, LiveSocketsAreNamed,
   HolderKnows, OneLiveDaemon, Robust, Withstood, Live, Child, Daemons
<1>1. CASE UNCHANGED <<path, dpc, happened>>
  BY <1>1
<1>2. ASSUME NEW c \in Clients, Clear(c)
      PROVE  LiveSocketsAreNamed'
  BY <1>2 DEF Clear
<1>3. ASSUME NEW c \in Clients, Spawn(c)
      PROVE  LiveSocketsAreNamed'
  BY <1>3 DEF Spawn
<1>4. ASSUME NEW c \in Clients, TimeOut(c)
      PROVE  LiveSocketsAreNamed'
  BY <1>4 DEF TimeOut, ProbeFailed, HangUp, AfterFailure
<1>5. ASSUME NEW c \in Clients, GiveUp(c)
      PROVE  LiveSocketsAreNamed'
  BY <1>5 DEF GiveUp, Released, Pending
<1>6. ASSUME NEW c \in Clients, Abort(c)
      PROVE  LiveSocketsAreNamed'
  BY <1>6 DEF Abort, Released
<1>7. ASSUME NEW c \in Clients, Kill(c)
      PROVE  LiveSocketsAreNamed'
  BY <1>7 DEF Kill, Released, HangUp
<1>8. ASSUME NEW d \in Daemons, ClearPath(d)
      PROVE  LiveSocketsAreNamed'
  BY <1>8 DEF ClearPath
<1>9. ASSUME NEW d \in Daemons, Bind(d)
      PROVE  LiveSocketsAreNamed'
  BY <1>9 DEF Bind
<1>10. ASSUME NEW d \in Daemons, Listen(d)
       PROVE  LiveSocketsAreNamed'
  BY <1>10 DEF Listen
<1>11. ASSUME NEW d \in Daemons, IdleFires(d)
       PROVE  LiveSocketsAreNamed'
  BY <1>11 DEF IdleFires
<1>12. ASSUME NEW d \in Daemons, CloseUnlinks(d)
       PROVE  LiveSocketsAreNamed'
  BY <1>12 DEF CloseUnlinks
<1>13. ASSUME NEW d \in Daemons, CloseDescriptor(d)
       PROVE  LiveSocketsAreNamed'
  BY <1>13 DEF CloseDescriptor
<1>14. ASSUME NEW d \in Daemons, RemoveAndExit(d)
       PROVE  LiveSocketsAreNamed'
  BY <1>14 DEF RemoveAndExit
<1>15. ASSUME NEW d \in Daemons, Crash(d)
       PROVE  LiveSocketsAreNamed'
  BY <1>15 DEF Crash
<1> QED
  BY <1>1, <1>2, <1>3, <1>4, <1>5, <1>6, <1>7, <1>8, <1>9, <1>10, <1>11,
     <1>12, <1>13, <1>14, <1>15 DEF Next, ClientStep, DaemonStep, vars,
     Dial, DialRefused, ReadAnswer, ConnectionLost, Acquire, Record, PickUp,
     Answer

(* The second probe fails only when nothing lives; after it only the lock
   holder adds a daemon. *)
LEMMA KnowsPreserved ==
    ASSUME TypeOK, LockDiscipline, PeersHaveListened, StartersAreAwaited,
           LiveSocketsAreNamed, HolderKnows, OneLiveDaemon, [Next]_vars
    PROVE  HolderKnows'
<1> USE NoneAssumption DEF TypeOK, ClientPC, DaemonPC, Probing, Critical,
   Finished, Starting, Leaving, Attempts, Stages, PeersHaveListened,
   LockDiscipline, StartersAreAwaited, LiveSocketsAreNamed, HolderKnows,
   OneLiveDaemon, Quiet, Robust, Withstood, Live, Awaited, Child, Daemons
<1>1. CASE UNCHANGED <<pc, attempt, peer, dpc, happened>>
  BY <1>1
<1>2. ASSUME NEW c \in Clients, Dial(c)
      PROVE  HolderKnows'
  BY <1>2 DEF Dial, Listening
<1>3. ASSUME NEW c \in Clients, DialRefused(c)
      PROVE  HolderKnows'
  BY <1>3 DEF DialRefused, ProbeFailed, HangUp, AfterFailure, Listening
<1>4. ASSUME NEW c \in Clients, ReadAnswer(c)
      PROVE  HolderKnows'
  BY <1>4 DEF ReadAnswer, ProbeAnswered, HangUp, AfterAnswer, Released
<1>5. ASSUME NEW c \in Clients, ConnectionLost(c)
      PROVE  HolderKnows'
  BY <1>5 DEF ConnectionLost, ProbeFailed, HangUp, AfterFailure
<1>6. ASSUME NEW c \in Clients, Acquire(c)
      PROVE  HolderKnows'
  BY <1>6 DEF Acquire
<1>7. ASSUME NEW c \in Clients, Clear(c)
      PROVE  HolderKnows'
  BY <1>7 DEF Clear
<1>8. ASSUME NEW c \in Clients, Spawn(c)
      PROVE  HolderKnows'
  BY <1>8 DEF Spawn
<1>9. ASSUME NEW c \in Clients, Record(c)
      PROVE  HolderKnows'
  BY <1>9 DEF Record
<1>10. ASSUME NEW c \in Clients, TimeOut(c)
       PROVE  HolderKnows'
  BY <1>10 DEF TimeOut, ProbeFailed, HangUp, AfterFailure
<1>11. ASSUME NEW c \in Clients, GiveUp(c)
       PROVE  HolderKnows'
  BY <1>11 DEF GiveUp, Released, Pending
<1>12. ASSUME NEW c \in Clients, Abort(c)
       PROVE  HolderKnows'
  BY <1>12 DEF Abort, Released
<1>13. ASSUME NEW c \in Clients, Kill(c)
       PROVE  HolderKnows'
  BY <1>13 DEF Kill, Released, HangUp
<1>14. ASSUME NEW d \in Daemons, ClearPath(d)
       PROVE  HolderKnows'
  BY <1>14 DEF ClearPath
<1>15. ASSUME NEW d \in Daemons, Bind(d)
       PROVE  HolderKnows'
  BY <1>15 DEF Bind
<1>16. ASSUME NEW d \in Daemons, Listen(d)
       PROVE  HolderKnows'
  BY <1>16 DEF Listen
<1>17. ASSUME NEW d \in Daemons, IdleFires(d)
       PROVE  HolderKnows'
  BY <1>17 DEF IdleFires
<1>18. ASSUME NEW d \in Daemons, CloseUnlinks(d)
       PROVE  HolderKnows'
  BY <1>18 DEF CloseUnlinks
<1>19. ASSUME NEW d \in Daemons, CloseDescriptor(d)
       PROVE  HolderKnows'
  BY <1>19 DEF CloseDescriptor
<1>20. ASSUME NEW d \in Daemons, RemoveAndExit(d)
       PROVE  HolderKnows'
  BY <1>20 DEF RemoveAndExit
<1>21. ASSUME NEW d \in Daemons, Crash(d)
       PROVE  HolderKnows'
  BY <1>21 DEF Crash
<1> QED
  BY <1>1, <1>2, <1>3, <1>4, <1>5, <1>6, <1>7, <1>8, <1>9, <1>10, <1>11,
     <1>12, <1>13, <1>14, <1>15, <1>16, <1>17, <1>18, <1>19, <1>20, <1>21
     DEF Next, ClientStep, DaemonStep, vars, PickUp, Answer

(* The PID file is overwritten by the client whose child is the only live
   daemon. *)
LEMMA PidPreserved ==
    ASSUME TypeOK, PeersHaveListened, HolderKnows, PidIsRecorded,
           [Next]_vars
    PROVE  PidIsRecorded'
<1> USE NoneAssumption DEF TypeOK, ClientPC, DaemonPC, Probing, Critical,
   Finished, Starting, Leaving, Attempts, Stages, HolderKnows,
   PidIsRecorded, PeersHaveListened, Robust, Withstood, Live, Child, Daemons
<1>1. CASE UNCHANGED <<pidfile, pc, attempt, dpc, happened>>
  BY <1>1
<1>2. ASSUME NEW c \in Clients, DialRefused(c)
      PROVE  PidIsRecorded'
  BY <1>2 DEF DialRefused, ProbeFailed, HangUp, AfterFailure, Listening
<1>3. ASSUME NEW c \in Clients, ReadAnswer(c)
      PROVE  PidIsRecorded'
  BY <1>3 DEF ReadAnswer, ProbeAnswered, HangUp, AfterAnswer, Released
<1>4. ASSUME NEW c \in Clients, ConnectionLost(c)
      PROVE  PidIsRecorded'
  BY <1>4 DEF ConnectionLost, ProbeFailed, HangUp, AfterFailure
<1>5. ASSUME NEW c \in Clients, Acquire(c)
      PROVE  PidIsRecorded'
  BY <1>5 DEF Acquire
<1>6. ASSUME NEW c \in Clients, Clear(c)
      PROVE  PidIsRecorded'
  BY <1>6 DEF Clear
<1>7. ASSUME NEW c \in Clients, Spawn(c)
      PROVE  PidIsRecorded'
  BY <1>7 DEF Spawn
<1>8. ASSUME NEW c \in Clients, Record(c)
      PROVE  PidIsRecorded'
  BY <1>8 DEF Record
<1>9. ASSUME NEW c \in Clients, TimeOut(c)
      PROVE  PidIsRecorded'
  BY <1>9 DEF TimeOut, ProbeFailed, HangUp, AfterFailure
<1>10. ASSUME NEW c \in Clients, GiveUp(c)
       PROVE  PidIsRecorded'
  BY <1>10 DEF GiveUp, Released, Pending
<1>11. ASSUME NEW c \in Clients, Abort(c)
       PROVE  PidIsRecorded'
  BY <1>11 DEF Abort, Released
<1>12. ASSUME NEW c \in Clients, Kill(c)
       PROVE  PidIsRecorded'
  BY <1>12 DEF Kill, Released, HangUp
<1>13. ASSUME NEW d \in Daemons, ClearPath(d)
       PROVE  PidIsRecorded'
  BY <1>13 DEF ClearPath
<1>14. ASSUME NEW d \in Daemons, Bind(d)
       PROVE  PidIsRecorded'
  BY <1>14 DEF Bind
<1>15. ASSUME NEW d \in Daemons, Listen(d)
       PROVE  PidIsRecorded'
  BY <1>15 DEF Listen
<1>16. ASSUME NEW d \in Daemons, IdleFires(d)
       PROVE  PidIsRecorded'
  BY <1>16 DEF IdleFires
<1>17. ASSUME NEW d \in Daemons, CloseUnlinks(d)
       PROVE  PidIsRecorded'
  BY <1>17 DEF CloseUnlinks
<1>18. ASSUME NEW d \in Daemons, CloseDescriptor(d)
       PROVE  PidIsRecorded'
  BY <1>18 DEF CloseDescriptor
<1>19. ASSUME NEW d \in Daemons, RemoveAndExit(d)
       PROVE  PidIsRecorded'
  BY <1>19 DEF RemoveAndExit
<1>20. ASSUME NEW d \in Daemons, Crash(d)
       PROVE  PidIsRecorded'
  BY <1>20 DEF Crash
<1> QED
  BY <1>1, <1>2, <1>3, <1>4, <1>5, <1>6, <1>7, <1>8, <1>9, <1>10, <1>11,
     <1>12, <1>13, <1>14, <1>15, <1>16, <1>17, <1>18, <1>19, <1>20 DEF Next,
     ClientStep, DaemonStep, vars, Dial, PickUp, Answer

(* cmd.Start is the only step that adds a live daemon, and it is taken when
   there is none. *)
LEMMA OneLivePreserved ==
    ASSUME TypeOK, HolderKnows, OneLiveDaemon, [Next]_vars
    PROVE  OneLiveDaemon'
<1> USE NoneAssumption DEF TypeOK, ClientPC, DaemonPC, Probing, Critical,
   Finished, Starting, Leaving, Attempts, Stages, HolderKnows,
   OneLiveDaemon, Robust, Withstood, Live, Child, Daemons
<1>1. CASE UNCHANGED <<dpc, happened>>
  BY <1>1
<1>2. ASSUME NEW c \in Clients, Spawn(c)
      PROVE  OneLiveDaemon'
  BY <1>2 DEF Spawn
<1>3. ASSUME NEW c \in Clients, TimeOut(c)
      PROVE  OneLiveDaemon'
  BY <1>3 DEF TimeOut, ProbeFailed, HangUp, AfterFailure
<1>4. ASSUME NEW c \in Clients, GiveUp(c)
      PROVE  OneLiveDaemon'
  BY <1>4 DEF GiveUp, Released, Pending
<1>5. ASSUME NEW c \in Clients, Abort(c)
      PROVE  OneLiveDaemon'
  BY <1>5 DEF Abort, Released
<1>6. ASSUME NEW c \in Clients, Kill(c)
      PROVE  OneLiveDaemon'
  BY <1>6 DEF Kill, Released, HangUp
<1>7. ASSUME NEW d \in Daemons, ClearPath(d)
      PROVE  OneLiveDaemon'
  BY <1>7 DEF ClearPath
<1>8. ASSUME NEW d \in Daemons, Bind(d)
      PROVE  OneLiveDaemon'
  BY <1>8 DEF Bind
<1>9. ASSUME NEW d \in Daemons, Listen(d)
      PROVE  OneLiveDaemon'
  BY <1>9 DEF Listen
<1>10. ASSUME NEW d \in Daemons, IdleFires(d)
       PROVE  OneLiveDaemon'
  BY <1>10 DEF IdleFires
<1>11. ASSUME NEW d \in Daemons, CloseUnlinks(d)
       PROVE  OneLiveDaemon'
  BY <1>11 DEF CloseUnlinks
<1>12. ASSUME NEW d \in Daemons, CloseDescriptor(d)
       PROVE  OneLiveDaemon'
  BY <1>12 DEF CloseDescriptor
<1>13. ASSUME NEW d \in Daemons, RemoveAndExit(d)
       PROVE  OneLiveDaemon'
  BY <1>13 DEF RemoveAndExit
<1>14. ASSUME NEW d \in Daemons, Crash(d)
       PROVE  OneLiveDaemon'
  BY <1>14 DEF Crash
<1> QED
  BY <1>1, <1>2, <1>3, <1>4, <1>5, <1>6, <1>7, <1>8, <1>9, <1>10, <1>11,
     <1>12, <1>13, <1>14 DEF Next, ClientStep, DaemonStep, vars, Dial,
     DialRefused, ReadAnswer, ConnectionLost, Acquire, Clear, Record,
     PickUp, Answer

(* While daemons crash and nothing else happens, nobody is shutting down,   *)
(* a bind finds the path free, and an open connection leads to a daemon     *)
(* that serves or died.                                                     *)
LEMMA CrashesOnly ==
    ASSUME TypeOK, PeersHaveListened, StartersAreAwaited, PathIsTheSpawners,
           LiveSocketsAreNamed, happened \subseteq {"crash"}
    PROVE  /\ \A d \in Daemons : dpc[d] \notin Leaving
           /\ \A d \in Daemons : dpc[d] = "serve" => path = d
           /\ \A d \in Daemons : dpc[d] = "cleared" => path = None
           /\ \A c \in Clients : peer[c] # None =>
                 peer[c] \in Daemons /\ dpc[peer[c]] \in {"serve", "exited"}
<1>1. Quiet /\ Robust
  BY DEF Quiet, Robust, Withstood
<1>2. /\ \A d \in Daemons : dpc[d] \notin Leaving
      /\ \A d \in Daemons : dpc[d] = "serve" => path = d
  BY <1>1 DEF LiveSocketsAreNamed
<1>3. ASSUME NEW d \in Daemons, dpc[d] = "cleared"
      PROVE  path = None
  <2>1. Awaited(d) /\ d[1] \in Clients
    BY <1>1, <1>3 DEF StartersAreAwaited, Starting, Daemons
  <2> QED
    BY <1>1, <1>3, <2>1 DEF PathIsTheSpawners, Awaited
<1>4. ASSUME NEW c \in Clients, peer[c] # None
      PROVE  peer[c] \in Daemons /\ dpc[peer[c]] \in {"serve", "exited"}
  BY <1>2, <1>4 DEF PeersHaveListened, TypeOK, DaemonPC, Starting, Leaving
<1> QED
  BY <1>2, <1>3, <1>4

(* Whoever died stays dead, and only a crash kills.                         *)
LEMMA DeadPreserved ==
    ASSUME TypeOK, PeersHaveListened, SpawnsAreFresh, StartersAreAwaited, PathIsTheSpawners,
           LiveSocketsAreNamed, [Next]_vars, happened' \subseteq {"crash"}
    PROVE  \/ Dead' = Dead
           \/ \E d \in Daemons : Crash(d) /\ d \notin Dead /\ Dead' = Dead \cup {d}
<1>0. happened \subseteq {"crash"}
  BY DEF Next, vars, ClientStep, DaemonStep, Dial, DialRefused, ReadAnswer,
      ConnectionLost,
         Acquire, Clear, Spawn, Record, PickUp, Answer, TimeOut, GiveUp, Abort, Kill,
         ClearPath, Bind, Listen, CloseUnlinks, CloseDescriptor, RemoveAndExit, IdleFires, Crash
<1>1. /\ \A d \in Daemons : dpc[d] \notin Leaving
      /\ \A d \in Daemons : dpc[d] = "cleared" => path = None
  BY <1>0, CrashesOnly
<1>2. CASE UNCHANGED dpc
  BY <1>2 DEF Dead
<1>3. ASSUME NEW c \in Clients, Spawn(c)
      PROVE  Dead' = Dead
  BY <1>3 DEF Spawn, Dead, TypeOK, SpawnsAreFresh, Child, Daemons, Finished,
      Attempts
<1>4. ASSUME NEW d \in Daemons, ClearPath(d) \/ Bind(d) \/ Listen(d)
      PROVE  Dead' = Dead
  BY <1>1, <1>4 DEF ClearPath, Bind, Listen, Dead, TypeOK
<1>5. ASSUME NEW d \in Daemons, CloseUnlinks(d) \/ CloseDescriptor(d) \/ RemoveAndExit(d)
      PROVE  FALSE
  BY <1>1, <1>5 DEF CloseUnlinks, CloseDescriptor, RemoveAndExit, Leaving
<1>6. ASSUME NEW d \in Daemons, IdleFires(d)
      PROVE  FALSE
  BY <1>6 DEF IdleFires
<1>7. ASSUME NEW d \in Daemons, Crash(d)
      PROVE  d \notin Dead /\ Dead' = Dead \cup {d}
  BY <1>7 DEF Crash, Dead, TypeOK
<1> QED
  BY <1>2, <1>3, <1>4, <1>5, <1>6, <1>7
     DEF Next, vars, ClientStep, DaemonStep, Dial, DialRefused, ReadAnswer,
         ConnectionLost,
         Acquire, Clear, Record, PickUp, Answer, TimeOut, GiveUp, Abort, Kill
(* A crash takes an answered client's daemon away only if more have died    *)
(* than the client withstands; that a client starts its second attempt      *)
(* tells of a death, and its next child is not the daemon that died.        *)
LEMMA CrashesPreserved ==
    ASSUME TypeOK, PeersHaveListened, SpawnsAreFresh, StartersAreAwaited, PathIsTheSpawners,
           LiveSocketsAreNamed, CrashesAreSurvived, [Next]_vars
    PROVE  CrashesAreSurvived'
<1> SUFFICES ASSUME happened' \subseteq {"crash"}
             PROVE  /\ happened' = {} => Dead' = {}
                    /\ \A c \in Clients : Survives(c)'
  BY DEF CrashesAreSurvived
<1>1. happened \subseteq {"crash"} /\ (happened' = {} => happened = {})
  BY DEF Next, vars, ClientStep, DaemonStep, Dial, DialRefused, ReadAnswer,
      ConnectionLost,
         Acquire, Clear, Spawn, Record, PickUp, Answer, TimeOut, GiveUp, Abort, Kill,
         ClearPath, Bind, Listen, CloseUnlinks, CloseDescriptor, RemoveAndExit, IdleFires, Crash
<1>2. /\ \A d \in Daemons : dpc[d] \notin Leaving
      /\ \A d \in Daemons : dpc[d] = "serve" => path = d
      /\ \A d \in Daemons : dpc[d] = "cleared" => path = None
      /\ \A c \in Clients : peer[c] # None =>
            peer[c] \in Daemons /\ dpc[peer[c]] \in {"serve", "exited"}
  BY <1>1, CrashesOnly
<1>3. \/ Dead' = Dead
      \/ \E d \in Daemons : Crash(d) /\ d \notin Dead /\ Dead' = Dead \cup {d}
  BY DeadPreserved
<1>4. (happened = {} => Dead = {}) /\ \A c \in Clients : Survives(c)
  BY <1>1 DEF CrashesAreSurvived
<1>5. happened' = {} => Dead' = {}
  BY <1>1, <1>3, <1>4 DEF Crash
<1>6. SUFFICES ASSUME NEW c \in Clients
               PROVE  Survives(c)'
  BY <1>5
<1> USE NoneAssumption DEF TypeOK, Attempts
<1>7. CASE UNCHANGED <<pc, attempt, peer, dpc>>
  BY <1>4, <1>7 DEF Survives, Withstands, Dead, Child, AtMostOne
<1>8. ASSUME dpc' = dpc
       PROVE  Dead' = Dead
  BY <1>8 DEF Dead
<1>9. ASSUME dpc' = dpc, pc'[c] = pc[c], attempt'[c] = attempt[c], peer'[c] = peer[c]
       PROVE  Survives(c)'
  BY <1>4, <1>8, <1>9 DEF Survives, Withstands, Child, AtMostOne
<1>10. ASSUME dpc' = dpc, ProbeFailed(c), pc[c] \in Probing, pc[c] = "ping" => ~Withstands(c)
       PROVE  Survives(c)'
  <2>1. peer'[c] = None /\ Dead' = Dead /\ Dead \subseteq Daemons
    BY <1>8, <1>10 DEF ProbeFailed, HangUp, Dead
  <2>2. CASE pc[c] # "ping"
    <3>1. /\ pc'[c] \in {"lockwait", "clear", "poll"}
          /\ pc'[c] = "poll" => pc[c] = "poll"
          /\ attempt'[c] = attempt[c]
      BY <1>10, <2>2 DEF ProbeFailed, AfterFailure, Probing
    <3> QED
      BY <1>4, <1>10, <2>1, <3>1 DEF Survives, Child
  <2>3. CASE pc[c] = "ping" /\ attempt[c] = 1
    <3>1. pc'[c] = "probe" /\ attempt'[c] = 2 /\ Child(c)' = <<c, 2>>
      BY <1>10, <2>3 DEF ProbeFailed, AfterFailure, Child
    <3>2. PICK d \in Dead : TRUE
      BY <1>10, <2>3 DEF Withstands
    <3>3. <<c, 2>> \notin Dead
      BY <2>3 DEF SpawnsAreFresh, Dead, Child, Daemons
    <3> QED
      BY <2>1, <3>1, <3>2, <3>3 DEF Survives
  <2>4. CASE pc[c] = "ping" /\ attempt[c] = 2
    <3>1. pc'[c] = "unavailable" /\ attempt'[c] = 2 /\ Child(c)' = Child(c)
      BY <1>10, <2>4 DEF ProbeFailed, Child
    <3> QED
      BY <1>4, <1>10, <2>1, <2>4, <3>1 DEF Survives, Withstands, AtMostOne
  <2> QED
    BY <2>2, <2>3, <2>4
<1>11. ASSUME NEW k \in Clients, Dial(k)
     PROVE  Survives(c)'
  BY <1>2, <1>3, <1>4, <1>11
     DEF Dial, Listening, Survives, Withstands, Dead, AtMostOne, Child, Daemons
<1>12. ASSUME NEW k \in Clients, DialRefused(k)
      PROVE  Survives(c)'
  <2>1. dpc' = dpc /\ ProbeFailed(k) /\ pc[k] \in Probing
    BY <1>12 DEF DialRefused
  <2>2. CASE k # c
    BY <1>9, <2>1, <2>2 DEF ProbeFailed, HangUp
  <2>3. CASE k = c
    <3>1. ~\E d \in Daemons : dpc[d] = "serve"
      BY <1>2, <1>12 DEF DialRefused, Listening
    <3> QED
      BY <1>4, <1>10, <2>1, <2>3, <3>1 DEF Survives
  <2> QED
    BY <2>2, <2>3
<1>13. ASSUME NEW k \in Clients, ReadAnswer(k)
      PROVE  Survives(c)'
  <2>1. dpc' = dpc /\ ProbeAnswered(k) /\ UNCHANGED attempt /\ pc[k] \in Probing /\ peer[k] # None
    BY <1>13 DEF ReadAnswer, ProbeAnswered, PeersHaveListened
  <2>2. CASE k # c
    BY <1>9, <2>1, <2>2 DEF ProbeAnswered, HangUp
  <2>3. CASE k = c
    <3>1. /\ peer'[c] = None /\ pc'[c] \in {"ping", "done"}
          /\ attempt'[c] = attempt[c] /\ Child(c)' = Child(c)
      BY <2>1, <2>3 DEF ProbeAnswered, HangUp, AfterAnswer, Probing, Child
    <3>2. Dead' = Dead /\ Dead \subseteq Daemons
      BY <1>8, <2>1 DEF Dead
    <3>3. ASSUME Withstands(c)
          PROVE  dpc[peer[c]] = "serve" /\ peer[c] \in Daemons
      BY <1>2, <1>4, <2>1, <2>3, <3>3 DEF Survives, Withstands, AtMostOne, Dead
    <3>4. Withstands(c)' <=> Withstands(c)
      BY <3>1, <3>2 DEF Withstands, AtMostOne
    <3> QED
      BY <1>4, <2>1, <3>1, <3>2, <3>3, <3>4 DEF Survives
  <2> QED
    BY <2>2, <2>3
<1>14. ASSUME NEW k \in Clients, ConnectionLost(k)
      PROVE  Survives(c)'
  <2>1. dpc' = dpc /\ ProbeFailed(k) /\ pc[k] \in Probing /\ peer[k] # None
    BY <1>14 DEF ConnectionLost, PeersHaveListened
  <2>2. CASE k # c
    BY <1>9, <2>1, <2>2 DEF ProbeFailed, HangUp
  <2>3. CASE k = c
    <3>1. peer[c] \in Dead
      BY <1>2, <1>14, <2>1, <2>3 DEF ConnectionLost, Dead
    <3>2. ~Withstands(c)
      BY <1>4, <3>1 DEF Survives, Withstands, AtMostOne
    <3> QED
      BY <1>10, <2>1, <2>3, <3>2
  <2> QED
    BY <2>2, <2>3
<1>15. ASSUME NEW k \in Clients, Acquire(k)
     PROVE  Survives(c)'
  BY <1>2, <1>3, <1>4, <1>15
     DEF Acquire, Survives, Withstands, Dead, AtMostOne, Child, Daemons
<1>16. ASSUME NEW k \in Clients, Clear(k)
     PROVE  Survives(c)'
  BY <1>2, <1>3, <1>4, <1>16
     DEF Clear, Survives, Withstands, Dead, AtMostOne, Child, Daemons
<1>17. ASSUME NEW k \in Clients, Spawn(k)
      PROVE  Survives(c)'
  <2>1. dpc[Child(k)] = "unborn" /\ Child(k) \in Daemons
    BY <1>17 DEF Spawn, SpawnsAreFresh, Child, Daemons, Finished
  <2>2. Dead' = Dead
    BY <1>17, <2>1 DEF Spawn, Dead
  <2>3. \A d \in Daemons : /\ dpc[d] # "unborn" => dpc'[d] # "unborn"
                           /\ dpc[d] = "serve" => dpc'[d] = "serve"
    BY <1>17, <2>1 DEF Spawn
  <2>4. /\ attempt' = attempt /\ peer' = peer /\ Child(c)' = Child(c) /\ Child(c) \in Daemons
        /\ c # k => pc'[c] = pc[c]
        /\ c = k => pc'[c] = "record" /\ dpc'[Child(c)] = "start"
    BY <1>17 DEF Spawn, Child, Daemons
  <2> QED
    BY <1>4, <2>2, <2>3, <2>4 DEF Survives, Withstands, AtMostOne
<1>18. ASSUME NEW k \in Clients, Record(k)
     PROVE  Survives(c)'
  BY <1>2, <1>3, <1>4, <1>18
     DEF Record, Survives, Withstands, Dead, AtMostOne, Child, Daemons
<1>19. ASSUME NEW k \in Clients, TimeOut(k)
      PROVE  FALSE
  BY <1>19 DEF TimeOut
<1>20. ASSUME NEW k \in Clients, Abort(k)
      PROVE  FALSE
  BY <1>20 DEF Abort
<1>21. ASSUME NEW k \in Clients, Kill(k)
      PROVE  FALSE
  BY <1>21 DEF Kill
<1>22. ASSUME NEW k \in Clients, GiveUp(k)
      PROVE  Survives(c)'
  <2>1. /\ dpc' = dpc /\ UNCHANGED <<attempt, peer>> /\ ~Pending
        /\ pc[k] = "poll" /\ pc' = [pc EXCEPT ![k] = "unavailable"]
    BY <1>22 DEF GiveUp
  <2>2. CASE k # c
    BY <1>9, <2>1, <2>2
  <2>3. CASE k = c
    <3>1. Child(c) \in Daemons /\ dpc[Child(c)] \notin Starting \cup {"serve", "unborn"}
      BY <1>2, <1>4, <2>1, <2>3 DEF Pending, Survives, Child, Daemons
    <3>2. Child(c) \in Dead
      BY <1>2, <3>1 DEF Dead, DaemonPC
    <3>3. ~Withstands(c)
      BY <1>4, <3>2 DEF Survives, Withstands, AtMostOne
    <3>4. pc'[c] = "unavailable" /\ Dead' = Dead /\ Child(c)' = Child(c)
      BY <1>8, <2>1, <2>3 DEF Child
    <3> QED
      BY <1>4, <2>1, <3>3, <3>4 DEF Survives, Withstands, AtMostOne
  <2> QED
    BY <2>2, <2>3
<1>23. ASSUME NEW d \in Daemons, ClearPath(d)
      PROVE  Survives(c)'
  BY <1>2, <1>3, <1>4, <1>23
     DEF ClearPath, Survives, Withstands, Dead, AtMostOne, Child, Daemons
<1>24. ASSUME NEW d \in Daemons, Bind(d)
      PROVE  Survives(c)'
  BY <1>2, <1>3, <1>4, <1>24
     DEF Bind, Survives, Withstands, Dead, AtMostOne, Child, Daemons
<1>25. ASSUME NEW d \in Daemons, Listen(d)
      PROVE  Survives(c)'
  BY <1>2, <1>3, <1>4, <1>25
     DEF Listen, Survives, Withstands, Dead, AtMostOne, Child, Daemons
<1>26. ASSUME NEW d \in Daemons, Crash(d)
      PROVE  Survives(c)'
  BY <1>2, <1>3, <1>4, <1>26
     DEF Crash, Survives, Withstands, Dead, AtMostOne, Child, Daemons
<1>27. ASSUME NEW d \in Daemons, CloseUnlinks(d) \/ CloseDescriptor(d) \/ RemoveAndExit(d)
      PROVE  FALSE
  BY <1>2, <1>27 DEF CloseUnlinks, CloseDescriptor, RemoveAndExit, Leaving
<1>28. ASSUME NEW d \in Daemons, IdleFires(d)
      PROVE  FALSE
  BY <1>28 DEF IdleFires
<1> QED
  BY <1>7, <1>11, <1>12, <1>13, <1>14, <1>15, <1>16, <1>17, <1>18, <1>19,
     <1>20, <1>21, <1>22, <1>23, <1>24, <1>25, <1>26, <1>27, <1>28
     DEF Next, vars, ClientStep, DaemonStep, PickUp, Answer

-----------------------------------------------------------------------------
(* The initial state, the invariant, and what follows from it.             *)

(* All is quiet at the start.                                              *)
LEMMA InitInvariant == Init => IInv
BY NoneAssumption
   DEF Init, IInv, TypeOK, ClientPC, DaemonPC, Probing, Critical, Finished,
       Starting, Leaving, Attempts, Stages, LockDiscipline, PeersHaveListened,
       SpawnsAreFresh, StartersAreAwaited, PathIsTheSpawners, HolderSees,
       LiveSocketsAreNamed, HolderKnows, PidIsRecorded, OneLiveDaemon, Live,
       CrashesAreSurvived, Survives, Withstands, Dead, Daemons

(* With flock every step keeps all parts.                                  *)
LEMMA StepInvariant ==
    ASSUME HasFlock, IInv, [Next]_vars
    PROVE  IInv'
<1>1. /\ TypeOK /\ LockDiscipline /\ PeersHaveListened /\ SpawnsAreFresh
      /\ StartersAreAwaited /\ PathIsTheSpawners /\ HolderSees
      /\ LiveSocketsAreNamed /\ HolderKnows /\ PidIsRecorded /\ OneLiveDaemon
      /\ CrashesAreSurvived
  BY DEF IInv
<1>2. TypeOK' /\ LockDiscipline' /\ PeersHaveListened' /\ SpawnsAreFresh'
  BY <1>1, TypePreserved, LockPreserved, PeersPreserved, FreshPreserved
<1>3. StartersAreAwaited' /\ PathIsTheSpawners' /\ HolderSees'
  BY <1>1, AwaitedPreserved, PathPreserved, SeesPreserved
<1>4. LiveSocketsAreNamed' /\ HolderKnows' /\ PidIsRecorded' /\ OneLiveDaemon'
  BY <1>1, NamedPreserved, KnowsPreserved, PidPreserved, OneLivePreserved
<1>5. CrashesAreSurvived'
  BY <1>1, CrashesPreserved
<1> QED
  BY <1>2, <1>3, <1>4, <1>5 DEF IInv

(* Whatever the platform and the faults, the variables keep their types.   *)
THEOREM TypeCorrect == Spec => []TypeOK
<1> DEFINE Typed == TypeOK /\ PeersHaveListened /\ SpawnsAreFresh
<1>1. Init => Typed
  BY InitInvariant DEF IInv
<1>2. Typed /\ [Next]_vars => Typed'
  BY TypePreserved, PeersPreserved, FreshPreserved
<1> QED
  BY <1>1, <1>2, PTL DEF Spec

(* With flock, the inductive invariant holds in every reachable state.     *)
THEOREM ElectionInvariant == ASSUME HasFlock PROVE Spec => []IInv
<1>1. IInv /\ [Next]_vars => IInv'
  BY StepInvariant
<1> QED
  BY <1>1, InitInvariant, PTL DEF Spec

(* EnsureRunning's election: crashed daemons and failed calls never lead    *)
(* to two live daemons, for any number of CLI processes.                    *)
THEOREM ElectsOneDaemon == ASSUME HasFlock PROVE Spec => []OneLiveDaemon
<1>1. IInv => OneLiveDaemon
  BY DEF IInv
<1> QED
  BY <1>1, ElectionInvariant, PTL

(* The lock is not handed on while a daemon starts up, also when other      *)
(* daemons shut down or crash.                                              *)
THEOREM StartupIsLocked == ASSUME HasFlock PROVE Spec => []StartupUnderLock
<1>1. IInv => StartupUnderLock
  BY DEF IInv, TypeOK, LockDiscipline, StartersAreAwaited, StartupUnderLock, Quiet,
     Awaited, Critical, Daemons
<1> QED
  BY <1>1, ElectionInvariant, PTL

(* Neither a spawner's removal of the socket path nor a starting daemon's   *)
(* takes it from a daemon that serves: the spawner has seen that none does, *)
(* and the path is empty when the daemon it awaits gets to it.              *)
THEOREM ServedSocketIsKept == ASSUME HasFlock PROVE Spec => SocketKept
<1> DEFINE Keeps ==
             happened' \cap {"slow", "kill"} = {} =>
                 \A d \in Daemons :
                     path = d /\ dpc[d] = "serve" /\ dpc'[d] = "serve" =>
                         path' = d \/ \E e \in Daemons : CleansUp(e)
<1>1. ASSUME IInv, [Next]_vars
      PROVE  Keeps
  <2> USE NoneAssumption DEF CleansUp, Leaving
  <2>1. TypeOK /\ StartersAreAwaited /\ PathIsTheSpawners /\ HolderSees
    BY <1>1 DEF IInv
  <2>2. CASE UNCHANGED path
    BY <2>2
  <2>3. ASSUME NEW c \in Clients, Clear(c)
        PROVE  Keeps
    BY <2>1, <2>3 DEF Clear, HolderSees, Quiet, Daemons
  <2>4. ASSUME NEW d \in Daemons, ClearPath(d)
        PROVE  Keeps
    <3>1. CASE Quiet
      <4>1. Awaited(d)
        BY <2>1, <2>4, <3>1 DEF ClearPath, StartersAreAwaited, Starting
      <4>2. path = None
        BY <2>1, <2>4, <3>1, <4>1 DEF ClearPath, PathIsTheSpawners, Awaited, Child, Daemons
      <4> QED
        BY <4>2 DEF Daemons
    <3>2. CASE ~Quiet
      BY <2>4, <3>2 DEF ClearPath, Quiet
    <3> QED
      BY <3>1, <3>2
  <2>5. ASSUME NEW d \in Daemons, Bind(d)
        PROVE  Keeps
    BY <2>5 DEF Bind, Daemons
  <2>6. ASSUME NEW d \in Daemons, CloseUnlinks(d)
        PROVE  Keeps
    BY <2>1, <2>6 DEF CloseUnlinks, TypeOK
  <2>7. ASSUME NEW d \in Daemons, RemoveAndExit(d)
        PROVE  Keeps
    BY <2>1, <2>7 DEF RemoveAndExit, TypeOK
  <2> QED
    BY <1>1, <2>2, <2>3, <2>4, <2>5, <2>6, <2>7
       DEF Next, ClientStep, DaemonStep, vars, Dial, DialRefused, ReadAnswer,
           ConnectionLost, Acquire, Spawn, Record, PickUp, Answer, TimeOut,
           GiveUp, Abort, Kill, Listen, IdleFires, CloseDescriptor, Crash
<1> QED
  BY <1>1, ElectionInvariant, PTL DEF Spec, SocketKept

(* With the lock free, the PID file names the serving daemon.               *)
THEOREM PidFileIsRight == ASSUME HasFlock PROVE Spec => []PidFileNamesTheDaemon
<1>1. IInv => PidFileNamesTheDaemon
  BY NoneAssumption
     DEF IInv, TypeOK, LockDiscipline, PidIsRecorded, PidFileNamesTheDaemon, Robust,
         Live, Critical, Daemons
<1> QED
  BY <1>1, ElectionInvariant, PTL

(* Left alone, no CLI process reports daemon_unavailable and none needs its *)
(* second attempt, however many race.                                       *)
THEOREM UndisturbedSucceed == ASSUME HasFlock PROVE Spec => []UndisturbedRunsSucceed
<1>1. ASSUME IInv, happened = {}, NEW c \in Clients
      PROVE  pc[c] # "unavailable" /\ attempt[c] = 1
  <2>1. Dead = {} /\ Survives(c) /\ attempt[c] \in {1, 2}
    BY <1>1 DEF IInv, CrashesAreSurvived, TypeOK, Attempts
  <2> QED
    BY <2>1 DEF Survives, Withstands
<1>2. IInv => UndisturbedRunsSucceed
  BY <1>1 DEF UndisturbedRunsSucceed
<1> QED
  BY <1>2, ElectionInvariant, PTL

(* runLint's retry: if one daemon crashes, whenever that is, no client that *)
(* retries is turned away, however many there are.                          *)
THEOREM CrashSurvived == ASSUME HasFlock PROVE Spec => []OneCrashIsSurvived
<1>1. ASSUME IInv, happened \subseteq {"crash"}, AtMostOne(Dead), NEW c \in Clients,
             pc[c] = "unavailable"
      PROVE  attempt[c] = 1
  BY <1>1 DEF IInv, CrashesAreSurvived, Survives, Withstands
<1>2. IInv => OneCrashIsSurvived
  BY <1>1 DEF OneCrashIsSurvived
<1> QED
  BY <1>2, ElectionInvariant, PTL
=============================================================================
