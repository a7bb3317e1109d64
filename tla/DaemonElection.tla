--------------------------- MODULE DaemonElection ---------------------------
(***************************************************************************)
(* How the CLI processes of one project agree on one daemon.               *)
(*                                                                         *)
(* Every CLI process (a client) runs runLint's daemon block: EnsureRunning,*)
(* Ping and, when that Ping fails, EnsureRunning and Ping once more.  The  *)
(* processes share three things only: the socket path, the flock on the    *)
(* PID file and the PID file's contents.  A daemon is a process of its     *)
(* own, executed by the client that holds the lock; it publishes its       *)
(* socket in NewServer and takes it away in Run's deferred cleanup.        *)
(*                                                                         *)
(* A daemon is named by the client and the attempt that executed it: one   *)
(* call of EnsureRunning executes at most one, and a client makes at most  *)
(* two calls, so the set of daemons needs no bound of its own.             *)
(***************************************************************************)
EXTENDS Naturals, FiniteSets

CONSTANTS
    Clients,    \* the CLI processes of one project
    None,       \* no process, no file
    HasFlock,   \* TRUE: spawn_unix.go; FALSE: spawn_windows.go's no-op lock
    Faults,     \* the kinds of trouble a run allows
    MaxKinds    \* how many different kinds one behaviour meets

(* The kinds of trouble.  "slow": a probe or SpawnWait expires although the *)
(* daemon was on its way; "kill": a CLI process dies; "crash": a daemon     *)
(* process dies; "idle": a daemon shuts itself down; "nospawn": an error    *)
(* return of EnsureRunning before a daemon process exists.                  *)
FaultKinds == {"slow", "kill", "crash", "idle", "nospawn"}

Attempts == {1, 2}

Daemons == Clients \X Attempts

ASSUME NoneAssumption == None \notin Clients \cup Daemons
ASSUME FlockAssumption == HasFlock \in BOOLEAN
ASSUME FaultsAssumption == Faults \subseteq FaultKinds
ASSUME KindsAssumption == MaxKinds \in Nat

VARIABLES
    path,      \* the daemon whose socket inode the socket path names, or None
    lock,      \* the client holding the flock, or None
    pidfile,   \* the daemon whose PID the PID file records, or None
    pc,        \* where each client is
    attempt,   \* which of its (at most two) EnsureRunning calls a client is in
    peer,      \* the daemon a client's open connection leads to, or None
    stage,     \* how far that connection has come
    dpc,       \* where each daemon process is
    happened   \* the kinds of trouble that have occurred

vars == <<path, lock, pidfile, pc, attempt, peer, stage, dpc, happened>>

(* "probe", "recheck" and "poll" are the three reachable() calls of         *)
(* EnsureRunning, "ping" is runLint's own Ping.                             *)
Probing  == {"probe", "recheck", "poll", "ping"}
Critical == {"recheck", "clear", "spawn", "record", "poll"}
Finished == {"done", "unavailable", "killed"}
ClientPC == Probing \cup Critical \cup Finished \cup {"lockwait"}

Starting == {"start", "cleared", "bound"}
Leaving  == {"stopping", "unlinked", "closed"}
DaemonPC == {"unborn", "serve", "exited"} \cup Starting \cup Leaving

Child(c) == <<c, attempt[c]>>

(* Trouble of this kind may strike: once it has, it may as often as it will. *)
May(kind) ==
    /\ kind \in Faults
    /\ kind \in happened \/ Cardinality(happened) < MaxKinds

(* listen(2) has been called on the socket and its descriptor is open.      *)
Listening(d) == dpc[d] \in {"serve", "stopping", "unlinked"}

Init ==
    /\ path = None
    /\ lock = None
    /\ pidfile = None
    /\ pc = [c \in Clients |-> "probe"]
    /\ attempt = [c \in Clients |-> 1]
    /\ peer = [c \in Clients |-> None]
    /\ stage = [c \in Clients |-> "queued"]
    /\ dpc = [d \in Daemons |-> "unborn"]
    /\ happened = {}

-----------------------------------------------------------------------------
(* The client: EnsureRunning, Ping and runLint's single retry.             *)

Released(c) == IF lock = c THEN None ELSE lock

(* The client closes its connection, if it has one.                        *)
HangUp(c) ==
    /\ peer' = [peer EXCEPT ![c] = None]
    /\ stage' = [stage EXCEPT ![c] = "queued"]

AfterAnswer  == [probe |-> "ping", recheck |-> "ping", poll |-> "ping",
                 ping |-> "done"]

(* Mutant: the retry pings again without EnsureRunning.                    *)
AfterFailureNoRespawn ==
    [probe |-> "lockwait", recheck |-> "clear", poll |-> "poll", ping |-> "ping"]

AfterFailure == [probe |-> "lockwait", recheck |-> "clear", poll |-> "poll",
                 ping |-> "probe"]

(* A probe came back with an answer.  The two probes inside the lock return *)
(* from EnsureRunning, whose deferred unflock runs; pc "ping" follows.      *)
ProbeAnswered(c) ==
    /\ pc' = [pc EXCEPT ![c] = AfterAnswer[pc[c]]]
    /\ lock' = Released(c)
    /\ HangUp(c)
    /\ UNCHANGED attempt

(* A probe came back without one, whatever the reason.  A failed Ping of    *)
(* runLint starts the second attempt; the second failed Ping is final.      *)
ProbeFailed(c) ==
    /\ HangUp(c)
    /\ IF pc[c] = "ping" /\ attempt[c] = 2
         THEN /\ pc' = [pc EXCEPT ![c] = "unavailable"]
              /\ UNCHANGED attempt
         ELSE /\ pc' = [pc EXCEPT ![c] = AfterFailure[pc[c]]]
              /\ attempt' = IF pc[c] = "ping" THEN [attempt EXCEPT ![c] = 2]
                                              ELSE attempt

(* connect(2) reaches a listening socket: the connection waits in its      *)
(* accept queue.  The os.Stat before it adds nothing: a missing file and a *)
(* refused connection are the same failure.                                *)
Dial(c) ==
    /\ pc[c] \in Probing
    /\ peer[c] = None
    /\ path # None
    /\ Listening(path)
    /\ peer' = [peer EXCEPT ![c] = path]
    /\ UNCHANGED <<path, lock, pidfile, pc, attempt, stage, dpc, happened>>

(* No socket file, or one nobody listens on.                               *)
DialRefused(c) ==
    /\ pc[c] \in Probing
    /\ peer[c] = None
    /\ path # None => ~Listening(path)
    /\ ProbeFailed(c)
    /\ UNCHANGED <<path, lock, pidfile, dpc, happened>>

ReadAnswer(c) ==
    /\ peer[c] # None
    /\ stage[c] = "answered"
    /\ ProbeAnswered(c)
    /\ UNCHANGED <<path, pidfile, dpc, happened>>

(* EOF: the listener closed with the connection still in its queue, or the *)
(* process exited before the handler's write.                              *)
ConnectionLost(c) ==
    /\ peer[c] # None
    /\ \/ stage[c] # "answered" /\ dpc[peer[c]] = "exited"
       \/ stage[c] = "queued" /\ dpc[peer[c]] = "closed"
    /\ ProbeFailed(c)
    /\ UNCHANGED <<path, lock, pidfile, dpc, happened>>

(* Send's read deadline passes first.                                      *)
TimeOut(c) ==
    /\ May("slow")
    /\ peer[c] # None
    /\ stage[c] # "answered"
    /\ ProbeFailed(c)
    /\ happened' = happened \cup {"slow"}
    /\ UNCHANGED <<path, lock, pidfile, dpc>>

(* Mutants: a shared lock; a lock without the second probe; a lock that    *)
(* fails at once when somebody else holds it.                              *)
AcquireShared(c) ==
    /\ pc[c] = "lockwait"
    /\ lock' = c
    /\ pc' = [pc EXCEPT ![c] = "recheck"]
    /\ UNCHANGED <<path, pidfile, attempt, peer, stage, dpc, happened>>

AcquireWithoutRecheck(c) ==
    /\ pc[c] = "lockwait"
    /\ HasFlock => lock = None
    /\ lock' = IF HasFlock THEN c ELSE lock
    /\ pc' = [pc EXCEPT ![c] = "clear"]
    /\ UNCHANGED <<path, pidfile, attempt, peer, stage, dpc, happened>>

AcquireNonBlocking(c) ==
    /\ pc[c] = "lockwait"
    /\ lock' = IF lock = None THEN c ELSE lock
    /\ pc' = [pc EXCEPT ![c] = IF lock = None THEN "recheck" ELSE "unavailable"]
    /\ UNCHANGED <<path, pidfile, attempt, peer, stage, dpc, happened>>

(* flockExclusive returns.                                                 *)
Acquire(c) ==
    /\ pc[c] = "lockwait"
    /\ HasFlock => lock = None
    /\ lock' = IF HasFlock THEN c ELSE lock
    /\ pc' = [pc EXCEPT ![c] = "recheck"]
    /\ UNCHANGED <<path, pidfile, attempt, peer, stage, dpc, happened>>

(* The stat and the os.Remove of EnsureRunning, which removes whatever the *)
(* path names by now.                                                      *)
Clear(c) ==
    /\ pc[c] = "clear"
    /\ path' = None
    /\ pc' = [pc EXCEPT ![c] = "spawn"]
    /\ UNCHANGED <<lock, pidfile, attempt, peer, stage, dpc, happened>>

(* cmd.Start.                                                              *)
Spawn(c) ==
    /\ pc[c] = "spawn"
    /\ dpc' = [dpc EXCEPT ![Child(c)] = "start"]
    /\ pc' = [pc EXCEPT ![c] = "record"]
    /\ UNCHANGED <<path, lock, pidfile, attempt, peer, stage, happened>>

(* Mutants: the PID file is not truncated for a second daemon; the lock is *)
(* released once the PID is written.                                       *)
RecordOnce(c) ==
    /\ pc[c] = "record"
    /\ pidfile' = IF pidfile = None THEN Child(c) ELSE pidfile
    /\ pc' = [pc EXCEPT ![c] = "poll"]
    /\ UNCHANGED <<path, lock, attempt, peer, stage, dpc, happened>>

RecordAndUnlock(c) ==
    /\ pc[c] = "record"
    /\ pidfile' = Child(c)
    /\ lock' = Released(c)
    /\ pc' = [pc EXCEPT ![c] = "poll"]
    /\ UNCHANGED <<path, attempt, peer, stage, dpc, happened>>

(* The Truncate, Seek and Fprintf of the child's PID.                      *)
Record(c) ==
    /\ pc[c] = "record"
    /\ pidfile' = Child(c)
    /\ pc' = [pc EXCEPT ![c] = "poll"]
    /\ UNCHANGED <<path, lock, attempt, peer, stage, dpc, happened>>

(* A poll can still succeed: a daemon is on its way to the socket path, or *)
(* one serves there already.                                               *)
Pending ==
    \/ \E d \in Daemons : dpc[d] \in Starting
    \/ path # None /\ dpc[path] = "serve"

(* SpawnWait expires (or ctx is done).  EnsureRunning returns an error and *)
(* runLint exits 2, in the first attempt as in the second.                 *)
GiveUp(c) ==
    /\ pc[c] = "poll"
    /\ peer[c] = None
    /\ Pending => May("slow")
    /\ happened' = IF Pending THEN happened \cup {"slow"} ELSE happened
    /\ pc' = [pc EXCEPT ![c] = "unavailable"]
    /\ lock' = Released(c)
    /\ UNCHANGED <<path, pidfile, attempt, peer, stage, dpc>>

(* The other error returns of EnsureRunning: the directory, the PID file,  *)
(* the lock, the log file or the exec fails.                               *)
Abort(c) ==
    /\ May("nospawn")
    /\ pc[c] \in {"lockwait", "spawn"}
    /\ happened' = happened \cup {"nospawn"}
    /\ pc' = [pc EXCEPT ![c] = "unavailable"]
    /\ lock' = Released(c)
    /\ UNCHANGED <<path, pidfile, attempt, peer, stage, dpc>>

(* Mutant: a lock that is a file, which nobody takes away from the dead.   *)
KillKeepsLock(c) ==
    /\ May("kill")
    /\ pc[c] \notin Finished
    /\ happened' = happened \cup {"kill"}
    /\ pc' = [pc EXCEPT ![c] = "killed"]
    /\ HangUp(c)
    /\ UNCHANGED <<path, lock, pidfile, attempt, dpc>>

(* The CLI process dies; the kernel drops its flock and its connection.    *)
(* The daemon it executed is in a session of its own and lives on.         *)
Kill(c) ==
    /\ May("kill")
    /\ pc[c] \notin Finished
    /\ happened' = happened \cup {"kill"}
    /\ pc' = [pc EXCEPT ![c] = "killed"]
    /\ lock' = Released(c)
    /\ HangUp(c)
    /\ UNCHANGED <<path, pidfile, attempt, dpc>>

ClientStep(c) ==
    \/ Dial(c) \/ DialRefused(c) \/ ReadAnswer(c) \/ ConnectionLost(c)
    \/ Acquire(c) \/ Clear(c) \/ Spawn(c) \/ Record(c)

-----------------------------------------------------------------------------
(* The daemon process: NewServer, Run, and Run's deferred cleanup.         *)

(* NewServer's os.Remove of "any stale file at the socket path".           *)
ClearPath(d) ==
    /\ dpc[d] = "start"
    /\ path' = None
    /\ dpc' = [dpc EXCEPT ![d] = "cleared"]
    /\ UNCHANGED <<lock, pidfile, pc, attempt, peer, stage, happened>>

(* net.Listen's bind(2), which fails when the path exists again; then      *)
(* runDaemon reports the error and the process exits.                      *)
Bind(d) ==
    /\ dpc[d] = "cleared"
    /\ path' = IF path = None THEN d ELSE path
    /\ dpc' = [dpc EXCEPT ![d] = IF path = None THEN "bound" ELSE "exited"]
    /\ UNCHANGED <<lock, pidfile, pc, attempt, peer, stage, happened>>

(* net.Listen's listen(2).                                                 *)
Listen(d) ==
    /\ dpc[d] = "bound"
    /\ dpc' = [dpc EXCEPT ![d] = "serve"]
    /\ UNCHANGED <<path, lock, pidfile, pc, attempt, peer, stage, happened>>

(* Run's loop takes a connection and hands it to a handler.                *)
PickUp(c) ==
    /\ peer[c] # None
    /\ stage[c] = "queued"
    /\ dpc[peer[c]] = "serve"
    /\ stage' = [stage EXCEPT ![c] = "handled"]
    /\ UNCHANGED <<path, lock, pidfile, pc, attempt, peer, dpc, happened>>

(* The handler writes its response; it runs on until the process exits.    *)
Answer(c) ==
    /\ peer[c] # None
    /\ stage[c] = "handled"
    /\ dpc[peer[c]] # "exited"
    /\ stage' = [stage EXCEPT ![c] = "answered"]
    /\ UNCHANGED <<path, lock, pidfile, pc, attempt, peer, dpc, happened>>

(* The client that executed d still polls for it.                          *)
Awaited(d) == pc[d[1]] \in {"record", "poll"} /\ Child(d[1]) = d

(* Run returns because the idle watcher fired.  The idle period starts in  *)
(* NewServer and outlasts SpawnWait (ten minutes against five seconds), so *)
(* it does not end under the eyes of the spawner; it may end under those   *)
(* of any other client.                                                    *)
IdleFires(d) ==
    /\ May("idle")
    /\ ~Awaited(d)
    /\ dpc[d] = "serve"
    /\ happened' = happened \cup {"idle"}
    /\ dpc' = [dpc EXCEPT ![d] = "stopping"]
    /\ UNCHANGED <<path, lock, pidfile, pc, attempt, peer, stage>>

(* cleanup's listener.Close(): a Unix listener unlinks its path first ...  *)
CloseUnlinks(d) ==
    /\ dpc[d] = "stopping"
    /\ path' = None
    /\ dpc' = [dpc EXCEPT ![d] = "unlinked"]
    /\ UNCHANGED <<lock, pidfile, pc, attempt, peer, stage, happened>>

(* ... and closes its descriptor second.                                   *)
CloseDescriptor(d) ==
    /\ dpc[d] = "unlinked"
    /\ dpc' = [dpc EXCEPT ![d] = "closed"]
    /\ UNCHANGED <<path, lock, pidfile, pc, attempt, peer, stage, happened>>

(* cleanup's own os.Remove of the same path, whoever it belongs to by now, *)
(* and the end of the process.                                             *)
RemoveAndExit(d) ==
    /\ dpc[d] = "closed"
    /\ path' = None
    /\ dpc' = [dpc EXCEPT ![d] = "exited"]
    /\ UNCHANGED <<lock, pidfile, pc, attempt, peer, stage, happened>>

(* The daemon process dies and leaves its socket file behind.              *)
Crash(d) ==
    /\ May("crash")
    /\ dpc[d] \notin {"unborn", "exited"}
    /\ happened' = happened \cup {"crash"}
    /\ dpc' = [dpc EXCEPT ![d] = "exited"]
    /\ UNCHANGED <<path, lock, pidfile, pc, attempt, peer, stage>>

DaemonStep(d) ==
    \/ ClearPath(d) \/ Bind(d) \/ Listen(d)
    \/ CloseUnlinks(d) \/ CloseDescriptor(d) \/ RemoveAndExit(d)

Next ==
    \/ \E c \in Clients :
          \/ ClientStep(c) \/ PickUp(c) \/ Answer(c)
          \/ TimeOut(c) \/ GiveUp(c) \/ Abort(c) \/ Kill(c)
    \/ \E d \in Daemons : DaemonStep(d) \/ IdleFires(d) \/ Crash(d)

(* Processes that can run do run, and the poll loop, which reads the clock *)
(* in every round, does not go round for ever.  Trouble is never owed.     *)
Fairness ==
    /\ \A c \in Clients :
          /\ WF_vars(ClientStep(c))
          /\ WF_vars(PickUp(c))
          /\ WF_vars(Answer(c))
          /\ SF_vars(GiveUp(c))
    /\ \A d \in Daemons : WF_vars(DaemonStep(d))

Spec == Init /\ [][Next]_vars

FairSpec == Spec /\ Fairness

-----------------------------------------------------------------------------
(* Properties.                                                             *)

Stages == {"queued", "handled", "answered"}

(* Every variable holds a value of its kind.                               *)
TypeOK ==
    /\ path \in Daemons \cup {None}
    /\ lock \in Clients \cup {None}
    /\ pidfile \in Daemons \cup {None}
    /\ pc \in [Clients -> ClientPC]
    /\ attempt \in [Clients -> Attempts]
    /\ peer \in [Clients -> Daemons \cup {None}]
    /\ stage \in [Clients -> Stages]
    /\ dpc \in [Daemons -> DaemonPC]
    /\ happened \in SUBSET FaultKinds

(* A daemon that serves, or will once its start-up is over.                *)
Live(d) == dpc[d] \in Starting \cup {"serve"}

Dead == {d \in Daemons : dpc[d] = "exited"}

AtMostOne(S) == \A d, e \in S : d = e

Closing == {d \in Daemons : dpc[d] \in Leaving}

(* Trouble the election is built to withstand: crashed daemons and calls   *)
(* that fail before they execute anything.                                 *)
Withstood == {"crash", "nospawn"}

(* EnsureRunning elects one spawner, and the daemon it executes is the only *)
(* one, however many CLI processes race and whatever crashed before.       *)
OneLiveDaemon ==
    happened \subseteq Withstood =>
        \A d, e \in Daemons : Live(d) /\ Live(e) => d = e

(* No daemon is on its way up unless the client that executed it still     *)
(* holds the flock: a spawner hands the lock on only when its daemon is    *)
(* published or gone, also when other daemons shut themselves down.        *)
StartupUnderLock ==
    happened \cap {"slow", "kill"} = {} =>
        \A d \in Daemons :
            dpc[d] \in Starting => lock = d[1] /\ Child(d[1]) = d

(* Run's deferred cleanup takes a step in d.                                *)
CleansUp(d) == dpc[d] \in Leaving /\ dpc'[d] # dpc[d]

(* Unless a client is killed or times out, EnsureRunning's and NewServer's *)
(* removals of the socket path (spawn.go:90, server.go:48) never take a    *)
(* serving daemon's socket away from it, also when other daemons crash or  *)
(* shut down.  The cleanup of one that shuts down may (see                 *)
(* ShutdownRaceIsServed).                                                  *)
SocketKept ==
    [][happened' \cap {"slow", "kill"} = {} =>
        \A d \in Daemons :
            path = d /\ dpc[d] = "serve" /\ dpc'[d] = "serve" =>
                path' = d \/ \E e \in Daemons : CleansUp(e)]_vars

(* With the flock free, the PID file names the daemon that serves, whoever *)
(* recorded a PID before and whatever crashed since.                       *)
PidFileNamesTheDaemon ==
    happened \subseteq Withstood /\ lock = None =>
        \A d \in Daemons : dpc[d] = "serve" => pidfile = d

(* Left alone, every CLI process gets its daemon, and all of them the same *)
(* one: nobody exits with daemon_unavailable or needs the second attempt.  *)
UndisturbedRunsSucceed ==
    happened = {} =>
        \A c \in Clients : pc[c] # "unavailable" /\ attempt[c] = 1

(* runLint's one retry is enough for one crashed daemon: a client whose    *)
(* Ping failed is served by the second attempt.  A daemon that dies before *)
(* its spawner's first poll has reached it still turns that client away.   *)
OneCrashIsSurvived ==
    happened \subseteq {"crash"} /\ AtMostOne(Dead) =>
        \A c \in Clients : pc[c] = "unavailable" => attempt[c] = 1

(* Every CLI process comes to an end: neither the flock, nor the poll loop, *)
(* nor a probe of a daemon that shuts down or crashes can hold it for ever. *)
EveryClientFinishes == <>(\A c \in Clients : pc[c] \in Finished)

-----------------------------------------------------------------------------
(* The inductive invariant behind OneLiveDaemon, StartupUnderLock,         *)
(* SocketKept, PidFileNamesTheDaemon, UndisturbedRunsSucceed and           *)
(* OneCrashIsSurvived, in named parts.                                     *)

Quiet  == happened \cap {"slow", "kill"} = {}
Robust == happened \subseteq Withstood

(* The flock is held exactly by the client inside the critical section.    *)
LockDiscipline == \A c \in Clients : lock = c <=> pc[c] \in Critical

(* Only a probe holds a connection, and the daemon behind it has listened. *)
PeersHaveListened ==
    \A c \in Clients :
        peer[c] # None =>
            pc[c] \in Probing /\ dpc[peer[c]] \notin Starting \cup {"unborn"}

(* A daemon exists once its client's attempt has come past cmd.Start.      *)
SpawnsAreFresh ==
    \A d \in Daemons :
        dpc[d] # "unborn" =>
            \/ d[2] < attempt[d[1]]
            \/ /\ d = Child(d[1])
               /\ pc[d[1]] \in {"record", "poll", "ping"} \cup Finished

(* A daemon that starts up is awaited by the client that executed it.      *)
StartersAreAwaited ==
    Quiet => \A d \in Daemons : dpc[d] \in Starting => Awaited(d)

(* Once the lock holder has cleared the socket path, only its own child's  *)
(* socket appears there, and a poll reaches only the child.                *)
PathIsTheSpawners ==
    Quiet => \A c \in Clients :
        /\ pc[c] = "spawn" => path = None
        /\ pc[c] \in {"record", "poll"} =>
              /\ path \in {None, Child(c)}
              /\ path = Child(c) => dpc[Child(c)] \notin {"unborn", "start", "cleared"}
        /\ pc[c] = "poll" => peer[c] \in {None, Child(c)}

(* The socket path names every daemon that has bound it and lives.         *)
LiveSocketsAreNamed ==
    Robust => \A d \in Daemons :
        /\ dpc[d] \in {"bound", "serve"} => path = d
        /\ dpc[d] \notin Leaving

(* The lock holder's second probe sees the daemon that serves at the       *)
(* socket path, if there is one, and waits for no other's answer.          *)
HolderSees ==
    Quiet => \A c \in Clients :
        path # None /\ dpc[path] = "serve" =>
            /\ pc[c] # "clear"
            /\ pc[c] = "recheck" /\ peer[c] # None => peer[c] = path

(* What the lock holder knows of the live daemons as it goes along.        *)
HolderKnows ==
    Robust => \A c \in Clients, d \in Daemons :
        Live(d) =>
            /\ pc[c] \notin {"clear", "spawn"}
            /\ pc[c] = "recheck" /\ peer[c] # None => peer[c] = d
            /\ pc[c] \in {"record", "poll"} => d = Child(c)

(* A live daemon's PID is in the PID file, or about to be written there.   *)
PidIsRecorded ==
    Robust => \A d \in Daemons :
        Live(d) => pidfile = d \/ (pc[d[1]] = "record" /\ Child(d[1]) = d)

(* A client's second attempt starts after a daemon died, one that is        *)
(* neither its child of that attempt nor behind its connection; and only as *)
(* many deaths as its attempts take an answered client's daemon away.       *)
Withstands(c) == IF attempt[c] = 1 THEN Dead = {} ELSE AtMostOne(Dead)

Survives(c) ==
    /\ pc[c] \in {"record", "poll"} => dpc[Child(c)] # "unborn"
    /\ attempt[c] = 2 => \E d \in Dead : d # Child(c) /\ d # peer[c]
    /\ pc[c] = "ping" /\ Withstands(c) => \E d \in Daemons : dpc[d] = "serve"
    /\ pc[c] = "unavailable" => ~Withstands(c)

CrashesAreSurvived ==
    happened \subseteq {"crash"} =>
        /\ happened = {} => Dead = {}
        /\ \A c \in Clients : Survives(c)

IInv ==
    /\ TypeOK
    /\ LockDiscipline
    /\ PeersHaveListened
    /\ SpawnsAreFresh
    /\ StartersAreAwaited
    /\ PathIsTheSpawners
    /\ HolderSees
    /\ LiveSocketsAreNamed
    /\ HolderKnows
    /\ PidIsRecorded
    /\ OneLiveDaemon
    /\ CrashesAreSurvived

-----------------------------------------------------------------------------
(* What the repository says of the program and a run refutes.              *)

(* features/daemon.feature:59-63: a request that arrives while the daemon  *)
(* shuts down is served by the freshly spawned daemon.                     *)
ShutdownRaceIsServed ==
    happened \subseteq {"idle"} /\ AtMostOne(Dead \cup Closing) =>
        \A c \in Clients : pc[c] # "unavailable"
=============================================================================
