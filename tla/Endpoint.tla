------------------------------ MODULE Endpoint ------------------------------
(***************************************************************************)
(* How clients find, launch and replace the supervisor: the socket and the *)
(* record of supervisor/endpoint.rs, the bootstrap of supervisor/client.rs *)
(* and the life of a daemon in supervisor/service.rs.                      *)
(*                                                                         *)
(* A client looks for the socket, reads the record, and connects.  Where   *)
(* it finds no daemon it launches one, under a lock, and polls until that  *)
(* one answers or exits.  A daemon replaces what a dead one has left, binds*)
(* its socket under a pending name, saves its record and publishes the     *)
(* socket by renaming it.  Any process may die between any two steps.      *)
(*                                                                         *)
(* One runtime directory and one storage context.  Each client is one      *)
(* command and each daemon one process, so both are used once.             *)
(***************************************************************************)
EXTENDS Naturals, FiniteSets

CONSTANTS
    Daemons,    \* bound on the daemons that are launched
    Clients,    \* bound on the commands that are run
    Inodes,     \* inode numbers, taken again once they are free
    None        \* no value

Names == {"socket", "pending"}      \* SOCKET and PENDING_SOCKET
Records == [daemon : Daemons, inode : Inodes]
Leftovers == [name : Names, inode : Inodes]

ASSUME NoneAssumption == None \notin Daemons \cup Inodes \cup Records \cup Leftovers

VARIABLES
    dpc,        \* daemon -> where it is
    listening,  \* daemon -> inode of its listener, while it lives
    stale,      \* daemon -> the name and inode that reconcile looks at
    at,         \* name -> inode of the socket found there
    record,     \* RECORD
    cpc,        \* client -> where it is
    mode,       \* client -> Connection::existing, or ensure before or after its launch
    seen,       \* client -> the record that connect has read
    peer,       \* client -> the daemon that has accepted it
    child,      \* client -> its Launch
    calm,       \* history: client -> nothing was killed or stopped since it began
    upset       \* history: something was killed, stopped or interrupted

files == <<at, record>>
daemon == <<dpc, listening, stale>>
local == <<mode, seen, peer, child>>
history == <<calm, upset>>
vars == <<dpc, listening, stale, at, record, cpc, mode, seen, peer, child,
          history>>

Dead == {"busy", "failed", "stopped", "crashed"}
Binding == {"save", "publish"}
Retiring == {"stopping", "retract"}
Holding == {"reconcile", "dial", "forget", "bind", "serve"} \cup Binding \cup Retiring
DaemonPcs == {"none", "lock"} \cup Holding \cup Dead

Inside == {"look", "read", "verify", "dial", "hello", "spawn", "ready"}
Ended == {"connected", "absent", "error", "interrupted", "killed"}
ClientPcs == {"new", "lock"} \cup Inside \cup Ended

Init ==
    /\ dpc = [d \in Daemons |-> "none"]
    /\ listening = [d \in Daemons |-> None]
    /\ stale = [d \in Daemons |-> None]
    /\ at = [n \in Names |-> None] /\ record = None
    /\ cpc = [c \in Clients |-> "new"]
    /\ mode = [c \in Clients |-> "passive"]
    /\ seen = [c \in Clients |-> None]
    /\ peer = [c \in Clients |-> None]
    /\ child = [c \in Clients |-> None]
    /\ calm = [c \in Clients |-> TRUE] /\ upset = FALSE

-----------------------------------------------------------------------------
(* Endpoint.                                                               *)

Listener(i) == {d \in Daemons : listening[d] = i}

NamesOf(i) == {n \in Names : at[n] = i}

(* An inode lives while it has a name or a listener.                       *)
FreeInodes == {i \in Inodes : Listener(i) = {} /\ NamesOf(i) = {}}

(* Endpoint::verify_at, of a record that was read before.                  *)
Matches(r, n) == r # None /\ at[n] # None /\ r.inode = at[n]

(* A process ends: its lock and its listener go, the files stay.           *)
Exit(d, how) ==
    /\ dpc' = [dpc EXCEPT ![d] = how]
    /\ listening' = [listening EXCEPT ![d] = None]
    /\ stale' = [stale EXCEPT ![d] = None]

Goto(d, where) ==
    /\ dpc' = [dpc EXCEPT ![d] = where]
    /\ UNCHANGED <<listening, stale>>

-----------------------------------------------------------------------------
(* The daemon.                                                             *)

(* Mutant: the lock of the state directory is not respected.               *)
TryLockAny(d) == TRUE

(* .supervisor.lock of the state directory.                                *)
TryLock(d) == \A e \in Daemons : dpc[e] \notin Holding

TakeLock(d) ==
    /\ dpc[d] = "lock"
    /\ IF TryLock(d) THEN Goto(d, "reconcile") ELSE Exit(d, "busy")
    /\ UNCHANGED <<files, cpc, local, history>>

(* Mutant: only a published socket counts as a leftover.                   *)
StaleNamePublished == "socket"

(* Endpoint::reconcile: which name is looked at.                           *)
StaleName == IF at["socket"] # None THEN "socket" ELSE "pending"

(* The first half of reconcile: a leftover must be that of the record.     *)
Reconcile(d) ==
    /\ dpc[d] = "reconcile"
    /\ IF at[StaleName] = None THEN Goto(d, "bind")
       ELSE IF Matches(record, StaleName)
         THEN /\ dpc' = [dpc EXCEPT ![d] = "dial"]
              /\ stale' = [stale EXCEPT ![d] = [name |-> StaleName, inode |-> record.inode]]
              /\ UNCHANGED listening
         ELSE Exit(d, "failed")
    /\ UNCHANGED <<files, cpc, local, history>>

(* The second half: it is removed when nobody listens on it any more.      *)
Replace(d) ==
    /\ dpc[d] = "dial"
    /\ LET s == stale[d] IN
       IF /\ at[s.name] = s.inode /\ Listener(s.inode) = {}
         THEN Goto(d, "forget") /\ at' = [at EXCEPT ![s.name] = None]
         ELSE Exit(d, "failed") /\ UNCHANGED at
    /\ UNCHANGED <<record, cpc, local, history>>

Forget(d) ==
    /\ dpc[d] = "forget"
    /\ Goto(d, "bind") /\ record' = None
    /\ UNCHANGED <<at, cpc, local, history>>

(* UnixListener::bind on the pending name.                                 *)
Bind(d) ==
    /\ dpc[d] = "bind"
    /\ IF at["pending"] # None
         THEN Exit(d, "failed") /\ UNCHANGED at
         ELSE \E i \in FreeInodes :
              /\ dpc' = [dpc EXCEPT ![d] = "save"]
              /\ listening' = [listening EXCEPT ![d] = i]
              /\ at' = [at EXCEPT !["pending"] = i]
              /\ UNCHANGED stale
    /\ UNCHANGED <<record, cpc, local, history>>

(* Mutant: the socket is published without waiting for the record.         *)
SavePublished(d) ==
    IF at["pending"] = listening[d]
      THEN /\ Goto(d, "save") /\ UNCHANGED record
           /\ at' = [at EXCEPT !["socket"] = at["pending"], !["pending"] = None]
      ELSE /\ Goto(d, "serve") /\ UNCHANGED at
           /\ record' = [daemon |-> d, inode |-> listening[d]]

(* Endpoint::save: the record appears by a rename.                         *)
Save(d) ==
    /\ Goto(d, "publish")
    /\ record' = [daemon |-> d, inode |-> listening[d]]
    /\ UNCHANGED at

SaveRecord(d) ==
    /\ dpc[d] = "save" /\ Save(d)
    /\ UNCHANGED <<cpc, local, history>>

(* Directory::replace of the pending name.                                 *)
Publish(d) ==
    /\ dpc[d] = "publish" /\ at["pending"] # None
    /\ Goto(d, "serve")
    /\ at' = [at EXCEPT !["socket"] = at["pending"], !["pending"] = None]
    /\ UNCHANGED <<record, cpc, local, history>>

(* The manager has shut down: Endpoint::remove.                            *)
Retract(d) ==
    /\ dpc[d] = "stopping"
    /\ IF at["socket"] = listening[d]
         THEN Goto(d, "retract") /\ at' = [at EXCEPT !["socket"] = None]
         ELSE Exit(d, "failed") /\ UNCHANGED at
    /\ UNCHANGED <<record, cpc, local, history>>

Leave(d) ==
    /\ dpc[d] = "retract"
    /\ Exit(d, "stopped") /\ record' = None
    /\ UNCHANGED <<at, cpc, local, history>>

DaemonStep(d) ==
    \/ TakeLock(d) \/ Reconcile(d) \/ Replace(d) \/ Forget(d) \/ Bind(d)
    \/ SaveRecord(d) \/ Publish(d) \/ Retract(d) \/ Leave(d)

(* Commands in progress no longer run undisturbed.                         *)
Disturb ==
    /\ upset' = TRUE
    /\ calm' = [c \in Clients |-> calm[c] /\ cpc[c] \in Ended \cup {"new"}]

(* A Shutdown request, SIGTERM or SIGINT.                                  *)
Stop(d) ==
    /\ dpc[d] = "serve"
    /\ Goto(d, "stopping") /\ Disturb
    /\ UNCHANGED <<files, cpc, local>>

(* A daemon is killed, or ends on an error of the operating system.        *)
Crash(d) ==
    /\ dpc[d] \notin Dead \cup {"none"}
    /\ Exit(d, "crashed") /\ Disturb
    /\ UNCHANGED <<files, cpc, local>>

-----------------------------------------------------------------------------
(* The client.                                                             *)

Move(c, where) == cpc' = [cpc EXCEPT ![c] = where]

(* Launch::drop: a daemon that has not been detached is killed.            *)
DropLaunch(c) ==
    IF child[c] # None /\ dpc[child[c]] \notin Dead
      THEN Exit(child[c], "crashed")
      ELSE UNCHANGED daemon

Fail(c) == Move(c, "error") /\ DropLaunch(c)

(* connect found no daemon.                                                *)
Nothing(c) ==
    /\ Move(c, CASE mode[c] = "passive" -> "absent"
                 [] mode[c] = "first" -> "spawn"
                 [] mode[c] = "launched" -> "ready")
    /\ UNCHANGED daemon

(* Nothing is on its way up or down.                                       *)
Settled == \A d \in Daemons : dpc[d] \in Dead \cup {"none", "serve"}

(* Connection::existing takes no lock, Connection::ensure does.            *)
Start(c) ==
    /\ cpc[c] = "new"
    /\ calm' = [calm EXCEPT ![c] = Settled]
    /\ \/ Move(c, "look") /\ mode' = [mode EXCEPT ![c] = "passive"]
       \/ Move(c, "lock") /\ mode' = [mode EXCEPT ![c] = "first"]
    /\ UNCHANGED <<daemon, files, seen, peer, child, upset>>

(* Mutant: commands do not wait for each other.                            *)
BootstrapAny(c) == TRUE

(* .bootstrap.lock of the runtime directory, held until ensure returns.    *)
Bootstrap(c) == \A e \in Clients : ~ (mode[e] # "passive" /\ cpc[e] \in Inside)

Acquire(c) ==
    /\ cpc[c] = "lock" /\ Bootstrap(c)
    /\ Move(c, "look")
    /\ UNCHANGED <<daemon, files, local, history>>

(* connect: whether there is a socket is seen before the record is read.   *)
Look(c) ==
    /\ cpc[c] = "look"
    /\ IF at["socket"] # None
         THEN Move(c, "read") /\ UNCHANGED daemon
         ELSE Nothing(c)
    /\ UNCHANGED <<files, local, history>>

Read(c) ==
    /\ cpc[c] = "read"
    /\ seen' = [seen EXCEPT ![c] = record]
    /\ IF record = None THEN Fail(c) ELSE Move(c, "verify") /\ UNCHANGED daemon
    /\ UNCHANGED <<files, mode, peer, child, history>>

Verify(c) ==
    /\ cpc[c] = "verify"
    /\ IF Matches(seen[c], "socket")
         THEN Move(c, "dial") /\ UNCHANGED daemon
         ELSE Fail(c)
    /\ UNCHANGED <<files, local, history>>

(* UnixStream::connect, and the process at the other end.                  *)
Dial(c) ==
    /\ cpc[c] = "dial"
    /\ \/ at["socket"] = None /\ Fail(c) /\ UNCHANGED peer
       \/ /\ at["socket"] # None /\ Listener(at["socket"]) = {}
          /\ Nothing(c) /\ UNCHANGED peer
       \/ \E d \in Listener(at["socket"]) :
          /\ peer' = [peer EXCEPT ![c] = d]
          /\ at["socket"] # None
          /\ IF seen[c].daemon = d
               THEN Move(c, "hello") /\ UNCHANGED daemon
               ELSE Fail(c)
    /\ UNCHANGED <<files, mode, seen, child, history>>

(* The daemon answers, or its end closes the stream.                       *)
Hello(c) ==
    /\ cpc[c] = "hello"
    /\ \/ dpc[peer[c]] = "serve" /\ Move(c, "connected") /\ UNCHANGED daemon
       \/ dpc[peer[c]] \in Dead /\ Fail(c)
    /\ UNCHANGED <<files, local, history>>

Spawn(c) ==
    /\ cpc[c] = "spawn"
    /\ \E d \in Daemons :
       /\ dpc[d] = "none" /\ Goto(d, "lock")
       /\ child' = [child EXCEPT ![c] = d]
    /\ mode' = [mode EXCEPT ![c] = "launched"]
    /\ Move(c, "ready")
    /\ UNCHANGED <<files, seen, peer, history>>

(* Launch::ready: a round begins with a look at the child.                 *)
Poll(c) ==
    /\ cpc[c] = "ready"
    /\ IF dpc[child[c]] \in Dead
         THEN Fail(c)
         ELSE Move(c, "look") /\ UNCHANGED daemon
    /\ UNCHANGED <<files, local, history>>

ClientStep(c) ==
    \/ Acquire(c) \/ Look(c) \/ Read(c) \/ Verify(c)
    \/ Dial(c) \/ Hello(c) \/ Spawn(c) \/ Poll(c)

(* The deadline of the command or Ctrl-C: Operation::run drops the future. *)
Interrupt(c) ==
    /\ cpc[c] \in Inside \cup {"lock"}
    /\ Move(c, "interrupted") /\ DropLaunch(c) /\ Disturb
    /\ UNCHANGED <<files, local>>

(* The client is killed: what it has launched goes on.                     *)
Kill(c) ==
    /\ cpc[c] \in Inside \cup {"lock"}
    /\ Move(c, "killed") /\ Disturb
    /\ UNCHANGED <<daemon, files, local>>

-----------------------------------------------------------------------------

Next ==
    \/ \E d \in Daemons : DaemonStep(d) \/ Stop(d) \/ Crash(d)
    \/ \E c \in Clients : Start(c) \/ ClientStep(c) \/ Interrupt(c) \/ Kill(c)

Spec == Init /\ [][Next]_vars

(* Processes that live are scheduled.  Nobody has to start, stop or kill.  *)
Fairness ==
    /\ \A d \in Daemons : WF_vars(DaemonStep(d))
    /\ \A c \in Clients : WF_vars(ClientStep(c))

FairSpec == Spec /\ Fairness

-----------------------------------------------------------------------------
(* Properties.                                                             *)

(* Program points and values of the processes agree: only a daemon between *)
(* bind and its end has a listener, only dial has something to replace.    *)
TypeOK ==
    /\ dpc \in [Daemons -> DaemonPcs]
    /\ listening \in [Daemons -> Inodes \cup {None}]
    /\ \A d \in Daemons :
       listening[d] # None <=> dpc[d] \in Binding \cup Retiring \cup {"serve"}
    /\ stale \in [Daemons -> Leftovers \cup {None}]
    /\ \A d \in Daemons : dpc[d] = "dial" => stale[d] # None
    /\ at \in [Names -> Inodes \cup {None}]
    /\ record \in Records \cup {None}
    /\ cpc \in [Clients -> ClientPcs]
    /\ mode \in [Clients -> {"passive", "first", "launched"}]
    /\ seen \in [Clients -> Records \cup {None}]
    /\ peer \in [Clients -> Daemons \cup {None}]
    /\ child \in [Clients -> Daemons \cup {None}]
    /\ calm \in [Clients -> BOOLEAN] /\ upset \in BOOLEAN
    /\ \A c \in Clients :
       /\ mode[c] = "launched" <=> child[c] # None
       /\ cpc[c] = "new" => child[c] = None
       /\ cpc[c] = "hello" => peer[c] # None
       /\ cpc[c] \in {"verify", "dial"} => seen[c] # None

(* A daemon that serves can be found: socket and record are its own.  So   *)
(* there is never a second one, and no client, deadline or later daemon    *)
(* can take its files away (service.rs lock, endpoint.rs reconcile).       *)
ServingReachable ==
    \A d \in Daemons : dpc[d] = "serve" =>
        /\ at["socket"] = listening[d]
        /\ record = [daemon |-> d, inode |-> listening[d]]

(* While no process was killed, stopped or interrupted, no command fails,  *)
(* whenever it looks at a daemon that is starting (client.rs connect: "The *)
(* daemon publishes the record before the socket").                        *)
StartIsClean == ~ upset => \A c \in Clients : cpc[c] # "error"

(* A daemon with the lock gives up only over a pending socket that has no  *)
(* record: it replaces whatever else a dead one left, wherever that died.  *)
Orphan == at["pending"] # None /\ ~ Matches(record, "pending")

RecoversOthers ==
    [][\A d \in Daemons :
        dpc[d] # "failed" /\ dpc'[d] = "failed" => Orphan]_vars

(* Commands that begin at the same time all get a connection.              *)
FirstCallsConnect ==
    \A c \in Clients : cpc[c] = "lock" ~> cpc[c] = "connected" \/ upset

(* What the repository promises of crashes, and does not keep: whatever a  *)
(* dead daemon left is replaced by the next one ...                        *)
StaleReplaced == \A d \in Daemons : dpc[d] # "failed"

(* ... and a command that launches a daemon over a recorded leftover, while*)
(* nothing else dies, is stopped or is interrupted, gets its connection.   *)
RestartOnNextUse ==
    \A c \in Clients :
        cpc[c] = "error" /\ mode[c] = "launched" /\ calm[c] =>
            \E d \in Daemons : dpc[d] = "failed"

=============================================================================
