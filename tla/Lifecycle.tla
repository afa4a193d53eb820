------------------------------ MODULE Lifecycle ------------------------------
(****************************************************************************)
(* The supervisor's management of local MCP servers: the request handlers   *)
(* of supervisor/manager.rs and manager/{execute,uninstall}.rs, the         *)
(* maintenance barrier, the guard processes of supervisor/guardian.rs, the  *)
(* ownership lease they share, and the death and restart of the daemon.     *)
(*                                                                          *)
(* The daemon runs on a current-thread runtime, so what a handler does      *)
(* between two awaits is one step here.  Configuration and trust files      *)
(* belong to other processes and may change between any two steps.  A       *)
(* guard, its server process and that server's descendants run in parallel  *)
(* with the daemon and outlive it.                                          *)
(****************************************************************************)
EXTENDS Naturals, FiniteSets

CONSTANTS
    Roots,          \* project roots; each is the scope of one configuration file
    User,           \* the user scope, and the cwd of a caller outside any project
    Digests,        \* contents a configuration file may have
    EnabledDigests, \* the contents under which the server and its tool are enabled
    Envs,           \* environments callers send along
    Requests,       \* request tasks the daemon may serve at once
    Guards,         \* guard processes that may exist at once
    ContainerKeys,  \* the scopes whose definition uses the Docker runtime
    Offered,        \* the actions callers ask for
    QueueLimit,     \* admitted operations per slot (16 in the code)
    None            \* no value

Keys == Roots \cup {User}

ASSUME ScopeAssumption == User \notin Roots /\ ContainerKeys \subseteq Keys
ASSUME DigestAssumption == EnabledDigests \subseteq Digests
ASSUME NoneAssumption ==
    None \notin Keys \cup Digests \cup Envs \cup Requests \cup Guards
ASSUME QueueAssumption == QueueLimit \in Nat \ {0}

(* The effective revision of launch.rs hashes the server's identity, its     *)
(* installation and the resolved environment; `digest' stands for the first  *)
(* two.                                                                     *)
Identities == [key : Keys, digest : Digests]
Revisions  == [key : Keys, digest : Digests, env : Envs]

(* What a removal's plan names: the server's definition may be gone already. *)
Planned == [key : Keys, digest : Digests \cup {None}]

Actions == {"start", "tools", "call", "stop", "uninstall"}

ASSUME OfferedAssumption == Offered \subseteq Actions

VARIABLES
    config,     \* scope -> the configuration file's digest, None without the server
    approved,   \* project root -> the digest trust.json approves
    daemon,     \* "down", "up", "closing" or "draining"
    client,     \* slot -> the guard its State.client is connected to
    revision,   \* slot -> State.revision
    pc,         \* request -> where its handler is
    job,        \* request -> the handler's arguments and locals
    gst,        \* guard -> where guardian::supervise is; "dead" is no process
    gkey,       \* guard -> the slot it was started for
    grev,       \* guard -> the revision it was started with
    held,       \* guard -> its open lease file description is locked
    child,      \* guard -> its server process is alive
    stray,      \* guard -> descendants that left the group are alive
    orphan,     \* guard -> the daemon that started it is dead
    closed,     \* guard -> its connection's registry is closed
    container,  \* guard -> what the container engine holds for its nonce
    marker,     \* slots with a .failed recovery record
    probe       \* slots whose lease a status report is looking at

files    == <<config, approved>>
slots    == <<client, revision>>
requests == <<pc, job>>
guards   == <<gst, gkey, grev, held, child, stray, orphan>>
outside  == <<container, marker, probe>>
vars == <<config, approved, daemon, client, revision, pc, job, gst, gkey, grev,
          held, child, stray, orphan, closed, container, marker, probe>>

IdleJob == [action |-> None, cwd |-> None, env |-> None, key |-> None,
            seen |-> None, prep |-> None, guard |-> None]

----------------------------------------------------------------------------
(* Policy: what Effective::load reads from the files.                        *)

(* A project's entry shadows the user's entry of the same name, trusted or   *)
(* not.                                                                      *)
Resolve(cwd) == IF config[cwd] # None THEN cwd ELSE User

Approved(k, d) == k \in Roots => approved[k] = d

(* Manager::effective for every action but Stop: the server is configured,   *)
(* its project is trusted and server and tool are enabled.                   *)
Authorized(cwd) ==
    LET k == Resolve(cwd) IN
    /\ config[k] \in EnabledDigests
    /\ Approved(k, config[k])

(* Effective::identity; the configuration digest is part of it.              *)
Identity(cwd) == [key |-> Resolve(cwd), digest |-> config[Resolve(cwd)]]

(* Mutant: a revision that leaves out the caller's environment.              *)
RevisionWithoutEnvironment(j) == [key |-> j.seen.key, digest |-> j.seen.digest]

(* The revision Prepared::load computes from the identity a handler has read *)
(* and the environment its caller sent.                                      *)
RevisionOf(j) == [key |-> j.seen.key, digest |-> j.seen.digest, env |-> j.env]

(* The second half of a recheck: after the awaits of Prepared::load the      *)
(* policy is read once more and must give the identity that was loaded, and  *)
(* that load must give the expected revision.                                *)
Unchanged(j, rev) ==
    /\ Authorized(j.cwd)
    /\ Identity(j.cwd) = j.seen
    /\ RevisionOf(j) = rev

----------------------------------------------------------------------------
(* Who holds what.                                                           *)

ReaderPCs == {"queued", "prepare", "stopping", "replacing", "lease", "leased",
              "connect", "attach", "abort", "invoke", "report", "lookup",
              "final", "call", "answer", "prompt"}
WriterPCs == {"plan", "quiesce", "delete"}
SlotPCs   == ReaderPCs \ {"queued"}

Readers == {r \in Requests : pc[r] \in ReaderPCs}
Writers == {r \in Requests : pc[r] \in WriterPCs}
SlotFree(k) == \A r \in Requests : ~(pc[r] \in SlotPCs /\ job[r].key = k)
Queue(k)    == {r \in Readers : job[r].key = k}

(* Mutant: the server does not inherit the lease.                            *)
HoldsLeaseAlone(g) == held[g] /\ gst[g] # "dead"

(* A guard's lock lives in an open file description that its server process  *)
(* and that server's descendants inherit: it is held while any of them lives. *)
HoldsLease(g) == held[g] /\ (gst[g] # "dead" \/ child[g] \/ stray[g])

LeaseFree(k) ==
    /\ k \notin probe
    /\ \A g \in Guards : ~(HoldsLease(g) /\ gkey[g] = k)
    /\ \A r \in Requests : ~(pc[r] = "leased" /\ job[r].key = k)

(* Mutants: one half of require_clean.                                       *)
RequireNoRecord(k) == k \notin marker
RequireNoHolder(k) == LeaseFree(k)

RequireClean(k) == k \notin marker /\ LeaseFree(k)

(* A guard identifier that stands for no process, file or connection.        *)
Unused(g) ==
    /\ gst[g] = "dead" /\ ~child[g] /\ ~stray[g]
    /\ container[g] \in {"none", "gone"}
    /\ \A k \in Keys : client[k] # g
    /\ \A r \in Requests : job[r].guard # g

----------------------------------------------------------------------------
Init ==
    /\ config \in [Keys -> Digests \cup {None}]
    /\ approved \in [Roots -> Digests \cup {None}]
    /\ daemon = "down"
    /\ client = [k \in Keys |-> None]
    /\ revision = [k \in Keys |-> None]
    /\ pc = [r \in Requests |-> "idle"]
    /\ job = [r \in Requests |-> IdleJob]
    /\ gst = [g \in Guards |-> "dead"]
    /\ gkey = [g \in Guards |-> None]
    /\ grev = [g \in Guards |-> None]
    /\ held = [g \in Guards |-> FALSE]
    /\ child = [g \in Guards |-> FALSE]
    /\ stray = [g \in Guards |-> FALSE]
    /\ orphan = [g \in Guards |-> FALSE]
    /\ closed = [g \in Guards |-> FALSE]
    /\ container = [g \in Guards |-> "none"]
    /\ marker = {}
    /\ probe = {}

----------------------------------------------------------------------------
(* Request handlers: Manager::local, Manager::execute, Manager::uninstall.   *)

Goto(r, p) == pc' = [pc EXCEPT ![r] = p]

(* A handler returns: every guard it holds (barrier, queue permit, slot      *)
(* mutex, lease) is dropped with its frame.                                  *)
Return(r, outcome) ==
    /\ Goto(r, outcome)
    /\ job' = [job EXCEPT ![r] = IdleJob]

(* Manager::recheck up to its await: the policy is read and kept while the   *)
(* environment is resolved.                                                  *)
Recheck(r, p) ==
    /\ Authorized(job[r].cwd)
    /\ Goto(r, p)
    /\ job' = [job EXCEPT ![r].seen = Identity(job[r].cwd)]

(* Mutant: shutdown does not cancel the connection's worker.                 *)
ShutdownWithoutStop(g) == closed' = [closed EXCEPT ![g] = @]

(* Client::shutdown up to its await: requests on the connection end and its  *)
(* worker starts to terminate the guard.                                     *)
Shutdown(g) == closed' = [closed EXCEPT ![g] = TRUE]

Submit(r, action, cwd, env) ==
    /\ daemon = "up"
    /\ pc[r] \in {"idle", "ok"}
    /\ Goto(r, "gate")
    /\ job' = [job EXCEPT ![r] = [IdleJob EXCEPT !.action = action, !.cwd = cwd,
                                                 !.env = env]]
    /\ UNCHANGED <<files, daemon, slots, guards, closed, outside>>

(* Barrier::enter, the first policy read, and admission to the slot's queue. *)
Enter(r) ==
    LET k == Resolve(job[r].cwd) IN
    /\ pc[r] = "gate" /\ job[r].action # "uninstall"
    /\ daemon = "up" /\ Writers = {}
    /\ config[k] # None
    /\ job[r].action # "stop" => Authorized(job[r].cwd)
    /\ Cardinality(Queue(k)) < QueueLimit
    /\ Goto(r, "queued")
    /\ job' = [job EXCEPT ![r].key = k]
    /\ UNCHANGED <<files, daemon, slots, guards, closed, outside>>

(* The slot mutex is granted to an operation other than Stop.                *)
Admit(r) ==
    /\ pc[r] = "queued" /\ job[r].action # "stop"
    /\ SlotFree(job[r].key)
    /\ Resolve(job[r].cwd) = job[r].key
    /\ Recheck(r, "prepare")
    /\ UNCHANGED <<files, daemon, slots, guards, closed, outside>>

(* The slot mutex is granted to Stop, which closes whatever the slot owns    *)
(* without asking the policy.                                                *)
Stop(r) ==
    LET k == job[r].key IN
    /\ pc[r] = "queued" /\ job[r].action = "stop"
    /\ SlotFree(k)
    /\ Resolve(job[r].cwd) = k /\ config[k] # None
    /\ Goto(r, "stopping")
    /\ IF client[k] = None THEN UNCHANGED closed ELSE Shutdown(client[k])
    /\ UNCHANGED <<files, daemon, slots, job, guards, outside>>

(* Mutant: stop() does not wait for the worker.                              *)
ShutdownNotAwaited(k) == TRUE

(* stop() has nothing left to wait for: the worker of the slot's connection  *)
(* ends once the guard has exited.                                           *)
ShutdownDone(k) == client[k] # None => gst[client[k]] = "dead"

(* The end of Stop: success is reported only if the slot's resources are     *)
(* gone.                                                                     *)
StopDone(r) ==
    LET k == job[r].key IN
    /\ pc[r] = "stopping" /\ ShutdownDone(k)
    /\ client' = [client EXCEPT ![k] = None]
    /\ Return(r, IF RequireClean(k) THEN "ok" ELSE "idle")
    /\ UNCHANGED <<files, daemon, revision, guards, closed, outside>>

(* Mutant: an open connection is found again without comparing revisions.    *)
ReusableWhileOpen(r) ==
    LET k == job[r].key IN client[k] # None /\ ~closed[client[k]]

(* Prepared::load has returned and the identity is still the same: the first *)
(* decision of execute.                                                      *)
Reusable(r) ==
    LET k == job[r].key IN
    /\ client[k] # None
    /\ ~closed[client[k]]
    /\ revision[k] = RevisionOf(job[r])

Reuse(r) ==
    /\ pc[r] = "prepare" /\ Unchanged(job[r], RevisionOf(job[r]))
    /\ Reusable(r)
    /\ IF job[r].action = "start"
         THEN Return(r, "ok")
         ELSE /\ Goto(r, "invoke")
              /\ job' = [job EXCEPT ![r].prep = RevisionOf(job[r])]
    /\ UNCHANGED <<files, daemon, slots, guards, closed, outside>>

Replace(r) ==
    LET k == job[r].key IN
    /\ pc[r] = "prepare" /\ Unchanged(job[r], RevisionOf(job[r]))
    /\ ~Reusable(r)
    /\ job' = [job EXCEPT ![r].prep = RevisionOf(job[r])]
    /\ IF client[k] = None
         THEN Goto(r, "lease") /\ UNCHANGED closed
         ELSE Goto(r, "replacing") /\ Shutdown(client[k])
    /\ UNCHANGED <<files, daemon, slots, guards, outside>>

(* The old process is gone.  The policy is read again, and it is the slot of *)
(* the identity read now that must be clean.                                 *)
ReplaceDone(r) ==
    LET k == job[r].key IN
    /\ pc[r] = "replacing" /\ ShutdownDone(k)
    /\ client' = [client EXCEPT ![k] = None]
    /\ IF Authorized(job[r].cwd) /\ RequireClean(Resolve(job[r].cwd))
         THEN Goto(r, "lease") /\ UNCHANGED job
         ELSE Return(r, "idle")
    /\ UNCHANGED <<files, daemon, revision, guards, closed, outside>>

(* Manager::lease returns with the lock and no recovery record; the recheck  *)
(* after the wait begins.                                                    *)
Lease(r) ==
    /\ pc[r] = "lease"
    /\ LeaseFree(job[r].key) /\ job[r].key \notin marker
    /\ Recheck(r, "leased")
    /\ UNCHANGED <<files, daemon, slots, guards, closed, outside>>

(* The recheck succeeds; the lease is dropped and the guard started without  *)
(* another await.                                                            *)
Launch(r, g) ==
    /\ pc[r] = "leased" /\ Unchanged(job[r], job[r].prep)
    /\ Unused(g)
    /\ Goto(r, "connect")
    /\ job' = [job EXCEPT ![r].guard = g]
    /\ gst' = [gst EXCEPT ![g] = "boot"]
    /\ gkey' = [gkey EXCEPT ![g] = job[r].key]
    /\ grev' = [grev EXCEPT ![g] = job[r].prep]
    /\ held' = [held EXCEPT ![g] = FALSE]
    /\ orphan' = [orphan EXCEPT ![g] = FALSE]
    /\ closed' = [closed EXCEPT ![g] = FALSE]
    /\ container' = [container EXCEPT ![g] = "none"]
    /\ UNCHANGED <<files, daemon, slots, child, stray, marker, probe>>

(* The server has answered server/discover; the recheck before the client is *)
(* kept begins.                                                              *)
Connect(r) ==
    LET g == job[r].guard IN
    /\ pc[r] = "connect"
    /\ child[g] /\ gst[g] = "running" /\ ~closed[g]
    /\ Recheck(r, "attach")
    /\ UNCHANGED <<files, daemon, slots, guards, closed, outside>>

Attach(r) ==
    LET k == job[r].key IN
    /\ pc[r] = "attach" /\ Unchanged(job[r], job[r].prep)
    /\ client' = [client EXCEPT ![k] = job[r].guard]
    /\ revision' = [revision EXCEPT ![k] = job[r].prep]
    /\ IF job[r].action = "start"
         THEN Return(r, "ok")
         ELSE /\ Goto(r, "invoke")
              /\ job' = [job EXCEPT ![r].guard = None]
    /\ UNCHANGED <<files, daemon, guards, closed, outside>>

(* Client::shutdown of a connection that was never kept.                     *)
AbortDone(r) ==
    /\ pc[r] = "abort" /\ gst[job[r].guard] = "dead"
    /\ Return(r, "idle")
    /\ UNCHANGED <<files, daemon, slots, guards, closed, outside>>

(* invoke: tools/list has been answered on an open connection.               *)
Discover(r) ==
    LET k == job[r].key IN
    /\ pc[r] = "invoke"
    /\ client[k] # None /\ ~closed[client[k]]
    /\ Recheck(r, IF job[r].action = "call" THEN "lookup" ELSE "report")
    /\ UNCHANGED <<files, daemon, slots, guards, closed, outside>>

Report(r) ==
    /\ pc[r] = "report" /\ Unchanged(job[r], revision[job[r].key])
    /\ Return(r, "ok")
    /\ UNCHANGED <<files, daemon, slots, guards, closed, outside>>

(* The check between discovery and invocation has passed; call_tool_checked  *)
(* starts its own before the first tools/call.                               *)
Looked(r) ==
    /\ pc[r] = "lookup" /\ Unchanged(job[r], revision[job[r].key])
    /\ Recheck(r, "final")
    /\ UNCHANGED <<files, daemon, slots, guards, closed, outside>>

(* tools/call is sent, in the same step as the check that precedes it.       *)
Call(r) ==
    /\ pc[r] = "final" /\ Unchanged(job[r], revision[job[r].key])
    /\ ~closed[client[job[r].key]]
    /\ Goto(r, "call")
    /\ UNCHANGED <<files, daemon, slots, job, guards, closed, outside>>

Answer(r) ==
    /\ pc[r] = "call"
    /\ ~closed[client[job[r].key]]
    /\ \/ Return(r, "ok")
       \/ Recheck(r, "answer")      \* input_required
    /\ UNCHANGED <<files, daemon, slots, guards, closed, outside>>

Ask(r) ==
    /\ pc[r] = "answer" /\ Unchanged(job[r], revision[job[r].key])
    /\ Goto(r, "prompt")
    /\ UNCHANGED <<files, daemon, slots, job, guards, closed, outside>>

(* The user has answered; the next round starts with a recheck.              *)
Continue(r) ==
    /\ pc[r] = "prompt"
    /\ Recheck(r, "final")
    /\ UNCHANGED <<files, daemon, slots, guards, closed, outside>>

(* Every early return: a policy read that fails, a full queue, cancellation, *)
(* the deadline, an error of the server or of a file.  Once a guard has been *)
(* started and its connection is not kept, the handler shuts it down first.  *)
(* The waits of stop() and of Client::shutdown are not cancellable.          *)
Fail(r) ==
    /\ pc[r] \notin {"idle", "ok", "stopping", "replacing", "abort", "quiesce"}
    /\ IF pc[r] \in {"connect", "attach"}
         THEN Goto(r, "abort") /\ Shutdown(job[r].guard) /\ UNCHANGED job
         ELSE Return(r, "idle") /\ UNCHANGED closed
    /\ UNCHANGED <<files, daemon, slots, guards, outside>>

(* Manager::uninstall: the barrier is held exclusively while the plan is     *)
(* built for the selected scope, the configuration locked and the journal    *)
(* opened.  The retry of a removal finds the server's entry gone already and *)
(* goes by the record that was kept of it.                                   *)
Plan(r) ==
    LET k == job[r].cwd IN
    /\ pc[r] = "gate" /\ job[r].action = "uninstall"
    /\ daemon = "up" /\ Readers = {} /\ Writers = {}
    /\ Goto(r, "plan")
    /\ job' = [job EXCEPT ![r].key = k,
                          ![r].seen = [key |-> k, digest |-> config[k]]]
    /\ UNCHANGED <<files, daemon, slots, guards, closed, outside>>

(* apply_uninstall takes the slot mutex, verifies the file and stops.        *)
Quiesce(r) ==
    LET k == job[r].key IN
    /\ pc[r] = "plan" /\ config[k] = job[r].seen.digest
    /\ SlotFree(k)
    /\ Goto(r, "quiesce")
    /\ IF client[k] = None THEN UNCHANGED closed ELSE Shutdown(client[k])
    /\ UNCHANGED <<files, daemon, slots, job, guards, outside>>

(* The rest of apply_uninstall.  The entry is removed, if there still is     *)
(* one, when the slot is clean and the file the planned one.  Besides, the   *)
(* installation's own lease may be held, a save may fail, and the journal    *)
(* may not record the removal after the entry went: then nothing is deleted. *)
Unregister(r) ==
    LET k == job[r].key IN
    /\ pc[r] = "quiesce" /\ ShutdownDone(k)
    /\ client' = [client EXCEPT ![k] = None]
    /\ \/ /\ RequireClean(k) /\ config[k] = job[r].seen.digest
          /\ config' = [config EXCEPT ![k] = None]
          /\ \/ Goto(r, "delete") /\ UNCHANGED job
             \/ Return(r, "idle")
       \/ Return(r, "idle") /\ UNCHANGED config
    /\ UNCHANGED <<approved, daemon, revision, guards, closed, outside>>

(* journal::delete has removed the installation's resources.                 *)
Deleted(r) ==
    /\ pc[r] = "delete"
    /\ Return(r, "ok")
    /\ UNCHANGED <<files, daemon, slots, guards, closed, outside>>

----------------------------------------------------------------------------
(* The daemon's own life: service::serve and Manager::shutdown.              *)

(* `.supervisor.lock' admits one daemon; see module Endpoint.                *)
Boot ==
    /\ daemon = "down"
    /\ daemon' = "up"
    /\ UNCHANGED <<files, slots, requests, guards, closed, outside>>

(* A signal or a Shutdown request: accept ends and Barrier::close is called. *)
Close ==
    /\ daemon = "up"
    /\ daemon' = "closing"
    /\ UNCHANGED <<files, slots, requests, guards, closed, outside>>

(* The barrier is drained: every slot is stopped.                            *)
Drain ==
    /\ daemon = "closing" /\ Readers = {} /\ Writers = {}
    /\ daemon' = "draining"
    /\ closed' = [g \in Guards |-> closed[g] \/ \E k \in Keys : client[k] = g]
    /\ UNCHANGED <<files, slots, requests, guards, outside>>

(* What the death of the daemon's process takes with it: slots and handlers. *)
(* Its guards live on as orphans.                                            *)
Vanish ==
    /\ daemon' = "down"
    /\ client' = [k \in Keys |-> None]
    /\ revision' = [k \in Keys |-> None]
    /\ pc' = [r \in Requests |-> "idle"]
    /\ job' = [r \in Requests |-> IdleJob]
    /\ orphan' = [g \in Guards |-> TRUE]
    /\ UNCHANGED <<files, gst, gkey, grev, held, child, stray, closed,
                   outside>>

Exit ==
    /\ daemon = "draining" /\ \A k \in Keys : ShutdownDone(k)
    /\ Vanish

Crash ==
    /\ daemon # "down"
    /\ Vanish

(* A connection's worker sees end of file, a protocol violation or the exit  *)
(* of the guard: the registry is closed and the guard terminated.            *)
Disconnect(g) ==
    /\ ~closed[g] /\ ~orphan[g]
    /\ \/ \E k \in Keys : client[k] = g
       \/ \E r \in Requests : job[r].guard = g
    /\ Shutdown(g)
    /\ UNCHANGED <<files, daemon, slots, requests, guards, outside>>

----------------------------------------------------------------------------
(* A guard: guardian::supervise, OwnedChild and container.rs.                *)

GuardGoto(g, s) == gst' = [gst EXCEPT ![g] = s]

(* Mutants: a guard that ignores one of the two.                             *)
DismissedByParent(g) == orphan[g]
DismissedByWorker(g) == closed[g]

(* TERM from the connection's worker, or the parent's pidfd is readable.     *)
Dismissed(g) == orphan[g] \/ closed[g]

(* try_lock, without waiting.                                                *)
GuardLock(g) ==
    /\ gst[g] = "boot"
    /\ LeaseFree(gkey[g])
    /\ GuardGoto(g, "locked")
    /\ held' = [held EXCEPT ![g] = TRUE]
    /\ UNCHANGED <<files, daemon, slots, requests, gkey, grev, child, stray,
                   orphan, closed, outside>>

(* The parent is alive after the lock, and no recovery record exists.        *)
GuardCheck(g) ==
    /\ gst[g] = "locked"
    /\ ~orphan[g] /\ gkey[g] \notin marker
    /\ GuardGoto(g, "checked")
    /\ UNCHANGED <<files, daemon, slots, requests, gkey, grev, held, child,
                   stray, orphan, closed, outside>>

(* container::configure: the recovery record is durable before the engine is *)
(* asked for anything.                                                       *)
GuardRecord(g) ==
    /\ gst[g] = "checked" /\ gkey[g] \in ContainerKeys
    /\ GuardGoto(g, "recorded")
    /\ marker' = marker \cup {gkey[g]}
    /\ UNCHANGED <<files, daemon, slots, requests, gkey, grev, held, child,
                   stray, orphan, closed, container, probe>>

(* OwnedChild::spawn: the server process inherits the lease.                 *)
GuardSpawn(g) ==
    /\ \/ gst[g] = "checked" /\ gkey[g] \notin ContainerKeys
       \/ gst[g] = "recorded"
    /\ GuardGoto(g, "running")
    /\ child' = [child EXCEPT ![g] = TRUE]
    /\ UNCHANGED <<files, daemon, slots, requests, gkey, grev, held, stray,
                   orphan, closed, outside>>

(* Every early return of supervise before the server runs: the parent is     *)
(* gone, the lock or the record is taken, TERM, or a failing call.           *)
GuardRefuse(g) ==
    /\ gst[g] \in {"boot", "locked", "checked", "recorded"}
    /\ GuardGoto(g, "dead")
    /\ UNCHANGED <<files, daemon, slots, requests, gkey, grev, held, child,
                   stray, orphan, closed, outside>>

(* The select of supervise: server exit, parent death or a signal.           *)
GuardWake(g) ==
    /\ gst[g] = "running" /\ (~child[g] \/ Dismissed(g))
    /\ GuardGoto(g, "ending")
    /\ UNCHANGED <<files, daemon, slots, requests, gkey, grev, held, child,
                   stray, orphan, closed, outside>>

(* OwnedChild::terminate: the group gets TERM and KILL and its leader is     *)
(* reaped; descendants that left the group may survive.                      *)
GuardTerminate(g) ==
    /\ gst[g] = "ending"
    /\ GuardGoto(g, IF gkey[g] \in ContainerKeys THEN "listing" ELSE "dead")
    /\ child' = [child EXCEPT ![g] = FALSE]
    /\ \E left \in {FALSE, stray[g]} : stray' = [stray EXCEPT ![g] = left]
    /\ UNCHANGED <<files, daemon, slots, requests, gkey, grev, held, orphan,
                   closed, outside>>

(* Mutant: the listing omits running containers.                             *)
ListedIdle(g) == container[g] = "created"

Listed(g) == container[g] \in {"created", "running"}

(* container::cleanup asks the engine which container carries the nonce.     *)
GuardList(g) ==
    /\ gst[g] = "listing"
    /\ GuardGoto(g, IF Listed(g) THEN "removing" ELSE "erasing")
    /\ UNCHANGED <<files, daemon, slots, requests, gkey, grev, held, child,
                   stray, orphan, closed, outside>>

(* The container that was listed and verified is removed by force.           *)
GuardRemove(g) ==
    /\ gst[g] = "removing"
    /\ GuardGoto(g, "erasing")
    /\ container' = [container EXCEPT ![g] = "gone"]
    /\ UNCHANGED <<files, daemon, slots, requests, gkey, grev, held, child,
                   stray, orphan, closed, marker, probe>>

(* The recovery record is removed last.                                      *)
GuardErase(g) ==
    /\ gst[g] = "erasing"
    /\ GuardGoto(g, "dead")
    /\ marker' = marker \ {gkey[g]}
    /\ UNCHANGED <<files, daemon, slots, requests, gkey, grev, held, child,
                   stray, orphan, closed, container, probe>>

(* The engine fails or is too slow: the record stays.                        *)
GuardKeepRecord(g) ==
    /\ gst[g] \in {"listing", "removing", "erasing"}
    /\ GuardGoto(g, "dead")
    /\ UNCHANGED <<files, daemon, slots, requests, gkey, grev, held, child,
                   stray, orphan, closed, outside>>

(* The guard itself is killed, by its connection's worker after the grace    *)
(* period or from outside.                                                   *)
GuardKilled(g) ==
    /\ gst[g] \notin {"dead"}
    /\ GuardGoto(g, "dead")
    /\ UNCHANGED <<files, daemon, slots, requests, gkey, grev, held, child,
                   stray, orphan, closed, outside>>

----------------------------------------------------------------------------
(* External: the server's processes, the kernel, the container engine.       *)

(* The server exits by itself, or by the parent-death signal of its guard.   *)
ChildExit(g) ==
    /\ child[g]
    /\ child' = [child EXCEPT ![g] = FALSE]
    /\ UNCHANGED <<files, daemon, slots, requests, gst, gkey, grev, held,
                   stray, orphan, closed, outside>>

Fork(g) ==
    /\ child[g] /\ ~stray[g]
    /\ stray' = [stray EXCEPT ![g] = TRUE]
    /\ UNCHANGED <<files, daemon, slots, requests, gst, gkey, grev, held,
                   child, orphan, closed, outside>>

StrayExit(g) ==
    /\ stray[g]
    /\ stray' = [stray EXCEPT ![g] = FALSE]
    /\ UNCHANGED <<files, daemon, slots, requests, gst, gkey, grev, held,
                   child, orphan, closed, outside>>

(* `docker run' asks the engine to create a container, which the engine does *)
(* even if the client dies meanwhile, and then to start it.                  *)
Engine(g) ==
    /\ \/ /\ child[g] /\ gkey[g] \in ContainerKeys /\ container[g] = "none"
          /\ container' = [container EXCEPT ![g] = "asked"]
       \/ /\ container[g] = "asked"
          /\ container' = [container EXCEPT ![g] = "created"]
       \/ /\ child[g] /\ container[g] = "created"
          /\ container' = [container EXCEPT ![g] = "running"]
       \/ /\ container[g] \in {"created", "running"}
          /\ container' = [container EXCEPT ![g] = "gone"]
    /\ UNCHANGED <<files, daemon, slots, requests, guards, closed, marker,
                   probe>>

(* Other processes edit configuration files and approve project contents.    *)
Edit(k, d) ==
    /\ config[k] # d
    /\ config' = [config EXCEPT ![k] = d]
    /\ UNCHANGED <<approved, daemon, slots, requests, guards, closed, outside>>

Approve(k, d) ==
    /\ approved[k] # d
    /\ approved' = [approved EXCEPT ![k] = d]
    /\ UNCHANGED <<config, daemon, slots, requests, guards, closed, outside>>

(* status::inactive tries the lease of a slot and lets it go again.          *)
Probe(k) ==
    /\ \/ LeaseFree(k) /\ k \notin marker /\ probe' = probe \cup {k}
       \/ k \in probe /\ probe' = probe \ {k}
    /\ UNCHANGED <<files, daemon, slots, requests, guards, closed, container,
                   marker>>

----------------------------------------------------------------------------
RequestNext(r) ==
    \/ \E a \in Offered, c \in Keys, e \in Envs : Submit(r, a, c, e)
    \/ Enter(r) \/ Admit(r) \/ Stop(r) \/ StopDone(r)
    \/ Reuse(r) \/ Replace(r) \/ ReplaceDone(r) \/ Lease(r)
    \/ \E g \in Guards : Launch(r, g)
    \/ Connect(r) \/ Attach(r) \/ AbortDone(r)
    \/ Discover(r) \/ Report(r) \/ Looked(r) \/ Call(r) \/ Answer(r) \/ Ask(r)
    \/ Continue(r) \/ Fail(r)
    \/ Plan(r) \/ Quiesce(r) \/ Unregister(r) \/ Deleted(r)

GuardNext(g) ==
    \/ GuardLock(g) \/ GuardCheck(g) \/ GuardRecord(g) \/ GuardSpawn(g)
    \/ GuardRefuse(g) \/ GuardWake(g) \/ GuardTerminate(g) \/ GuardList(g)
    \/ GuardRemove(g) \/ GuardErase(g) \/ GuardKeepRecord(g) \/ GuardKilled(g)
    \/ Disconnect(g) \/ ChildExit(g) \/ Fork(g) \/ StrayExit(g) \/ Engine(g)

Next ==
    \/ \E r \in Requests : RequestNext(r)
    \/ \E g \in Guards : GuardNext(g)
    \/ Boot \/ Close \/ Drain \/ Exit \/ Crash
    \/ \E k \in Keys, d \in Digests \cup {None} : Edit(k, d)
    \/ \E k \in Roots, d \in Digests : Approve(k, d)
    \/ \E k \in Keys : Probe(k)

Spec == Init /\ [][Next]_vars

(* What runs without being asked for again: a guard's own code; the wake-ups *)
(* of handlers that wait for a process to end; every operation's deadline;   *)
(* the daemon's shutdown; and the kernel's parent-death signal.  Nothing is  *)
(* assumed of servers, containers, callers, users or of tasks that make      *)
(* progress before their deadline.                                           *)
GuardCode(g) ==
    \/ GuardLock(g) \/ GuardCheck(g) \/ GuardRecord(g) \/ GuardSpawn(g)
    \/ GuardRefuse(g) \/ GuardWake(g) \/ GuardTerminate(g) \/ GuardList(g)
    \/ GuardRemove(g) \/ GuardErase(g) \/ GuardKeepRecord(g)

Fairness ==
    /\ \A g \in Guards : /\ WF_vars(GuardCode(g))
                        /\ WF_vars(gst[g] = "dead" /\ ChildExit(g))
    /\ \A r \in Requests :
         /\ WF_vars(Fail(r))
         /\ WF_vars(StopDone(r) \/ ReplaceDone(r) \/ AbortDone(r) \/ Unregister(r))
    /\ WF_vars(Drain) /\ WF_vars(Exit)

FairSpec == Spec /\ Fairness

----------------------------------------------------------------------------
PCs == {"idle", "ok", "gate"} \cup ReaderPCs \cup WriterPCs

GuardStates == {"boot", "locked", "checked", "recorded", "running", "ending",
                "listing", "removing", "erasing", "dead"}

Jobs == [action : Actions \cup {None}, cwd : Keys \cup {None}, env : Envs \cup {None},
         key : Keys \cup {None}, seen : Planned \cup {None},
         prep : Revisions \cup {None}, guard : Guards \cup {None}]

(* What a handler has computed by the time it reaches a program point.       *)
Launching == {"replacing", "lease", "leased", "connect", "attach", "abort"}
Connecting == {"connect", "attach", "abort"}

JobOK(r) ==
    /\ pc[r] \notin {"idle", "ok"} => /\ job[r].action \in Actions
                                    /\ job[r].cwd \in Keys
                                    /\ job[r].env \in Envs
    /\ pc[r] \notin {"idle", "ok", "gate"} => job[r].key \in Keys
    /\ pc[r] \notin {"idle", "ok", "gate", "queued", "stopping"} =>
         job[r].seen \in IF pc[r] \in WriterPCs THEN Planned ELSE Identities
    /\ pc[r] \in {"prepare", "plan", "quiesce", "delete"} => job[r].seen.key = job[r].key
    /\ pc[r] \in Launching => job[r].prep \in Revisions /\ job[r].prep.key = job[r].key
    /\ pc[r] \in Connecting => job[r].guard \in Guards

GuardOK(g) ==
    /\ gst[g] # "dead" => gkey[g] \in Keys /\ grev[g] \in Revisions
    /\ gst[g] \in {"recorded", "listing", "removing", "erasing"} => gkey[g] \in ContainerKeys
    /\ container[g] \in {"asked", "created", "running"} => gkey[g] \in ContainerKeys

(* Mutable state has its type, and handlers and guards have what the point   *)
(* they reached presupposes.                                                 *)
TypeOK ==
    /\ config \in [Keys -> Digests \cup {None}]
    /\ approved \in [Roots -> Digests \cup {None}]
    /\ daemon \in {"down", "up", "closing", "draining"}
    /\ client \in [Keys -> Guards \cup {None}]
    /\ revision \in [Keys -> Revisions \cup {None}]
    /\ pc \in [Requests -> PCs]
    /\ job \in [Requests -> Jobs]
    /\ gst \in [Guards -> GuardStates]
    /\ gkey \in [Guards -> Keys \cup {None}]
    /\ grev \in [Guards -> Revisions \cup {None}]
    /\ held \in [Guards -> BOOLEAN]
    /\ child \in [Guards -> BOOLEAN]
    /\ stray \in [Guards -> BOOLEAN]
    /\ orphan \in [Guards -> BOOLEAN]
    /\ closed \in [Guards -> BOOLEAN]
    /\ container \in [Guards -> {"none", "asked", "created", "running", "gone"}]
    /\ marker \subseteq Keys
    /\ probe \subseteq Keys
    /\ \A r \in Requests : JobOK(r)
    /\ \A g \in Guards : GuardOK(g)

(* Processes of the server that guard g started.                             *)
Alive(g) == child[g] \/ stray[g]

(* No two guards own processes of one scoped server at the same time, not    *)
(* even guards of a dead daemon and of its successor (guardian.rs inherits   *)
(* the lease so that this holds; "concurrent first calls launch exactly one  *)
(* instance").                                                               *)
OneOwnedProcess ==
    \A g, h \in Guards : Alive(g) /\ Alive(h) /\ gkey[g] = gkey[h] => g = h

(* While its daemon lives, a guard is either the connection its slot keeps   *)
(* or one that the handler holding the slot still has to keep or shut down:  *)
(* no error path of execute loses a process.                                 *)
NoLostGuard ==
    \A g \in Guards : gst[g] # "dead" /\ ~orphan[g] =>
        \/ client[gkey[g]] = g
        \/ \E r \in Requests : /\ job[r].guard = g /\ job[r].key = gkey[g]
                              /\ pc[r] \in {"connect", "attach", "abort"}

(* A running container always has its recovery record, so that a new guard   *)
(* refuses to start next to it (container.rs).                               *)
ContainerRecorded ==
    \A g \in Guards : container[g] = "running" => gkey[g] \in marker

(* While uninstall deletes an installation's files nothing of the server     *)
(* runs (apply_uninstall, journal::delete).                                  *)
DeletesQuiescent ==
    \A r \in Requests : pc[r] = "delete" =>
        \A g \in Guards : gkey[g] = job[r].key => ~Alive(g) /\ container[g] # "running"

(* The process that a handler keeps, or finds again, and reports success on  *)
(* was started from the definition that is configured, trusted and enabled   *)
(* at that moment and with the caller's environment, however long launch,    *)
(* connection and discovery have waited (execute, invoke).                   *)
KeepsCurrent ==
    [][\A r \in Requests :
         pc[r] \in {"prepare", "attach", "report"} /\ pc'[r] \in {"ok", "invoke"} =>
           LET k == job[r].key IN
           /\ Authorized(job[r].cwd)
           /\ client'[k] # None /\ gkey[client'[k]] = k
           /\ grev[client'[k]] = [key |-> Resolve(job[r].cwd),
                                  digest |-> config[Resolve(job[r].cwd)],
                                  env |-> job[r].env]]_vars

(* A tool call goes to a process that was started from the definition that   *)
(* is configured, trusted and enabled when it is sent, and with the caller's *)
(* environment (invoke, call_tool_checked).                                  *)
CallsCurrent ==
    [][\A r \in Requests : pc[r] = "final" /\ pc'[r] = "call" =>
         /\ Authorized(job[r].cwd)
         /\ grev[client[job[r].key]] = [key |-> Resolve(job[r].cwd),
                                        digest |-> config[Resolve(job[r].cwd)],
                                        env |-> job[r].env]]_vars

(* A successful Stop leaves no process and no running container behind, of   *)
(* this daemon or of an earlier one (stop, require_clean).                   *)
StopIsTrue ==
    [][\A r \in Requests : pc[r] = "stopping" /\ pc'[r] = "ok" =>
         \A g \in Guards : gkey[g] = job[r].key => ~Alive(g) /\ container[g] # "running"]_vars

(* Every admitted operation ends, also when it has to wait for a process it  *)
(* stops (Operation::run, Client::shutdown).                                 *)
RequestsEnd ==
    \A r \in Requests : pc[r] \notin {"idle", "ok"} ~> pc[r] \in {"idle", "ok"}

(* A daemon asked to stop drains its barrier, stops its servers and exits:   *)
(* barrier, slot mutexes and terminations never wait for each other          *)
(* (Manager::shutdown).                                                      *)
ShutdownEnds == daemon = "closing" ~> daemon = "down"

(* The guard of a dead daemon ends, and its server process with it: no       *)
(* process outlives its supervisor for good (supervise).                     *)
OrphansEnd ==
    \A g \in Guards : orphan[g] /\ (gst[g] # "dead" \/ child[g])
                       ~> gst[g] = "dead" /\ ~child[g]
============================================================================
