---------------------------- MODULE Registration ----------------------------
(****************************************************************************)
(* How a server comes to be registered under a name of a scope and ceases   *)
(* to be: supervisor/manager/install.rs and uninstall.rs over the two files *)
(* they keep in step, the scope's config.json and ownership.json.           *)
(*                                                                          *)
(* An installation writes ownership.json five times around one rename of    *)
(* config.json, and a removal three times.  Each of these writes may fail,  *)
(* before or after it took effect, and the daemon may die between any two   *)
(* of them.  Meanwhile other commands of ripmcp change other entries of     *)
(* config.json under its lock, and people edit it without.                  *)
(*                                                                          *)
(* The model has one name in the user's scope.  The code between two awaits *)
(* is one step.  Opposite an editor that ignores the lock this includes the *)
(* re-reading of the file just before the rename.                           *)
(****************************************************************************)
EXTENDS Naturals, FiniteSets

CONSTANTS
    Requests,   \* commands that run at a time
    Ids,        \* installation identifiers: a bound on the installations begun
    Packages,   \* definitions a server may be installed with
    Others,     \* contents config.json may have besides the entry
    Removals,   \* kinds of removal on offer: "uninstall" and "clean"
    None        \* no value

(* The bytes of config.json, as far as they matter.                         *)
Configs == [package : Packages \cup {None}, other : Others]

Kinds  == {"install", "unregister", "clean"}
States == {"prepared", "applying", "committed", "retry_required"}

(* An installation of the journal, and the operation filed under its id.    *)
Installations ==
    [registered : BOOLEAN, package : Packages, digest : Configs,
     resolved : BOOLEAN, kind : Kinds, state : States]

Journals == [Ids -> Installations \cup {None}]

Operations == {"install", "uninstall", "clean", "mutate"}

ASSUME NamesAssumption ==
    None \notin Requests \cup Ids \cup Packages \cup Others \cup Installations
                \cup Configs
ASSUME IdsAssumption == IsFiniteSet(Ids)
ASSUME OthersAssumption == Others # {}
ASSUME RemovalsAssumption == Removals \subseteq {"uninstall", "clean"}

VARIABLES
    config,     \* content of config.json
    journal,    \* id -> its record in ownership.json
    running,    \* the installation whose process the slot holds
    pc,         \* request -> the step it is at
    job,        \* request -> what it remembers
    by          \* history: the installation that wrote the entry of config.json

files == <<config, journal>>
vars == <<config, journal, running, pc, job, by>>

(* What a request remembers: the installation it is about, the bytes of      *)
(* config.json and the journal it has read, whether the preparation went    *)
(* well, whether its report has no failures yet.  "seen" is history: whose   *)
(* entry the user was shown.                                                *)
Jobs ==
    [op : Operations, package : Packages \cup {None}, verify : BOOLEAN,
     id : Ids \cup {None}, previous : Configs \cup {None},
     plan : Journals \cup {None}, seen : Ids \cup {None}, resolved : BOOLEAN, ok : BOOLEAN]

NewJob(op, package, verify, previous, plan, seen) ==
    [op |-> op, package |-> package, verify |-> verify, id |-> None,
     previous |-> previous, plan |-> plan, seen |-> seen, resolved |-> FALSE, ok |-> TRUE]

NoJob == NewJob("mutate", None, FALSE, None, None, None)

Staging    == {"resolve", "prepare", "prepared", "verify", "discover"}
Committing == {"register", "commit", "finish"}
Slotted    == {"begin", "rollback"} \cup Staging \cup Committing
Installing == {"target"} \cup Slotted
Removing   == {"uninstall", "begin_uninstall", "apply", "unregister", "finish_uninstall"}
Daemon     == Installing \cup Removing
Locking    == Slotted \cup {"begin_uninstall", "apply", "unregister",
                            "finish_uninstall", "mutating"}
Steps      == {"idle", "approved", "mutating"} \cup Daemon

(* Locks are held exactly during certain steps: the barrier for the whole    *)
(* handler, the lock of config.json from Store::lock on, the slot's mutex    *)
(* from "begin" on.                                                          *)
NoWriter == \A r \in Requests : pc[r] \notin Removing
NoReader == \A r \in Requests : pc[r] \notin Installing
LockFree == \A r \in Requests : pc[r] \notin Locking
SlotFree == \A r \in Requests : pc[r] \notin Slotted

Init ==
    /\ config \in [package : {None}, other : Others]
    /\ journal = [i \in Ids |-> None]
    /\ running = None
    /\ pc = [r \in Requests |-> "idle"]
    /\ job = [r \in Requests |-> NoJob]
    /\ by = None

Goto(r, step) == pc' = [pc EXCEPT ![r] = step] /\ UNCHANGED job
End(r) == pc' = [pc EXCEPT ![r] = "idle"] /\ job' = [job EXCEPT ![r] = NoJob]

(* update_async: the record is replaced under the journal's lock.  A failure *)
(* is reported after the rename too, if the ledger cannot be written.       *)
Saved(i, record) == journal' = [journal EXCEPT ![i] = record]
SaveFailed(i, record) == UNCHANGED journal \/ Saved(i, record)

(* Save a record and go on, or fail and go elsewhere.                       *)
Save(r, record, next, failed) ==
    \/ Saved(job[r].id, record) /\ Goto(r, next)
    \/ SaveFailed(job[r].id, record) /\ Goto(r, failed)

----------------------------------------------------------------------------
(* Installation.                                                            *)

(* The bytes an installation intends to write.                              *)
Intended(r) == [package |-> job[r].package, other |-> job[r].previous.other]

(* records::save writes the whole installation from the request's memory.   *)
Record(r, registered, state) ==
    [registered |-> registered, package |-> job[r].package, digest |-> Intended(r),
     resolved |-> job[r].resolved, kind |-> "install", state |-> state]

(* LockedStore::unchanged, on which Target::check rests.                     *)
Unchanged(r) == config = job[r].previous

(* Manager::local admits an installation as a reader of the barrier.        *)
Install(r) ==
    /\ pc[r] = "idle" /\ NoWriter
    /\ \E p \in Packages, v \in BOOLEAN :
          job' = [job EXCEPT ![r] = NewJob("install", p, v, None, None, None)]
    /\ pc' = [pc EXCEPT ![r] = "target"]
    /\ UNCHANGED <<files, running, by>>

(* Target::lock: an existing entry of the name is an error.                 *)
Lock(r) ==
    /\ pc[r] = "target"
    /\ \/ /\ LockFree /\ config.package = None
          /\ job' = [job EXCEPT ![r].previous = config]
          /\ pc' = [pc EXCEPT ![r] = "begin"]
       \/ LockFree /\ config.package # None /\ End(r)
       \/ End(r)
    /\ UNCHANGED <<files, running, by>>

(* records::begin and its first save, which nothing rolls back.              *)
Begin(r) ==
    /\ pc[r] = "begin"
    /\ \/ /\ running = None
          /\ \E i \in Ids :
                LET record == Record(r, FALSE, "prepared") IN
                /\ journal[i] = None
                /\ \/ /\ Saved(i, record)
                      /\ job' = [job EXCEPT ![r].id = i]
                      /\ pc' = [pc EXCEPT ![r] = "resolve"]
                   \/ SaveFailed(i, record) /\ End(r)
       \/ UNCHANGED journal /\ End(r)
    /\ UNCHANGED <<config, running, by>>

Resolve(r) ==
    /\ pc[r] = "resolve"
    /\ \/ Save(r, Record(r, FALSE, "applying"), "prepare", "rollback")
       \/ UNCHANGED journal /\ Goto(r, "rollback")
    /\ UNCHANGED <<config, running, by>>

(* preparation::prepare runs the package manager; Target::check before it.  *)
Prepare(r) ==
    /\ pc[r] = "prepare"
    /\ \/ /\ Unchanged(r)
          /\ job' = [job EXCEPT ![r].resolved = TRUE]
          /\ pc' \in {[pc EXCEPT ![r] = "prepared"], [pc EXCEPT ![r] = "rollback"]}
       \/ Goto(r, "rollback")
    /\ UNCHANGED <<files, running, by>>

Prepared(r) ==
    /\ pc[r] = "prepared"
    /\ Save(r, Record(r, FALSE, "applying"), "verify", "rollback")
    /\ UNCHANGED <<config, running, by>>

(* The process of a local server is started; a remote one, or none, is not. *)
Verify(r) ==
    /\ pc[r] = "verify"
    /\ \/ /\ Unchanged(r) /\ job[r].verify
          /\ Goto(r, "discover") /\ running' = job[r].id
       \/ /\ Unchanged(r) /\ ~job[r].verify
          /\ Goto(r, "register") /\ UNCHANGED running
       \/ Goto(r, "rollback") /\ UNCHANGED running
    /\ UNCHANGED <<files, by>>

(* Discovery, then the checks that end verify_local and stage.              *)
Discover(r) ==
    /\ pc[r] = "discover"
    /\ \/ Unchanged(r) /\ Goto(r, "register")
       \/ Goto(r, "rollback")
    /\ UNCHANGED <<files, running, by>>

(* Mutant: an installation goes on without its intent.                      *)
RegisterUnsaved(r) ==
    /\ pc[r] = "register"
    /\ Save(r, Record(r, TRUE, "applying"), "commit", "commit")
    /\ UNCHANGED <<config, running, by>>

(* commit_install records what it is about to do.                           *)
Register(r) ==
    /\ pc[r] = "register"
    /\ Save(r, Record(r, TRUE, "applying"), "commit", "rollback")
    /\ UNCHANGED <<config, running, by>>

(* Mutant: the file is not read again before it is replaced.                *)
CommitBlind(r) ==
    /\ pc[r] = "commit"
    /\ config' = Intended(r) /\ by' = job[r].id /\ Goto(r, "finish")
    /\ UNCHANGED <<journal, running>>

(* Target::commit publishes the entry, and may fail after the rename too.   *)
Commit(r) ==
    /\ pc[r] = "commit"
    /\ \/ /\ Unchanged(r)
          /\ config' = Intended(r) /\ by' = job[r].id
          /\ (Goto(r, "finish") \/ Goto(r, "rollback"))
       \/ UNCHANGED <<config, by>> /\ Goto(r, "rollback")
    /\ UNCHANGED <<journal, running>>

(* The last save; without it the process is stopped and the rest kept.      *)
Finish(r) ==
    /\ pc[r] = "finish"
    /\ LET record == Record(r, TRUE, "committed") IN
       \/ Saved(job[r].id, record) /\ UNCHANGED running
       \/ SaveFailed(job[r].id, record) /\ running' = None
    /\ End(r)
    /\ UNCHANGED <<config, by>>

(* Mutant: the process of the verification is left.                         *)
RollbackRunning(r) ==
    /\ pc[r] = "rollback"
    /\ SaveFailed(job[r].id, Record(r, FALSE, "retry_required"))
    /\ End(r)
    /\ UNCHANGED <<config, running, by>>

(* Mutant: a failed commit is taken for authority to restore the old bytes. *)
RollbackRestores(r) ==
    /\ pc[r] = "rollback"
    /\ running' = None
    /\ SaveFailed(job[r].id, Record(r, FALSE, "retry_required"))
    /\ config' = job[r].previous /\ by' = None
    /\ End(r)

(* rollback_install, whose save may fail as well.                           *)
Rollback(r) ==
    /\ pc[r] = "rollback"
    /\ running' = None
    /\ SaveFailed(job[r].id, Record(r, FALSE, "retry_required"))
    /\ End(r)
    /\ UNCHANGED <<config, by>>

InstallStep(r) ==
    \/ Install(r) \/ Lock(r) \/ Begin(r) \/ Resolve(r) \/ Prepare(r)
    \/ Prepared(r) \/ Verify(r) \/ Discover(r) \/ Register(r) \/ Commit(r)
    \/ Finish(r) \/ Rollback(r)

----------------------------------------------------------------------------
(* Removal.                                                                 *)

Registered == {i \in Ids : journal[i] # None /\ journal[i].registered}
Recorded   == {i \in Ids : journal[i] # None}

(* has_cleanup: the operation of the record is a clean one, a pending one.  *)
Cleaned == {i \in Recorded : journal[i].kind = "clean"}
Pending == {i \in Cleaned : journal[i].state # "committed"}

(* resolve: the records a removal may be about.  A configured server's is   *)
(* registered with the same definition; a name that is not configured has   *)
(* all its records, and a clean one is preferred among several.             *)
Candidates ==
    IF config.package # None THEN {i \in Registered : journal[i].package = config.package}
    ELSE IF Cardinality(Pending) = 1 THEN Pending
    ELSE IF Cardinality(Cleaned) = 1 THEN Cleaned
    ELSE Recorded

(* Plan::build has a plan: something to remove, and not several records.    *)
Ambiguous == Cardinality(Candidates) > 1
Planned == ~Ambiguous /\ (config.package # None \/ Recorded # {})
Target == IF Candidates = {} THEN None ELSE CHOOSE i \in Candidates : TRUE

(* The client makes a plan and has the user approve it, outside all locks.  *)
Preview(r) ==
    /\ pc[r] = "idle" /\ Planned
    /\ \E op \in Removals :
          job' = [job EXCEPT ![r] = NewJob(op, None, FALSE, config, journal, by)]
    /\ pc' = [pc EXCEPT ![r] = "approved"]
    /\ UNCHANGED <<files, running, by>>

(* The daemon, alone in the barrier, plans again and compares the digests.  *)
SamePlan(r) == config = job[r].previous /\ journal = job[r].plan

Enter(r) ==
    /\ pc[r] = "approved"
    /\ \/ /\ NoReader /\ NoWriter /\ Planned /\ SamePlan(r)
          /\ job' = [job EXCEPT ![r].id = Target, ![r].plan = journal]
          /\ pc' = [pc EXCEPT ![r] = "uninstall"]
       \/ End(r)
    /\ UNCHANGED <<files, running, by>>

(* The file may have changed before its lock was had.                       *)
LockPlanned(r) ==
    /\ pc[r] = "uninstall"
    /\ \/ LockFree /\ Unchanged(r) /\ Goto(r, "begin_uninstall")
       \/ End(r)
    /\ UNCHANGED <<files, running, by>>

(* Saves of cleanup/journal.rs, which do nothing without an installation.   *)
Update(r, record) ==
    IF job[r].id = None THEN UNCHANGED journal ELSE Saved(job[r].id, record)
UpdateFailed(r, record) == job[r].id # None /\ SaveFailed(job[r].id, record)

Removal(r) ==
    [journal[job[r].id] EXCEPT !.kind = IF job[r].op = "clean" THEN "clean" ELSE "unregister",
                               !.state = "applying"]

(* Mutant: the operation is not recorded before it starts.                  *)
BeginUnrecorded(r) ==
    /\ pc[r] = "begin_uninstall"
    /\ Goto(r, "apply")
    /\ UNCHANGED <<files, running, by>>

(* journal::begin files the operation in place of the installation's.       *)
BeginUninstall(r) ==
    /\ pc[r] = "begin_uninstall"
    /\ \/ /\ job[r].id # None => journal = job[r].plan
          /\ \/ Update(r, Removal(r)) /\ Goto(r, "apply")
             \/ UpdateFailed(r, Removal(r)) /\ End(r)
       \/ job[r].id # None /\ UNCHANGED journal /\ End(r)
    /\ UNCHANGED <<config, running, by>>

Failed(r) == /\ job' = [job EXCEPT ![r].ok = FALSE]
             /\ pc' = [pc EXCEPT ![r] = "finish_uninstall"]

(* apply_uninstall: stop the process, make sure of it, remove the entry.    *)
Apply(r) ==
    /\ pc[r] = "apply"
    /\ \/ UNCHANGED <<config, running, by>> /\ Failed(r)
       \/ /\ Unchanged(r) /\ running' = None
          /\ \/ /\ config' = [config EXCEPT !.package = None] /\ by' = None
                /\ (Goto(r, "unregister") \/ Failed(r))
             \/ UNCHANGED <<config, by>> /\ Failed(r)
    /\ UNCHANGED journal

Unregister(r) ==
    /\ pc[r] = "unregister"
    /\ LET record == [journal[job[r].id] EXCEPT !.registered = FALSE] IN
       \/ Update(r, record) /\ Goto(r, "finish_uninstall")
       \/ UpdateFailed(r, record) /\ Failed(r)
    /\ UNCHANGED <<config, running, by>>

(* journal::finish.  The deletions of a clean removal come before it and    *)
(* may fail.                                                                *)
FinishUninstall(r) ==
    /\ pc[r] = "finish_uninstall"
    /\ \E ok \in BOOLEAN :
          /\ ok => job[r].ok
          /\ job[r].ok /\ ~ok => job[r].op = "clean"
          /\ LET record == [journal[job[r].id] EXCEPT
                                !.state = IF ok THEN "committed" ELSE "retry_required"] IN
             Update(r, record) \/ UpdateFailed(r, record)
    /\ End(r)
    /\ UNCHANGED <<config, running, by>>

RemovalStep(r) ==
    \/ Preview(r) \/ Enter(r) \/ LockPlanned(r) \/ BeginUninstall(r)
    \/ Apply(r) \/ Unregister(r) \/ FinishUninstall(r)

----------------------------------------------------------------------------
(* The other users of the two files.                                        *)

(* Effective::mutate of another command: it reads and replaces config.json  *)
(* under the lock and does not read it again in between.                    *)
Mutate(r) ==
    /\ pc[r] = "idle" /\ LockFree
    /\ job' = [job EXCEPT ![r] = NewJob("mutate", None, FALSE, config, None, None)]
    /\ pc' = [pc EXCEPT ![r] = "mutating"]
    /\ UNCHANGED <<files, running, by>>
Mutated(r) ==
    /\ pc[r] = "mutating"
    /\ \/ \E o \in Others : config' = [job[r].previous EXCEPT !.other = o]
       \/ UNCHANGED config
    /\ End(r)
    /\ UNCHANGED <<journal, running, by>>

(* An editor that knows of no lock, which leaves the entry alone.           *)
Edit ==
    /\ \E o \in Others : config' = [config EXCEPT !.other = o]
    /\ UNCHANGED <<journal, running, pc, job, by>>

(* launch.rs installation() and resolution(): the one registered record of  *)
(* the name, if its installation ended or published exactly these bytes.    *)
Launchable(i) ==
    /\ Registered = {i}
    /\ \/ journal[i].kind # "install" \/ journal[i].state = "committed"
       \/ journal[i].digest = config
    /\ journal[i].resolved /\ journal[i].package = config.package

(* A call or start of the server replaces what the slot holds.              *)
Launch ==
    /\ NoWriter /\ SlotFree /\ config.package # None
    /\ \E i \in Ids : Launchable(i) /\ running' = i
    /\ UNCHANGED <<files, pc, job, by>>

(* ripmcp stop, or the end of the process.                                  *)
Stop ==
    /\ NoWriter /\ SlotFree /\ running # None
    /\ running' = None
    /\ UNCHANGED <<files, pc, job, by>>

(* The daemon dies, its locks with it, and the guards end its processes.    *)
Crash ==
    /\ pc' = [r \in Requests |-> IF pc[r] \in Daemon THEN "idle" ELSE pc[r]]
    /\ job' = [r \in Requests |-> IF pc[r] \in Daemon THEN NoJob ELSE job[r]]
    /\ running' = None
    /\ UNCHANGED <<files, by>>

Next ==
    \/ \E r \in Requests :
          InstallStep(r) \/ RemovalStep(r) \/ Mutate(r) \/ Mutated(r)
    \/ Edit \/ Launch \/ Stop \/ Crash

Spec == Init /\ [][Next]_vars

----------------------------------------------------------------------------
TypeOK ==
    /\ config \in Configs
    /\ journal \in Journals
    /\ running \in Ids \cup {None}
    /\ pc \in [Requests -> Steps]
    /\ job \in [Requests -> Jobs]
    /\ by \in Ids \cup {None}

(* "The registered intent is durable before the configuration rename": an   *)
(* entry in config.json has the record of the installation that wrote it,   *)
(* prepared, with the same definition, and registered unless that           *)
(* installation was rolled back after the rename.                           *)
IntentDurable ==
    config.package # None =>
        /\ by # None /\ journal[by] # None
        /\ journal[by].package = config.package /\ journal[by].resolved
        /\ \/ journal[by].registered
           \/ journal[by].kind = "install" /\ journal[by].state = "retry_required"

(* A registered installation whose last operation is its own, committed, is *)
(* the one that wrote the entry in config.json, whatever failed or died     *)
(* since: so there is one at most, and it is configured.                    *)
CommittedConfigured ==
    \A i \in Registered :
        journal[i].kind = "install" /\ journal[i].state = "committed" =>
            config.package # None /\ by = i

(* Outside an installation no process is held for a name that is not        *)
(* configured: neither a failed installation nor a removal leaves one.      *)
RunningConfigured == SlotFree /\ running # None => config.package # None

(* "Concurrent external edits are not overwritten" by an installation or a  *)
(* removal, whose user took minutes to answer, nor the entry they write by  *)
(* another command: no step changes both the entry and the rest.  (Another  *)
(* command does overwrite an edit made while it holds the lock.)            *)
NoLostEdit ==
    [][config'.package = config.package \/ config'.other = config.other]_vars

(* A removal takes away the entry the user was shown, not one of the same   *)
(* text that was installed since.                                           *)
RemovesApproved ==
    [][config.package # None /\ config'.package = None =>
         \E r \in Requests : pc[r] = "apply" /\ job[r].seen = by]_vars

----------------------------------------------------------------------------
(* An installation that has begun and not published its entry.              *)
Publishing(r) == pc[r] \in Staging \cup {"register", "commit"}

(* What became of an installation.                                          *)
Phase(i) ==
    IF journal[i] = None THEN "new"
    ELSE IF by = i THEN "published"
    ELSE IF \E r \in Requests : Publishing(r) /\ job[r].id = i THEN "begun"
    ELSE "over"

(* The entries users were shown by the removals that are not at their end.  *)
Shown == {job[r].seen : r \in Requests} \ {None}

(* Both files, the locks and the steps of all commands come to what Entry   *)
(* says of a name.                                                          *)
TheEntry == INSTANCE Entry WITH
    phase <- [i \in Ids |-> Phase(i)],
    shown <- Shown
=============================================================================
