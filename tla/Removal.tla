------------------------------ MODULE Removal ------------------------------
(****************************************************************************)
(* "ripmcp --uninstall-everything": cleanup/self_*.rs and the daemon's part *)
(* of it, manager/self_uninstall.rs, under the maintenance lock, among the  *)
(* commands, handlers and starting daemons that hold the lock shared.       *)
(*                                                                          *)
(* ripmcp's own files are recorded in a ledger, artifacts.json, with the    *)
(* identity each had when it was created.  A store writes a file by         *)
(* renaming a new one over it and then recording that one's identity; a     *)
(* process may die in between.  Of an identity the model keeps whether it   *)
(* fits the file that is there.  Deleting one recorded resource is a step   *)
(* here, and the subject of Cleanup.                                        *)
(****************************************************************************)
CONSTANTS
    Commands,   \* processes that take the lock shared
    Removers,   \* processes that remove ripmcp
    Inodes,     \* identities of the lock's file
    Data,       \* files installations have recorded
    Links,      \* links ripmcp's installer has recorded
    None        \* no value

Procs  == Commands \cup Removers
Things == Data \cup Links

(* ownership.json has the provenance of the executable, too.                *)
Binary == "binary"
Resources == Things \cup {Binary}

(* config.json, credentials.json, ownership.json and the latter's lock.     *)
Files == {"config", "index", "ownership", "guard"}
Entries == {"none", "fits", "stale", "removed"}
NoEntries == [f \in Files |-> "none"]

ASSUME ProcsAssumption == Commands \cap Removers = {} /\ None \notin Inodes
ASSUME ThingsAssumption ==
    /\ Data \cap Links = {} /\ Things \cap (Files \cup {Binary}) = {}
    /\ None \notin Things \cup Files

VARIABLES
    lockfile,   \* the inode at .maintenance.lock
    fd,         \* process -> the inode it has open
    pc,         \* process -> its step
    writing,    \* process -> the file it has replaced and not yet recorded
    present,    \* files that exist, the ledger among them
    journal,    \* resources ownership.json has recorded
    ledger,     \* file -> its entry in artifacts.json
    things,     \* recorded resources that exist
    keyring,    \* there is a credential of ripmcp in the keyring
    binary,     \* the executable: another's, ours or gone
    daemon,     \* a daemon is serving
    pending,    \* self-removal.json exists
    backup,     \* its copy of the journal
    copy,       \* its copy of the ledger
    sealed,     \* its identity of the ledger fits
    todo,       \* what the remover's plan has still to delete
    missed,     \* history: files without an entry when it planned
    deleting,   \* what it has deleted and not yet recorded
    round,      \* which of its three reports it saves
    failed,     \* its report has failures
    hindered    \* history: something else than a crash was in the way

lock    == <<lockfile, fd>>
kept    == <<present, journal, ledger, things>>
outside == <<keyring, binary, daemon>>
marker  == <<pending, backup, copy, sealed>>
report  == <<todo, missed, deleting, round, failed>>
vars == <<lockfile, fd, pc, writing, present, journal, ledger, things, keyring, binary, daemon,
          pending, backup, copy, sealed, todo, missed, deleting, round, failed, hindered>>

Early    == {"plan", "refresh", "mark", "restore", "rejournal", "begin"}
Stopping == {"stop", "unregister", "unlist"}
Deleting == {"data", "clean", "setup"}
Last     == {"finish", "metadata", "guard", "ledger", "binary"}
Ending   == {"unmark", "unlock"}
Working  == Early \cup Stopping \cup Deleting \cup {"credentials"} \cup Last \cup Ending
Inside   == {"inside", "login"}
Holding  == Inside \cup Working \cup {"check", "close"}
Steps    == {"idle", "wait"} \cup Holding

Init ==
    /\ lockfile = None /\ fd = [p \in Procs |-> None]
    /\ pc = [p \in Procs |-> "idle"] /\ writing = [p \in Procs |-> None]
    /\ present = {"ownership", "guard", "ledger"}
    /\ ledger = [f \in Files |-> IF f \in present THEN "fits" ELSE "none"]
    /\ \/ binary = "owned" /\ journal = {Binary} \cup Links /\ things = Links
       \/ binary = "foreign" /\ journal = {} /\ things = {}
    /\ keyring = FALSE /\ daemon = FALSE
    /\ pending = FALSE /\ backup = {} /\ copy = NoEntries /\ sealed = FALSE
    /\ todo = {} /\ missed = {} /\ deleting = None /\ round = "first"
    /\ failed = FALSE /\ hindered = FALSE

----------------------------------------------------------------------------
(* The lock.                                                                *)

Goto(p, step) == pc' = [pc EXCEPT ![p] = step]
Close(p) == Goto(p, "idle") /\ fd' = [fd EXCEPT ![p] = None] /\ UNCHANGED lockfile

(* Maintenance::acquire opens the file, and creates it if there is none.    *)
Open(p) ==
    /\ pc[p] = "idle" /\ Goto(p, "wait")
    /\ \/ lockfile # None /\ UNCHANGED lockfile
       \/ /\ lockfile = None
          /\ \E i \in Inodes : (\A q \in Procs : fd[q] # i) /\ lockfile' = i
    /\ fd' = [fd EXCEPT ![p] = lockfile']
    /\ UNCHANGED <<writing, kept, outside, marker, report, hindered>>

Lock(p) ==
    /\ pc[p] = "wait" /\ Goto(p, "check")
    /\ \A q \in Procs : pc[q] \in Holding /\ fd[q] = fd[p] => p \in Commands /\ q \in Commands
    /\ UNCHANGED <<lock, writing, kept, outside, marker, report, hindered>>

(* Mutant: the file that is locked may be one that was unlinked.            *)
CheckUnlinked(p) ==
    /\ pc[p] = "check"
    /\ IF p \in Commands => ~pending
       THEN Goto(p, IF p \in Commands THEN "inside" ELSE "plan") /\ UNCHANGED lock
       ELSE Close(p)
    /\ UNCHANGED <<writing, kept, outside, marker, report, hindered>>

(* It looks whether the path still leads to the file, and a command whether *)
(* a removal is pending; neither can change while it holds that file.       *)
Check(p) ==
    /\ pc[p] = "check"
    /\ IF fd[p] = lockfile /\ (p \in Commands => ~pending)
       THEN Goto(p, IF p \in Commands THEN "inside" ELSE "plan") /\ UNCHANGED lock
       ELSE Close(p)
    /\ UNCHANGED <<writing, kept, outside, marker, report, hindered>>

(* The deadline has passed, or the user interrupts.                         *)
GiveUp(p) ==
    /\ pc[p] \in {"wait", "check"} /\ Close(p)
    /\ UNCHANGED <<writing, kept, outside, marker, report, hindered>>

----------------------------------------------------------------------------
(* The stores.                                                              *)

At(p, step) == pc[p] = step /\ writing[p] = None

Spoilt(entries, f) == [entries EXCEPT ![f] = IF @ = "fits" THEN "stale" ELSE @]

(* commit_created: no recorded identity fits the new file.                  *)
Replace(p, f) ==
    /\ f = "ownership" => "guard" \in present
    /\ \A q \in Procs : writing[q] # f
    /\ present' = present \cup {f}
    /\ ledger' = Spoilt(ledger, f) /\ copy' = Spoilt(copy, f)
    /\ writing' = [writing EXCEPT ![p] = f]

(* lock_file: the lock of ownership.json is created, and then recorded.     *)
Guard(p) ==
    /\ pc[p] \in {"inside", "rejournal", "begin"} /\ writing[p] = None
    /\ "guard" \notin present
    /\ Replace(p, "guard")
    /\ UNCHANGED <<lock, pc, journal, things, outside, pending, backup, sealed, report, hindered>>

(* artifacts::record, which replaces the ledger, or starts one.             *)
Record(p) ==
    /\ writing[p] # None /\ writing' = [writing EXCEPT ![p] = None]
    /\ ledger' = [ledger EXCEPT ![writing[p]] = "fits"]
    /\ present' = present \cup {"ledger"} /\ sealed' = FALSE
    /\ UNCHANGED <<lock, pc, journal, things, outside, pending, backup, copy, report, hindered>>

----------------------------------------------------------------------------
(* A command, a handler of the daemon or a starting daemon.                 *)

Configure(c) ==
    /\ At(c, "inside") /\ Replace(c, "config")
    /\ UNCHANGED <<lock, pc, journal, things, outside, pending, backup, sealed, report, hindered>>

Install(c, d) ==
    /\ At(c, "inside") /\ Replace(c, "ownership")
    /\ journal' = journal \cup {d} /\ things' = things \cup {d}
    /\ UNCHANGED <<lock, pc, outside, pending, backup, sealed, report, hindered>>

(* SystemStore::write indexes the key before it writes the item.            *)
Login(c) ==
    /\ At(c, "inside") /\ Goto(c, "login") /\ Replace(c, "index")
    /\ UNCHANGED <<lock, journal, things, outside, pending, backup, sealed, report, hindered>>

Store(c) ==
    /\ At(c, "login") /\ Goto(c, "inside")
    /\ keyring' \in {keyring, TRUE}
    /\ UNCHANGED <<lock, writing, kept, binary, daemon, marker, report, hindered>>

Serve(c) ==
    /\ At(c, "inside") /\ ~daemon /\ daemon' = TRUE
    /\ UNCHANGED <<lock, pc, writing, kept, keyring, binary, marker, report, hindered>>

Leave(c) ==
    /\ At(c, "inside") /\ Close(c)
    /\ UNCHANGED <<writing, kept, outside, marker, report, hindered>>

Command(c) ==
    \/ Configure(c) \/ Login(c) \/ Store(c) \/ Serve(c) \/ Leave(c)
    \/ \E d \in Data : Install(c, d)

DaemonDies ==
    /\ daemon /\ daemon' = FALSE
    /\ UNCHANGED <<lock, pc, writing, kept, keyring, binary, marker, report, hindered>>

----------------------------------------------------------------------------
(* The remover.                                                             *)

(* self_state::ownership and artifacts: the copies count once the files are *)
(* gone.                                                                    *)
Ownership ==
    IF "ownership" \in present THEN journal ELSE IF pending THEN backup ELSE {}
Artifacts ==
    IF "ledger" \in present THEN ledger ELSE IF pending THEN copy ELSE NoEntries

(* The plan is made again under the lock, and refused unless it is the one  *)
(* that was confirmed.                                                      *)
Plan(r) ==
    /\ At(r, "plan")
    /\ \/ /\ Goto(r, "refresh") /\ round' = "first" /\ failed' = FALSE
          /\ todo' = (Ownership \ {Binary})
                     \cup {f \in {"config", "index"} : Artifacts[f] \in {"fits", "stale"}}
          /\ missed' = {f \in Files \cap present : Artifacts[f] = "none"}
          /\ UNCHANGED lock
       \/ Close(r) /\ UNCHANGED <<round, failed, todo, missed>>
    /\ UNCHANGED <<writing, kept, outside, marker, deleting, hindered>>

(* self_state::save replaces the ledger by a copy of known identity ...     *)
Refresh(r) ==
    /\ At(r, "refresh") /\ Goto(r, "mark")
    /\ sealed' = (sealed /\ "ledger" \notin present)
    /\ UNCHANGED <<lock, writing, kept, outside, pending, backup, copy, report, hindered>>

(* Mutant: the executable is removed whatever has failed.                   *)
SavedRegardless(r) ==
    CASE round = "first"  -> Goto(r, "restore") /\ UNCHANGED <<lock, round>>
      [] round = "report" -> Goto(r, "finish") /\ UNCHANGED <<lock, round>>
      [] OTHER            -> Close(r) /\ UNCHANGED round

(* The plan, what was done, and the failures of the last steps.             *)
Saved(r) ==
    CASE round = "first"             -> Goto(r, "restore") /\ UNCHANGED <<lock, round>>
      [] round = "report" /\ ~failed -> Goto(r, "finish") /\ UNCHANGED <<lock, round>>
      [] round = "report" /\ failed  -> Goto(r, "refresh") /\ round' = "last" /\ UNCHANGED lock
      [] OTHER                       -> Close(r) /\ UNCHANGED round

(* Mutant: the identity of the ledger is saved once.                        *)
MarkOnce(r) ==
    /\ At(r, "mark")
    /\ pending' = TRUE /\ backup' = Ownership /\ copy' = Artifacts
    /\ sealed' = (sealed \/ ("ledger" \in present /\ round = "first"))
    /\ Saved(r)
    /\ UNCHANGED <<writing, kept, outside, todo, missed, deleting, failed, hindered>>

(* Mutant: the copy is made of ownership.json, whether or not it exists.    *)
MarkFile(r) ==
    /\ At(r, "mark")
    /\ pending' = TRUE /\ backup' = journal /\ copy' = Artifacts
    /\ sealed' = (sealed \/ "ledger" \in present)
    /\ Saved(r)
    /\ UNCHANGED <<writing, kept, outside, todo, missed, deleting, failed, hindered>>

(* ... and then self-removal.json.                                          *)
Mark(r) ==
    /\ At(r, "mark")
    /\ pending' = TRUE /\ backup' = Ownership /\ copy' = Artifacts
    /\ sealed' = (sealed \/ "ledger" \in present)
    /\ Saved(r)
    /\ UNCHANGED <<writing, kept, outside, todo, missed, deleting, failed, hindered>>

(* self_state::restore, the ledger first.                                   *)
Restore(r) ==
    /\ At(r, "restore") /\ Goto(r, "rejournal")
    /\ ledger' = Artifacts /\ present' = present \cup {"ledger"}
    /\ sealed' = (sealed /\ "ledger" \in present)
    /\ UNCHANGED <<lock, writing, journal, things, outside, pending, backup, copy, report, hindered>>

(* update_async on the journal, which always replaces the file.             *)
Update(r, content) ==
    /\ Replace(r, "ownership") /\ journal' = content
    /\ UNCHANGED <<pending, backup, sealed>>

Rejournal(r) ==
    /\ At(r, "rejournal") /\ Goto(r, "begin")
    /\ IF "ownership" \in present
       THEN UNCHANGED <<writing, present, journal, ledger, marker>>
       ELSE Update(r, backup)
    /\ UNCHANGED <<lock, things, outside, report, hindered>>

(* self_uninstall, in the daemon or without one: what is running is stopped *)
(* after the operations are recorded.                                       *)
Begin(r) ==
    /\ At(r, "begin") /\ Goto(r, "stop")
    /\ Update(r, journal)
    /\ UNCHANGED <<lock, things, outside, report, hindered>>

Stop(r) ==
    /\ At(r, "stop") /\ Goto(r, "unregister")
    /\ daemon' = FALSE
    /\ UNCHANGED <<lock, writing, kept, keyring, binary, marker, report, hindered>>

Unregister(r) ==
    /\ At(r, "unregister") /\ Goto(r, "unlist")
    /\ IF "config" \in present
       THEN Replace(r, "config")
       ELSE UNCHANGED <<writing, present, ledger, copy>>
    /\ UNCHANGED <<lock, journal, things, outside, pending, backup, sealed, report, hindered>>

Unlist(r) ==
    /\ At(r, "unlist") /\ Goto(r, "data")
    /\ Update(r, journal)
    /\ UNCHANGED <<lock, things, outside, report, hindered>>

(* It reports, and goes on if it has no failures; later failures are saved  *)
(* in the end.                                                              *)
Report(r) == Goto(r, "refresh") /\ round' = "report"
GiveBack(r) == Goto(r, "refresh") /\ round' = "last" /\ failed' = TRUE

(* Data before the credentials, links after ripmcp's own files.             *)
Turn(r, t) ==
    /\ writing[r] = None
    /\ (t \in Data /\ pc[r] = "data") \/ (t \in Links /\ pc[r] = "setup")

Delete(r, t) ==
    /\ Turn(r, t) /\ t \in todo /\ deleting = None
    /\ things' = things \ {t} /\ deleting' = t
    /\ UNCHANGED <<lock, pc, writing, present, journal, ledger, outside, marker, todo, missed, round,
                   failed, hindered>>

Deleted(r, t) ==
    /\ Turn(r, t) /\ deleting = t
    /\ Update(r, journal \ {t})
    /\ todo' = todo \ {t} /\ deleting' = None
    /\ UNCHANGED <<lock, pc, things, outside, missed, round, failed, hindered>>

DataGone(r) ==
    /\ At(r, "data") /\ Data \cap todo = {} /\ deleting = None
    /\ Goto(r, "credentials")
    /\ UNCHANGED <<lock, writing, kept, outside, marker, report, hindered>>

(* Whatever has failed before, the indexed credentials are removed.         *)
Credentials(r) ==
    /\ At(r, "credentials")
    /\ keyring' = (keyring /\ "index" \notin present)
    /\ IF failed THEN Report(r) ELSE Goto(r, "clean") /\ UNCHANGED round
    /\ UNCHANGED <<lock, writing, kept, binary, daemon, marker, todo, missed, deleting, failed,
                   hindered>>

(* remove::remove of one of ripmcp's own files.                             *)
Fits(f) == f \notin present \/ ledger[f] = "fits"

Clean(r, f) ==
    /\ At(r, "clean") /\ f \in todo \cap {"config", "index"} /\ deleting = None
    /\ todo' = todo \ {f}
    /\ \/ Fits(f) /\ present' = present \ {f} /\ deleting' = f /\ UNCHANGED failed
       \/ ~Fits(f) /\ failed' = TRUE /\ UNCHANGED <<present, deleting>>
    /\ UNCHANGED <<lock, pc, writing, journal, ledger, things, outside, marker, missed, round,
                   hindered>>

Cleaned(r) ==
    /\ At(r, "clean") /\ deleting # None
    /\ ledger' = [ledger EXCEPT ![deleting] = "removed"]
    /\ sealed' = FALSE /\ deleting' = None
    /\ UNCHANGED <<lock, pc, writing, present, journal, things, outside, pending, backup, copy, todo,
                   missed, round, failed, hindered>>

FilesGone(r) ==
    /\ At(r, "clean") /\ todo \cap {"config", "index"} = {} /\ deleting = None
    /\ IF failed THEN Report(r) ELSE Goto(r, "setup") /\ UNCHANGED round
    /\ UNCHANGED <<lock, writing, kept, outside, marker, todo, missed, deleting, failed, hindered>>

LinksGone(r) ==
    /\ At(r, "setup") /\ Links \cap todo = {} /\ deleting = None
    /\ Report(r)
    /\ UNCHANGED <<lock, writing, kept, outside, marker, todo, missed, deleting, failed, hindered>>

(* finish_resources: the executable must be the one the installer recorded. *)
Finish(r) ==
    /\ At(r, "finish")
    /\ IF Binary \in Ownership /\ binary = "owned"
       THEN Goto(r, "metadata") /\ UNCHANGED <<round, failed>>
       ELSE GiveBack(r)
    /\ UNCHANGED <<lock, writing, kept, outside, marker, todo, missed, deleting, hindered>>

(* self_artifacts::metadata: ownership.json must have an entry, ...         *)
Journal(r) ==
    /\ At(r, "metadata")
    /\ IF ledger["ownership"] # "none" /\ Fits("ownership")
       THEN /\ present' = present \ {"ownership"} /\ journal' = {}
            /\ Goto(r, "guard") /\ UNCHANGED <<round, failed>>
       ELSE GiveBack(r) /\ UNCHANGED <<present, journal>>
    /\ UNCHANGED <<lock, writing, ledger, things, outside, marker, todo, missed, deleting, hindered>>

(* ... its lock may have one, ...                                           *)
JournalLock(r) ==
    /\ At(r, "guard")
    /\ IF ledger["guard"] = "none" \/ Fits("guard")
       THEN /\ present' = IF ledger["guard"] = "none" THEN present ELSE present \ {"guard"}
            /\ Goto(r, "ledger") /\ UNCHANGED <<round, failed>>
       ELSE GiveBack(r) /\ UNCHANGED present
    /\ UNCHANGED <<lock, writing, journal, ledger, things, outside, marker, todo, missed, deleting,
                   hindered>>

(* ... and the ledger must be the one that self-removal.json describes.     *)
Ledger(r) ==
    /\ At(r, "ledger")
    /\ IF sealed
       THEN /\ present' = present \ {"ledger"} /\ ledger' = NoEntries
            /\ Goto(r, "binary") /\ UNCHANGED <<round, failed>>
       ELSE GiveBack(r) /\ UNCHANGED <<present, ledger>>
    /\ UNCHANGED <<lock, writing, journal, things, outside, marker, todo, missed, deleting, hindered>>

RemoveBinary(r) ==
    /\ At(r, "binary") /\ Goto(r, "unmark")
    /\ binary' = "gone"
    /\ UNCHANGED <<lock, writing, kept, keyring, daemon, marker, report, hindered>>

(* Maintenance::finish.                                                     *)
Unmark(r) ==
    /\ At(r, "unmark") /\ Goto(r, "unlock")
    /\ pending' = FALSE /\ backup' = {} /\ copy' = NoEntries /\ sealed' = FALSE
    /\ UNCHANGED <<lock, writing, kept, outside, report, hindered>>

Unlock(r) ==
    /\ At(r, "unlock") /\ Goto(r, "close")
    /\ lockfile' = None
    /\ UNCHANGED <<fd, writing, kept, outside, marker, report, hindered>>

Drop(r) ==
    /\ At(r, "close") /\ Close(r)
    /\ UNCHANGED <<writing, kept, outside, marker, report, hindered>>

----------------------------------------------------------------------------
(* Failures.                                                                *)

(* Before it gets to finalize, and at its very end, an error ends it.       *)
FailEnd(r) ==
    /\ pc[r] \in Early \cup Ending /\ Close(r)
    /\ UNCHANGED <<daemon, todo, round>>

(* A daemon that does not answer may stop all the same.                     *)
FailStopping(r) ==
    /\ pc[r] \in Stopping /\ Goto(r, "credentials")
    /\ daemon' \in (IF pc[r] = "stop" THEN {daemon, FALSE} ELSE {daemon})
    /\ UNCHANGED <<lock, todo, round>>

(* Some of the resources are given up.                                      *)
FailDeleting(r) ==
    /\ pc[r] \in Deleting
    /\ \E rest \in SUBSET todo : todo' = rest
    /\ UNCHANGED <<lock, pc, daemon, round>>

FailCredentials(r) ==
    /\ pc[r] = "credentials" /\ Report(r)
    /\ UNCHANGED <<lock, daemon, todo>>

FailLast(r) ==
    /\ pc[r] \in Last /\ Goto(r, "refresh") /\ round' = "last"
    /\ UNCHANGED <<lock, daemon, todo>>

(* The system fails, somebody else has changed a file or does not answer.   *)
Fail(r) ==
    /\ FailEnd(r) \/ FailStopping(r) \/ FailDeleting(r) \/ FailCredentials(r) \/ FailLast(r)
    /\ failed' = TRUE /\ hindered' = TRUE
    /\ deleting' = None /\ writing' = [writing EXCEPT ![r] = None]
    /\ UNCHANGED <<kept, keyring, binary, marker, missed>>

(* A process dies.  The identities of ownership.json and config.json are    *)
(* recorded again by the next removal; those of the two others are not.     *)
Crash(p) ==
    /\ pc[p] # "idle" /\ Close(p)
    /\ writing' = [writing EXCEPT ![p] = None]
    /\ IF pc[p] \in Working THEN deleting' = None /\ todo' = {} ELSE UNCHANGED <<deleting, todo>>
    /\ hindered' = (hindered \/ writing[p] \in {"index", "guard"})
    /\ UNCHANGED <<kept, outside, marker, missed, round, failed>>

Removal(r) ==
    \/ Plan(r) \/ Refresh(r) \/ Mark(r) \/ Restore(r) \/ Rejournal(r) \/ Begin(r) \/ Stop(r)
    \/ Unregister(r) \/ Unlist(r) \/ DataGone(r) \/ Credentials(r) \/ Cleaned(r) \/ FilesGone(r)
    \/ LinksGone(r) \/ Finish(r) \/ Journal(r) \/ JournalLock(r) \/ Ledger(r) \/ RemoveBinary(r)
    \/ Unmark(r) \/ Unlock(r) \/ Drop(r) \/ Fail(r)
    \/ \E t \in Things : Delete(r, t) \/ Deleted(r, t)
    \/ \E f \in Files : Clean(r, f)

Next ==
    \/ \E p \in Procs : Open(p) \/ Lock(p) \/ Check(p) \/ GiveUp(p) \/ Guard(p) \/ Record(p) \/ Crash(p)
    \/ \E c \in Commands : Command(c)
    \/ \E r \in Removers : Removal(r)
    \/ DaemonDies

Spec == Init /\ [][Next]_vars

----------------------------------------------------------------------------
TypeOK ==
    /\ lockfile \in Inodes \cup {None} /\ fd \in [Procs -> Inodes \cup {None}]
    /\ pc \in [Procs -> Steps] /\ writing \in [Procs -> Files \cup {None}]
    /\ present \subseteq Files \cup {"ledger"}
    /\ journal \subseteq Resources /\ ledger \in [Files -> Entries] /\ things \subseteq Things
    /\ keyring \in BOOLEAN /\ binary \in {"foreign", "owned", "gone"} /\ daemon \in BOOLEAN
    /\ pending \in BOOLEAN /\ backup \subseteq Resources /\ copy \in [Files -> Entries]
    /\ sealed \in BOOLEAN
    /\ todo \subseteq Things \cup Files /\ missed \subseteq Files
    /\ deleting \in Things \cup Files \cup {None}
    /\ round \in {"first", "report", "last"} /\ failed \in BOOLEAN /\ hindered \in BOOLEAN

(* The lock is a Gate: whatever becomes of the lock's file, which every     *)
(* complete removal unlinks and the next process creates again, no command, *)
(* handler or starting daemon changes anything during a removal, or after   *)
(* an incomplete one.                                                       *)
Lockers == INSTANCE Gate WITH
    mutating <- {c \in Commands : pc[c] \in Inside},
    removing <- {r \in Removers : pc[r] \in Working}
FencesMutations == Lockers!Spec

(* "The marker remains the recovery source after journals are removed,      *)
(* until binary removal succeeds": at every moment everything that is still *)
(* there to be removed, and the provenance of the executable, can be read   *)
(* from the journal or from the copy that counts if it is gone.             *)
Owned == things \cup (IF binary = "owned" THEN {Binary} ELSE {})
EvidenceKept == Owned \subseteq Ownership

(* "remove_standalone_executable_last": when the executable is removed,     *)
(* nothing that was recorded is left, no credential and no daemon.          *)
ExecutableLast ==
    [][binary # "gone" /\ binary' = "gone" =>
         /\ binary = "owned" /\ things = {} /\ present \subseteq missed
         /\ ~keyring /\ ~daemon]_vars

(* Interrupted anywhere, and started again, a removal comes to its end: it  *)
(* reports a failure only if something else than a crash was in the way, a  *)
(* crash has left a file without its identity that no removal writes, or    *)
(* the executable is not known to be ours.                                  *)
RetryCompletes == failed => hindered \/ binary # "owned"
=============================================================================
