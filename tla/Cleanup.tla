------------------------------ MODULE Cleanup ------------------------------
(****************************************************************************)
(* How "uninstall --clean" deletes what an installation has recorded:       *)
(* cleanup/journal.rs, plan.rs and remove.rs over ownership.json and the    *)
(* file system.                                                             *)
(*                                                                          *)
(* A resource is a path and the identity, device, inode and time of birth,  *)
(* of what was there when it was recorded.  It is deleted by renaming it to *)
(* a name of its own beside it, looking at it again and unlinking it there. *)
(* Every system call is a step of its own: others create, delete and move   *)
(* files between them, and the daemon dies.                                 *)
(*                                                                          *)
(* An object of the model is what a time of birth tells apart; two objects  *)
(* may have had one inode, one after the other.  A change of owner, mode    *)
(* or links is to Filesystem::matches what a replacement is.                *)
(****************************************************************************)
EXTENDS Naturals, SequencesExt

CONSTANTS
    Objects,        \* files and directories there are or will be
    Dirs,           \* those that are directories
    Inode,          \* object -> its inode, which is reused
    Root,           \* the directory all paths start from
    Names,          \* names of directory entries
    Paths,          \* paths that are recorded: sequences of names
    Layout,         \* object -> its place before the first installation
    Installations,  \* installations of ownership.json
    Edits,          \* bound on the changes others make to the files
    None            \* no value

Inodes == {Inode[o] : o \in Objects \cup {Root}}

(* ".ripmcp-remove-<device>-<inode>"                                        *)
Hidden(o) == Inode[o]

Places == [dir : Objects \cup {Root}, name : Names \cup Inodes]

States == {"pending", "removed", "retry_required"}

(* A Resource with its Filesystem: None for an object without a time of     *)
(* birth.                                                                   *)
Claims == [proof : Objects \cup {None}, parent : Inodes, exclusive : BOOLEAN,
           cleanup : States]

ASSUME ObjectsAssumption ==
    /\ Dirs \subseteq Objects /\ Root \notin Objects
    /\ None \notin Objects \cup {Root} \cup Places \cup Claims \cup Installations \cup Paths
ASSUME NamesAssumption == Names \cap Inodes = {}
ASSUME PathsAssumption == Paths \subseteq Seq(Names) \ {<< >>}
ASSUME LayoutAssumption ==
    /\ Layout \in [Objects -> Places \cup {None}]
    /\ \A o \in Objects : Layout[o] # None =>
          /\ Layout[o].name \in Names /\ Layout[o].dir \in Dirs \cup {Root}
          /\ \A x \in Objects :
                Layout[x] = Layout[o] \/ (Layout[x] # None /\ Inode[x] = Inode[o]) => x = o
ASSUME TreeAssumption ==
    \A o \in Objects : Layout[o] # None /\ Layout[o].dir # Root => Layout[Layout[o].dir] # None
ASSUME EditsAssumption == Edits \in Nat

VARIABLES
    place,      \* object -> where it is
    gone,       \* objects that were deleted
    journal,    \* installation -> path -> its claim in ownership.json
    pc,         \* the step the cleaner is at
    who,        \* the installation it cleans
    todo,       \* paths of its plan still to be deleted
    path,       \* the path it is deleting
    dir,        \* the parent it holds open
    fine,       \* how the deletion of that path went
    ok,         \* its report has no failures
    edits,      \* how often others have changed files
    moved,      \* history: objects others have moved
    disturbed   \* history: something but a crash was in the way

run == <<who, todo, path, dir, fine, ok>>
files == <<place, gone>>
others == <<edits, moved>>
vars == <<place, gone, journal, pc, who, todo, path, dir, fine, ok, edits, moved, disturbed>>

Working == {"look", "rename", "verify", "restore", "unlink"}
Locked  == {"open", "commit"} \cup Working
Steps   == {"idle", "next"} \cup Locked

Init ==
    /\ place = Layout
    /\ gone = {}
    /\ journal = [i \in Installations |-> [p \in Paths |-> None]]
    /\ pc = "idle"
    /\ who = None /\ todo = {} /\ path = None /\ dir = None
    /\ fine = TRUE /\ ok = TRUE
    /\ edits = 0 /\ moved = {} /\ disturbed = FALSE

----------------------------------------------------------------------------
(* The file system.                                                         *)

Entry(d, name) == [dir |-> d, name |-> name]
At(d, name) == {o \in Objects : place[o] = Entry(d, name)}
Exists(o) == place[o] # None
Empty(d) == \A o \in Objects : Exists(o) => place[o].dir # d

(* Following a path from the root, which ends at o.                         *)
Resolves(p, o) ==
    IF p = << >> THEN o = Root
    ELSE \E chain \in [1..Len(p) -> Objects] :
            /\ chain[Len(p)] = o
            /\ \A k \in 1..Len(p) :
                  place[chain[k]] = Entry(IF k = 1 THEN Root ELSE chain[k - 1], p[k])

(* a is n directories above o: o itself, the one it is in, ...              *)
Above(o, a, n) ==
    \E chain \in [0..n -> Objects] :
        /\ chain[0] = o /\ chain[n] = a
        /\ \A k \in 1..n : Exists(chain[k - 1]) /\ place[chain[k - 1]].dir = chain[k]

(* Others create, delete and move what they like.  They use no hidden name, *)
(* but may have a hidden directory open.                                    *)
Vacant(e) ==
    /\ e.name \in Names /\ At(e.dir, e.name) = {}
    /\ e.dir # Root => e.dir \in Dirs /\ Exists(e.dir)
Visible(o) == Exists(o) /\ place[o].name \in Names
Edit ==
    /\ edits < Edits /\ edits' = edits + 1
    /\ disturbed' = TRUE
    /\ UNCHANGED <<journal, pc, run>>
Create(o, e) ==
    /\ ~Exists(o) /\ o \notin gone /\ Vacant(e)
    /\ \A x \in Objects : Inode[x] = Inode[o] => ~Exists(x) /\ dir # x
    /\ place' = [place EXCEPT ![o] = e]
    /\ Edit /\ UNCHANGED <<gone, moved>>
Delete(o) ==
    /\ Visible(o) /\ (o \in Dirs => Empty(o))
    /\ place' = [place EXCEPT ![o] = None] /\ gone' = gone \cup {o}
    /\ Edit /\ UNCHANGED moved
Move(o, e) ==
    /\ Visible(o) /\ Vacant(e)
    /\ ~ \E n \in 0..Cardinality(Dirs) : Above(e.dir, o, n)
    /\ place' = [place EXCEPT ![o] = e] /\ moved' = moved \cup {o}
    /\ Edit /\ UNCHANGED gone

----------------------------------------------------------------------------
(* The journal.                                                             *)

Object(p) == CHOOSE o \in Objects : Resolves(p, o)

(* Filesystem::created: what is at the path, and its parent, at that time.  *)
Claim(p, born, exclusive) ==
    [proof |-> IF born THEN Object(p) ELSE None, parent |-> Inode[place[Object(p)].dir],
     exclusive |-> exclusive, cleanup |-> "pending"]

(* Everything in a claimed directory is claimed, with a time of birth.      *)
Tidy(P, born) ==
    /\ born
    /\ \A p \in P, d \in Objects, o \in Objects :
          Resolves(p, d) /\ Exists(o) /\ place[o].dir = d
            => \E q \in P : Resolves(q, o)

(* An installation records resources, some exclusively, under the lock of   *)
(* the journal.  The links of ripmcp's own installer and its ledger of      *)
(* artifacts count as an installation here: preservation looks at all.      *)
Record(i) ==
    /\ pc \notin Locked /\ i # who /\ \A p \in Paths : journal[i][p] = None
    /\ \E P, X \in SUBSET Paths, born \in BOOLEAN :
          /\ P # {} /\ X \subseteq P /\ \A p \in P : \E o \in Objects : Resolves(p, o)
          /\ journal' = [journal EXCEPT ![i] =
                [p \in Paths |-> IF p \in P THEN Claim(p, born, p \in X) ELSE None]]
          /\ disturbed' = (disturbed \/ pc # "idle" \/ ~Tidy(P, born))
    /\ UNCHANGED <<files, pc, run, others>>

Live(i, p) == journal[i][p] # None /\ journal[i][p].cleanup # "removed"

Overlaps(p, q) == IsPrefix(p, q) \/ IsPrefix(q, p)

(* preservation: the resource is not exclusive, not provable, or overlaps   *)
(* one of another installation or a shared one of its own.                  *)
Preserved(i, p) ==
    \/ ~journal[i][p].exclusive \/ journal[i][p].proof = None
    \/ \E j \in Installations, q \in Paths :
          Live(j, q) /\ Overlaps(p, q) /\ (j = i => ~journal[j][q].exclusive)

Deletable(i) == {p \in Paths : Live(i, p) /\ ~Preserved(i, p)}

----------------------------------------------------------------------------
(* The cleaner.                                                             *)

(* Plan::resources sorts by depth.                                          *)
First(p) == p \in todo /\ \A q \in todo : Len(q) <= Len(p)

Goto(step) == pc' = step
Result(good) == Goto("commit") /\ fine' = good

(* The uninstallation has planned, again, and got to its deletions.         *)
Begin(i) ==
    /\ pc = "idle" /\ \E p \in Paths : journal[i][p] # None
    /\ Goto("next")
    /\ who' = i /\ todo' = Deletable(i) /\ ok' = TRUE
    /\ UNCHANGED <<files, journal, path, dir, fine, others, disturbed>>

Stop == Goto("idle") /\ who' = None /\ todo' = {} /\ path' = None /\ dir' = None

(* Mutant: the plan is not looked at again.                                 *)
TakePlanned(p) ==
    /\ pc = "next" /\ First(p)
    /\ todo' = todo \ {p}
    /\ Goto("open") /\ path' = p /\ UNCHANGED ok
    /\ UNCHANGED <<files, journal, who, dir, fine, others, disturbed>>

(* apply, under the lock of the journal, looks at all claims again.         *)
Take(p) ==
    /\ pc = "next" /\ First(p)
    /\ todo' = todo \ {p}
    /\ \/ ~Preserved(who, p) /\ Goto("open") /\ path' = p /\ UNCHANGED ok
       \/ Preserved(who, p) /\ Goto("next") /\ ok' = FALSE /\ UNCHANGED path
    /\ UNCHANGED <<files, journal, who, dir, fine, others, disturbed>>

claim == journal[who][path]
Target == Entry(dir, Last(path))
Aside  == Entry(dir, Hidden(claim.proof))
AtTarget == At(Target.dir, Target.name)
AtAside  == At(Aside.dir, Aside.name)

(* Filesystem::matches.                                                     *)
Matches(o) == o = claim.proof

(* remove: without a parent there is nothing to delete.                     *)
Open ==
    /\ pc = "open"
    /\ LET Parents == {d \in Dirs \cup {Root} : Resolves(Front(path), d)} IN
       \/ /\ ~\E o \in Objects \cup {Root} : Resolves(Front(path), o)
          /\ Result(TRUE) /\ UNCHANGED dir
       \/ \E d \in Parents : Inode[d] = claim.parent /\ dir' = d /\ Goto("look") /\ UNCHANGED fine
       \/ /\ \E o \in Objects \cup {Root} : Resolves(Front(path), o)
          /\ \A d \in Parents : Inode[d] # claim.parent
          /\ Result(FALSE) /\ UNCHANGED dir
    /\ UNCHANGED <<files, journal, who, todo, path, ok, others, disturbed>>

(* Mutant: what an interrupted removal has put aside is not known again.    *)
LookTarget ==
    /\ pc = "look"
    /\ \/ AtTarget = {} /\ AtAside = {} /\ Result(TRUE)
       \/ AtAside # {} /\ Result(FALSE)
       \/ AtAside = {} /\ (\E o \in AtTarget : Matches(o)) /\ Goto("rename") /\ UNCHANGED fine
       \/ AtAside = {} /\ (\E o \in AtTarget : ~Matches(o)) /\ Result(FALSE)
    /\ UNCHANGED <<files, journal, who, todo, path, dir, ok, others, disturbed>>

(* Mutant: a path at which nothing is counts as removed, whatever is aside. *)
LookPast ==
    /\ pc = "look"
    /\ \/ AtTarget = {} /\ Result(TRUE)
       \/ AtTarget # {} /\ AtAside # {} /\ Result(FALSE)
       \/ AtAside = {} /\ (\E o \in AtTarget : Matches(o)) /\ Goto("rename") /\ UNCHANGED fine
       \/ AtAside = {} /\ (\E o \in AtTarget : ~Matches(o)) /\ Result(FALSE)
    /\ UNCHANGED <<files, journal, who, todo, path, dir, ok, others, disturbed>>

(* The first looks of remove and stage.                                     *)
Look ==
    /\ pc = "look"
    /\ \/ AtTarget = {} /\ AtAside = {} /\ Result(TRUE)
       \/ /\ \E o \in AtAside : Matches(o)
          /\ AtTarget = {} /\ Goto("unlink") /\ UNCHANGED fine
       \/ /\ AtAside # {} /\ ~(AtTarget = {} /\ \E o \in AtAside : Matches(o))
          /\ Result(FALSE)
       \/ AtAside = {} /\ (\E o \in AtTarget : Matches(o)) /\ Goto("rename") /\ UNCHANGED fine
       \/ AtAside = {} /\ (\E o \in AtTarget : ~Matches(o)) /\ Result(FALSE)
    /\ UNCHANGED <<files, journal, who, todo, path, dir, ok, others, disturbed>>

(* Without replacement.  What is moved is what is at the path by now.       *)
Rename ==
    /\ pc = "rename"
    /\ \/ /\ AtAside = {}
          /\ \E o \in AtTarget : place' = [place EXCEPT ![o] = Aside]
          /\ Goto("verify") /\ UNCHANGED fine
       \/ (AtAside # {} \/ AtTarget = {}) /\ Result(FALSE) /\ UNCHANGED place
    /\ UNCHANGED <<gone, journal, who, todo, path, dir, ok, others, disturbed>>

(* Mutant: what was moved is not looked at again.                           *)
VerifyNothing ==
    /\ pc = "verify" /\ Goto("unlink")
    /\ UNCHANGED <<files, journal, who, todo, path, dir, fine, ok, others, disturbed>>

Verify ==
    /\ pc = "verify"
    /\ \E o \in AtAside :
          IF Matches(o) /\ (o \in Dirs => Empty(o)) THEN Goto("unlink") ELSE Goto("restore")
    /\ UNCHANGED <<files, journal, who, todo, path, dir, fine, ok, others, disturbed>>

(* Renaming it back fails if something else has come to the path.           *)
Restore ==
    /\ pc = "restore" /\ Result(FALSE)
    /\ \/ /\ AtTarget = {}
          /\ \E o \in AtAside : place' = [place EXCEPT ![o] = Target]
       \/ AtTarget # {} /\ UNCHANGED place
    /\ UNCHANGED <<gone, journal, who, todo, path, dir, ok, others, disturbed>>

(* A directory others have filled meanwhile is not unlinked.                *)
Unlink ==
    /\ pc = "unlink"
    /\ \E o \in AtAside :
          \/ /\ o \in Dirs => Empty(o)
             /\ place' = [place EXCEPT ![o] = None] /\ gone' = gone \cup {o}
             /\ Result(TRUE)
          \/ o \in Dirs /\ ~Empty(o) /\ UNCHANGED files /\ Result(FALSE)
    /\ UNCHANGED <<journal, who, todo, path, dir, ok, others, disturbed>>

(* A system call fails; the parent's sync also after the deletion.          *)
Fail ==
    /\ \/ pc \in {"open"} \cup Working /\ Result(FALSE)
       \/ pc = "commit" /\ fine /\ Result(FALSE)
    /\ disturbed' = TRUE
    /\ UNCHANGED <<files, journal, who, todo, path, dir, ok, others>>

(* update_async commits what apply has found.                               *)
Commit ==
    /\ pc = "commit"
    /\ journal' = [journal EXCEPT ![who][path].cleanup =
                      IF fine THEN "removed" ELSE "retry_required"]
    /\ Goto("next") /\ ok' = (ok /\ fine) /\ dir' = None /\ path' = None
    /\ UNCHANGED <<files, who, todo, fine, others, disturbed>>

(* Without the journal the rest of the plan is given up, perhaps after it   *)
(* was replaced all the same: a Commit followed by an Abort.                *)
Abort ==
    /\ pc \in {"next", "open", "commit"}
    /\ Stop /\ ok' = FALSE /\ disturbed' = TRUE
    /\ UNCHANGED <<files, journal, fine, others>>

Finish ==
    /\ pc = "next" /\ todo = {}
    /\ Stop
    /\ UNCHANGED <<files, journal, fine, ok, others, disturbed>>

(* The daemon dies, or the machine.                                         *)
Crash ==
    /\ pc # "idle"
    /\ Stop /\ ok' = TRUE
    /\ UNCHANGED <<files, journal, fine, others, disturbed>>

Removal == Open \/ Look \/ Rename \/ Verify \/ Restore \/ Unlink \/ Fail

Next ==
    \/ \E o \in Objects, e \in Places : Create(o, e) \/ Move(o, e)
    \/ \E o \in Objects : Delete(o)
    \/ \E i \in Installations : Record(i) \/ Begin(i)
    \/ \E p \in Paths : Take(p)
    \/ Removal \/ Commit \/ Abort \/ Finish \/ Crash

Spec == Init /\ [][Next]_vars

----------------------------------------------------------------------------
TypeOK ==
    /\ place \in [Objects -> Places \cup {None}]
    /\ gone \subseteq Objects
    /\ journal \in [Installations -> [Paths -> Claims \cup {None}]]
    /\ pc \in Steps
    /\ who \in Installations \cup {None} /\ todo \subseteq Paths
    /\ path \in Paths \cup {None} /\ dir \in Dirs \cup {Root, None}
    /\ fine \in BOOLEAN /\ ok \in BOOLEAN
    /\ edits \in 0..Edits /\ moved \subseteq Objects /\ disturbed \in BOOLEAN

(* "Deletion uses device/inode and immutable birth identity, no-replace     *)
(* staging, and identity checks after staging": what the cleaner unlinks is *)
(* the very object that was recorded, whatever others put in its place, and *)
(* whichever inode that was given, between any two system calls.            *)
DeletesRecorded ==
    [][edits' = edits /\ gone' # gone => gone' \ gone = {claim.proof}]_vars

(* "Unknown/shared resources are preserved": nothing is unlinked at, above  *)
(* or below a path that the journal of that moment claims for another       *)
(* installation, or as shared.                                              *)
SharedKept ==
    [][edits' = edits /\ gone' # gone =>
         \A j \in Installations, q \in Paths :
             Live(j, q) /\ Overlaps(path, q) => j = who /\ journal[j][q].exclusive]_vars

(* A resource is recorded as removed only when the object is gone, unless   *)
(* someone else has moved it, or a directory it is in, or that directory    *)
(* has been left under its hidden name.  An object that an interrupted      *)
(* removal has put aside is not gone: it is never forgotten under the       *)
(* hidden name while the removal reports success.                           *)
RemovedGone ==
    \A i \in Installations, p \in Paths :
        LET c == journal[i][p] IN
        c # None /\ c.cleanup = "removed" /\ Exists(c.proof) =>
            \E n \in 0..(Len(p) - 1), a \in Objects :
                Above(c.proof, a, n) /\ (a \in moved \/ (n >= 1 /\ ~Visible(a)))

(* Interrupted anywhere, and started again, a removal comes to its end: it  *)
(* reports a failure only if someone else has changed the files, recorded   *)
(* one of them or kept more in them, or the system has failed.              *)
InterruptedFinishes == ok \/ disturbed
=============================================================================
