--------------------------- MODULE RemovalProofs ---------------------------
(****************************************************************************)
(* Machine-checked theorems about module Removal, for any number of         *)
(* commands and removers, of identities of the lock's file and of recorded  *)
(* resources.                                                               *)
(****************************************************************************)
EXTENDS Removal, TLAPS

USE DEF lock, kept, outside, marker, report
USE ProcsAssumption, ThingsAssumption

Entered == Inside \cup Working

(* Steps at which a file may be replaced and not yet recorded.              *)
Writers == Inside \cup {"rejournal", "begin", "stop", "unlist", "data", "setup"}

(* The lock: two processes that hold the same file both hold it shared, and *)
(* whoever has entered holds the file that the path leads to.               *)
LockOK ==
    /\ \A p \in Procs : pc[p] = "idle" <=> fd[p] = None
    /\ \A c \in Commands : pc[c] \in Inside \cup {"idle", "wait", "check"}
    /\ \A r \in Removers : pc[r] \notin Inside
    /\ \A p, q \in Procs :
          p # q /\ pc[p] \in Holding /\ pc[q] \in Holding /\ fd[p] = fd[q]
             => p \in Commands /\ q \in Commands
    /\ \A p \in Procs : pc[p] \in Entered => fd[p] = lockfile
    /\ \A c \in Commands : pc[c] \in Inside => ~pending
    /\ \A p \in Procs : writing[p] # None => pc[p] \in Writers

(* What can be read of the files, of the journal and of the keyring, at any *)
(* time.                                                                    *)
DataOK ==
    /\ EvidenceKept
    /\ deleting \notin things
    /\ deleting # None => \E r \in Removers : pc[r] \in Deleting
    /\ "ownership" \notin present => journal = {}
    /\ "ledger" \notin present => ledger = NoEntries
    /\ keyring => "index" \in present
    /\ \A c \in Commands : pc[c] = "login" => "index" \in present
    /\ \A f \in Files : Artifacts[f] = "removed" =>
          f \in {"config", "index"} \ present /\ pending
    /\ ~hindered => \A f \in {"index", "guard"} \cap present :
          Artifacts[f] = "fits" \/ \E p \in Procs : writing[p] = f

(* The remover's program, as far as it has come.                            *)
Second(r)   == pc[r] \in {"refresh", "mark"} /\ round = "report"
Planned     == Working \ {"plan"}
Marked(r)   == pc[r] \in Planned \ {"unlock", "refresh", "mark"} \/ (pc[r] \in {"refresh", "mark"} /\ round # "first")
Begun(r)    == pc[r] \in Stopping \cup Deleting \cup {"credentials", "finish", "metadata"} \/ Second(r)
Restored(r) == Begun(r) \/ pc[r] \in {"begin"}
Ledgered(r) == Restored(r) \/ pc[r] \in {"rejournal", "guard", "ledger"}
Done(r)     == Second(r) \/ pc[r] \in Last \cup Ending
Going(r)    == pc[r] \in Planned /\ ~failed

Keeps(r) ==
    /\ Marked(r) => pending
    /\ Restored(r) => "ownership" \in present
    /\ Ledgered(r) => "ledger" \in present
    /\ pc[r] \in {"finish", "metadata"} => Owned \subseteq backup
    /\ pc[r] \in {"finish", "metadata", "guard", "ledger"} => sealed /\ copy = ledger
    /\ pc[r] \in {"guard", "ledger", "binary"} \cup Ending => "ownership" \notin present
    /\ pc[r] \in {"binary"} \cup Ending => "ledger" \notin present
    /\ pc[r] \in {"metadata", "guard", "ledger", "binary"} => binary = "owned"
    /\ pc[r] \in Ending => binary = "gone"
    /\ pc[r] \in Last \cup Ending => ~failed
    /\ pc[r] \in {"clean", "setup"} => ~keyring
    /\ pc[r] = "clean" => deleting \in {None} \cup ({"config", "index"} \ present)

(* What is gone already.                                                    *)
Clears(r) ==
    /\ things \subseteq todo
    /\ pc[r] \in {"credentials", "clean", "setup"} => things \cap Data = {}
    /\ Done(r) => things = {}
    /\ pc[r] \in {"unregister", "unlist", "credentials"} \cup Deleting \/ Done(r) => ~daemon
    /\ Done(r) => ~keyring
    /\ {"config", "index"} \cap present \subseteq todo \cup missed
    /\ pc[r] = "setup" \/ Done(r) => {"config", "index"} \cap present \subseteq missed
    /\ "guard" \in present => \/ "guard" \in missed \/ writing[r] = "guard"
                              \/ pc[r] \notin {"ledger", "binary"} \cup Ending /\ Artifacts["guard"] # "none"

(* That nothing is in the way.                                              *)
Clear(r) ==
    /\ pc[r] \in {"unlist", "data", "credentials", "clean"} /\ "config" \in present
          => ledger["config"] = "fits" \/ writing[r] = "config"
    /\ Begun(r) => ledger["ownership"] = "fits" \/ writing[r] = "ownership"
    /\ ~hindered => missed \cap {"index", "guard"} = {}

RemoverOK == \A r \in Removers : Keeps(r) /\ (Going(r) => Clears(r) /\ Clear(r))

Inv == TypeOK /\ LockOK /\ DataOK /\ RemoverOK /\ RetryCompletes

-----------------------------------------------------------------------------
(* What the model's own operators do.                                       *)

LEMMA SpoiltFits ==
  ASSUME NEW entries \in [Files -> Entries], NEW f \in Files
  PROVE  /\ Spoilt(entries, f) \in [Files -> Entries]
         /\ \A g \in Files : g # f => Spoilt(entries, f)[g] = entries[g]
         /\ Spoilt(entries, f)[f] = IF entries[f] = "fits" THEN "stale" ELSE entries[f]
BY DEF Spoilt, Entries

LEMMA SpoiltNothing == ASSUME NEW f \in Files PROVE Spoilt(NoEntries, f) = NoEntries
BY DEF Spoilt, NoEntries

LEMMA ArtifactsType == ASSUME TypeOK PROVE Artifacts \in [Files -> Entries]
BY DEF TypeOK, Artifacts, NoEntries, Entries

LEMMA OwnershipType == ASSUME TypeOK PROVE Ownership \subseteq Resources
BY DEF TypeOK, Ownership

LEMMA ReplaceFacts ==
  ASSUME TypeOK, NEW p \in Procs, NEW f \in Files, Replace(p, f)
  PROVE  /\ writing' \in [Procs -> Files \cup {None}] /\ writing'[p] = f
         /\ \A q \in Procs : q # p => writing'[q] = writing[q]
         /\ present' = present \cup {f}
         /\ ledger' \in [Files -> Entries] /\ copy' \in [Files -> Entries]
         /\ \A g \in Files : g # f => ledger'[g] = ledger[g] /\ copy'[g] = copy[g]
         /\ ledger'[f] = IF ledger[f] = "fits" THEN "stale" ELSE ledger[f]
         /\ copy'[f] = IF copy[f] = "fits" THEN "stale" ELSE copy[f]
         /\ ledger = NoEntries => ledger' = NoEntries
BY SpoiltFits, SpoiltNothing DEF TypeOK, Replace

(* A file that is replaced changes only its own entry.                      *)
LEMMA ReplaceArtifacts ==
  ASSUME TypeOK, NEW p \in Procs, NEW f \in Files, Replace(p, f), pending' = pending
  PROVE  /\ \A g \in Files : g # f => Artifacts'[g] = Artifacts[g]
         /\ Artifacts'[f] = "none" <=> Artifacts[f] = "none"
         /\ Artifacts'[f] = "removed" <=> Artifacts[f] = "removed"
<1>1. "ledger" \notin Files BY DEF Files
<1>2. /\ present' = present \cup {f}
      /\ \A g \in Files : g # f => ledger'[g] = ledger[g] /\ copy'[g] = copy[g]
      /\ ledger'[f] = IF ledger[f] = "fits" THEN "stale" ELSE ledger[f]
      /\ copy'[f] = IF copy[f] = "fits" THEN "stale" ELSE copy[f]
  BY ReplaceFacts
<1>3. "ledger" \in present' <=> "ledger" \in present BY <1>1, <1>2
<1>4. CASE "ledger" \in present BY <1>2, <1>3, <1>4 DEF Artifacts
<1>5. CASE "ledger" \notin present /\ pending BY <1>2, <1>3, <1>5 DEF Artifacts
<1>6. CASE "ledger" \notin present /\ ~pending BY <1>3, <1>6 DEF Artifacts
<1> QED BY <1>4, <1>5, <1>6

(* Whoever has entered as a remover is alone.                               *)
LEMMA Alone ==
  ASSUME TypeOK, LockOK, NEW r \in Removers, pc[r] \in Working
  PROVE  \A q \in Procs : q # r => pc[q] \notin Entered /\ writing[q] = None
<1> SUFFICES ASSUME NEW q \in Procs, q # r PROVE pc[q] \notin Entered /\ writing[q] = None
  OBVIOUS
<1>1. pc[q] \notin Entered
  <2> SUFFICES ASSUME pc[q] \in Entered PROVE FALSE OBVIOUS
  <2>1. pc[q] \in Holding /\ pc[r] \in Holding BY DEF Entered, Holding
  <2>2. fd[q] = lockfile /\ fd[r] = lockfile BY DEF LockOK, Entered, Procs
  <2> QED BY <2>1, <2>2 DEF LockOK, Procs
<1>2. Writers \subseteq Entered
  BY DEF Writers, Entered, Working, Early, Stopping, Deleting
<1> QED BY <1>1, <1>2 DEF LockOK

LEMMA NoneRemoves ==
  ASSUME TypeOK, LockOK, NEW c \in Commands, pc[c] \in Inside
  PROVE  /\ \A r \in Removers : pc[r] \notin Working
         /\ ~pending
<1>1. \A r \in Removers : pc[r] \notin Working BY Alone DEF Entered, Procs
<1> QED BY <1>1 DEF LockOK

-----------------------------------------------------------------------------
LEMMA InitInv == Init => Inv
<1> SUFFICES ASSUME Init PROVE Inv OBVIOUS
<1>1. TypeOK
  BY DEF Init, TypeOK, Steps, Files, Entries, NoEntries, Resources, Things
<1>2. LockOK BY DEF Init, LockOK, Holding, Inside, Working, Entered, Early, Stopping, Deleting, Last, Ending, Procs
<1>3. DataOK
  <2>1. EvidenceKept BY DEF Init, EvidenceKept, Owned, Ownership
  <2>2. Artifacts = ledger BY DEF Init, Artifacts
  <2> QED BY <2>1, <2>2 DEF Init, DataOK, Files, NoEntries, Procs, Things
<1>4. RemoverOK
  BY DEF Init, RemoverOK, Keeps, Going, Marked, Begun, Restored, Ledgered, Done, Second, Planned,
         Working, Early, Stopping, Deleting, Last, Ending, Procs
<1>5. RetryCompletes BY DEF Init, RetryCompletes
<1> QED BY <1>1, <1>2, <1>3, <1>4, <1>5 DEF Inv

-----------------------------------------------------------------------------
(* Types.                                                                   *)

LEMMA StepsAre ==
  /\ Early \subseteq Steps /\ Stopping \subseteq Steps /\ Deleting \subseteq Steps
  /\ Last \subseteq Steps /\ Ending \subseteq Steps /\ Inside \subseteq Steps
  /\ {"idle", "wait", "check", "close", "credentials"} \subseteq Steps
BY DEF Steps, Holding, Working

LEMMA PcType ==
  ASSUME TypeOK, NEW p \in Procs, NEW s \in Steps, Goto(p, s)
  PROVE  pc' \in [Procs -> Steps]
BY DEF TypeOK, Goto

LEMMA CloseType ==
  ASSUME TypeOK, NEW p \in Procs, Close(p)
  PROVE  pc' \in [Procs -> Steps] /\ fd' \in [Procs -> Inodes \cup {None}] /\ lockfile' = lockfile
BY StepsAre DEF TypeOK, Goto, Close

LEMMA FilesAre == {"config", "index", "ownership", "guard"} \subseteq Files
BY DEF Files

LEMMA ReplaceType ==
  ASSUME TypeOK, NEW p \in Procs, NEW f \in Files, Replace(p, f)
  PROVE  /\ writing' \in [Procs -> Files \cup {None}] /\ present' \subseteq Files \cup {"ledger"}
         /\ ledger' \in [Files -> Entries] /\ copy' \in [Files -> Entries]
<1>1. present' = present \cup {f} BY ReplaceFacts
<1> QED BY <1>1, ReplaceFacts DEF TypeOK

LEMMA BackType ==
  ASSUME TypeOK, NEW r \in Removers, Report(r) \/ GiveBack(r)
  PROVE  pc' \in [Procs -> Steps] /\ round' \in {"first", "report", "last"}
<1>1. Goto(r, "refresh") /\ round' \in {"report", "last"} BY DEF Report, GiveBack
<1> QED BY <1>1, PcType, StepsAre DEF Procs, Early

LEMMA LockType ==
  ASSUME TypeOK, NEW p \in Procs, Open(p) \/ Lock(p) \/ Check(p) \/ GiveUp(p)
  PROVE  TypeOK'
<1>1. pc' \in [Procs -> Steps] /\ fd' \in [Procs -> Inodes \cup {None}] /\ lockfile' \in Inodes \cup {None}
  <2>1. CASE Open(p) BY <2>1, StepsAre DEF TypeOK, Open, Goto
  <2>2. CASE Lock(p) BY <2>2, StepsAre DEF TypeOK, Lock, Goto
  <2>3. CASE Check(p)
    <3>1. CASE Close(p) BY <3>1, CloseType DEF TypeOK
    <3>2. CASE Goto(p, IF p \in Commands THEN "inside" ELSE "plan") /\ UNCHANGED lock
      BY <3>2, PcType, StepsAre DEF TypeOK, Inside, Early
    <3> QED BY <2>3, <3>1, <3>2 DEF Check
  <2>4. CASE GiveUp(p) BY <2>4, CloseType DEF TypeOK, GiveUp
  <2> QED BY <2>1, <2>2, <2>3, <2>4
<1> QED BY <1>1 DEF TypeOK, Open, Lock, Check, GiveUp

LEMMA StoreType ==
  ASSUME TypeOK, NEW p \in Procs, Guard(p) \/ Record(p)
  PROVE  TypeOK'
<1>1. CASE Guard(p)
  <2>1. Replace(p, "guard") BY <1>1 DEF Guard
  <2> QED BY <1>1, <2>1, ReplaceType, FilesAre DEF TypeOK, Guard
<1>2. CASE Record(p) BY <1>2 DEF TypeOK, Record, Entries
<1> QED BY <1>1, <1>2

LEMMA CommandType ==
  ASSUME TypeOK, NEW c \in Commands, Command(c)
  PROVE  TypeOK'
<1> c \in Procs BY DEF Procs
<1>1. CASE Configure(c)
  <2>1. Replace(c, "config") BY <1>1 DEF Configure
  <2> QED BY <1>1, <2>1, ReplaceType, FilesAre DEF TypeOK, Configure
<1>2. ASSUME NEW d \in Data, Install(c, d) PROVE TypeOK'
  <2>1. Replace(c, "ownership") BY <1>2 DEF Install
  <2> QED BY <1>2, <2>1, ReplaceType, FilesAre DEF TypeOK, Install, Resources, Things
<1>3. CASE Login(c)
  <2>1. Replace(c, "index") /\ Goto(c, "login") BY <1>3 DEF Login
  <2>2. pc' \in [Procs -> Steps] BY <2>1, PcType, StepsAre DEF Inside
  <2> QED BY <1>3, <2>1, <2>2, ReplaceType, FilesAre DEF TypeOK, Login
<1>4. CASE Store(c)
  <2>1. Goto(c, "inside") BY <1>4 DEF Store
  <2>2. pc' \in [Procs -> Steps] BY <2>1, PcType, StepsAre DEF Inside
  <2>3. keyring' \in BOOLEAN BY <1>4 DEF TypeOK, Store
  <2> QED BY <1>4, <2>2, <2>3 DEF TypeOK, Store
<1>5. CASE Serve(c) BY <1>5 DEF TypeOK, Serve
<1>6. CASE Leave(c) BY <1>6, CloseType DEF TypeOK, Leave
<1> QED BY <1>1, <1>2, <1>3, <1>4, <1>5, <1>6 DEF Command

LEMMA EarlyType ==
  ASSUME TypeOK, NEW r \in Removers,
         Plan(r) \/ Refresh(r) \/ Mark(r) \/ Restore(r) \/ Rejournal(r) \/ Begin(r)
  PROVE  TypeOK'
<1> r \in Procs BY DEF Procs
<1>1. CASE Plan(r)
  <2>1. CASE Close(r) /\ UNCHANGED <<round, failed, todo, missed>>
    BY <1>1, <2>1, CloseType DEF TypeOK, Plan
  <2>2. CASE Goto(r, "refresh")
    <3>1. pc' \in [Procs -> Steps] BY <2>2, PcType, StepsAre DEF Early
    <3>2. Ownership \subseteq Resources BY OwnershipType
    <3>3. /\ lockfile' \in Inodes \cup {None} /\ fd' \in [Procs -> Inodes \cup {None}]
          /\ todo' \subseteq Things \cup Files /\ missed' \subseteq Files
          /\ round' \in {"first", "report", "last"} /\ failed' \in BOOLEAN
      BY <1>1, <2>2, <3>2, CloseType DEF TypeOK, Plan, Resources, Files
    <3> QED BY <1>1, <3>1, <3>3 DEF TypeOK, Plan
  <2> QED BY <1>1, <2>1, <2>2 DEF Plan
<1>2. CASE Refresh(r) BY <1>2, PcType, StepsAre DEF TypeOK, Refresh, Early
<1>3. CASE Mark(r)
  <2>1. Ownership \subseteq Resources /\ Artifacts \in [Files -> Entries] BY OwnershipType, ArtifactsType
  <2>2. /\ pc' \in [Procs -> Steps] /\ round' \in {"first", "report", "last"}
        /\ lockfile' \in Inodes \cup {None} /\ fd' \in [Procs -> Inodes \cup {None}]
    <3>1. Saved(r) BY <1>3 DEF Mark
    <3>2. CASE round = "first" BY <3>1, <3>2, PcType, StepsAre DEF TypeOK, Saved, Early
    <3>3. CASE round = "report" BY <3>1, <3>3, PcType, StepsAre DEF TypeOK, Saved, Early, Last
    <3>4. CASE round = "last" BY <3>1, <3>4, CloseType DEF TypeOK, Saved
    <3> QED BY <3>2, <3>3, <3>4 DEF TypeOK
  <2> QED BY <1>3, <2>1, <2>2 DEF TypeOK, Mark
<1>4. CASE Restore(r)
  BY <1>4, PcType, StepsAre, ArtifactsType DEF TypeOK, Restore, Early
<1>5. CASE Rejournal(r)
  <2>1. pc' \in [Procs -> Steps] BY <1>5, PcType, StepsAre DEF Rejournal, Early
  <2>2. CASE "ownership" \in present BY <1>5, <2>1, <2>2 DEF TypeOK, Rejournal
  <2>3. CASE "ownership" \notin present
    <3>1. Replace(r, "ownership") BY <1>5, <2>3 DEF Rejournal, Update
    <3> QED BY <1>5, <2>1, <2>3, <3>1, ReplaceType, FilesAre DEF TypeOK, Rejournal, Update
  <2> QED BY <2>2, <2>3
<1>6. CASE Begin(r)
  <2>1. pc' \in [Procs -> Steps] BY <1>6, PcType, StepsAre DEF Begin, Stopping
  <2>2. Replace(r, "ownership") BY <1>6 DEF Begin, Update
  <2> QED BY <1>6, <2>1, <2>2, ReplaceType, FilesAre DEF TypeOK, Begin, Update
<1> QED BY <1>1, <1>2, <1>3, <1>4, <1>5, <1>6

LEMMA MiddleType ==
  ASSUME TypeOK, NEW r \in Removers,
         \/ Stop(r) \/ Unregister(r) \/ Unlist(r) \/ DataGone(r) \/ Credentials(r)
         \/ \E t \in Things : Delete(r, t) \/ Deleted(r, t)
  PROVE  TypeOK'
<1> r \in Procs BY DEF Procs
<1>1. CASE Stop(r) BY <1>1, PcType, StepsAre DEF TypeOK, Stop, Stopping
<1>2. CASE Unregister(r)
  <2>1. pc' \in [Procs -> Steps] BY <1>2, PcType, StepsAre DEF Unregister, Stopping
  <2>2. CASE "config" \in present
    <3>1. Replace(r, "config") BY <1>2, <2>2 DEF Unregister
    <3> QED BY <1>2, <2>1, <3>1, ReplaceType, FilesAre DEF TypeOK, Unregister
  <2>3. CASE "config" \notin present BY <1>2, <2>1, <2>3 DEF TypeOK, Unregister
  <2> QED BY <2>2, <2>3
<1>3. CASE Unlist(r)
  <2>1. pc' \in [Procs -> Steps] BY <1>3, PcType, StepsAre DEF Unlist, Deleting
  <2>2. Replace(r, "ownership") BY <1>3 DEF Unlist, Update
  <2> QED BY <1>3, <2>1, <2>2, ReplaceType, FilesAre DEF TypeOK, Unlist, Update
<1>4. CASE DataGone(r) BY <1>4, PcType, StepsAre DEF TypeOK, DataGone
<1>5. CASE Credentials(r)
  <2>1. pc' \in [Procs -> Steps] /\ round' \in {"first", "report", "last"}
    <3>1. CASE Report(r) BY <3>1, BackType
    <3>2. CASE Goto(r, "clean") /\ UNCHANGED round BY <3>2, PcType, StepsAre DEF TypeOK, Deleting
    <3> QED BY <1>5, <3>1, <3>2 DEF Credentials
  <2> QED BY <1>5, <2>1 DEF TypeOK, Credentials
<1>6. ASSUME NEW t \in Things, Delete(r, t) PROVE TypeOK' BY <1>6 DEF TypeOK, Delete
<1>7. ASSUME NEW t \in Things, Deleted(r, t) PROVE TypeOK'
  <2>1. Replace(r, "ownership") BY <1>7 DEF Deleted, Update
  <2> QED BY <1>7, <2>1, ReplaceType, FilesAre DEF TypeOK, Deleted, Update
<1> QED BY <1>1, <1>2, <1>3, <1>4, <1>5, <1>6, <1>7

LEMMA LateType ==
  ASSUME TypeOK, NEW r \in Removers,
         \/ Cleaned(r) \/ FilesGone(r) \/ LinksGone(r) \/ Finish(r) \/ Journal(r) \/ JournalLock(r)
         \/ Ledger(r) \/ RemoveBinary(r) \/ Unmark(r) \/ Unlock(r) \/ Drop(r)
         \/ \E f \in Files : Clean(r, f)
  PROVE  TypeOK'
<1> r \in Procs BY DEF Procs
<1>1. ASSUME NEW f \in Files, Clean(r, f) PROVE TypeOK'
  <2>1. present' \subseteq Files \cup {"ledger"} /\ failed' \in BOOLEAN /\ deleting' \in Things \cup Files \cup {None}
    BY <1>1 DEF TypeOK, Clean
  <2> QED BY <1>1, <2>1 DEF TypeOK, Clean
<1>2. CASE Cleaned(r) BY <1>2 DEF TypeOK, Cleaned, Entries
<1>3. CASE FilesGone(r)
  <2>1. pc' \in [Procs -> Steps] /\ round' \in {"first", "report", "last"}
    <3>1. CASE Report(r) BY <3>1, BackType
    <3>2. CASE Goto(r, "setup") /\ UNCHANGED round BY <3>2, PcType, StepsAre DEF TypeOK, Deleting
    <3> QED BY <1>3, <3>1, <3>2 DEF FilesGone
  <2> QED BY <1>3, <2>1 DEF TypeOK, FilesGone
<1>4. CASE LinksGone(r)
  <2>1. pc' \in [Procs -> Steps] /\ round' \in {"first", "report", "last"} BY <1>4, BackType DEF LinksGone
  <2> QED BY <1>4, <2>1 DEF TypeOK, LinksGone
<1>5. CASE Finish(r)
  <2>1. pc' \in [Procs -> Steps] /\ round' \in {"first", "report", "last"}
    <3>1. CASE GiveBack(r) BY <3>1, BackType
    <3>2. CASE Goto(r, "metadata") /\ UNCHANGED round BY <3>2, PcType, StepsAre DEF TypeOK, Last
    <3> QED BY <1>5, <3>1, <3>2 DEF Finish
  <2> QED BY <1>5, <2>1 DEF TypeOK, Finish, GiveBack
<1>6. CASE Journal(r)
  <2>1. pc' \in [Procs -> Steps] /\ round' \in {"first", "report", "last"}
    <3>1. CASE GiveBack(r) BY <3>1, BackType
    <3>2. CASE Goto(r, "guard") /\ UNCHANGED round BY <3>2, PcType, StepsAre DEF TypeOK, Last
    <3> QED BY <1>6, <3>1, <3>2 DEF Journal
  <2> QED BY <1>6, <2>1 DEF TypeOK, Journal, GiveBack
<1>7. CASE JournalLock(r)
  <2>1. pc' \in [Procs -> Steps] /\ round' \in {"first", "report", "last"}
    <3>1. CASE GiveBack(r) BY <3>1, BackType
    <3>2. CASE Goto(r, "ledger") /\ UNCHANGED round BY <3>2, PcType, StepsAre DEF TypeOK, Last
    <3> QED BY <1>7, <3>1, <3>2 DEF JournalLock
  <2> QED BY <1>7, <2>1 DEF TypeOK, JournalLock, GiveBack
<1>8. CASE Ledger(r)
  <2>1. pc' \in [Procs -> Steps] /\ round' \in {"first", "report", "last"}
    <3>1. CASE GiveBack(r) BY <3>1, BackType
    <3>2. CASE Goto(r, "binary") /\ UNCHANGED round BY <3>2, PcType, StepsAre DEF TypeOK, Last
    <3> QED BY <1>8, <3>1, <3>2 DEF Ledger
  <2> QED BY <1>8, <2>1 DEF TypeOK, Ledger, GiveBack, NoEntries, Entries
<1>9. CASE RemoveBinary(r) BY <1>9, PcType, StepsAre DEF TypeOK, RemoveBinary, Ending
<1>10. CASE Unmark(r) BY <1>10, PcType, StepsAre DEF TypeOK, Unmark, Ending, NoEntries, Entries
<1>11. CASE Unlock(r) BY <1>11, PcType, StepsAre DEF TypeOK, Unlock
<1>12. CASE Drop(r) BY <1>12, CloseType DEF TypeOK, Drop
<1> QED BY <1>1, <1>2, <1>3, <1>4, <1>5, <1>6, <1>7, <1>8, <1>9, <1>10, <1>11, <1>12

LEMMA FailType ==
  ASSUME TypeOK, NEW r \in Removers, Fail(r)
  PROVE  TypeOK'
<1> r \in Procs BY DEF Procs
<1>1. /\ pc' \in [Procs -> Steps] /\ fd' \in [Procs -> Inodes \cup {None}] /\ lockfile' = lockfile
      /\ daemon' \in BOOLEAN /\ todo' \subseteq Things \cup Files /\ round' \in {"first", "report", "last"}
  <2>1. CASE FailEnd(r) BY <2>1, CloseType DEF TypeOK, FailEnd
  <2>2. CASE FailStopping(r) BY <2>2, PcType, StepsAre DEF TypeOK, FailStopping
  <2>3. CASE FailDeleting(r) BY <2>3 DEF TypeOK, FailDeleting
  <2>4. CASE FailCredentials(r) BY <2>4, PcType, StepsAre DEF TypeOK, FailCredentials, Report, Early
  <2>5. CASE FailLast(r) BY <2>5, PcType, StepsAre DEF TypeOK, FailLast, Early
  <2> QED BY <2>1, <2>2, <2>3, <2>4, <2>5 DEF Fail
<1> QED BY <1>1 DEF TypeOK, Fail

LEMMA CrashType ==
  ASSUME TypeOK, NEW p \in Procs, Crash(p)
  PROVE  TypeOK'
BY CloseType DEF TypeOK, Crash

LEMMA TypeStep == TypeOK /\ [Next]_vars => TypeOK'
<1> SUFFICES ASSUME TypeOK, [Next]_vars PROVE TypeOK' OBVIOUS
<1>1. ASSUME NEW p \in Procs,
             Open(p) \/ Lock(p) \/ Check(p) \/ GiveUp(p) \/ Guard(p) \/ Record(p) \/ Crash(p)
      PROVE  TypeOK'
  BY <1>1, LockType, StoreType, CrashType
<1>2. ASSUME NEW r \in Removers, Removal(r) PROVE TypeOK'
  BY <1>2, EarlyType, MiddleType, LateType, FailType DEF Removal
<1>3. CASE DaemonDies BY <1>3 DEF TypeOK, DaemonDies
<1>4. CASE UNCHANGED vars BY <1>4 DEF TypeOK, vars
<1> QED BY <1>1, <1>2, <1>3, <1>4, CommandType DEF Next

-----------------------------------------------------------------------------
(* The lock.                                                                *)

LEMMA SetsAre ==
  /\ Inside \subseteq Holding /\ Working \subseteq Holding /\ Inside \cap Working = {}
  /\ Entered = Inside \cup Working
  /\ Inside \cap {"idle", "wait", "check", "close"} = {}
  /\ Working \cap {"idle", "wait", "check", "close"} = {}
  /\ Holding \cap {"idle", "wait"} = {} /\ {"check", "close"} \subseteq Holding
  /\ Early \subseteq Working /\ Stopping \subseteq Working /\ Deleting \subseteq Working
  /\ Last \subseteq Working /\ Ending \subseteq Working /\ "credentials" \in Working
  /\ Writers \subseteq Entered /\ Inside \subseteq Writers
BY DEF Holding, Inside, Working, Entered, Writers, Early, Stopping, Deleting, Last, Ending

(* Whoever has entered may go on, ...                                       *)
LEMMA LockMove ==
  ASSUME TypeOK, LockOK, NEW p \in Procs, NEW s, Goto(p, s) \/ (s = pc[p] /\ pc' = pc), UNCHANGED lock,
         pc[p] \in Entered, s \in Entered, p \in Commands <=> s \in Inside,
         p \in Commands => pending' = pending,
         \A q \in Procs : q # p => writing'[q] = writing[q],
         writing'[p] # None => s \in Writers
  PROVE  LockOK'
<1>1. pc'[p] = s /\ \A q \in Procs : q # p => pc'[q] = pc[q] BY DEF Goto, TypeOK
<1>2. \A q \in Procs : pc'[q] = "idle" <=> fd'[q] = None BY <1>1, SetsAre DEF LockOK
<1>3. \A c \in Commands : pc'[c] \in Inside \cup {"idle", "wait", "check"} BY <1>1 DEF LockOK, Procs
<1>4. \A r \in Removers : pc'[r] \notin Inside BY <1>1 DEF LockOK, Procs
<1>5. \A q \in Procs : pc'[q] \in Holding <=> pc[q] \in Holding BY <1>1, SetsAre
<1>6. \A q \in Procs : pc'[q] \in Entered <=> pc[q] \in Entered BY <1>1
<1>7. \A c \in Commands : pc'[c] \in Inside => ~pending'
  <2>1. CASE p \in Commands BY <1>1, <2>1, SetsAre DEF LockOK, Procs
  <2>2. CASE p \in Removers BY <1>1, <2>2, Alone, SetsAre DEF LockOK, Procs
  <2> QED BY <2>1, <2>2 DEF Procs
<1>8. \A q \in Procs : writing'[q] # None => pc'[q] \in Writers BY <1>1 DEF LockOK
<1> QED BY <1>2, <1>3, <1>4, <1>5, <1>6, <1>7, <1>8 DEF LockOK

(* ... and closes the file in the end.                                      *)
LEMMA LockClose ==
  ASSUME TypeOK, LockOK, NEW p \in Procs, Close(p), pending' = pending,
         \A q \in Procs : q # p => writing'[q] = writing[q], writing'[p] = None
  PROVE  LockOK'
<1>1. /\ pc'[p] = "idle" /\ fd'[p] = None /\ lockfile' = lockfile
      /\ \A q \in Procs : q # p => pc'[q] = pc[q] /\ fd'[q] = fd[q]
  BY DEF Close, Goto, TypeOK
<1>2. \A q \in Procs : pc'[q] = "idle" <=> fd'[q] = None BY <1>1 DEF LockOK
<1>3. \A c \in Commands : pc'[c] \in Inside \cup {"idle", "wait", "check"} BY <1>1 DEF LockOK, Procs
<1>4. \A r \in Removers : pc'[r] \notin Inside BY <1>1, SetsAre DEF LockOK, Procs
<1>5. \A q \in Procs : pc'[q] \in Holding => q # p /\ pc[q] \in Holding BY <1>1, SetsAre
<1>6. \A q \in Procs : pc'[q] \in Entered => q # p /\ pc[q] \in Entered BY <1>1, SetsAre
<1>7. \A c \in Commands : pc'[c] \in Inside => ~pending' BY <1>1, SetsAre DEF LockOK, Procs
<1>8. \A q \in Procs : writing'[q] # None => pc'[q] \in Writers BY <1>1 DEF LockOK
<1>9. \A q, x \in Procs :
         q # x /\ pc'[q] \in Holding /\ pc'[x] \in Holding /\ fd'[q] = fd'[x]
             => q \in Commands /\ x \in Commands
  BY <1>1, <1>5 DEF LockOK
<1>10. \A q \in Procs : pc'[q] \in Entered => fd'[q] = lockfile' BY <1>1, <1>6 DEF LockOK
<1> QED BY <1>2, <1>3, <1>4, <1>7, <1>8, <1>9, <1>10 DEF LockOK

(* Acquiring the lock.                                                      *)
LEMMA LockAcquire ==
  ASSUME TypeOK, LockOK, NEW p \in Procs, Open(p) \/ Lock(p) \/ Check(p) \/ GiveUp(p)
  PROVE  LockOK'
<1>0. UNCHANGED <<writing, pending>> BY DEF Open, Lock, Check, GiveUp
<1>1. ASSUME pc[p] \notin Entered PROVE writing[p] = None BY <1>1, SetsAre DEF LockOK
<1>2. CASE Open(p)
  <2>1. /\ pc[p] = "idle" /\ pc'[p] = "wait" /\ fd'[p] = lockfile' /\ lockfile' \in Inodes
        /\ \A q \in Procs : q # p => pc'[q] = pc[q] /\ fd'[q] = fd[q]
    BY <1>2 DEF Open, Goto, TypeOK
  <2>2. \A q \in Procs : q # p /\ pc'[q] \in Entered => fd'[q] = lockfile'
    <3> SUFFICES ASSUME NEW q \in Procs, q # p, pc'[q] \in Entered PROVE fd'[q] = lockfile'
      OBVIOUS
    <3>1. fd[q] = lockfile /\ fd[q] # None BY <2>1, SetsAre DEF LockOK
    <3> QED BY <1>2, <2>1, <3>1 DEF Open
  <2>3. \A q \in Procs : pc'[q] = "idle" <=> fd'[q] = None BY <2>1 DEF LockOK
  <2>4. pc'[p] \notin Holding /\ pc'[p] \notin Entered /\ pc'[p] \notin Inside BY <2>1, SetsAre
  <2>5. \A c \in Commands : pc'[c] \in Inside \cup {"idle", "wait", "check"}
    BY <2>1 DEF LockOK, Procs
  <2>10. \A c \in Commands : pc'[c] \in Inside => ~pending'
    BY <1>0, <2>1, <2>4 DEF LockOK, Procs
  <2>6. \A r \in Removers : pc'[r] \notin Inside BY <2>1, <2>4 DEF LockOK, Procs
  <2>7. \A q \in Procs : writing'[q] # None => pc'[q] \in Writers
    BY <1>0, <1>1, <2>1, SetsAre DEF LockOK
  <2>8. \A q, x \in Procs :
           q # x /\ pc'[q] \in Holding /\ pc'[x] \in Holding /\ fd'[q] = fd'[x]
             => q \in Commands /\ x \in Commands
    BY <2>1, <2>4 DEF LockOK
  <2>9. \A q \in Procs : pc'[q] \in Entered => fd'[q] = lockfile' BY <2>2, <2>4
  <2> QED BY <2>3, <2>5, <2>6, <2>7, <2>8, <2>9, <2>10 DEF LockOK
<1>3. CASE Lock(p)
  <2>1. /\ pc[p] = "wait" /\ pc'[p] = "check" /\ fd' = fd /\ lockfile' = lockfile
        /\ \A q \in Procs : q # p => pc'[q] = pc[q]
        /\ \A q \in Procs : pc[q] \in Holding /\ fd[q] = fd[p] => p \in Commands /\ q \in Commands
    BY <1>3 DEF Lock, Goto, TypeOK
  <2>2. \A q \in Procs : pc'[q] = "idle" <=> fd'[q] = None BY <2>1 DEF LockOK
  <2>3. pc'[p] \notin Entered /\ pc'[p] \notin Inside BY <2>1, SetsAre
  <2>4. \A c \in Commands : pc'[c] \in Inside \cup {"idle", "wait", "check"}
    BY <2>1 DEF LockOK, Procs
  <2>9. \A c \in Commands : pc'[c] \in Inside => ~pending'
    BY <1>0, <2>1, <2>3 DEF LockOK, Procs
  <2>5. \A r \in Removers : pc'[r] \notin Inside BY <2>1, <2>3 DEF LockOK, Procs
  <2>6. \A q \in Procs : writing'[q] # None => pc'[q] \in Writers
    BY <1>0, <1>1, <2>1, SetsAre DEF LockOK
  <2>7. ASSUME NEW q \in Procs, NEW x \in Procs, q # x, pc'[q] \in Holding, pc'[x] \in Holding,
               fd'[q] = fd'[x]
        PROVE  q \in Commands /\ x \in Commands
    <3>1. CASE q = p BY <2>1, <2>7, <3>1
    <3>2. CASE x = p BY <2>1, <2>7, <3>2
    <3>3. CASE q # p /\ x # p BY <2>1, <2>7, <3>3 DEF LockOK
    <3> QED BY <3>1, <3>2, <3>3
  <2>8. \A q \in Procs : pc'[q] \in Entered => fd'[q] = lockfile' BY <2>1, <2>3 DEF LockOK
  <2> QED BY <2>2, <2>4, <2>5, <2>6, <2>7, <2>8, <2>9 DEF LockOK
<1>4. CASE Check(p)
  <2>1. pc[p] = "check" /\ writing[p] = None BY <1>1, <1>4, SetsAre DEF Check
  <2>2. CASE Close(p) BY <1>0, <2>1, <2>2, LockClose
  <2>3. CASE /\ fd[p] = lockfile /\ (p \in Commands => ~pending)
             /\ Goto(p, IF p \in Commands THEN "inside" ELSE "plan") /\ UNCHANGED lock
    <3>1. /\ pc'[p] = (IF p \in Commands THEN "inside" ELSE "plan")
          /\ \A q \in Procs : q # p => pc'[q] = pc[q]
          /\ fd' = fd /\ lockfile' = lockfile
      BY <2>3 DEF Goto, TypeOK
    <3>2. \A q \in Procs : pc'[q] = "idle" <=> fd'[q] = None BY <2>1, <3>1 DEF LockOK
    <3>3. pc[p] \in Holding /\ (p \in Commands <=> pc'[p] \in Inside) /\ pc'[p] \in Holding
      BY <2>1, <3>1, SetsAre DEF Inside, Early
    <3>4. \A c \in Commands : pc'[c] \in Inside \cup {"idle", "wait", "check"}
      BY <3>1, <3>3 DEF LockOK, Procs
    <3>9. \A c \in Commands : pc'[c] \in Inside => ~pending'
      BY <1>0, <2>3, <3>1 DEF LockOK, Procs
    <3>5. \A r \in Removers : pc'[r] \notin Inside BY <3>1, <3>3 DEF LockOK, Procs
    <3>6. \A q \in Procs : writing'[q] # None => pc'[q] \in Writers BY <1>0, <2>1, <3>1 DEF LockOK
    <3>7. \A q \in Procs : pc'[q] \in Holding <=> pc[q] \in Holding BY <3>1, <3>3
    <3>8. \A q \in Procs : pc'[q] \in Entered => fd'[q] = lockfile' BY <2>3, <3>1 DEF LockOK
    <3>10. \A q, x \in Procs :
              q # x /\ pc'[q] \in Holding /\ pc'[x] \in Holding /\ fd'[q] = fd'[x]
                => q \in Commands /\ x \in Commands
      BY <3>1, <3>7 DEF LockOK
    <3> QED BY <3>2, <3>4, <3>5, <3>6, <3>8, <3>9, <3>10 DEF LockOK
  <2> QED BY <1>4, <2>2, <2>3 DEF Check
<1>5. CASE GiveUp(p)
  <2>1. Close(p) /\ writing[p] = None BY <1>1, <1>5, SetsAre DEF GiveUp
  <2> QED BY <1>0, <2>1, LockClose
<1> QED BY <1>2, <1>3, <1>4, <1>5

(* The lock's file is unlinked by the one process that has entered.         *)
LEMMA LockUnlink ==
  ASSUME TypeOK, LockOK, NEW r \in Removers, Unlock(r)
  PROVE  LockOK'
<1> r \in Procs BY DEF Procs
<1>0. pc[r] = "unlock" /\ Goto(r, "close") /\ lockfile' = None /\ UNCHANGED <<fd, writing, pending>>
  BY DEF Unlock, At
<1>1. /\ pc[r] = "unlock" /\ pc'[r] = "close" /\ fd' = fd /\ lockfile' = None
      /\ \A q \in Procs : q # r => pc'[q] = pc[q]
      /\ UNCHANGED <<writing, pending>>
  BY <1>0 DEF Goto, TypeOK
<1>2. pc[r] \in Working BY <1>1, SetsAre DEF Ending
<1>3. \A q \in Procs : pc'[q] \notin Entered BY <1>1, <1>2, Alone, SetsAre
<1>4. \A q \in Procs : pc'[q] \in Holding <=> pc[q] \in Holding BY <1>1, <1>2, SetsAre
<1>5. \A q \in Procs : pc'[q] = "idle" <=> fd'[q] = None BY <1>1 DEF LockOK
<1>6. r \notin Commands BY DEF Procs
<1>7. \A q \in Procs : writing'[q] # None => pc'[q] \in Writers
  <2>1. writing[r] = None BY <1>1 DEF LockOK, Writers, Inside
  <2> QED BY <1>1, <2>1 DEF LockOK
<1> QED BY <1>1, <1>3, <1>4, <1>5, <1>6, <1>7, SetsAre DEF LockOK, Procs

LEMMA EnteredKind ==
  ASSUME TypeOK, LockOK, NEW p \in Procs, pc[p] \in Entered
  PROVE  p \in Commands <=> pc[p] \in Inside
BY SetsAre DEF LockOK, Procs

(* A file is replaced on the way.                                           *)
LEMMA LockReplace ==
  ASSUME TypeOK, LockOK, NEW p \in Procs, NEW f \in Files, Replace(p, f), UNCHANGED <<lock, pending>>,
         pc[p] \in Entered,
         NEW s \in Writers, Goto(p, s) \/ (s = pc[p] /\ pc' = pc),
         p \in Commands <=> s \in Inside
  PROVE  LockOK'
<1>1. \A q \in Procs : q # p => writing'[q] = writing[q] BY ReplaceFacts
<1> QED BY <1>1, LockMove, SetsAre

LEMMA LockStays ==
  ASSUME TypeOK, LockOK, NEW p \in Procs, pc[p] \in Entered, UNCHANGED <<lock, pc, pending>>,
         writing' = writing \/ writing' = [writing EXCEPT ![p] = None]
  PROVE  LockOK'
<1>1. /\ \A q \in Procs : q # p => writing'[q] = writing[q]
      /\ writing'[p] # None => writing'[p] = writing[p]
  BY DEF TypeOK
<1>2. p \in Commands <=> pc[p] \in Inside BY EnteredKind
<1>3. writing'[p] # None => pc[p] \in Writers BY <1>1 DEF LockOK
<1> QED BY <1>1, <1>2, <1>3, LockMove

(* The remover's steps that do not end it.                                  *)
LEMMA LockRemover ==
  ASSUME TypeOK, LockOK, NEW r \in Removers, pc[r] \in Working, UNCHANGED lock,
         NEW s \in Working, Goto(r, s),
         (writing' = writing /\ writing[r] = None) \/ writing' = [writing EXCEPT ![r] = None]
  PROVE  LockOK'
<1> r \in Procs /\ r \notin Commands BY DEF Procs
<1>1. /\ \A q \in Procs : q # r => writing'[q] = writing[q]
      /\ writing'[r] = None
  BY DEF TypeOK
<1>2. s \notin Inside /\ s \in Entered /\ pc[r] \in Entered BY SetsAre
<1> QED BY <1>1, <1>2, LockMove

LEMMA LockCommand ==
  ASSUME TypeOK, LockOK, NEW c \in Commands, Command(c)
  PROVE  LockOK'
<1> c \in Procs BY DEF Procs
<1> USE FilesAre, SetsAre
<1>1. CASE Configure(c)
  <2>1. pc[c] = "inside" /\ Replace(c, "config") /\ UNCHANGED <<lock, pc, pending>>
    BY <1>1 DEF Configure, At
  <2> QED BY <2>1, LockReplace DEF Inside
<1>2. ASSUME NEW d \in Data, Install(c, d) PROVE LockOK'
  <2>1. pc[c] = "inside" /\ Replace(c, "ownership") /\ UNCHANGED <<lock, pc, pending>>
    BY <1>2 DEF Install, At
  <2> QED BY <2>1, LockReplace DEF Inside
<1>3. CASE Login(c)
  <2>1. pc[c] = "inside" /\ Goto(c, "login") /\ Replace(c, "index") /\ UNCHANGED <<lock, pending>>
    BY <1>3 DEF Login, At
  <2> QED BY <2>1, LockReplace DEF Inside
<1>4. CASE Store(c)
  <2>1. pc[c] = "login" /\ Goto(c, "inside") /\ UNCHANGED <<lock, pending, writing>>
    BY <1>4 DEF Store, At
  <2>2. pc[c] \in Inside /\ "inside" \in Inside BY <2>1 DEF Inside
  <2> QED BY <2>1, <2>2, LockMove
<1>5. CASE Serve(c)
  <2>1. pc[c] = "inside" /\ UNCHANGED <<lock, pc, pending, writing>> BY <1>5 DEF Serve, At
  <2> QED BY <2>1, LockStays DEF Inside
<1>6. CASE Leave(c)
  <2>1. Close(c) /\ writing[c] = None /\ UNCHANGED <<pending, writing>> BY <1>6 DEF Leave, At
  <2> QED BY <2>1, LockClose
<1> QED BY <1>1, <1>2, <1>3, <1>4, <1>5, <1>6 DEF Command

LEMMA LockStore ==
  ASSUME TypeOK, LockOK, NEW p \in Procs, Guard(p) \/ Record(p)
  PROVE  LockOK'
<1>1. CASE Guard(p)
  <2>1. pc[p] \in {"inside", "rejournal", "begin"} /\ Replace(p, "guard") /\ UNCHANGED <<lock, pc, pending>>
    BY <1>1 DEF Guard
  <2>2. pc[p] \in Writers BY <2>1 DEF Writers, Inside
  <2>3. p \in Commands <=> pc[p] \in Inside BY <2>2, EnteredKind, SetsAre
  <2> QED BY <2>1, <2>2, <2>3, LockReplace, FilesAre, SetsAre
<1>2. CASE Record(p)
  <2>1. pc[p] \in Entered BY <1>2, SetsAre DEF Record, LockOK
  <2> QED BY <1>2, <2>1, LockStays DEF Record
<1> QED BY <1>1, <1>2

LEMMA LockEarly ==
  ASSUME TypeOK, LockOK, RemoverOK, NEW r \in Removers,
         Plan(r) \/ Refresh(r) \/ Mark(r) \/ Restore(r) \/ Rejournal(r) \/ Begin(r)
  PROVE  LockOK'
<1> r \in Procs /\ r \notin Commands BY DEF Procs
<1>1. pc[r] \in Early /\ writing[r] = None
  BY DEF Plan, Refresh, Mark, Restore, Rejournal, Begin, Update, Replace, At, Early
<1>2. pc[r] \in Working BY <1>1, SetsAre
<1>3. {"refresh", "mark", "restore", "finish", "rejournal", "begin", "stop"} \subseteq Working
  BY SetsAre DEF Early, Last, Stopping
<1>4. CASE Plan(r)
  <2>1. CASE Close(r) BY <1>1, <1>4, <2>1, LockClose DEF Plan
  <2>2. CASE Goto(r, "refresh") /\ UNCHANGED lock BY <1>1, <1>2, <1>3, <1>4, <2>2, LockRemover DEF Plan
  <2> QED BY <1>4, <2>1, <2>2 DEF Plan
<1>5. CASE Refresh(r) BY <1>1, <1>2, <1>3, <1>5, LockRemover DEF Refresh
<1>6. CASE Mark(r)
  <2>1. Saved(r) /\ writing' = writing /\ pc[r] = "mark" /\ pending' = TRUE BY <1>6 DEF Mark, At
  <2>2. CASE round = "first" BY <1>1, <1>2, <1>3, <2>1, <2>2, LockRemover DEF Saved
  <2>3. CASE round = "report" BY <1>1, <1>2, <1>3, <2>1, <2>3, LockRemover DEF Saved
  <2>4. CASE round = "last"
    <3>1. pending BY <2>1, <2>4 DEF RemoverOK, Keeps, Marked
    <3>2. pending' = pending BY <2>1, <3>1 DEF TypeOK
    <3> QED BY <1>1, <2>1, <2>4, <3>2, LockClose DEF Saved
  <2> QED BY <2>2, <2>3, <2>4 DEF TypeOK
<1>7. CASE Restore(r) BY <1>1, <1>2, <1>3, <1>7, LockRemover DEF Restore
<1>8. CASE Rejournal(r)
  <2>1. CASE "ownership" \in present BY <1>1, <1>2, <1>3, <1>8, <2>1, LockRemover DEF Rejournal
  <2>2. CASE "ownership" \notin present
    <3>1. Replace(r, "ownership") /\ Goto(r, "begin") /\ UNCHANGED <<lock, pending>>
      BY <1>8, <2>2 DEF Rejournal, Update
    <3>2. "begin" \in Writers /\ "begin" \notin Inside BY DEF Writers, Inside
    <3> QED BY <1>2, <3>1, <3>2, LockReplace, FilesAre, SetsAre
  <2> QED BY <2>1, <2>2
<1>9. CASE Begin(r)
  <2>1. Replace(r, "ownership") /\ Goto(r, "stop") /\ UNCHANGED <<lock, pending>>
    BY <1>9 DEF Begin, Update
  <2>2. "stop" \in Writers /\ "stop" \notin Inside BY DEF Writers, Inside
  <2> QED BY <1>2, <2>1, <2>2, LockReplace, FilesAre, SetsAre
<1> QED BY <1>4, <1>5, <1>6, <1>7, <1>8, <1>9

LEMMA LockMiddle ==
  ASSUME TypeOK, LockOK, NEW r \in Removers,
         \/ Stop(r) \/ Unregister(r) \/ Unlist(r) \/ DataGone(r) \/ Credentials(r)
         \/ \E t \in Things : Delete(r, t) \/ Deleted(r, t)
  PROVE  LockOK'
<1> r \in Procs /\ r \notin Commands BY DEF Procs
<1>1. pc[r] \in Stopping \cup Deleting \cup {"credentials"} /\ writing[r] = None
  BY DEF Stop, Unregister, Unlist, DataGone, Credentials, Delete, Deleted, Turn, At, Stopping, Deleting
<1>2. pc[r] \in Working BY <1>1, SetsAre
<1>3. {"unregister", "unlist", "data", "credentials", "clean", "refresh"} \subseteq Working
  BY SetsAre DEF Stopping, Deleting, Early
<1>4. CASE Stop(r) BY <1>1, <1>2, <1>3, <1>4, LockRemover DEF Stop
<1>5. CASE Unregister(r)
  <2>1. CASE "config" \in present
    <3>1. Replace(r, "config") /\ Goto(r, "unlist") /\ UNCHANGED <<lock, pending>>
      BY <1>5, <2>1 DEF Unregister
    <3>2. "unlist" \in Writers /\ "unlist" \notin Inside BY DEF Writers, Inside
    <3> QED BY <1>2, <3>1, <3>2, LockReplace, FilesAre, SetsAre
  <2>2. CASE "config" \notin present BY <1>1, <1>2, <1>3, <1>5, <2>2, LockRemover DEF Unregister
  <2> QED BY <2>1, <2>2
<1>6. CASE Unlist(r)
  <2>1. Replace(r, "ownership") /\ Goto(r, "data") /\ UNCHANGED <<lock, pending>>
    BY <1>6 DEF Unlist, Update
  <2>2. "data" \in Writers /\ "data" \notin Inside BY DEF Writers, Inside
  <2> QED BY <1>2, <2>1, <2>2, LockReplace, FilesAre, SetsAre
<1>7. CASE DataGone(r) BY <1>1, <1>2, <1>3, <1>7, LockRemover DEF DataGone
<1>8. CASE Credentials(r) BY <1>1, <1>2, <1>3, <1>8, LockRemover DEF Credentials, Report
<1>9. ASSUME NEW t \in Things, Delete(r, t) PROVE LockOK'
  BY <1>2, <1>9, LockStays, SetsAre DEF Delete
<1>10. ASSUME NEW t \in Things, Deleted(r, t) PROVE LockOK'
  <2>1. Replace(r, "ownership") /\ UNCHANGED <<lock, pc, pending>> BY <1>10 DEF Deleted, Update
  <2>2. pc[r] \in Writers /\ pc[r] \notin Inside BY <1>10 DEF Deleted, Turn, Writers, Inside
  <2> QED BY <1>2, <2>1, <2>2, LockReplace, FilesAre, SetsAre
<1> QED BY <1>4, <1>5, <1>6, <1>7, <1>8, <1>9, <1>10

LEMMA LockLate ==
  ASSUME TypeOK, LockOK, NEW r \in Removers,
         \/ Cleaned(r) \/ FilesGone(r) \/ LinksGone(r) \/ Finish(r) \/ Journal(r) \/ JournalLock(r)
         \/ Ledger(r) \/ RemoveBinary(r) \/ Unmark(r) \/ Unlock(r) \/ Drop(r)
         \/ \E f \in Files : Clean(r, f)
  PROVE  LockOK'
<1> r \in Procs /\ r \notin Commands BY DEF Procs
<1>1. ASSUME ~Drop(r) PROVE pc[r] \in Working /\ writing[r] = None
  BY <1>1, SetsAre DEF Cleaned, FilesGone, LinksGone, Finish, Journal, JournalLock, Ledger, RemoveBinary,
       Unmark, Unlock, Clean, At, Deleting, Last, Ending
<1>2. {"setup", "refresh", "metadata", "guard", "ledger", "binary", "unmark", "unlock"} \subseteq Working
  BY SetsAre DEF Deleting, Early, Last, Ending
<1>3. CASE ~Drop(r) /\ (Cleaned(r) \/ \E f \in Files : Clean(r, f))
  BY <1>1, <1>3, LockStays, SetsAre DEF Cleaned, Clean
<1>4. CASE ~Drop(r) /\ FilesGone(r) BY <1>1, <1>2, <1>4, LockRemover DEF FilesGone, Report
<1>5. CASE ~Drop(r) /\ LinksGone(r) BY <1>1, <1>2, <1>5, LockRemover DEF LinksGone, Report
<1>6. CASE ~Drop(r) /\ Finish(r) BY <1>1, <1>2, <1>6, LockRemover DEF Finish, GiveBack
<1>7. CASE ~Drop(r) /\ Journal(r) BY <1>1, <1>2, <1>7, LockRemover DEF Journal, GiveBack
<1>8. CASE ~Drop(r) /\ JournalLock(r) BY <1>1, <1>2, <1>8, LockRemover DEF JournalLock, GiveBack
<1>9. CASE ~Drop(r) /\ Ledger(r) BY <1>1, <1>2, <1>9, LockRemover DEF Ledger, GiveBack
<1>10. CASE ~Drop(r) /\ RemoveBinary(r) BY <1>1, <1>2, <1>10, LockRemover DEF RemoveBinary
<1>11. CASE ~Drop(r) /\ Unmark(r) BY <1>1, <1>2, <1>11, LockRemover DEF Unmark
<1>12. CASE Unlock(r) BY <1>12, LockUnlink
<1>13. CASE Drop(r) BY <1>13, LockClose DEF Drop, At
<1> QED BY <1>3, <1>4, <1>5, <1>6, <1>7, <1>8, <1>9, <1>10, <1>11, <1>12, <1>13

LEMMA LockFail ==
  ASSUME TypeOK, LockOK, NEW r \in Removers, Fail(r)
  PROVE  LockOK'
<1> r \in Procs /\ r \notin Commands BY DEF Procs
<1>1. writing' = [writing EXCEPT ![r] = None] /\ pending' = pending BY DEF Fail
<1>2. writing'[r] = None /\ \A q \in Procs : q # r => writing'[q] = writing[q] BY <1>1 DEF TypeOK
<1>3. CASE FailEnd(r) BY <1>1, <1>2, <1>3, LockClose DEF FailEnd
<1>4. CASE FailStopping(r) BY <1>1, <1>4, LockRemover, SetsAre DEF FailStopping
<1>5. CASE FailDeleting(r) BY <1>1, <1>5, LockStays, SetsAre DEF FailDeleting
<1>6. "refresh" \in Working BY SetsAre DEF Early
<1>7. CASE FailCredentials(r) BY <1>1, <1>6, <1>7, LockRemover, SetsAre DEF FailCredentials, Report
<1>8. CASE FailLast(r) BY <1>1, <1>6, <1>8, LockRemover, SetsAre DEF FailLast
<1> QED BY <1>3, <1>4, <1>5, <1>7, <1>8 DEF Fail

LEMMA LockStep ==
  ASSUME TypeOK, LockOK, RemoverOK, [Next]_vars
  PROVE  LockOK'
<1>1. ASSUME NEW p \in Procs,
             Open(p) \/ Lock(p) \/ Check(p) \/ GiveUp(p) \/ Guard(p) \/ Record(p) \/ Crash(p)
      PROVE  LockOK'
  <2>1. CASE Crash(p)
    <3>1. /\ Close(p) /\ pending' = pending /\ writing'[p] = None
          /\ \A q \in Procs : q # p => writing'[q] = writing[q]
      BY <2>1 DEF Crash, TypeOK
    <3> QED BY <3>1, LockClose
  <2> QED BY <1>1, <2>1, LockAcquire, LockStore
<1>2. ASSUME NEW r \in Removers, Removal(r) PROVE LockOK'
  BY <1>2, LockEarly, LockMiddle, LockLate, LockFail DEF Removal
<1>3. CASE DaemonDies BY <1>3 DEF LockOK, DaemonDies
<1>4. CASE UNCHANGED vars BY <1>4 DEF LockOK, vars
<1> QED BY <1>1, <1>2, <1>3, <1>4, LockCommand DEF Next

-----------------------------------------------------------------------------
(* The data.                                                                *)

(* Files stay as they are; what is to be removed only gets less.            *)
LEMMA DataFrame ==
  ASSUME TypeOK, DataOK,
         UNCHANGED <<present, journal, ledger, pending, backup, copy>>,
         things' \subseteq things, binary' = binary \/ binary' = "gone",
         keyring' => keyring, hindered => hindered',
         \A c \in Commands : pc'[c] = "login" => pc[c] = "login",
         \A p \in Procs : writing[p] \in {"index", "guard"} => hindered' \/ writing'[p] = writing[p],
         deleting' \notin things',
         deleting' # None => \E r \in Removers : pc'[r] \in Deleting
  PROVE  DataOK'
<1>1. Artifacts' = Artifacts /\ Ownership' = Ownership BY DEF Artifacts, Ownership
<1>2. Owned' \subseteq Owned BY DEF Owned
<1>3. EvidenceKept' BY <1>1, <1>2 DEF DataOK, EvidenceKept
<1>4. ~hindered' => \A f \in {"index", "guard"} \cap present' :
          Artifacts'[f] = "fits" \/ \E p \in Procs : writing'[p] = f
  <2> SUFFICES ASSUME ~hindered', NEW f \in {"index", "guard"} \cap present, Artifacts[f] # "fits"
               PROVE  \E p \in Procs : writing'[p] = f
    BY <1>1
  <2>1. PICK p \in Procs : writing[p] = f BY DEF DataOK
  <2>2. writing'[p] = f BY <2>1
  <2> QED BY <2>2
<1> QED BY <1>1, <1>3, <1>4 DEF DataOK

(* A file is replaced.                                                      *)
LEMMA DataReplace ==
  ASSUME TypeOK, DataOK, NEW p \in Procs, NEW f \in Files, Replace(p, f), writing[p] = None,
         UNCHANGED <<keyring, pending, backup, hindered>>,
         f \in {"ownership", "guard"} \cup present \/ ~pending,
         \/ f # "ownership" /\ UNCHANGED <<journal, things, binary>>
         \/ f = "ownership" /\ Owned' \subseteq journal',
         \A c \in Commands : pc'[c] = "login" => pc[c] = "login" \/ f = "index",
         deleting' \notin things',
         deleting' # None => \E r \in Removers : pc'[r] \in Deleting
  PROVE  DataOK'
<1>1. /\ writing'[p] = f /\ present' = present \cup {f}
      /\ \A q \in Procs : q # p => writing'[q] = writing[q]
      /\ ledger = NoEntries => ledger' = NoEntries
  BY ReplaceFacts
<1>2. /\ \A g \in Files : g # f => Artifacts'[g] = Artifacts[g]
      /\ Artifacts'[f] = "removed" <=> Artifacts[f] = "removed"
  BY ReplaceArtifacts
<1>3. EvidenceKept'
  <2>1. CASE f = "ownership" BY <1>1, <2>1 DEF EvidenceKept, Ownership
  <2>2. CASE f # "ownership"
    <3>1. Owned' = Owned /\ Ownership' = Ownership BY <1>1, <2>2 DEF Owned, Ownership
    <3> QED BY <3>1 DEF EvidenceKept, DataOK
  <2> QED BY <2>1, <2>2
<1>4. "ownership" \notin present' => journal' = {} BY <1>1 DEF DataOK
<1>5. "ledger" \notin present' => ledger' = NoEntries BY <1>1 DEF DataOK
<1>6. \A g \in Files : Artifacts'[g] = "removed" => g \in {"config", "index"} \ present' /\ pending'
  <2> SUFFICES ASSUME NEW g \in Files, Artifacts'[g] = "removed"
               PROVE  g \in {"config", "index"} \ present' /\ pending'
    OBVIOUS
  <2>1. Artifacts[g] = "removed" BY <1>2
  <2>2. g \in {"config", "index"} \ present /\ pending BY <2>1 DEF DataOK
  <2> QED BY <1>1, <2>2
<1>7. ~hindered' => \A g \in {"index", "guard"} \cap present' :
          Artifacts'[g] = "fits" \/ \E q \in Procs : writing'[q] = g
  <2> SUFFICES ASSUME ~hindered, NEW g \in {"index", "guard"} \cap present', Artifacts'[g] # "fits", g # f
               PROVE  \E q \in Procs : writing'[q] = g
    BY <1>1
  <2>1. g \in Files /\ g \in present BY <1>1, FilesAre
  <2>2. PICK q \in Procs : writing[q] = g BY <1>2, <2>1 DEF DataOK
  <2>3. q # p BY <2>1, <2>2
  <2> QED BY <1>1, <2>2, <2>3
<1>8. (keyring' => "index" \in present') /\ \A c \in Commands : pc'[c] = "login" => "index" \in present'
  BY <1>1 DEF DataOK
<1> QED BY <1>3, <1>4, <1>5, <1>6, <1>7, <1>8 DEF DataOK

LEMMA NothingIsDeleted ==
  ASSUME DataOK, \A r \in Removers : pc[r] \notin Deleting
  PROVE  deleting = None
BY DEF DataOK

LEMMA DataLock ==
  ASSUME TypeOK, DataOK, NEW p \in Procs, Open(p) \/ Lock(p) \/ Check(p) \/ GiveUp(p)
  PROVE  DataOK'
<1>1. /\ pc[p] \in {"idle", "wait", "check"} /\ pc'[p] # "login"
      /\ \A q \in Procs : q # p => pc'[q] = pc[q]
  BY DEF Open, Lock, Check, GiveUp, Close, Goto, TypeOK
<1>2. \A c \in Commands : pc'[c] = "login" => pc[c] = "login" BY <1>1 DEF Procs
<1>3. deleting # None => \E r \in Removers : pc'[r] \in Deleting
  <2> SUFFICES ASSUME deleting # None PROVE \E r \in Removers : pc'[r] \in Deleting OBVIOUS
  <2>1. PICK r \in Removers : pc[r] \in Deleting BY DEF DataOK
  <2>2. r # p BY <1>1, <2>1 DEF Deleting
  <2> QED BY <1>1, <2>1, <2>2 DEF Procs
<1>4. deleting \notin things BY DEF DataOK
<1>5. UNCHANGED <<kept, outside, marker, hindered, writing, deleting>>
  BY DEF Open, Lock, Check, GiveUp
<1> QED BY <1>2, <1>3, <1>4, <1>5, DataFrame

LEMMA DataCommand ==
  ASSUME TypeOK, LockOK, DataOK, NEW c \in Commands, Command(c)
  PROVE  DataOK'
<1> c \in Procs BY DEF Procs
<1> USE FilesAre
<1>1. pc[c] \in Inside /\ writing[c] = None
  BY DEF Command, Configure, Login, Store, Serve, Leave, Install, At, Inside
<1>2. (\A r \in Removers : pc[r] \notin Working) /\ ~pending BY <1>1, NoneRemoves
<1>3. deleting = None BY <1>2, NothingIsDeleted DEF Working
<1>4. deleting' = None BY <1>3 DEF Command, Configure, Login, Store, Serve, Leave, Install
<1>5. None \notin Things BY DEF Things
<1>6. CASE Configure(c)
  <2>1. Replace(c, "config") /\ UNCHANGED <<pc, journal, things, outside, pending, backup, hindered>>
    BY <1>6 DEF Configure
  <2> QED BY <1>1, <1>2, <1>4, <1>5, <2>1, DataReplace DEF TypeOK
<1>7. ASSUME NEW d \in Data, Install(c, d) PROVE DataOK'
  <2>1. /\ Replace(c, "ownership") /\ UNCHANGED <<pc, outside, pending, backup, hindered>>
        /\ journal' = journal \cup {d} /\ things' = things \cup {d}
    BY <1>7 DEF Install
  <2>2. Ownership \subseteq journal BY <1>2 DEF Ownership
  <2>3. Owned' \subseteq journal' BY <2>1, <2>2 DEF DataOK, EvidenceKept, Owned
  <2>4. None \notin things' BY <1>5, <2>1 DEF TypeOK, Things
  <2> QED BY <1>1, <1>2, <1>4, <2>1, <2>3, <2>4, DataReplace
<1>8. CASE Login(c)
  <2>1. Replace(c, "index") /\ UNCHANGED <<journal, things, outside, pending, backup, hindered>>
    BY <1>8 DEF Login
  <2> QED BY <1>1, <1>2, <1>4, <1>5, <2>1, DataReplace DEF TypeOK
<1>9. CASE Store(c)
  <2>1. "index" \in present BY <1>9 DEF Store, At, DataOK
  <2>2. UNCHANGED <<writing, kept, binary, marker, hindered>> BY <1>9 DEF Store
  <2>3. \A e \in Commands : pc'[e] = "login" => pc[e] = "login"
    BY <1>9 DEF Store, Goto, TypeOK, Procs
  <2>4. Artifacts' = Artifacts /\ Ownership' = Ownership /\ Owned' = Owned
    BY <2>2 DEF Artifacts, Ownership, Owned
  <2>5. deleting \notin things BY DEF DataOK
  <2>6. EvidenceKept' BY <2>4 DEF DataOK, EvidenceKept
  <2> QED BY <1>3, <1>4, <2>1, <2>2, <2>3, <2>4, <2>5, <2>6 DEF DataOK
<1>10. CASE Serve(c)
  <2>1. UNCHANGED <<pc, kept, keyring, binary, marker, hindered, writing>> BY <1>10 DEF Serve
  <2> QED BY <1>4, <1>5, <2>1, DataFrame DEF TypeOK
<1>11. CASE Leave(c)
  <2>1. UNCHANGED <<kept, outside, marker, hindered, writing>> BY <1>11 DEF Leave
  <2>2. \A e \in Commands : pc'[e] = "login" => pc[e] = "login"
    BY <1>11 DEF Leave, Close, Goto, TypeOK, Procs
  <2> QED BY <1>4, <1>5, <2>1, <2>2, DataFrame DEF TypeOK
<1> QED BY <1>6, <1>7, <1>8, <1>9, <1>10, <1>11 DEF Command

(* The ledger is there whenever an identity is recorded.                    *)
LEMMA Recorded ==
  ASSUME TypeOK, LockOK, DataOK, RemoverOK, NEW p \in Procs, writing[p] # None
  PROVE  Artifacts = ledger
<1>1. pc[p] \in Writers BY DEF LockOK
<1>2. CASE p \in Commands
  <2>1. pc[p] \in Inside BY <1>1, <1>2, SetsAre, EnteredKind
  <2>2. ~pending BY <1>2, <2>1, NoneRemoves
  <2> QED BY <2>2 DEF Artifacts, DataOK
<1>3. CASE p \in Removers
  <2>1. pc[p] \in Writers \ Inside BY <1>1, <1>3 DEF LockOK
  <2>2. Ledgered(p)
    BY <2>1 DEF Writers, Ledgered, Restored, Begun, Stopping, Deleting
  <2>3. "ledger" \in present BY <1>3, <2>2 DEF RemoverOK, Keeps
  <2> QED BY <2>3 DEF Artifacts
<1> QED BY <1>2, <1>3 DEF Procs

LEMMA DataStore ==
  ASSUME TypeOK, LockOK, DataOK, RemoverOK, NEW p \in Procs, Guard(p) \/ Record(p)
  PROVE  DataOK'
<1> USE FilesAre
<1>1. UNCHANGED <<pc, deleting, things>> BY DEF Guard, Record
<1>2. (deleting' \notin things') /\ (deleting' # None => \E r \in Removers : pc'[r] \in Deleting)
  BY <1>1 DEF DataOK
<1>3. CASE Guard(p)
  <2>1. /\ Replace(p, "guard") /\ writing[p] = None
        /\ UNCHANGED <<journal, things, outside, pending, backup, hindered>>
    BY <1>3 DEF Guard
  <2> QED BY <1>1, <1>2, <2>1, DataReplace
<1>4. CASE Record(p)
  <2> DEFINE w == writing[p]
  <2>1. /\ w \in Files /\ writing' = [writing EXCEPT ![p] = None]
        /\ ledger' = [ledger EXCEPT ![w] = "fits"] /\ present' = present \cup {"ledger"}
        /\ UNCHANGED <<journal, things, outside, pending, backup, copy, hindered>>
    BY <1>4 DEF Record, TypeOK
  <2>2. "ownership" \in present' <=> "ownership" \in present BY <2>1
  <2>3. EvidenceKept'
    <3>1. Owned' = Owned /\ Ownership' = Ownership BY <2>1, <2>2 DEF Owned, Ownership
    <3> QED BY <3>1 DEF EvidenceKept, DataOK
  <2>4. Artifacts = ledger BY <1>4, Recorded DEF Record
  <2>5. Artifacts' = ledger' BY <2>1 DEF Artifacts
  <2>6. ledger'[w] = "fits" /\ \A g \in Files : g # w => ledger'[g] = ledger[g]
    BY <2>1 DEF TypeOK
  <2>7. "ledger" \notin Files BY DEF Files
  <2>8. \A g \in Files : Artifacts'[g] = "removed" => g \in {"config", "index"} \ present' /\ pending'
    BY <2>1, <2>4, <2>5, <2>6, <2>7 DEF DataOK
  <2>9. ~hindered' => \A g \in {"index", "guard"} \cap present' :
            Artifacts'[g] = "fits" \/ \E q \in Procs : writing'[q] = g
    <3> SUFFICES ASSUME ~hindered, NEW g \in {"index", "guard"} \cap present', Artifacts'[g] # "fits"
                 PROVE  \E q \in Procs : writing'[q] = g
      BY <2>1
    <3>1. g # w /\ g \in present BY <2>1, <2>5, <2>6, <2>7
    <3>2. PICK q \in Procs : writing[q] = g BY <2>4, <2>5, <2>6, <3>1 DEF DataOK
    <3>3. writing'[q] = g BY <2>1, <3>1, <3>2 DEF TypeOK
    <3> QED BY <3>3
  <2>10. (keyring' => "index" \in present') /\ \A c \in Commands : pc'[c] = "login" => "index" \in present'
    BY <1>1, <2>1 DEF DataOK
  <2>11. "ownership" \notin present' => journal' = {} BY <2>1, <2>2 DEF DataOK
  <2>12. "ledger" \in present' BY <2>1
  <2> QED BY <1>2, <2>3, <2>8, <2>9, <2>10, <2>11, <2>12 DEF DataOK
<1> QED BY <1>3, <1>4

-----------------------------------------------------------------------------
(* The remover's program.                                                   *)

(* A process that is not at work has promised nothing.                      *)
LEMMA Idle ==
  ASSUME NEW r, pc'[r] \notin Working
  PROVE  Keeps(r)' /\ ~Going(r)'
BY DEF Keeps, Going, Marked, Restored, Ledgered, Begun, Second, Planned, Working, Early, Stopping,
       Deleting, Last, Ending

LEMMA Solo ==
  ASSUME TypeOK, LockOK, NEW r \in Removers, pc[r] \in Working,
         \A q \in Procs : q # r => pc'[q] = pc[q]
  PROVE  /\ \A q \in Removers : q # r => Keeps(q)' /\ ~Going(q)'
         /\ \A c \in Commands : pc'[c] # "login"
         /\ pc'[r] \in Deleting => \E q \in Removers : pc'[q] \in Deleting
         /\ (\E q \in Removers : pc[q] \in Deleting) => pc[r] \in Deleting
         /\ \A q \in Procs : q # r => writing[q] = None
<1>1. \A q \in Procs : q # r => pc[q] \notin Entered /\ writing[q] = None BY Alone
<1>2. \A q \in Removers : q # r => pc'[q] \notin Working BY <1>1 DEF Procs, Entered
<1>3. \A c \in Commands : pc'[c] # "login" BY <1>1 DEF Procs, Entered, Inside
<1>4. (\E q \in Removers : pc[q] \in Deleting) => pc[r] \in Deleting
  BY <1>1 DEF Procs, Entered, Working
<1> QED BY <1>1, <1>2, <1>3, <1>4, Idle

USE DEF Working, Early, Stopping, Deleting, Last, Ending, Second, Planned, Marked, Begun, Restored,
        Ledgered, Done, Going

LEMMA StepBegin ==
  ASSUME TypeOK, LockOK, DataOK, RemoverOK, RetryCompletes, NEW r \in Removers, Begin(r)
  PROVE  DataOK' /\ RemoverOK' /\ RetryCompletes'
<1> r \in Procs BY DEF Procs
<1> USE FilesAre
<1>1. /\ pc[r] = "begin" /\ writing[r] = None /\ Goto(r, "stop")
      /\ Replace(r, "ownership") /\ journal' = journal
      /\ UNCHANGED <<things, outside, pending, backup, sealed, report, hindered>>
  BY DEF Begin, Update, At
<1>2. pc'[r] = "stop" /\ \A q \in Procs : q # r => pc'[q] = pc[q] BY <1>1 DEF Goto, TypeOK
<1>3. Keeps(r) /\ (Going(r) => Clears(r) /\ Clear(r)) BY DEF RemoverOK
<1>4. /\ writing'[r] = "ownership" /\ present' = present \cup {"ownership"}
      /\ \A g \in Files : g # "ownership" => ledger'[g] = ledger[g] /\ Artifacts'[g] = Artifacts[g]
  BY <1>1, ReplaceFacts, ReplaceArtifacts
<1>5. "ownership" \in present BY <1>1, <1>3 DEF Keeps
<1>6. DataOK'
  <2>1. Owned' \subseteq journal' BY <1>1, <1>5 DEF DataOK, EvidenceKept, Ownership, Owned
  <2>2. deleting = None BY <1>1, <1>2, Solo DEF DataOK
  <2> QED BY <1>1, <1>2, <2>1, <2>2, Solo, DataReplace DEF DataOK
<1>7. Keeps(r)' BY <1>1, <1>2, <1>3, <1>4 DEF Keeps
<1>8. ASSUME Going(r)' PROVE Clears(r)'
  BY <1>1, <1>2, <1>3, <1>4, <1>8 DEF Clears
<1>9. ASSUME Going(r)' PROVE Clear(r)'
  BY <1>1, <1>2, <1>3, <1>4, <1>9 DEF Clear
<1>10. RetryCompletes' BY <1>1 DEF RetryCompletes
<1>11. RemoverOK' BY <1>1, <1>2, <1>7, <1>8, <1>9, Solo DEF RemoverOK
<1> QED BY <1>6, <1>10, <1>11

LEMMA StepPlan ==
  ASSUME TypeOK, LockOK, DataOK, RemoverOK, RetryCompletes, NEW r \in Removers, Plan(r)
  PROVE  DataOK' /\ RemoverOK' /\ RetryCompletes'
<1> r \in Procs BY DEF Procs
<1>1. /\ pc[r] = "plan" /\ writing[r] = None /\ pc'[r] \in {"refresh", "idle"}
      /\ \A q \in Procs : q # r => pc'[q] = pc[q]
      /\ UNCHANGED <<writing, kept, outside, marker, deleting, hindered>>
  BY DEF Plan, At, Close, Goto, TypeOK
<1>2. deleting = None BY <1>1, Solo DEF DataOK
<1>3. DataOK' BY <1>1, <1>2, Solo, DataFrame DEF DataOK
<1>4. Artifacts' = Artifacts BY <1>1 DEF Artifacts
<1>5. CASE UNCHANGED <<round, failed, todo, missed>> /\ Close(r)
  <2>1. pc'[r] = "idle" BY <1>5 DEF Close, Goto, TypeOK
  <2>2. Keeps(r)' /\ ~Going(r)' BY <2>1, Idle
  <2>3. RetryCompletes' BY <1>1, <1>5 DEF RetryCompletes
  <2> QED BY <1>1, <1>3, <2>2, <2>3, Solo DEF RemoverOK
<1>6. CASE /\ Goto(r, "refresh") /\ round' = "first" /\ failed' = FALSE
           /\ todo' = (Ownership \ {Binary})
                     \cup {f \in {"config", "index"} : Artifacts[f] \in {"fits", "stale"}}
           /\ missed' = {f \in Files \cap present : Artifacts[f] = "none"}
  <2>1. pc'[r] = "refresh" BY <1>6 DEF Goto, TypeOK
  <2>2. Keeps(r)' BY <1>6, <2>1 DEF Keeps
  <2>3. things \subseteq todo'
    <3>1. things \subseteq Ownership BY DEF DataOK, EvidenceKept, Owned
    <3>2. Binary \notin things BY DEF TypeOK, Binary
    <3> QED BY <1>6, <3>1, <3>2
  <2>4. {"config", "index"} \cap present \subseteq todo' \cup missed'
    <3> SUFFICES ASSUME NEW f \in {"config", "index"} \cap present PROVE f \in todo' \cup missed' OBVIOUS
    <3>1. f \in Files /\ Artifacts[f] \in Entries BY FilesAre, ArtifactsType
    <3>2. Artifacts[f] # "removed" BY <3>1 DEF DataOK
    <3> QED BY <1>6, <3>1, <3>2 DEF Entries
  <2>5. "guard" \in present => "guard" \in missed' \/ Artifacts["guard"] # "none"
    BY <1>6, FilesAre
  <2>6. Clears(r)' BY <1>1, <1>4, <1>6, <2>1, <2>3, <2>4, <2>5 DEF Clears
  <2>7. ~hindered => missed' \cap {"index", "guard"} = {}
    <3> SUFFICES ASSUME ~hindered, NEW f \in {"index", "guard"}, f \in missed' PROVE FALSE OBVIOUS
    <3>1. f \in present /\ Artifacts[f] = "none" BY <1>6
    <3>2. PICK p \in Procs : writing[p] = f BY <3>1 DEF DataOK
    <3>3. f # None BY <3>2, FilesAre
    <3>4. p # r BY <1>1, <3>2, <3>3
    <3> QED BY <1>1, <3>2, <3>3, <3>4, Solo
  <2>8. Clear(r)' BY <1>1, <2>1, <1>6, <2>7 DEF Clear
  <2>9. RetryCompletes' BY <1>6 DEF RetryCompletes
  <2> QED BY <1>1, <1>3, <2>2, <2>6, <2>8, <2>9, Solo DEF RemoverOK
<1> QED BY <1>5, <1>6 DEF Plan

LEMMA StepRefresh ==
  ASSUME TypeOK, LockOK, DataOK, RemoverOK, RetryCompletes, NEW r \in Removers, Refresh(r)
  PROVE  DataOK' /\ RemoverOK' /\ RetryCompletes'
<1> r \in Procs BY DEF Procs
<1>1. /\ pc[r] = "refresh" /\ writing[r] = None /\ pc'[r] = "mark"
      /\ \A q \in Procs : q # r => pc'[q] = pc[q]
      /\ UNCHANGED <<lock, writing, kept, outside, pending, backup, copy, report, hindered>>
  BY DEF Refresh, At, Goto, TypeOK
<1>2. Keeps(r) /\ (Going(r) => Clears(r) /\ Clear(r)) BY DEF RemoverOK
<1>3. deleting = None BY <1>1, Solo DEF DataOK
<1>4. DataOK' BY <1>1, <1>3, Solo, DataFrame DEF DataOK
<1>5. Artifacts' = Artifacts BY <1>1 DEF Artifacts
<1>6. Keeps(r)' BY <1>1, <1>2 DEF Keeps
<1>7. ASSUME Going(r)' PROVE Clears(r)' BY <1>1, <1>2, <1>5, <1>7 DEF Clears
<1>8. ASSUME Going(r)' PROVE Clear(r)' BY <1>1, <1>2, <1>8 DEF Clear
<1>9. RetryCompletes' BY <1>1 DEF RetryCompletes
<1> QED BY <1>1, <1>4, <1>6, <1>7, <1>8, <1>9, Solo DEF RemoverOK

LEMMA StepMark ==
  ASSUME TypeOK, LockOK, DataOK, RemoverOK, RetryCompletes, NEW r \in Removers, Mark(r)
  PROVE  DataOK' /\ RemoverOK' /\ RetryCompletes'
<1> r \in Procs BY DEF Procs
<1>1. /\ pc[r] = "mark" /\ writing[r] = None /\ Saved(r)
      /\ pending' = TRUE /\ backup' = Ownership /\ copy' = Artifacts
      /\ sealed' = (sealed \/ "ledger" \in present)
      /\ UNCHANGED <<writing, kept, outside, todo, missed, deleting, failed, hindered>>
  BY DEF Mark, At
<1>2. /\ \A q \in Procs : q # r => pc'[q] = pc[q]
      /\ \/ round = "first" /\ pc'[r] = "restore"
         \/ round = "report" /\ ~failed /\ pc'[r] = "finish"
         \/ round = "report" /\ failed /\ pc'[r] = "refresh" /\ round' = "last"
         \/ pc'[r] = "idle"
  BY <1>1 DEF Saved, Close, Goto, TypeOK
<1>3. Keeps(r) /\ (Going(r) => Clears(r) /\ Clear(r)) BY DEF RemoverOK
<1>4. Artifacts' = Artifacts /\ Ownership' = Ownership BY <1>1 DEF Artifacts, Ownership
<1>5. deleting = None BY <1>1, Solo, <1>2 DEF DataOK
<1>6. DataOK'
  <2>1. Owned' = Owned BY <1>1 DEF Owned
  <2>2. EvidenceKept' BY <1>4, <2>1 DEF DataOK, EvidenceKept
  <2> QED BY <1>1, <1>2, <1>4, <1>5, <2>2, Solo DEF DataOK
<1>7. Keeps(r)'
  <2>1. CASE pc'[r] = "finish"
    <3>1. round = "report" /\ ~failed BY <1>2, <2>1
    <3>2. "ownership" \in present /\ "ledger" \in present BY <1>1, <1>3, <3>1 DEF Keeps
    <3>3. sealed' /\ copy' = ledger BY <1>1, <3>2 DEF Artifacts
    <3>4. Owned' \subseteq backup' BY <1>1 DEF DataOK, EvidenceKept, Owned
    <3> QED BY <1>1, <2>1, <3>1, <3>2, <3>3, <3>4 DEF Keeps
  <2>2. CASE pc'[r] = "restore" BY <1>1, <2>2 DEF Keeps
  <2>3. CASE pc'[r] = "refresh" BY <1>1, <1>2, <2>3 DEF Keeps
  <2>4. CASE pc'[r] = "idle" BY <2>4, Idle
  <2> QED BY <1>2, <2>1, <2>2, <2>3, <2>4
<1>8. ASSUME Going(r)' PROVE Clears(r)' BY <1>1, <1>2, <1>3, <1>4, <1>8 DEF Clears
<1>9. ASSUME Going(r)' PROVE Clear(r)' BY <1>1, <1>2, <1>3, <1>9 DEF Clear
<1>10. RetryCompletes' BY <1>1 DEF RetryCompletes
<1> QED BY <1>1, <1>2, <1>6, <1>7, <1>8, <1>9, <1>10, Solo DEF RemoverOK

LEMMA StepRestore ==
  ASSUME TypeOK, LockOK, DataOK, RemoverOK, RetryCompletes, NEW r \in Removers, Restore(r)
  PROVE  DataOK' /\ RemoverOK' /\ RetryCompletes'
<1> r \in Procs BY DEF Procs
<1>1. /\ pc[r] = "restore" /\ writing[r] = None /\ pc'[r] = "rejournal"
      /\ \A q \in Procs : q # r => pc'[q] = pc[q]
      /\ ledger' = Artifacts /\ present' = present \cup {"ledger"}
      /\ UNCHANGED <<lock, writing, journal, things, outside, pending, backup, copy, report, hindered>>
  BY DEF Restore, At, Goto, TypeOK
<1>2. Keeps(r) /\ (Going(r) => Clears(r) /\ Clear(r)) BY DEF RemoverOK
<1>3. Artifacts' = Artifacts BY <1>1 DEF Artifacts
<1>4. "ledger" \notin Files BY DEF Files
<1>5. \A f \in Files : f \in present' <=> f \in present BY <1>1, <1>4
<1>6. deleting = None BY <1>1, Solo DEF DataOK
<1>7. DataOK'
  <2>1. Owned' = Owned /\ Ownership' = Ownership BY <1>1, <1>5, FilesAre DEF Owned, Ownership
  <2>2. EvidenceKept' BY <2>1 DEF DataOK, EvidenceKept
  <2>3. ~hindered' => \A f \in {"index", "guard"} \cap present' :
            Artifacts'[f] = "fits" \/ \E p \in Procs : writing'[p] = f
    BY <1>1, <1>3, <1>5, FilesAre DEF DataOK
  <2> QED BY <1>1, <1>3, <1>5, <1>6, <2>2, <2>3, Solo, FilesAre DEF DataOK
<1>8. Keeps(r)' BY <1>1, <1>2 DEF Keeps
<1>9. ASSUME Going(r)' PROVE Clears(r)' BY <1>1, <1>2, <1>3, <1>5, <1>9, FilesAre DEF Clears
<1>10. ASSUME Going(r)' PROVE Clear(r)' BY <1>1, <1>2, <1>10 DEF Clear
<1>11. RetryCompletes' BY <1>1 DEF RetryCompletes
<1> QED BY <1>1, <1>7, <1>8, <1>9, <1>10, <1>11, Solo DEF RemoverOK

LEMMA StepRejournal ==
  ASSUME TypeOK, LockOK, DataOK, RemoverOK, RetryCompletes, NEW r \in Removers, Rejournal(r)
  PROVE  DataOK' /\ RemoverOK' /\ RetryCompletes'
<1> r \in Procs BY DEF Procs
<1> USE FilesAre
<1>1. /\ pc[r] = "rejournal" /\ writing[r] = None /\ pc'[r] = "begin"
      /\ \A q \in Procs : q # r => pc'[q] = pc[q]
      /\ UNCHANGED <<things, outside, pending, backup, sealed, report, hindered>>
  BY DEF Rejournal, Update, At, Goto, TypeOK
<1>2. Keeps(r) /\ (Going(r) => Clears(r) /\ Clear(r)) BY DEF RemoverOK
<1>3. deleting = None BY <1>1, Solo DEF DataOK
<1>4. CASE "ownership" \in present
  <2>1. UNCHANGED <<writing, kept, copy>> BY <1>1, <1>4 DEF Rejournal
  <2>2. DataOK' BY <1>1, <1>3, <2>1, Solo, DataFrame DEF DataOK
  <2>3. Artifacts' = Artifacts BY <1>1, <2>1 DEF Artifacts
  <2>4. Keeps(r)' BY <1>1, <1>2, <1>4, <2>1 DEF Keeps
  <2>5. ASSUME Going(r)' PROVE Clears(r)' BY <1>1, <1>2, <2>1, <2>3, <2>5 DEF Clears
  <2>6. ASSUME Going(r)' PROVE Clear(r)' BY <1>1, <1>2, <2>1, <2>6 DEF Clear
  <2>7. RetryCompletes' BY <1>1 DEF RetryCompletes
  <2> QED BY <1>1, <2>2, <2>4, <2>5, <2>6, <2>7, Solo DEF RemoverOK
<1>5. CASE "ownership" \notin present
  <2>1. Replace(r, "ownership") /\ journal' = backup BY <1>5 DEF Rejournal, Update
  <2>2. /\ writing'[r] = "ownership" /\ present' = present \cup {"ownership"}
        /\ \A g \in Files : g # "ownership" => Artifacts'[g] = Artifacts[g]
    BY <1>1, <2>1, ReplaceFacts, ReplaceArtifacts
  <2>3. pending BY <1>1, <1>2 DEF Keeps
  <2>4. Owned' \subseteq journal' BY <1>1, <1>5, <2>1, <2>3 DEF DataOK, EvidenceKept, Ownership, Owned
  <2>5. DataOK' BY <1>1, <1>3, <2>1, <2>4, Solo, DataReplace DEF DataOK
  <2>6. Keeps(r)' BY <1>1, <1>2, <2>2 DEF Keeps
  <2>7. ASSUME Going(r)' PROVE Clears(r)' BY <1>1, <1>2, <2>2, <2>7 DEF Clears
  <2>8. ASSUME Going(r)' PROVE Clear(r)' BY <1>1, <1>2, <2>2, <2>8 DEF Clear
  <2>9. RetryCompletes' BY <1>1 DEF RetryCompletes
  <2> QED BY <1>1, <2>5, <2>6, <2>7, <2>8, <2>9, Solo DEF RemoverOK
<1> QED BY <1>4, <1>5

(* Steps of the middle that leave the files alone.                          *)
LEMMA StepQuiet ==
  ASSUME TypeOK, LockOK, DataOK, RemoverOK, RetryCompletes, NEW r \in Removers,
         \/ Stop(r) \/ DataGone(r) \/ Credentials(r) \/ \E t \in Things : Delete(r, t)
  PROVE  DataOK' /\ RemoverOK' /\ RetryCompletes'
<1> r \in Procs BY DEF Procs
<1>1. UNCHANGED <<writing, present, journal, ledger, binary, marker, missed, failed, hindered>> /\ writing[r] = None
  BY DEF Stop, DataGone, Credentials, Delete, At, Turn
<1>2. \A q \in Procs : q # r => pc'[q] = pc[q]
  BY DEF Stop, DataGone, Credentials, Report, Delete, Goto, TypeOK
<1>3. Keeps(r) /\ (Going(r) => Clears(r) /\ Clear(r)) BY DEF RemoverOK
<1>4. pc[r] \in {"stop", "data", "setup", "credentials"}
  BY DEF Stop, DataGone, Credentials, Delete, At, Turn
<1>5. /\ things' \subseteq things /\ (keyring' => keyring) /\ deleting' \notin things'
      /\ deleting' # None => pc'[r] \in Deleting
  <2>1. CASE Stop(r) \/ DataGone(r) \/ Credentials(r)
    <3>1. pc[r] \in {"stop", "credentials"} \/ deleting = None
      BY <2>1 DEF Stop, DataGone, Credentials, At
    <3>2. deleting = None BY <1>2, <1>4, <3>1, Solo DEF DataOK
    <3>3. things' = things /\ deleting' = deleting BY <2>1 DEF Stop, DataGone, Credentials
    <3>4. keyring' => keyring BY <2>1 DEF Stop, DataGone, Credentials
    <3> QED BY <3>2, <3>3, <3>4 DEF DataOK
  <2>2. ASSUME NEW t \in Things, Delete(r, t) PROVE <1>5!:
    BY <2>2 DEF Delete, Turn
  <2> QED BY <2>1, <2>2
<1>6. DataOK' BY <1>1, <1>2, <1>4, <1>5, Solo, DataFrame
<1>7. Artifacts' = Artifacts BY <1>1 DEF Artifacts
<1>8. Owned' \subseteq Owned BY <1>1, <1>5 DEF Owned
<1>9. RetryCompletes' BY <1>1 DEF RetryCompletes
<1>10. Keeps(r)' /\ (Going(r)' => Clears(r)' /\ Clear(r)')
  <2>1. CASE Stop(r)
    <3>1. pc[r] = "stop" /\ pc'[r] = "unregister" /\ ~daemon' /\ UNCHANGED <<things, keyring, report>>
      BY <2>1 DEF Stop, At, Goto, TypeOK
    <3>2. Keeps(r)' BY <1>1, <1>3, <3>1 DEF Keeps
    <3>3. Going(r)' => Clears(r)' BY <1>1, <1>3, <1>7, <3>1 DEF Clears
    <3>4. Going(r)' => Clear(r)' BY <1>1, <1>3, <3>1 DEF Clear
    <3> QED BY <3>2, <3>3, <3>4
  <2>2. CASE DataGone(r)
    <3>1. /\ pc[r] = "data" /\ pc'[r] = "credentials" /\ Data \cap todo = {}
          /\ UNCHANGED <<things, keyring, daemon, report>>
      BY <2>2 DEF DataGone, At, Goto, TypeOK
    <3>2. Keeps(r)' BY <1>1, <1>3, <3>1 DEF Keeps
    <3>3. Going(r)' => Clears(r)' BY <1>1, <1>3, <1>7, <3>1 DEF Clears
    <3>4. Going(r)' => Clear(r)' BY <1>1, <1>3, <3>1 DEF Clear
    <3> QED BY <3>2, <3>3, <3>4
  <2>3. CASE Credentials(r)
    <3>1. /\ pc[r] = "credentials" /\ UNCHANGED <<things, daemon, todo, missed, deleting, failed>>
          /\ keyring' = (keyring /\ "index" \notin present)
          /\ \/ failed /\ pc'[r] = "refresh" /\ round' = "report"
             \/ ~failed /\ pc'[r] = "clean" /\ UNCHANGED round
      BY <2>3 DEF Credentials, Report, At, Goto, TypeOK
    <3>2. ~keyring' BY <3>1 DEF DataOK
    <3>3. deleting = None BY <1>2, <3>1, Solo DEF DataOK
    <3>4. Keeps(r)' BY <1>1, <1>3, <3>1, <3>2, <3>3 DEF Keeps
    <3>5. Going(r)' => Clears(r)' BY <1>1, <1>3, <1>7, <3>1, <3>2 DEF Clears
    <3>6. Going(r)' => Clear(r)' BY <1>1, <1>3, <3>1 DEF Clear
    <3> QED BY <3>4, <3>5, <3>6
  <2>4. ASSUME NEW t \in Things, Delete(r, t)
        PROVE  Keeps(r)' /\ (Going(r)' => Clears(r)' /\ Clear(r)')
    <3>1. /\ pc[r] \in {"data", "setup"} /\ UNCHANGED <<pc, keyring, daemon, todo, missed, round, failed>>
      BY <2>4 DEF Delete, Turn
    <3>2. Keeps(r)' BY <1>1, <1>3, <3>1 DEF Keeps
    <3>3. Going(r)' => Clears(r)' BY <1>1, <1>3, <1>5, <1>7, <3>1 DEF Clears
    <3>4. Going(r)' => Clear(r)' BY <1>1, <1>3, <3>1 DEF Clear
    <3> QED BY <3>2, <3>3, <3>4
  <2> QED BY <2>1, <2>2, <2>3, <2>4
<1> QED BY <1>2, <1>4, <1>6, <1>9, <1>10, Solo DEF RemoverOK

LEMMA StepUnregister ==
  ASSUME TypeOK, LockOK, DataOK, RemoverOK, RetryCompletes, NEW r \in Removers, Unregister(r)
  PROVE  DataOK' /\ RemoverOK' /\ RetryCompletes'
<1> r \in Procs BY DEF Procs
<1> USE FilesAre
<1>1. /\ pc[r] = "unregister" /\ writing[r] = None /\ pc'[r] = "unlist"
      /\ \A q \in Procs : q # r => pc'[q] = pc[q]
      /\ UNCHANGED <<journal, things, outside, pending, backup, sealed, report, hindered>>
  BY DEF Unregister, At, Goto, TypeOK
<1>2. Keeps(r) /\ (Going(r) => Clears(r) /\ Clear(r)) BY DEF RemoverOK
<1>3. deleting = None BY <1>1, Solo DEF DataOK
<1>4. RetryCompletes' BY <1>1 DEF RetryCompletes
<1>5. CASE "config" \notin present
  <2>1. UNCHANGED <<writing, present, ledger, copy>> BY <1>5 DEF Unregister
  <2>2. DataOK' BY <1>1, <1>3, <2>1, Solo, DataFrame DEF DataOK
  <2>3. Artifacts' = Artifacts BY <1>1, <2>1 DEF Artifacts
  <2>4. Keeps(r)' BY <1>1, <1>2, <2>1 DEF Keeps
  <2>5. ASSUME Going(r)' PROVE Clears(r)' BY <1>1, <1>2, <2>1, <2>3, <2>5 DEF Clears
  <2>6. ASSUME Going(r)' PROVE Clear(r)' BY <1>1, <1>2, <1>5, <2>1, <2>6 DEF Clear
  <2> QED BY <1>1, <1>4, <2>2, <2>4, <2>5, <2>6, Solo DEF RemoverOK
<1>6. CASE "config" \in present
  <2>1. Replace(r, "config") BY <1>6 DEF Unregister
  <2>2. /\ writing'[r] = "config" /\ present' = present
        /\ \A g \in Files : g # "config" => ledger'[g] = ledger[g] /\ Artifacts'[g] = Artifacts[g]
    <3>1. "config" \in Files /\ pending' = pending BY <1>1
    <3>2. /\ writing'[r] = "config" /\ present' = present \cup {"config"}
          /\ \A g \in Files : g # "config" => ledger'[g] = ledger[g]
      BY <2>1, <3>1, ReplaceFacts
    <3>3. \A g \in Files : g # "config" => Artifacts'[g] = Artifacts[g]
      BY <2>1, <3>1, ReplaceArtifacts
    <3> QED BY <1>6, <3>2, <3>3
  <2>3. DataOK' BY <1>1, <1>3, <1>6, <2>1, Solo, DataReplace DEF DataOK
  <2>4. Keeps(r)' BY <1>1, <1>2, <2>2 DEF Keeps
  <2>5. ASSUME Going(r)' PROVE Clears(r)' BY <1>1, <1>2, <2>2, <2>5 DEF Clears
  <2>6. ASSUME Going(r)' PROVE Clear(r)' BY <1>1, <1>2, <2>2, <2>6 DEF Clear
  <2> QED BY <1>1, <1>4, <2>3, <2>4, <2>5, <2>6, Solo DEF RemoverOK
<1> QED BY <1>5, <1>6

LEMMA StepUnlist ==
  ASSUME TypeOK, LockOK, DataOK, RemoverOK, RetryCompletes, NEW r \in Removers,
         Unlist(r) \/ \E t \in Things : Deleted(r, t)
  PROVE  DataOK' /\ RemoverOK' /\ RetryCompletes'
<1> r \in Procs BY DEF Procs
<1> USE FilesAre
<1>1. /\ writing[r] = None /\ Replace(r, "ownership")
      /\ UNCHANGED <<things, outside, pending, backup, sealed, missed, round, failed, hindered>>
  BY DEF Unlist, Deleted, Update, Turn, At
<1>2. /\ deleting' = None /\ Owned' \subseteq journal'
      /\ things \subseteq todo => things' \subseteq todo'
      /\ \A q \in Procs : q # r => pc'[q] = pc[q]
      /\ \/ pc[r] = "unlist" /\ pc'[r] = "data"
         \/ pc[r] \in {"data", "setup"} /\ pc' = pc
      /\ {"config", "index"} \cap todo \subseteq todo' /\ todo' \subseteq todo
  <2>1. CASE Unlist(r)
    <3>1. pc[r] = "unlist" /\ pc'[r] = "data" /\ (\A q \in Procs : q # r => pc'[q] = pc[q]) /\ journal' = journal
      BY <2>1 DEF Unlist, Update, At, Goto, TypeOK
    <3>2. "ownership" \in present BY <3>1 DEF RemoverOK, Keeps
    <3>3. Owned' \subseteq journal' BY <1>1, <3>1, <3>2 DEF DataOK, EvidenceKept, Ownership, Owned
    <3>4. deleting = None BY <3>1, Solo DEF DataOK
    <3> QED BY <1>1, <2>1, <3>1, <3>3, <3>4 DEF Unlist
  <2>2. ASSUME NEW t \in Things, Deleted(r, t)
        PROVE  <1>2!:
    <3>1. /\ pc[r] \in {"data", "setup"} /\ pc' = pc /\ deleting = t /\ deleting' = None
          /\ journal' = journal \ {t} /\ todo' = todo \ {t}
      BY <2>2 DEF Deleted, Turn, Update
    <3>2. "ownership" \in present BY <3>1 DEF RemoverOK, Keeps
    <3>3. t \notin things /\ t # Binary BY <3>1 DEF DataOK
    <3>4. Owned' \subseteq journal' BY <1>1, <3>1, <3>2, <3>3 DEF DataOK, EvidenceKept, Ownership, Owned
    <3>5. t \notin {"config", "index"} OBVIOUS
    <3> QED BY <1>1, <3>1, <3>3, <3>4, <3>5
  <2> QED BY <2>1, <2>2
<1>3. Keeps(r) /\ (Going(r) => Clears(r) /\ Clear(r)) BY DEF RemoverOK
<1>4. /\ writing'[r] = "ownership" /\ present' = present \cup {"ownership"}
      /\ \A g \in Files : g # "ownership" => ledger'[g] = ledger[g] /\ Artifacts'[g] = Artifacts[g]
  BY <1>1, ReplaceFacts, ReplaceArtifacts
<1>5. RetryCompletes' BY <1>1 DEF RetryCompletes
<1>6. None \notin things' BY <1>1 DEF TypeOK, Things
<1>7. DataOK'
  <2>1. \A c \in Commands : pc'[c] # "login" BY <1>2, Solo
  <2> QED BY <1>1, <1>2, <1>6, <2>1, DataReplace
<1>8. Keeps(r)' BY <1>1, <1>2, <1>3, <1>4 DEF Keeps
<1>9. ASSUME Going(r)' PROVE Clears(r)'
  <2>1. Clears(r) BY <1>1, <1>2, <1>3, <1>9
  <2> QED BY <1>1, <1>2, <1>4, <2>1 DEF Clears
<1>10. ASSUME Going(r)' PROVE Clear(r)'
  <2>1. Clear(r) BY <1>1, <1>2, <1>3, <1>10
  <2> QED BY <1>1, <1>2, <1>4, <2>1 DEF Clear
<1> QED BY <1>1, <1>2, <1>5, <1>7, <1>8, <1>9, <1>10, Solo DEF RemoverOK

LEMMA StepClean ==
  ASSUME TypeOK, LockOK, DataOK, RemoverOK, RetryCompletes, NEW r \in Removers, NEW f \in Files, Clean(r, f)
  PROVE  DataOK' /\ RemoverOK' /\ RetryCompletes'
<1> r \in Procs BY DEF Procs
<1>1. /\ pc[r] = "clean" /\ writing[r] = None /\ pc' = pc /\ f \in {"config", "index"} /\ f \in todo
      /\ deleting = None /\ todo' = todo \ {f}
      /\ UNCHANGED <<writing, journal, ledger, things, outside, marker, missed, round, hindered>>
  BY DEF Clean, At
<1>2. Keeps(r) /\ (Going(r) => Clears(r) /\ Clear(r)) BY DEF RemoverOK
<1>3. f # "ownership" /\ f # "ledger" /\ f # "guard" BY <1>1
<1>4. "ledger" \in present /\ "ownership" \in present /\ ~keyring BY <1>1, <1>2 DEF Keeps
<1>5. None \notin things /\ f \notin things BY <1>1 DEF TypeOK, Things
<1>6. CASE Fits(f) /\ present' = present \ {f} /\ deleting' = f /\ UNCHANGED failed
  <2>1. "ledger" \in present' /\ "ownership" \in present' BY <1>3, <1>4, <1>6
  <2>2. Artifacts' = Artifacts BY <1>1, <1>4, <2>1 DEF Artifacts
  <2>3. EvidenceKept'
    <3>1. Owned' = Owned /\ Ownership' = Ownership BY <1>1, <1>4, <2>1 DEF Owned, Ownership
    <3> QED BY <3>1 DEF DataOK, EvidenceKept
  <2>4. \A c \in Commands : pc'[c] # "login" BY <1>1, Solo
  <2>5. ~hindered' => \A g \in {"index", "guard"} \cap present' :
            Artifacts'[g] = "fits" \/ \E p \in Procs : writing'[p] = g
    BY <1>1, <1>6, <2>2 DEF DataOK
  <2>6. DataOK' BY <1>1, <1>4, <1>5, <1>6, <2>1, <2>2, <2>3, <2>4, <2>5 DEF DataOK
  <2>7. Keeps(r)' BY <1>1, <1>2, <1>6, <2>1 DEF Keeps
  <2>8. ASSUME Going(r)' PROVE Clears(r)' BY <1>1, <1>2, <1>3, <1>5, <1>6, <2>2, <2>8 DEF Clears
  <2>9. ASSUME Going(r)' PROVE Clear(r)' BY <1>1, <1>2, <1>6, <2>9 DEF Clear
  <2>10. RetryCompletes' BY <1>1, <1>6 DEF RetryCompletes
  <2> QED BY <1>1, <2>6, <2>7, <2>8, <2>9, <2>10, Solo DEF RemoverOK
<1>7. CASE ~Fits(f) /\ failed' = TRUE /\ UNCHANGED <<present, deleting>>
  <2>1. DataOK' BY <1>1, <1>5, <1>7, Solo, DataFrame
  <2>2. Keeps(r)' BY <1>1, <1>2, <1>7 DEF Keeps
  <2>3. hindered \/ binary # "owned"
    <3>1. CASE failed BY <3>1 DEF RetryCompletes
    <3>2. CASE ~failed
      <4>1. f \in present /\ ledger[f] # "fits" BY <1>7 DEF Fits
      <4>2. f = "index" BY <1>1, <1>2, <3>2, <4>1, FilesAre DEF Clear
      <4>3. Artifacts[f] # "fits" BY <1>4, <4>1 DEF Artifacts
      <4>4. \A p \in Procs : writing[p] # f BY <1>1, <4>2, Solo, FilesAre
      <4> QED BY <4>1, <4>2, <4>3, <4>4 DEF DataOK
    <3> QED BY <3>1, <3>2
  <2>4. RetryCompletes' BY <1>1, <2>3 DEF RetryCompletes
  <2>5. ~Going(r)' BY <1>7
  <2> QED BY <1>1, <2>1, <2>2, <2>4, <2>5, Solo DEF RemoverOK
<1> QED BY <1>6, <1>7 DEF Clean

LEMMA StepCleaned ==
  ASSUME TypeOK, LockOK, DataOK, RemoverOK, RetryCompletes, NEW r \in Removers, Cleaned(r)
  PROVE  DataOK' /\ RemoverOK' /\ RetryCompletes'
<1> r \in Procs BY DEF Procs
<1>1. /\ pc[r] = "clean" /\ writing[r] = None /\ pc' = pc /\ deleting # None /\ deleting' = None
      /\ ledger' = [ledger EXCEPT ![deleting] = "removed"]
      /\ UNCHANGED <<writing, present, journal, things, outside, pending, backup, copy, todo, missed,
                     round, failed, hindered>>
  BY DEF Cleaned, At
<1>2. Keeps(r) /\ (Going(r) => Clears(r) /\ Clear(r)) BY DEF RemoverOK
<1>3. "ledger" \in present /\ pending /\ deleting \in {"config", "index"} \ present
  BY <1>1, <1>2 DEF Keeps
<1>4. Artifacts = ledger /\ Artifacts' = ledger' BY <1>1, <1>3 DEF Artifacts
<1>5. ledger'[deleting] = "removed" /\ \A f \in Files : f # deleting => ledger'[f] = ledger[f]
  BY <1>1, <1>3, FilesAre DEF TypeOK
<1>6. DataOK'
  <2>1. Owned' = Owned /\ Ownership' = Ownership BY <1>1 DEF Owned, Ownership
  <2>2. EvidenceKept' BY <2>1 DEF DataOK, EvidenceKept
  <2>3. \A f \in Files : Artifacts'[f] = "removed" => f \in {"config", "index"} \ present' /\ pending'
    BY <1>1, <1>3, <1>4, <1>5 DEF DataOK
  <2>4. ~hindered' => \A f \in {"index", "guard"} \cap present' :
            Artifacts'[f] = "fits" \/ \E p \in Procs : writing'[p] = f
    BY <1>1, <1>3, <1>4, <1>5, FilesAre DEF DataOK
  <2>5. None \notin things BY DEF TypeOK, Things
  <2> QED BY <1>1, <1>3, <2>2, <2>3, <2>4, <2>5, Solo DEF DataOK
<1>7. Keeps(r)' BY <1>1, <1>2 DEF Keeps
<1>8. ASSUME Going(r)' PROVE Clears(r)' BY <1>1, <1>2, <1>3, <1>4, <1>5, <1>8, FilesAre DEF Clears
<1>9. ASSUME Going(r)' PROVE Clear(r)' BY <1>1, <1>2, <1>3, <1>5, <1>9, FilesAre DEF Clear
<1>10. RetryCompletes' BY <1>1 DEF RetryCompletes
<1> QED BY <1>1, <1>6, <1>7, <1>8, <1>9, <1>10, Solo DEF RemoverOK

(* The plan's last deletions are over.                                      *)
LEMMA StepGone ==
  ASSUME TypeOK, LockOK, DataOK, RemoverOK, RetryCompletes, NEW r \in Removers,
         FilesGone(r) \/ LinksGone(r)
  PROVE  DataOK' /\ RemoverOK' /\ RetryCompletes'
<1> r \in Procs BY DEF Procs
<1>1. /\ writing[r] = None /\ deleting = None
      /\ \A q \in Procs : q # r => pc'[q] = pc[q]
      /\ UNCHANGED <<writing, kept, outside, marker, todo, missed, deleting, failed, hindered>>
      /\ \/ /\ pc[r] = "clean" /\ todo \cap {"config", "index"} = {}
            /\ \/ failed /\ pc'[r] = "refresh" /\ round' = "report"
               \/ ~failed /\ pc'[r] = "setup" /\ round' = round
         \/ pc[r] = "setup" /\ Links \cap todo = {} /\ pc'[r] = "refresh" /\ round' = "report"
  BY DEF FilesGone, LinksGone, Report, At, Goto, TypeOK
<1>2. Keeps(r) /\ (Going(r) => Clears(r) /\ Clear(r)) BY DEF RemoverOK
<1>3. DataOK' BY <1>1, Solo, DataFrame DEF DataOK
<1>4. Artifacts' = Artifacts BY <1>1 DEF Artifacts
<1>5. Keeps(r)' BY <1>1, <1>2 DEF Keeps
<1>6. things \subseteq Data \cup Links BY DEF TypeOK, Things
<1>7. ASSUME Going(r)' PROVE Clears(r)'
  <2>1. Clears(r) /\ ~keyring BY <1>1, <1>2, <1>7 DEF Keeps
  <2>2. pc[r] = "clean" => {"config", "index"} \cap present \subseteq missed BY <1>1, <2>1 DEF Clears
  <2>3. pc[r] = "setup" => things = {} BY <1>1, <1>6, <2>1 DEF Clears
  <2> QED BY <1>1, <1>4, <1>7, <2>1, <2>2, <2>3 DEF Clears
<1>8. ASSUME Going(r)' PROVE Clear(r)' BY <1>1, <1>2, <1>8 DEF Clear
<1>9. RetryCompletes' BY <1>1 DEF RetryCompletes
<1> QED BY <1>1, <1>3, <1>5, <1>7, <1>8, <1>9, Solo DEF RemoverOK

(* Nothing is in the way of a removal that has come this far.               *)
LEMMA StepFinish ==
  ASSUME TypeOK, LockOK, DataOK, RemoverOK, RetryCompletes, NEW r \in Removers, Finish(r)
  PROVE  DataOK' /\ RemoverOK' /\ RetryCompletes'
<1> r \in Procs BY DEF Procs
<1>1. /\ pc[r] = "finish" /\ writing[r] = None
      /\ \A q \in Procs : q # r => pc'[q] = pc[q]
      /\ UNCHANGED <<writing, kept, outside, marker, todo, missed, deleting, hindered>>
      /\ \/ binary = "owned" /\ pc'[r] = "metadata" /\ UNCHANGED <<round, failed>>
         \/ /\ Binary \notin Ownership \/ binary # "owned"
            /\ pc'[r] = "refresh" /\ round' = "last" /\ failed'
  BY DEF Finish, GiveBack, At, Goto, TypeOK
<1>2. Keeps(r) /\ (Going(r) => Clears(r) /\ Clear(r)) BY DEF RemoverOK
<1>3. deleting = None BY <1>1, Solo DEF DataOK
<1>4. DataOK' BY <1>1, <1>3, Solo, DataFrame DEF DataOK
<1>5. Artifacts' = Artifacts /\ Owned' = Owned BY <1>1 DEF Artifacts, Owned
<1>6. Keeps(r)' BY <1>1, <1>2, <1>5 DEF Keeps
<1>7. ASSUME Going(r)' PROVE Clears(r)' BY <1>1, <1>2, <1>5, <1>7 DEF Clears
<1>8. ASSUME Going(r)' PROVE Clear(r)' BY <1>1, <1>2, <1>8 DEF Clear
<1>9. RetryCompletes'
  <2>1. binary = "owned" => Binary \in Ownership BY DEF DataOK, EvidenceKept, Owned
  <2> QED BY <1>1, <2>1 DEF RetryCompletes
<1> QED BY <1>1, <1>4, <1>6, <1>7, <1>8, <1>9, Solo DEF RemoverOK

LEMMA StepJournal ==
  ASSUME TypeOK, LockOK, DataOK, RemoverOK, RetryCompletes, NEW r \in Removers, Journal(r)
  PROVE  DataOK' /\ RemoverOK' /\ RetryCompletes'
<1> r \in Procs BY DEF Procs
<1>1. /\ pc[r] = "metadata" /\ writing[r] = None
      /\ \A q \in Procs : q # r => pc'[q] = pc[q]
      /\ UNCHANGED <<writing, ledger, things, outside, marker, todo, missed, deleting, hindered>>
      /\ ledger["ownership"] # "none" /\ Fits("ownership") =>
            /\ present' = present \ {"ownership"} /\ journal' = {}
            /\ pc'[r] = "guard" /\ UNCHANGED <<round, failed>>
  BY DEF Journal, GiveBack, At, Goto, TypeOK
<1>2. Keeps(r) /\ Clears(r) /\ Clear(r) BY <1>1 DEF RemoverOK, Keeps
<1>3. ledger["ownership"] = "fits" BY <1>1, <1>2, FilesAre DEF Clear
<1>4. /\ present' = present \ {"ownership"} /\ journal' = {}
      /\ pc'[r] = "guard" /\ UNCHANGED <<round, failed>>
  BY <1>1, <1>3 DEF Fits
<1>5. /\ pending /\ "ledger" \in present /\ Owned \subseteq backup /\ binary = "owned" /\ ~failed
      /\ sealed /\ copy = ledger
  BY <1>1, <1>2 DEF Keeps
<1>6. Artifacts' = Artifacts /\ Owned' = Owned BY <1>1, <1>4 DEF Artifacts, Owned
<1>7. DataOK'
  <2>1. EvidenceKept' BY <1>1, <1>4, <1>5, <1>6 DEF EvidenceKept, Ownership
  <2>2. deleting = None BY <1>1, Solo DEF DataOK
  <2>3. ~hindered' => \A f \in {"index", "guard"} \cap present' :
            Artifacts'[f] = "fits" \/ \E p \in Procs : writing'[p] = f
    BY <1>1, <1>4, <1>6 DEF DataOK
  <2> QED BY <1>1, <1>4, <1>6, <2>1, <2>2, <2>3, Solo DEF DataOK
<1>8. Keeps(r)' BY <1>1, <1>4, <1>5 DEF Keeps
<1>9. Clears(r)' BY <1>1, <1>2, <1>4, <1>6 DEF Clears
<1>10. Clear(r)' BY <1>1, <1>2, <1>4 DEF Clear
<1>11. RetryCompletes' BY <1>4, <1>5 DEF RetryCompletes
<1> QED BY <1>1, <1>7, <1>8, <1>9, <1>10, <1>11, Solo DEF RemoverOK

LEMMA StepJournalLock ==
  ASSUME TypeOK, LockOK, DataOK, RemoverOK, RetryCompletes, NEW r \in Removers, JournalLock(r)
  PROVE  DataOK' /\ RemoverOK' /\ RetryCompletes'
<1> r \in Procs BY DEF Procs
<1>1. /\ pc[r] = "guard" /\ writing[r] = None
      /\ \A q \in Procs : q # r => pc'[q] = pc[q]
      /\ UNCHANGED <<writing, journal, ledger, things, outside, marker, todo, missed, deleting, hindered>>
      /\ \/ /\ present' = (IF ledger["guard"] = "none" THEN present ELSE present \ {"guard"})
            /\ pc'[r] = "ledger" /\ UNCHANGED <<round, failed>>
         \/ /\ ledger["guard"] # "none" /\ ~Fits("guard") /\ UNCHANGED present
            /\ pc'[r] = "refresh" /\ round' = "last" /\ failed'
  BY DEF JournalLock, GiveBack, At, Goto, TypeOK
<1>2. Keeps(r) /\ Clears(r) /\ Clear(r) BY <1>1 DEF RemoverOK, Keeps
<1>3. /\ pending /\ "ledger" \in present /\ "ownership" \notin present /\ binary = "owned" /\ ~failed
      /\ sealed /\ copy = ledger
  BY <1>1, <1>2 DEF Keeps
<1>4. present' \subseteq present /\ "ledger" \in present' BY <1>1, <1>3
<1>5. Artifacts = ledger /\ Artifacts' = ledger BY <1>1, <1>3, <1>4 DEF Artifacts
<1>6. DataOK'
  <2>1. Owned' = Owned /\ Ownership' = Ownership BY <1>1, <1>3, <1>4 DEF Owned, Ownership
  <2>2. EvidenceKept' BY <2>1 DEF DataOK, EvidenceKept
  <2>3. deleting = None BY <1>1, Solo DEF DataOK
  <2>4. ~hindered' => \A f \in {"index", "guard"} \cap present' :
            Artifacts'[f] = "fits" \/ \E p \in Procs : writing'[p] = f
    BY <1>1, <1>4, <1>5 DEF DataOK
  <2>5. "index" \in present => "index" \in present' BY <1>1
  <2>6. "ownership" \notin present' => journal' = {} BY <1>1, <1>3 DEF DataOK
  <2>7. \A f \in Files : Artifacts'[f] = "removed" => f \in {"config", "index"} \ present' /\ pending'
    BY <1>1, <1>4, <1>5 DEF DataOK
  <2> QED BY <1>1, <1>4, <2>2, <2>3, <2>4, <2>5, <2>6, <2>7, Solo DEF DataOK
<1>7. Keeps(r)' BY <1>1, <1>3, <1>4 DEF Keeps
<1>8. ASSUME Going(r)' PROVE Clears(r)'
  <2>1. "guard" \in present' => "guard" \in missed
    BY <1>1, <1>2, <1>5, <1>8, FilesAre DEF Clears
  <2> QED BY <1>1, <1>2, <1>4, <1>8, <2>1 DEF Clears
<1>9. ASSUME Going(r)' PROVE Clear(r)' BY <1>1, <1>2, <1>9 DEF Clear
<1>10. RetryCompletes'
  <2> SUFFICES ASSUME failed', ~hindered PROVE FALSE BY <1>1 DEF RetryCompletes
  <2>1. "guard" \in present /\ ledger["guard"] # "fits" BY <1>1, <1>3 DEF Fits
  <2>2. \A p \in Procs : writing[p] # "guard" BY <1>1, Solo, FilesAre
  <2> QED BY <1>5, <2>1, <2>2 DEF DataOK
<1> QED BY <1>1, <1>6, <1>7, <1>8, <1>9, <1>10, Solo DEF RemoverOK

LEMMA StepLedger ==
  ASSUME TypeOK, LockOK, DataOK, RemoverOK, RetryCompletes, NEW r \in Removers, Ledger(r)
  PROVE  DataOK' /\ RemoverOK' /\ RetryCompletes'
<1> r \in Procs BY DEF Procs
<1>1. pc[r] = "ledger" /\ writing[r] = None BY DEF Ledger, At
<1>2. Keeps(r) /\ Clears(r) /\ Clear(r) BY <1>1 DEF RemoverOK, Keeps
<1>3. /\ pending /\ "ledger" \in present /\ "ownership" \notin present /\ binary = "owned" /\ ~failed
      /\ sealed /\ copy = ledger
  BY <1>1, <1>2 DEF Keeps
<1>4. /\ present' = present \ {"ledger"} /\ ledger' = NoEntries /\ pc'[r] = "binary"
      /\ \A q \in Procs : q # r => pc'[q] = pc[q]
      /\ UNCHANGED <<writing, journal, things, outside, marker, todo, missed, deleting, round, failed, hindered>>
  BY <1>3 DEF Ledger, Goto, TypeOK
<1>5. Artifacts = ledger /\ Artifacts' = ledger BY <1>3, <1>4 DEF Artifacts
<1>6. "ledger" \notin Files BY DEF Files
<1>7. \A f \in Files : f \in present' <=> f \in present BY <1>4, <1>6
<1>8. DataOK'
  <2>1. Owned' = Owned /\ Ownership' = Ownership BY <1>4, <1>7, FilesAre DEF Owned, Ownership
  <2>2. EvidenceKept' BY <2>1 DEF DataOK, EvidenceKept
  <2>3. deleting = None BY <1>1, <1>4, Solo DEF DataOK
  <2>4. ~hindered' => \A f \in {"index", "guard"} \cap present' :
            Artifacts'[f] = "fits" \/ \E p \in Procs : writing'[p] = f
    BY <1>4, <1>5 DEF DataOK
  <2>5. \A c \in Commands : pc'[c] # "login" BY <1>1, <1>4, Solo
  <2> QED BY <1>4, <1>5, <1>7, <2>2, <2>3, <2>4, <2>5, FilesAre DEF DataOK
<1>9. Keeps(r)' BY <1>3, <1>4 DEF Keeps
<1>10. Clears(r)' BY <1>1, <1>2, <1>4, <1>7, FilesAre DEF Clears
<1>11. Clear(r)' BY <1>1, <1>2, <1>4 DEF Clear
<1>12. RetryCompletes' BY <1>3, <1>4 DEF RetryCompletes
<1> QED BY <1>1, <1>4, <1>8, <1>9, <1>10, <1>11, <1>12, Solo DEF RemoverOK

LEMMA StepRemoveBinary ==
  ASSUME TypeOK, LockOK, DataOK, RemoverOK, RetryCompletes, NEW r \in Removers, RemoveBinary(r)
  PROVE  DataOK' /\ RemoverOK' /\ RetryCompletes'
<1> r \in Procs BY DEF Procs
<1>1. /\ pc[r] = "binary" /\ writing[r] = None /\ pc'[r] = "unmark" /\ binary' = "gone"
      /\ \A q \in Procs : q # r => pc'[q] = pc[q]
      /\ UNCHANGED <<lock, writing, kept, keyring, daemon, marker, report, hindered>>
  BY DEF RemoveBinary, At, Goto, TypeOK
<1>2. Keeps(r) /\ Clears(r) /\ Clear(r) BY <1>1 DEF RemoverOK, Keeps
<1>3. deleting = None BY <1>1, Solo DEF DataOK
<1>4. DataOK' BY <1>1, <1>3, Solo, DataFrame DEF DataOK
<1>5. Artifacts' = Artifacts BY <1>1 DEF Artifacts
<1>6. Keeps(r)' BY <1>1, <1>2 DEF Keeps
<1>7. Clears(r)' BY <1>1, <1>2, <1>5 DEF Clears
<1>8. Clear(r)' BY <1>1, <1>2 DEF Clear
<1>9. RetryCompletes' BY <1>1 DEF RetryCompletes
<1> QED BY <1>1, <1>4, <1>6, <1>7, <1>8, <1>9, Solo DEF RemoverOK

(* When the marker goes, there is nothing left that it could have told of.  *)
LEMMA StepUnmark ==
  ASSUME TypeOK, LockOK, DataOK, RemoverOK, RetryCompletes, NEW r \in Removers, Unmark(r)
  PROVE  DataOK' /\ RemoverOK' /\ RetryCompletes'
<1> r \in Procs BY DEF Procs
<1>1. /\ pc[r] = "unmark" /\ writing[r] = None /\ pc'[r] = "unlock"
      /\ \A q \in Procs : q # r => pc'[q] = pc[q]
      /\ pending' = FALSE
      /\ UNCHANGED <<lock, writing, kept, outside, report, hindered>>
  BY DEF Unmark, At, Goto, TypeOK
<1>2. Keeps(r) /\ Clears(r) /\ Clear(r) BY <1>1 DEF RemoverOK, Keeps
<1>3. "ownership" \notin present /\ "ledger" \notin present /\ binary = "gone" /\ ~failed
  BY <1>1, <1>2 DEF Keeps
<1>4. things = {} /\ Owned' = {} BY <1>1, <1>2, <1>3 DEF Clears, Owned
<1>5. \A f \in Files : Artifacts'[f] = "none" BY <1>1, <1>3 DEF Artifacts, NoEntries
<1>6. "guard" \in present => "guard" \in missed BY <1>1, <1>2, FilesAre DEF Clears
<1>7. ~hindered => {"index", "guard"} \cap present = {}
  BY <1>1, <1>2, <1>6 DEF Clears, Clear
<1>8. DataOK'
  <2>1. EvidenceKept' BY <1>4 DEF EvidenceKept
  <2>2. deleting = None BY <1>1, Solo DEF DataOK
  <2> QED BY <1>1, <1>3, <1>4, <1>5, <1>7, <2>1, <2>2, Solo DEF DataOK
<1>9. Keeps(r)' BY <1>1, <1>2, <1>3 DEF Keeps
<1>10. Clears(r)' BY <1>1, <1>2, <1>6 DEF Clears
<1>11. Clear(r)' BY <1>1, <1>2 DEF Clear
<1>12. RetryCompletes' BY <1>1 DEF RetryCompletes
<1> QED BY <1>1, <1>8, <1>9, <1>10, <1>11, <1>12, Solo DEF RemoverOK

(* What others do does not disturb a remover.                               *)
LEMMA Bystanders ==
  ASSUME TypeOK, RemoverOK, UNCHANGED <<kept, keyring, binary, marker, report>>,
         daemon' => daemon, hindered => hindered',
         \A q \in Removers : (pc'[q] = pc[q] /\ writing'[q] = writing[q]) \/ pc'[q] \notin Planned
  PROVE  RemoverOK'
<1> SUFFICES ASSUME NEW q \in Removers PROVE Keeps(q)' /\ (Going(q)' => Clears(q)' /\ Clear(q)')
  BY DEF RemoverOK
<1>1. CASE pc'[q] = pc[q] /\ writing'[q] = writing[q]
  <2>1. Keeps(q) /\ (Going(q) => Clears(q) /\ Clear(q)) BY DEF RemoverOK
  <2>2. Artifacts' = Artifacts /\ Owned' = Owned BY DEF Artifacts, Owned
  <2>3. Keeps(q)' BY <1>1, <2>1, <2>2 DEF Keeps
  <2>4. Going(q)' => Clears(q)' BY <1>1, <2>1, <2>2 DEF Clears
  <2>5. Going(q)' => Clear(q)' BY <1>1, <2>1, <2>2 DEF Clear
  <2> QED BY <2>3, <2>4, <2>5
<1>2. CASE pc'[q] \notin Planned BY <1>2 DEF Keeps
<1> QED BY <1>1, <1>2

(* The lock's file is unlinked, and closed.                                 *)
LEMMA StepEnd ==
  ASSUME TypeOK, LockOK, DataOK, RemoverOK, RetryCompletes, NEW r \in Removers, Unlock(r) \/ Drop(r)
  PROVE  DataOK' /\ RemoverOK' /\ RetryCompletes'
<1> r \in Procs BY DEF Procs
<1>1. /\ pc[r] \in {"unlock", "close"} /\ pc'[r] \in {"close", "idle"}
      /\ \A q \in Procs : q # r => pc'[q] = pc[q]
      /\ UNCHANGED <<writing, kept, outside, marker, report, hindered>>
  BY DEF Unlock, Drop, Close, At, Goto, TypeOK
<1>2. \A c \in Commands : pc'[c] = "login" => pc[c] = "login" BY <1>1 DEF Procs
<1>3. deleting # None => \E q \in Removers : pc'[q] \in Deleting
  <2> SUFFICES ASSUME deleting # None PROVE \E q \in Removers : pc'[q] \in Deleting OBVIOUS
  <2>1. PICK q \in Removers : pc[q] \in Deleting BY DEF DataOK
  <2> QED BY <1>1, <2>1 DEF Procs
<1>4. DataOK' BY <1>1, <1>2, <1>3, DataFrame DEF DataOK
<1>5. RemoverOK' BY <1>1, Bystanders DEF Procs
<1>6. RetryCompletes' BY <1>1 DEF RetryCompletes
<1> QED BY <1>4, <1>5, <1>6

LEMMA StepFail ==
  ASSUME TypeOK, LockOK, DataOK, RemoverOK, RetryCompletes, NEW r \in Removers, Fail(r)
  PROVE  DataOK' /\ RemoverOK' /\ RetryCompletes'
<1> r \in Procs BY DEF Procs
<1>1. /\ pc[r] \in Working /\ failed' /\ hindered' /\ deleting' = None
      /\ writing' = [writing EXCEPT ![r] = None]
      /\ UNCHANGED <<kept, keyring, binary, marker, missed>>
  BY DEF Fail, FailEnd, FailStopping, FailDeleting, FailCredentials, FailLast
<1>2. \A q \in Procs : q # r => pc'[q] = pc[q]
  BY DEF Fail, FailEnd, FailStopping, FailDeleting, FailCredentials, FailLast, Report, Close, Goto, TypeOK
<1>3. Keeps(r) BY DEF RemoverOK
<1>4. None \notin things BY DEF TypeOK, Things
<1>5. DataOK' BY <1>1, <1>2, <1>4, Solo, DataFrame
<1>6. \/ pc'[r] = "idle"
      \/ pc[r] \in Stopping /\ pc'[r] = "credentials"
      \/ pc[r] \in Deleting /\ pc'[r] = pc[r]
      \/ pc[r] = "credentials" /\ pc'[r] = "refresh"
      \/ pc'[r] = "refresh" /\ round' = "last" /\ pc[r] \in Last
  BY DEF Fail, FailEnd, FailStopping, FailDeleting, FailCredentials, FailLast, Report, Close, Goto, TypeOK
<1>7. Keeps(r)' BY <1>1, <1>3, <1>6 DEF Keeps
<1>8. ~Going(r)' BY <1>1
<1>9. RetryCompletes' BY <1>1 DEF RetryCompletes
<1> QED BY <1>1, <1>2, <1>5, <1>7, <1>8, <1>9, Solo DEF RemoverOK

LEMMA StepCrash ==
  ASSUME TypeOK, LockOK, DataOK, RemoverOK, RetryCompletes, NEW p \in Procs, Crash(p)
  PROVE  DataOK' /\ RemoverOK' /\ RetryCompletes'
<1>1. /\ pc'[p] = "idle" /\ writing'[p] = None
      /\ \A q \in Procs : q # p => pc'[q] = pc[q] /\ writing'[q] = writing[q]
      /\ UNCHANGED <<kept, outside, marker, missed, round, failed>>
      /\ hindered' = (hindered \/ writing[p] \in {"index", "guard"})
  BY DEF Crash, Close, Goto, TypeOK
<1>2. \A q \in Procs : writing[q] \in {"index", "guard"} => hindered' \/ writing'[q] = writing[q]
  BY <1>1
<1>3. \A c \in Commands : pc'[c] = "login" => pc[c] = "login" BY <1>1 DEF Procs
<1>4. RetryCompletes' BY <1>1 DEF RetryCompletes
<1>5. CASE pc[p] \in Working
  <2>1. deleting' = None BY <1>5 DEF Crash
  <2>2. None \notin things BY DEF TypeOK, Things
  <2>3. DataOK' BY <1>1, <1>2, <1>3, <2>1, <2>2, DataFrame
  <2>4. p \in Removers BY <1>5, EnteredKind, SetsAre DEF Procs
  <2>5. RemoverOK'
    <3>1. \A q \in Removers : pc'[q] \notin Working
      BY <1>1, <1>5, <2>4, Alone DEF Procs, Entered
    <3> QED BY <3>1, Idle DEF RemoverOK
  <2> QED BY <1>4, <2>3, <2>5
<1>6. CASE pc[p] \notin Working
  <2>1. UNCHANGED <<deleting, todo>> BY <1>6 DEF Crash
  <2>2. deleting # None => \E r \in Removers : pc'[r] \in Deleting
    <3> SUFFICES ASSUME deleting # None PROVE \E r \in Removers : pc'[r] \in Deleting OBVIOUS
    <3>1. PICK r \in Removers : pc[r] \in Deleting BY DEF DataOK
    <3>2. r # p BY <1>6, <3>1
    <3> QED BY <1>1, <3>1, <3>2 DEF Procs
  <2>3. deleting \notin things BY DEF DataOK
  <2>4. DataOK' BY <1>1, <1>2, <1>3, <2>1, <2>2, <2>3, DataFrame
  <2>5. \A q \in Removers : (pc'[q] = pc[q] /\ writing'[q] = writing[q]) \/ pc'[q] \notin Planned
    BY <1>1 DEF Procs
  <2>6. RemoverOK' BY <1>1, <2>1, <2>5, Bystanders
  <2> QED BY <1>4, <2>4, <2>6
<1> QED BY <1>5, <1>6

LEMMA StepLock ==
  ASSUME TypeOK, LockOK, DataOK, RemoverOK, RetryCompletes, NEW p \in Procs,
         Open(p) \/ Lock(p) \/ Check(p) \/ GiveUp(p)
  PROVE  DataOK' /\ RemoverOK' /\ RetryCompletes'
<1>1. /\ pc'[p] \in {"idle", "wait", "check", "inside", "plan"}
      /\ \A q \in Procs : q # p => pc'[q] = pc[q]
      /\ UNCHANGED <<writing, kept, outside, marker, report, hindered>>
  BY DEF Open, Lock, Check, GiveUp, Close, Goto, TypeOK
<1>2. \A q \in Removers : (pc'[q] = pc[q] /\ writing'[q] = writing[q]) \/ pc'[q] \notin Planned
  BY <1>1 DEF Procs
<1>3. RemoverOK' BY <1>1, <1>2, Bystanders
<1>4. RetryCompletes' BY <1>1 DEF RetryCompletes
<1> QED BY <1>3, <1>4, DataLock

LEMMA StepStore ==
  ASSUME TypeOK, LockOK, DataOK, RemoverOK, RetryCompletes, NEW p \in Procs, Guard(p) \/ Record(p)
  PROVE  DataOK' /\ RemoverOK' /\ RetryCompletes'
<1> USE FilesAre
<1>1. DataOK' BY DataStore
<1>2. UNCHANGED <<pc, things, outside, pending, report, hindered>> BY DEF Guard, Record
<1>3. RetryCompletes' BY <1>2 DEF RetryCompletes
<1>4. pc[p] \in Writers BY DEF Guard, Record, LockOK, Writers, Inside
<1>5. CASE p \in Commands
  <2>1. \A r \in Removers : pc[r] \notin Working BY <1>4, <1>5, SetsAre, EnteredKind, NoneRemoves
  <2>2. RemoverOK' BY <1>2, <2>1, Idle DEF RemoverOK
  <2> QED BY <1>1, <1>3, <2>2
<1>6. CASE p \in Removers
  <2>1. pc[p] \in {"rejournal", "begin", "stop", "unlist", "data", "setup"}
    BY <1>4, <1>6 DEF LockOK, Writers
  <2>2. Keeps(p) /\ (Going(p) => Clears(p) /\ Clear(p)) BY <1>6 DEF RemoverOK
  <2>3. Keeps(p)' /\ (Going(p)' => Clears(p)' /\ Clear(p)')
    <3>1. CASE Guard(p)
      <4>1. pc[p] \in {"rejournal", "begin"} /\ Replace(p, "guard") /\ journal' = journal
        BY <2>1, <3>1 DEF Guard
      <4>2. /\ writing'[p] = "guard" /\ present' = present \cup {"guard"}
            /\ \A g \in Files : g # "guard" => Artifacts'[g] = Artifacts[g]
        BY <1>2, <4>1, ReplaceFacts, ReplaceArtifacts
      <4>3. Keeps(p)' BY <1>2, <2>2, <4>1, <4>2 DEF Keeps
      <4>4. Going(p)' => Clears(p)' BY <1>2, <2>2, <4>1, <4>2 DEF Clears
      <4>5. Going(p)' => Clear(p)' BY <1>2, <2>2, <4>1, <4>2 DEF Clear
      <4> QED BY <4>3, <4>4, <4>5
    <3>2. CASE Record(p)
      <4> DEFINE w == writing[p]
      <4>1. /\ w \in Files /\ writing'[p] = None /\ present' = present \cup {"ledger"}
            /\ ledger'[w] = "fits" /\ \A g \in Files : g # w => ledger'[g] = ledger[g]
        BY <3>2 DEF Record, TypeOK
      <4>2. Artifacts = ledger BY <3>2, Recorded DEF Record
      <4>3. Artifacts' = ledger' BY <4>1 DEF Artifacts
      <4>4. "ledger" \notin Files BY DEF Files
      <4>5. Keeps(p)' BY <1>2, <2>1, <2>2, <4>1 DEF Keeps
      <4>6. Going(p)' => Clears(p)' BY <1>2, <2>1, <2>2, <4>1, <4>2, <4>3, <4>4 DEF Clears
      <4>7. Going(p)' => Clear(p)' BY <1>2, <2>1, <2>2, <4>1, <4>4 DEF Clear
      <4> QED BY <4>5, <4>6, <4>7
    <3> QED BY <3>1, <3>2
  <2>4. pc[p] \in Working BY <2>1
  <2> QED BY <1>1, <1>2, <1>3, <1>6, <2>3, <2>4, Solo DEF RemoverOK
<1> QED BY <1>5, <1>6 DEF Procs

LEMMA StepCommand ==
  ASSUME TypeOK, LockOK, DataOK, RemoverOK, RetryCompletes, NEW c \in Commands, Command(c)
  PROVE  DataOK' /\ RemoverOK' /\ RetryCompletes'
<1> c \in Procs BY DEF Procs
<1>1. pc[c] \in Inside /\ UNCHANGED <<failed, hindered, binary>>
  BY DEF Command, Configure, Login, Store, Serve, Leave, Install, At, Inside
<1>2. \A q \in Procs : q # c => pc'[q] = pc[q]
  BY DEF Command, Configure, Login, Store, Serve, Leave, Install, At, Close, Goto, TypeOK
<1>3. \A r \in Removers : pc'[r] \notin Working
  BY <1>1, <1>2, NoneRemoves DEF Procs
<1>4. RemoverOK' BY <1>3, Idle DEF RemoverOK
<1>5. RetryCompletes' BY <1>1 DEF RetryCompletes
<1> QED BY <1>4, <1>5, DataCommand

LEMMA NextInv == Inv /\ [Next]_vars => Inv'
<1> SUFFICES ASSUME Inv, [Next]_vars PROVE Inv' OBVIOUS
<1> USE DEF Inv
<1>1. TypeOK' BY TypeStep
<1>2. LockOK' BY LockStep
<1>3. ASSUME NEW p \in Procs,
             Open(p) \/ Lock(p) \/ Check(p) \/ GiveUp(p) \/ Guard(p) \/ Record(p) \/ Crash(p)
      PROVE  DataOK' /\ RemoverOK' /\ RetryCompletes'
  BY <1>3, StepLock, StepStore, StepCrash
<1>4. ASSUME NEW r \in Removers, Removal(r)
      PROVE  DataOK' /\ RemoverOK' /\ RetryCompletes'
  <2>1. CASE Plan(r) \/ Refresh(r) \/ Mark(r) \/ Restore(r) \/ Rejournal(r) \/ Begin(r)
    BY <2>1, StepPlan, StepRefresh, StepMark, StepRestore, StepRejournal, StepBegin
  <2>2. CASE \/ Stop(r) \/ Unregister(r) \/ Unlist(r) \/ DataGone(r) \/ Credentials(r)
             \/ \E t \in Things : Delete(r, t) \/ Deleted(r, t)
    BY <2>2, StepQuiet, StepUnregister, StepUnlist
  <2>3. CASE Cleaned(r) \/ FilesGone(r) \/ LinksGone(r) \/ \E f \in Files : Clean(r, f)
    BY <2>3, StepClean, StepCleaned, StepGone
  <2>4. CASE \/ Finish(r) \/ Journal(r) \/ JournalLock(r) \/ Ledger(r) \/ RemoveBinary(r)
             \/ Unmark(r) \/ Unlock(r) \/ Drop(r) \/ Fail(r)
    BY <2>4, StepFinish, StepJournal, StepJournalLock, StepLedger, StepRemoveBinary, StepUnmark,
       StepEnd, StepFail
  <2> QED BY <1>4, <2>1, <2>2, <2>3, <2>4 DEF Removal
<1>5. CASE DaemonDies
  <2>1. /\ ~daemon' /\ UNCHANGED <<lock, pc, writing, kept, keyring, binary, marker, report, hindered>>
    BY <1>5 DEF DaemonDies
  <2>2. DataOK' BY <2>1, DataFrame DEF DataOK
  <2>3. RemoverOK' BY <2>1, Bystanders
  <2>4. RetryCompletes' BY <2>1 DEF RetryCompletes
  <2> QED BY <1>1, <1>2, <2>2, <2>3, <2>4
<1>6. CASE UNCHANGED vars
  <2>1. UNCHANGED <<lock, pc, writing, kept, keyring, binary, daemon, marker, report, hindered>>
    BY <1>6 DEF vars
  <2>2. DataOK' BY <2>1, DataFrame DEF DataOK
  <2>3. RemoverOK' BY <2>1, Bystanders
  <2>4. RetryCompletes' BY <2>1 DEF RetryCompletes
  <2> QED BY <1>1, <1>2, <2>2, <2>3, <2>4
<1>7. DataOK' /\ RemoverOK' /\ RetryCompletes' BY <1>3, <1>4, <1>5, <1>6, StepCommand DEF Next
<1> QED BY <1>1, <1>2, <1>7

LEMMA InvCorrect == Spec => []Inv
<1>1. Init => Inv BY InitInv
<1>2. Inv /\ [Next]_vars => Inv' BY NextInv
<1> QED BY <1>1, <1>2, PTL DEF Spec

(* Every variable keeps to its values.                                      *)
THEOREM TypeCorrect == Spec => []TypeOK
<1>1. Inv => TypeOK BY DEF Inv
<1> QED BY <1>1, InvCorrect, PTL

(* Whatever has been recorded and is still there can be told from the       *)
(* journal or from its copy, wherever a removal is interrupted              *)
(* (cleanup/self_state.rs, self_remove.rs).                                 *)
THEOREM Kept == Spec => []EvidenceKept
<1>1. Inv => EvidenceKept BY DEF Inv, DataOK
<1> QED BY <1>1, InvCorrect, PTL

(* An interrupted removal that is started again reports no failure of its   *)
(* own making (cleanup/self_state.rs, self_artifacts.rs).                   *)
THEOREM Completes == Spec => []RetryCompletes
<1>1. Inv => RetryCompletes BY DEF Inv
<1> QED BY <1>1, InvCorrect, PTL

-----------------------------------------------------------------------------
(* The executable goes last.                                                *)

LEMMA OnlyItRemovesTheBinary ==
  ASSUME [Next]_vars, binary # "gone", binary' = "gone"
  PROVE  \E r \in Removers : RemoveBinary(r)
<1>1. ASSUME NEW p \in Procs,
             Open(p) \/ Lock(p) \/ Check(p) \/ GiveUp(p) \/ Guard(p) \/ Record(p) \/ Crash(p)
      PROVE  FALSE
  BY <1>1 DEF Open, Lock, Check, GiveUp, Guard, Record, Crash
<1>2. ASSUME NEW c \in Commands, Command(c) PROVE FALSE
  BY <1>2 DEF Command, Configure, Login, Store, Serve, Leave, Install
<1>3. ASSUME NEW r \in Removers, Removal(r), ~RemoveBinary(r) PROVE FALSE
  BY <1>3 DEF Removal, Plan, Refresh, Mark, Restore, Rejournal, Begin, Stop, Unregister, Unlist, DataGone,
       Credentials, Cleaned, FilesGone, LinksGone, Finish, Journal, JournalLock, Ledger, Unmark, Unlock,
       Drop, Fail, Delete, Deleted, Clean
<1>4. ~DaemonDies BY DEF DaemonDies
<1>5. ~UNCHANGED vars BY DEF vars
<1> QED BY <1>1, <1>2, <1>3, <1>4, <1>5 DEF Next

(* When the executable is removed, nothing else is left of what was         *)
(* recorded (cleanup/self_remove.rs, finish_resources).                     *)
THEOREM BinaryLast == Spec => ExecutableLast
<1> DEFINE Gone == binary # "gone" /\ binary' = "gone" =>
         /\ binary = "owned" /\ things = {} /\ present \subseteq missed
         /\ ~keyring /\ ~daemon
<1>1. Inv /\ [Next]_vars => [Gone]_vars
  <2> SUFFICES ASSUME Inv, [Next]_vars, binary # "gone", binary' = "gone"
               PROVE  /\ binary = "owned" /\ things = {} /\ present \subseteq missed
                      /\ ~keyring /\ ~daemon
    OBVIOUS
  <2>1. PICK r \in Removers : RemoveBinary(r) BY OnlyItRemovesTheBinary
  <2>2. pc[r] = "binary" /\ writing[r] = None BY <2>1 DEF RemoveBinary, At
  <2>3. Keeps(r) /\ Clears(r) BY <2>2 DEF Inv, RemoverOK, Keeps
  <2>4. binary = "owned" /\ "ownership" \notin present /\ "ledger" \notin present BY <2>2, <2>3 DEF Keeps
  <2>5. things = {} /\ ~keyring /\ ~daemon BY <2>2, <2>3 DEF Clears
  <2>6. {"config", "index", "guard"} \cap present \subseteq missed
    BY <2>2, <2>3, FilesAre DEF Clears
  <2>7. present \subseteq {"config", "index", "guard"} BY <2>4 DEF Inv, TypeOK, Files
  <2> QED BY <2>4, <2>5, <2>6, <2>7
<1> QED BY <1>1, InvCorrect, PTL DEF Spec, ExecutableLast

-----------------------------------------------------------------------------
(* The lock is a gate.                                                      *)

Mutating == {c \in Commands : pc[c] \in Inside}
Removing == {r \in Removers : pc[r] \in Working}

LEMMA GateInit == Init => Lockers!Init
BY SetsAre DEF Init, Lockers!Init, Inside, Procs

(* A process goes on, within the lock or outside of it.                     *)
LEMMA GateStutter ==
  ASSUME pending' = pending,
         \A q \in Procs : (pc'[q] \in Inside <=> pc[q] \in Inside) /\ (pc'[q] \in Working <=> pc[q] \in Working)
  PROVE  [Lockers!Next]_(Lockers!vars)
<1>1. Mutating' = Mutating BY DEF Mutating, Procs
<1>2. Removing' = Removing BY DEF Removing, Procs
<1> QED BY <1>1, <1>2 DEF Mutating, Removing, Lockers!vars

LEMMA GateEnter ==
  ASSUME TypeOK, LockOK, NEW p \in Procs, Check(p)
  PROVE  [Lockers!Next]_(Lockers!vars)
<1>1. CASE Close(p)
  <2>1. pc[p] = "check" /\ pc'[p] = "idle" /\ pending' = pending /\ \A q \in Procs : q # p => pc'[q] = pc[q]
    BY <1>1 DEF Check, Close, Goto, TypeOK
  <2> QED BY <2>1, GateStutter DEF Inside
<1>2. CASE /\ fd[p] = lockfile /\ (p \in Commands => ~pending)
           /\ Goto(p, IF p \in Commands THEN "inside" ELSE "plan") /\ UNCHANGED lock
  <2>1. /\ pc[p] = "check" /\ pc'[p] = (IF p \in Commands THEN "inside" ELSE "plan") /\ pending' = pending
        /\ \A q \in Procs : q # p => pc'[q] = pc[q]
    BY <1>2 DEF Check, Goto, TypeOK
  <2>2. pc[p] \in Holding /\ fd[p] = lockfile BY <1>2, <2>1, SetsAre
  <2>3. ASSUME NEW q \in Procs, q # p, pc[q] \in Entered PROVE p \in Commands /\ q \in Commands
    <3>1. fd[q] = lockfile /\ pc[q] \in Holding BY <2>3, SetsAre DEF LockOK
    <3> QED BY <2>2, <2>3, <3>1 DEF LockOK
  <2>4. CASE p \in Commands
    <3>1. Removing = {} /\ Removing' = {}
      BY <2>1, <2>3, <2>4 DEF Removing, Entered, Procs
    <3>2. Mutating' = Mutating \cup {p} BY <2>1, <2>4 DEF Mutating, Inside, Procs
    <3>3. Lockers!Enter(p) BY <1>2, <2>1, <2>4, <3>1, <3>2 DEF Lockers!Enter, Mutating, Removing
    <3> QED BY <3>3 DEF Lockers!Next
  <2>5. CASE p \notin Commands
    <3>1. p \in Removers BY <2>5 DEF Procs
    <3>2. Mutating = {} /\ Mutating' = {} BY <2>1, <2>3, <2>5 DEF Mutating, Entered, Procs
    <3>3. Removing = {} /\ Removing' = {p}
      BY <2>1, <2>3, <2>5, <3>1 DEF Removing, Entered, Procs
    <3>4. Lockers!Begin(p) BY <2>1, <3>2, <3>3 DEF Lockers!Begin, Mutating, Removing
    <3> QED BY <3>4 DEF Lockers!Next
  <2> QED BY <2>4, <2>5
<1> QED BY <1>1, <1>2 DEF Check

(* A process closes the file.                                               *)
LEMMA GateLeave ==
  ASSUME TypeOK, LockOK, NEW p \in Procs, Close(p), pending' = pending
  PROVE  [Lockers!Next]_(Lockers!vars)
<1>1. pc'[p] = "idle" /\ \A q \in Procs : q # p => pc'[q] = pc[q] BY DEF Close, Goto, TypeOK
<1>2. CASE p \in Commands
  <2>1. Mutating' = Mutating \ {p} BY <1>1, <1>2 DEF Mutating, Inside, Procs
  <2>2. Removing' = Removing BY <1>1, <1>2 DEF Removing, Procs
  <2>3. Lockers!Leave(p) BY <2>1, <2>2 DEF Lockers!Leave, Mutating, Removing
  <2> QED BY <2>3 DEF Lockers!Next
<1>3. CASE p \in Removers
  <2>1. Mutating' = Mutating BY <1>1, <1>3 DEF Mutating, Procs
  <2>2. Removing' = Removing \ {p} BY <1>1, <1>3 DEF Removing, Procs
  <2>3. Lockers!End(p) BY <2>1, <2>2 DEF Lockers!End, Mutating, Removing
  <2> QED BY <2>3 DEF Lockers!Next
<1> QED BY <1>2, <1>3 DEF Procs

(* A remover goes on.                                                       *)
LEMMA GateWorks ==
  ASSUME TypeOK, LockOK, NEW r \in Removers, pc[r] \in Working, pc'[r] \in Working,
         \A q \in Procs : q # r => pc'[q] = pc[q],
         pending' \in {pending, TRUE, FALSE}
  PROVE  [Lockers!Next]_(Lockers!vars)
<1>1. r \in Removing BY DEF Removing
<1>2. Mutating' = Mutating BY DEF Mutating, Procs
<1>3. Removing' = Removing BY DEF Removing, Procs
<1>4. CASE pending' = pending
  BY <1>2, <1>3, <1>4 DEF Lockers!vars, Mutating, Removing
<1>5. CASE pending' = TRUE
  <2>1. Lockers!Mark(r) BY <1>1, <1>2, <1>3, <1>5 DEF Lockers!Mark, Mutating, Removing
  <2> QED BY <2>1 DEF Lockers!Next, Procs
<1>6. CASE pending' = FALSE
  <2>1. Lockers!Complete(r) BY <1>1, <1>2, <1>3, <1>6 DEF Lockers!Complete, Mutating, Removing
  <2> QED BY <2>1 DEF Lockers!Next, Procs
<1> QED BY <1>4, <1>5, <1>6

LEMMA GateRemoval ==
  ASSUME Inv, NEW r \in Removers, Removal(r)
  PROVE  [Lockers!Next]_(Lockers!vars)
<1> r \in Procs BY DEF Procs
<1>0. TypeOK /\ LockOK /\ RemoverOK BY DEF Inv
<1>1. CASE Drop(r) BY <1>0, <1>1, GateLeave DEF Drop
<1>2. CASE Unlock(r)
  <2>1. pc[r] = "unlock" /\ pc'[r] = "close" /\ pending' = pending /\ \A q \in Procs : q # r => pc'[q] = pc[q]
    BY <1>0, <1>2 DEF Unlock, At, Goto, TypeOK
  <2>2. Mutating' = Mutating BY <2>1 DEF Mutating, Procs
  <2>3. Removing' = Removing \ {r} BY <2>1 DEF Removing, Procs
  <2>4. Lockers!End(r) BY <2>1, <2>2, <2>3 DEF Lockers!End, Mutating, Removing
  <2> QED BY <2>4 DEF Lockers!Next
<1>3. CASE Close(r) /\ ~Drop(r)
  <2>1. pending' = pending
    <3>1. CASE Mark(r)
      <4>1. pc[r] = "mark" /\ pending' BY <3>1 DEF Mark, At
      <4>2. pc'[r] = "idle" BY <1>0, <1>3 DEF Close, Goto, TypeOK
      <4>3. Saved(r) BY <3>1 DEF Mark
      <4>4. round # "first" BY <1>0, <4>2, <4>3 DEF Saved, Goto, TypeOK
      <4>5. pending BY <1>0, <4>1, <4>4 DEF RemoverOK, Keeps
      <4> QED BY <4>1, <4>5, <1>0 DEF TypeOK, Mark, Inv
    <3>2. CASE Unmark(r)
      <4>1. pc'[r] = "idle" BY <1>0, <1>3 DEF Close, Goto, TypeOK
      <4>2. pc'[r] = "unlock" BY <1>0, <3>2 DEF Unmark, Goto, TypeOK
      <4> QED BY <4>1, <4>2
    <3> QED BY <1>3, <3>1, <3>2
         DEF Removal, Plan, Refresh, Restore, Rejournal, Begin, Stop, Unregister, Unlist, DataGone, Update,
             Credentials, Cleaned, FilesGone, LinksGone, Finish, Journal, JournalLock, Ledger, RemoveBinary,
             Unlock, Drop, Fail, Delete, Deleted, Clean
  <2> QED BY <1>0, <1>3, <2>1, GateLeave
<1>4. CASE ~Drop(r) /\ ~Unlock(r) /\ ~Close(r)
  <2>1. pc[r] \in Working
    BY <1>4 DEF Removal, Plan, Refresh, Mark, Restore, Rejournal, Begin, Stop, Unregister, Unlist, DataGone,
         Credentials, Cleaned, FilesGone, LinksGone, Finish, Journal, JournalLock, Ledger, RemoveBinary,
         Unmark, Fail, FailEnd, FailStopping, FailDeleting, FailCredentials, FailLast, Delete, Deleted, Clean,
         Turn, At
  <2>2. pc'[r] \in Working /\ \A q \in Procs : q # r => pc'[q] = pc[q]
    <3>1. CASE Plan(r) \/ Refresh(r) \/ Mark(r) \/ Restore(r) \/ Rejournal(r) \/ Begin(r)
      BY <1>0, <1>4, <3>1 DEF Plan, Refresh, Mark, Saved, Restore, Rejournal, Begin, Goto, TypeOK
    <3>2. CASE \/ Stop(r) \/ Unregister(r) \/ Unlist(r) \/ DataGone(r) \/ Credentials(r)
               \/ \E t \in Things : Delete(r, t) \/ Deleted(r, t)
      BY <1>0, <2>1, <3>2 DEF Stop, Unregister, Unlist, DataGone, Credentials, Report, Delete, Deleted, Goto, TypeOK
    <3>3. CASE Cleaned(r) \/ FilesGone(r) \/ LinksGone(r) \/ \E f \in Files : Clean(r, f)
      BY <1>0, <2>1, <3>3 DEF Cleaned, FilesGone, LinksGone, Report, Clean, Goto, TypeOK
    <3>4. CASE Finish(r) \/ Journal(r) \/ JournalLock(r) \/ Ledger(r) \/ RemoveBinary(r) \/ Unmark(r)
      BY <1>0, <3>4 DEF Finish, Journal, JournalLock, Ledger, RemoveBinary, Unmark, GiveBack, Goto, TypeOK
    <3>5. CASE Fail(r)
      BY <1>0, <1>4, <2>1, <3>5 DEF Fail, FailEnd, FailStopping, FailDeleting, FailCredentials, FailLast, Report,
           Goto, TypeOK
    <3> QED BY <1>4, <3>1, <3>2, <3>3, <3>4, <3>5 DEF Removal
  <2>3. pending' \in {pending, TRUE, FALSE}
    BY <1>4 DEF Removal, Plan, Refresh, Mark, Restore, Rejournal, Begin, Stop, Unregister, Unlist, DataGone, Update,
         Credentials, Cleaned, FilesGone, LinksGone, Finish, Journal, JournalLock, Ledger, RemoveBinary,
         Unmark, Fail, Delete, Deleted, Clean
  <2> QED BY <1>0, <2>1, <2>2, <2>3, GateWorks
<1> QED BY <1>1, <1>2, <1>3, <1>4

LEMMA GateStep == Inv /\ [Next]_vars => [Lockers!Next]_(Lockers!vars)
<1> SUFFICES ASSUME Inv, [Next]_vars PROVE [Lockers!Next]_(Lockers!vars) OBVIOUS
<1>0. TypeOK /\ LockOK BY DEF Inv
<1>1. ASSUME NEW p \in Procs, Open(p) \/ Lock(p) PROVE [Lockers!Next]_(Lockers!vars)
  <2>1. /\ pc[p] \in {"idle", "wait"} /\ pc'[p] \in {"wait", "check"} /\ pending' = pending
        /\ \A q \in Procs : q # p => pc'[q] = pc[q]
    BY <1>0, <1>1 DEF Open, Lock, Goto, TypeOK
  <2> QED BY <2>1, GateStutter DEF Inside
<1>2. ASSUME NEW p \in Procs, GiveUp(p) \/ Crash(p) PROVE [Lockers!Next]_(Lockers!vars)
  BY <1>0, <1>2, GateLeave DEF GiveUp, Crash
<1>3. ASSUME NEW p \in Procs, Guard(p) \/ Record(p) PROVE [Lockers!Next]_(Lockers!vars)
  BY <1>3, GateStutter DEF Guard, Record
<1>4. ASSUME NEW c \in Commands, Command(c) PROVE [Lockers!Next]_(Lockers!vars)
  <2>1. CASE Leave(c) BY <1>0, <2>1, GateLeave DEF Leave, Procs
  <2>2. CASE Configure(c) \/ Serve(c) \/ \E d \in Data : Install(c, d)
    BY <2>2, GateStutter DEF Configure, Serve, Install
  <2>3. CASE Login(c) \/ Store(c)
    <3>1. /\ pc[c] \in Inside /\ pc'[c] \in Inside /\ pending' = pending
          /\ \A q \in Procs : q # c => pc'[q] = pc[q]
      BY <1>0, <2>3 DEF Login, Store, At, Goto, TypeOK, Inside, Procs
    <3> QED BY <3>1, GateStutter DEF Inside
  <2> QED BY <1>4, <2>1, <2>2, <2>3 DEF Command
<1>5. CASE DaemonDies \/ UNCHANGED vars
  <2>1. pc' = pc /\ pending' = pending BY <1>5 DEF DaemonDies, vars
  <2> QED BY <2>1, GateStutter
<1> QED BY <1>0, <1>1, <1>2, <1>3, <1>4, <1>5, GateEnter, GateRemoval DEF Next

(* Mutations exclude removals of ripmcp, removals each other, and none      *)
(* begins while a removal is incomplete (storage/maintenance.rs).           *)
THEOREM Fenced == Spec => FencesMutations
<1>1. Init => Lockers!Init BY GateInit
<1>2. Inv /\ [Next]_vars => [Lockers!Next]_(Lockers!vars) BY GateStep
<1> QED BY <1>1, <1>2, InvCorrect, PTL DEF Spec, FencesMutations, Lockers!Spec
=============================================================================
