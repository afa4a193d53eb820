------------------------- MODULE RegistrationProofs -------------------------
(* The properties of Registration for any number of commands,               *)
(* installations, definitions and contents of config.json.                  *)
EXTENDS Registration, FiniteSetTheorems, TLAPS

(* One command holds the lock of config.json; a removal is alone in the     *)
(* daemon.                                                                  *)
LocksOK ==
    /\ \A r, s \in Requests : pc[r] \in Locking /\ pc[s] \in Locking => r = s
    /\ \A r, s \in Requests : pc[r] \in Removing /\ pc[s] \in Daemon => r = s

(* An entry has a writer, and the records of registered installations are   *)
(* prepared.                                                                *)
FilesOK ==
    /\ by = None <=> config.package = None
    /\ \A i \in Registered : journal[i].resolved

Unpublished == {"begin", "register", "commit"} \cup Staging
Begun       == {"rollback"} \cup Staging \cup Committing

(* What an installation knows at each step of its files.                    *)
InstallOK(r) ==
    /\ pc[r] \in Installing => job[r].package \in Packages
    /\ pc[r] \in Slotted => job[r].previous \in Configs
    /\ pc[r] \in Unpublished => config.package = None
    /\ pc[r] \in Begun =>
          /\ job[r].id \in Ids /\ journal[job[r].id] # None
          /\ journal[job[r].id].kind = "install"
          /\ journal[job[r].id].state # "committed"
          /\ journal[job[r].id].package = job[r].package
    /\ pc[r] \in {"prepared", "verify", "discover"} \cup Committing => job[r].resolved
    /\ pc[r] \in {"commit", "finish"} => journal[job[r].id].registered
    /\ pc[r] \in {"begin", "resolve", "prepare", "prepared", "verify"} => running = None
    /\ pc[r] = "finish" => config.package # None
    /\ pc[r] \in {"finish", "rollback"} /\ config.package # None =>
          by = job[r].id /\ job[r].resolved /\ config.package = job[r].package

(* What a removal knows: the record it is about is that of the entry, which *)
(* is the one that was previewed.                                           *)
RemovalOK(r) ==
    /\ pc[r] \in Removing /\ job[r].id # None => journal[job[r].id] # None
    /\ pc[r] \in {"uninstall", "begin_uninstall", "apply"} /\ config.package # None =>
          /\ job[r].seen = by
          /\ journal[by].registered => job[r].id = by
          /\ job[r].id # None => journal[job[r].id].registered
    /\ pc[r] \in {"apply", "unregister", "finish_uninstall"} /\ job[r].id # None =>
          journal[job[r].id].kind # "install"
    /\ pc[r] = "unregister" => config.package = None

(* While an approved plan waits, a later entry has a record that the plan   *)
(* does not know, and no record it knows disappears.                        *)
ApprovedOK(r) ==
    pc[r] = "approved" =>
        /\ job[r].previous \in Configs /\ job[r].plan \in Journals
        /\ \A i \in Ids : job[r].plan[i] # None => journal[i] # None
        /\ job[r].previous.package # None =>
              /\ by \in {None, job[r].seen} \/ job[r].plan[by] = None
              /\ \A s \in Requests :
                    pc[s] \in Unpublished \ {"begin"} => job[r].plan[job[s].id] = None

(* The lock of config.json keeps the entry as it was read.                  *)
MutateOK(r) ==
    pc[r] = "mutating" =>
        job[r].previous \in Configs /\ job[r].previous.package = config.package

RequestOK(r) == InstallOK(r) /\ RemovalOK(r) /\ ApprovedOK(r) /\ MutateOK(r)

(* The entry, its records and its process.                                  *)
RecordsOK == FilesOK /\ IntentDurable /\ CommittedConfigured

Inv ==
    /\ LocksOK /\ RecordsOK /\ RunningConfigured
    /\ \A r \in Requests : RequestOK(r)

----------------------------------------------------------------------------
(* Types.                                                                   *)

LEMMA NewJobType ==
  ASSUME NEW op \in Operations, NEW p \in Packages \cup {None}, NEW v \in BOOLEAN,
         NEW c \in Configs \cup {None}, NEW j \in Journals \cup {None},
         NEW i \in Ids \cup {None}
  PROVE  /\ NewJob(op, p, v, c, j, i) \in Jobs
         /\ NewJob(op, p, v, c, j, i).op = op
         /\ NewJob(op, p, v, c, j, i).package = p
         /\ NewJob(op, p, v, c, j, i).id = None
         /\ NewJob(op, p, v, c, j, i).previous = c
         /\ NewJob(op, p, v, c, j, i).plan = j
         /\ NewJob(op, p, v, c, j, i).seen = i
BY DEF NewJob, Jobs

LEMMA NoJobType == NoJob \in Jobs
BY NewJobType DEF NoJob, Operations

LEMMA JobFacts ==
  ASSUME NEW j \in Jobs, NEW i \in Ids \cup {None}, NEW plan \in Journals
  PROVE  /\ [j EXCEPT !.id = i] \in Jobs
         /\ [j EXCEPT !.id = i, !.plan = plan] \in Jobs
BY DEF Jobs

LEMMA ResolvedJob == \A j \in Jobs : [j EXCEPT !.resolved = TRUE] \in Jobs
BY DEF Jobs

(* The ends of the steps.                                                   *)
LEMMA GotoFacts ==
  ASSUME TypeOK, NEW r \in Requests, NEW step \in Steps, Goto(r, step)
  PROVE  /\ pc' \in [Requests -> Steps] /\ job' \in [Requests -> Jobs]
         /\ job' = job /\ pc'[r] = step
         /\ \A s \in Requests \ {r} : pc'[s] = pc[s]
BY DEF TypeOK, Goto

LEMMA EndFacts ==
  ASSUME TypeOK, NEW r \in Requests, End(r)
  PROVE  /\ pc' \in [Requests -> Steps] /\ job' \in [Requests -> Jobs]
         /\ pc'[r] = "idle"
         /\ \A s \in Requests \ {r} : pc'[s] = pc[s] /\ job'[s] = job[s]
BY NoJobType DEF TypeOK, End, Steps

LEMMA FailedFacts ==
  ASSUME TypeOK, NEW r \in Requests, Failed(r)
  PROVE  /\ pc' \in [Requests -> Steps] /\ job' \in [Requests -> Jobs]
         /\ pc'[r] = "finish_uninstall" /\ job'[r].id = job[r].id
         /\ \A s \in Requests \ {r} : pc'[s] = pc[s] /\ job'[s] = job[s]
BY DEF TypeOK, Failed, Steps, Daemon, Removing, Jobs

LEMMA SavedFacts ==
  ASSUME TypeOK, NEW i \in Ids, NEW record \in Installations,
         Saved(i, record) \/ SaveFailed(i, record)
  PROVE  /\ journal' \in Journals
         /\ journal'[i] \in {journal[i], record}
         /\ Saved(i, record) => journal'[i] = record
         /\ \A k \in Ids \ {i} : journal'[k] = journal[k]
BY DEF TypeOK, Saved, SaveFailed, Journals

LEMMA ConfigFacts ==
  ASSUME NEW c \in Configs, NEW o \in Others, NEW p \in Packages
  PROVE  /\ [c EXCEPT !.other = o] \in Configs
         /\ [c EXCEPT !.other = o].package = c.package
         /\ [c EXCEPT !.package = None] \in Configs
         /\ [c EXCEPT !.package = None].package = None
         /\ [c EXCEPT !.package = None].other = c.other
BY DEF Configs

LEMMA RecordFacts ==
  ASSUME TypeOK, NEW r \in Requests, InstallOK(r), pc[r] \in Slotted,
         NEW b \in BOOLEAN, NEW state \in States
  PROVE  /\ Intended(r) \in Configs
         /\ Intended(r).package = job[r].package
         /\ Intended(r).other = job[r].previous.other
         /\ Record(r, b, state) \in Installations
         /\ Record(r, b, state).registered = b
         /\ Record(r, b, state).state = state
         /\ Record(r, b, state).kind = "install"
         /\ Record(r, b, state).package = job[r].package
         /\ Record(r, b, state).resolved = job[r].resolved
<1>1. job[r].package \in Packages /\ job[r].previous \in Configs
  BY DEF InstallOK, Installing
<1>2. job[r].resolved \in BOOLEAN
  BY DEF TypeOK, Jobs
<1> QED
  BY <1>1, <1>2 DEF Record, Intended, Installations, Configs, Kinds

LEMMA RemovalFacts ==
  ASSUME NEW old \in Installations, NEW kind \in Kinds, NEW state \in States
  PROVE  /\ [old EXCEPT !.kind = kind, !.state = state] \in Installations
         /\ [old EXCEPT !.kind = kind, !.state = state].kind = kind
         /\ [old EXCEPT !.kind = kind, !.state = state].registered = old.registered
         /\ [old EXCEPT !.kind = kind, !.state = state].package = old.package
         /\ [old EXCEPT !.kind = kind, !.state = state].resolved = old.resolved
         /\ [old EXCEPT !.registered = FALSE] \in Installations
         /\ [old EXCEPT !.registered = FALSE].registered = FALSE
         /\ [old EXCEPT !.registered = FALSE].kind = old.kind
         /\ [old EXCEPT !.state = state] \in Installations
         /\ [old EXCEPT !.state = state].kind = old.kind
         /\ [old EXCEPT !.state = state].registered = old.registered
         /\ [old EXCEPT !.state = state].package = old.package
         /\ [old EXCEPT !.state = state].resolved = old.resolved
BY DEF Installations
(* The record an installation is about is there.                            *)
LEMMA BegunFacts ==
  ASSUME TypeOK, NEW r \in Requests, InstallOK(r), pc[r] \in Begun
  PROVE  pc[r] \in Slotted /\ job[r].id \in Ids /\ journal[job[r].id] \in Installations
BY DEF TypeOK, Journals, InstallOK, Begun, Slotted, Staging, Committing

LEMMA SaveFacts ==
  ASSUME TypeOK, NEW r \in Requests, InstallOK(r), pc[r] \in Begun,
         NEW b \in BOOLEAN, NEW state \in States, NEW next \in Steps, NEW failed \in Steps,
         Save(r, Record(r, b, state), next, failed)
  PROVE  /\ journal' \in Journals /\ job' = job
         /\ pc' \in [Requests -> Steps] /\ pc'[r] \in {next, failed}
         /\ \A s \in Requests \ {r} : pc'[s] = pc[s]
         /\ \A k \in Ids \ {job[r].id} : journal'[k] = journal[k]
         /\ journal'[job[r].id] \in {journal[job[r].id], Record(r, b, state)}
         /\ pc'[r] = failed \/ journal'[job[r].id] = Record(r, b, state)
<1>1. job[r].id \in Ids /\ Record(r, b, state) \in Installations
  BY BegunFacts, RecordFacts
<1>2. CASE Saved(job[r].id, Record(r, b, state)) /\ Goto(r, next)
  BY <1>1, <1>2, SavedFacts, GotoFacts
<1>3. CASE SaveFailed(job[r].id, Record(r, b, state)) /\ Goto(r, failed)
  BY <1>1, <1>3, SavedFacts, GotoFacts
<1> QED
  BY <1>2, <1>3 DEF Save

LEMMA StepNames ==
  /\ Staging \cup Committing \cup Slotted \cup Installing \cup Removing \cup Daemon
       \cup Locking \cup Begun \cup Unpublished \cup {"idle", "approved"} \subseteq Steps
  /\ Begun \subseteq Slotted /\ Unpublished \subseteq Slotted
  /\ Slotted \subseteq Locking /\ Slotted \subseteq Installing
  /\ {"prepared", "applying", "committed", "retry_required"} \subseteq States
BY DEF Staging, Committing, Slotted, Installing, Removing, Daemon, Locking, Begun,
       Unpublished, Steps, States

LEMMA InstallTypes ==
  ASSUME TypeOK, NEW r \in Requests, InstallOK(r), InstallStep(r)
  PROVE  TypeOK'
<1> USE StepNames
<1>1. CASE Install(r)
  <2>1. PICK p \in Packages, v \in BOOLEAN :
          job' = [job EXCEPT ![r] = NewJob("install", p, v, None, None, None)]
    BY <1>1 DEF Install
  <2>2. NewJob("install", p, v, None, None, None) \in Jobs
    BY NewJobType DEF Operations
  <2> QED
    BY <1>1, <2>1, <2>2 DEF Install, TypeOK, files, Steps, Daemon, Installing
<1>2. CASE Lock(r)
  <2>1. CASE End(r)
    BY <1>2, <2>1, EndFacts DEF Lock, TypeOK, files
  <2>2. CASE ~End(r)
    <3>1. job' \in [Requests -> Jobs]
      BY <1>2, <2>2 DEF Lock, TypeOK, Jobs
    <3> QED
      BY <1>2, <2>2, <3>1 DEF Lock, TypeOK, files, Slotted
  <2> QED
    BY <2>1, <2>2
<1>3. CASE Begin(r)
  <2>1. pc[r] \in Slotted
    BY <1>3 DEF Begin, Slotted
  <2>2. Record(r, FALSE, "prepared") \in Installations
    BY <2>1, RecordFacts
  <2>3. CASE UNCHANGED journal /\ End(r)
    BY <1>3, <2>3, EndFacts DEF Begin, TypeOK
  <2>4. CASE ~(UNCHANGED journal /\ End(r))
    <3>1. PICK i \in Ids :
            LET record == Record(r, FALSE, "prepared") IN
            \/ /\ Saved(i, record)
               /\ job' = [job EXCEPT ![r].id = i]
               /\ pc' = [pc EXCEPT ![r] = "resolve"]
            \/ SaveFailed(i, record) /\ End(r)
      BY <1>3, <2>4 DEF Begin
    <3>2. journal' \in Journals
      BY <2>2, <3>1, SavedFacts
    <3>3. CASE End(r)
      BY <1>3, <3>2, <3>3, EndFacts DEF Begin, TypeOK
    <3>4. CASE ~End(r)
      <4>1. job' = [job EXCEPT ![r].id = i]
        BY <3>1, <3>4
      <4>2. job' \in [Requests -> Jobs]
        BY <4>1 DEF TypeOK, Jobs
      <4> QED
        BY <1>3, <3>1, <3>2, <3>4, <4>2 DEF Begin, TypeOK, Staging
    <3> QED
      BY <3>3, <3>4
  <2> QED
    BY <2>3, <2>4
<1>4. CASE Resolve(r)
  <2>1. pc[r] \in Begun
    BY <1>4 DEF Resolve, Begun, Staging
  <2>2. CASE Save(r, Record(r, FALSE, "applying"), "prepare", "rollback")
    BY <1>4, <2>1, <2>2, SaveFacts DEF Resolve, TypeOK, Staging, Slotted
  <2>3. CASE Goto(r, "rollback") /\ UNCHANGED journal
    BY <1>4, <2>3, GotoFacts DEF Resolve, TypeOK, Slotted
  <2> QED
    BY <1>4, <2>2, <2>3 DEF Resolve
<1>5. CASE Prepare(r)
  <2>1. CASE Goto(r, "rollback")
    BY <1>5, <2>1, GotoFacts DEF Prepare, TypeOK, files, Slotted
  <2>2. CASE ~Goto(r, "rollback")
    <3>1. job' = [job EXCEPT ![r].resolved = TRUE]
      BY <1>5, <2>2 DEF Prepare
    <3>2. [job[r] EXCEPT !.resolved = TRUE] \in Jobs
      BY ResolvedJob DEF TypeOK
    <3>3. job' = [job EXCEPT ![r] = [job[r] EXCEPT !.resolved = TRUE]]
      BY <3>1 DEF TypeOK
    <3>4. job' \in [Requests -> Jobs]
      BY <3>2, <3>3 DEF TypeOK
    <3> QED
      BY <1>5, <2>2, <3>4 DEF Prepare, TypeOK, files, Slotted, Staging
  <2> QED
    BY <2>1, <2>2
<1>6. CASE Prepared(r)
  <2>1. pc[r] \in Begun
    BY <1>6 DEF Prepared, Begun, Staging
  <2> QED
    BY <1>6, <2>1, SaveFacts DEF Prepared, TypeOK, Staging, Slotted
<1>7. CASE Verify(r)
  <2>1. job[r].id \in Ids
    BY <1>7, BegunFacts DEF Verify, Begun, Staging
  <2>2. \E step \in {"discover", "register", "rollback"} : Goto(r, step)
    BY <1>7 DEF Verify
  <2>3. pc' \in [Requests -> Steps] /\ job' \in [Requests -> Jobs]
    BY <2>2, GotoFacts DEF Staging, Committing, Slotted
  <2> QED
    BY <1>7, <2>1, <2>3 DEF Verify, TypeOK, files
<1>8. CASE Discover(r)
  BY <1>8, GotoFacts DEF Discover, TypeOK, files, Committing, Slotted
<1>9. CASE Register(r)
  <2>1. pc[r] \in Begun
    BY <1>9 DEF Register, Begun, Committing
  <2> QED
    BY <1>9, <2>1, SaveFacts DEF Register, TypeOK, Committing, Slotted
<1>10. CASE Commit(r)
  <2>1. job[r].id \in Ids /\ Intended(r) \in Configs
    BY <1>10, BegunFacts, RecordFacts DEF Commit, Begun, Committing, States
  <2>2. \E step \in {"finish", "rollback"} : Goto(r, step)
    BY <1>10 DEF Commit
  <2>3. pc' \in [Requests -> Steps] /\ job' \in [Requests -> Jobs]
    BY <2>2, GotoFacts DEF Committing, Slotted
  <2> QED
    BY <1>10, <2>1, <2>3 DEF Commit, TypeOK
<1>11. CASE Finish(r)
  <2>1. job[r].id \in Ids /\ Record(r, TRUE, "committed") \in Installations
    BY <1>11, BegunFacts, RecordFacts DEF Finish, Begun, Committing
  <2>2. journal' \in Journals
    BY <1>11, <2>1, SavedFacts DEF Finish
  <2> QED
    BY <1>11, <2>2, EndFacts DEF Finish, TypeOK
<1>12. CASE Rollback(r)
  <2>1. job[r].id \in Ids /\ Record(r, FALSE, "retry_required") \in Installations
    BY <1>12, BegunFacts, RecordFacts DEF Rollback, Begun
  <2>2. journal' \in Journals
    BY <1>12, <2>1, SavedFacts DEF Rollback
  <2> QED
    BY <1>12, <2>2, EndFacts DEF Rollback, TypeOK
<1> QED
  BY <1>1, <1>2, <1>3, <1>4, <1>5, <1>6, <1>7, <1>8, <1>9, <1>10, <1>11, <1>12
     DEF InstallStep

LEMMA TargetFacts ==
  Target \in Ids \cup {None} /\ (Target # None => journal[Target] # None)
<1>1. Candidates \subseteq Recorded /\ Recorded \subseteq Ids
  BY DEF Candidates, Registered, Pending, Cleaned, Recorded
<1> QED
  BY <1>1 DEF Target, Recorded

LEMMA UpdateFacts ==
  ASSUME TypeOK, NEW r \in Requests,
         NEW record, job[r].id # None => record \in Installations,
         Update(r, record) \/ UpdateFailed(r, record)
  PROVE  /\ journal' \in Journals
         /\ job[r].id = None => journal' = journal
         /\ job[r].id # None =>
               /\ journal'[job[r].id] \in {journal[job[r].id], record}
               /\ Update(r, record) => journal'[job[r].id] = record
         /\ \A k \in Ids \ {job[r].id} : journal'[k] = journal[k]
<1>1. job[r].id \in Ids \cup {None} /\ None \notin Ids
  BY NamesAssumption DEF TypeOK, Jobs
<1>2. CASE job[r].id = None
  BY <1>2 DEF Update, UpdateFailed, TypeOK
<1>3. CASE job[r].id # None
  BY <1>1, <1>3, SavedFacts DEF Update, UpdateFailed
<1> QED
  BY <1>2, <1>3

(* The record a removal is about is there, and so is what it makes of it.   *)
LEMMA RemovingFacts ==
  ASSUME TypeOK, NEW r \in Requests, RemovalOK(r), pc[r] \in Removing, job[r].id # None
  PROVE  /\ job[r].id \in Ids /\ journal[job[r].id] \in Installations
         /\ Removal(r) \in Installations
         /\ Removal(r).kind # "install"
         /\ Removal(r).registered = journal[job[r].id].registered
         /\ Removal(r).package = journal[job[r].id].package
         /\ Removal(r).resolved = journal[job[r].id].resolved
<1>1. job[r].id \in Ids /\ journal[job[r].id] \in Installations
  BY DEF TypeOK, Jobs, Journals, RemovalOK
<1> DEFINE kind == IF job[r].op = "clean" THEN "clean" ELSE "unregister"
<1>2. Removal(r) = [journal[job[r].id] EXCEPT !.kind = kind, !.state = "applying"]
  BY DEF Removal
<1>3. kind \in Kinds /\ kind # "install" /\ "applying" \in States
  BY DEF Kinds, States
<1> HIDE DEF kind
<1> QED
  BY <1>1, <1>2, <1>3 DEF Installations

LEMMA RemovalTypes ==
  ASSUME TypeOK, NEW r \in Requests, RemovalOK(r), RemovalStep(r)
  PROVE  TypeOK'
<1> USE StepNames
<1>1. CASE Preview(r)
  <2>1. PICK op \in Removals :
          job' = [job EXCEPT ![r] = NewJob(op, None, FALSE, config, journal, by)]
    BY <1>1 DEF Preview
  <2>2. NewJob(op, None, FALSE, config, journal, by) \in Jobs
    <3>1. /\ op \in Operations /\ config \in Configs \cup {None}
          /\ journal \in Journals \cup {None} /\ by \in Ids \cup {None}
      BY RemovalsAssumption DEF Operations, TypeOK
    <3> QED
      BY <3>1, NewJobType
  <2> QED
    BY <1>1, <2>1, <2>2 DEF Preview, TypeOK, files
<1>2. CASE Enter(r)
  <2>1. CASE End(r)
    BY <1>2, <2>1, EndFacts DEF Enter, TypeOK, files
  <2>2. CASE ~End(r)
    <3>1. job' = [job EXCEPT ![r].id = Target, ![r].plan = journal]
      BY <1>2, <2>2 DEF Enter
    <3>2. [job[r] EXCEPT !.id = Target, !.plan = journal] \in Jobs
      BY TargetFacts, JobFacts DEF TypeOK
    <3>3. job' = [job EXCEPT ![r] = [job[r] EXCEPT !.id = Target, !.plan = journal]]
      BY <3>1 DEF TypeOK
    <3>4. job' \in [Requests -> Jobs]
      BY <3>2, <3>3 DEF TypeOK
    <3> QED
      BY <1>2, <2>2, <3>4 DEF Enter, TypeOK, files, Removing
  <2> QED
    BY <2>1, <2>2
<1>3. CASE LockPlanned(r)
  BY <1>3, GotoFacts, EndFacts DEF LockPlanned, TypeOK, files, Removing
<1>4. CASE BeginUninstall(r)
  <2>1. pc[r] \in Removing
    BY <1>4 DEF BeginUninstall, Removing
  <2>2. journal' \in Journals
    BY <1>4, <2>1, RemovingFacts, UpdateFacts DEF BeginUninstall, TypeOK
  <2> QED
    BY <1>4, <2>2, GotoFacts, EndFacts DEF BeginUninstall, TypeOK, Removing
<1>5. CASE Apply(r)
  <2>1. pc' \in [Requests -> Steps] /\ job' \in [Requests -> Jobs]
    BY <1>5, GotoFacts, FailedFacts DEF Apply, Removing
  <2>2. config' \in Configs
    BY <1>5 DEF Apply, TypeOK, Configs
  <2> QED
    BY <1>5, <2>1, <2>2 DEF Apply, TypeOK
<1>6. CASE Unregister(r)
  <2> DEFINE record == [journal[job[r].id] EXCEPT !.registered = FALSE]
  <2>1. pc[r] \in Removing
    BY <1>6 DEF Unregister, Removing
  <2>2. job[r].id # None => record \in Installations
    BY <2>1, RemovingFacts, RemovalFacts DEF Kinds, States
  <2>3. Update(r, record) \/ UpdateFailed(r, record)
    BY <1>6 DEF Unregister
  <2>4. journal' \in Journals
    BY <2>2, <2>3, UpdateFacts
  <2>5. pc' \in [Requests -> Steps] /\ job' \in [Requests -> Jobs]
    BY <1>6, GotoFacts, FailedFacts DEF Unregister, Removing
  <2> QED
    BY <1>6, <2>4, <2>5 DEF Unregister, TypeOK
<1>7. CASE FinishUninstall(r)
  <2>1. pc[r] \in Removing
    BY <1>7 DEF FinishUninstall, Removing
  <2>2. PICK state \in {"committed", "retry_required"} :
          LET record == [journal[job[r].id] EXCEPT !.state = state] IN
          Update(r, record) \/ UpdateFailed(r, record)
    BY <1>7 DEF FinishUninstall
  <2>3. job[r].id # None => [journal[job[r].id] EXCEPT !.state = state] \in Installations
    <3>1. "clean" \in Kinds /\ state \in States
      BY DEF Kinds, States
    <3> QED
      BY <2>1, <3>1, RemovingFacts, RemovalFacts
  <2>4. journal' \in Journals
    BY <2>2, <2>3, UpdateFacts
  <2> QED
    BY <1>7, <2>4, EndFacts DEF FinishUninstall, TypeOK
<1> QED
  BY <1>1, <1>2, <1>3, <1>4, <1>5, <1>6, <1>7 DEF RemovalStep

LEMMA TypeStep == TypeOK /\ Inv /\ [Next]_vars => TypeOK'
<1> SUFFICES ASSUME TypeOK, Inv, [Next]_vars PROVE TypeOK'
  OBVIOUS
<1>1. ASSUME NEW r \in Requests, InstallStep(r) \/ RemovalStep(r) PROVE TypeOK'
  BY <1>1, InstallTypes, RemovalTypes DEF Inv, RequestOK
<1>2. ASSUME NEW r \in Requests, Mutate(r) PROVE TypeOK'
  <2>1. NewJob("mutate", None, FALSE, config, None, None) \in Jobs
    BY NewJobType DEF TypeOK, Operations
  <2> QED
    BY <1>2, <2>1 DEF Mutate, TypeOK, files, Steps
<1>3. ASSUME NEW r \in Requests, Mutated(r) PROVE TypeOK'
  <2>1. job[r].previous \in Configs
    BY <1>3 DEF Inv, RequestOK, MutateOK, Mutated
  <2>2. config' \in Configs
    BY <1>3, <2>1 DEF Mutated, TypeOK, Configs
  <2> QED
    BY <1>3, <2>2, EndFacts DEF Mutated, TypeOK
<1>4. CASE Edit
  BY <1>4 DEF Edit, TypeOK, Configs
<1>5. CASE Launch
  BY <1>5 DEF Launch, TypeOK, files
<1>6. CASE Stop
  BY <1>6 DEF Stop, TypeOK, files
<1>7. CASE Crash
  BY <1>7, NoJobType DEF Crash, TypeOK, files, Steps
<1>8. CASE UNCHANGED vars
  BY <1>8 DEF vars, TypeOK
<1> QED
  BY <1>1, <1>2, <1>3, <1>4, <1>5, <1>6, <1>7, <1>8 DEF Next

----------------------------------------------------------------------------
(* What a step of one command leaves to the others.                         *)

LEMMA LocksFrame ==
  ASSUME TypeOK, LocksOK, NEW r \in Requests,
         \A s \in Requests \ {r} : pc'[s] = pc[s],
         pc'[r] \in Locking => pc[r] \in Locking \/ LockFree,
         pc'[r] \in Daemon => pc[r] \in Daemon \/ NoWriter,
         pc'[r] \in Removing => pc[r] \in Removing \/ (NoReader /\ NoWriter)
  PROVE  LocksOK'
<1>1. ASSUME NEW a \in Requests, NEW b \in Requests, pc'[a] \in Locking, pc'[b] \in Locking
      PROVE  a = b
  BY <1>1 DEF LocksOK, LockFree
<1>2. ASSUME NEW a \in Requests, NEW b \in Requests, pc'[a] \in Removing, pc'[b] \in Daemon
      PROVE  a = b
  BY <1>2 DEF LocksOK, NoReader, NoWriter, Daemon
<1> QED
  BY <1>1, <1>2 DEF LocksOK

(* Beside a command of the daemon that has the lock there is none that goes  *)
(* on with what it knows.                                                   *)
LEMMA Alone ==
  ASSUME TypeOK, LocksOK, NEW r \in Requests, pc[r] \in Daemon, pc[r] \in Locking,
         NEW s \in Requests \ {r}
  PROVE  pc[s] \in {"idle", "approved", "target"}
<1>1. pc[s] \in Steps /\ pc[s] \notin Locking /\ pc[s] \notin Removing
  BY DEF TypeOK, LocksOK
<1> QED
  BY <1>1 DEF Steps, Daemon, Installing, Locking

LEMMA Bystander ==
  ASSUME NEW s \in Requests, InstallOK(s), pc[s] \in {"idle", "approved", "target"},
         pc'[s] = pc[s], job'[s] = job[s]
  PROVE  InstallOK(s)' /\ RemovalOK(s)' /\ MutateOK(s)'
BY DEF InstallOK, RemovalOK, MutateOK, Installing, Slotted, Staging, Committing, Unpublished,
       Begun, Removing

LEMMA Kept ==
  ASSUME NEW s \in Requests, InstallOK(s), RemovalOK(s), MutateOK(s),
         pc'[s] = pc[s], job'[s] = job[s], config'.package = config.package,
         by' = by, journal' = journal, pc[s] \in Slotted => running' \in {running, None}
  PROVE  InstallOK(s)' /\ RemovalOK(s)' /\ MutateOK(s)'
<1>1. {"begin", "resolve", "prepare", "prepared", "verify"} \subseteq Slotted
  BY DEF Slotted, Staging
<1>2. InstallOK(s)'
  BY <1>1 DEF InstallOK
<1>3. RemovalOK(s)'
  BY DEF RemovalOK
<1>4. MutateOK(s)'
  BY DEF MutateOK
<1> QED
  BY <1>2, <1>3, <1>4

(* The records only grow in number, and an entry is that of a new one.      *)
Growing ==
    /\ \A i \in Ids : journal[i] # None => journal'[i] # None
    /\ by' \in {by, None} \/ \E t \in Requests : pc[t] = "commit" /\ by' = job[t].id
    /\ \A t \in Requests : pc'[t] \in Unpublished \ {"begin"} =>
          \/ pc[t] \in Unpublished \ {"begin"} /\ job'[t].id = job[t].id
          \/ job'[t].id \in Ids /\ journal[job'[t].id] = None

LEMMA ApprovedKept ==
  ASSUME NEW s \in Requests, ApprovedOK(s), Growing, pc'[s] = pc[s], job'[s] = job[s]
  PROVE  ApprovedOK(s)'
<1> SUFFICES ASSUME pc[s] = "approved" PROVE ApprovedOK(s)'
  BY DEF ApprovedOK
<1> DEFINE plan == job[s].plan
<1>1. /\ job'[s].previous \in Configs /\ job'[s].plan \in Journals
      /\ \A i \in Ids : job'[s].plan[i] # None => journal'[i] # None
  BY DEF ApprovedOK, Growing
<1>2. ASSUME job[s].previous.package # None
      PROVE  by' \in {None, job[s].seen} \/ plan[by'] = None
  <2>1. by \in {None, job[s].seen} \/ plan[by] = None
    BY <1>2 DEF ApprovedOK
  <2>2. \A t \in Requests : pc[t] = "commit" => plan[job[t].id] = None
    BY <1>2 DEF ApprovedOK, Unpublished
  <2> QED
    BY <2>1, <2>2 DEF Growing
<1>3. ASSUME job[s].previous.package # None, NEW t \in Requests,
             pc'[t] \in Unpublished \ {"begin"}
      PROVE  plan[job'[t].id] = None
  BY <1>3 DEF ApprovedOK, Growing
<1> QED
  BY <1>1, <1>2, <1>3 DEF ApprovedOK

(* A step that leaves the entry and its records alone.                      *)
LEMMA RecordsKept ==
  ASSUME RecordsOK, config'.package = config.package, by' = by, journal' = journal
  PROVE  RecordsOK'
BY DEF RecordsOK, FilesOK, IntentDurable, CommittedConfigured, Registered

LEMMA QuietStep ==
  ASSUME TypeOK, Inv, NEW r \in Requests, journal' = journal, by' = by,
         config'.package = config.package, running' \in {running, None} \/ SlotFree,
         \A s \in Requests \ {r} : pc'[s] = pc[s] /\ job'[s] = job[s],
         pc'[r] \in Unpublished \ {"begin"} =>
             pc[r] \in Unpublished \ {"begin"} /\ job'[r].id = job[r].id
  PROVE  RecordsOK' /\ Growing /\ \A s \in Requests \ {r} : RequestOK(s)'
<1>1. Growing
  BY DEF Growing
<1>2. ASSUME NEW s \in Requests \ {r} PROVE RequestOK(s)'
  <2>1. InstallOK(s) /\ RemovalOK(s) /\ MutateOK(s) /\ ApprovedOK(s)
    BY DEF Inv, RequestOK
  <2>2. pc[s] \in Slotted => running' \in {running, None}
    BY DEF SlotFree
  <2> QED
    BY <1>1, <2>1, <2>2, Kept, ApprovedKept DEF RequestOK
<1> QED
  BY <1>1, <1>2, RecordsKept DEF Inv

LEMMA LockedStep ==
  ASSUME TypeOK, Inv, NEW r \in Requests, pc[r] \in Daemon, pc[r] \in Locking, Growing,
         \A s \in Requests \ {r} : pc'[s] = pc[s] /\ job'[s] = job[s]
  PROVE  \A s \in Requests \ {r} : RequestOK(s)'
<1> SUFFICES ASSUME NEW s \in Requests \ {r} PROVE RequestOK(s)'
  OBVIOUS
<1>1. pc[s] \in {"idle", "approved", "target"}
  BY Alone DEF Inv
<1>2. InstallOK(s) /\ ApprovedOK(s)
  BY DEF Inv, RequestOK
<1> QED
  BY <1>1, <1>2, Bystander, ApprovedKept DEF RequestOK

(* Of a command that ends, or has only asked, nothing is required.          *)
LEMMA IdleOK ==
  ASSUME NEW r \in Requests, pc'[r] = "idle"
  PROVE  RequestOK(r)'
BY DEF RequestOK, InstallOK, RemovalOK, ApprovedOK, MutateOK, Installing, Slotted, Staging,
       Committing, Unpublished, Begun, Removing

----------------------------------------------------------------------------
(* Steps that only move a command on.                                       *)

LEMMA InstallInv ==
  ASSUME TypeOK, Inv, NEW r \in Requests, Install(r)
  PROVE  Inv'
<1> USE StepNames
<1>1. /\ pc'[r] = "target" /\ job'[r].package \in Packages
      /\ \A s \in Requests \ {r} : pc'[s] = pc[s] /\ job'[s] = job[s]
  BY DEF Install, TypeOK, NewJob
<1>2. journal' = journal /\ config' = config /\ by' = by /\ running' = running /\ NoWriter
  BY DEF Install, files
<1>3. LocksOK'
  BY <1>1, <1>2, LocksFrame DEF Inv, Locking, Slotted, Staging, Committing, Removing
<1>4. RecordsOK' /\ \A s \in Requests \ {r} : RequestOK(s)'
  BY <1>1, <1>2, QuietStep DEF Unpublished, Staging
<1>5. RequestOK(r)'
  BY <1>1 DEF RequestOK, InstallOK, RemovalOK, ApprovedOK, MutateOK, Installing, Slotted,
              Staging, Committing, Unpublished, Begun, Removing
<1>6. RunningConfigured'
  BY <1>1, <1>2 DEF Inv, RunningConfigured, SlotFree, Install, Slotted, Staging, Committing
<1> QED
  BY <1>3, <1>4, <1>5, <1>6 DEF Inv

(* A command that ends, with no effect.                                     *)
LEMMA EndInv ==
  ASSUME TypeOK, Inv, NEW r \in Requests, End(r), UNCHANGED <<files, running, by>>,
         running = None \/ pc[r] \notin Slotted
  PROVE  Inv'
<1>1. /\ pc'[r] = "idle"
      /\ \A s \in Requests \ {r} : pc'[s] = pc[s] /\ job'[s] = job[s]
  BY EndFacts
<1>2. journal' = journal /\ config' = config /\ by' = by /\ running' = running
  BY DEF files
<1>3. LocksOK'
  BY <1>1, LocksFrame DEF Inv, Locking, Daemon, Installing, Slotted, Staging, Committing,
                          Removing
<1>4. RecordsOK' /\ \A s \in Requests \ {r} : RequestOK(s)'
  BY <1>1, <1>2, QuietStep DEF Unpublished, Staging
<1>5. RunningConfigured'
  BY <1>1, <1>2 DEF Inv, RunningConfigured, SlotFree
<1> QED
  BY <1>1, <1>3, <1>4, <1>5, IdleOK DEF Inv

LEMMA LockInv ==
  ASSUME TypeOK, Inv, NEW r \in Requests, Lock(r)
  PROVE  Inv'
<1> USE StepNames
<1>1. CASE End(r)
  BY <1>1, EndInv DEF Lock, Slotted, Staging, Committing
<1>2. CASE ~End(r)
  <2>1. /\ pc'[r] = "begin" /\ pc[r] = "target" /\ LockFree /\ config.package = None
        /\ job'[r].previous = config /\ job'[r].package = job[r].package
        /\ \A s \in Requests \ {r} : pc'[s] = pc[s] /\ job'[s] = job[s]
    BY <1>2 DEF Lock, TypeOK, Jobs
  <2>2. journal' = journal /\ config' = config /\ by' = by /\ running' = running
    BY DEF Lock, files
  <2>3. LocksOK'
    BY <2>1, LocksFrame DEF Inv, Daemon, Installing, Removing
  <2>4. RecordsOK' /\ \A s \in Requests \ {r} : RequestOK(s)'
    BY <2>1, <2>2, QuietStep DEF Unpublished
  <2>5. running = None
    BY <2>1 DEF Inv, RunningConfigured, SlotFree, LockFree
  <2>6. job[r].package \in Packages /\ config \in Configs
    BY <2>1 DEF Inv, RequestOK, InstallOK, Installing, TypeOK
  <2>7. RequestOK(r)'
    BY <2>1, <2>2, <2>5, <2>6
       DEF RequestOK, InstallOK, RemovalOK, ApprovedOK, MutateOK, Staging, Committing, Begun,
           Removing
  <2>8. RunningConfigured'
    BY <2>2, <2>5 DEF RunningConfigured
  <2> QED
    BY <2>3, <2>4, <2>7, <2>8 DEF Inv
<1> QED
  BY <1>1, <1>2

(* An installation whose entry is not written goes on, its record saved or   *)
(* not.                                                                     *)
Going(r) ==
    /\ pc[r] \in Unpublished \ {"begin"}
    /\ pc'[r] \in (Unpublished \ {"begin", "resolve"}) \cup {"rollback"}
    /\ job'[r].id = job[r].id /\ job'[r].package = job[r].package
    /\ job'[r].previous = job[r].previous
    /\ pc'[r] \in {"prepared", "verify", "discover"} \cup Committing => job'[r].resolved
    /\ \A s \in Requests \ {r} : pc'[s] = pc[s] /\ job'[s] = job[s]
    /\ config' = config /\ by' = by
    /\ pc'[r] \in {"prepare", "prepared", "verify"} => running' = None

Keeping(r) ==
    LET record == journal'[job[r].id] IN
    /\ \A k \in Ids \ {job[r].id} : journal'[k] = journal[k]
    /\ record # None /\ record.kind = "install" /\ record.state # "committed"
    /\ record.package = job[r].package
    /\ record.registered => record.resolved
    /\ pc'[r] = "commit" => record.registered

LEMMA GoInv ==
  ASSUME TypeOK, Inv, NEW r \in Requests, Going(r), Keeping(r)
  PROVE  Inv'
<1>1. /\ pc[r] \in Begun /\ pc[r] \in Slotted /\ pc[r] \in Daemon /\ pc[r] \in Locking
      /\ pc'[r] \in Begun /\ pc'[r] \in Slotted /\ pc'[r] \notin Removing
      /\ pc'[r] \notin {"begin", "finish", "approved", "mutating"}
  BY DEF Going, Unpublished, Begun, Slotted, Daemon, Installing, Locking, Staging, Committing,
         Removing
<1>2. job[r].id \in Ids /\ InstallOK(r) /\ config.package = None
  BY <1>1 DEF Inv, RequestOK, InstallOK, Going
<1>3. LocksOK'
  BY <1>1, LocksFrame DEF Inv, Going
<1>4. Growing
  BY <1>2 DEF Growing, Going, Keeping
<1>5. \A s \in Requests \ {r} : RequestOK(s)'
  BY <1>1, <1>4, LockedStep DEF Going
<1>6. RecordsOK'
  <2>1. FilesOK'
    BY <1>2 DEF Inv, RecordsOK, FilesOK, Registered, Going, Keeping
  <2>2. IntentDurable'
    BY <1>2 DEF IntentDurable, Going
  <2>3. CommittedConfigured'
    BY <1>2 DEF Inv, RecordsOK, CommittedConfigured, Registered, Going, Keeping
  <2> QED
    BY <2>1, <2>2, <2>3 DEF RecordsOK
<1>7. RunningConfigured'
  BY <1>1 DEF RunningConfigured, SlotFree
<1>8. InstallOK(r)'
  BY <1>1, <1>2 DEF InstallOK, Going, Keeping, Installing, Slotted
<1>9. RemovalOK(r)' /\ ApprovedOK(r)' /\ MutateOK(r)'
  BY <1>1 DEF RemovalOK, ApprovedOK, MutateOK, Removing
<1> QED
  BY <1>3, <1>5, <1>6, <1>7, <1>8, <1>9 DEF Inv, RequestOK

(* It may leave its record as it is, or save it.                            *)
LEMMA KeepingSame ==
  ASSUME TypeOK, Inv, NEW r \in Requests, pc[r] \in Unpublished \ {"begin"},
         journal' = journal, job' = job \/ job'[r].id = job[r].id,
         pc'[r] # "commit"
  PROVE  Keeping(r)
<1>1. pc[r] \in Begun
  BY DEF Unpublished, Begun, Staging, Committing
<1>2. job[r].id \in Ids /\ InstallOK(r) /\ FilesOK
  BY <1>1 DEF Inv, RequestOK, RecordsOK, InstallOK
<1>3. journal[job[r].id].registered => journal[job[r].id].resolved
  BY <1>1, <1>2 DEF FilesOK, Registered, InstallOK
<1> QED
  BY <1>1, <1>2, <1>3 DEF Keeping, InstallOK

LEMMA KeepingSaved ==
  ASSUME TypeOK, Inv, NEW r \in Requests, pc[r] \in Unpublished \ {"begin"},
         NEW b \in BOOLEAN, b => job[r].resolved,
         NEW next \in Steps, next = "commit" => b,
         Save(r, Record(r, b, "applying"), next, "rollback")
  PROVE  /\ Keeping(r) /\ job' = job /\ pc'[r] \in {next, "rollback"}
         /\ \A s \in Requests \ {r} : pc'[s] = pc[s]
<1>1. pc[r] \in Begun /\ pc[r] \in Slotted /\ "rollback" \in Steps /\ "applying" \in States
  BY StepNames DEF Unpublished, Begun, Staging, Committing
<1>2. job[r].id \in Ids /\ InstallOK(r) /\ FilesOK
  BY <1>1 DEF Inv, RequestOK, RecordsOK, InstallOK
<1>3. journal[job[r].id].registered => journal[job[r].id].resolved
  BY <1>1, <1>2 DEF FilesOK, Registered, InstallOK
<1> DEFINE record == Record(r, b, "applying")
<1>4. /\ record \in Installations /\ record.registered = b /\ record.state = "applying"
      /\ record.kind = "install" /\ record.package = job[r].package
      /\ record.resolved = job[r].resolved
  BY <1>1, <1>2, RecordFacts
<1>5. record # None
  BY <1>4, NamesAssumption
<1> HIDE DEF record
<1>6. /\ job' = job /\ pc'[r] \in {next, "rollback"}
      /\ \A s \in Requests \ {r} : pc'[s] = pc[s]
      /\ \A k \in Ids \ {job[r].id} : journal'[k] = journal[k]
      /\ journal'[job[r].id] \in {journal[job[r].id], record}
      /\ pc'[r] = "rollback" \/ journal'[job[r].id] = record
  BY <1>1, <1>2, SaveFacts DEF record
<1> QED
  BY <1>1, <1>2, <1>3, <1>4, <1>5, <1>6 DEF Keeping, InstallOK

LEMMA SaveInv ==
  ASSUME TypeOK, Inv, NEW r \in Requests, Resolve(r) \/ Prepared(r) \/ Register(r)
  PROVE  Inv'
<1> USE StepNames
<1>1. InstallOK(r)
  BY DEF Inv, RequestOK
<1>2. config' = config /\ by' = by /\ running' = running
  BY DEF Resolve, Prepared, Register
<1>3. CASE Resolve(r) /\ UNCHANGED journal /\ Goto(r, "rollback")
  <2>1. job' = job /\ pc'[r] = "rollback" /\ \A s \in Requests \ {r} : pc'[s] = pc[s]
    BY <1>3, GotoFacts DEF Slotted
  <2>2. pc[r] \in Unpublished \ {"begin"}
    BY <1>3 DEF Resolve, Unpublished, Staging
  <2>3. Going(r)
    BY <1>2, <2>1, <2>2 DEF Going, Committing
  <2> QED
    BY <1>3, <2>1, <2>2, <2>3, KeepingSame, GoInv
<1>4. CASE Resolve(r) /\ Save(r, Record(r, FALSE, "applying"), "prepare", "rollback")
  <2>1. pc[r] \in Unpublished \ {"begin"} /\ "prepare" \in Steps
    BY <1>4 DEF Resolve, Unpublished, Staging
  <2>2. /\ Keeping(r) /\ job' = job /\ pc'[r] \in {"prepare", "rollback"}
        /\ \A s \in Requests \ {r} : pc'[s] = pc[s]
    BY <1>4, <2>1, KeepingSaved
  <2>3. running' = None
    BY <1>1, <1>2, <1>4 DEF InstallOK, Resolve
  <2>4. Going(r)
    BY <1>2, <2>1, <2>2, <2>3 DEF Going, Committing, Unpublished, Staging
  <2> QED
    BY <2>2, <2>4, GoInv
<1>5. CASE Prepared(r)
  <2>1. pc[r] \in Unpublished \ {"begin"} /\ "verify" \in Steps /\ job[r].resolved
    BY <1>1, <1>5 DEF Prepared, Unpublished, Staging, InstallOK
  <2>2. /\ Keeping(r) /\ job' = job /\ pc'[r] \in {"verify", "rollback"}
        /\ \A s \in Requests \ {r} : pc'[s] = pc[s]
    BY <1>5, <2>1, KeepingSaved DEF Prepared
  <2>3. running' = None
    BY <1>1, <1>2, <1>5 DEF InstallOK, Prepared
  <2>4. Going(r)
    BY <1>2, <2>1, <2>2, <2>3 DEF Going, Committing, Unpublished, Staging
  <2> QED
    BY <2>2, <2>4, GoInv
<1>6. CASE Register(r)
  <2>1. pc[r] \in Unpublished \ {"begin"} /\ "commit" \in Steps /\ job[r].resolved
    BY <1>1, <1>6 DEF Register, Unpublished, InstallOK, Committing
  <2>2. /\ Keeping(r) /\ job' = job /\ pc'[r] \in {"commit", "rollback"}
        /\ \A s \in Requests \ {r} : pc'[s] = pc[s]
    BY <1>6, <2>1, KeepingSaved DEF Register
  <2>3. Going(r)
    BY <1>2, <2>1, <2>2 DEF Going, Committing, Unpublished, Staging
  <2> QED
    BY <2>2, <2>3, GoInv
<1> QED
  BY <1>3, <1>4, <1>5, <1>6 DEF Resolve

LEMMA CheckInv ==
  ASSUME TypeOK, Inv, NEW r \in Requests, Prepare(r) \/ Verify(r) \/ Discover(r)
  PROVE  Inv'
<1> USE StepNames
<1>1. InstallOK(r) /\ config' = config /\ journal' = journal /\ by' = by
  BY DEF Inv, RequestOK, Prepare, Verify, Discover, files
<1>2. pc[r] \in Unpublished \ {"begin"}
  BY DEF Prepare, Verify, Discover, Unpublished, Staging
<1>3. CASE Prepare(r) /\ ~Goto(r, "rollback")
  <2>1. job' = [job EXCEPT ![r].resolved = TRUE] /\ running' = running
    BY <1>3 DEF Prepare
  <2>2. /\ job'[r].id = job[r].id /\ job'[r].package = job[r].package
        /\ job'[r].previous = job[r].previous /\ job'[r].resolved = TRUE
        /\ \A s \in Requests \ {r} : job'[s] = job[s]
    BY <2>1 DEF TypeOK, Jobs
  <2>3. /\ pc'[r] \in {"prepared", "rollback"} /\ running = None
        /\ \A s \in Requests \ {r} : pc'[s] = pc[s]
    BY <1>1, <1>3 DEF Prepare, TypeOK, InstallOK
  <2>4. Keeping(r)
    BY <1>1, <1>2, <2>2, <2>3, KeepingSame
  <2>5. Going(r)
    BY <1>1, <1>2, <2>1, <2>2, <2>3 DEF Going, Committing, Unpublished, Staging
  <2> QED
    BY <2>4, <2>5, GoInv
<1>4. CASE Goto(r, "rollback") \/ Verify(r) \/ Discover(r)
  <2>1. PICK to \in {"discover", "register", "rollback"} : Goto(r, to)
    BY <1>4 DEF Verify, Discover
  <2>2. to \in Steps
    BY DEF Staging, Committing, Slotted
  <2>3. /\ job' = job /\ pc'[r] = to
        /\ \A s \in Requests \ {r} : pc'[s] = pc[s]
    BY <2>1, <2>2, GotoFacts
  <2>4. to # "rollback" => job[r].resolved
    BY <1>1, <1>4, <2>3 DEF Prepare, Verify, Discover, InstallOK, Goto, TypeOK
  <2>5. Keeping(r)
    BY <1>1, <1>2, <2>3, KeepingSame
  <2>6. Going(r)
    BY <1>1, <1>2, <2>3, <2>4 DEF Going, Committing, Unpublished, Staging
  <2> QED
    BY <2>5, <2>6, GoInv
<1> QED
  BY <1>3, <1>4

LEMMA BeginInv ==
  ASSUME TypeOK, Inv, NEW r \in Requests, Begin(r)
  PROVE  Inv'
<1> USE StepNames
<1>1. /\ pc[r] = "begin" /\ InstallOK(r)
      /\ config' = config /\ by' = by /\ running' = running
  BY DEF Inv, RequestOK, Begin
<1>2. running = None /\ config.package = None /\ pc[r] \in Slotted
  BY <1>1 DEF InstallOK, Unpublished, Slotted
<1>3. CASE UNCHANGED journal /\ End(r)
  BY <1>1, <1>2, <1>3, EndInv DEF files
<1>4. CASE ~(UNCHANGED journal /\ End(r))
  <2> DEFINE record == Record(r, FALSE, "prepared")
  <2>1. PICK i \in Ids :
          /\ journal[i] = None
          /\ \/ /\ Saved(i, record)
                /\ job' = [job EXCEPT ![r].id = i]
                /\ pc' = [pc EXCEPT ![r] = "resolve"]
             \/ SaveFailed(i, record) /\ End(r)
    BY <1>4 DEF Begin
  <2>2. /\ record \in Installations /\ ~record.registered
        /\ record.state = "prepared" /\ record.kind = "install"
        /\ record.package = job[r].package
    <3>1. "prepared" \in States
      OBVIOUS
    <3>2. record \in Installations
      BY <1>1, <1>2, <3>1, RecordFacts
    <3> QED
      BY <3>2 DEF Record
  <2>3. record # None
    BY <2>2, NamesAssumption
  <2> HIDE DEF record
  <2>4. /\ journal'[i] \in {None, record} /\ \A k \in Ids \ {i} : journal'[k] = journal[k]
        /\ Saved(i, record) => journal'[i] = record
    BY <2>1, <2>2, SavedFacts
  <2>5. \/ End(r)
        \/ /\ pc'[r] = "resolve" /\ job'[r].id = i /\ job'[r].package = job[r].package
           /\ job'[r].previous = job[r].previous /\ journal'[i] = record
           /\ \A s \in Requests \ {r} : pc'[s] = pc[s] /\ job'[s] = job[s]
    BY <2>1, <2>4 DEF TypeOK, Jobs
  <2>6. /\ pc'[r] \in {"idle", "resolve"}
        /\ pc'[r] = "resolve" => job'[r].id = i
        /\ \A s \in Requests \ {r} : pc'[s] = pc[s] /\ job'[s] = job[s]
    BY <2>5, EndFacts
  <2>7. LocksOK'
    BY <1>1, <1>2, <2>6, LocksFrame
       DEF Inv, Daemon, Installing, Locking, Slotted, Staging, Committing, Removing
  <2>8. Growing
    BY <1>1, <2>1, <2>4, <2>6 DEF Growing, Unpublished, Staging, Committing
  <2>9. \A s \in Requests \ {r} : RequestOK(s)'
    BY <1>2, <2>6, <2>8, LockedStep DEF Daemon, Installing, Locking
  <2>10. RecordsOK'
    <3>1. FilesOK'
      BY <1>1, <2>2, <2>3, <2>4 DEF Inv, RecordsOK, FilesOK, Registered
    <3>2. IntentDurable'
      BY <1>1, <1>2 DEF IntentDurable
    <3>3. CommittedConfigured'
      BY <1>1, <2>2, <2>3, <2>4 DEF Inv, RecordsOK, CommittedConfigured, Registered
    <3> QED
      BY <3>1, <3>2, <3>3 DEF RecordsOK
  <2>11. RunningConfigured'
    BY <1>1, <1>2 DEF RunningConfigured
  <2>12. RequestOK(r)'
    <3>1. CASE pc'[r] = "idle"
      BY <3>1, IdleOK
    <3>2. CASE pc'[r] = "resolve"
      <4>1. ~End(r)
        BY <3>2, EndFacts
      <4>2. RemovalOK(r)' /\ ApprovedOK(r)' /\ MutateOK(r)'
        BY <3>2 DEF RemovalOK, ApprovedOK, MutateOK, Removing
      <4>3. job[r].package \in Packages /\ job[r].previous \in Configs
        BY <1>1, <1>2 DEF InstallOK
      <4>4. InstallOK(r)'
        BY <1>1, <1>2, <2>2, <2>3, <2>5, <3>2, <4>1, <4>3 DEF InstallOK, Committing
      <4> QED
        BY <4>2, <4>4 DEF RequestOK
    <3> QED
      BY <2>6, <3>1, <3>2
  <2> QED
    BY <2>7, <2>9, <2>10, <2>11, <2>12 DEF Inv
<1> QED
  BY <1>3, <1>4

(* The rename of config.json.                                               *)
LEMMA CommitInv ==
  ASSUME TypeOK, Inv, NEW r \in Requests, Commit(r)
  PROVE  Inv'
<1> USE StepNames
<1>1. /\ pc[r] = "commit" /\ InstallOK(r) /\ journal' = journal /\ running' = running
      /\ pc[r] \in Unpublished \ {"begin"} /\ pc[r] \in Begun
  BY DEF Inv, RequestOK, Commit, Unpublished, Begun, Committing
<1>2. PICK to \in {"finish", "rollback"} : Goto(r, to)
  BY DEF Commit
<1>3. /\ job' = job /\ pc'[r] = to /\ \A s \in Requests \ {r} : pc'[s] = pc[s]
  BY <1>2, GotoFacts DEF Committing, Slotted
<1>4. CASE UNCHANGED <<config, by>> /\ to = "rollback"
  <2>1. Keeping(r)
    BY <1>1, <1>3, <1>4, KeepingSame
  <2>2. Going(r)
    BY <1>1, <1>3, <1>4 DEF Going, Committing
  <2> QED
    BY <2>1, <2>2, GoInv
<1>5. CASE ~(UNCHANGED <<config, by>> /\ to = "rollback")
  <2>1. config' = Intended(r) /\ by' = job[r].id
    <3>1. Goto(r, "rollback") => to = "rollback"
      BY <1>2, <1>3 DEF Goto, TypeOK
    <3> QED
      BY <1>5, <3>1 DEF Commit
  <2>2. /\ pc[r] \in Slotted /\ pc[r] \in Daemon /\ pc[r] \in Locking
        /\ to \in Slotted /\ to \notin Removing /\ to \in Begun
        /\ to \notin Unpublished
    BY <1>1 DEF Begun, Slotted, Daemon, Installing, Staging, Committing, Removing, Unpublished
  <2>3. /\ job[r].id \in Ids /\ job[r].package \in Packages /\ config.package = None
        /\ job[r].previous \in Configs /\ job[r].resolved
        /\ journal[job[r].id] # None /\ journal[job[r].id].kind = "install"
        /\ journal[job[r].id].state # "committed" /\ journal[job[r].id].registered
        /\ journal[job[r].id].package = job[r].package
    BY <1>1, <2>2 DEF InstallOK, Committing
  <2>4. config'.package = job[r].package /\ config'.package # None /\ by' # None
    BY <2>1, <2>3, NamesAssumption DEF Intended
  <2>5. LocksOK'
    BY <1>3, <2>2, LocksFrame DEF Inv
  <2>6. Growing
    BY <1>1, <1>3, <2>1, <2>2 DEF Growing
  <2>7. \A s \in Requests \ {r} : RequestOK(s)'
    BY <1>3, <2>2, <2>6, LockedStep
  <2>8. RecordsOK'
    <3>1. FilesOK'
      BY <1>1, <2>4 DEF Inv, RecordsOK, FilesOK, Registered
    <3>2. IntentDurable'
      <4>1. journal[job[r].id].resolved
        BY <2>3 DEF Inv, RecordsOK, FilesOK, Registered
      <4> QED
        BY <1>1, <2>1, <2>3, <2>4, <4>1 DEF IntentDurable
    <3>3. CommittedConfigured'
      BY <1>1, <2>3 DEF Inv, RecordsOK, CommittedConfigured, Registered
    <3> QED
      BY <3>1, <3>2, <3>3 DEF RecordsOK
  <2>9. RunningConfigured'
    BY <2>4 DEF RunningConfigured
  <2>10. InstallOK(r)'
    BY <1>1, <1>3, <2>1, <2>2, <2>3, <2>4 DEF InstallOK
  <2>11. RemovalOK(r)' /\ ApprovedOK(r)' /\ MutateOK(r)'
    BY <1>3, <2>2 DEF RemovalOK, ApprovedOK, MutateOK, Removing
  <2> QED
    BY <2>5, <2>7, <2>8, <2>9, <2>10, <2>11 DEF Inv, RequestOK
<1> QED
  BY <1>4, <1>5

(* What ends an installation whose entry may be there.                      *)
LEMMA EndedInv ==
  ASSUME TypeOK, Inv, NEW r \in Requests, pc[r] \in {"finish", "rollback"}, End(r),
         NEW record \in Installations, config' = config, by' = by,
         record.package = job[r].package, record.kind = "install",
         record.resolved = job[r].resolved, record.registered => job[r].resolved,
         record.registered \/ record.state = "retry_required",
         record.state = "committed" => config.package # None,
         \A k \in Ids \ {job[r].id} : journal'[k] = journal[k],
         journal'[job[r].id] \in {journal[job[r].id], record},
         running' \in {running, None},
         running' = None \/ config.package # None
  PROVE  Inv'
<1> USE StepNames
<1>1. /\ pc[r] \in Slotted /\ pc[r] \in Daemon /\ pc[r] \in Locking /\ pc[r] \in Begun
  BY DEF Begun, Slotted, Daemon, Installing, Committing
<1>2. /\ InstallOK(r) /\ job[r].id \in Ids /\ journal[job[r].id] # None
      /\ journal[job[r].id].state # "committed" /\ record # None
  BY <1>1, NamesAssumption DEF Inv, RequestOK, InstallOK
<1>3. pc'[r] = "idle" /\ \A s \in Requests \ {r} : pc'[s] = pc[s] /\ job'[s] = job[s]
  BY EndFacts
<1>4. LocksOK'
  BY <1>3, LocksFrame
     DEF Inv, Locking, Daemon, Installing, Slotted, Staging, Committing, Removing
<1>5. Growing
  BY <1>2, <1>3 DEF Growing, Unpublished, Staging
<1>6. \A s \in Requests \ {r} : RequestOK(s)'
  BY <1>1, <1>3, <1>5, LockedStep
<1>7. config.package # None =>
          by = job[r].id /\ job[r].resolved /\ config.package = job[r].package
  BY <1>2 DEF InstallOK
<1>8. RecordsOK'
  <2>1. FilesOK'
    BY <1>2 DEF Inv, RecordsOK, FilesOK, Registered
  <2>2. IntentDurable'
    BY <1>2, <1>7 DEF Inv, RecordsOK, IntentDurable
  <2>3. CommittedConfigured'
    BY <1>2, <1>7 DEF Inv, RecordsOK, CommittedConfigured, Registered
  <2> QED
    BY <2>1, <2>2, <2>3 DEF RecordsOK
<1>9. RunningConfigured'
  BY DEF RunningConfigured
<1> QED
  BY <1>3, <1>4, <1>6, <1>8, <1>9, IdleOK DEF Inv

LEMMA FinishInv ==
  ASSUME TypeOK, Inv, NEW r \in Requests, Finish(r)
  PROVE  Inv'
<1> DEFINE record == Record(r, TRUE, "committed")
<1>1. /\ pc[r] = "finish" /\ InstallOK(r) /\ pc[r] \in Slotted /\ pc[r] \in Begun
      /\ pc[r] \in Committing /\ "committed" \in States
  BY StepNames DEF Inv, RequestOK, Finish, Slotted, Committing, Begun
<1>2. /\ job[r].id \in Ids /\ job[r].resolved /\ config.package # None
  BY <1>1 DEF InstallOK
<1>3. record \in Installations
  BY <1>1, RecordFacts
<1>4. /\ record.registered /\ record.state = "committed" /\ record.kind = "install"
      /\ record.package = job[r].package /\ record.resolved = job[r].resolved
  BY <1>3 DEF Record
<1>5. /\ Saved(job[r].id, record) \/ SaveFailed(job[r].id, record)
      /\ End(r) /\ config' = config /\ by' = by /\ running' \in {running, None}
  BY DEF Finish
<1> HIDE DEF record
<1>6. /\ journal'[job[r].id] \in {journal[job[r].id], record}
      /\ \A k \in Ids \ {job[r].id} : journal'[k] = journal[k]
  BY <1>2, <1>3, <1>5, SavedFacts
<1> QED
  BY <1>1, <1>2, <1>3, <1>4, <1>5, <1>6, EndedInv

LEMMA RollbackInv ==
  ASSUME TypeOK, Inv, NEW r \in Requests, Rollback(r)
  PROVE  Inv'
<1> DEFINE record == Record(r, FALSE, "retry_required")
<1>1. /\ pc[r] = "rollback" /\ InstallOK(r) /\ pc[r] \in Slotted /\ pc[r] \in Begun
      /\ "retry_required" \in States
  BY StepNames DEF Inv, RequestOK, Rollback, Slotted, Begun
<1>2. job[r].id \in Ids
  BY <1>1 DEF InstallOK
<1>3. record \in Installations
  BY <1>1, RecordFacts
<1>4. /\ ~record.registered /\ record.state = "retry_required" /\ record.kind = "install"
      /\ record.package = job[r].package /\ record.resolved = job[r].resolved
  BY <1>3 DEF Record
<1>5. /\ SaveFailed(job[r].id, record)
      /\ End(r) /\ config' = config /\ by' = by /\ running' = None
  BY DEF Rollback
<1> HIDE DEF record
<1>6. /\ journal'[job[r].id] \in {journal[job[r].id], record}
      /\ \A k \in Ids \ {job[r].id} : journal'[k] = journal[k]
  BY <1>2, <1>3, <1>5, SavedFacts
<1> QED
  BY <1>1, <1>3, <1>4, <1>5, <1>6, EndedInv

----------------------------------------------------------------------------
(* Removals.                                                                *)

LEMMA PreviewInv ==
  ASSUME TypeOK, Inv, NEW r \in Requests, Preview(r)
  PROVE  Inv'
<1> USE StepNames
<1>1. PICK op \in Removals :
        job' = [job EXCEPT ![r] = NewJob(op, None, FALSE, config, journal, by)]
  BY DEF Preview
<1>2. /\ op \in Operations /\ config \in Configs /\ config \in Configs \cup {None}
      /\ journal \in Journals /\ journal \in Journals \cup {None} /\ by \in Ids \cup {None}
  BY RemovalsAssumption DEF Operations, TypeOK
<1>3. /\ pc'[r] = "approved"
      /\ job'[r].previous = config /\ job'[r].plan = journal /\ job'[r].seen = by
      /\ \A s \in Requests \ {r} : pc'[s] = pc[s] /\ job'[s] = job[s]
  <2>1. NewJob(op, None, FALSE, config, journal, by).previous = config
    BY DEF NewJob
  <2>2. NewJob(op, None, FALSE, config, journal, by).plan = journal
    BY DEF NewJob
  <2>3. NewJob(op, None, FALSE, config, journal, by).seen = by
    BY DEF NewJob
  <2> QED
    BY <1>1, <2>1, <2>2, <2>3 DEF Preview, TypeOK
<1>4. journal' = journal /\ config' = config /\ by' = by /\ running' = running
  BY DEF Preview, files
<1>5. LocksOK'
  BY <1>3, LocksFrame
     DEF Inv, Locking, Daemon, Installing, Slotted, Staging, Committing, Removing
<1>6. RecordsOK' /\ \A s \in Requests \ {r} : RequestOK(s)'
  BY <1>3, <1>4, QuietStep DEF Unpublished, Staging
<1>7. ApprovedOK(r)'
  <2>1. ASSUME NEW s \in Requests, pc'[s] \in Unpublished PROVE config.package = None
    BY <1>3, <2>1 DEF Inv, RequestOK, InstallOK, Unpublished, Staging
  <2> QED
    BY <1>2, <1>3, <1>4, <2>1 DEF ApprovedOK
<1>8. InstallOK(r)' /\ RemovalOK(r)' /\ MutateOK(r)'
  BY <1>3 DEF InstallOK, RemovalOK, MutateOK, Installing, Slotted, Staging, Committing,
              Unpublished, Begun, Removing
<1>9. RunningConfigured'
  BY <1>3, <1>4 DEF Inv, RunningConfigured, SlotFree, Preview, Slotted, Staging, Committing
<1> QED
  BY <1>5, <1>6, <1>7, <1>8, <1>9 DEF Inv, RequestOK

(* The entry's own record is the one candidate of a plan.                   *)
LEMMA TargetIsWriter ==
  ASSUME RecordsOK, by \in Ids \cup {None}, Planned, config.package # None
  PROVE  /\ journal[by].registered => Target = by
         /\ Target # None => journal[Target].registered
<1>1. Candidates = {i \in Registered : journal[i].package = config.package}
  BY DEF Candidates
<1>2. Target # None => journal[Target].registered
  BY <1>1 DEF Target, Registered
<1>3. ASSUME journal[by].registered PROVE Target = by
  <2>1. by \in Candidates
    BY <1>1, <1>3 DEF RecordsOK, IntentDurable, Registered
  <2>2. IsFiniteSet(Candidates)
    BY <1>1, IdsAssumption, FS_Subset DEF Registered
  <2>3. ~(Cardinality(Candidates) > 1)
    BY DEF Planned, Ambiguous
  <2>4. ASSUME NEW i \in Candidates PROVE i = by
    <3>1. SUFFICES ASSUME i # by PROVE FALSE
      OBVIOUS
    <3>2. {i, by} \subseteq Candidates
      BY <2>1
    <3>3. Cardinality({i, by}) = 2
      <4>1. IsFiniteSet({i}) /\ Cardinality({i}) = 1
        BY FS_Singleton
      <4>2. Cardinality({i} \cup {by}) = 1 + 1
        BY <3>1, <4>1, FS_AddElement
      <4>3. {i} \cup {by} = {i, by}
        OBVIOUS
      <4> QED
        BY <4>2, <4>3
    <3>4. Cardinality({i, by}) <= Cardinality(Candidates) /\ Cardinality(Candidates) \in Nat
      BY <2>2, <3>2, FS_Subset, FS_CardinalityType
    <3> QED
      BY <2>3, <3>3, <3>4
  <2>5. Candidates # {} /\ (CHOOSE i \in Candidates : TRUE) = by
    BY <2>1, <2>4
  <2> QED
    BY <2>5 DEF Target
<1> QED
  BY <1>2, <1>3

LEMMA EnterInv ==
  ASSUME TypeOK, Inv, NEW r \in Requests, Enter(r)
  PROVE  Inv'
<1> USE StepNames
<1>1. CASE End(r)
  BY <1>1, EndInv DEF Enter, Slotted, Staging, Committing
<1>2. CASE ~End(r)
  <2>1. /\ NoReader /\ NoWriter /\ Planned /\ config = job[r].previous
        /\ journal = job[r].plan /\ pc[r] = "approved"
    BY <1>2 DEF Enter, SamePlan
  <2>2. /\ pc'[r] = "uninstall" /\ job'[r].id = Target /\ job'[r].seen = job[r].seen
        /\ \A s \in Requests \ {r} : pc'[s] = pc[s] /\ job'[s] = job[s]
    BY <1>2 DEF Enter, TypeOK, Jobs
  <2>3. journal' = journal /\ config' = config /\ by' = by /\ running' = running
    BY DEF Enter, files
  <2>4. LocksOK'
    BY <2>1, <2>2, LocksFrame
       DEF Inv, Locking, Slotted, Staging, Committing
  <2>5. RecordsOK' /\ \A s \in Requests \ {r} : RequestOK(s)'
    BY <2>2, <2>3, QuietStep DEF Unpublished, Staging
  <2>6. RunningConfigured'
    BY <2>1, <2>2, <2>3 DEF Inv, RunningConfigured, SlotFree, NoReader, Installing
  <2>7. ASSUME config.package # None PROVE job[r].seen = by
    <3>1. by # None /\ journal[by] # None
      BY <2>7 DEF Inv, RecordsOK, IntentDurable
    <3> QED
      BY <2>1, <2>7, <3>1 DEF Inv, RequestOK, ApprovedOK
  <2>8. RemovalOK(r)'
    <3>1. config.package # None =>
            /\ journal[by].registered => Target = by
            /\ Target # None => journal[Target].registered
      BY <2>1, TargetIsWriter DEF Inv, TypeOK
    <3> QED
      BY <2>2, <2>3, <2>7, <3>1, TargetFacts DEF RemovalOK
  <2>9. InstallOK(r)' /\ ApprovedOK(r)' /\ MutateOK(r)'
    BY <2>2 DEF InstallOK, ApprovedOK, MutateOK, Installing, Slotted, Staging, Committing,
                Unpublished, Begun
  <2> QED
    BY <2>4, <2>5, <2>6, <2>8, <2>9 DEF Inv, RequestOK
<1> QED
  BY <1>1, <1>2

LEMMA LockPlannedInv ==
  ASSUME TypeOK, Inv, NEW r \in Requests, LockPlanned(r)
  PROVE  Inv'
<1> USE StepNames
<1>1. CASE End(r)
  BY <1>1, EndInv DEF LockPlanned, Slotted, Staging, Committing
<1>2. CASE ~End(r)
  <2>1. LockFree /\ Goto(r, "begin_uninstall") /\ pc[r] = "uninstall"
    BY <1>2 DEF LockPlanned
  <2>2. /\ pc'[r] = "begin_uninstall" /\ job' = job
        /\ \A s \in Requests \ {r} : pc'[s] = pc[s]
    BY <2>1, GotoFacts DEF Removing
  <2>3. journal' = journal /\ config' = config /\ by' = by /\ running' = running
    BY DEF LockPlanned, files
  <2>4. LocksOK'
    BY <2>1, <2>2, LocksFrame DEF Inv, Daemon, Removing
  <2>5. RecordsOK' /\ \A s \in Requests \ {r} : RequestOK(s)'
    BY <2>2, <2>3, QuietStep DEF Unpublished, Staging
  <2>6. RunningConfigured'
    BY <2>1, <2>2, <2>3 DEF Inv, RunningConfigured, SlotFree, LockFree
  <2>7. RemovalOK(r)'
    BY <2>1, <2>2, <2>3 DEF Inv, RequestOK, RemovalOK, Removing
  <2>8. InstallOK(r)' /\ ApprovedOK(r)' /\ MutateOK(r)'
    BY <2>2 DEF InstallOK, ApprovedOK, MutateOK, Installing, Slotted, Staging, Committing,
                Unpublished, Begun
  <2> QED
    BY <2>4, <2>5, <2>6, <2>7, <2>8 DEF Inv, RequestOK
<1> QED
  BY <1>1, <1>2

(* A removal updates the record it is about, or not.                        *)
LEMMA RemovalSaves ==
  ASSUME TypeOK, Inv, NEW r \in Requests,
         pc[r] \in {"begin_uninstall", "unregister", "finish_uninstall"},
         pc'[r] \in {"idle", "apply", "finish_uninstall"},
         pc'[r] # "idle" => job'[r].id = job[r].id,
         \A s \in Requests \ {r} : pc'[s] = pc[s] /\ job'[s] = job[s],
         NEW record,
         job[r].id # None =>
             /\ record \in Installations /\ record.kind # "install"
             /\ record.package = journal[job[r].id].package
             /\ record.resolved = journal[job[r].id].resolved
             /\ record.registered => journal[job[r].id].registered
             /\ config.package # None =>
                    record.registered \/ ~journal[job[r].id].registered,
         Update(r, record) \/ UpdateFailed(r, record),
         config' = config, by' = by, running' = running
  PROVE  /\ LocksOK' /\ RecordsOK' /\ RunningConfigured'
         /\ \A s \in Requests \ {r} : RequestOK(s)'
         /\ job[r].id # None =>
               /\ journal'[job[r].id] # None
               /\ Update(r, record) => journal'[job[r].id] = record
               /\ journal'[job[r].id].registered => journal[job[r].id].registered
               /\ config.package # None =>
                     (journal[job[r].id].registered => journal'[job[r].id].registered)
         /\ \A k \in Ids \ {job[r].id} : journal'[k] = journal[k]
<1> USE StepNames
<1>1. /\ pc[r] \in Removing /\ pc[r] \in Daemon /\ pc[r] \in Locking /\ pc[r] \notin Slotted
      /\ pc'[r] \notin Slotted /\ pc'[r] \notin Unpublished
      /\ pc'[r] # "idle" => pc'[r] \in Removing
  BY DEF Removing, Daemon, Locking, Slotted, Staging, Committing, Unpublished
<1>2. RemovalOK(r) /\ RecordsOK /\ LocksOK
  BY DEF Inv, RequestOK
<1>3. /\ job[r].id = None => journal' = journal
      /\ job[r].id # None =>
            /\ job[r].id \in Ids /\ journal[job[r].id] \in Installations /\ record # None
            /\ journal'[job[r].id] \in {journal[job[r].id], record}
            /\ Update(r, record) => journal'[job[r].id] = record
      /\ \A k \in Ids \ {job[r].id} : journal'[k] = journal[k]
  BY <1>1, <1>2, RemovingFacts, UpdateFacts, NamesAssumption
<1>4. job[r].id # None => journal[job[r].id] # None
  BY <1>3, NamesAssumption
<1>5. LocksOK'
  BY <1>1, <1>2, LocksFrame DEF Locking, Daemon, Installing, Slotted, Staging, Committing,
                                Removing
<1>6. Growing
  BY <1>1, <1>3 DEF Growing
<1>7. \A s \in Requests \ {r} : RequestOK(s)'
  BY <1>1, <1>6, LockedStep
<1>8. RecordsOK'
  <2>1. FilesOK'
    BY <1>2, <1>3, <1>4 DEF RecordsOK, FilesOK, Registered
  <2>2. IntentDurable'
    <3>1. SUFFICES ASSUME config.package # None PROVE IntentDurable'
      BY DEF IntentDurable
    <3>2. /\ by # None /\ journal[by] # None /\ by \in Ids
          /\ journal[by].package = config.package /\ journal[by].resolved
          /\ \/ journal[by].registered
             \/ journal[by].kind = "install" /\ journal[by].state = "retry_required"
      BY <1>2, <3>1 DEF RecordsOK, IntentDurable, TypeOK
    <3>3. CASE journal'[by] = journal[by]
      BY <3>2, <3>3 DEF IntentDurable
    <3>4. CASE journal'[by] # journal[by]
      <4>1. by = job[r].id /\ job[r].id # None /\ journal'[by] = record /\ record # None
        BY <1>3, <3>2, <3>4
      <4>2. journal[by].registered
        BY <1>2, <3>1, <3>2, <4>1 DEF RemovalOK
      <4> QED
        BY <3>1, <3>2, <4>1, <4>2 DEF IntentDurable
    <3> QED
      BY <3>3, <3>4
  <2>3. CommittedConfigured'
    BY <1>2, <1>3, <1>4 DEF RecordsOK, CommittedConfigured, Registered
  <2> QED
    BY <2>1, <2>2, <2>3 DEF RecordsOK
<1>9. RunningConfigured'
  BY <1>1 DEF Inv, RunningConfigured, SlotFree
<1> QED
  BY <1>3, <1>4, <1>5, <1>7, <1>8, <1>9

LEMMA BeginUninstallInv ==
  ASSUME TypeOK, Inv, NEW r \in Requests, BeginUninstall(r)
  PROVE  Inv'
<1>1. /\ pc[r] = "begin_uninstall" /\ pc[r] \in Removing /\ RemovalOK(r)
      /\ config' = config /\ by' = by /\ running' = running
  BY DEF BeginUninstall, Removing, Inv, RequestOK
<1>2. Update(r, Removal(r)) \/ UpdateFailed(r, Removal(r))
  BY DEF BeginUninstall, UpdateFailed, SaveFailed
<1>3. /\ pc'[r] \in {"idle", "apply"}
      /\ pc'[r] = "apply" => job' = job /\ Update(r, Removal(r))
      /\ \A s \in Requests \ {r} : pc'[s] = pc[s] /\ job'[s] = job[s]
  BY GotoFacts, EndFacts, StepNames DEF BeginUninstall, Removing
<1>4. job[r].id # None =>
         /\ Removal(r) \in Installations /\ Removal(r).kind # "install"
         /\ Removal(r).package = journal[job[r].id].package
         /\ Removal(r).resolved = journal[job[r].id].resolved
         /\ Removal(r).registered = journal[job[r].id].registered
         /\ journal[job[r].id] \in Installations
  BY <1>1, RemovingFacts
<1>5. job[r].id # None => Removal(r).registered \/ ~journal[job[r].id].registered
  BY <1>4
<1>6. /\ LocksOK' /\ RecordsOK' /\ RunningConfigured'
      /\ \A s \in Requests \ {r} : RequestOK(s)'
      /\ job[r].id # None =>
            /\ journal'[job[r].id] # None
            /\ Update(r, Removal(r)) => journal'[job[r].id] = Removal(r)
            /\ journal'[job[r].id].registered => journal[job[r].id].registered
            /\ config.package # None =>
                  (journal[job[r].id].registered => journal'[job[r].id].registered)
      /\ \A k \in Ids \ {job[r].id} : journal'[k] = journal[k]
  BY <1>1, <1>2, <1>3, <1>4, <1>5, RemovalSaves
<1>7. CASE pc'[r] = "idle"
  BY <1>6, <1>7, IdleOK DEF Inv
<1>8. CASE pc'[r] = "apply"
  <2>1. RemovalOK(r)'
    <3>1. ASSUME config.package # None
          PROVE  /\ job[r].seen = by
                 /\ journal'[by].registered => job[r].id = by
                 /\ job[r].id # None => journal'[job[r].id].registered
      <4>1. by \in Ids
        BY <3>1 DEF Inv, RecordsOK, FilesOK, TypeOK
      <4> QED
        BY <1>1, <1>6, <3>1, <4>1 DEF RemovalOK
    <3>2. job[r].id # None =>
              journal'[job[r].id] # None /\ journal'[job[r].id].kind # "install"
      BY <1>3, <1>4, <1>6, <1>8
    <3> QED
      BY <1>1, <1>3, <1>8, <3>1, <3>2 DEF RemovalOK
  <2>2. InstallOK(r)' /\ ApprovedOK(r)' /\ MutateOK(r)'
    BY <1>8 DEF InstallOK, ApprovedOK, MutateOK, Installing, Slotted, Staging, Committing,
                Unpublished, Begun
  <2> QED
    BY <1>6, <2>1, <2>2 DEF Inv, RequestOK
<1> QED
  BY <1>3, <1>7, <1>8

LEMMA UnregisterInv ==
  ASSUME TypeOK, Inv, NEW r \in Requests, Unregister(r)
  PROVE  Inv'
<1> DEFINE record == [journal[job[r].id] EXCEPT !.registered = FALSE]
<1>1. /\ pc[r] = "unregister" /\ pc[r] \in Removing /\ RemovalOK(r)
      /\ config' = config /\ by' = by /\ running' = running
  BY DEF Unregister, Removing, Inv, RequestOK
<1>2. Update(r, record) \/ UpdateFailed(r, record)
  BY DEF Unregister
<1>3. /\ pc'[r] = "finish_uninstall" /\ job'[r].id = job[r].id
      /\ \A s \in Requests \ {r} : pc'[s] = pc[s] /\ job'[s] = job[s]
  BY GotoFacts, FailedFacts, StepNames DEF Unregister, Removing
<1>4. /\ config.package = None
      /\ job[r].id # None =>
            journal[job[r].id] \in Installations /\ journal[job[r].id].kind # "install"
  BY <1>1, RemovingFacts DEF RemovalOK
<1>5. job[r].id # None =>
         /\ record \in Installations /\ record.kind # "install"
         /\ record.package = journal[job[r].id].package
         /\ record.resolved = journal[job[r].id].resolved
         /\ ~record.registered
  BY <1>4 DEF Installations
<1> HIDE DEF record
<1>6. /\ LocksOK' /\ RecordsOK' /\ RunningConfigured'
      /\ \A s \in Requests \ {r} : RequestOK(s)'
      /\ job[r].id # None => journal'[job[r].id] # None
      /\ \A k \in Ids \ {job[r].id} : journal'[k] = journal[k]
  BY <1>1, <1>2, <1>3, <1>4, <1>5, RemovalSaves
<1>7. job[r].id # None => journal'[job[r].id].kind # "install"
  BY <1>1, <1>2, <1>4, <1>5, UpdateFacts, RemovingFacts
<1>8. RemovalOK(r)'
  BY <1>3, <1>6, <1>7 DEF RemovalOK
<1>9. InstallOK(r)' /\ ApprovedOK(r)' /\ MutateOK(r)'
  BY <1>3 DEF InstallOK, ApprovedOK, MutateOK, Installing, Slotted, Staging, Committing,
              Unpublished, Begun
<1> QED
  BY <1>6, <1>8, <1>9 DEF Inv, RequestOK

LEMMA FinishUninstallInv ==
  ASSUME TypeOK, Inv, NEW r \in Requests, FinishUninstall(r)
  PROVE  Inv'
<1>1. /\ pc[r] = "finish_uninstall" /\ pc[r] \in Removing /\ RemovalOK(r)
      /\ config' = config /\ by' = by /\ running' = running
  BY DEF FinishUninstall, Removing, Inv, RequestOK
<1>2. PICK state \in {"committed", "retry_required"} :
        LET record == [journal[job[r].id] EXCEPT !.state = state] IN
        Update(r, record) \/ UpdateFailed(r, record)
  BY DEF FinishUninstall
<1> DEFINE record == [journal[job[r].id] EXCEPT !.state = state]
<1>3. Update(r, record) \/ UpdateFailed(r, record)
  BY <1>2
<1>4. /\ pc'[r] = "idle"
      /\ \A s \in Requests \ {r} : pc'[s] = pc[s] /\ job'[s] = job[s]
  BY EndFacts DEF FinishUninstall
<1>5. job[r].id # None =>
          journal[job[r].id] \in Installations /\ journal[job[r].id].kind # "install"
  BY <1>1, RemovingFacts DEF RemovalOK
<1>6. job[r].id # None =>
         /\ record \in Installations /\ record.kind # "install"
         /\ record.package = journal[job[r].id].package
         /\ record.resolved = journal[job[r].id].resolved
         /\ record.registered = journal[job[r].id].registered
  BY <1>5 DEF Installations, States
<1> HIDE DEF record
<1>7. /\ LocksOK' /\ RecordsOK' /\ RunningConfigured'
      /\ \A s \in Requests \ {r} : RequestOK(s)'
  BY <1>1, <1>3, <1>4, <1>6, RemovalSaves
<1> QED
  BY <1>4, <1>7, IdleOK DEF Inv

(* The rename of config.json that takes the entry away.                     *)
LEMMA ApplyInv ==
  ASSUME TypeOK, Inv, NEW r \in Requests, Apply(r)
  PROVE  Inv'
<1> USE StepNames
<1>1. /\ pc[r] = "apply" /\ RemovalOK(r) /\ RecordsOK /\ LocksOK /\ journal' = journal
      /\ pc[r] \in Removing /\ pc[r] \in Daemon /\ pc[r] \in Locking /\ pc[r] \notin Slotted
  BY DEF Apply, Inv, RequestOK, Removing, Daemon, Locking, Slotted, Staging, Committing
<1>2. /\ pc'[r] \in {"unregister", "finish_uninstall"} /\ job'[r].id = job[r].id
      /\ \A s \in Requests \ {r} : pc'[s] = pc[s] /\ job'[s] = job[s]
  BY GotoFacts, FailedFacts DEF Apply, Removing
<1>3. LocksOK'
  BY <1>1, <1>2, LocksFrame DEF Daemon, Removing
<1>4. by' \in {by, None}
  BY DEF Apply
<1>5. Growing
  BY <1>1, <1>2, <1>4 DEF Growing, Unpublished, Staging
<1>6. \A s \in Requests \ {r} : RequestOK(s)'
  BY <1>1, <1>2, <1>5, LockedStep
<1>7. \/ config' = config /\ by' = by
      \/ config'.package = None /\ by' = None /\ running' = None
  BY ConfigFacts DEF Apply, TypeOK, Configs
<1>8. pc'[r] = "unregister" => config'.package = None
  <2>1. ASSUME Failed(r) PROVE pc'[r] = "finish_uninstall"
    BY <2>1, FailedFacts
  <2> QED
    BY <2>1, ConfigFacts DEF Apply, TypeOK, Configs
<1>9. RecordsOK'
  <2>1. CASE config' = config /\ by' = by
    BY <1>1, <2>1, RecordsKept
  <2>2. CASE config'.package = None /\ by' = None
    <3>1. FilesOK'
      BY <1>1, <2>2 DEF RecordsOK, FilesOK, Registered
    <3>2. IntentDurable'
      BY <2>2 DEF IntentDurable
    <3>3. CommittedConfigured'
      <4>1. ASSUME NEW i \in Registered, journal[i].kind = "install",
                   journal[i].state = "committed"
            PROVE  FALSE
        <5>1. config.package # None /\ by = i /\ journal[by].registered /\ i # None
          BY <1>1, <4>1, NamesAssumption DEF RecordsOK, CommittedConfigured, Registered
        <5>2. job[r].id = i
          BY <1>1, <5>1 DEF RemovalOK
        <5> QED
          BY <1>1, <4>1, <5>1, <5>2 DEF RemovalOK
      <4> QED
        BY <1>1, <4>1 DEF CommittedConfigured, Registered
    <3> QED
      BY <3>1, <3>2, <3>3 DEF RecordsOK
  <2> QED
    BY <1>7, <2>1, <2>2
<1>10. RunningConfigured'
  <2>1. CASE UNCHANGED <<config, running>>
    BY <1>1, <1>2, <2>1 DEF Inv, RunningConfigured, SlotFree
  <2>2. CASE running' = None
    BY <2>2 DEF RunningConfigured
  <2> QED
    BY <2>1, <2>2 DEF Apply
<1>11. RemovalOK(r)'
  BY <1>1, <1>2, <1>8 DEF RemovalOK
<1>12. InstallOK(r)' /\ ApprovedOK(r)' /\ MutateOK(r)'
  BY <1>2 DEF InstallOK, ApprovedOK, MutateOK, Installing, Slotted, Staging, Committing,
              Unpublished, Begun
<1> QED
  BY <1>3, <1>6, <1>9, <1>10, <1>11, <1>12 DEF Inv, RequestOK

----------------------------------------------------------------------------
(* The other users of the files and of the slot.                            *)

LEMMA MutateInv ==
  ASSUME TypeOK, Inv, NEW r \in Requests, Mutate(r)
  PROVE  Inv'
<1> USE StepNames
<1>1. /\ pc[r] = "idle" /\ LockFree /\ pc'[r] = "mutating" /\ job'[r].previous = config
      /\ \A s \in Requests \ {r} : pc'[s] = pc[s] /\ job'[s] = job[s]
  BY DEF Mutate, TypeOK, NewJob
<1>2. journal' = journal /\ config' = config /\ by' = by /\ running' = running
  BY DEF Mutate, files
<1>3. LocksOK'
  BY <1>1, LocksFrame
     DEF Inv, Daemon, Installing, Slotted, Staging, Committing, Removing
<1>4. RecordsOK' /\ \A s \in Requests \ {r} : RequestOK(s)'
  BY <1>1, <1>2, QuietStep DEF Unpublished, Staging
<1>5. RequestOK(r)'
  BY <1>1, <1>2 DEF RequestOK, InstallOK, RemovalOK, ApprovedOK, MutateOK, Installing,
         Slotted, Staging, Committing, Unpublished, Begun, Removing, TypeOK
<1>6. RunningConfigured'
  BY <1>1, <1>2 DEF Inv, RunningConfigured, SlotFree, LockFree
<1> QED
  BY <1>3, <1>4, <1>5, <1>6 DEF Inv

LEMMA MutatedInv ==
  ASSUME TypeOK, Inv, NEW r \in Requests, Mutated(r)
  PROVE  Inv' /\ config'.package = config.package
<1> USE StepNames
<1>1. /\ pc[r] = "mutating" /\ pc'[r] = "idle"
      /\ \A s \in Requests \ {r} : pc'[s] = pc[s] /\ job'[s] = job[s]
  BY EndFacts DEF Mutated
<1>2. journal' = journal /\ by' = by /\ running' = running
  BY DEF Mutated
<1>3. config'.package = config.package
  <2>1. job[r].previous \in Configs /\ job[r].previous.package = config.package
    BY <1>1 DEF Inv, RequestOK, MutateOK
  <2>2. \A o \in Others :
            [job[r].previous EXCEPT !.other = o].package = job[r].previous.package
    BY <2>1 DEF Configs
  <2> QED
    BY <2>1, <2>2 DEF Mutated
<1>4. LocksOK'
  BY <1>1, LocksFrame
     DEF Inv, Locking, Daemon, Installing, Slotted, Staging, Committing, Removing
<1>5. RecordsOK' /\ \A s \in Requests \ {r} : RequestOK(s)'
  BY <1>1, <1>2, <1>3, QuietStep DEF Unpublished, Staging
<1>6. RunningConfigured'
  BY <1>1, <1>2, <1>3
     DEF Inv, RunningConfigured, SlotFree, Slotted, Staging, Committing
<1> QED
  BY <1>1, <1>3, <1>4, <1>5, <1>6, IdleOK DEF Inv

(* Steps of no command: an edit of the rest of the file, a process that     *)
(* starts or ends, no change at all.                                        *)
LEMMA OutsideInv ==
  ASSUME TypeOK, Inv, pc' = pc, job' = job, journal' = journal, by' = by,
         config'.package = config.package,
         \/ running' \in {running, None}
         \/ SlotFree /\ config.package # None
  PROVE  Inv'
<1>1. LocksOK'
  BY DEF Inv, LocksOK
<1>2. RecordsOK'
  BY RecordsKept DEF Inv
<1>3. Growing
  BY DEF Growing
<1>4. ASSUME NEW s \in Requests PROVE RequestOK(s)'
  <2>1. pc[s] \in Slotted => running' \in {running, None}
    BY DEF SlotFree
  <2> QED
    BY <1>3, <2>1, Kept, ApprovedKept DEF Inv, RequestOK
<1>5. RunningConfigured'
  BY DEF Inv, RunningConfigured, SlotFree
<1> QED
  BY <1>1, <1>2, <1>4, <1>5 DEF Inv

LEMMA CrashInv ==
  ASSUME TypeOK, Inv, Crash
  PROVE  Inv'
<1> USE StepNames
<1>1. /\ journal' = journal /\ config' = config /\ by' = by /\ running' = None
  BY DEF Crash, files
<1>2. ASSUME NEW s \in Requests
      PROVE  \/ pc'[s] = "idle"
             \/ /\ pc'[s] = pc[s] /\ job'[s] = job[s]
                /\ pc[s] \in {"approved", "mutating"}
  BY <1>2 DEF Crash, TypeOK, Steps
<1>3. LocksOK'
  BY <1>2 DEF Inv, LocksOK, Daemon, Installing, Slotted, Staging, Committing, Removing,
              Locking
<1>4. RecordsOK'
  BY <1>1, RecordsKept DEF Inv
<1>5. Growing
  BY <1>1, <1>2 DEF Growing, Unpublished, Staging
<1>6. ASSUME NEW s \in Requests PROVE RequestOK(s)'
  <2>1. CASE pc'[s] = "idle"
    BY <2>1, IdleOK
  <2>2. CASE pc'[s] # "idle"
    <3>1. /\ pc'[s] = pc[s] /\ job'[s] = job[s]
          /\ InstallOK(s) /\ RemovalOK(s) /\ MutateOK(s) /\ ApprovedOK(s)
      BY <1>2, <2>2 DEF Inv, RequestOK
    <3> QED
      BY <1>1, <1>5, <3>1, Kept, ApprovedKept DEF RequestOK
  <2> QED
    BY <2>1, <2>2
<1>7. RunningConfigured'
  BY <1>1 DEF RunningConfigured
<1> QED
  BY <1>3, <1>4, <1>6, <1>7 DEF Inv

----------------------------------------------------------------------------
(* The theorems.                                                            *)

LEMMA InitInv == Init => TypeOK /\ Inv
<1> SUFFICES ASSUME Init PROVE TypeOK /\ Inv
  OBVIOUS
<1>1. config \in Configs /\ config.package = None
  BY DEF Init, Configs
<1>2. TypeOK
  BY <1>1, NoJobType DEF Init, TypeOK, Journals, Steps
<1>3. LocksOK
  BY DEF Init, LocksOK, Locking, Slotted, Staging, Committing, Removing
<1>4. RecordsOK /\ RunningConfigured
  BY <1>1 DEF Init, RecordsOK, FilesOK, IntentDurable, CommittedConfigured, Registered,
              RunningConfigured
<1>5. ASSUME NEW r \in Requests PROVE RequestOK(r)
  <2>1. pc[r] = "idle"
    BY DEF Init
  <2> QED
    BY <2>1 DEF RequestOK, InstallOK, RemovalOK, ApprovedOK, MutateOK, Installing, Slotted,
                Staging, Committing, Unpublished, Begun, Removing
<1> QED
  BY <1>2, <1>3, <1>4, <1>5 DEF Inv

LEMMA StepInv == TypeOK /\ Inv /\ [Next]_vars => Inv'
<1> SUFFICES ASSUME TypeOK, Inv, [Next]_vars PROVE Inv'
  OBVIOUS
<1>1. ASSUME NEW r \in Requests, InstallStep(r) PROVE Inv'
  BY <1>1, InstallInv, LockInv, BeginInv, SaveInv, CheckInv, CommitInv, FinishInv, RollbackInv
     DEF InstallStep
<1>2. ASSUME NEW r \in Requests, RemovalStep(r) PROVE Inv'
  BY <1>2, PreviewInv, EnterInv, LockPlannedInv, BeginUninstallInv, ApplyInv, UnregisterInv,
     FinishUninstallInv DEF RemovalStep
<1>3. ASSUME NEW r \in Requests, Mutate(r) \/ Mutated(r) PROVE Inv'
  BY <1>3, MutateInv, MutatedInv
<1>4. CASE Edit
  <2>1. config'.package = config.package
    BY <1>4, ConfigFacts DEF Edit, TypeOK
  <2> QED
    BY <1>4, <2>1, OutsideInv DEF Edit
<1>5. CASE Launch
  BY <1>5, OutsideInv DEF Launch, files
<1>6. CASE Stop
  BY <1>6, OutsideInv DEF Stop, files
<1>7. CASE Crash
  BY <1>7, CrashInv
<1>8. CASE UNCHANGED vars
  BY <1>8, OutsideInv DEF vars
<1> QED
  BY <1>1, <1>2, <1>3, <1>4, <1>5, <1>6, <1>7, <1>8 DEF Next

(* The two files, the slot and every command have their types.              *)
THEOREM TypeCorrect == Spec => []TypeOK
<1>1. TypeOK /\ Inv /\ [Next]_vars => TypeOK' /\ Inv'
  BY TypeStep, StepInv
<1> QED
  BY InitInv, <1>1, PTL DEF Spec

(* The inductive invariant, which has the three invariants among its parts.  *)
THEOREM InvCorrect == Spec => [](TypeOK /\ Inv)
<1>1. TypeOK /\ Inv /\ [Next]_vars => TypeOK' /\ Inv'
  BY TypeStep, StepInv
<1> QED
  BY InitInv, <1>1, PTL DEF Spec

(* An entry of config.json always has the record of the installation that   *)
(* wrote it.                                                                *)
THEOREM IntentIsDurable == Spec => []IntentDurable
<1>1. Inv => IntentDurable
  BY DEF Inv, RecordsOK
<1> QED
  BY InvCorrect, <1>1, PTL

(* A committed installation is that of the entry in config.json.            *)
THEOREM CommittedIsConfigured == Spec => []CommittedConfigured
<1>1. Inv => CommittedConfigured
  BY DEF Inv, RecordsOK
<1> QED
  BY InvCorrect, <1>1, PTL

(* No failed installation and no removal leaves a process behind.           *)
THEOREM NoProcessLeft == Spec => []RunningConfigured
<1>1. Inv => RunningConfigured
  BY DEF Inv
<1> QED
  BY InvCorrect, <1>1, PTL

(* The step that replaces the file either leaves the entry or the rest.     *)
LEMMA EditsKeptStep ==
  TypeOK /\ Inv /\ [Next]_vars =>
      config'.package = config.package \/ config'.other = config.other
<1> SUFFICES ASSUME TypeOK, Inv, [Next]_vars, config' # config
             PROVE  config'.package = config.package \/ config'.other = config.other
  OBVIOUS
<1>1. ASSUME NEW r \in Requests, InstallStep(r) PROVE config'.other = config.other
  <2>1. Commit(r)
    BY <1>1 DEF InstallStep, Install, Lock, Begin, Resolve, Prepare, Prepared, Verify,
                Discover, Register, Finish, Rollback, files
  <2>2. config = job[r].previous /\ config' = Intended(r)
    BY <2>1 DEF Commit, Unchanged
  <2> QED
    BY <2>2 DEF Intended
<1>2. ASSUME NEW r \in Requests, RemovalStep(r) PROVE config'.other = config.other
  <2>1. Apply(r)
    BY <1>2 DEF RemovalStep, Preview, Enter, LockPlanned, BeginUninstall, Unregister,
                FinishUninstall, files
  <2>2. config' = [config EXCEPT !.package = None]
    BY <2>1 DEF Apply
  <2> QED
    BY <2>2 DEF TypeOK, Configs
<1>3. ASSUME NEW r \in Requests, Mutate(r) \/ Mutated(r)
      PROVE  config'.package = config.package
  BY <1>3, MutatedInv DEF Mutate, files
<1>4. CASE Edit
  BY <1>4, ConfigFacts DEF Edit, TypeOK
<1> QED
  BY <1>1, <1>2, <1>3, <1>4 DEF Next, Launch, Stop, Crash, vars, files

(* No command overwrites what another one or an editor wrote.               *)
THEOREM EditsKept == Spec => NoLostEdit
<1>1. TypeOK /\ Inv /\ [Next]_vars =>
          [config'.package = config.package \/ config'.other = config.other]_vars
  BY EditsKeptStep
<1> QED
  BY InvCorrect, <1>1, PTL DEF Spec, NoLostEdit

(* The step that takes the entry away is that of a removal whose user saw   *)
(* that entry.                                                              *)
LEMMA RemovalStepApproved ==
  ASSUME TypeOK, Inv, [Next]_vars, config.package # None, config'.package = None
  PROVE  \E r \in Requests : pc[r] = "apply" /\ job[r].seen = by
<1>1. ASSUME NEW r \in Requests, InstallStep(r) PROVE FALSE
  <2>1. Commit(r)
    BY <1>1 DEF InstallStep, Install, Lock, Begin, Resolve, Prepare, Prepared, Verify,
                Discover, Register, Finish, Rollback, files
  <2>2. config.package = None
    BY <2>1 DEF Commit, Inv, RequestOK, InstallOK, Unpublished
  <2> QED
    BY <2>2
<1>2. ASSUME NEW r \in Requests, RemovalStep(r) PROVE pc[r] = "apply" /\ job[r].seen = by
  <2>1. Apply(r)
    BY <1>2 DEF RemovalStep, Preview, Enter, LockPlanned, BeginUninstall, Unregister,
                FinishUninstall, files
  <2> QED
    BY <2>1 DEF Apply, Inv, RequestOK, RemovalOK
<1>3. ASSUME NEW r \in Requests, Mutate(r) \/ Mutated(r) PROVE FALSE
  BY <1>3, MutatedInv DEF Mutate, files
<1>4. CASE Edit
  BY <1>4, ConfigFacts DEF Edit, TypeOK
<1> QED
  BY <1>1, <1>2, <1>3, <1>4 DEF Next, Launch, Stop, Crash, vars, files

(* A removal takes away the entry that was approved, not a later one.       *)
THEOREM RemovalApproved == Spec => RemovesApproved
<1>1. TypeOK /\ Inv /\ [Next]_vars =>
          [config.package # None /\ config'.package = None =>
             \E r \in Requests : pc[r] = "apply" /\ job[r].seen = by]_vars
  BY RemovalStepApproved
<1> QED
  BY InvCorrect, <1>1, PTL DEF Spec, RemovesApproved

----------------------------------------------------------------------------
(* The name is an Entry.                                                    *)

(* Who publishes is alone with its installation, of which there is no entry *)
(* yet.                                                                     *)
LEMMA PublishingFacts ==
  ASSUME TypeOK, Inv, NEW r \in Requests, Publishing(r)
  PROVE  /\ by = None /\ job[r].id \in Ids /\ journal[job[r].id] # None
         /\ Phase(job[r].id) = "begun"
         /\ \A s \in Requests : Publishing(s) => s = r
<1>1. pc[r] \in Unpublished /\ pc[r] \in Begun /\ pc[r] \in Locking
  BY DEF Publishing, Unpublished, Begun, Committing, Locking, Slotted
<1>2. by = None /\ job[r].id \in Ids /\ journal[job[r].id] # None
  BY <1>1 DEF Inv, RecordsOK, FilesOK, RequestOK, InstallOK
<1>3. \A s \in Requests : Publishing(s) => s = r
  BY <1>1 DEF Publishing, Inv, LocksOK, Locking, Slotted, Committing
<1>4. by # job[r].id
  BY <1>2, NamesAssumption
<1> QED
  BY <1>2, <1>3, <1>4 DEF Phase

(* An entry was published.                                                  *)
LEMMA EntryPublished ==
  ASSUME TypeOK, Inv, by # None
  PROVE  by \in Ids /\ Phase(by) = "published"
<1>1. by \in Ids /\ journal[by] # None
  BY DEF TypeOK, Inv, RecordsOK, FilesOK, IntentDurable
<1> QED
  BY <1>1 DEF Phase

(* A step that neither begins an installation nor touches the entry is one  *)
(* of Look or Abandon.                                                      *)
LEMMA EntryQuiet ==
  ASSUME TypeOK, Inv, by' = by,
         \A i \in Ids : journal'[i] = None <=> journal[i] = None,
         \A s \in Requests : Publishing(s)' => Publishing(s) /\ job'[s].id = job[s].id,
         \A s \in Requests : job'[s].seen \in {job[s].seen, by, None}
  PROVE  TheEntry!Next
<1>1. \A i \in Shown' : i \in Shown \/ (i = by /\ by # None)
  BY DEF Shown
<1>2. CASE \A s \in Requests : Publishing(s) => Publishing(s)'
  <2>1. \A i \in Ids : Phase(i)' = Phase(i)
    BY <1>2 DEF Phase
  <2>2. \A i \in Shown' : i \in Shown \/ (i \in Ids /\ Phase(i) = "published")
    BY <1>1, EntryPublished
  <2> QED
    BY <2>1, <2>2 DEF TheEntry!Next, TheEntry!Look
<1>3. ASSUME NEW r \in Requests, Publishing(r), ~Publishing(r)'
      PROVE  \E i \in Ids : TheEntry!Abandon(i)
  <2>1. /\ by = None /\ job[r].id \in Ids /\ \A s \in Requests : Publishing(s) => s = r
        /\ journal[job[r].id] # None /\ Phase(job[r].id) = "begun"
    BY <1>3, PublishingFacts
  <2>2. PICK i \in Ids : i = job[r].id
    BY <2>1
  <2>3. \A s \in Requests : ~Publishing(s)'
    BY <1>3, <2>1
  <2>4. Phase(i)' = "over"
    BY <2>1, <2>2, <2>3, NamesAssumption DEF Phase
  <2>5. \A k \in Ids \ {i} : Phase(k)' = Phase(k)
    BY <2>1, <2>2, <2>3 DEF Phase
  <2>6. Shown' \subseteq Shown
    BY <1>1, <2>1
  <2>7. [k \in Ids |-> Phase(k)]' = [[k \in Ids |-> Phase(k)] EXCEPT ![i] = "over"]
    BY <2>4, <2>5
  <2> QED
    BY <2>1, <2>2, <2>6, <2>7 DEF TheEntry!Abandon
<1> QED
  BY <1>2, <1>3 DEF TheEntry!Next

(* The first save of an installation.                                       *)
LEMMA EntryBegin ==
  ASSUME TypeOK, Inv, NEW r \in Requests, Begin(r)
  PROVE  TheEntry!Next
<1> USE StepNames
<1>1. /\ pc[r] = "begin" /\ by' = by /\ by = None
      /\ InstallOK(r) /\ pc[r] \in Slotted
  BY DEF Inv, RecordsOK, FilesOK, RequestOK, InstallOK, Begin, Unpublished, Slotted
<1>2. \A s \in Requests : ~Publishing(s)
  <2> SUFFICES ASSUME NEW s \in Requests, Publishing(s) PROVE FALSE
    OBVIOUS
  <2>1. pc[s] \in Locking /\ pc[r] \in Locking
    BY <1>1 DEF Publishing, Locking, Slotted, Committing
  <2>2. s = r
    BY <2>1 DEF Inv, LocksOK
  <2> QED
    BY <1>1, <2>2 DEF Publishing, Staging
<1>3. CASE UNCHANGED journal /\ End(r)
  <2>1. \A s \in Requests : ~Publishing(s)'
    BY <1>2, <1>3, EndFacts DEF Publishing, Staging
  <2>2. \A s \in Requests : job'[s].seen \in {job[s].seen, None}
    BY <1>3 DEF End, TypeOK, NoJob, NewJob
  <2> QED
    BY <1>1, <1>3, <2>1, <2>2, EntryQuiet
<1>4. CASE ~(UNCHANGED journal /\ End(r))
  <2> DEFINE record == Record(r, FALSE, "prepared")
  <2>1. PICK i \in Ids :
          /\ journal[i] = None
          /\ \/ /\ Saved(i, record)
                /\ job' = [job EXCEPT ![r].id = i]
                /\ pc' = [pc EXCEPT ![r] = "resolve"]
             \/ SaveFailed(i, record) /\ End(r)
    BY <1>4 DEF Begin
  <2>2. record \in Installations
    <3>1. "prepared" \in States
      OBVIOUS
    <3> QED
      BY <1>1, <3>1, RecordFacts
  <2>3. record # None
    BY <2>2, NamesAssumption
  <2> HIDE DEF record
  <2>4. /\ journal'[i] \in {None, record} /\ \A k \in Ids \ {i} : journal'[k] = journal[k]
        /\ Saved(i, record) => journal'[i] = record
    BY <2>1, <2>2, SavedFacts
  <2>5. Phase(i) = "new" /\ \A k \in Ids : Phase(k) \in {"new", "over"}
    <3>1. \A k \in Ids : by # k
      BY <1>1, NamesAssumption
    <3> QED
      BY <1>2, <2>1, <3>1 DEF Phase
  <2>6. \A s \in Requests \ {r} : pc'[s] = pc[s] /\ job'[s] = job[s]
    BY <2>1, EndFacts DEF TypeOK
  <2>7. \A k \in Ids : by' # k
    BY <1>1, NamesAssumption
  <2>8. CASE End(r)
    <3>1. \A s \in Requests : ~Publishing(s)'
      BY <1>2, <2>6, <2>8, EndFacts DEF Publishing, Staging
    <3>2. \A s \in Requests : job'[s].seen \in {job[s].seen, None}
      BY <2>6, <2>8 DEF End, TypeOK, NoJob, NewJob
    <3>3. CASE journal'[i] = None
      <4>1. \A k \in Ids : journal'[k] = None <=> journal[k] = None
        BY <2>1, <2>4, <3>3
      <4> QED
        BY <1>1, <3>1, <3>2, <4>1, EntryQuiet
    <3>4. CASE journal'[i] = record
      <4>1. Phase(i)' = "over"
        BY <2>3, <2>7, <3>1, <3>4 DEF Phase
      <4>2. \A k \in Ids \ {i} : Phase(k)' = Phase(k)
        BY <1>1, <1>2, <2>4, <3>1 DEF Phase
      <4>3. Shown' \subseteq Shown
        BY <3>2 DEF Shown
      <4> QED
        BY <2>5, <4>1, <4>2, <4>3 DEF TheEntry!Next, TheEntry!Begin, TheEntry!Free
    <3> QED
      BY <2>4, <3>3, <3>4
  <2>9. CASE ~End(r)
    <3>1. /\ pc'[r] = "resolve" /\ job'[r].id = i /\ job'[r].seen = job[r].seen
          /\ journal'[i] = record
      BY <2>1, <2>4, <2>9 DEF TypeOK, Jobs
    <3>2. Publishing(r)' /\ \A s \in Requests \ {r} : ~Publishing(s)'
      BY <1>2, <2>6, <3>1 DEF Publishing, Staging
    <3>3. Phase(i)' = "begun"
      BY <2>3, <2>7, <3>1, <3>2 DEF Phase
    <3>4. \A k \in Ids \ {i} : Phase(k)' = Phase(k)
      BY <1>1, <1>2, <2>4, <3>1, <3>2 DEF Phase
    <3>5. Shown' \subseteq Shown
      BY <2>6, <3>1 DEF Shown
    <3> QED
      BY <2>5, <3>3, <3>4, <3>5 DEF TheEntry!Next, TheEntry!Begin, TheEntry!Free
  <2> QED
    BY <2>8, <2>9
<1> QED
  BY <1>3, <1>4
(* The steps after it keep the records, and their number.                   *)
SameRecords == \A k \in Ids : journal'[k] = None <=> journal[k] = None

LEMMA SavedSame ==
  ASSUME TypeOK, NEW i \in Ids, journal[i] # None, NEW record \in Installations,
         Saved(i, record) \/ SaveFailed(i, record)
  PROVE  SameRecords
BY SavedFacts, NamesAssumption DEF SameRecords

LEMMA InstallSame ==
  ASSUME TypeOK, Inv, NEW r \in Requests, InstallStep(r), ~Begin(r)
  PROVE  SameRecords
<1>1. CASE UNCHANGED journal
  BY <1>1 DEF SameRecords
<1>2. CASE ~UNCHANGED journal
  <2>1. /\ pc[r] \in Begun
        /\ \E b \in BOOLEAN, state \in States :
              Saved(job[r].id, Record(r, b, state)) \/ SaveFailed(job[r].id, Record(r, b, state))
    BY <1>2 DEF InstallStep, Install, Lock, Resolve, Prepare, Prepared, Verify, Discover,
       Register, Commit, Finish, Rollback, Save, files, Begun, Staging, Committing, States
  <2>2. PICK b \in BOOLEAN, state \in States :
          Saved(job[r].id, Record(r, b, state)) \/ SaveFailed(job[r].id, Record(r, b, state))
    BY <2>1
  <2>3. /\ job[r].id \in Ids /\ journal[job[r].id] # None
        /\ Record(r, b, state) \in Installations
    BY <2>1, BegunFacts, RecordFacts, NamesAssumption DEF Inv, RequestOK
  <2> QED
    BY <2>2, <2>3, SavedSame
<1> QED
  BY <1>1, <1>2

LEMMA RemovalSame ==
  ASSUME TypeOK, Inv, NEW r \in Requests, RemovalStep(r)
  PROVE  SameRecords
<1>1. CASE UNCHANGED journal
  BY <1>1 DEF SameRecords
<1>2. CASE ~UNCHANGED journal
  <2>1. /\ pc[r] \in Removing /\ RemovalOK(r)
        /\ \E record \in {Removal(r), [journal[job[r].id] EXCEPT !.registered = FALSE],
                          [journal[job[r].id] EXCEPT !.state = "committed"],
                          [journal[job[r].id] EXCEPT !.state = "retry_required"]} :
              Update(r, record) \/ UpdateFailed(r, record)
    BY <1>2 DEF RemovalStep, Preview, Enter, LockPlanned, BeginUninstall, Apply, Unregister,
       FinishUninstall, files, Removing, Inv, RequestOK
  <2>2. PICK record \in {Removal(r), [journal[job[r].id] EXCEPT !.registered = FALSE],
                         [journal[job[r].id] EXCEPT !.state = "committed"],
                         [journal[job[r].id] EXCEPT !.state = "retry_required"]} :
          Update(r, record) \/ UpdateFailed(r, record)
    BY <2>1
  <2>3. job[r].id # None
    BY <1>2, <2>2 DEF Update, UpdateFailed
  <2>4. /\ job[r].id \in Ids /\ journal[job[r].id] \in Installations
        /\ Removal(r) \in Installations
    BY <2>1, <2>3, RemovingFacts
  <2>5. "clean" \in Kinds /\ {"committed", "retry_required"} \subseteq States
    BY DEF Kinds, States
  <2>6. /\ [journal[job[r].id] EXCEPT !.registered = FALSE] \in Installations
        /\ [journal[job[r].id] EXCEPT !.state = "committed"] \in Installations
        /\ [journal[job[r].id] EXCEPT !.state = "retry_required"] \in Installations
    BY <2>4, <2>5, RemovalFacts
  <2>7. record \in Installations /\ journal[job[r].id] # None
    BY <2>2, <2>4, <2>6, NamesAssumption
  <2> QED
    BY <2>2, <2>3, <2>4, <2>7, SavedSame DEF Update, UpdateFailed
<1> QED
  BY <1>1, <1>2

(* The rename publishes the entry, or nothing was changed.                  *)
LEMMA EntryCommit ==
  ASSUME TypeOK, Inv, NEW r \in Requests, Commit(r)
  PROVE  TheEntry!Next
<1>1. /\ Publishing(r) /\ journal' = journal /\ job' = job
      /\ by' = by \/ by' = job[r].id
      /\ ~Publishing(r)' /\ \A s \in Requests \ {r} : pc'[s] = pc[s]
  BY DEF Commit, Goto, Publishing, Staging, TypeOK
<1>2. /\ by = None /\ job[r].id \in Ids /\ \A s \in Requests : Publishing(s) => s = r
      /\ journal[job[r].id] # None /\ Phase(job[r].id) = "begun"
  BY <1>1, PublishingFacts
<1>3. CASE by' = by
  BY <1>1, <1>3, EntryQuiet DEF Publishing
<1>4. CASE by' = job[r].id
  <2>1. PICK i \in Ids : i = job[r].id
    BY <1>2
  <2>2. \A s \in Requests : ~Publishing(s)'
    BY <1>1, <1>2 DEF Publishing
  <2>3. Phase(i)' = "published"
    BY <1>1, <1>2, <1>4, <2>1 DEF Phase
  <2>4. \A k \in Ids \ {i} : Phase(k)' = Phase(k)
    BY <1>1, <1>2, <1>4, <2>1, <2>2, NamesAssumption DEF Phase
  <2>5. Shown' = Shown
    BY <1>1 DEF Shown
  <2> QED
    BY <1>2, <2>1, <2>3, <2>4, <2>5 DEF TheEntry!Next, TheEntry!Publish
<1> QED
  BY <1>1, <1>3, <1>4

(* The removal of an entry is of one that is there and was shown.           *)
LEMMA EntryApply ==
  ASSUME TypeOK, Inv, NEW r \in Requests, Apply(r)
  PROVE  TheEntry!Next
<1>1. /\ pc[r] = "apply" /\ journal' = journal
      /\ by' = by \/ by' = None
      /\ \A s \in Requests : job'[s].seen = job[s].seen /\ job'[s].id = job[s].id
      /\ \A s \in Requests : Publishing(s)' => Publishing(s)
  BY DEF Apply, Goto, Failed, TypeOK, Jobs, Publishing, Staging
<1>2. CASE by' = by
  BY <1>1, <1>2, EntryQuiet
<1>3. CASE by # None /\ by' = None
  <2>1. PICK i \in Ids : i = by
    BY <1>3 DEF TypeOK
  <2>2. \A s \in Requests : ~Publishing(s) /\ ~Publishing(s)'
    BY <1>1, <1>3, PublishingFacts
  <2>3. Phase(i) = "published" /\ journal[i] # None
    BY <1>3, <2>1, EntryPublished DEF Phase
  <2>4. Phase(i)' = "over"
    BY <1>1, <1>3, <2>1, <2>2, <2>3 DEF Phase
  <2>5. \A k \in Ids \ {i} : Phase(k)' = Phase(k)
    BY <1>1, <1>3, <2>1, <2>2, NamesAssumption DEF Phase
  <2>6. Shown' = Shown
    BY <1>1 DEF Shown
  <2>7. i \in Shown
    <3>1. job[r].seen = by
      BY <1>1, <1>3 DEF Inv, RecordsOK, FilesOK, RequestOK, RemovalOK
    <3> QED
      BY <1>3, <2>1, <3>1 DEF Shown
  <2> QED
    BY <2>3, <2>4, <2>5, <2>6, <2>7 DEF TheEntry!Next, TheEntry!Withdraw
<1> QED
  BY <1>1, <1>2, <1>3

(* All other steps.                                                         *)
LEMMA EntryInstall ==
  ASSUME TypeOK, Inv, NEW r \in Requests, InstallStep(r), ~Begin(r), ~Commit(r)
  PROVE  TheEntry!Next
<1>1. SameRecords
  BY InstallSame
<1>2. by' = by
  BY DEF InstallStep, Install, Lock, Resolve, Prepare, Prepared, Verify, Discover,
     Register, Finish, Rollback
<1>3. \/ pc[r] = "idle" /\ pc'[r] = "target" /\ job'[r].seen = None
      \/ pc[r] = "target" /\ pc'[r] = "begin" /\ job'[r].seen = job[r].seen
      \/ /\ Publishing(r) \/ ~Publishing(r)'
         /\ job'[r].id = job[r].id /\ job'[r].seen = job[r].seen
      \/ End(r)
  <2>1. CASE Install(r)
    BY <2>1 DEF Install, NewJob, TypeOK
  <2>2. CASE Lock(r)
    BY <2>2 DEF Lock, TypeOK, Jobs
  <2>3. CASE Prepare(r)
    BY <2>3 DEF Prepare, Goto, Publishing, Staging, TypeOK, Jobs
  <2>4. CASE Resolve(r) \/ Prepared(r) \/ Verify(r) \/ Discover(r) \/ Register(r)
    BY <2>4 DEF Resolve, Prepared, Verify, Discover, Register, Save, Goto, Publishing,
       Staging, TypeOK
  <2>5. CASE Finish(r) \/ Rollback(r)
    BY <2>5 DEF Finish, Rollback
  <2> QED
    BY <2>1, <2>2, <2>3, <2>4, <2>5 DEF InstallStep
<1>4. \A s \in Requests \ {r} : pc'[s] = pc[s] /\ job'[s] = job[s]
  BY DEF InstallStep, Install, Lock, Resolve, Prepare, Prepared, Verify, Discover,
     Register, Finish, Rollback, Save, Goto, End, TypeOK
<1>5. End(r) => pc'[r] = "idle" /\ job'[r].seen = None
  BY DEF End, NoJob, NewJob, TypeOK
<1>6. \A s \in Requests : Publishing(s)' => Publishing(s) /\ job'[s].id = job[s].id
  BY <1>3, <1>4, <1>5 DEF Publishing, Staging
<1>7. \A s \in Requests : job'[s].seen \in {job[s].seen, by, None}
  BY <1>3, <1>4, <1>5
<1> QED
  BY <1>1, <1>2, <1>6, <1>7, EntryQuiet DEF SameRecords

LEMMA EntryRemoval ==
  ASSUME TypeOK, Inv, NEW r \in Requests, RemovalStep(r), ~Apply(r)
  PROVE  TheEntry!Next
<1>1. SameRecords
  BY RemovalSame
<1>2. by' = by
  BY DEF RemovalStep, Preview, Enter, LockPlanned, BeginUninstall, Unregister, FinishUninstall
<1>3. \A s \in Requests : Publishing(s)' => Publishing(s) /\ job'[s].id = job[s].id
  BY DEF RemovalStep, Preview, Enter, LockPlanned, BeginUninstall, Unregister,
     FinishUninstall, Goto, End, Failed, Publishing, Staging, TypeOK, Jobs
<1>4. \A s \in Requests : job'[s].seen \in {job[s].seen, by, None}
  BY DEF RemovalStep, Preview, Enter, LockPlanned, BeginUninstall, Unregister,
     FinishUninstall, Goto, End, Failed, NoJob, NewJob, TypeOK, Jobs
<1> QED
  BY <1>1, <1>2, <1>3, <1>4, EntryQuiet DEF SameRecords

(* A name goes through its installations one after the other, whatever      *)
(* fails, dies or is edited: each is published at most once, and ends only  *)
(* at its own failure or on behalf of a user who saw its entry.             *)
THEOREM NameIsEntry == Spec => TheEntry!Spec
<1>1. Init => TheEntry!Init
  <2> SUFFICES ASSUME Init PROVE TheEntry!Init
    OBVIOUS
  <2>1. \A i \in Ids : Phase(i) = "new"
    BY DEF Init, Phase
  <2>2. Shown = {}
    BY DEF Init, Shown, NoJob, NewJob
  <2> QED
    BY <2>1, <2>2 DEF TheEntry!Init
<1>2. TypeOK /\ Inv /\ [Next]_vars => [TheEntry!Next]_(TheEntry!vars)
  <2> SUFFICES ASSUME TypeOK, Inv, [Next]_vars PROVE TheEntry!Next
    OBVIOUS
  <2>1. ASSUME NEW r \in Requests, InstallStep(r) PROVE TheEntry!Next
    BY <2>1, EntryBegin, EntryCommit, EntryInstall
  <2>2. ASSUME NEW r \in Requests, RemovalStep(r) PROVE TheEntry!Next
    BY <2>2, EntryApply, EntryRemoval
  <2>3. ASSUME NEW r \in Requests, Mutate(r) \/ Mutated(r) PROVE TheEntry!Next
    <3>1. by' = by /\ journal' = journal
      BY <2>3 DEF Mutate, Mutated, files
    <3>2. \A s \in Requests : Publishing(s)' => Publishing(s) /\ job'[s].id = job[s].id
      BY <2>3 DEF Mutate, Mutated, End, Publishing, Staging, TypeOK
    <3>3. \A s \in Requests : job'[s].seen \in {job[s].seen, by, None}
      BY <2>3 DEF Mutate, Mutated, End, NoJob, NewJob, TypeOK
    <3> QED
      BY <3>1, <3>2, <3>3, EntryQuiet
  <2>4. CASE Edit \/ Launch \/ Stop \/ UNCHANGED vars
    <3>1. by' = by /\ journal' = journal /\ pc' = pc /\ job' = job
      BY <2>4 DEF Edit, Launch, Stop, vars, files
    <3> QED
      BY <3>1, EntryQuiet DEF Publishing
  <2>5. CASE Crash
    <3>1. by' = by /\ journal' = journal
      BY <2>5 DEF Crash, files
    <3>2. \A s \in Requests : Publishing(s)' => Publishing(s) /\ job'[s].id = job[s].id
      BY <2>5 DEF Crash, Publishing, Daemon, Staging
    <3>3. \A s \in Requests : job'[s].seen \in {job[s].seen, by, None}
      BY <2>5 DEF Crash, NoJob, NewJob
    <3> QED
      BY <3>1, <3>2, <3>3, EntryQuiet
  <2> QED
    BY <2>1, <2>2, <2>3, <2>4, <2>5 DEF Next
<1> QED
  BY <1>1, <1>2, InvCorrect, PTL DEF Spec, TheEntry!Spec
=============================================================================
