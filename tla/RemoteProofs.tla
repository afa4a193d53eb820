---------------------------- MODULE RemoteProofs ----------------------------
(* Proofs about Remote, for any number of commands, references and pages.    *)
EXTENDS Remote, TLAPS

(* References that were drawn and written, and what stands for none.         *)
Drawn == keyring \cup revoked \cup {None}

Pending(p) == pc[p] \in {"commit", "update"} /\ job[p].op = "configure"

(* Everything a file or a command refers to has been written; the reference  *)
(* a command is about to enter is in the keyring, is nobody else's and is in *)
(* no file yet.                                                              *)
FilesDrawn ==
    \A s \in Scopes : config[s] # None => config[s].bearer \in Drawn

SeenDrawn ==
    \A p \in Processes : job[p].seen # None => job[p].seen.server.bearer \in Drawn

PendingOK ==
    \A p \in Processes : Pending(p) =>
        /\ job[p].key \in keyring
        /\ \A s \in Scopes : config[s] # None => config[s].bearer # job[p].key
        /\ \A q \in Processes : job[q].seen # None => job[q].seen.server.bearer # job[p].key

KeysDiffer ==
    \A p, q \in Processes : job[p].key = job[q].key => p = q \/ job[p].key = None

RemoveOK ==
    \A p \in Processes : pc[p] = "remove" => job[p].seen.server.bearer \in revoked

(* Why a definition's reference has an item.                                 *)
KeyInv == FilesDrawn /\ SeenDrawn /\ PendingOK /\ KeysDiffer /\ RemoveOK

Inv == TypeOK /\ KeyInv

----------------------------------------------------------------------------
(* Steps of one command.                                                     *)

LEMMA StepFacts ==
    ASSUME TypeOK, NEW p \in Processes, NEW step, NEW j, Goto(p, step), Update(p, j)
    PROVE  /\ pc'[p] = step /\ job'[p] = j
           /\ \A q \in Processes \ {p} : pc'[q] = pc[q] /\ job'[q] = job[q]
BY DEF TypeOK, Goto, Update

LEMMA StepTyped ==
    ASSUME TypeOK, NEW p \in Processes, NEW step \in PCs, NEW j \in Jobs,
           Goto(p, step), Update(p, j), Fits(step, j)
    PROVE  /\ pc' \in [Processes -> PCs]
           /\ job' \in [Processes -> Jobs]
           /\ \A q \in Processes : Fits(pc[q], job[q])'
<1>1. pc' \in [Processes -> PCs] /\ job' \in [Processes -> Jobs]
  BY DEF TypeOK, Goto, Update
<1>2. \A q \in Processes : Fits(pc[q], job[q])'
  <2>1. SUFFICES ASSUME NEW q \in Processes PROVE Fits(pc'[q], job'[q])
    BY DEF Fits
  <2>2. CASE q = p  BY <2>2, StepFacts
  <2>3. CASE q # p  BY <2>3, StepFacts DEF TypeOK
  <2>4. QED  BY <2>2, <2>3
<1>3. QED  BY <1>1, <1>2

LEMMA NoJobTyped == NoJob \in Jobs /\ Fits("idle", NoJob) /\ "idle" \in PCs
BY LimitsAssumption
   DEF NoJob, NewJob, Jobs, Fits, PCs, Commands, Requests, Scopes, Contents, Requesting

LEMMA NoJobEmpty ==
    NoJob.seen = None /\ NoJob.key = None /\ NoJob.op = "tools"
BY DEF NoJob, NewJob

LEMMA IdentityTyped ==
    ASSUME TypeOK, config[Source] # None
    PROVE  Identity \in Identities /\ Source \in Scopes /\ Identity.server = config[Source]
BY DEF TypeOK, Identity, Identities, Source, Scopes, Contents

(* A step of a command that writes nothing: what it then refers to is what   *)
(* it referred to before, or what a file does.                               *)
LEMMA QuietStep ==
    ASSUME Inv, NEW p \in Processes, NEW step \in PCs, NEW j \in Jobs,
           Goto(p, step), Update(p, j), Quiet, Fits(step, j),
           \/ j.seen = None \/ j.seen = job[p].seen
           \/ config[Source] # None /\ j.seen = Identity,
           j.key = None \/ j.key = job[p].key,
           step \in {"commit", "update"} /\ j.op = "configure" =>
               Pending(p) /\ j.key = job[p].key,
           step # "remove"
    PROVE  Inv'
<1>1. TypeOK'
  BY StepTyped DEF Inv, TypeOK, Quiet, files, secrets
<1>2. /\ pc'[p] = step /\ job'[p] = j
      /\ \A q \in Processes \ {p} : pc'[q] = pc[q] /\ job'[q] = job[q]
  BY StepFacts DEF Inv
<1>3. config' = config /\ keyring' = keyring /\ revoked' = revoked /\ Drawn' = Drawn
  BY DEF Quiet, files, secrets, Drawn
<1>4. \/ j.seen = None \/ j.seen = job[p].seen
      \/ \E s \in Scopes : config[s] # None /\ j.seen.server = config[s]
  BY IdentityTyped DEF Inv
<1>5. FilesDrawn'
  BY <1>3 DEF Inv, KeyInv, FilesDrawn
<1>6. SeenDrawn'
  BY <1>2, <1>3, <1>4 DEF Inv, KeyInv, SeenDrawn, FilesDrawn
<1>7. KeysDiffer'
  BY <1>2 DEF Inv, KeyInv, KeysDiffer
<1>8. RemoveOK'
  BY <1>2, <1>3 DEF Inv, KeyInv, RemoveOK
<1>9. PendingOK'
  <2>1. SUFFICES ASSUME NEW q \in Processes, Pending(q)'
                 PROVE  /\ job'[q].key \in keyring'
                        /\ \A s \in Scopes : config'[s] # None => config'[s].bearer # job'[q].key
                        /\ \A r \in Processes : job'[r].seen # None =>
                             job'[r].seen.server.bearer # job'[q].key
    BY DEF PendingOK
  <2>2. Pending(q) /\ job'[q].key = job[q].key
    BY <2>1, <1>2 DEF Pending
  <2>3. /\ job[q].key \in keyring
        /\ \A s \in Scopes : config[s] # None => config[s].bearer # job[q].key
        /\ \A r \in Processes : job[r].seen # None => job[r].seen.server.bearer # job[q].key
    BY <2>2 DEF Inv, KeyInv, PendingOK
  <2>4. ASSUME NEW r \in Processes, job'[r].seen # None
        PROVE  job'[r].seen.server.bearer # job[q].key
    BY <2>3, <2>4, <1>2, <1>4
  <2>5. QED  BY <2>2, <2>3, <2>4, <1>3
<1>10. QED  BY <1>1, <1>5, <1>6, <1>7, <1>8, <1>9 DEF Inv, KeyInv

LEMMA QuietEnd ==
    ASSUME Inv, NEW p \in Processes, End(p), Quiet
    PROVE  Inv'
BY QuietStep, NoJobTyped, NoJobEmpty DEF End

(* A step from one point of a request to another, which keeps the identity   *)
(* that was read and the target of the command.                              *)
LEMMA RequestStep ==
    ASSUME Inv, NEW p \in Processes, pc[p] \in Requesting \ {"admit"},
           NEW step \in (Requesting \ {"admit"}) \cup {"challenged"}, NEW j \in Jobs,
           j.op = job[p].op, j.seen = job[p].seen, j.target = job[p].target,
           j.key = job[p].key, Goto(p, step), Update(p, j), Quiet
    PROVE  Inv'
<1>1. Fits(pc[p], job[p])
  BY DEF Inv, TypeOK
<1>2. job[p].seen \in Identities /\ (job[p].op \in Policies => job[p].target \in Servers)
  BY <1>1 DEF Fits, Requesting
<1>3. step \in PCs /\ step \notin {"commit", "update", "remove", "logout", "prompt"}
  BY DEF PCs, Requesting
<1>4. Fits(step, j)
  BY <1>2, <1>3 DEF Fits
<1>5. QED
  BY <1>3, <1>4, QuietStep

LEMMA JobTyped ==
    ASSUME Inv, NEW p \in Processes
    PROVE  job[p] \in Jobs /\ Fits(pc[p], job[p])
BY DEF Inv, TypeOK

LEMMA AdmitInv ==
    ASSUME Inv, NEW p \in Processes, Admit(p)
    PROVE  Inv'
<1> DEFINE j == [job[p] EXCEPT !.seen = Identity]
<1>1. pc[p] = "admit" /\ Quiet
  BY DEF Admit
<1>2. CASE End(p)
  BY <1>1, <1>2, QuietEnd
<1>3. CASE Admissible(ToolOf(job[p])) /\ Goto(p, "options") /\ Update(p, j)
  <2>1. config[Source] # None
    BY <1>3 DEF Admissible, Authorized
  <2>2. Identity \in Identities
    BY <2>1, IdentityTyped DEF Inv
  <2>3. /\ j \in Jobs /\ j.seen = Identity /\ j.op = job[p].op
        /\ j.key = job[p].key /\ j.target = job[p].target
    BY <2>2, JobTyped DEF Jobs
  <2>4. job[p].op \in Policies => job[p].target \in Servers
    BY <1>1, JobTyped DEF Fits, Requesting
  <2>5. Fits("options", j)
    BY <2>2, <2>3, <2>4 DEF Fits
  <2>6. "options" \in PCs
    BY DEF PCs, Requesting
  <2>7. QED
    BY <1>1, <1>3, <2>1, <2>3, <2>5, <2>6, QuietStep
<1>4. QED
  BY <1>2, <1>3 DEF Admit, Proceed

LEMMA OptionsInv ==
    ASSUME Inv, NEW p \in Processes, Options(p)
    PROVE  Inv'
<1>1. pc[p] = "options" /\ Quiet
  BY DEF Options
<1>2. CASE End(p)
  BY <1>1, <1>2, QuietEnd
<1>3. CASE Goto(p, "authorize") /\ Update(p, job[p])
  BY <1>1, <1>3, RequestStep, JobTyped DEF Requesting
<1>4. QED
  BY <1>2, <1>3 DEF Options, Proceed

LEMMA AuthorizeInv ==
    ASSUME Inv, NEW p \in Processes, Authorize(p)
    PROVE  Inv'
<1>1. pc[p] = "authorize" /\ Quiet
  BY DEF Authorize
<1>2. CASE End(p)
  BY <1>1, <1>2, QuietEnd
<1>3. CASE Goto(p, "provider") /\ Update(p, job[p])
  BY <1>1, <1>3, RequestStep, JobTyped DEF Requesting
<1>4. QED
  BY <1>2, <1>3 DEF Authorize, Proceed

LEMMA SendInv ==
    ASSUME Inv, NEW p \in Processes, Send(p)
    PROVE  Inv'
<1>1. pc[p] = "provider" /\ Quiet
  BY DEF Send
<1>2. CASE End(p)
  BY <1>1, <1>2, QuietEnd
<1>3. CASE Goto(p, "sent") /\ Update(p, job[p])
  BY <1>1, <1>3, RequestStep, JobTyped DEF Requesting
<1>4. QED
  BY <1>2, <1>3 DEF Send, Proceed

LEMMA ConnectedInv ==
    ASSUME Inv, NEW p \in Processes, Connected(p)
    PROVE  Inv'
<1> DEFINE j == [job[p] EXCEPT !.request = "list"]
<1>1. pc[p] = "sent" /\ Quiet /\ Goto(p, "authorize") /\ Update(p, j)
  BY DEF Connected, Awaits
<1>2. /\ j \in Jobs /\ j.op = job[p].op /\ j.seen = job[p].seen
      /\ j.target = job[p].target /\ j.key = job[p].key
  BY JobTyped DEF Jobs
<1>3. QED
  BY <1>1, <1>2, RequestStep DEF Requesting

LEMMA PageInv ==
    ASSUME Inv, NEW p \in Processes, NEW new \in SUBSET Tools, NEW good \in SUBSET Tools,
           NEW cursor \in Cursors \cup {None}, Page(p, new, good, cursor)
    PROVE  Inv'
<1> DEFINE last == [job[p] EXCEPT !.names = {}, !.found = @ \cup good,
                                  !.cursors = {}, !.pages = 0]
           next == [job[p] EXCEPT !.names = @ \cup new, !.found = @ \cup good,
                                  !.pages = @ + 1, !.cursors = @ \cup {cursor}]
<1>1. pc[p] = "sent" /\ Quiet /\ job[p] \in Jobs
  BY JobTyped DEF Page, Awaits
<1>2. CASE End(p)
  BY <1>1, <1>2, QuietEnd
<1>3. CASE Goto(p, "listed") /\ Update(p, Finished(AppendTools(p, new, good)))
  <2>1. Finished(AppendTools(p, new, good)) = last
    BY <1>1 DEF Finished, AppendTools, Jobs
  <2>2. /\ last \in Jobs /\ last.op = job[p].op /\ last.seen = job[p].seen
        /\ last.target = job[p].target /\ last.key = job[p].key
    <3>1. 0 \in 0 .. Pages - 1
      BY LimitsAssumption
    <3>2. job[p].found \cup good \in SUBSET Tools
      BY <1>1 DEF Jobs
    <3>3. QED
      BY <1>1, <3>1, <3>2 DEF Jobs
  <2>3. QED
    BY <1>1, <1>3, <2>1, <2>2, RequestStep DEF Requesting
<1>4. CASE /\ Continues(p, cursor) /\ cursor # None /\ Goto(p, "authorize")
           /\ Update(p, [AppendTools(p, new, good) EXCEPT !.cursors = @ \cup {cursor}])
  <2>1. [AppendTools(p, new, good) EXCEPT !.cursors = @ \cup {cursor}] = next
    BY <1>1 DEF AppendTools, Jobs
  <2>2. job[p].pages + 1 \in 0 .. Pages - 1
    BY <1>1, <1>4, LimitsAssumption DEF Continues, Jobs
  <2>3. /\ next \in Jobs /\ next.op = job[p].op /\ next.seen = job[p].seen
        /\ next.target = job[p].target /\ next.key = job[p].key
    BY <1>1, <1>4, <2>2 DEF Jobs
  <2>4. QED
    BY <1>1, <1>4, <2>1, <2>3, RequestStep DEF Requesting
<1>5. QED
  BY <1>2, <1>3, <1>4 DEF Page, Proceed

LEMMA ListedInv ==
    ASSUME Inv, NEW p \in Processes, Listed(p)
    PROVE  Inv'
<1> DEFINE j == [job[p] EXCEPT !.seen = None, !.request = "connect", !.found = {}]
<1>1. pc[p] = "listed" /\ Quiet
  BY DEF Listed
<1>2. CASE End(p)
  BY <1>1, <1>2, QuietEnd
<1>3. CASE job[p].op \in Policies /\ Goto(p, "commit") /\ Update(p, j)
  <2>1. /\ j \in Jobs /\ j.op = job[p].op /\ j.seen = None
        /\ j.target = job[p].target /\ j.key = job[p].key
    BY JobTyped DEF Jobs
  <2>2. job[p].target \in Servers
    BY <1>1, <1>3, JobTyped DEF Fits, Requesting
  <2>3. j.op # "configure"
    BY <1>3, <2>1 DEF Policies
  <2>4. Fits("commit", j)
    BY <1>3, <2>1, <2>2, <2>3 DEF Fits, Requesting
  <2>5. "commit" \in PCs
    BY DEF PCs
  <2>6. QED
    BY <1>1, <1>3, <2>1, <2>3, <2>4, <2>5, QuietStep
<1>4. QED
  BY <1>2, <1>3 DEF Listed, Proceed

LEMMA SelectInv ==
    ASSUME Inv, NEW p \in Processes, Select(p)
    PROVE  Inv'
<1> DEFINE j == [job[p] EXCEPT !.request = "call", !.found = {}]
<1>1. pc[p] = "listed" /\ Quiet
  BY DEF Select
<1>2. CASE End(p)
  BY <1>1, <1>2, QuietEnd
<1>3. CASE Goto(p, "round") /\ Update(p, j)
  <2>1. /\ j \in Jobs /\ j.op = job[p].op /\ j.seen = job[p].seen
        /\ j.target = job[p].target /\ j.key = job[p].key
    BY JobTyped DEF Jobs
  <2>2. QED
    BY <1>1, <1>3, <2>1, RequestStep DEF Requesting
<1>4. QED
  BY <1>2, <1>3 DEF Select, Proceed

LEMMA RoundInv ==
    ASSUME Inv, NEW p \in Processes, Round(p)
    PROVE  Inv'
<1> DEFINE j == [job[p] EXCEPT !.rounds = @ + 1]
<1>1. pc[p] = "round" /\ Quiet
  BY DEF Round
<1>2. CASE End(p)
  BY <1>1, <1>2, QuietEnd
<1>3. CASE job[p].rounds < Rounds /\ Goto(p, "authorize") /\ Update(p, j)
  <2>1. /\ j \in Jobs /\ j.op = job[p].op /\ j.seen = job[p].seen
        /\ j.target = job[p].target /\ j.key = job[p].key
    BY <1>3, JobTyped, LimitsAssumption DEF Jobs
  <2>2. QED
    BY <1>1, <1>3, <2>1, RequestStep DEF Requesting
<1>4. QED
  BY <1>2, <1>3 DEF Round, Proceed

LEMMA CallAnsweredInv ==
    ASSUME Inv, NEW p \in Processes, CallAnswered(p)
    PROVE  Inv'
<1>1. pc[p] = "sent" /\ Quiet
  BY DEF CallAnswered, Awaits
<1>2. CASE End(p)
  BY <1>1, <1>2, QuietEnd
<1>3. CASE Goto(p, "round") /\ Update(p, job[p])
  BY <1>1, <1>3, RequestStep, JobTyped DEF Requesting
<1>4. QED
  BY <1>2, <1>3 DEF CallAnswered, Proceed

LEMMA ChallengedInv ==
    ASSUME Inv, NEW p \in Processes, Challenged(p)
    PROVE  Inv'
<1>1. pc[p] = "sent" /\ Quiet
  BY DEF Challenged
<1>2. CASE End(p)
  BY <1>1, <1>2, QuietEnd
<1>3. CASE Goto(p, "challenged") /\ Update(p, job[p])
  BY <1>1, <1>3, RequestStep, JobTyped DEF Requesting
<1>4. QED
  BY <1>2, <1>3 DEF Challenged, Proceed

----------------------------------------------------------------------------
(* Commands begin.                                                           *)

(* A command that begins has no reference of its own, and what it has read   *)
(* is what is in force.                                                      *)
LEMMA BeginStep ==
    ASSUME Inv, NEW p \in Processes, NEW op \in Commands, NEW tool \in Tools \cup {None},
           NEW scope \in Scopes, NEW seen \in Identities \cup {None},
           NEW target \in Contents, NEW step \in PCs, Quiet,
           seen = None \/ (config[Source] # None /\ seen = Identity),
           Goto(p, step), Update(p, NewJob(op, tool, scope, seen, target)),
           Fits(step, NewJob(op, tool, scope, seen, target)),
           step \in {"commit", "update"} => op # "configure", step # "remove"
    PROVE  Inv'
<1> DEFINE j == NewJob(op, tool, scope, seen, target)
<1>1. /\ j.op = op /\ j.seen = seen /\ j.key = None
  BY DEF NewJob
<1>2. j \in Jobs
  BY LimitsAssumption DEF NewJob, Jobs
<1>3. QED
  BY <1>1, <1>2, QuietStep

LEMMA NewJobFields ==
    ASSUME NEW op, NEW tool, NEW scope, NEW seen, NEW target
    PROVE  LET j == NewJob(op, tool, scope, seen, target)
           IN  j.op = op /\ j.seen = seen /\ j.target = target /\ j.key = None
BY DEF NewJob

LEMMA InvokeInv ==
    ASSUME Inv, NEW p \in Processes, NEW op \in Requests, NEW tool \in Tools \cup {None},
           Invoke(p, op, tool)
    PROVE  Inv'
<1> DEFINE j == NewJob(op, tool, "user", None, None)
<1>1. op \in Commands /\ op \notin Policies /\ op # "configure"
  BY DEF Commands, Requests, Policies
<1>2. Fits("admit", j)
  BY <1>1, NewJobFields DEF Fits
<1>3. "admit" \in PCs /\ "user" \in Scopes /\ None \in Contents
  BY DEF PCs, Requesting, Scopes, Contents
<1>4. QED
  BY <1>1, <1>2, <1>3, BeginStep DEF Invoke

LEMMA PolicyInv ==
    ASSUME Inv, NEW p \in Processes, NEW op \in Policies, NEW tool \in Tools \cup {None},
           NEW scope \in Scopes, Policy(p, op, tool, scope)
    PROVE  Inv'
<1> DEFINE j == NewJob(op, tool, scope, None, config[scope])
<1>1. op \in Commands /\ op # "configure"
  BY DEF Commands, Policies
<1>2. config[scope] \in Servers /\ config[scope] \in Contents
  BY DEF Policy, Inv, TypeOK, Contents
<1>3. PICK step \in {"commit", "admit"} : Goto(p, step) /\ Update(p, j) /\ Quiet
  BY DEF Policy
<1>4. j.op = op /\ j.target = config[scope]
  BY NewJobFields
<1>5. Fits("commit", j) /\ Fits("admit", j)
  BY <1>1, <1>2, <1>4 DEF Fits, Requesting
<1>6. "commit" \in PCs /\ "admit" \in PCs
  BY DEF PCs, Requesting
<1>7. QED
  BY <1>1, <1>2, <1>3, <1>5, <1>6, BeginStep

LEMMA ConfigureInv ==
    ASSUME Inv, NEW p \in Processes, NEW scope \in Scopes, Configure(p, scope)
    PROVE  Inv'
<1> DEFINE j == NewJob("configure", None, scope, Identity, config[scope])
<1>1. config[Source] # None /\ Source = scope
  BY DEF Configure, Authorized
<1>2. Identity \in Identities /\ config[scope] \in Servers
  BY <1>1, IdentityTyped DEF Inv, TypeOK, Contents
<1>3. Fits("prompt", j)
  BY <1>2, NewJobFields DEF Fits, Requesting
<1>4. "prompt" \in PCs /\ "configure" \in Commands /\ config[scope] \in Contents
  BY <1>2 DEF PCs, Commands, Contents
<1>5. QED
  BY <1>1, <1>2, <1>3, <1>4, BeginStep DEF Configure

LEMMA LogoutInv ==
    ASSUME Inv, NEW p \in Processes, Logout(p)
    PROVE  Inv'
<1> DEFINE j == NewJob("logout", None, Source, Identity, None)
<1>1. config[Source] # None
  BY DEF Logout, Authorized
<1>2. /\ Identity \in Identities /\ Source \in Scopes
      /\ Identity.server.bearer # None
  BY <1>1, IdentityTyped DEF Inv, Logout
<1>3. Fits("logout", j)
  BY <1>2, NewJobFields DEF Fits, Requesting
<1>4. "logout" \in PCs /\ "logout" \in Commands /\ None \in Contents
  BY DEF PCs, Commands, Contents
<1>5. QED
  BY <1>1, <1>2, <1>3, <1>4, BeginStep DEF Logout

LEMMA LoginInv ==
    ASSUME Inv, NEW p \in Processes, Login(p)
    PROVE  Inv'
<1> DEFINE j == NewJob("login", None, Source, Identity, None)
<1>1. config[Source] # None
  BY DEF Login, Admissible, Authorized
<1>2. Identity \in Identities /\ Source \in Scopes
  BY <1>1, IdentityTyped DEF Inv
<1>3. Fits("register", j)
  BY NewJobFields DEF Fits, Requesting
<1>4. "register" \in PCs /\ "login" \in Commands /\ None \in Contents
  BY DEF PCs, Commands, Contents
<1>5. QED
  BY <1>1, <1>2, <1>3, <1>4, BeginStep DEF Login

----------------------------------------------------------------------------
(* Commands wait, end, or write.                                             *)

LEMMA LoginStepInv ==
    ASSUME Inv, NEW p \in Processes, LoginStep(p)
    PROVE  Inv'
<1>1. PICK step \in {<<"register", "browser">>, <<"browser", "exchange">>,
                     <<"exchange", "stored">>} :
        pc[p] = step[1] /\ Proceed(Recheck(job[p]), p, step[2], job[p])
  BY DEF LoginStep
<1>2. Quiet
  BY DEF LoginStep
<1>3. CASE End(p)
  BY <1>2, <1>3, QuietEnd
<1>4. CASE Goto(p, step[2]) /\ Update(p, job[p])
  <2>1. step[2] \in {"browser", "exchange", "stored"}
    BY <1>1
  <2>2. Fits(step[2], job[p])
    BY <2>1 DEF Fits, Requesting
  <2>3. step[2] \in PCs
    BY <2>1 DEF PCs
  <2>4. QED
    BY <1>2, <1>4, <2>1, <2>2, <2>3, JobTyped, QuietStep
<1>5. QED
  BY <1>1, <1>3, <1>4 DEF Proceed

LEMMA PrepareInv ==
    ASSUME Inv, NEW p \in Processes, Prepare(p)
    PROVE  Inv'
<1>1. pc[p] = "commit" /\ Goto(p, "update") /\ Update(p, job[p]) /\ Quiet
  BY DEF Prepare, Update, Inv, TypeOK
<1>2. job[p] \in Jobs /\ Fits("commit", job[p])
  BY <1>1, JobTyped
<1>3. Fits("update", job[p])
  BY <1>2 DEF Fits, Requesting
<1>4. "update" \in PCs /\ (job[p].op = "configure" => Pending(p))
  BY <1>1 DEF PCs, Pending
<1>5. QED
  BY <1>1, <1>2, <1>3, <1>4, QuietStep

(* A reference that is drawn now is in no file, and no command has read it.  *)
LEMMA FreshUnused ==
    ASSUME Inv, NEW k \in Keys, Fresh(k)
    PROVE  /\ \A s \in Scopes : config[s] # None => config[s].bearer # k
           /\ \A q \in Processes : job[q].seen # None => job[q].seen.server.bearer # k
<1>1. k \notin Drawn
  BY NamesAssumption DEF Fresh, Drawn
<1>2. QED
  BY <1>1 DEF Inv, KeyInv, FilesDrawn, SeenDrawn

LEMMA SaveInv ==
    ASSUME Inv, NEW p \in Processes, NEW k \in Keys, Save(p, k)
    PROVE  Inv'
<1> DEFINE j == [job[p] EXCEPT !.key = k]
<1>1. /\ pc[p] = "prompt" /\ Goto(p, "commit") /\ Update(p, j) /\ Fresh(k)
      /\ keyring' = keyring \cup {k} /\ config' = config /\ approved' = approved
      /\ revoked' = revoked
  BY DEF Save, files
<1>2. /\ j \in Jobs /\ j.op = job[p].op /\ j.seen = job[p].seen
      /\ j.target = job[p].target /\ j.key = k
  BY JobTyped DEF Jobs
<1>3. job[p].target \in Servers /\ job[p].op = "configure"
  BY <1>1, JobTyped DEF Fits
<1>4. Fits("commit", j)
  BY <1>2, <1>3 DEF Fits, Requesting
<1>5. /\ pc'[p] = "commit" /\ job'[p] = j
      /\ \A q \in Processes \ {p} : pc'[q] = pc[q] /\ job'[q] = job[q]
  BY <1>1, StepFacts DEF Inv
<1>6. TypeOK'
  <2>1. "commit" \in PCs
    BY DEF PCs
  <2>2. /\ pc' \in [Processes -> PCs] /\ job' \in [Processes -> Jobs]
        /\ \A q \in Processes : Fits(pc[q], job[q])'
    BY <1>1, <1>2, <1>4, <2>1, StepTyped DEF Inv
  <2>3. QED
    BY <1>1, <2>2 DEF Inv, TypeOK
<1>7. FilesDrawn'
  BY <1>1 DEF Inv, KeyInv, FilesDrawn, Drawn
<1>8. SeenDrawn'
  BY <1>1, <1>2, <1>5 DEF Inv, KeyInv, SeenDrawn, Drawn
<1>9. KeysDiffer'
  <2>1. \A q \in Processes : job[q].key # k
    BY <1>1 DEF Fresh
  <2>2. SUFFICES ASSUME NEW q \in Processes, NEW r \in Processes, job'[q].key = job'[r].key
                 PROVE  q = r \/ job'[q].key = None
    BY DEF KeysDiffer
  <2>3. \A o \in Processes : job'[o].key = IF o = p THEN k ELSE job[o].key
    BY <1>2, <1>5
  <2>4. QED
    BY <2>1, <2>2, <2>3 DEF Inv, KeyInv, KeysDiffer
<1>10. RemoveOK'
  BY <1>1, <1>5 DEF Inv, KeyInv, RemoveOK
<1>11. PendingOK'
  <2>1. SUFFICES ASSUME NEW q \in Processes, Pending(q)'
                 PROVE  /\ job'[q].key \in keyring'
                        /\ \A s \in Scopes : config'[s] # None => config'[s].bearer # job'[q].key
                        /\ \A r \in Processes : job'[r].seen # None =>
                             job'[r].seen.server.bearer # job'[q].key
    BY DEF PendingOK
  <2>2. \A r \in Processes : job'[r].seen = job[r].seen
    BY <1>2, <1>5
  <2>3. CASE q = p
    <3>1. job'[q].key = k
      BY <1>2, <1>5, <2>3
    <3>2. /\ \A s \in Scopes : config[s] # None => config[s].bearer # k
          /\ \A r \in Processes : job[r].seen # None => job[r].seen.server.bearer # k
      BY <1>1, FreshUnused
    <3>3. QED
      BY <1>1, <2>2, <3>1, <3>2
  <2>4. CASE q # p
    <3>1. Pending(q) /\ job'[q].key = job[q].key
      BY <2>1, <2>4, <1>5 DEF Pending
    <3>2. QED
      BY <1>1, <2>2, <3>1 DEF Inv, KeyInv, PendingOK
  <2>5. QED
    BY <2>3, <2>4
<1>12. QED
  BY <1>6, <1>7, <1>8, <1>9, <1>10, <1>11 DEF Inv, KeyInv

LEMMA SaveFailedInv ==
    ASSUME Inv, NEW p \in Processes, NEW k \in Keys, SaveFailed(p, k)
    PROVE  Inv'
<1>1. /\ Goto(p, "idle") /\ Update(p, NoJob) /\ Fresh(k) /\ keyring' = keyring \cup {k}
      /\ config' = config /\ approved' = approved /\ revoked' = revoked
  BY DEF SaveFailed, End, files
<1>2. /\ pc'[p] = "idle" /\ job'[p] = NoJob
      /\ \A q \in Processes \ {p} : pc'[q] = pc[q] /\ job'[q] = job[q]
  BY <1>1, StepFacts DEF Inv
<1>3. TypeOK'
  <2>1. /\ pc' \in [Processes -> PCs] /\ job' \in [Processes -> Jobs]
        /\ \A q \in Processes : Fits(pc[q], job[q])'
    BY <1>1, NoJobTyped, StepTyped DEF Inv
  <2>2. QED
    BY <1>1, <2>1 DEF Inv, TypeOK
<1>4. FilesDrawn' /\ RemoveOK'
  BY <1>1, <1>2 DEF Inv, KeyInv, FilesDrawn, RemoveOK, Drawn
<1>5. SeenDrawn' /\ KeysDiffer'
  BY <1>1, <1>2, NoJobEmpty DEF Inv, KeyInv, SeenDrawn, KeysDiffer, Drawn
<1>6. PendingOK'
  BY <1>1, <1>2, NoJobEmpty DEF Inv, KeyInv, PendingOK, Pending
<1>7. QED
  BY <1>3, <1>4, <1>5, <1>6 DEF Inv, KeyInv

(* The definition a command leaves is a definition; its reference is the one *)
(* it had, or the command's own.                                             *)
LEMMA ChangedTyped ==
    ASSUME NEW j \in Jobs, NEW current \in Servers, Fits("update", j)
    PROVE  /\ Changed(j, current) \in Servers
           /\ Changed(j, current).bearer =
                IF j.op = "configure" THEN j.key ELSE current.bearer
<1>1. /\ j.target \in Servers /\ j.tool \in Tools \cup {None}
      /\ j.op = "configure" => j.key \in Keys
  BY DEF Fits, Jobs
<1>2. CASE j.op = "configure"
  BY <1>1, <1>2 DEF Changed, Servers
<1>3. CASE j.op # "configure" /\ j.tool = None
  BY <1>3 DEF Changed, Servers
<1>4. CASE j.op # "configure" /\ j.tool # None
  <2>1. j.tool \in Tools
    BY <1>1, <1>4
  <2>2. current.disabled \ {j.tool} \in SUBSET Tools /\ current.disabled \cup {j.tool} \in SUBSET Tools
    BY <2>1 DEF Servers
  <2>3. QED
    BY <1>4, <2>2 DEF Changed, Servers
<1>5. QED
  BY <1>2, <1>3, <1>4

LEMMA CommitInv ==
    ASSUME Inv, NEW p \in Processes, Commit(p)
    PROVE  Inv'
<1> DEFINE scope == job[p].scope
           new == Changed(job[p], config[scope])
<1>1. /\ pc[p] = "update" /\ config[scope] = job[p].target
      /\ config' = [config EXCEPT ![scope] = new]
      /\ Goto(p, "idle") /\ Update(p, NoJob)
      /\ approved' = approved /\ keyring' = keyring /\ revoked' = revoked
  BY DEF Commit, Unmoved, End, secrets
<1>2. job[p] \in Jobs /\ Fits("update", job[p]) /\ scope \in Scopes
  BY <1>1, JobTyped DEF Jobs
<1>3. config[scope] \in Servers /\ config[scope] # None
  BY <1>1, <1>2, NamesAssumption DEF Fits
<1>4. /\ new \in Servers
      /\ new.bearer = IF job[p].op = "configure" THEN job[p].key ELSE config[scope].bearer
  BY <1>2, <1>3, ChangedTyped
<1>5. /\ pc'[p] = "idle" /\ job'[p] = NoJob
      /\ \A q \in Processes \ {p} : pc'[q] = pc[q] /\ job'[q] = job[q]
  BY <1>1, StepFacts DEF Inv
<1>6. \A s \in Scopes : config'[s] = IF s = scope THEN new ELSE config[s]
  BY <1>1, <1>2 DEF Inv, TypeOK
<1>7. Drawn' = Drawn
  BY <1>1 DEF Drawn
<1>8. job[p].op = "configure" => Pending(p)
  BY <1>1 DEF Pending
<1>9. job[p].op = "configure" => job[p].key \in keyring /\ job[p].key \in Keys
  BY <1>2, <1>8 DEF Inv, KeyInv, PendingOK, Fits
<1>10. TypeOK'
  <2>1. /\ pc' \in [Processes -> PCs] /\ job' \in [Processes -> Jobs]
        /\ \A q \in Processes : Fits(pc[q], job[q])'
    BY <1>1, NoJobTyped, StepTyped DEF Inv
  <2>2. config' \in [Scopes -> Contents]
    BY <1>1, <1>4 DEF Inv, TypeOK, Contents
  <2>3. QED
    BY <1>1, <2>1, <2>2 DEF Inv, TypeOK
<1>11. FilesDrawn'
  <2>1. new.bearer \in Drawn
    BY <1>2, <1>3, <1>4, <1>9 DEF Inv, KeyInv, FilesDrawn, Drawn
  <2>2. QED
    BY <1>6, <1>7, <2>1 DEF Inv, KeyInv, FilesDrawn
<1>12. SeenDrawn' /\ KeysDiffer'
  BY <1>5, <1>7, NoJobEmpty DEF Inv, KeyInv, SeenDrawn, KeysDiffer
<1>13. RemoveOK'
  BY <1>1, <1>5 DEF Inv, KeyInv, RemoveOK
<1>14. PendingOK'
  <2>1. SUFFICES ASSUME NEW q \in Processes, Pending(q)'
                 PROVE  /\ job'[q].key \in keyring'
                        /\ \A s \in Scopes : config'[s] # None => config'[s].bearer # job'[q].key
                        /\ \A r \in Processes : job'[r].seen # None =>
                             job'[r].seen.server.bearer # job'[q].key
    BY DEF PendingOK
  <2>2. q # p /\ Pending(q) /\ job'[q].key = job[q].key
    BY <2>1, <1>5 DEF Pending
  <2>3. /\ job[q].key \in keyring
        /\ \A s \in Scopes : config[s] # None => config[s].bearer # job[q].key
        /\ \A r \in Processes : job[r].seen # None => job[r].seen.server.bearer # job[q].key
    BY <2>2 DEF Inv, KeyInv, PendingOK
  <2>4. new.bearer # job[q].key
    <3>1. CASE job[p].op = "configure"
      <4>1. job[p].key # None
        BY <3>1, <1>9, NamesAssumption
      <4>2. job[p].key # job[q].key
        BY <4>1, <2>2 DEF Inv, KeyInv, KeysDiffer
      <4>3. QED
        BY <3>1, <4>2, <1>4
    <3>2. CASE job[p].op # "configure"
      BY <3>2, <1>2, <1>3, <1>4, <2>3
    <3>3. QED
      BY <3>1, <3>2
  <2>5. QED
    BY <1>1, <1>5, <1>6, <2>2, <2>3, <2>4, NoJobEmpty
<1>15. QED
  BY <1>10, <1>11, <1>12, <1>13, <1>14 DEF Inv, KeyInv

LEMMA CheckLogoutInv ==
    ASSUME Inv, NEW p \in Processes, CheckLogout(p)
    PROVE  Inv'
<1>1. /\ pc[p] = "logout" /\ Goto(p, "remove") /\ config' = config /\ approved' = approved
      /\ keyring' = keyring /\ job' = job
      /\ revoked' = revoked \cup {job[p].seen.server.bearer}
  BY DEF CheckLogout, files
<1>2. /\ job[p] \in Jobs /\ job[p].seen \in Identities
      /\ job[p].seen.server.bearer # None
  BY <1>1, JobTyped DEF Fits
<1>3. job[p].seen.server.bearer \in Keys
  BY <1>2 DEF Identities, Servers
<1>4. Fits("remove", job[p]) /\ "remove" \in PCs
  BY <1>2 DEF Fits, Requesting, PCs
<1>5. Update(p, job[p])
  BY <1>1 DEF Update, Inv, TypeOK
<1>6. pc'[p] = "remove" /\ \A q \in Processes \ {p} : pc'[q] = pc[q]
  BY <1>1, <1>5, StepFacts DEF Inv
<1>7. TypeOK'
  <2>1. /\ pc' \in [Processes -> PCs] /\ job' \in [Processes -> Jobs]
        /\ \A q \in Processes : Fits(pc[q], job[q])'
    BY <1>1, <1>2, <1>4, <1>5, StepTyped DEF Inv
  <2>2. QED
    BY <1>1, <1>3, <2>1 DEF Inv, TypeOK
<1>8. FilesDrawn' /\ SeenDrawn' /\ KeysDiffer'
  BY <1>1 DEF Inv, KeyInv, FilesDrawn, SeenDrawn, KeysDiffer, Drawn
<1>9. PendingOK'
  BY <1>1, <1>6 DEF Inv, KeyInv, PendingOK, Pending
<1>10. RemoveOK'
  BY <1>1, <1>6 DEF Inv, KeyInv, RemoveOK
<1>11. QED
  BY <1>7, <1>8, <1>9, <1>10 DEF Inv, KeyInv

(* What a logout removes is nothing that another command is about to enter:  *)
(* it was in a file before.                                                  *)
LEMMA RemoveInv ==
    ASSUME Inv, NEW p \in Processes, Remove(p)
    PROVE  Inv'
<1> DEFINE k == job[p].seen.server.bearer
<1>1. /\ pc[p] = "remove" /\ Goto(p, "idle") /\ Update(p, NoJob)
      /\ keyring' = keyring \ {k}
      /\ config' = config /\ approved' = approved /\ revoked' = revoked
  BY DEF Remove, End, files
<1>2. k \in revoked
  BY <1>1 DEF Inv, KeyInv, RemoveOK
<1>3. job[p].seen # None
  BY <1>1, JobTyped, NamesAssumption DEF Fits
<1>4. Drawn' = Drawn
  BY <1>1, <1>2 DEF Drawn
<1>5. /\ pc'[p] = "idle" /\ job'[p] = NoJob
      /\ \A q \in Processes \ {p} : pc'[q] = pc[q] /\ job'[q] = job[q]
  BY <1>1, StepFacts DEF Inv
<1>6. TypeOK'
  <2>1. /\ pc' \in [Processes -> PCs] /\ job' \in [Processes -> Jobs]
        /\ \A q \in Processes : Fits(pc[q], job[q])'
    BY <1>1, NoJobTyped, StepTyped DEF Inv
  <2>2. QED
    BY <1>1, <2>1 DEF Inv, TypeOK
<1>7. FilesDrawn'
  BY <1>1, <1>4 DEF Inv, KeyInv, FilesDrawn
<1>8. SeenDrawn' /\ KeysDiffer'
  BY <1>4, <1>5, NoJobEmpty DEF Inv, KeyInv, SeenDrawn, KeysDiffer
<1>9. RemoveOK'
  BY <1>1, <1>5 DEF Inv, KeyInv, RemoveOK
<1>10. PendingOK'
  <2>1. SUFFICES ASSUME NEW q \in Processes, Pending(q)'
                 PROVE  /\ job'[q].key \in keyring'
                        /\ \A s \in Scopes : config'[s] # None => config'[s].bearer # job'[q].key
                        /\ \A r \in Processes : job'[r].seen # None =>
                             job'[r].seen.server.bearer # job'[q].key
    BY DEF PendingOK
  <2>2. q # p /\ Pending(q) /\ job'[q].key = job[q].key
    BY <2>1, <1>5 DEF Pending
  <2>3. /\ job[q].key \in keyring
        /\ \A s \in Scopes : config[s] # None => config[s].bearer # job[q].key
        /\ \A r \in Processes : job[r].seen # None => job[r].seen.server.bearer # job[q].key
    BY <2>2 DEF Inv, KeyInv, PendingOK
  <2>4. job[q].key # k
    BY <1>3, <2>3
  <2>5. QED
    BY <1>1, <1>5, <2>2, <2>3, <2>4, NoJobEmpty
<1>11. QED
  BY <1>6, <1>7, <1>8, <1>9, <1>10 DEF Inv, KeyInv

----------------------------------------------------------------------------
(* The files change.                                                         *)

LEMMA EditInv ==
    ASSUME Inv, NEW scope \in Scopes, NEW content \in Edits[scope] \cup {None},
           Edit(scope, content)
    PROVE  Inv'
<1>1. /\ config' = [config EXCEPT ![scope] = content] /\ approved' = approved
      /\ keyring' = keyring /\ revoked' = revoked /\ pc' = pc /\ job' = job
  BY DEF Edit, secrets
<1>2. content # None => content \in Servers /\ content.bearer = None
  BY EditsAssumption
<1>3. content \in Contents
  BY <1>2 DEF Contents
<1>4. \A s \in Scopes : config'[s] = IF s = scope THEN content ELSE config[s]
  BY <1>1 DEF Inv, TypeOK
<1>5. TypeOK'
  BY <1>1, <1>3 DEF Inv, TypeOK
<1>6. FilesDrawn'
  BY <1>1, <1>2, <1>4 DEF Inv, KeyInv, FilesDrawn, Drawn
<1>7. SeenDrawn' /\ KeysDiffer' /\ RemoveOK'
  BY <1>1 DEF Inv, KeyInv, SeenDrawn, KeysDiffer, RemoveOK, Drawn
<1>8. PendingOK'
  <2>1. SUFFICES ASSUME NEW q \in Processes, Pending(q)
                 PROVE  /\ job[q].key \in keyring
                        /\ \A s \in Scopes : config'[s] # None => config'[s].bearer # job[q].key
                        /\ \A r \in Processes : job[r].seen # None =>
                             job[r].seen.server.bearer # job[q].key
    BY <1>1 DEF PendingOK, Pending
  <2>2. /\ job[q].key \in keyring
        /\ \A s \in Scopes : config[s] # None => config[s].bearer # job[q].key
        /\ \A r \in Processes : job[r].seen # None => job[r].seen.server.bearer # job[q].key
    BY <2>1 DEF Inv, KeyInv, PendingOK
  <2>3. job[q].key # None
    BY <2>2, NamesAssumption DEF Inv, TypeOK
  <2>4. QED
    BY <1>2, <1>4, <2>2, <2>3
<1>9. QED
  BY <1>5, <1>6, <1>7, <1>8 DEF Inv, KeyInv

LEMMA ApproveInv ==
    ASSUME Inv, Approve
    PROVE  Inv'
<1>1. /\ config' = config /\ approved' = config["project"] /\ keyring' = keyring
      /\ revoked' = revoked /\ pc' = pc /\ job' = job
  BY DEF Approve, secrets
<1>2. TypeOK'
  BY <1>1 DEF Inv, TypeOK, Scopes
<1>3. KeyInv'
  BY <1>1 DEF Inv, KeyInv, FilesDrawn, SeenDrawn, PendingOK, Pending, KeysDiffer, RemoveOK, Drawn
<1>4. QED
  BY <1>2, <1>3 DEF Inv

LEMMA StutterInv ==
    ASSUME Inv, UNCHANGED vars
    PROVE  Inv'
BY DEF vars, Inv, TypeOK, KeyInv, FilesDrawn, SeenDrawn, PendingOK, Pending, KeysDiffer,
       RemoveOK, Drawn

----------------------------------------------------------------------------
(* The invariant.                                                            *)

LEMMA InitInv == Init => Inv
<1>1. SUFFICES ASSUME Init PROVE Inv
  OBVIOUS
<1>2. \A p \in Processes : pc[p] = "idle" /\ job[p] = NoJob
  BY <1>1 DEF Init
<1>3. TypeOK
  BY <1>1, <1>2, NoJobTyped DEF Init, TypeOK, Contents, Scopes
<1>4. KeyInv
  BY <1>1, <1>2, NoJobEmpty DEF Init, KeyInv, FilesDrawn, SeenDrawn, PendingOK, Pending,
                          KeysDiffer, RemoveOK
<1>5. QED
  BY <1>1, <1>3, <1>4 DEF Inv

LEMMA NextInv ==
    ASSUME Inv, [Next]_vars
    PROVE  Inv'
<1>1. ASSUME NEW p \in Processes, Begin(p) PROVE Inv'
  <2>1. ASSUME NEW op \in Requests, NEW tool \in Tools \cup {None}, Invoke(p, op, tool)
        PROVE  Inv'
    BY <2>1, InvokeInv
  <2>2. ASSUME NEW op \in Policies, NEW tool \in Targets, NEW scope \in Scopes,
               Policy(p, op, tool, scope)
        PROVE  Inv'
    BY <2>2, PolicyInv, TargetsAssumption
  <2>3. ASSUME NEW scope \in Scopes, Configure(p, scope) PROVE Inv'
    BY <2>3, ConfigureInv
  <2>4. QED
    BY <1>1, <2>1, <2>2, <2>3, LogoutInv, LoginInv DEF Begin
<1>2. ASSUME NEW p \in Processes, Step(p) PROVE Inv'
  BY <1>2, AdmitInv, OptionsInv, AuthorizeInv, SendInv, ListedInv, SelectInv, RoundInv,
     PrepareInv, CommitInv, CheckLogoutInv DEF Step
<1>3. ASSUME NEW p \in Processes, Answer(p) PROVE Inv'
  BY <1>3, ConnectedInv, PageInv, CallAnsweredInv, ChallengedInv DEF Answer
<1>4. ASSUME NEW p \in Processes, Outside(p) PROVE Inv'
  <2>1. ASSUME Fail(p) PROVE Inv'
    BY <2>1, QuietEnd DEF Fail
  <2>2. QED
    BY <1>4, <2>1, SaveInv, SaveFailedInv, RemoveInv, LoginStepInv DEF Outside
<1>5. ASSUME NEW scope \in Scopes, NEW content \in Edits[scope] \cup {None},
             Edit(scope, content)
      PROVE  Inv'
  BY <1>5, EditInv
<1>6. QED
  BY <1>1, <1>2, <1>3, <1>4, <1>5, ApproveInv, StutterInv DEF Next

LEMMA Invariant == Spec => []Inv
BY InitInv, NextInv, PTL DEF Spec

(* Every variable keeps to its set, and a command has at each step what the  *)
(* step presupposes: in particular a reference is there to be entered.       *)
THEOREM TypeCorrect == Spec => []TypeOK
<1>1. Inv => TypeOK
  BY DEF Inv
<1>2. QED
  BY <1>1, Invariant, PTL

(* A definition never refers to an item that is missing from the keyring for *)
(* another reason than a logout (configure::execute), for any number of      *)
(* configurations, edits and logouts at a time.                              *)
THEOREM ReferencesStored == Spec => []ReferenceStored
<1>1. Inv => ReferenceStored
  BY DEF Inv, KeyInv, FilesDrawn, ReferenceStored, Drawn
<1>2. QED
  BY <1>1, Invariant, PTL

----------------------------------------------------------------------------
(* Steps.                                                                    *)

Runs(p) == Begin(p) \/ Step(p) \/ Answer(p) \/ Outside(p)

LEMMA NextCases ==
    ASSUME Next
    PROVE  \/ \E p \in Processes : Runs(p)
           \/ pc' = pc /\ job' = job
BY DEF Next, Runs, Edit, Approve

LEMMA OthersStay ==
    ASSUME Inv, NEW p \in Processes, NEW q \in Processes, q # p, Runs(q)
    PROVE  pc'[p] = pc[p] /\ job'[p] = job[p]
<1>1. \A step, j : Goto(q, step) /\ Update(q, j) => pc'[p] = pc[p] /\ job'[p] = job[p]
  BY DEF Inv, TypeOK, Goto, Update
<1>2. End(q) => pc'[p] = pc[p] /\ job'[p] = job[p]
  BY <1>1 DEF End
<1>3. CASE Begin(q)
  BY <1>1, <1>3 DEF Begin, Invoke, Policy, Configure, Logout, Login
<1>4. CASE Step(q)
  <2>1. (Prepare(q) \/ CheckLogout(q)) => pc'[p] = pc[p] /\ job'[p] = job[p]
    BY DEF Inv, TypeOK, Goto, Prepare, CheckLogout
  <2>2. QED
    BY <1>1, <1>2, <1>4, <2>1
       DEF Step, Admit, Options, Authorize, Send, Listed, Select, Round, Commit, Proceed
<1>5. CASE Answer(q)
  BY <1>1, <1>2, <1>5 DEF Answer, Connected, Page, CallAnswered, Challenged, Proceed
<1>6. CASE Outside(q)
  BY <1>1, <1>2, <1>6 DEF Outside, Save, SaveFailed, Remove, LoginStep, Fail, Proceed
<1>7. QED
  BY <1>3, <1>4, <1>5, <1>6 DEF Runs

(* From some points there is only one way on.                                *)
LEMMA FromProvider ==
    ASSUME NEW p \in Processes, pc[p] = "provider", Runs(p)
    PROVE  Send(p) \/ End(p)
BY DEF Runs, Begin, Invoke, Policy, Configure, Logout, Login, Step, Admit, Options,
       Authorize, Listed, Select, Round, Prepare, Commit, CheckLogout, Answer, Connected,
       Page, CallAnswered, Challenged, Awaits, Outside, Save, SaveFailed, Remove,
       LoginStep, Fail

LEMMA FromUpdate ==
    ASSUME NEW p \in Processes, pc[p] = "update", Runs(p)
    PROVE  Commit(p) \/ Quiet
BY DEF Runs, Begin, Invoke, Policy, Configure, Logout, Login, Step, Admit, Options,
       Authorize, Send, Listed, Select, Round, Prepare, CheckLogout, Answer, Connected,
       Page, CallAnswered, Challenged, Awaits, Outside, Save, SaveFailed, Remove,
       LoginStep, Fail

----------------------------------------------------------------------------
(* Requests under the policy.                                                *)

(* The policy under which a command calls a tool enables it: the identity it *)
(* has read has not changed since the tool was last looked at.               *)
CallOK(p) ==
    /\ pc[p] \in {"admit", "options"} => job[p].request = "connect"
    /\ pc[p] \in {"authorize", "provider"} /\ job[p].request = "call" =>
         job[p].tool \notin job[p].seen.server.disabled

CallInv == \A p \in Processes : CallOK(p)

LEMMA CallStep ==
    ASSUME Inv, NEW p \in Processes, NEW step, NEW j, Goto(p, step), Update(p, j),
           step \in {"admit", "options"} => j.request = "connect",
           step \in {"authorize", "provider"} /\ j.request = "call" =>
             j.tool \notin j.seen.server.disabled
    PROVE  CallOK(p)'
<1>1. pc'[p] = step /\ job'[p] = j
  BY StepFacts DEF Inv
<1>2. QED
  BY <1>1 DEF CallOK

(* Steps to points where no request is about to be sent.                     *)
LEMMA AwayStep ==
    ASSUME Inv, NEW p \in Processes, NEW step, NEW j, Goto(p, step), Update(p, j),
           step \notin {"admit", "options", "authorize", "provider"}
    PROVE  CallOK(p)'
BY CallStep

LEMMA CallEnd ==
    ASSUME Inv, NEW p \in Processes, End(p)
    PROVE  CallOK(p)'
BY AwayStep DEF End

LEMMA CallRuns ==
    ASSUME Inv, CallInv, NEW p \in Processes, Runs(p)
    PROVE  CallOK(p)'
<1>1. job[p] \in Jobs /\ CallOK(p)
  BY JobTyped DEF CallInv
<1>2. ASSUME NEW op \in Requests, NEW tool \in Tools \cup {None}, Invoke(p, op, tool)
      PROVE  CallOK(p)'
  <2>1. NewJob(op, tool, "user", None, None).request = "connect"
    BY DEF NewJob
  <2>2. QED
    BY <1>2, <2>1, CallStep DEF Invoke
<1>3. ASSUME NEW op \in Policies, NEW tool \in Targets, NEW scope \in Scopes,
             Policy(p, op, tool, scope)
      PROVE  CallOK(p)'
  <2>1. NewJob(op, tool, scope, None, config[scope]).request = "connect"
    BY DEF NewJob
  <2>2. PICK step \in {"commit", "admit"} :
          Goto(p, step) /\ Update(p, NewJob(op, tool, scope, None, config[scope]))
    BY <1>3 DEF Policy
  <2>3. QED
    BY <2>1, <2>2, CallStep
<1>4. CASE Configure(p, "user") \/ Configure(p, "project") \/ Logout(p) \/ Login(p)
  BY <1>4, AwayStep DEF Configure, Logout, Login
<1>5. CASE Admit(p)
  <2>1. [job[p] EXCEPT !.seen = Identity].request = "connect"
    BY <1>1, <1>5 DEF Jobs, CallOK, Admit
  <2>2. QED
    BY <1>5, <2>1, CallStep, CallEnd DEF Admit, Proceed
<1>6. CASE Options(p)
  BY <1>1, <1>6, CallStep, CallEnd DEF Options, Proceed, CallOK
<1>7. CASE Authorize(p)
  BY <1>1, <1>7, CallStep, CallEnd DEF Authorize, Proceed, CallOK
<1>8. CASE Send(p)
  BY <1>8, AwayStep, CallEnd DEF Send, Proceed
<1>9. CASE Listed(p)
  BY <1>9, AwayStep, CallEnd DEF Listed, Proceed
<1>10. CASE Select(p)
  BY <1>10, AwayStep, CallEnd DEF Select, Proceed
<1>11. CASE Round(p)
  <2>1. CASE RecheckCall(job[p]) /\ Goto(p, "authorize")
             /\ Update(p, [job[p] EXCEPT !.rounds = @ + 1])
    <3>1. job[p].tool \notin job[p].seen.server.disabled
      <4>1. job[p].seen.server = config[Source]
        BY <2>1 DEF RecheckCall, Recheck, Identity
      <4>2. QED
        BY <2>1, <4>1 DEF RecheckCall, Enabled
    <3>2. /\ [job[p] EXCEPT !.rounds = @ + 1].tool = job[p].tool
          /\ [job[p] EXCEPT !.rounds = @ + 1].seen = job[p].seen
      BY <1>1 DEF Jobs
    <3>3. QED
      BY <2>1, <3>1, <3>2, CallStep
  <2>2. QED
    BY <1>11, <2>1, CallEnd DEF Round, Proceed
<1>12. CASE Prepare(p) \/ CheckLogout(p)
  <2>1. Update(p, job[p])
    BY <1>12 DEF Prepare, CheckLogout, Update, Inv, TypeOK
  <2>2. QED
    BY <1>12, <2>1, AwayStep DEF Prepare, CheckLogout
<1>13. CASE Connected(p)
  <2>1. [job[p] EXCEPT !.request = "list"].request = "list"
    BY <1>1 DEF Jobs
  <2>2. QED
    BY <1>13, <2>1, CallStep DEF Connected
<1>14. ASSUME NEW new \in SUBSET Tools, NEW good \in SUBSET Tools,
              NEW cursor \in Cursors \cup {None}, Page(p, new, good, cursor)
       PROVE  CallOK(p)'
  <2>1. CASE End(p)
    BY <2>1, CallEnd
  <2>2. CASE \E j : Goto(p, "listed") /\ Update(p, j)
    BY <2>2, AwayStep
  <2>3. CASE /\ Goto(p, "authorize")
             /\ Update(p, [AppendTools(p, new, good) EXCEPT !.cursors = @ \cup {cursor}])
    <3>1. [AppendTools(p, new, good) EXCEPT !.cursors = @ \cup {cursor}].request = "list"
      BY <1>1, <1>14 DEF Jobs, AppendTools, Page, Awaits
    <3>2. QED
      BY <2>3, <3>1, CallStep
  <2>4. QED
    BY <1>14, <2>1, <2>2, <2>3 DEF Page, Proceed
<1>15. CASE CallAnswered(p) \/ Challenged(p)
  BY <1>15, AwayStep, CallEnd DEF CallAnswered, Challenged, Proceed
<1>16. ASSUME NEW k \in Keys, Save(p, k) \/ SaveFailed(p, k)
       PROVE  CallOK(p)'
  BY <1>16, AwayStep, CallEnd DEF Save, SaveFailed
<1>17. CASE Remove(p) \/ Fail(p) \/ Commit(p)
  BY <1>17, CallEnd DEF Remove, Fail, Commit
<1>18. CASE LoginStep(p)
  <2>1. PICK step \in {<<"register", "browser">>, <<"browser", "exchange">>,
                       <<"exchange", "stored">>} :
          Proceed(Recheck(job[p]), p, step[2], job[p])
    BY <1>18 DEF LoginStep
  <2>2. step[2] \in {"browser", "exchange", "stored"}
    BY <2>1
  <2>3. QED
    BY <2>1, <2>2, AwayStep, CallEnd DEF Proceed
<1>19. CASE Begin(p)
  BY <1>2, <1>3, <1>4, <1>19 DEF Begin, Scopes
<1>20. CASE Step(p)
  BY <1>5, <1>6, <1>7, <1>8, <1>9, <1>10, <1>11, <1>12, <1>17, <1>20 DEF Step
<1>21. CASE Answer(p)
  BY <1>13, <1>14, <1>15, <1>21 DEF Answer
<1>22. CASE Outside(p)
  BY <1>16, <1>17, <1>18, <1>22 DEF Outside
<1>23. QED
  BY <1>19, <1>20, <1>21, <1>22 DEF Runs

LEMMA CallNext ==
    ASSUME Inv, CallInv, [Next]_vars
    PROVE  CallInv'
<1>1. SUFFICES ASSUME NEW p \in Processes PROVE CallOK(p)'
  BY DEF CallInv
<1>2. CASE pc' = pc /\ job' = job
  BY <1>2 DEF CallInv, CallOK
<1>3. ASSUME NEW q \in Processes, Runs(q) PROVE CallOK(p)'
  <2>1. CASE q = p
    BY <1>3, <2>1, CallRuns
  <2>2. CASE q # p
    BY <1>3, <2>2, OthersStay DEF CallInv, CallOK
  <2>3. QED
    BY <2>1, <2>2
<1>4. QED
  BY <1>2, <1>3, NextCases DEF vars

LEMMA CallInvariant == Spec => []CallInv
<1>1. Init => CallInv
  BY DEF Init, CallInv, CallOK
<1>2. QED
  BY <1>1, CallNext, Invariant, PTL DEF Spec

LEMMA SendsCurrent ==
    ASSUME Inv, CallInv, [Next]_vars, NEW p \in Processes,
           pc[p] = "provider", pc'[p] = "sent"
    PROVE  /\ Admissible(None)
           /\ config[Source].endpoint = job[p].seen.server.endpoint
           /\ config[Source].bearer = job[p].seen.server.bearer
           /\ job[p].request = "call" => Enabled(job[p].tool)
<1>1. Runs(p)
  BY NextCases, OthersStay DEF vars
<1>2. ~End(p)
  BY StepFacts DEF End, Inv
<1>3. Recheck(job[p])
  BY <1>1, <1>2, FromProvider DEF Send, Proceed
<1>4. job[p].seen.server = config[Source] /\ Admissible(None)
  BY <1>3 DEF Recheck, Identity
<1>5. job[p].request = "call" => Enabled(job[p].tool)
  BY <1>4 DEF CallInv, CallOK, Admissible, Enabled
<1>6. QED
  BY <1>4, <1>5

(* A request goes where the trusted and enabled definition of the moment     *)
(* says, with its secrets, and a call only to a tool that is enabled.        *)
THEOREM SentUnderPolicy == Spec => SentCurrent
<1>1. Inv /\ CallInv /\ [Next]_vars =>
        [\A p \in Processes : pc[p] = "provider" /\ pc'[p] = "sent" =>
           /\ Admissible(None)
           /\ config[Source].endpoint = job[p].seen.server.endpoint
           /\ config[Source].bearer = job[p].seen.server.bearer
           /\ job[p].request = "call" => Enabled(job[p].tool)]_vars
  BY SendsCurrent
<1>2. QED
  BY <1>1, Invariant, CallInvariant, PTL DEF Spec, SentCurrent

----------------------------------------------------------------------------
(* Definitions change in one field.                                          *)

LEMMA ChangedFields ==
    ASSUME NEW j \in Jobs, NEW current \in Servers, j.target = current
    PROVE  \A field \in DOMAIN current \ Own(j) :
             Changed(j, current)[field] = current[field]
<1>1. DOMAIN current = {"endpoint", "bearer", "enabled", "disabled"}
  BY DEF Servers
<1>2. CASE j.op = "configure"
  BY <1>1, <1>2 DEF Changed, Own, Servers
<1>3. CASE j.op # "configure" /\ j.tool = None
  BY <1>1, <1>3 DEF Changed, Own, Servers
<1>4. CASE j.op # "configure" /\ j.tool # None
  BY <1>1, <1>4 DEF Changed, Own, Servers
<1>5. QED
  BY <1>2, <1>3, <1>4

LEMMA KeepsOthers ==
    ASSUME Inv, [Next]_vars, NEW p \in Processes, NEW s \in Scopes,
           pc[p] = "update", pc'[p] = "idle", config'[s] # config[s]
    PROVE  /\ config[s] # None /\ config'[s] # None
           /\ \A field \in DOMAIN config[s] \ Own(job[p]) :
                config'[s][field] = config[s][field]
<1>1. Runs(p)
  BY NextCases, OthersStay DEF vars
<1>2. Commit(p)
  BY <1>1, FromUpdate DEF Quiet, files
<1>3. job[p] \in Jobs /\ Fits("update", job[p])
  BY JobTyped
<1>4. /\ config[job[p].scope] = job[p].target
      /\ config' = [config EXCEPT ![job[p].scope] = Changed(job[p], config[job[p].scope])]
  BY <1>2 DEF Commit, Unmoved
<1>5. /\ s = job[p].scope /\ config[s] \in Servers
      /\ config'[s] = Changed(job[p], config[s])
  BY <1>3, <1>4 DEF Inv, TypeOK, Fits
<1>6. Changed(job[p], config[s]) \in Servers
  BY <1>3, <1>5, ChangedTyped
<1>7. QED
  BY <1>3, <1>4, <1>5, <1>6, ChangedFields, NamesAssumption

(* No command undoes what another command or a person wrote into another     *)
(* field of the definition while it waited.                                  *)
THEOREM OnlyOwnField == Spec => NothingLost
<1>1. Inv /\ [Next]_vars =>
        [\A p \in Processes, s \in Scopes :
           pc[p] = "update" /\ pc'[p] = "idle" /\ config'[s] # config[s] =>
             /\ config[s] # None /\ config'[s] # None
             /\ \A field \in DOMAIN config[s] \ Own(job[p]) :
                  config'[s][field] = config[s][field]]_vars
  BY KeepsOthers
<1>2. QED
  BY <1>1, Invariant, PTL DEF Spec, NothingLost

----------------------------------------------------------------------------
(* How long a command can take.                                              *)

(* The requests a command may send after the one it is about to send, or     *)
(* has sent.                                                                 *)
AfterThis(j) ==
    CASE j.request = "connect" -> Pages + Rounds
      [] j.request = "list"    -> (Pages - 1 - j.pages) + Rounds
      [] OTHER                 -> Rounds - j.rounds

(* The steps to the end, or to the answer of the request.                    *)
StepsLeft(step) ==
    CASE step \in {"prompt", "authorize"}                 -> 4
      [] step \in {"commit", "register", "provider"}      -> 3
      [] step \in {"update", "browser", "logout", "sent"} -> 2
      [] step \in {"exchange", "remove"}                  -> 1
      [] OTHER                                            -> 0

(* The most steps a command can still take.                                  *)
ToGo(step, j) ==
    CASE step = "admit"   -> 5 * (Pages + Rounds) + 13
      [] step = "options" -> 5 * (Pages + Rounds) + 12
      [] step \in {"authorize", "provider", "sent"} -> 5 * AfterThis(j) + 7 + StepsLeft(step)
      [] step = "listed"  -> 5 * Rounds + 8
      [] step = "round"   -> 5 * (Rounds - j.rounds) + 7
      [] step = "idle"    -> 0
      [] OTHER            -> StepsLeft(step) + 1

Longest == 5 * (Pages + Rounds) + 13

LEMMA AfterThisBounds ==
    ASSUME NEW j \in Jobs
    PROVE  /\ j.pages \in 0 .. Pages - 1 /\ j.rounds \in 0 .. Rounds
           /\ AfterThis(j) \in 0 .. Pages + Rounds
           /\ j.request = "list" => AfterThis(j) = (Pages - 1 - j.pages) + Rounds
           /\ j.request = "call" => AfterThis(j) = Rounds - j.rounds
<1>1. j.pages \in 0 .. Pages - 1 /\ j.rounds \in 0 .. Rounds
  BY DEF Jobs
<1>2. QED
  BY <1>1, LimitsAssumption DEF AfterThis

LEMMA ToGoAt ==
    ASSUME NEW j
    PROVE  /\ ToGo("admit", j) = 5 * (Pages + Rounds) + 13
           /\ ToGo("options", j) = 5 * (Pages + Rounds) + 12
           /\ ToGo("authorize", j) = 5 * AfterThis(j) + 7 + 4
           /\ ToGo("provider", j) = 5 * AfterThis(j) + 7 + 3
           /\ ToGo("sent", j) = 5 * AfterThis(j) + 7 + 2
           /\ ToGo("listed", j) = 5 * Rounds + 8
           /\ ToGo("round", j) = 5 * (Rounds - j.rounds) + 7
           /\ ToGo("idle", j) = 0
           /\ ToGo("prompt", j) = 4 + 1 /\ ToGo("commit", j) = 3 + 1 /\ ToGo("update", j) = 2 + 1
           /\ ToGo("logout", j) = 2 + 1 /\ ToGo("remove", j) = 1 + 1
           /\ ToGo("register", j) = 3 + 1 /\ ToGo("browser", j) = 2 + 1
           /\ ToGo("exchange", j) = 1 + 1 /\ ToGo("stored", j) = 0 + 1
           /\ ToGo("challenged", j) = 0 + 1
BY DEF ToGo, StepsLeft

(* The bound is a number; it is zero only at the end.                        *)
LEMMA ToGoBounds ==
    ASSUME NEW j \in Jobs, NEW step \in PCs
    PROVE  ToGo(step, j) \in 0 .. Longest /\ (step # "idle" => ToGo(step, j) > 0)
BY ToGoAt, AfterThisBounds, LimitsAssumption DEF PCs, Requesting, Longest

Nearer(p) == ToGo(pc'[p], job'[p]) < ToGo(pc[p], job[p])

LEMMA NearerEnd ==
    ASSUME Inv, NEW p \in Processes, pc[p] # "idle", End(p)
    PROVE  Nearer(p)
<1>1. pc'[p] = "idle" /\ ToGo(pc'[p], job'[p]) = 0
  BY StepFacts, ToGoAt DEF Inv, End
<1>2. pc[p] \in PCs /\ job[p] \in Jobs
  BY DEF Inv, TypeOK
<1>3. ToGo(pc[p], job[p]) \in 0 .. Longest /\ ToGo(pc[p], job[p]) > 0
  BY <1>2, ToGoBounds
<1>4. QED
  BY <1>1, <1>3 DEF Nearer, Longest

LEMMA NearerStep ==
    ASSUME Inv, NEW p \in Processes, NEW step, NEW j, Goto(p, step), Update(p, j),
           ToGo(step, j) < ToGo(pc[p], job[p])
    PROVE  Nearer(p)
BY StepFacts DEF Inv, Nearer

(* Where a call asks for another round, it is at the request of a call.      *)
Calling(p) == pc[p] = "round" => job[p].request = "call"

LEMMA ProceedNearer ==
    ASSUME Inv, NEW p \in Processes, pc[p] # "idle", NEW check, NEW step, NEW j,
           Proceed(check, p, step, j), check => ToGo(step, j) < ToGo(pc[p], job[p])
    PROVE  Nearer(p)
BY NearerEnd, NearerStep DEF Proceed

LEMMA StepNearer ==
    ASSUME Inv, NEW p \in Processes, Calling(p), Step(p)
    PROVE  Nearer(p)
<1>0. job[p] \in Jobs /\ Pages \in Nat /\ Rounds \in Nat
  BY LimitsAssumption DEF Inv, TypeOK
<1>1. CASE Admit(p)
  BY <1>0, <1>1, ToGoAt, ProceedNearer DEF Admit
<1>2. CASE Options(p)
  <2>1. ToGo("authorize", job[p]) < ToGo("options", job[p])
    BY <1>0, ToGoAt, AfterThisBounds
  <2>2. QED
    BY <1>2, <2>1, ProceedNearer DEF Options
<1>3. CASE Authorize(p)
  <2>1. ToGo("provider", job[p]) < ToGo("authorize", job[p])
    BY <1>0, ToGoAt, AfterThisBounds
  <2>2. QED
    BY <1>3, <2>1, ProceedNearer DEF Authorize
<1>4. CASE Send(p)
  <2>1. ToGo("sent", job[p]) < ToGo("provider", job[p])
    BY <1>0, ToGoAt, AfterThisBounds
  <2>2. QED
    BY <1>4, <2>1, ProceedNearer DEF Send
<1>5. CASE Listed(p)
  <2>1. \A j : ToGo("commit", j) < ToGo("listed", job[p])
    BY <1>0, ToGoAt
  <2>2. QED
    BY <1>5, <2>1, ProceedNearer DEF Listed
<1>6. CASE Select(p)
  <2> DEFINE j == [job[p] EXCEPT !.request = "call", !.found = {}]
  <2>1. j.rounds = job[p].rounds /\ job[p].rounds \in 0 .. Rounds
    BY <1>0 DEF Jobs
  <2>2. ToGo("round", j) = 5 * (Rounds - j.rounds) + 7 /\ ToGo("listed", job[p]) = 5 * Rounds + 8
    BY ToGoAt
  <2>3. ToGo("round", j) < ToGo("listed", job[p])
    BY <1>0, <2>1, <2>2
  <2>4. QED
    BY <1>6, <2>3, ProceedNearer DEF Select
<1>7. CASE Round(p)
  <2> DEFINE j == [job[p] EXCEPT !.rounds = @ + 1]
  <2>1. j.request = "call" /\ j.rounds = job[p].rounds + 1 /\ job[p].rounds \in Nat
    BY <1>0, <1>7 DEF Jobs, Calling, Round
  <2>2. AfterThis(j) = Rounds - (job[p].rounds + 1)
    BY <2>1 DEF AfterThis
  <2>3. job[p].rounds < Rounds => ToGo("authorize", j) < ToGo("round", job[p])
    BY <1>0, <2>1, <2>2, ToGoAt
  <2>4. QED
    BY <1>7, <2>3, ProceedNearer DEF Round
<1>8. CASE Prepare(p)
  <2>1. Update(p, job[p])
    BY <1>8 DEF Prepare, Update, Inv, TypeOK
  <2>2. QED
    BY <1>8, <2>1, ToGoAt, NearerStep DEF Prepare
<1>9. CASE Commit(p)
  BY <1>9, NearerEnd DEF Commit
<1>10. CASE CheckLogout(p)
  <2>1. Update(p, job[p])
    BY <1>10 DEF CheckLogout, Update, Inv, TypeOK
  <2>2. QED
    BY <1>10, <2>1, ToGoAt, NearerStep DEF CheckLogout
<1>11. QED
  BY <1>1, <1>2, <1>3, <1>4, <1>5, <1>6, <1>7, <1>8, <1>9, <1>10 DEF Step

LEMMA AnswerNearer ==
    ASSUME Inv, NEW p \in Processes, Answer(p)
    PROVE  Nearer(p)
<1>0. job[p] \in Jobs /\ Pages \in Nat /\ Rounds \in Nat
  BY LimitsAssumption DEF Inv, TypeOK
<1>1. CASE Connected(p)
  <2> DEFINE j == [job[p] EXCEPT !.request = "list"]
  <2>1. j.request = "list" /\ j.pages \in 0 .. Pages - 1 /\ job[p].request = "connect"
    BY <1>0, <1>1 DEF Jobs, Connected, Awaits
  <2>2. AfterThis(j) = (Pages - 1 - j.pages) + Rounds /\ AfterThis(job[p]) = Pages + Rounds
    BY <2>1 DEF AfterThis
  <2>3. ToGo("authorize", j) < ToGo("sent", job[p])
    BY <1>0, <2>1, <2>2, ToGoAt
  <2>4. QED
    BY <1>1, <2>3, NearerStep DEF Connected, Awaits
<1>2. ASSUME NEW new \in SUBSET Tools, NEW good \in SUBSET Tools,
             NEW cursor \in Cursors \cup {None}, Page(p, new, good, cursor)
      PROVE  Nearer(p)
  <2>0. pc[p] = "sent" /\ job[p].request = "list"
    BY <1>2 DEF Page, Awaits
  <2>1. /\ AfterThis(job[p]) = (Pages - 1 - job[p].pages) + Rounds
        /\ job[p].pages \in 0 .. Pages - 1
    BY <1>0, <2>0, AfterThisBounds
  <2>2. \A j : ToGo("listed", j) < ToGo("sent", job[p])
    BY <1>0, <2>1, ToGoAt
  <2> DEFINE j == [AppendTools(p, new, good) EXCEPT !.cursors = @ \cup {cursor}]
  <2>3. j.request = "list" /\ j.pages = job[p].pages + 1
    BY <1>0, <2>0 DEF Jobs, AppendTools
  <2>4. AfterThis(j) = (Pages - 1 - (job[p].pages + 1)) + Rounds
    BY <2>3 DEF AfterThis
  <2>5. ToGo("authorize", j) < ToGo("sent", job[p])
    BY <1>0, <2>1, <2>4, ToGoAt
  <2>6. CASE End(p)
    BY <2>0, <2>6, NearerEnd
  <2>7. CASE \E i : Goto(p, "listed") /\ Update(p, i)
    BY <2>0, <2>2, <2>7, NearerStep
  <2>8. CASE Proceed(Continues(p, cursor), p, "authorize", j)
    BY <2>0, <2>5, <2>8, ProceedNearer
  <2>9. QED
    BY <1>2, <2>6, <2>7, <2>8 DEF Page
<1>3. CASE CallAnswered(p)
  <2>1. pc[p] = "sent" /\ AfterThis(job[p]) = Rounds - job[p].rounds
        /\ job[p].rounds \in 0 .. Rounds
    BY <1>0, <1>3, AfterThisBounds DEF CallAnswered, Awaits
  <2>2. ToGo("round", job[p]) < ToGo("sent", job[p])
    BY <1>0, <2>1, ToGoAt
  <2>3. QED
    BY <1>3, <2>1, <2>2, ProceedNearer, NearerEnd DEF CallAnswered
<1>4. CASE Challenged(p)
  <2>1. ToGo("challenged", job[p]) < ToGo("sent", job[p])
    BY <1>0, ToGoAt, AfterThisBounds
  <2>2. QED
    BY <1>4, <2>1, ProceedNearer DEF Challenged
<1>5. QED
  BY <1>1, <1>2, <1>3, <1>4 DEF Answer

LEMMA OutsideNearer ==
    ASSUME Inv, NEW p \in Processes, Outside(p)
    PROVE  Nearer(p)
<1>1. ASSUME NEW k \in Keys, Save(p, k)
      PROVE  Nearer(p)
  <2>1. \A j : ToGo("commit", j) < ToGo("prompt", job[p])
    BY ToGoAt
  <2>2. QED
    BY <1>1, <2>1, NearerStep DEF Save
<1>2. ASSUME NEW k \in Keys, SaveFailed(p, k)
      PROVE  Nearer(p)
  BY <1>2, NearerEnd DEF SaveFailed
<1>3. CASE Remove(p) \/ Fail(p)
  BY <1>3, NearerEnd DEF Remove, Fail
<1>4. CASE LoginStep(p)
  <2>1. CASE pc[p] = "register" /\ Proceed(Recheck(job[p]), p, "browser", job[p])
    BY <2>1, ToGoAt, ProceedNearer
  <2>2. CASE pc[p] = "browser" /\ Proceed(Recheck(job[p]), p, "exchange", job[p])
    BY <2>2, ToGoAt, ProceedNearer
  <2>3. CASE pc[p] = "exchange" /\ Proceed(Recheck(job[p]), p, "stored", job[p])
    BY <2>3, ToGoAt, ProceedNearer
  <2>4. QED
    BY <1>4, <2>1, <2>2, <2>3 DEF LoginStep
<1>5. QED
  BY <1>1, <1>2, <1>3, <1>4 DEF Outside

LEMMA BeginIdle ==
    ASSUME NEW p \in Processes, Begin(p)
    PROVE  pc[p] = "idle"
BY DEF Begin, Invoke, Policy, Configure, Logout, Login

LEMMA CallingStep ==
    ASSUME Inv, NEW p \in Processes, NEW step, NEW j, Goto(p, step), Update(p, j),
           step = "round" => j.request = "call"
    PROVE  Calling(p)'
<1>1. pc'[p] = step /\ job'[p] = j
  BY StepFacts DEF Inv
<1>2. QED
  BY <1>1 DEF Calling

LEMMA CallingProceed ==
    ASSUME Inv, NEW p \in Processes, NEW check, NEW step, NEW j, Proceed(check, p, step, j),
           step = "round" => j.request = "call"
    PROVE  Calling(p)'
BY CallingStep DEF Proceed, End

LEMMA CallingRuns ==
    ASSUME Inv, NEW p \in Processes, Runs(p)
    PROVE  Calling(p)'
<1>1. CASE Begin(p)
  BY <1>1, CallingStep DEF Begin, Invoke, Policy, Configure, Logout, Login
<1>2. CASE Step(p)
  <2>1. CASE Select(p)
    <3>1. [job[p] EXCEPT !.request = "call", !.found = {}].request = "call"
      BY DEF Inv, TypeOK, Jobs
    <3>2. QED
      BY <2>1, <3>1, CallingProceed DEF Select
  <2>2. CASE Prepare(p) \/ CheckLogout(p)
    <3>1. Update(p, job[p])
      BY <2>2 DEF Prepare, CheckLogout, Update, Inv, TypeOK
    <3>2. QED
      BY <2>2, <3>1, CallingStep DEF Prepare, CheckLogout
  <2>3. CASE Admit(p) \/ Options(p) \/ Authorize(p) \/ Send(p) \/ Listed(p) \/ Round(p)
    BY <2>3, CallingProceed DEF Admit, Options, Authorize, Send, Listed, Round
  <2>4. CASE Commit(p)
    BY <2>4, CallingStep DEF Commit, End
  <2>5. QED
    BY <1>2, <2>1, <2>2, <2>3, <2>4 DEF Step
<1>3. CASE Answer(p)
  <2>1. CASE Connected(p)
    BY <2>1, CallingStep DEF Connected
  <2>2. ASSUME NEW new, NEW good, NEW cursor, Page(p, new, good, cursor)
        PROVE  Calling(p)'
    BY <2>2, CallingStep, CallingProceed DEF Page, End
  <2>3. CASE CallAnswered(p)
    BY <2>3, CallingStep, CallingProceed DEF CallAnswered, End, Awaits
  <2>4. CASE Challenged(p)
    BY <2>4, CallingProceed DEF Challenged
  <2>5. QED
    BY <1>3, <2>1, <2>2, <2>3, <2>4 DEF Answer
<1>4. CASE Outside(p)
  <2>1. ASSUME NEW k, Save(p, k) \/ SaveFailed(p, k)
        PROVE  Calling(p)'
    BY <2>1, CallingStep DEF Save, SaveFailed, End
  <2>2. CASE Remove(p) \/ Fail(p)
    BY <2>2, CallingStep DEF Remove, Fail, End
  <2>3. CASE LoginStep(p)
    BY <2>3, CallingProceed DEF LoginStep
  <2>4. QED
    BY <1>4, <2>1, <2>2, <2>3 DEF Outside
<1>5. QED
  BY <1>1, <1>2, <1>3, <1>4 DEF Runs

CallingInv == \A p \in Processes : Calling(p)

LEMMA CallingInvariant == Spec => []CallingInv
<1>1. Init => CallingInv
  BY DEF Init, CallingInv, Calling
<1>2. Inv /\ CallingInv /\ [Next]_vars => CallingInv'
  <2>1. SUFFICES ASSUME Inv, CallingInv, [Next]_vars, NEW p \in Processes PROVE Calling(p)'
    BY DEF CallingInv
  <2>2. CASE pc' = pc /\ job' = job
    BY <2>1, <2>2 DEF CallingInv, Calling
  <2>3. ASSUME NEW q \in Processes, Runs(q) PROVE Calling(p)'
    BY <2>1, <2>3, CallingRuns, OthersStay DEF CallingInv, Calling
  <2>4. QED
    BY <2>1, <2>2, <2>3, NextCases DEF vars
<1>3. QED
  BY <1>1, <1>2, Invariant, PTL DEF Spec

LEMMA StepsShorten ==
    ASSUME Inv, CallingInv, [Next]_vars, NEW p \in Processes, pc[p] # "idle"
    PROVE  UNCHANGED <<pc[p], job[p]>> \/ Nearer(p)
<1>1. CASE pc' = pc /\ job' = job
  BY <1>1
<1>2. ASSUME NEW q \in Processes, Runs(q)
      PROVE  UNCHANGED <<pc[p], job[p]>> \/ Nearer(p)
  <2>1. CASE q = p
    BY <1>2, <2>1, BeginIdle, StepNearer, AnswerNearer, OutsideNearer DEF Runs, CallingInv
  <2>2. CASE q # p
    BY <1>2, <2>2, OthersStay
  <2>3. QED
    BY <2>1, <2>2
<1>3. QED
  BY <1>1, <1>2, NextCases DEF vars

(* The argument under CommandsEnd, for any limits, commands and tools and    *)
(* whatever servers answer: each step of a command brings it nearer to its   *)
(* end, from a distance that the limits alone bound, and what others do      *)
(* never takes it further away (discover_tools, call_tool_checked).          *)
THEOREM CommandsShorten ==
    Spec => /\ [](\A p \in Processes : /\ ToGo(pc[p], job[p]) \in 0 .. Longest
                                       /\ pc[p] # "idle" => ToGo(pc[p], job[p]) > 0)
            /\ [][\A p \in Processes : pc[p] # "idle" =>
                    \/ UNCHANGED <<pc[p], job[p]>>
                    \/ ToGo(pc'[p], job'[p]) < ToGo(pc[p], job[p])]_vars
<1>1. Inv => \A p \in Processes : /\ ToGo(pc[p], job[p]) \in 0 .. Longest
                                  /\ pc[p] # "idle" => ToGo(pc[p], job[p]) > 0
  BY ToGoBounds DEF Inv, TypeOK
<1>2. Inv /\ CallingInv /\ [Next]_vars =>
        [\A p \in Processes : pc[p] # "idle" =>
           \/ UNCHANGED <<pc[p], job[p]>>
           \/ ToGo(pc'[p], job'[p]) < ToGo(pc[p], job[p])]_vars
  BY StepsShorten DEF Nearer
<1>3. QED
  BY <1>1, <1>2, Invariant, CallingInvariant, PTL DEF Spec
=============================================================================
