--------------------------- MODULE LifecycleProofs ---------------------------
(****************************************************************************)
(* Machine-checked theorems about module Lifecycle, for every number of     *)
(* scopes, callers, guards and configurations.                              *)
(****************************************************************************)
EXTENDS Lifecycle, TLAPS

USE DEF vars, files, slots, requests, guards, outside

LEMMA TypeInit == Init => TypeOK
<1> SUFFICES ASSUME Init PROVE TypeOK
  OBVIOUS
<1>1. IdleJob \in Jobs
  BY DEF IdleJob, Jobs
<1> QED
  BY <1>1 DEF Init, TypeOK, PCs, GuardStates, JobOK, GuardOK, Launching, Connecting

(* The requests' share of the type invariant.                                *)
RequestsOK ==
    /\ pc \in [Requests -> PCs]
    /\ job \in [Requests -> Jobs]
    /\ \A r \in Requests : JobOK(r)

LEMMA TypeReturn ==
  ASSUME TypeOK, NEW r \in Requests, NEW p \in {"idle", "ok"}, Return(r, p)
  PROVE  RequestsOK'
BY DEF TypeOK, RequestsOK, Return, Goto, IdleJob, Jobs, PCs, JobOK, Launching, Connecting

LEMMA TypeResolve ==
  ASSUME TypeOK, NEW c \in Keys
  PROVE  /\ Resolve(c) \in Keys
         /\ Authorized(c) => Identity(c) \in Identities
BY DigestAssumption DEF TypeOK, Resolve, Keys, Authorized, Identity, Identities

(* A handler that goes on keeps the type if its next locals have it.         *)
LEMMA TypeStepOn ==
  ASSUME TypeOK, NEW r \in Requests, NEW p \in PCs, NEW j \in Jobs,
         pc' = [pc EXCEPT ![r] = p], job' = [job EXCEPT ![r] = j],
         JobOK(r)'
  PROVE  RequestsOK'
BY DEF TypeOK, RequestsOK, JobOK

LEMMA TypeGoto ==
  ASSUME TypeOK, NEW r \in Requests, NEW p \in PCs, Goto(r, p), job' = job, JobOK(r)'
  PROVE  RequestsOK'
BY DEF TypeOK, RequestsOK, JobOK, Goto

LEMMA TypeRecheck ==
  ASSUME TypeOK, NEW r \in Requests, NEW p, Recheck(r, p),
         \/ pc[r] = "queued" /\ p = "prepare" /\ Resolve(job[r].cwd) = job[r].key
         \/ pc[r] = "lease" /\ p = "leased"
         \/ pc[r] = "connect" /\ p = "attach"
         \/ /\ pc[r] \in {"invoke", "lookup", "call", "prompt"}
            /\ p \in {"lookup", "report", "final", "answer"}
  PROVE  RequestsOK'
<1> DEFINE j == [job[r] EXCEPT !.seen = Identity(job[r].cwd)]
<1>1. job[r].cwd \in Keys /\ JobOK(r) /\ job[r] \in Jobs
  BY DEF TypeOK, JobOK
<1>2. Identity(job[r].cwd) \in Identities
  BY <1>1, TypeResolve DEF Recheck
<1>3. j \in Jobs
  BY <1>1, <1>2 DEF Jobs, Identities, Planned
<1>4. pc' = [pc EXCEPT ![r] = p] /\ job' = [job EXCEPT ![r] = j]
  BY DEF Recheck, Goto
<1>5. p \in PCs
  BY DEF PCs, ReaderPCs
<1>6. pc'[r] = p /\ job'[r] = j
  BY <1>4 DEF TypeOK
<1>7. p = "prepare" => Identity(job[r].cwd).key = job[r].key
  BY DEF Identity
<1>8. JobOK(r)'
  BY <1>1, <1>2, <1>6, <1>7 DEF JobOK, Launching, Connecting, Jobs, WriterPCs
<1> QED
  BY <1>3, <1>4, <1>5, <1>8, TypeStepOn

(* Every handler step keeps the requests' types.                             *)
LEMMA TypeHandlers ==
  ASSUME TypeOK, NEW r \in Requests, RequestNext(r)
  PROVE  RequestsOK'
<1> USE DEF PCs, ReaderPCs, WriterPCs
<1>0. JobOK(r) /\ job[r] \in Jobs /\ pc[r] \in PCs
  BY DEF TypeOK
<1>1. ASSUME NEW a \in Offered, NEW c \in Keys, NEW e \in Envs, Submit(r, a, c, e)
      PROVE  RequestsOK'
  <2> DEFINE j == [IdleJob EXCEPT !.action = a, !.cwd = c, !.env = e]
  <2>1. j \in Jobs /\ j.action = a /\ j.cwd = c /\ j.env = e
    BY OfferedAssumption DEF Jobs, IdleJob
  <2>2. pc' = [pc EXCEPT ![r] = "gate"] /\ job' = [job EXCEPT ![r] = j]
    BY <1>1 DEF Submit, Goto
  <2>3. JobOK(r)'
    BY <2>1, <2>2, OfferedAssumption DEF TypeOK, JobOK, Launching, Connecting
  <2> QED BY <2>1, <2>2, <2>3, TypeStepOn
<1>2. ASSUME Enter(r) PROVE RequestsOK'
  <2> DEFINE k == Resolve(job[r].cwd)
             j == [job[r] EXCEPT !.key = k]
  <2>1. k \in Keys
    BY <1>0, <1>2, TypeResolve DEF Enter, JobOK
  <2>2. j \in Jobs
    BY <1>0, <2>1 DEF Jobs
  <2>3. pc' = [pc EXCEPT ![r] = "queued"] /\ job' = [job EXCEPT ![r] = j]
    BY <1>2 DEF Enter, Goto
  <2>4. JobOK(r)'
    BY <1>0, <1>2, <2>1, <2>3 DEF TypeOK, JobOK, Jobs, Launching, Connecting, Enter
  <2> QED BY <2>2, <2>3, <2>4, TypeStepOn
<1>3. ASSUME Admit(r) PROVE RequestsOK'
  BY <1>3, TypeRecheck DEF Admit
<1>4. ASSUME Lease(r) PROVE RequestsOK'
  BY <1>4, TypeRecheck DEF Lease
<1>5. ASSUME Connect(r) PROVE RequestsOK'
  BY <1>5, TypeRecheck DEF Connect
<1>6. ASSUME Discover(r) \/ Looked(r) \/ Continue(r) PROVE RequestsOK'
  BY <1>6, TypeRecheck DEF Discover, Looked, Continue
<1>7. ASSUME Answer(r) PROVE RequestsOK'
  BY <1>7, TypeRecheck, TypeReturn DEF Answer
<1>8. ASSUME \/ StopDone(r) \/ AbortDone(r) \/ Report(r) \/ Deleted(r)
      PROVE  RequestsOK'
  BY <1>8, TypeReturn DEF StopDone, AbortDone, Report, Deleted
<1>9. ASSUME Stop(r) \/ Call(r) \/ Ask(r) \/ Quiesce(r) PROVE RequestsOK'
  <2>1. PICK q \in {"stopping", "call", "prompt", "quiesce"} :
          /\ Goto(r, q) /\ job' = job
          /\ q = "stopping" => pc[r] = "queued"
          /\ q = "call" => pc[r] = "final"
          /\ q = "prompt" => pc[r] = "answer"
          /\ q = "quiesce" => pc[r] = "plan"
    BY <1>9 DEF Stop, Call, Ask, Quiesce
  <2>2. JobOK(r)'
    BY <1>0, <2>1 DEF TypeOK, Goto, JobOK, Launching, Connecting
  <2> QED BY <2>1, <2>2, TypeGoto
<1>10. ASSUME pc[r] = "prepare"
       PROVE  RevisionOf(job[r]) \in Revisions /\ RevisionOf(job[r]).key = job[r].key
  BY <1>0, <1>10 DEF JobOK, RevisionOf, Revisions, Identities
<1>11. ASSUME Reuse(r) PROVE RequestsOK'
  <2>1. CASE job[r].action = "start"
    BY <1>11, <2>1, TypeReturn DEF Reuse
  <2>2. CASE job[r].action # "start"
    <3> DEFINE j == [job[r] EXCEPT !.prep = RevisionOf(job[r])]
    <3>1. j \in Jobs
      BY <1>0, <1>10, <1>11 DEF Reuse, Jobs
    <3>2. pc' = [pc EXCEPT ![r] = "invoke"] /\ job' = [job EXCEPT ![r] = j]
      BY <1>11, <2>2 DEF Reuse, Goto
    <3>3. JobOK(r)'
      BY <1>0, <1>11, <3>2 DEF Reuse, TypeOK, JobOK, Jobs, Launching, Connecting
    <3> QED BY <3>1, <3>2, <3>3, TypeStepOn
  <2> QED BY <2>1, <2>2
<1>12. ASSUME Replace(r) PROVE RequestsOK'
  <2> DEFINE j == [job[r] EXCEPT !.prep = RevisionOf(job[r])]
  <2>1. j \in Jobs
    BY <1>0, <1>10, <1>12 DEF Replace, Jobs
  <2>2. PICK q \in {"lease", "replacing"} :
          pc' = [pc EXCEPT ![r] = q] /\ job' = [job EXCEPT ![r] = j]
    BY <1>12 DEF Replace, Goto
  <2>3. JobOK(r)'
    BY <1>0, <1>10, <1>12, <2>2 DEF Replace, TypeOK, JobOK, Jobs, Launching, Connecting
  <2> QED BY <2>1, <2>2, <2>3, TypeStepOn
<1>13. ASSUME ReplaceDone(r) PROVE RequestsOK'
  <2>1. CASE Return(r, "idle")
    BY <2>1, TypeReturn
  <2>2. CASE Goto(r, "lease") /\ UNCHANGED job
    <3>1. JobOK(r)'
      BY <1>0, <1>13, <2>2 DEF ReplaceDone, Goto, TypeOK, JobOK, Launching, Connecting
    <3> QED BY <2>2, <3>1, TypeGoto
  <2> QED BY <1>13, <2>1, <2>2 DEF ReplaceDone
<1>14. ASSUME NEW g \in Guards, Launch(r, g) PROVE RequestsOK'
  <2> DEFINE j == [job[r] EXCEPT !.guard = g]
  <2>1. j \in Jobs
    BY <1>0 DEF Jobs
  <2>2. pc' = [pc EXCEPT ![r] = "connect"] /\ job' = [job EXCEPT ![r] = j]
    BY <1>14 DEF Launch, Goto
  <2>3. JobOK(r)'
    BY <1>0, <1>14, <2>2 DEF Launch, TypeOK, JobOK, Jobs, Launching, Connecting
  <2> QED BY <2>1, <2>2, <2>3, TypeStepOn
<1>15. ASSUME Attach(r) PROVE RequestsOK'
  <2>1. CASE job[r].action = "start"
    BY <1>15, <2>1, TypeReturn DEF Attach
  <2>2. CASE job[r].action # "start"
    <3> DEFINE j == [job[r] EXCEPT !.guard = None]
    <3>1. j \in Jobs
      BY <1>0 DEF Jobs
    <3>2. pc' = [pc EXCEPT ![r] = "invoke"] /\ job' = [job EXCEPT ![r] = j]
      BY <1>15, <2>2 DEF Attach, Goto
    <3>3. JobOK(r)'
      BY <1>0, <1>15, <3>2 DEF Attach, TypeOK, JobOK, Jobs, Launching, Connecting
    <3> QED BY <3>1, <3>2, <3>3, TypeStepOn
  <2> QED BY <2>1, <2>2
<1>16. ASSUME Fail(r) PROVE RequestsOK'
  <2>1. CASE pc[r] \in {"connect", "attach"}
    <3>1. Goto(r, "abort") /\ job' = job
      BY <1>16, <2>1 DEF Fail
    <3>2. JobOK(r)'
      BY <1>0, <2>1, <3>1 DEF Goto, TypeOK, JobOK, Launching, Connecting
    <3> QED BY <3>1, <3>2, TypeGoto
  <2>2. CASE pc[r] \notin {"connect", "attach"}
    BY <1>16, <2>2, TypeReturn DEF Fail
  <2> QED BY <2>1, <2>2
<1>17. ASSUME Plan(r) PROVE RequestsOK'
  <2> DEFINE k == job[r].cwd
             i == [key |-> k, digest |-> config[k]]
             j == [[job[r] EXCEPT !.key = k] EXCEPT !.seen = i]
  <2>1. k \in Keys /\ i \in Planned
    BY <1>0, <1>17 DEF Plan, JobOK, TypeOK, Planned
  <2>2. j \in Jobs /\ j.key = k /\ j.seen = i /\ j.action = job[r].action
        /\ j.cwd = job[r].cwd /\ j.env = job[r].env
    BY <1>0, <2>1 DEF Jobs
  <2>3. pc' = [pc EXCEPT ![r] = "plan"] /\ job' = [job EXCEPT ![r] = j]
    BY <1>17 DEF Plan, Goto, TypeOK
  <2>4. JobOK(r)'
    BY <1>0, <1>17, <2>1, <2>2, <2>3 DEF Plan, TypeOK, JobOK, Launching, Connecting
  <2> QED BY <2>2, <2>3, <2>4, TypeStepOn
<1>18. ASSUME Unregister(r) PROVE RequestsOK'
  <2>1. CASE Return(r, "idle")
    BY <2>1, TypeReturn
  <2>2. CASE Goto(r, "delete") /\ UNCHANGED job
    <3>1. JobOK(r)'
      BY <1>0, <1>18, <2>2 DEF Unregister, Goto, TypeOK, JobOK, Launching, Connecting
    <3> QED BY <2>2, <3>1, TypeGoto
  <2> QED BY <1>18, <2>1, <2>2 DEF Unregister
<1> QED
  BY <1>1, <1>2, <1>3, <1>4, <1>5, <1>6, <1>7, <1>8, <1>9, <1>11, <1>12, <1>13, <1>14,
     <1>15, <1>16, <1>17, <1>18 DEF RequestNext

(* The guards' share.                                                        *)
GuardsOK ==
    /\ gst \in [Guards -> GuardStates]
    /\ gkey \in [Guards -> Keys \cup {None}]
    /\ grev \in [Guards -> Revisions \cup {None}]
    /\ held \in [Guards -> BOOLEAN]
    /\ child \in [Guards -> BOOLEAN]
    /\ stray \in [Guards -> BOOLEAN]
    /\ container \in [Guards -> {"none", "asked", "created", "running", "gone"}]
    /\ marker \subseteq Keys
    /\ \A g \in Guards : GuardOK(g)

LEMMA TypeGuards ==
  ASSUME TypeOK, NEW g \in Guards, GuardNext(g)
  PROVE  GuardsOK'
<1> USE DEF GuardGoto, GuardsOK
<1>0. GuardsOK /\ GuardOK(g) /\ gst[g] \in GuardStates
  BY DEF TypeOK
<1>1. ASSUME GuardLock(g) PROVE GuardsOK'
  BY <1>0, <1>1 DEF GuardLock, GuardStates, GuardOK
<1>2. ASSUME GuardCheck(g) PROVE GuardsOK'
  BY <1>0, <1>2 DEF GuardCheck, GuardStates, GuardOK
<1>3. ASSUME GuardRecord(g) PROVE GuardsOK'
  BY <1>0, <1>3, ScopeAssumption DEF GuardRecord, GuardStates, GuardOK
<1>4. ASSUME GuardSpawn(g) PROVE GuardsOK'
  BY <1>0, <1>4 DEF GuardSpawn, GuardStates, GuardOK
<1>5. ASSUME GuardRefuse(g) \/ GuardKeepRecord(g) \/ GuardKilled(g) PROVE GuardsOK'
  BY <1>0, <1>5 DEF GuardRefuse, GuardKeepRecord, GuardKilled, GuardStates, GuardOK
<1>6. ASSUME GuardWake(g) PROVE GuardsOK'
  BY <1>0, <1>6 DEF GuardWake, GuardStates, GuardOK
<1>7. ASSUME GuardTerminate(g) PROVE GuardsOK'
  BY <1>0, <1>7 DEF GuardTerminate, GuardStates, GuardOK
<1>8. ASSUME GuardList(g) PROVE GuardsOK'
  BY <1>0, <1>8 DEF GuardList, GuardStates, GuardOK
<1>9. ASSUME GuardRemove(g) PROVE GuardsOK'
  BY <1>0, <1>9 DEF GuardRemove, GuardStates, GuardOK
<1>10. ASSUME GuardErase(g) PROVE GuardsOK'
  BY <1>0, <1>10 DEF GuardErase, GuardStates, GuardOK
<1>11. ASSUME ChildExit(g) \/ Fork(g) \/ StrayExit(g) PROVE GuardsOK'
  BY <1>0, <1>11 DEF ChildExit, Fork, StrayExit, GuardOK
<1>12. ASSUME Engine(g) PROVE GuardsOK'
  BY <1>0, <1>12 DEF Engine, GuardOK
<1>13. ASSUME Disconnect(g) PROVE GuardsOK'
  BY <1>0, <1>13 DEF Disconnect, Shutdown, GuardOK
<1> QED
  BY <1>1, <1>2, <1>3, <1>4, <1>5, <1>6, <1>7, <1>8, <1>9, <1>10, <1>11, <1>12, <1>13
     DEF GuardNext

(* Everything else.                                                          *)
RestOK ==
    /\ config \in [Keys -> Digests \cup {None}]
    /\ approved \in [Roots -> Digests \cup {None}]
    /\ daemon \in {"down", "up", "closing", "draining"}
    /\ client \in [Keys -> Guards \cup {None}]
    /\ revision \in [Keys -> Revisions \cup {None}]
    /\ orphan \in [Guards -> BOOLEAN]
    /\ closed \in [Guards -> BOOLEAN]
    /\ probe \subseteq Keys

LEMMA TypeParts == TypeOK <=> RestOK /\ RequestsOK /\ GuardsOK
BY DEF TypeOK, RestOK, RequestsOK, GuardsOK

LEMMA TypeRest ==
  ASSUME TypeOK, NEW r \in Requests, RequestNext(r)
  PROVE  RestOK' /\ GuardsOK'
<1>0. RestOK /\ GuardsOK /\ JobOK(r)
  BY TypeParts DEF TypeOK
<1>1. CASE UNCHANGED <<files, daemon, slots, guards, closed, outside>>
  BY <1>0, <1>1 DEF RestOK, GuardsOK, GuardOK
<1>2. CASE /\ UNCHANGED <<files, daemon, slots, guards, outside>>
           /\ \E g : closed' = [closed EXCEPT ![g] = TRUE]
  BY <1>0, <1>2 DEF RestOK, GuardsOK, GuardOK
<1>3. CASE /\ UNCHANGED <<files, daemon, revision, guards, closed, outside>>
           /\ \E k : client' = [client EXCEPT ![k] = None]
  BY <1>0, <1>3 DEF RestOK, GuardsOK, GuardOK
<1>4. ASSUME NEW g \in Guards, Launch(r, g) PROVE RestOK' /\ GuardsOK'
  BY <1>0, <1>4 DEF Launch, RestOK, GuardsOK, GuardOK, JobOK, Launching, GuardStates
<1>5. ASSUME Attach(r) PROVE RestOK' /\ GuardsOK'
  BY <1>0, <1>5 DEF Attach, RestOK, GuardsOK, GuardOK, JobOK, Launching, Connecting
<1>6. ASSUME Unregister(r) PROVE RestOK' /\ GuardsOK'
  BY <1>0, <1>6 DEF Unregister, RestOK, GuardsOK, GuardOK
<1> QED
  <2>1. ASSUME \/ \E a \in Offered, c \in Keys, e \in Envs : Submit(r, a, c, e)
               \/ Enter(r) \/ Admit(r) \/ Reuse(r) \/ Lease(r) \/ Connect(r)
               \/ AbortDone(r) \/ Discover(r) \/ Report(r) \/ Looked(r) \/ Call(r)
               \/ Answer(r) \/ Ask(r) \/ Continue(r) \/ Plan(r) \/ Deleted(r)
        PROVE  RestOK' /\ GuardsOK'
    BY <1>1, <2>1 DEF Submit, Enter, Admit, Reuse, Lease, Connect, AbortDone, Discover,
       Report, Looked, Call, Answer, Ask, Continue, Plan, Deleted
  <2>2. ASSUME Stop(r) \/ Replace(r) \/ Fail(r) \/ Quiesce(r)
        PROVE  RestOK' /\ GuardsOK'
    BY <1>1, <1>2, <2>2 DEF Stop, Replace, Fail, Quiesce, Shutdown
  <2>3. ASSUME StopDone(r) \/ ReplaceDone(r) PROVE RestOK' /\ GuardsOK'
    BY <1>3, <2>3 DEF StopDone, ReplaceDone
  <2> QED BY <1>4, <1>5, <1>6, <2>1, <2>2, <2>3 DEF RequestNext

LEMMA TypeStep == TypeOK /\ [Next]_vars => TypeOK'
<1> SUFFICES ASSUME TypeOK, [Next]_vars PROVE TypeOK'
  OBVIOUS
<1>0. RestOK /\ RequestsOK /\ GuardsOK
  BY TypeParts
<1> SUFFICES RestOK' /\ RequestsOK' /\ GuardsOK'
  BY DEF TypeOK, RestOK, RequestsOK, GuardsOK
<1>1. ASSUME NEW r \in Requests, RequestNext(r)
      PROVE  RestOK' /\ RequestsOK' /\ GuardsOK'
  BY <1>1, TypeHandlers, TypeRest
<1>2. ASSUME NEW g \in Guards, GuardNext(g)
      PROVE  RestOK' /\ RequestsOK' /\ GuardsOK'
  <2>1. GuardsOK'
    BY <1>2, TypeGuards
  <2>2. UNCHANGED <<files, daemon, slots, requests, orphan, probe>>
    BY <1>2 DEF GuardNext, GuardLock, GuardCheck, GuardRecord, GuardSpawn, GuardRefuse,
       GuardWake, GuardTerminate, GuardList, GuardRemove, GuardErase, GuardKeepRecord,
       GuardKilled, Disconnect, ChildExit, Fork, StrayExit, Engine
  <2>3. closed' \in [Guards -> BOOLEAN]
    BY <1>0, <1>2 DEF RestOK, GuardNext, GuardLock, GuardCheck, GuardRecord, GuardSpawn,
       GuardRefuse, GuardWake, GuardTerminate, GuardList, GuardRemove, GuardErase,
       GuardKeepRecord, GuardKilled, Disconnect, ChildExit, Fork, StrayExit, Engine, Shutdown
  <2>4. RestOK' /\ RequestsOK'
    BY <1>0, <2>2, <2>3 DEF RestOK, RequestsOK, JobOK
  <2> QED BY <2>1, <2>4
<1>3. ASSUME Boot \/ Close \/ Drain PROVE RestOK' /\ RequestsOK' /\ GuardsOK'
  BY <1>0, <1>3 DEF RestOK, RequestsOK, GuardsOK, GuardOK, JobOK, Boot, Close, Drain
<1>4. ASSUME Exit \/ Crash PROVE RestOK' /\ RequestsOK' /\ GuardsOK'
  <2>1. Vanish
    BY <1>4 DEF Exit, Crash
  <2>2. IdleJob \in Jobs
    BY DEF IdleJob, Jobs
  <2>3. RequestsOK'
    BY <2>1, <2>2 DEF Vanish, RequestsOK, PCs, JobOK, Launching, Connecting
  <2>4. RestOK' /\ GuardsOK'
    BY <1>0, <2>1 DEF Vanish, RestOK, GuardsOK, GuardOK
  <2> QED BY <2>3, <2>4
<1>5. ASSUME \/ \E k \in Keys, d \in Digests \cup {None} : Edit(k, d)
             \/ \E k \in Roots, d \in Digests : Approve(k, d)
             \/ \E k \in Keys : Probe(k)
      PROVE  RestOK' /\ RequestsOK' /\ GuardsOK'
  BY <1>0, <1>5 DEF RestOK, RequestsOK, GuardsOK, GuardOK, JobOK, Edit, Approve, Probe
<1>6. CASE UNCHANGED vars
  BY <1>0, <1>6 DEF RestOK, RequestsOK, GuardsOK, GuardOK, JobOK
<1> QED
  BY <1>1, <1>2, <1>3, <1>4, <1>5, <1>6 DEF Next

(* Every handler and guard always has the values its program point needs.    *)
THEOREM TypeCorrect == Spec => []TypeOK
BY TypeInit, TypeStep, PTL DEF Spec

----------------------------------------------------------------------------
(* The lease and the recovery record.  OneOwnedProcess is not inductive: it  *)
(* needs that a process alive implies its guard's lock, and that two locks   *)
(* on one slot are never held together.  ContainerRecorded needs besides     *)
(* that a guard which removes the record is the only one whose container     *)
(* could run, and that its own does not.                                     *)
Locked == {"locked", "checked", "recorded", "running", "ending", "listing", "removing",
           "erasing"}

LeaseInv ==
    /\ \A g \in Guards : gst[g] \in Locked \/ Alive(g) => held[g]
    /\ \A g, h \in Guards : HoldsLease(g) /\ HoldsLease(h) /\ gkey[g] = gkey[h] => g = h

ContainerInv ==
    /\ \A g \in Guards :
         /\ gst[g] \in {"listing", "removing", "erasing"} => ~child[g]
         /\ gst[g] = "erasing" => container[g] # "running"
         /\ (child[g] \/ gst[g] = "recorded") /\ gkey[g] \in ContainerKeys => gkey[g] \in marker
         /\ container[g] = "running" => gkey[g] \in marker
    /\ \A g, h \in Guards :
         container[g] = "running" /\ gkey[h] = gkey[g] /\ h # g =>
             gst[h] \in {"dead", "boot", "locked"}

GuardInv == TypeOK /\ LeaseInv /\ ContainerInv

(* Steps that touch no guard and no record.                                  *)
Quiet == UNCHANGED <<gst, gkey, grev, held, child, stray, container, marker>>

LEMMA Steps ==
  ASSUME [Next]_vars
  PROVE  \/ Quiet
         \/ \E r \in Requests, g \in Guards : Launch(r, g)
         \/ \E g \in Guards : GuardNext(g)
<1>1. ASSUME NEW r \in Requests, RequestNext(r)
      PROVE  Quiet \/ \E g \in Guards : Launch(r, g)
  BY <1>1 DEF RequestNext, Quiet, Submit, Enter, Admit, Stop, StopDone, Reuse, Replace,
     ReplaceDone, Lease, Connect, Attach, AbortDone, Discover, Report, Looked, Call, Answer,
     Ask, Continue, Fail, Plan, Quiesce, Unregister, Deleted
<1>2. ASSUME \/ Boot \/ Close \/ Drain \/ Exit \/ Crash
             \/ \E k \in Keys, d \in Digests \cup {None} : Edit(k, d)
             \/ \E k \in Roots, d \in Digests : Approve(k, d)
             \/ \E k \in Keys : Probe(k)
             \/ UNCHANGED vars
      PROVE  Quiet
  BY <1>2 DEF Quiet, Boot, Close, Drain, Exit, Crash, Vanish, Edit, Approve, Probe
<1> QED
  BY <1>1, <1>2 DEF Next

LEMMA LeaseInit == Init => LeaseInv /\ ContainerInv
BY DEF Init, LeaseInv, ContainerInv, Locked, Alive, HoldsLease

LEMMA LeaseStep ==
  ASSUME GuardInv, [Next]_vars
  PROVE  LeaseInv'
<1> USE DEF LeaseInv, Locked, Alive, HoldsLease
<1>0. LeaseInv /\ TypeOK
  BY DEF GuardInv
<1>1. CASE Quiet
  BY <1>0, <1>1 DEF Quiet
<1>2. ASSUME NEW r \in Requests, NEW g \in Guards, Launch(r, g) PROVE LeaseInv'
  BY <1>0, <1>2 DEF Launch, Unused, TypeOK
<1>3. ASSUME NEW g \in Guards, GuardNext(g) PROVE LeaseInv'
  <2> USE DEF GuardGoto
  <2>1. ASSUME GuardLock(g) PROVE LeaseInv'
    BY <1>0, <2>1 DEF GuardLock, LeaseFree, TypeOK
  <2>2. ASSUME GuardSpawn(g) PROVE LeaseInv'
    BY <1>0, <2>2 DEF GuardSpawn, TypeOK
  <2>3. ASSUME GuardTerminate(g) PROVE LeaseInv'
    BY <1>0, <2>3 DEF GuardTerminate, TypeOK
  <2>4. ASSUME ChildExit(g) \/ Fork(g) \/ StrayExit(g) PROVE LeaseInv'
    BY <1>0, <2>4 DEF ChildExit, Fork, StrayExit, TypeOK
  <2>5. ASSUME Engine(g) \/ Disconnect(g) PROVE LeaseInv'
    BY <1>0, <2>5 DEF Engine, Disconnect
  <2>6. ASSUME \/ GuardCheck(g) \/ GuardRecord(g) \/ GuardRefuse(g) \/ GuardWake(g)
               \/ GuardList(g) \/ GuardRemove(g) \/ GuardErase(g) \/ GuardKeepRecord(g)
               \/ GuardKilled(g)
        PROVE  LeaseInv'
    BY <1>0, <2>6 DEF GuardCheck, GuardRecord, GuardRefuse, GuardWake, GuardList,
       GuardRemove, GuardErase, GuardKeepRecord, GuardKilled, TypeOK
  <2> QED BY <1>3, <2>1, <2>2, <2>3, <2>4, <2>5, <2>6 DEF GuardNext
<1> QED
  BY <1>1, <1>2, <1>3, Steps

LEMMA ContainerStep ==
  ASSUME GuardInv, [Next]_vars
  PROVE  ContainerInv'
<1> USE DEF ContainerInv
<1>0. ContainerInv /\ LeaseInv /\ TypeOK
  BY DEF GuardInv
<1>1. CASE Quiet
  BY <1>0, <1>1 DEF Quiet
<1>2. ASSUME NEW r \in Requests, NEW g \in Guards, Launch(r, g) PROVE ContainerInv'
  BY <1>0, <1>2 DEF Launch, Unused, TypeOK
<1>3. ASSUME NEW g \in Guards, GuardNext(g) PROVE ContainerInv'
  <2> USE DEF GuardGoto
  <2>1. ASSUME GuardLock(g) \/ GuardCheck(g) PROVE ContainerInv'
    BY <1>0, <2>1 DEF GuardLock, GuardCheck, TypeOK
  <2>2. ASSUME GuardRecord(g) PROVE ContainerInv'
    BY <1>0, <2>2 DEF GuardRecord, TypeOK
  <2>3. ASSUME GuardSpawn(g) PROVE ContainerInv'
    BY <1>0, <2>3 DEF GuardSpawn, TypeOK
  <2>4. ASSUME GuardRefuse(g) \/ GuardKeepRecord(g) \/ GuardKilled(g) PROVE ContainerInv'
    BY <1>0, <2>4 DEF GuardRefuse, GuardKeepRecord, GuardKilled, TypeOK
  <2>5. ASSUME GuardWake(g) \/ GuardTerminate(g) PROVE ContainerInv'
    BY <1>0, <2>5 DEF GuardWake, GuardTerminate, TypeOK
  <2>6. ASSUME GuardList(g) \/ GuardRemove(g) PROVE ContainerInv'
    BY <1>0, <2>6 DEF GuardList, Listed, GuardRemove, TypeOK
  <2>7. ASSUME GuardErase(g) PROVE ContainerInv'
    <3>1. \A h \in Guards : h # g /\ gkey[h] = gkey[g] =>
            ~child[h] /\ gst[h] # "recorded" /\ container[h] # "running"
      BY <1>0, <2>7 DEF GuardErase, LeaseInv, Locked, Alive, HoldsLease, TypeOK
    <3> QED BY <1>0, <2>7, <3>1 DEF GuardErase, TypeOK
  <2>8. ASSUME ChildExit(g) \/ Fork(g) \/ StrayExit(g) \/ Disconnect(g) PROVE ContainerInv'
    BY <1>0, <2>8 DEF ChildExit, Fork, StrayExit, Disconnect, TypeOK
  <2>9. ASSUME Engine(g) PROVE ContainerInv'
    <3>1. child[g] => \A h \in Guards : h # g /\ gkey[h] = gkey[g] =>
            gst[h] \in {"dead", "boot"}
      BY <1>0 DEF LeaseInv, Locked, Alive, HoldsLease, TypeOK, GuardStates
    <3>2. container[g] = "created" => gkey[g] \in ContainerKeys
      BY <1>0 DEF TypeOK, GuardOK
    <3> QED BY <1>0, <2>9, <3>1, <3>2 DEF Engine, TypeOK
  <2> QED BY <1>3, <2>1, <2>2, <2>3, <2>4, <2>5, <2>6, <2>7, <2>8, <2>9 DEF GuardNext
<1> QED
  BY <1>1, <1>2, <1>3, Steps

(* The types, the leases of what is alive, and the containers of the guards,*)
(* in every reachable state.                                                *)
THEOREM GuardInvCorrect == Spec => []GuardInv
<1>1. Init => GuardInv
  BY TypeInit, LeaseInit DEF GuardInv
<1>2. GuardInv /\ [Next]_vars => GuardInv'
  BY TypeStep, LeaseStep, ContainerStep DEF GuardInv
<1> QED
  BY <1>1, <1>2, PTL DEF Spec

(* Never two guards with live processes of one scoped server, for any number *)
(* of guards and across any number of crashes and restarts of the daemon.    *)
THEOREM OneProcess == Spec => []OneOwnedProcess
<1>1. GuardInv => OneOwnedProcess
  BY DEF GuardInv, LeaseInv, OneOwnedProcess, Alive, HoldsLease
<1> QED
  BY <1>1, GuardInvCorrect, PTL

(* A running container always has its recovery record.                       *)
THEOREM Recorded == Spec => []ContainerRecorded
<1>1. GuardInv => ContainerRecorded
  BY DEF GuardInv, ContainerInv, ContainerRecorded
<1> QED
  BY <1>1, GuardInvCorrect, PTL

(* What require_clean finds is the truth: no process and no running          *)
(* container of the slot is left.                                            *)
LEMMA CleanIsQuiescent ==
  ASSUME GuardInv, NEW k \in Keys, RequireClean(k), NEW g \in Guards, gkey[g] = k
  PROVE  ~Alive(g) /\ container[g] # "running"
BY DEF GuardInv, LeaseInv, ContainerInv, RequireClean, LeaseFree, Alive, HoldsLease

----------------------------------------------------------------------------
(* The barrier and the slot mutex.                                           *)
Exclusion ==
    /\ \A r, q \in Requests :
         pc[r] \in SlotPCs /\ pc[q] \in SlotPCs /\ job[r].key = job[q].key => r = q
    /\ \A r, q \in Requests :
         pc[r] \in WriterPCs /\ pc[q] \in ReaderPCs \cup WriterPCs => r = q

(* How a handler's step may move it between the locks.                       *)
LEMMA Moves ==
  ASSUME TypeOK, NEW r \in Requests, RequestNext(r)
  PROVE  /\ \A q \in Requests \ {r} : pc'[q] = pc[q] /\ job'[q] = job[q]
         /\ \/ pc'[r] \in {"idle", "ok", "gate"}
            \/ pc'[r] = "queued" /\ Writers = {}
            \/ /\ pc[r] = "queued" /\ pc'[r] \in SlotPCs
               /\ job'[r].key = job[r].key /\ SlotFree(job[r].key)
            \/ pc[r] \in SlotPCs /\ pc'[r] \in SlotPCs /\ job'[r].key = job[r].key
            \/ pc'[r] = "plan" /\ Readers = {} /\ Writers = {}
            \/ pc[r] \in WriterPCs /\ pc'[r] \in WriterPCs /\ job'[r].key = job[r].key
<1> USE DEF TypeOK, Goto, Return, Recheck, SlotPCs, ReaderPCs, WriterPCs
<1>0. job[r] \in Jobs
  OBVIOUS
<1>1. ASSUME \E a \in Offered, c \in Keys, e \in Envs : Submit(r, a, c, e)
      PROVE  pc'[r] = "gate" /\ \A q \in Requests \ {r} : pc'[q] = pc[q] /\ job'[q] = job[q]
  BY <1>1 DEF Submit
<1>2. ASSUME Enter(r)
      PROVE  /\ pc'[r] = "queued" /\ Writers = {}
             /\ \A q \in Requests \ {r} : pc'[q] = pc[q] /\ job'[q] = job[q]
  BY <1>2 DEF Enter
<1>3. ASSUME Admit(r) \/ Stop(r)
      PROVE  /\ pc[r] = "queued" /\ pc'[r] \in SlotPCs
             /\ job'[r].key = job[r].key /\ SlotFree(job[r].key)
             /\ \A q \in Requests \ {r} : pc'[q] = pc[q] /\ job'[q] = job[q]
  BY <1>0, <1>3 DEF Admit, Stop, Jobs
<1>4. ASSUME \/ StopDone(r) \/ AbortDone(r) \/ Report(r) \/ Deleted(r)
      PROVE  /\ pc'[r] \in {"idle", "ok"}
             /\ \A q \in Requests \ {r} : pc'[q] = pc[q] /\ job'[q] = job[q]
  BY <1>4 DEF StopDone, AbortDone, Report, Deleted
<1>5. ASSUME \/ Replace(r) \/ Lease(r) \/ Connect(r) \/ Discover(r) \/ Looked(r)
             \/ Continue(r) \/ Call(r) \/ Ask(r) \/ \E g \in Guards : Launch(r, g)
      PROVE  /\ pc[r] \in SlotPCs /\ pc'[r] \in SlotPCs /\ job'[r].key = job[r].key
             /\ \A q \in Requests \ {r} : pc'[q] = pc[q] /\ job'[q] = job[q]
  BY <1>0, <1>5 DEF Replace, Lease, Connect, Discover, Looked, Continue, Call, Ask, Launch, Jobs
<1>6. ASSUME \/ Reuse(r) \/ ReplaceDone(r) \/ Attach(r) \/ Answer(r) \/ Fail(r)
      PROVE  /\ \/ pc'[r] \in {"idle", "ok"}
                \/ pc[r] \in SlotPCs /\ pc'[r] \in SlotPCs /\ job'[r].key = job[r].key
             /\ \A q \in Requests \ {r} : pc'[q] = pc[q] /\ job'[q] = job[q]
  BY <1>0, <1>6 DEF Reuse, ReplaceDone, Attach, Answer, Fail, Jobs
<1>7. ASSUME Plan(r)
      PROVE  /\ pc'[r] = "plan" /\ Readers = {} /\ Writers = {}
             /\ \A q \in Requests \ {r} : pc'[q] = pc[q] /\ job'[q] = job[q]
  BY <1>7 DEF Plan
<1>8. ASSUME Quiesce(r) \/ Unregister(r)
      PROVE  /\ \/ pc'[r] = "idle"
                \/ pc[r] \in WriterPCs /\ pc'[r] \in WriterPCs /\ job'[r].key = job[r].key
             /\ \A q \in Requests \ {r} : pc'[q] = pc[q] /\ job'[q] = job[q]
  BY <1>8 DEF Quiesce, Unregister
<1> QED
  BY <1>1, <1>2, <1>3, <1>4, <1>5, <1>6, <1>7, <1>8 DEF RequestNext

(* Steps of others leave the handlers alone or end them all.                 *)
LEMMA OtherSteps ==
  ASSUME TypeOK, [Next]_vars, \A r \in Requests : ~RequestNext(r)
  PROVE  \/ UNCHANGED <<pc, job, client, revision>>
         \/ Vanish
BY DEF Next, Boot, Close, Drain, Exit, Crash, Edit, Approve, Probe, GuardNext, GuardLock,
   GuardCheck, GuardRecord, GuardSpawn, GuardRefuse, GuardWake, GuardTerminate, GuardList,
   GuardRemove, GuardErase, GuardKeepRecord, GuardKilled, Disconnect, ChildExit, Fork,
   StrayExit, Engine

LEMMA ExclusionStep ==
  ASSUME TypeOK, Exclusion, [Next]_vars
  PROVE  Exclusion'
<1> USE DEF Exclusion
<1>1. ASSUME NEW r \in Requests, RequestNext(r) PROVE Exclusion'
  BY <1>1, Moves DEF SlotFree, Readers, Writers, SlotPCs, ReaderPCs, WriterPCs
<1>2. CASE UNCHANGED <<pc, job>>
  BY <1>2
<1>3. CASE Vanish
  BY <1>3 DEF Vanish, SlotPCs, ReaderPCs, WriterPCs
<1> QED
  BY <1>1, <1>2, <1>3, OtherSteps

----------------------------------------------------------------------------
(* What a slot and the handler that holds it know about their guards.        *)
(* NoLostGuard is inductive only with the slot's own share: the guard a slot *)
(* keeps was started for it, and a handler that starts one found it empty.   *)
Claiming == {"lease", "leased"} \cup Connecting

SlotInv ==
    /\ \A k \in Keys : client[k] # None =>
         gkey[client[k]] = k /\ grev[client[k]] = revision[k] /\ ~orphan[client[k]]
    /\ \A r \in Requests : pc[r] \in Claiming => client[job[r].key] = None
    /\ \A r \in Requests : pc[r] \in Connecting =>
         /\ gkey[job[r].guard] = job[r].key /\ grev[job[r].guard] = job[r].prep
         /\ ~orphan[job[r].guard]
    /\ \A r \in Requests : pc[r] = "delete" => client[job[r].key] = None
    /\ NoLostGuard

Inv == GuardInv /\ Exclusion /\ SlotInv

(* A step of a handler that starts no guard and attaches none.               *)
Leaves(r) ==
    /\ UNCHANGED <<gst, gkey, grev, orphan, revision>>
    /\ \A k \in Keys : \/ client'[k] = client[k]
                       \/ client'[k] = None /\ ShutdownDone(k)
    /\ \A q \in Requests \ {r} : pc'[q] = pc[q] /\ job'[q] = job[q]
    /\ pc'[r] \in Claiming \cup {"delete"} =>
         job'[r].key \in Keys /\ client'[job'[r].key] = None
    /\ pc'[r] \in Connecting =>
         /\ pc[r] \in Connecting /\ job'[r].key = job[r].key
         /\ job'[r].guard = job[r].guard /\ job'[r].prep = job[r].prep
    /\ pc[r] \in Connecting => pc'[r] \in Connecting \/ gst[job[r].guard] = "dead"

LEMMA SlotFrame ==
  ASSUME SlotInv, TypeOK, NEW r \in Requests, Leaves(r)
  PROVE  SlotInv'
<1> USE DEF SlotInv, Claiming, Connecting, Leaves
<1>0. \A q \in Requests : JobOK(q)
  BY DEF TypeOK
<1>1. \A k \in Keys : client'[k] # None =>
        gkey'[client'[k]] = k /\ grev'[client'[k]] = revision'[k] /\ ~orphan'[client'[k]]
  OBVIOUS
<1>2. \A q \in Requests : pc'[q] \in Claiming \cup {"delete"} => client'[job'[q].key] = None
  BY <1>0 DEF JobOK
<1>3. \A q \in Requests : pc'[q] \in Connecting =>
        /\ gkey'[job'[q].guard] = job'[q].key /\ grev'[job'[q].guard] = job'[q].prep
        /\ ~orphan'[job'[q].guard]
  OBVIOUS
<1>4. NoLostGuard'
  <2> SUFFICES ASSUME NEW g \in Guards, gst[g] # "dead", ~orphan[g], client'[gkey[g]] # g
               PROVE  \E q \in Requests : /\ job'[q].guard = g /\ job'[q].key = gkey[g]
                                          /\ pc'[q] \in Connecting
    BY DEF NoLostGuard
  <2>1. gkey[g] \in Keys
    BY DEF TypeOK, GuardOK
  <2>2. client[gkey[g]] # g
    BY <2>1 DEF ShutdownDone
  <2>3. PICK q \in Requests : job[q].guard = g /\ job[q].key = gkey[g] /\ pc[q] \in Connecting
    BY <2>2 DEF NoLostGuard
  <2>4. pc'[q] \in Connecting /\ job'[q].guard = g /\ job'[q].key = gkey[g]
    BY <2>3
  <2> QED BY <2>4
<1> QED
  BY <1>1, <1>2, <1>3, <1>4

LEMMA SlotStep ==
  ASSUME Inv, [Next]_vars
  PROVE  SlotInv'
<1> USE DEF Claiming, Connecting
<1>0. SlotInv /\ TypeOK /\ Exclusion
  BY DEF Inv, GuardInv
<1>1. ASSUME NEW r \in Requests, RequestNext(r) PROVE SlotInv'
  <2> USE DEF Goto, Return, Recheck
  <2>0. /\ JobOK(r) /\ job[r] \in Jobs
        /\ \A q \in Requests \ {r} : pc'[q] = pc[q] /\ job'[q] = job[q]
    BY <1>0, <1>1, Moves DEF TypeOK
  <2>1. ASSUME \/ \E a \in Offered, c \in Keys, e \in Envs : Submit(r, a, c, e)
               \/ Enter(r) \/ Plan(r) \/ Admit(r) \/ Stop(r) \/ Quiesce(r) \/ Reuse(r)
               \/ Discover(r) \/ Report(r) \/ Looked(r) \/ Call(r) \/ Answer(r) \/ Ask(r)
               \/ Continue(r) \/ Deleted(r)
        PROVE  SlotInv'
    <3>1. /\ UNCHANGED <<gst, gkey, grev, orphan, client, revision>>
          /\ pc[r] \notin Connecting /\ pc'[r] \notin Claiming \cup {"delete"}
      BY <1>0, <2>1 DEF TypeOK, Submit, Enter, Plan, Admit, Stop, Quiesce, Reuse, Discover,
         Report, Looked, Call, Answer, Ask, Continue, Deleted
    <3>2. Leaves(r)
      BY <2>0, <3>1 DEF Leaves
    <3> QED BY <1>0, <3>2, SlotFrame
  <2>2. ASSUME StopDone(r) \/ ReplaceDone(r) \/ Unregister(r) PROVE SlotInv'
    <3>1. job[r].key \in Keys
      BY <2>0, <2>2 DEF StopDone, ReplaceDone, Unregister, JobOK
    <3>2. /\ UNCHANGED <<gst, gkey, grev, orphan, revision>>
          /\ pc[r] \notin Connecting
          /\ ShutdownDone(job[r].key) /\ client' = [client EXCEPT ![job[r].key] = None]
          /\ \/ pc'[r] \in {"idle", "ok"}
             \/ pc'[r] \in {"lease", "delete"} /\ job' = job
      BY <1>0, <2>2 DEF TypeOK, StopDone, ReplaceDone, Unregister
    <3>3. \A k \in Keys : \/ client'[k] = client[k]
                          \/ client'[k] = None /\ ShutdownDone(k)
      BY <1>0, <3>1, <3>2 DEF TypeOK
    <3>4. pc'[r] \in Claiming \cup {"delete"} =>
            job'[r].key \in Keys /\ client'[job'[r].key] = None
      BY <1>0, <3>1, <3>2 DEF TypeOK
    <3>5. pc'[r] \notin Connecting
      BY <3>2
    <3>6. Leaves(r)
      BY <2>0, <3>2, <3>3, <3>4, <3>5 DEF Leaves
    <3> QED BY <1>0, <3>6, SlotFrame
  <2>3. ASSUME Replace(r) \/ Lease(r) PROVE SlotInv'
    <3>1. /\ UNCHANGED <<gst, gkey, grev, orphan, client, revision>>
          /\ pc[r] \notin Connecting /\ pc'[r] \in {"replacing", "lease", "leased"}
          /\ job'[r].key = job[r].key
          /\ pc'[r] # "replacing" => client[job[r].key] = None
      BY <1>0, <2>0, <2>3 DEF SlotInv, TypeOK, Replace, Lease, Jobs
    <3>2. job[r].key \in Keys
      BY <2>0, <2>3 DEF Replace, Lease, JobOK
    <3>3. pc'[r] \in Claiming \cup {"delete"} =>
            job'[r].key \in Keys /\ client'[job'[r].key] = None
      BY <3>1, <3>2
    <3>4. pc'[r] \notin Connecting /\ pc[r] \notin Connecting
      BY <3>1
    <3>5. Leaves(r)
      BY <2>0, <3>1, <3>3, <3>4 DEF Leaves
    <3> QED BY <1>0, <3>5, SlotFrame
  <2>4. ASSUME NEW g \in Guards, Launch(r, g) PROVE SlotInv'
    <3> USE DEF Launch, SlotInv
    <3>1. /\ gst[g] = "dead" /\ \A k \in Keys : client[k] # g
          /\ \A q \in Requests : job[q].guard # g
      BY <2>4 DEF Unused
    <3>2. /\ job' = [job EXCEPT ![r].guard = g] /\ pc' = [pc EXCEPT ![r] = "connect"]
          /\ job'[r].guard = g /\ job'[r].key = job[r].key /\ job'[r].prep = job[r].prep
          /\ client[job[r].key] = None /\ job[r].key \in Keys
      BY <1>0, <2>0, <2>4 DEF TypeOK, Jobs, JobOK
    <3>3. \A k \in Keys : client'[k] # None =>
            gkey'[client'[k]] = k /\ grev'[client'[k]] = revision'[k] /\ ~orphan'[client'[k]]
      BY <1>0, <2>4, <3>1 DEF TypeOK
    <3>4. \A q \in Requests : pc'[q] \in Claiming \cup {"delete"} => client'[job'[q].key] = None
      BY <1>0, <2>0, <2>4, <3>2 DEF TypeOK
    <3>5. \A q \in Requests : pc'[q] \in Connecting =>
            /\ gkey'[job'[q].guard] = job'[q].key /\ grev'[job'[q].guard] = job'[q].prep
            /\ ~orphan'[job'[q].guard]
      <4> SUFFICES ASSUME NEW q \in Requests, pc'[q] \in Connecting
                   PROVE  /\ gkey'[job'[q].guard] = job'[q].key
                          /\ grev'[job'[q].guard] = job'[q].prep /\ ~orphan'[job'[q].guard]
        OBVIOUS
      <4>1. CASE q = r
        BY <1>0, <2>4, <3>2, <4>1 DEF TypeOK
      <4>2. CASE q # r
        BY <1>0, <2>0, <2>4, <3>1, <4>2 DEF TypeOK
      <4> QED BY <4>1, <4>2
    <3>6. NoLostGuard'
      <4> SUFFICES ASSUME NEW h \in Guards, gst'[h] # "dead", ~orphan'[h]
                   PROVE  \/ client'[gkey'[h]] = h
                          \/ \E q \in Requests : /\ job'[q].guard = h /\ job'[q].key = gkey'[h]
                                                /\ pc'[q] \in Connecting
        BY DEF NoLostGuard
      <4>1. CASE h = g
        BY <1>0, <2>4, <3>2, <4>1 DEF TypeOK
      <4>2. CASE h # g
        <5>1. gst[h] # "dead" /\ ~orphan[h] /\ gkey'[h] = gkey[h] /\ client' = client
          BY <1>0, <2>4, <4>2 DEF TypeOK
        <5>2. CASE client[gkey[h]] = h
          BY <5>1, <5>2
        <5>3. ASSUME NEW q \in Requests, job[q].guard = h, job[q].key = gkey[h],
                     pc[q] \in Connecting
              PROVE  job'[q].guard = h /\ job'[q].key = gkey'[h] /\ pc'[q] \in Connecting
          BY <2>0, <2>4, <5>1, <5>3
        <5> QED BY <1>0, <5>1, <5>2, <5>3 DEF NoLostGuard
      <4> QED BY <4>1, <4>2
    <3> QED BY <3>3, <3>4, <3>5, <3>6
  <2>5. ASSUME Connect(r) \/ AbortDone(r) \/ Fail(r) PROVE SlotInv'
    <3>1. /\ UNCHANGED <<gst, gkey, grev, orphan, client, revision>>
          /\ \/ pc'[r] = "idle" /\ (pc[r] \in Connecting => gst[job[r].guard] = "dead")
             \/ /\ pc[r] \in Connecting /\ pc'[r] \in Connecting
                /\ job'[r].key = job[r].key /\ job'[r].guard = job[r].guard
                /\ job'[r].prep = job[r].prep
      BY <1>0, <2>0, <2>5 DEF SlotInv, TypeOK, Connect, AbortDone, Fail, Jobs
    <3>2. pc[r] \in Connecting => job[r].key \in Keys
      BY <2>0 DEF JobOK
    <3>3. pc'[r] \in Claiming \cup {"delete"} =>
            job'[r].key \in Keys /\ client'[job'[r].key] = None
      BY <1>0, <3>1, <3>2 DEF SlotInv
    <3>4. /\ pc'[r] \in Connecting =>
               /\ pc[r] \in Connecting /\ job'[r].key = job[r].key
               /\ job'[r].guard = job[r].guard /\ job'[r].prep = job[r].prep
          /\ pc[r] \in Connecting => pc'[r] \in Connecting \/ gst[job[r].guard] = "dead"
      BY <3>1
    <3>5. Leaves(r)
      BY <2>0, <3>1, <3>3, <3>4 DEF Leaves
    <3> QED BY <1>0, <3>5, SlotFrame
  <2>6. ASSUME Attach(r) PROVE SlotInv'
    <3> USE DEF SlotInv
    <3> DEFINE k == job[r].key
               g == job[r].guard
    <3>1. /\ k \in Keys /\ g \in Guards /\ pc[r] = "attach"
          /\ gkey[g] = k /\ grev[g] = job[r].prep /\ ~orphan[g] /\ client[k] = None
          /\ client' = [client EXCEPT ![k] = g] /\ revision' = [revision EXCEPT ![k] = job[r].prep]
          /\ UNCHANGED <<gst, gkey, grev, orphan>>
          /\ pc'[r] \in {"ok", "invoke"}
      BY <1>0, <2>0, <2>6 DEF TypeOK, Attach, JobOK
    <3>2. \A l \in Keys : client'[l] # None =>
            gkey'[client'[l]] = l /\ grev'[client'[l]] = revision'[l] /\ ~orphan'[client'[l]]
      BY <1>0, <3>1 DEF TypeOK
    <3>3. \A q \in Requests : pc'[q] \in Claiming \cup {"delete"} =>
            q # r /\ pc[q] \in Claiming \cup {"delete"} /\ job[q].key \in Keys /\ job[q].key # k
      <4> SUFFICES ASSUME NEW q \in Requests, pc'[q] \in Claiming \cup {"delete"}
                   PROVE  /\ q # r /\ pc[q] \in Claiming \cup {"delete"}
                          /\ job[q].key \in Keys /\ job[q].key # k
        OBVIOUS
      <4>1. q # r /\ pc[q] \in Claiming \cup {"delete"}
        BY <2>0, <3>1
      <4>2. job[q].key \in Keys
        BY <1>0, <4>1 DEF TypeOK, JobOK
      <4>3. pc[q] # "delete"
        BY <1>0, <3>1, <4>1 DEF Exclusion, WriterPCs, ReaderPCs
      <4>4. job[q].key # k
        BY <1>0, <3>1, <4>1, <4>3 DEF Exclusion, SlotPCs, ReaderPCs
      <4> QED BY <4>1, <4>2, <4>4
    <3>4. \A q \in Requests : pc'[q] \in Claiming \cup {"delete"} => client'[job'[q].key] = None
      BY <1>0, <2>0, <3>1, <3>3 DEF TypeOK
    <3>5. \A q \in Requests : pc'[q] \in Connecting =>
            /\ gkey'[job'[q].guard] = job'[q].key /\ grev'[job'[q].guard] = job'[q].prep
            /\ ~orphan'[job'[q].guard]
      BY <1>0, <2>0, <3>1, <3>3
    <3>6. NoLostGuard'
      <4> SUFFICES ASSUME NEW h \in Guards, gst[h] # "dead", ~orphan[h], client'[gkey[h]] # h
                   PROVE  \E q \in Requests : /\ job'[q].guard = h /\ job'[q].key = gkey[h]
                                              /\ pc'[q] \in Connecting
        BY <3>1 DEF NoLostGuard
      <4>0. gkey[h] \in Keys
        BY <1>0 DEF TypeOK, GuardOK
      <4>1. h # g
        BY <1>0, <3>1 DEF TypeOK
      <4>2. client[gkey[h]] # h
        BY <1>0, <3>1, <4>0, NoneAssumption DEF TypeOK
      <4>3. PICK q \in Requests : job[q].guard = h /\ job[q].key = gkey[h] /\ pc[q] \in Connecting
        BY <1>0, <4>2 DEF NoLostGuard
      <4> QED BY <2>0, <4>1, <4>3
    <3> QED BY <3>2, <3>4, <3>5, <3>6
  <2> QED BY <1>1, <2>1, <2>2, <2>3, <2>4, <2>5, <2>6 DEF RequestNext
<1>2. CASE Vanish
  BY <1>0, <1>2, NoneAssumption DEF SlotInv, NoLostGuard, Vanish
<1>3. ASSUME NEW g \in Guards, GuardNext(g) PROVE SlotInv'
  <2>1. UNCHANGED <<pc, job, client, revision, gkey, grev, orphan>>
    BY <1>3 DEF GuardNext, GuardLock, GuardCheck, GuardRecord, GuardSpawn, GuardRefuse,
       GuardWake, GuardTerminate, GuardList, GuardRemove, GuardErase, GuardKeepRecord,
       GuardKilled, Disconnect, ChildExit, Fork, StrayExit, Engine
  <2>2. \A h \in Guards : gst'[h] # "dead" => gst[h] # "dead"
    BY <1>0, <1>3 DEF TypeOK, GuardGoto, GuardNext, GuardLock, GuardCheck, GuardRecord,
       GuardSpawn, GuardRefuse, GuardWake, GuardTerminate, GuardList, GuardRemove, GuardErase,
       GuardKeepRecord, GuardKilled, Disconnect, ChildExit, Fork, StrayExit, Engine
  <2> QED BY <1>0, <2>1, <2>2 DEF SlotInv, NoLostGuard
<1>4. CASE UNCHANGED <<pc, job, client, revision, gkey, grev, orphan, gst>>
  BY <1>0, <1>4 DEF SlotInv, NoLostGuard
<1> QED
  <2>1. ASSUME \/ Boot \/ Close \/ Drain
               \/ \E k \in Keys, d \in Digests \cup {None} : Edit(k, d)
               \/ \E k \in Roots, d \in Digests : Approve(k, d)
               \/ \E k \in Keys : Probe(k)
               \/ UNCHANGED vars
        PROVE  SlotInv'
    BY <1>4, <2>1 DEF Boot, Close, Drain, Edit, Approve, Probe
  <2> QED BY <1>1, <1>2, <1>3, <2>1 DEF Next, Exit, Crash

(* The guards and the slots of the manager, in every reachable state.       *)
THEOREM InvCorrect == Spec => []Inv
<1>1. Init => Exclusion /\ SlotInv
  BY DEF Init, Exclusion, SlotInv, Claiming, Connecting, SlotPCs, ReaderPCs, WriterPCs,
     NoLostGuard
<1>2. Inv /\ [Next]_vars => Exclusion' /\ SlotInv'
  BY ExclusionStep, SlotStep DEF Inv, GuardInv
<1> QED
  BY <1>1, <1>2, GuardInvCorrect, PTL DEF Spec, Inv

(* While its daemon lives, a guard belongs to the slot or to the handler     *)
(* that holds the slot, for any number of callers, slots and guards.         *)
THEOREM NoLost == Spec => []NoLostGuard
<1>1. Inv => NoLostGuard
  BY DEF Inv, SlotInv
<1> QED
  BY <1>1, InvCorrect, PTL

----------------------------------------------------------------------------
(* Which step makes a given move of a handler.                               *)
LEMMA Mover ==
  ASSUME TypeOK, [Next]_vars, NEW r \in Requests, pc'[r] # pc[r], pc'[r] # "idle"
  PROVE  RequestNext(r)
<1>1. ASSUME NEW q \in Requests, RequestNext(q), q # r PROVE FALSE
  BY <1>1, Moves
<1>2. ~UNCHANGED <<pc, job, client, revision>>
  OBVIOUS
<1>3. ~Vanish
  BY DEF Vanish
<1> QED
  BY <1>1, <1>2, <1>3, OtherSteps

LEMMA StopMove ==
  ASSUME TypeOK, [Next]_vars, NEW r \in Requests, pc[r] = "stopping", pc'[r] = "ok"
  PROVE  RequireClean(job[r].key)
<1>1. RequestNext(r)
  BY Mover
<1> QED
  BY <1>1 DEF RequestNext, TypeOK, Goto, Return, Recheck, Submit, Enter, Admit, Stop, StopDone,
     Reuse, Replace, ReplaceDone, Lease, Launch, Connect, Attach, AbortDone, Discover, Report,
     Looked, Call, Answer, Ask, Continue, Fail, Plan, Quiesce, Unregister, Deleted

(* A successful Stop leaves nothing of the server behind, of no daemon.      *)
THEOREM StopTrue == Spec => StopIsTrue
<1>1. ASSUME Inv, [Next]_vars
      PROVE  \A r \in Requests : pc[r] = "stopping" /\ pc'[r] = "ok" =>
               \A g \in Guards : gkey[g] = job[r].key =>
                 ~Alive(g) /\ container[g] # "running"
  <2> SUFFICES ASSUME NEW r \in Requests, pc[r] = "stopping", pc'[r] = "ok",
                      NEW g \in Guards, gkey[g] = job[r].key
               PROVE  ~Alive(g) /\ container[g] # "running"
    OBVIOUS
  <2>1. RequireClean(job[r].key) /\ job[r].key \in Keys /\ GuardInv
    BY <1>1, StopMove DEF Inv, GuardInv, TypeOK, JobOK
  <2> QED BY <2>1, CleanIsQuiescent
<1> QED
  BY <1>1, InvCorrect, PTL DEF Spec, StopIsTrue

----------------------------------------------------------------------------
(* A handler that uses the slot's connection finds one: the slot is emptied  *)
(* only by its holder.                                                       *)
Using == {"invoke", "report", "lookup", "final", "call", "answer", "prompt"}
UseInv == \A r \in Requests : pc[r] \in Using => client[job[r].key] # None

(* The slot of files being deleted stays as require_clean found it: a guard  *)
(* that could still start its server would belong to somebody.               *)
QuietInv ==
    \A r \in Requests : pc[r] = "delete" =>
        \A g \in Guards : gkey[g] = job[r].key =>
            /\ ~child[g] /\ ~stray[g] /\ container[g] # "running"
            /\ gst[g] \notin {"checked", "recorded"}

LEMMA UseStep ==
  ASSUME Inv, UseInv, [Next]_vars
  PROVE  UseInv'
<1> USE DEF UseInv, Using
<1>0. TypeOK /\ Exclusion /\ \A r \in Requests : JobOK(r)
  BY DEF Inv, GuardInv, TypeOK
<1>1. ASSUME NEW r \in Requests, RequestNext(r) PROVE UseInv'
  <2> USE DEF Goto, Return, Recheck
  <2>0. \A q \in Requests \ {r} : pc'[q] = pc[q] /\ job'[q] = job[q]
    BY <1>0, <1>1, Moves
  <2>1. ASSUME StopDone(r) \/ ReplaceDone(r) \/ Unregister(r) PROVE UseInv'
    <3>1. /\ client' = [client EXCEPT ![job[r].key] = None]
          /\ pc[r] \in {"stopping", "replacing", "quiesce"} /\ pc'[r] \notin Using
      BY <1>0, <2>1 DEF TypeOK, StopDone, ReplaceDone, Unregister
    <3> SUFFICES ASSUME NEW q \in Requests, pc'[q] \in Using
                 PROVE  client'[job'[q].key] # None
      OBVIOUS
    <3>2. q # r /\ pc[q] \in Using /\ job'[q] = job[q] /\ job[q].key \in Keys
      BY <1>0, <2>0, <3>1 DEF JobOK
    <3>3. job[q].key # job[r].key
      BY <1>0, <3>1, <3>2 DEF Exclusion, SlotPCs, ReaderPCs, WriterPCs
    <3> QED BY <1>0, <3>1, <3>2, <3>3 DEF TypeOK
  <2>2. ASSUME Attach(r) PROVE UseInv'
    <3>1. /\ job[r].guard \in Guards /\ job[r].guard # None /\ job[r].key \in Keys
          /\ client' = [client EXCEPT ![job[r].key] = job[r].guard]
      BY <1>0, <2>2, NoneAssumption DEF Attach, JobOK, Connecting
    <3>2. pc'[r] \in Using => job'[r].key = job[r].key
      BY <1>0, <2>2 DEF TypeOK, Attach, Jobs
    <3>3. \A q \in Requests : pc[q] \in Using => job[q].key \in Keys
      BY <1>0 DEF JobOK
    <3> QED BY <1>0, <2>0, <3>1, <3>2, <3>3 DEF TypeOK
  <2>3. CASE Reuse(r)
    <3>1. client' = client /\ client[job[r].key] # None
      BY <2>3 DEF Reuse, Reusable
    <3>2. pc'[r] \in Using => job'[r].key = job[r].key
      BY <1>0, <2>3 DEF TypeOK, Reuse, Jobs
    <3> QED BY <2>0, <3>1, <3>2
  <2>4. ASSUME \/ Replace(r) \/ Lease(r) \/ Connect(r) \/ AbortDone(r) \/ Fail(r)
               \/ \E a \in Offered, c \in Keys, e \in Envs : Submit(r, a, c, e)
               \/ Enter(r) \/ Plan(r) \/ Admit(r) \/ Stop(r) \/ Quiesce(r)
               \/ Deleted(r) \/ \E g \in Guards : Launch(r, g)
        PROVE  UseInv'
    <3>1. client' = client /\ pc'[r] \notin Using
      BY <1>0, <2>4 DEF TypeOK, Submit, Enter, Plan, Admit, Stop, Quiesce, Replace, Lease,
         Connect, AbortDone, Fail, Deleted, Launch
    <3> QED BY <2>0, <3>1
  <2>5. ASSUME \/ Discover(r) \/ Report(r) \/ Looked(r) \/ Call(r) \/ Answer(r) \/ Ask(r)
               \/ Continue(r)
        PROVE  UseInv'
    <3>1. client' = client /\ pc[r] \in Using
      BY <2>5 DEF Discover, Report, Looked, Call, Answer, Ask, Continue
    <3>2. pc'[r] \in Using => job'[r].key = job[r].key
      BY <1>0, <2>5 DEF TypeOK, Jobs, Discover, Report, Looked, Call, Answer, Ask, Continue
    <3> QED BY <2>0, <3>1, <3>2
  <2> QED BY <1>1, <2>1, <2>2, <2>3, <2>4, <2>5 DEF RequestNext
<1>2. CASE UNCHANGED <<pc, job, client>>
  BY <1>2
<1>3. CASE Vanish
  BY <1>3 DEF Vanish
<1> QED
  BY <1>0, <1>1, <1>2, <1>3, OtherSteps

LEMMA QuietStep ==
  ASSUME Inv, QuietInv, [Next]_vars
  PROVE  QuietInv'
<1> USE DEF QuietInv
<1>0. TypeOK /\ Exclusion /\ \A r \in Requests : JobOK(r)
  BY DEF Inv, GuardInv, TypeOK
<1>1. ASSUME NEW r \in Requests, RequestNext(r) PROVE QuietInv'
  <2> USE DEF Goto, Return, Recheck
  <2>0. \A q \in Requests \ {r} : pc'[q] = pc[q] /\ job'[q] = job[q]
    BY <1>0, <1>1, Moves
  <2>1. ASSUME NEW g \in Guards, Launch(r, g) PROVE QuietInv'
    <3>1. \A q \in Requests : pc'[q] # "delete"
      BY <1>0, <2>0, <2>1 DEF TypeOK, Launch, Exclusion, ReaderPCs, WriterPCs
    <3> QED BY <3>1
  <2>2. CASE Unregister(r)
    <3>1. /\ UNCHANGED <<gst, gkey, child, stray, container>>
          /\ pc'[r] = "delete" => RequireClean(job[r].key) /\ job' = job
      BY <1>0, <2>2 DEF TypeOK, Unregister
    <3>2. ASSUME pc'[r] = "delete", NEW g \in Guards, gkey[g] = job[r].key
          PROVE  /\ ~child[g] /\ ~stray[g] /\ container[g] # "running"
                 /\ gst[g] \notin {"checked", "recorded"}
      BY <3>1, <3>2 DEF Inv, GuardInv, LeaseInv, ContainerInv, Locked, RequireClean,
         LeaseFree, HoldsLease, Alive
    <3> QED BY <2>0, <3>1, <3>2
  <2>3. ASSUME \/ \E a \in Offered, c \in Keys, e \in Envs : Submit(r, a, c, e)
               \/ Enter(r) \/ Plan(r) \/ Admit(r) \/ Stop(r) \/ StopDone(r) \/ Quiesce(r)
               \/ Reuse(r) \/ Replace(r) \/ ReplaceDone(r) \/ Lease(r) \/ Connect(r)
               \/ Attach(r) \/ AbortDone(r) \/ Fail(r) \/ Discover(r) \/ Report(r)
               \/ Looked(r) \/ Call(r) \/ Answer(r) \/ Ask(r) \/ Continue(r) \/ Deleted(r)
        PROVE  QuietInv'
    <3>1. /\ UNCHANGED <<gst, gkey, child, stray, container>> /\ pc'[r] # "delete"
      BY <1>0, <2>3 DEF TypeOK, Submit, Enter, Plan, Admit, Stop, StopDone, Quiesce, Reuse,
         Replace, ReplaceDone, Lease, Connect, Attach, AbortDone, Fail, Discover, Report,
         Looked, Call, Answer, Ask, Continue, Deleted
    <3> QED BY <2>0, <3>1
  <2> QED BY <1>1, <2>1, <2>2, <2>3 DEF RequestNext
<1>2. CASE Vanish
  BY <1>2 DEF Vanish
<1>3. ASSUME NEW g \in Guards, GuardNext(g) PROVE QuietInv'
  <2>1. UNCHANGED <<pc, job, gkey>>
    BY <1>3 DEF GuardNext, GuardLock, GuardCheck, GuardRecord, GuardSpawn, GuardRefuse,
       GuardWake, GuardTerminate, GuardList, GuardRemove, GuardErase, GuardKeepRecord,
       GuardKilled, Disconnect, ChildExit, Fork, StrayExit, Engine
  <2>2. ASSUME NEW r \in Requests, pc[r] = "delete", gkey[g] = job[r].key PROVE ~GuardCheck(g)
    <3> SUFFICES ASSUME GuardCheck(g) PROVE FALSE
      OBVIOUS
    <3>1. client[gkey[g]] # g
      BY <1>0, <2>2, NoneAssumption DEF Inv, SlotInv
    <3>2. PICK q \in Requests : pc[q] \in {"connect", "attach", "abort"}
      BY <3>1 DEF Inv, SlotInv, NoLostGuard, GuardCheck
    <3> QED BY <1>0, <2>2, <3>2 DEF Exclusion, WriterPCs, ReaderPCs
  <2>3. ASSUME NEW r \in Requests, pc[r] = "delete", NEW h \in Guards, gkey[h] = job[r].key
        PROVE  /\ ~child'[h] /\ ~stray'[h] /\ container'[h] # "running"
               /\ gst'[h] \notin {"checked", "recorded"}
    BY <1>0, <1>3, <2>2, <2>3 DEF TypeOK, GuardGoto, GuardNext, GuardLock, GuardCheck, GuardRecord,
       GuardSpawn, GuardRefuse, GuardWake, GuardTerminate, GuardList, GuardRemove, GuardErase,
       GuardKeepRecord, GuardKilled, Disconnect, ChildExit, Fork, StrayExit, Engine
  <2> QED BY <2>1, <2>3
<1>4. CASE UNCHANGED <<pc, job, gst, gkey, child, stray, container>>
  BY <1>4
<1> QED
  <2>1. ASSUME \/ Boot \/ Close \/ Drain
               \/ \E k \in Keys, d \in Digests \cup {None} : Edit(k, d)
               \/ \E k \in Roots, d \in Digests : Approve(k, d)
               \/ \E k \in Keys : Probe(k)
               \/ UNCHANGED vars
        PROVE  QuietInv'
    BY <1>4, <2>1 DEF Boot, Close, Drain, Edit, Approve, Probe
  <2> QED BY <1>1, <1>2, <1>3, <2>1 DEF Next, Exit, Crash

(* A handler finds the connection it uses, and files are deleted only under a*)
(* quiet slot, in every reachable state.                                    *)
THEOREM UseCorrect == Spec => [](Inv /\ UseInv /\ QuietInv)
<1>1. Init => UseInv /\ QuietInv
  BY DEF Init, UseInv, QuietInv, Using
<1>2. Inv /\ UseInv /\ QuietInv /\ [Next]_vars => UseInv' /\ QuietInv'
  BY UseStep, QuietStep
<1> QED
  BY <1>1, <1>2, InvCorrect, PTL DEF Spec

(* Nothing of the server runs while uninstall deletes its files, whichever   *)
(* guards of dead daemons are still about.                                   *)
THEOREM Deletes == Spec => []DeletesQuiescent
<1>1. QuietInv => DeletesQuiescent
  BY DEF QuietInv, DeletesQuiescent, Alive
<1> QED
  BY <1>1, UseCorrect, PTL

LEMMA KeepMove ==
  ASSUME TypeOK, [Next]_vars, NEW r \in Requests, pc[r] \in {"prepare", "attach", "report"},
         pc'[r] \in {"ok", "invoke"}
  PROVE  Reuse(r) \/ Attach(r) \/ Report(r)
<1>1. RequestNext(r)
  BY Mover
<1> QED
  BY <1>1 DEF RequestNext, TypeOK, Goto, Return, Recheck, Submit, Enter, Admit, Stop, StopDone,
     Replace, ReplaceDone, Lease, Launch, Connect, AbortDone, Discover, Looked, Call, Answer,
     Ask, Continue, Fail, Plan, Quiesce, Unregister, Deleted

(* What a handler keeps or finds again, and reports success on, was started  *)
(* from what the files and its caller say at that moment.                    *)
THEOREM Keeps == Spec => KeepsCurrent
<1>1. ASSUME Inv, UseInv, [Next]_vars
      PROVE  \A r \in Requests :
               pc[r] \in {"prepare", "attach", "report"} /\ pc'[r] \in {"ok", "invoke"} =>
                 LET k == job[r].key IN
                 /\ Authorized(job[r].cwd)
                 /\ client'[k] # None /\ gkey[client'[k]] = k
                 /\ grev[client'[k]] = [key |-> Resolve(job[r].cwd),
                                        digest |-> config[Resolve(job[r].cwd)],
                                        env |-> job[r].env]
  <2> SUFFICES ASSUME NEW r \in Requests, pc[r] \in {"prepare", "attach", "report"},
                      pc'[r] \in {"ok", "invoke"}
               PROVE  LET k == job[r].key IN
                      /\ Authorized(job[r].cwd)
                      /\ client'[k] # None /\ gkey[client'[k]] = k
                      /\ grev[client'[k]] = [key |-> Resolve(job[r].cwd),
                                             digest |-> config[Resolve(job[r].cwd)],
                                             env |-> job[r].env]
    OBVIOUS
  <2> DEFINE k == job[r].key
  <2>0. TypeOK /\ SlotInv /\ JobOK(r)
    BY <1>1 DEF Inv, GuardInv, TypeOK
  <2>1. k \in Keys
    BY <2>0 DEF JobOK
  <2>2. PICK rev : /\ Unchanged(job[r], rev)
                   /\ client'[k] # None /\ gkey[client'[k]] = k /\ grev[client'[k]] = rev
    <3>1. CASE Reuse(r)
      BY <2>0, <2>1, <3>1 DEF Reuse, Reusable, SlotInv
    <3>2. CASE Attach(r)
      <4>1. /\ job[r].guard \in Guards /\ job[r].guard # None
            /\ gkey[job[r].guard] = k /\ grev[job[r].guard] = job[r].prep
        BY <2>0, <3>2, NoneAssumption DEF Attach, JobOK, SlotInv, Connecting
      <4>2. client'[k] = job[r].guard
        BY <2>0, <2>1, <3>2 DEF Attach, TypeOK
      <4>3. Unchanged(job[r], job[r].prep)
        BY <3>2 DEF Attach
      <4> QED BY <4>1, <4>2, <4>3
    <3>3. CASE Report(r)
      BY <1>1, <2>0, <2>1, <3>3 DEF Report, SlotInv, UseInv, Using
    <3> QED BY <1>1, <2>0, <3>1, <3>2, <3>3, KeepMove
  <2> QED BY <2>2 DEF Unchanged, Identity, RevisionOf
<1> QED
  BY <1>1, UseCorrect, PTL DEF Spec, KeepsCurrent

LEMMA CallMove ==
  ASSUME TypeOK, [Next]_vars, NEW r \in Requests, pc[r] = "final", pc'[r] = "call"
  PROVE  Call(r)
<1>1. RequestNext(r)
  BY Mover
<1> QED
  BY <1>1 DEF RequestNext, TypeOK, Goto, Return, Recheck, Submit, Enter, Admit, Stop, StopDone,
     Reuse, Replace, ReplaceDone, Lease, Launch, Connect, Attach, AbortDone, Discover, Report,
     Looked, Answer, Ask, Continue, Fail, Plan, Quiesce, Unregister, Deleted

(* A call goes to a process started from what the files say at that moment.  *)
THEOREM Calls == Spec => CallsCurrent
<1>1. ASSUME Inv, UseInv, [Next]_vars
      PROVE  \A r \in Requests : pc[r] = "final" /\ pc'[r] = "call" =>
               /\ Authorized(job[r].cwd)
               /\ grev[client[job[r].key]] = [key |-> Resolve(job[r].cwd),
                                              digest |-> config[Resolve(job[r].cwd)],
                                              env |-> job[r].env]
  <2> SUFFICES ASSUME NEW r \in Requests, pc[r] = "final", pc'[r] = "call"
               PROVE  /\ Authorized(job[r].cwd)
                      /\ grev[client[job[r].key]] = [key |-> Resolve(job[r].cwd),
                                                     digest |-> config[Resolve(job[r].cwd)],
                                                     env |-> job[r].env]
    OBVIOUS
  <2>1. TypeOK /\ SlotInv /\ job[r].key \in Keys /\ client[job[r].key] # None
    BY <1>1 DEF Inv, GuardInv, TypeOK, JobOK, UseInv, Using
  <2>2. Unchanged(job[r], revision[job[r].key])
    BY <1>1, <2>1, CallMove DEF Call
  <2>3. grev[client[job[r].key]] = revision[job[r].key]
    BY <2>1 DEF SlotInv
  <2> QED BY <2>2, <2>3 DEF Unchanged, Identity, RevisionOf
<1> QED
  BY <1>1, UseCorrect, PTL DEF Spec, CallsCurrent

----------------------------------------------------------------------------
(* What the waits that nothing cancels are for.                              *)

(* The guards whose exit a handler waits for.                                *)
Awaited(r, g) ==
    \/ pc[r] \in {"stopping", "replacing", "quiesce"} /\ client[job[r].key] = g
    \/ pc[r] = "abort" /\ job[r].guard = g

(* A guard that somebody waits for was told to end before.                   *)
AwaitedClosed == \A r \in Requests, g \in Guards : Awaited(r, g) => closed[g]

(* So were all guards a draining daemon waits for; no handler is left.       *)
DrainClosed ==
    daemon = "draining" =>
      /\ Readers = {} /\ Writers = {}
      /\ \A k \in Keys : client[k] # None => closed[client[k]]

WaitInv == AwaitedClosed /\ DrainClosed

LEMMA AwaitedRequest ==
  ASSUME Inv, AwaitedClosed, NEW r \in Requests, RequestNext(r)
  PROVE  AwaitedClosed'
<1> USE DEF Goto, Return, Recheck
<1>0. /\ TypeOK /\ Exclusion /\ JobOK(r) /\ job[r] \in Jobs
      /\ \A q \in Requests : JobOK(q)
      /\ \A q \in Requests \ {r} : pc'[q] = pc[q] /\ job'[q] = job[q]
  BY Moves DEF Inv, GuardInv, TypeOK
<1>1. ASSUME NEW g \in Guards, Launch(r, g) PROVE AwaitedClosed'
  <2>1. /\ \A k \in Keys : client[k] # g
        /\ \A q \in Requests : job[q].guard # g
        /\ client' = client /\ closed' = [closed EXCEPT ![g] = FALSE]
        /\ pc'[r] = "connect"
    BY <1>0, <1>1 DEF Launch, Unused, TypeOK
  <2>2. ASSUME NEW q \in Requests, NEW h \in Guards, Awaited(q, h)' PROVE closed'[h]
    <3>1. q # r /\ Awaited(q, h)
      BY <1>0, <2>1, <2>2 DEF Awaited
    <3>2. h # g
      BY <1>0, <2>1, <3>1 DEF Awaited, JobOK
    <3> QED
      BY <1>0, <2>1, <3>1, <3>2 DEF AwaitedClosed, TypeOK
  <2> QED
    BY <2>2 DEF AwaitedClosed
<1>2. ASSUME Attach(r) PROVE AwaitedClosed'
  <2>1. /\ client' = [client EXCEPT ![job[r].key] = job[r].guard] /\ closed' = closed
        /\ pc[r] = "attach" /\ pc'[r] \in {"ok", "invoke"} /\ job[r].key \in Keys
    BY <1>0, <1>2 DEF Attach, TypeOK, JobOK
  <2>2. ASSUME NEW q \in Requests, NEW h \in Guards, Awaited(q, h)' PROVE Awaited(q, h)
    <3>1. q # r /\ pc[q] = pc'[q] /\ job[q] = job'[q]
      BY <1>0, <2>1, <2>2 DEF Awaited
    <3>2. CASE pc[q] = "abort"
      BY <2>2, <3>1, <3>2 DEF Awaited
    <3>3. CASE pc[q] \in {"stopping", "replacing", "quiesce"}
      <4>1. job[q].key \in Keys /\ job[q].key # job[r].key
        BY <1>0, <2>1, <3>1, <3>3 DEF Exclusion, SlotPCs, ReaderPCs, WriterPCs, JobOK
      <4>2. client'[job[q].key] = client[job[q].key]
        BY <1>0, <2>1, <4>1 DEF TypeOK
      <4> QED
        BY <2>2, <3>1, <3>3, <4>2 DEF Awaited
    <3> QED
      BY <2>2, <3>1, <3>2, <3>3 DEF Awaited
  <2> QED
    BY <2>1, <2>2 DEF AwaitedClosed
<1>3. ASSUME StopDone(r) \/ ReplaceDone(r) \/ Unregister(r) PROVE AwaitedClosed'
  <2>1. /\ client' = [client EXCEPT ![job[r].key] = None] /\ closed' = closed
        /\ pc'[r] \in {"idle", "ok", "lease", "delete"} /\ job[r].key \in Keys
    BY <1>0, <1>3 DEF StopDone, ReplaceDone, Unregister, TypeOK, JobOK
  <2>2. ASSUME NEW q \in Requests, NEW h \in Guards, Awaited(q, h)' PROVE Awaited(q, h)
    <3>1. q # r /\ pc[q] = pc'[q] /\ job[q] = job'[q]
      BY <1>0, <2>1, <2>2 DEF Awaited
    <3>2. \A k \in Keys : client'[k] = h => client[k] = h
      BY <1>0, <2>1, NoneAssumption DEF TypeOK
    <3>3. pc[q] \in {"stopping", "replacing", "quiesce"} => job[q].key \in Keys
      BY <1>0 DEF JobOK
    <3> QED
      BY <2>2, <3>1, <3>2, <3>3 DEF Awaited
  <2> QED
    BY <2>1, <2>2 DEF AwaitedClosed
<1>4. ASSUME Stop(r) \/ Replace(r) \/ Quiesce(r) PROVE AwaitedClosed'
  <2>1. /\ client' = client /\ job'[r].key = job[r].key /\ job[r].key \in Keys
        /\ pc'[r] \in {"stopping", "replacing", "quiesce", "lease"}
        /\ \/ client[job[r].key] = None /\ closed' = closed
           \/ client[job[r].key] # None /\ closed' = [closed EXCEPT ![client[job[r].key]] = TRUE]
    BY <1>0, <1>4 DEF Stop, Replace, Quiesce, Shutdown, TypeOK, JobOK, Jobs
  <2>2. ASSUME NEW q \in Requests, NEW h \in Guards, Awaited(q, h)' PROVE closed'[h]
    <3>1. CASE q = r
      BY <1>0, <2>1, <2>2, <3>1, NoneAssumption DEF Awaited, TypeOK
    <3>2. CASE q # r
      <4>1. closed[h]
        BY <1>0, <2>1, <2>2, <3>2 DEF Awaited, AwaitedClosed
      <4> QED
        BY <1>0, <2>1, <4>1 DEF TypeOK
    <3> QED
      BY <3>1, <3>2
  <2> QED
    BY <2>2 DEF AwaitedClosed
<1>5. ASSUME Fail(r) PROVE AwaitedClosed'
  <2>1. /\ client' = client
        /\ \/ pc'[r] = "idle" /\ closed' = closed
           \/ /\ pc'[r] = "abort" /\ job'[r] = job[r]
              /\ closed' = [closed EXCEPT ![job[r].guard] = TRUE]
    BY <1>0, <1>5 DEF Fail, Shutdown, TypeOK
  <2>2. ASSUME NEW q \in Requests, NEW h \in Guards, Awaited(q, h)' PROVE closed'[h]
    <3>1. CASE q = r
      BY <1>0, <2>1, <2>2, <3>1 DEF Awaited, TypeOK
    <3>2. CASE q # r
      <4>1. closed[h]
        BY <1>0, <2>1, <2>2, <3>2 DEF Awaited, AwaitedClosed
      <4> QED
        BY <1>0, <2>1, <4>1 DEF TypeOK
    <3> QED
      BY <3>1, <3>2
  <2> QED
    BY <2>2 DEF AwaitedClosed
<1>6. ASSUME \/ \E a \in Offered, c \in Keys, e \in Envs : Submit(r, a, c, e)
             \/ Enter(r) \/ Admit(r) \/ Reuse(r) \/ Lease(r) \/ Connect(r) \/ AbortDone(r)
             \/ Discover(r) \/ Report(r) \/ Looked(r) \/ Call(r) \/ Answer(r) \/ Ask(r)
             \/ Continue(r) \/ Plan(r) \/ Deleted(r)
      PROVE  AwaitedClosed'
  <2>1. /\ client' = client /\ closed' = closed
        /\ pc'[r] \notin {"stopping", "replacing", "quiesce", "abort"}
    BY <1>0, <1>6 DEF TypeOK, Submit, Enter, Admit, Reuse, Lease, Connect, AbortDone, Discover,
       Report, Looked, Call, Answer, Ask, Continue, Plan, Deleted
  <2> QED
    BY <1>0, <2>1 DEF AwaitedClosed, Awaited
<1> QED
  BY <1>1, <1>2, <1>3, <1>4, <1>5, <1>6 DEF RequestNext

LEMMA DrainRequest ==
  ASSUME TypeOK, DrainClosed, NEW r \in Requests, RequestNext(r)
  PROVE  DrainClosed'
<1>1. daemon' = daemon
  BY DEF RequestNext, Submit, Enter, Admit, Stop, StopDone, Reuse, Replace, ReplaceDone, Lease,
     Launch, Connect, Attach, AbortDone, Discover, Report, Looked, Call, Answer, Ask, Continue,
     Fail, Plan, Quiesce, Unregister, Deleted
<1>2. CASE daemon = "draining"
  <2>1. pc[r] \notin ReaderPCs \cup WriterPCs
    BY <1>2 DEF DrainClosed, Readers, Writers
  <2>2. Fail(r)
    BY <1>2, <2>1 DEF RequestNext, Submit, Enter, Admit, Stop, StopDone, Reuse, Replace,
       ReplaceDone, Lease, Launch, Connect, Attach, AbortDone, Discover, Report, Looked, Call,
       Answer, Ask, Continue, Plan, Quiesce, Unregister, Deleted, ReaderPCs, WriterPCs
  <2>3. /\ pc' = [pc EXCEPT ![r] = "idle"] /\ closed' = closed /\ client' = client
    BY <2>1, <2>2 DEF Fail, Return, Goto, ReaderPCs
  <2> QED
    BY <1>1, <2>3 DEF TypeOK, DrainClosed, Readers, Writers, ReaderPCs, WriterPCs
<1> QED
  BY <1>1, <1>2 DEF DrainClosed

LEMMA WaitStep ==
  ASSUME Inv, WaitInv, [Next]_vars
  PROVE  WaitInv'
<1>0. TypeOK
  BY DEF Inv, GuardInv
<1>1. ASSUME NEW r \in Requests, RequestNext(r) PROVE WaitInv'
  BY <1>0, <1>1, AwaitedRequest, DrainRequest DEF WaitInv
<1>2. CASE Vanish
  BY <1>2 DEF Vanish, WaitInv, AwaitedClosed, Awaited, DrainClosed
<1>3. CASE Drain
  <2>1. \A g \in Guards : /\ closed[g] => closed'[g]
                          /\ (\E k \in Keys : client[k] = g) => closed'[g]
    BY <1>3 DEF Drain
  <2>2. UNCHANGED <<pc, job, client>> /\ Readers = {} /\ Writers = {}
    BY <1>3 DEF Drain
  <2>3. AwaitedClosed'
    BY <2>1, <2>2 DEF WaitInv, AwaitedClosed, Awaited
  <2>4. DrainClosed'
    BY <1>0, <2>1, <2>2 DEF DrainClosed, Readers, Writers, TypeOK
  <2> QED
    BY <2>3, <2>4 DEF WaitInv
<1>4. ASSUME UNCHANGED <<pc, job, client>>, daemon' = daemon \/ daemon' # "draining",
             \A g \in Guards : closed[g] => closed'[g]
      PROVE  WaitInv'
  BY <1>0, <1>4 DEF WaitInv, AwaitedClosed, Awaited, DrainClosed, Readers, Writers, TypeOK
<1>5. ASSUME NEW g \in Guards, GuardNext(g) PROVE WaitInv'
  <2>1. UNCHANGED <<pc, job, client, daemon>> /\ (closed' = closed \/ Shutdown(g))
    BY <1>5 DEF GuardNext, GuardLock, GuardCheck, GuardRecord, GuardSpawn, GuardRefuse,
       GuardWake, GuardTerminate, GuardList, GuardRemove, GuardErase, GuardKeepRecord,
       GuardKilled, Disconnect, ChildExit, Fork, StrayExit, Engine
  <2> QED
    BY <1>0, <1>4, <2>1 DEF Shutdown, TypeOK
<1>6. ASSUME \/ Boot \/ Close
             \/ \E k \in Keys, d \in Digests \cup {None} : Edit(k, d)
             \/ \E k \in Roots, d \in Digests : Approve(k, d)
             \/ \E k \in Keys : Probe(k)
             \/ UNCHANGED vars
      PROVE  WaitInv'
  BY <1>4, <1>6 DEF Boot, Close, Edit, Approve, Probe
<1> QED
  BY <1>1, <1>2, <1>3, <1>5, <1>6 DEF Next, Exit, Crash

(* How far a guard is from its end.                                          *)
Distance(s) ==
    CASE s = "boot"     -> 9 [] s = "locked"   -> 8 [] s = "checked"  -> 7
      [] s = "recorded" -> 6 [] s = "running"  -> 5 [] s = "ending"   -> 4
      [] s = "listing"  -> 3 [] s = "removing" -> 2 [] s = "erasing"  -> 1
      [] OTHER          -> 0

LEMMA GuardsRunOut ==
  ASSUME TypeOK, [Next]_vars, NEW g \in Guards, gst[g] # "dead"
  PROVE  /\ gst'[g] = gst[g] \/ Distance(gst'[g]) < Distance(gst[g])
         /\ Dismissed(g) => Dismissed(g)'
<1>1. ASSUME NEW h \in Guards, GuardNext(h)
      PROVE  gst'[g] = gst[g] \/ Distance(gst'[g]) < Distance(gst[g])
  <2>1. CASE h # g
    BY <1>1, <2>1 DEF TypeOK, GuardGoto, GuardNext, GuardLock, GuardCheck, GuardRecord,
       GuardSpawn, GuardRefuse, GuardWake, GuardTerminate, GuardList, GuardRemove, GuardErase,
       GuardKeepRecord, GuardKilled, Disconnect, ChildExit, Fork, StrayExit, Engine
  <2>2. CASE h = g
    <3>1. \/ gst'[g] = gst[g] \/ gst'[g] = "dead"
          \/ gst[g] = "boot" /\ gst'[g] = "locked"
          \/ gst[g] = "locked" /\ gst'[g] = "checked"
          \/ gst[g] = "checked" /\ gst'[g] \in {"recorded", "running"}
          \/ gst[g] = "recorded" /\ gst'[g] = "running"
          \/ gst[g] = "running" /\ gst'[g] = "ending"
          \/ gst[g] = "ending" /\ gst'[g] = "listing"
          \/ gst[g] = "listing" /\ gst'[g] \in {"removing", "erasing"}
          \/ gst[g] = "removing" /\ gst'[g] = "erasing"
      BY <1>1, <2>2 DEF TypeOK, GuardGoto, GuardNext, GuardLock, GuardCheck, GuardRecord,
         GuardSpawn, GuardRefuse, GuardWake, GuardTerminate, GuardList, GuardRemove, GuardErase,
         GuardKeepRecord, GuardKilled, Disconnect, ChildExit, Fork, StrayExit, Engine
    <3>2. gst[g] \in GuardStates
      BY DEF TypeOK
    <3> QED
      BY <3>1, <3>2 DEF Distance, GuardStates
  <2> QED
    BY <2>1, <2>2
<1>2. ASSUME NEW r \in Requests, NEW h \in Guards, Launch(r, h)
      PROVE  gst'[g] = gst[g] /\ (Dismissed(g) => Dismissed(g)')
  <2>1. h # g
    BY <1>2 DEF Launch, Unused
  <2> QED
    BY <1>2, <2>1 DEF Launch, Dismissed, TypeOK
<1>3. ASSUME NEW r \in Requests, RequestNext(r), \A h \in Guards : ~Launch(r, h)
      PROVE  Dismissed(g) => Dismissed(g)'
  <2>1. orphan' = orphan /\ (closed' = closed \/ \E h : Shutdown(h))
    BY <1>3 DEF RequestNext, Submit, Enter, Admit, Stop, StopDone, Reuse, Replace, ReplaceDone,
       Lease, Connect, Attach, AbortDone, Discover, Report, Looked, Call, Answer, Ask, Continue,
       Fail, Plan, Quiesce, Unregister, Deleted
  <2> QED
    BY <2>1 DEF Dismissed, Shutdown, TypeOK
<1>4. ASSUME NEW h \in Guards, GuardNext(h) PROVE Dismissed(g) => Dismissed(g)'
  <2>1. orphan' = orphan /\ (closed' = closed \/ Shutdown(h))
    BY <1>4 DEF GuardNext, GuardLock, GuardCheck, GuardRecord, GuardSpawn, GuardRefuse,
       GuardWake, GuardTerminate, GuardList, GuardRemove, GuardErase, GuardKeepRecord,
       GuardKilled, Disconnect, ChildExit, Fork, StrayExit, Engine
  <2> QED
    BY <2>1 DEF Dismissed, Shutdown, TypeOK
<1>5. ASSUME \/ Boot \/ Close \/ Drain \/ Exit \/ Crash
             \/ \E k \in Keys, d \in Digests \cup {None} : Edit(k, d)
             \/ \E k \in Roots, d \in Digests : Approve(k, d)
             \/ \E k \in Keys : Probe(k)
             \/ UNCHANGED vars
      PROVE  Dismissed(g) => Dismissed(g)'
  BY <1>5 DEF Dismissed, TypeOK, Boot, Close, Drain, Exit, Crash, Vanish, Edit, Approve, Probe
<1>6. Dismissed(g) => Dismissed(g)'
  BY <1>2, <1>3, <1>4, <1>5 DEF Next
<1> QED
  BY <1>1, <1>2, <1>6, Steps DEF Quiet

(* What RequestsEnd, ShutdownEnds and OrphansEnd rest on besides fairness,   *)
(* for any number of requests, slots and guards: what nothing cancels waits  *)
(* only for guards that were told to end or have ended, a guard that was     *)
(* told stays told, and no step, of anybody, takes a guard back on its way   *)
(* to its end (stop, Client::shutdown, Manager::shutdown, supervise).        *)
THEOREM WaitsEnd ==
  Spec => /\ [](\A r \in Requests, g \in Guards : Awaited(r, g) => Dismissed(g))
          /\ [](daemon = "draining" =>
                  /\ Readers = {} /\ Writers = {}
                  /\ \A k \in Keys : client[k] # None => Dismissed(client[k]))
          /\ [][\A g \in Guards : gst[g] # "dead" =>
                  /\ gst'[g] = gst[g] \/ Distance(gst'[g]) < Distance(gst[g])
                  /\ Dismissed(g) => Dismissed(g)']_vars
<1>1. Init => WaitInv
  BY DEF Init, WaitInv, AwaitedClosed, Awaited, DrainClosed
<1>2. Inv /\ WaitInv /\ [Next]_vars => WaitInv'
  BY WaitStep
<1>3. WaitInv =>
        /\ \A r \in Requests, g \in Guards : Awaited(r, g) => Dismissed(g)
        /\ daemon = "draining" =>
             /\ Readers = {} /\ Writers = {}
             /\ \A k \in Keys : client[k] # None => Dismissed(client[k])
  BY DEF WaitInv, AwaitedClosed, DrainClosed, Dismissed
<1>4. Inv /\ [Next]_vars =>
        [\A g \in Guards : gst[g] # "dead" =>
           /\ gst'[g] = gst[g] \/ Distance(gst'[g]) < Distance(gst[g])
           /\ Dismissed(g) => Dismissed(g)']_vars
  BY GuardsRunOut DEF Inv, GuardInv
<1> QED
  BY <1>1, <1>2, <1>3, <1>4, InvCorrect, PTL DEF Spec
=============================================================================
