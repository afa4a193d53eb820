--------------------------- MODULE EndpointProofs ---------------------------
(***************************************************************************)
(* Machine-checked theorems about module Endpoint, for any number of       *)
(* daemons, commands and inodes.                                           *)
(***************************************************************************)
EXTENDS Endpoint, TLAPS

USE DEF vars, files, daemon, local, history
USE DEF Names, Dead, Binding, Retiring, Holding, DaemonPcs, Inside, Ended, ClientPcs
USE NoneAssumption

(* The lock of the state directory.                                        *)
Alone ==
    \A d, e \in Daemons : dpc[d] \in Holding /\ dpc[e] \in Holding => d = e

(* The record is that of daemon d.                                         *)
RecordOf(d) == record = [daemon |-> d, inode |-> listening[d]]

(* What the holder of the lock finds, at each of its steps.                *)
FilesFit(d) ==
    /\ dpc[d] \in {"forget", "bind", "retract"} =>
         at["socket"] = None /\ at["pending"] = None
    /\ dpc[d] = "dial" => at[stale[d].name] = stale[d].inode
    /\ dpc[d] \in Binding => at["socket"] = None /\ at["pending"] = listening[d]
    /\ dpc[d] \in {"publish", "serve", "stopping"} => RecordOf(d)
    /\ dpc[d] \in {"serve", "stopping"} => at["socket"] = listening[d]

(* A published socket is recorded and never beside a pending one.          *)
SocketRecorded ==
    at["socket"] # None => at["pending"] = None /\ Matches(record, "socket")

LockInv == Alone /\ SocketRecorded /\ \A d \in Daemons : FilesFit(d)

Inv == TypeOK /\ LockInv

-----------------------------------------------------------------------------
(* Type correctness.                                                       *)

LEMMA InitType == Init => TypeOK
<1> SUFFICES ASSUME Init PROVE TypeOK OBVIOUS
<1>1. /\ dpc \in [Daemons -> DaemonPcs]
      /\ listening \in [Daemons -> Inodes \cup {None}]
      /\ stale \in [Daemons -> Leftovers \cup {None}]
      /\ at \in [Names -> Inodes \cup {None}]
  BY DEF Init
<1>2. \A d \in Daemons : dpc[d] = "none" /\ listening[d] = None
  BY DEF Init
<1>3. /\ cpc \in [Clients -> ClientPcs]
      /\ mode \in [Clients -> {"passive", "first", "launched"}]
      /\ seen \in [Clients -> Records \cup {None}]
      /\ peer \in [Clients -> Daemons \cup {None}]
      /\ child \in [Clients -> Daemons \cup {None}]
      /\ calm \in [Clients -> BOOLEAN] /\ upset \in BOOLEAN
  BY DEF Init
<1>4. \A c \in Clients : cpc[c] = "new" /\ mode[c] = "passive" /\ child[c] = None
  BY DEF Init
<1>5. record \in Records \cup {None} BY DEF Init
<1> QED BY <1>1, <1>2, <1>3, <1>4, <1>5 DEF TypeOK

(* The end of a daemon, alone.                                             *)
LEMMA ExitType ==
  ASSUME TypeOK, NEW d \in Daemons, NEW how \in Dead, Exit(d, how)
  PROVE  /\ dpc' \in [Daemons -> DaemonPcs]
         /\ listening' \in [Daemons -> Inodes \cup {None}]
         /\ \A e \in Daemons :
              listening'[e] # None <=> dpc'[e] \in Binding \cup Retiring \cup {"serve"}
         /\ stale' \in [Daemons -> Leftovers \cup {None}]
         /\ \A e \in Daemons : dpc'[e] = "dial" => stale'[e] # None
BY DEF TypeOK, Exit

LEMMA DropType ==
  ASSUME TypeOK, NEW c \in Clients, DropLaunch(c)
  PROVE  /\ dpc' \in [Daemons -> DaemonPcs]
         /\ listening' \in [Daemons -> Inodes \cup {None}]
         /\ \A e \in Daemons :
              listening'[e] # None <=> dpc'[e] \in Binding \cup Retiring \cup {"serve"}
         /\ stale' \in [Daemons -> Leftovers \cup {None}]
         /\ \A e \in Daemons : dpc'[e] = "dial" => stale'[e] # None
<1>1. CASE child[c] # None /\ dpc[child[c]] \notin Dead
  <2>1. child[c] \in Daemons /\ Exit(child[c], "crashed")
    BY <1>1 DEF DropLaunch, TypeOK
  <2> QED BY <2>1, ExitType
<1>2. CASE ~ (child[c] # None /\ dpc[child[c]] \notin Dead)
  BY <1>2 DEF DropLaunch, TypeOK
<1> QED BY <1>1, <1>2

LEMMA DaemonType ==
  ASSUME TypeOK, NEW d \in Daemons, DaemonStep(d) \/ Stop(d) \/ Crash(d)
  PROVE  TypeOK'
<1>1. ASSUME TakeLock(d) PROVE TypeOK'
  <2>1. CASE TryLock(d) BY <1>1, <2>1 DEF TakeLock, Goto, TypeOK
  <2>2. CASE ~ TryLock(d) BY <1>1, <2>2, ExitType DEF TakeLock, TypeOK
  <2> QED BY <2>1, <2>2
<1>2. ASSUME Reconcile(d) PROVE TypeOK'
  <2>1. CASE at[StaleName] = None
    BY <1>2, <2>1 DEF Reconcile, Goto, TypeOK
  <2>2. CASE at[StaleName] # None /\ Matches(record, StaleName)
    <3>1. [name |-> StaleName, inode |-> record.inode] \in Leftovers
      BY <2>2 DEF Leftovers, TypeOK, Matches, StaleName, Records
    <3>2. [name |-> StaleName, inode |-> record.inode] # None
      BY <1>2, <2>2, <3>1 DEF TypeOK, Matches
    <3> QED BY <1>2, <2>2, <3>1, <3>2 DEF Reconcile, TypeOK
  <2>3. CASE at[StaleName] # None /\ ~ Matches(record, StaleName)
    BY <1>2, <2>3, ExitType DEF Reconcile, TypeOK
  <2> QED BY <2>1, <2>2, <2>3
<1>3. ASSUME Replace(d) PROVE TypeOK'
  <2>1. CASE at[stale[d].name] = stale[d].inode /\ Listener(stale[d].inode) = {}
    BY <1>3, <2>1 DEF Replace, Goto, TypeOK
  <2>2. CASE ~ (at[stale[d].name] = stale[d].inode /\ Listener(stale[d].inode) = {})
    BY <1>3, <2>2, ExitType DEF Replace, TypeOK
  <2> QED BY <2>1, <2>2
<1>4. ASSUME Forget(d) PROVE TypeOK' BY <1>4 DEF Forget, Goto, TypeOK
<1>5. ASSUME Bind(d) PROVE TypeOK'
  <2>1. CASE at["pending"] # None BY <1>5, <2>1, ExitType DEF Bind, TypeOK
  <2>2. CASE at["pending"] = None BY <1>5, <2>2 DEF Bind, FreeInodes, TypeOK
  <2> QED BY <2>1, <2>2
<1>6. ASSUME SaveRecord(d) PROVE TypeOK'
  <2>1. listening[d] \in Inodes BY <1>6 DEF SaveRecord, TypeOK
  <2> QED BY <1>6, <2>1 DEF SaveRecord, Save, Goto, TypeOK, Records
<1>7. ASSUME Publish(d) PROVE TypeOK' BY <1>7 DEF Publish, Goto, TypeOK
<1>8. ASSUME Retract(d) PROVE TypeOK'
  <2>1. CASE at["socket"] = listening[d] BY <1>8, <2>1 DEF Retract, Goto, TypeOK
  <2>2. CASE at["socket"] # listening[d] BY <1>8, <2>2, ExitType DEF Retract, TypeOK
  <2> QED BY <2>1, <2>2
<1>9. ASSUME Leave(d) PROVE TypeOK' BY <1>9, ExitType DEF Leave, TypeOK
<1>10. ASSUME Stop(d) PROVE TypeOK' BY <1>10 DEF Stop, Goto, Disturb, TypeOK
<1>11. ASSUME Crash(d) PROVE TypeOK'
  BY <1>11, ExitType DEF Crash, Disturb, TypeOK
<1> QED BY <1>1, <1>2, <1>3, <1>4, <1>5, <1>6, <1>7, <1>8, <1>9, <1>10, <1>11
        DEF DaemonStep

LEMMA ClientType ==
  ASSUME TypeOK, NEW c \in Clients,
         Start(c) \/ ClientStep(c) \/ Interrupt(c) \/ Kill(c)
  PROVE  TypeOK'
<1>1. ASSUME Start(c) PROVE TypeOK'
  <2>1. Settled \in BOOLEAN BY DEF Settled
  <2> QED BY <1>1, <2>1 DEF Start, Move, TypeOK
<1>2. ASSUME Acquire(c) PROVE TypeOK' BY <1>2 DEF Acquire, Move, TypeOK
<1>3. ASSUME Look(c) PROVE TypeOK' BY <1>3 DEF Look, Nothing, Move, TypeOK
<1>4. ASSUME Read(c) PROVE TypeOK' BY <1>4, DropType DEF Read, Fail, Move, TypeOK
<1>5. ASSUME Verify(c) PROVE TypeOK' BY <1>5, DropType DEF Verify, Fail, Move, TypeOK
<1>6. ASSUME Dial(c) PROVE TypeOK'
  BY <1>6, DropType DEF Dial, Fail, Nothing, Move, Listener, TypeOK
<1>7. ASSUME Hello(c) PROVE TypeOK' BY <1>7, DropType DEF Hello, Fail, Move, TypeOK
<1>8. ASSUME Spawn(c) PROVE TypeOK' BY <1>8 DEF Spawn, Goto, Move, TypeOK
<1>9. ASSUME Poll(c) PROVE TypeOK' BY <1>9, DropType DEF Poll, Fail, Move, TypeOK
<1>10. ASSUME Interrupt(c) PROVE TypeOK'
  BY <1>10, DropType DEF Interrupt, Disturb, Move, TypeOK
<1>11. ASSUME Kill(c) PROVE TypeOK' BY <1>11 DEF Kill, Disturb, Move, TypeOK
<1> QED BY <1>1, <1>2, <1>3, <1>4, <1>5, <1>6, <1>7, <1>8, <1>9, <1>10, <1>11
        DEF ClientStep

LEMMA NextType == TypeOK /\ [Next]_vars => TypeOK'
<1> SUFFICES ASSUME TypeOK, [Next]_vars PROVE TypeOK' OBVIOUS
<1>1. CASE UNCHANGED vars BY <1>1 DEF TypeOK
<1>2. CASE Next BY <1>2, DaemonType, ClientType DEF Next
<1> QED BY <1>1, <1>2

(* TypeOK: where a process is determines what it has.                      *)
THEOREM TypeCorrect == Spec => []TypeOK
BY InitType, NextType, PTL DEF Spec

-----------------------------------------------------------------------------
(* The lock and the files.                                                 *)

LEMMA InitInv == Init => LockInv
BY DEF Init, LockInv, Alone, SocketRecorded, FilesFit

(* A daemon that ends leaves the files as they are.                        *)
LEMMA ExitInv ==
  ASSUME Inv, NEW d \in Daemons, NEW how \in Dead, Exit(d, how), UNCHANGED files
  PROVE  LockInv'
BY DEF Exit, Inv, TypeOK, LockInv, Alone, SocketRecorded, FilesFit, RecordOf, Matches

(* Whoever holds the lock holds it alone: the others have no listener.     *)
LEMMA SoleListener ==
  ASSUME Inv, NEW d \in Daemons, dpc[d] \in Holding, NEW i \in Inodes,
         listening[d] = None
  PROVE  Listener(i) = {}
BY DEF Inv, TypeOK, LockInv, Alone, Listener

(* reconcile gives up only over a pending socket without its record.       *)
LEMMA ReconcileFails ==
  ASSUME Inv, NEW d \in Daemons, Reconcile(d), dpc'[d] = "failed"
  PROVE  Orphan
BY DEF Reconcile, Goto, StaleName, Orphan, Inv, TypeOK, LockInv, SocketRecorded

(* Nobody can listen on what is replaced, and nobody has replaced it.      *)
LEMMA ReplaceSucceeds ==
  ASSUME Inv, NEW d \in Daemons, dpc[d] = "dial"
  PROVE  /\ stale[d] \in Leftovers
         /\ at[stale[d].name] = stale[d].inode
         /\ Listener(stale[d].inode) = {}
<1>1. stale[d] \in Leftovers /\ listening[d] = None BY DEF Inv, TypeOK
<1>2. stale[d].inode \in Inodes BY <1>1 DEF Leftovers
<1> QED BY <1>1, <1>2, SoleListener DEF Inv, LockInv, FilesFit

LEMMA DaemonInv ==
  ASSUME Inv, NEW d \in Daemons, DaemonStep(d) \/ Stop(d) \/ Crash(d)
  PROVE  LockInv'
<1>. USE DEF Inv, TypeOK, LockInv, Alone, SocketRecorded, FilesFit, RecordOf, Matches
<1>1. ASSUME TakeLock(d) PROVE LockInv'
  <2>1. CASE TryLock(d) BY <1>1, <2>1 DEF TakeLock, TryLock, Goto
  <2>2. CASE ~ TryLock(d) BY <1>1, <2>2, ExitInv DEF TakeLock
  <2> QED BY <2>1, <2>2
<1>2. ASSUME Reconcile(d) PROVE LockInv'
  <2>1. CASE at[StaleName] = None
    <3>1. at["socket"] = None /\ at["pending"] = None BY <2>1 DEF StaleName
    <3> QED BY <1>2, <2>1, <3>1 DEF Reconcile, Goto
  <2>2. CASE at[StaleName] # None /\ Matches(record, StaleName)
    BY <1>2, <2>2 DEF Reconcile, StaleName
  <2>3. CASE at[StaleName] # None /\ ~ Matches(record, StaleName)
    BY <1>2, <2>3, ExitInv DEF Reconcile
  <2> QED BY <2>1, <2>2, <2>3
<1>3. ASSUME Replace(d) PROVE LockInv'
  <2>1. /\ stale[d] \in Leftovers /\ at[stale[d].name] = stale[d].inode
        /\ Listener(stale[d].inode) = {}
    BY <1>3, ReplaceSucceeds DEF Replace
  <2>2. Goto(d, "forget") /\ at' = [at EXCEPT ![stale[d].name] = None]
    BY <1>3, <2>1 DEF Replace
  <2>3. at'["socket"] = None /\ at'["pending"] = None
    BY <2>1, <2>2 DEF Leftovers
  <2> QED BY <1>3, <2>2, <2>3 DEF Replace, Goto
<1>4. ASSUME Forget(d) PROVE LockInv' BY <1>4 DEF Forget, Goto
<1>5. ASSUME Bind(d) PROVE LockInv'
  <2>1. dpc[d] = "bind" /\ at["pending"] = None /\ at["socket"] = None
    BY <1>5 DEF Bind
  <2> QED BY <1>5, <2>1 DEF Bind, FreeInodes
<1>6. ASSUME SaveRecord(d) PROVE LockInv'
  <2>1. dpc[d] = "save" /\ at["socket"] = None /\ at["pending"] = listening[d]
    BY <1>6 DEF SaveRecord
  <2> QED BY <1>6, <2>1 DEF SaveRecord, Save, Goto
<1>7. ASSUME Publish(d) PROVE LockInv'
  <2>1. /\ dpc[d] = "publish" /\ at["pending"] = listening[d]
        /\ at["socket"] = None /\ RecordOf(d) /\ listening[d] \in Inodes
    BY <1>7 DEF Publish
  <2>2. at'["socket"] = listening[d] /\ at'["pending"] = None
    BY <1>7, <2>1 DEF Publish
  <2>3. record # None /\ record.inode = listening[d]
    BY <2>1 DEF Records
  <2> QED BY <1>7, <2>1, <2>2, <2>3 DEF Publish, Goto
<1>8. ASSUME Retract(d) PROVE LockInv'
  <2>1. /\ dpc[d] = "stopping" /\ at["socket"] = listening[d]
        /\ at["pending"] = None
    BY <1>8 DEF Retract
  <2> QED BY <1>8, <2>1 DEF Retract, Goto
<1>9. ASSUME Leave(d) PROVE LockInv' BY <1>9 DEF Leave, Exit
<1>10. ASSUME Stop(d) PROVE LockInv' BY <1>10 DEF Stop, Goto
<1>11. ASSUME Crash(d) PROVE LockInv' BY <1>11, ExitInv DEF Crash
<1> QED BY <1>1, <1>2, <1>3, <1>4, <1>5, <1>6, <1>7, <1>8, <1>9, <1>10, <1>11
        DEF DaemonStep

(* All that a client does to the daemons.                                  *)
LEMMA ClientEffect ==
  ASSUME TypeOK, NEW c \in Clients,
         Start(c) \/ ClientStep(c) \/ Interrupt(c) \/ Kill(c)
  PROVE  /\ UNCHANGED files
         /\ \/ UNCHANGED daemon
            \/ \E d \in Daemons : Exit(d, "crashed")
            \/ \E d \in Daemons : dpc[d] = "none" /\ Goto(d, "lock")
<1>1. ASSUME DropLaunch(c)
      PROVE  UNCHANGED daemon \/ \E d \in Daemons : Exit(d, "crashed")
  BY <1>1 DEF DropLaunch, TypeOK
<1>2. CASE Start(c) \/ Acquire(c) \/ Kill(c) BY <1>2 DEF Start, Acquire, Kill
<1>3. CASE Look(c) BY <1>3 DEF Look, Nothing
<1>4. CASE Read(c) BY <1>1, <1>4 DEF Read, Fail
<1>5. CASE Verify(c) BY <1>1, <1>5 DEF Verify, Fail
<1>6. CASE Dial(c) BY <1>1, <1>6 DEF Dial, Fail, Nothing
<1>7. CASE Hello(c) BY <1>1, <1>7 DEF Hello, Fail
<1>8. CASE Spawn(c) BY <1>8 DEF Spawn
<1>9. CASE Poll(c) BY <1>1, <1>9 DEF Poll, Fail
<1>10. CASE Interrupt(c) BY <1>1, <1>10 DEF Interrupt
<1> QED BY <1>2, <1>3, <1>4, <1>5, <1>6, <1>7, <1>8, <1>9, <1>10 DEF ClientStep

LEMMA ClientInv ==
  ASSUME Inv, NEW c \in Clients,
         Start(c) \/ ClientStep(c) \/ Interrupt(c) \/ Kill(c)
  PROVE  LockInv'
<1>1. UNCHANGED files BY ClientEffect DEF Inv
<1>2. CASE UNCHANGED daemon
  BY <1>1, <1>2 DEF Inv, LockInv, Alone, SocketRecorded, FilesFit, RecordOf, Matches
<1>3. ASSUME NEW d \in Daemons, Exit(d, "crashed") PROVE LockInv'
  BY <1>1, <1>3, ExitInv
<1>4. ASSUME NEW d \in Daemons, dpc[d] = "none", Goto(d, "lock") PROVE LockInv'
  BY <1>1, <1>4 DEF Goto, Inv, TypeOK, LockInv, Alone, SocketRecorded, FilesFit,
                    RecordOf, Matches
<1> QED BY <1>2, <1>3, <1>4, ClientEffect DEF Inv

LEMMA NextInv == Inv /\ [Next]_vars => Inv'
<1> SUFFICES ASSUME Inv, [Next]_vars PROVE Inv' OBVIOUS
<1>1. TypeOK' BY NextType DEF Inv
<1>2. CASE UNCHANGED vars
  BY <1>1, <1>2 DEF Inv, LockInv, Alone, SocketRecorded, FilesFit, RecordOf, Matches
<1>3. CASE Next BY <1>1, <1>3, DaemonInv, ClientInv DEF Next, Inv
<1> QED BY <1>2, <1>3

(* The inductive invariant: one daemon has the lock, and the files are     *)
(* what its step needs.                                                    *)
THEOREM InvCorrect == Spec => []Inv
<1>1. Init => Inv BY InitType, InitInv DEF Inv
<1> QED BY <1>1, NextInv, PTL DEF Spec

(* ServingReachable: a daemon that serves can be found.                    *)
THEOREM Reachable == Spec => []ServingReachable
<1>1. Inv => ServingReachable
  BY DEF Inv, LockInv, FilesFit, RecordOf, ServingReachable
<1> QED BY <1>1, InvCorrect, PTL

(* RecoversOthers: only a pending socket without its record stops the next *)
(* daemon.                                                                 *)
THEOREM Recovers == Spec => RecoversOthers
<1>1. ASSUME Inv, [Next]_vars, NEW d \in Daemons,
             dpc[d] # "failed", dpc'[d] = "failed"
      PROVE  Orphan
  <2>1. CASE UNCHANGED vars BY <1>1, <2>1
  <2>2. ASSUME NEW c \in Clients,
               Start(c) \/ ClientStep(c) \/ Interrupt(c) \/ Kill(c)
        PROVE  FALSE
    BY <1>1, <2>2, ClientEffect DEF Inv, TypeOK, Exit, Goto
  <2>3. ASSUME NEW e \in Daemons, DaemonStep(e) \/ Stop(e) \/ Crash(e)
        PROVE  Orphan
    <3>1. e = d
      BY <1>1, <2>3 DEF DaemonStep, TakeLock, Reconcile, Replace, Forget, Bind,
         SaveRecord, Save, Publish, Retract, Leave, Stop, Crash, Goto, Exit, Inv, TypeOK
    <3>2. CASE Reconcile(d) BY <1>1, <3>2, ReconcileFails
    <3>3. CASE Replace(d)
      BY <1>1, <3>3, ReplaceSucceeds DEF Replace, Goto, Inv, TypeOK
    <3>4. CASE Bind(d)
      BY <1>1, <3>4 DEF Bind, Inv, TypeOK, LockInv, FilesFit
    <3>5. CASE Retract(d)
      BY <1>1, <3>5 DEF Retract, Goto, Inv, TypeOK, LockInv, FilesFit
    <3>6. CASE TakeLock(d) \/ Forget(d) \/ SaveRecord(d) \/ Publish(d) \/ Leave(d)
      BY <1>1, <3>6 DEF TakeLock, Forget, SaveRecord, Save, Publish, Leave, Goto,
         Exit, Inv, TypeOK
    <3>7. CASE Stop(d) \/ Crash(d)
      BY <1>1, <3>7 DEF Stop, Crash, Goto, Exit, Inv, TypeOK
    <3> QED BY <2>3, <3>1, <3>2, <3>3, <3>4, <3>5, <3>6, <3>7 DEF DaemonStep
  <2> QED BY <1>1, <2>1, <2>2, <2>3 DEF Next
<1>2. Inv /\ [Next]_vars =>
        [\A d \in Daemons : dpc[d] # "failed" /\ dpc'[d] = "failed" => Orphan]_vars
  BY <1>1
<1> QED BY <1>2, InvCorrect, PTL DEF Spec, RecoversOthers

-----------------------------------------------------------------------------
(* A first start that nothing disturbs.                                    *)

Up == {"none", "lock", "reconcile", "bind", "serve"} \cup Binding

(* There is at most one daemon, and files only of it.                      *)
OneLaunch ==
    /\ \A d \in Daemons : dpc[d] \in Up
    /\ \A d, e \in Daemons : dpc[d] # "none" /\ dpc[e] # "none" => d = e
    /\ (\A d \in Daemons : listening[d] = None) =>
          at["socket"] = None /\ at["pending"] = None

(* A daemon that does not serve yet is waited for under the lock.          *)
Waited(d) ==
    dpc[d] \notin {"none", "serve"} =>
        \E c \in Clients : mode[c] = "launched" /\ cpc[c] \in Inside /\ child[c] = d

(* Who has the bootstrap lock has it alone.                                *)
Boots(c) == mode[c] # "passive" /\ cpc[c] \in Inside

BootAlone == \A c, e \in Clients : Boots(c) /\ Boots(e) => c = e

(* What a client relies on between two looks.                              *)
Relies(c) ==
    /\ cpc[c] # "error"
    /\ cpc[c] \in {"lock", "spawn"} => mode[c] = "first"
    /\ cpc[c] = "ready" => mode[c] = "launched"
    /\ child[c] # None => dpc[child[c]] # "none"
    /\ cpc[c] = "spawn" => \A d \in Daemons : dpc[d] = "none"
    /\ cpc[c] \in {"read", "verify", "dial", "hello"} =>
         \E d \in Daemons : dpc[d] = "serve"
    /\ cpc[c] \in {"verify", "dial"} => seen[c] = record
    /\ cpc[c] = "hello" => dpc[peer[c]] = "serve"

Clean ==
    /\ OneLaunch /\ BootAlone
    /\ \A d \in Daemons : Waited(d)
    /\ \A c \in Clients : Relies(c)

CleanInv == Inv /\ (~ upset => Clean)

LEMMA CleanInit == Init => Clean
<1> SUFFICES ASSUME Init PROVE Clean OBVIOUS
<1>1. /\ \A d \in Daemons : dpc[d] = "none"
      /\ at["socket"] = None /\ at["pending"] = None
      /\ \A c \in Clients : cpc[c] = "new" /\ child[c] = None
  BY DEF Init
<1>2. OneLaunch BY <1>1 DEF OneLaunch, Up
<1>3. BootAlone BY <1>1 DEF Boots, BootAlone
<1>4. \A d \in Daemons : Waited(d) BY <1>1 DEF Waited
<1>5. \A c \in Clients : Relies(c) BY <1>1 DEF Relies
<1> QED BY <1>2, <1>3, <1>4, <1>5 DEF Clean

LEMMA CleanDaemon ==
  ASSUME Inv, Clean, NEW d \in Daemons, DaemonStep(d)
  PROVE  Clean'
<1>1. /\ dpc[d] \in Up /\ \A e \in Daemons : dpc[e] # "none" => e = d
      /\ dpc[d] \notin {"none", "serve"}
  BY DEF DaemonStep, TakeLock, Reconcile, Replace, Forget, Bind, SaveRecord, Publish,
         Retract, Leave, Clean, OneLaunch, Up
<1>2. \A c \in Clients : cpc[c] \notin {"read", "verify", "dial", "hello", "spawn"}
  BY <1>1 DEF Clean, Relies, Inv, TypeOK
<1>3. \/ dpc'[d] = "reconcile" /\ dpc[d] = "lock" /\ UNCHANGED <<listening, at>>
      \/ dpc'[d] = "bind" /\ dpc[d] = "reconcile" /\ UNCHANGED <<listening, at>>
      \/ dpc'[d] = "save" /\ listening'[d] # None
      \/ dpc'[d] \in {"publish", "serve"} /\ listening[d] # None /\ UNCHANGED listening
  <2>1. ASSUME TakeLock(d)
        PROVE  dpc'[d] = "reconcile" /\ dpc[d] = "lock" /\ UNCHANGED <<listening, at>>
    <3>1. TryLock(d) BY <1>1, <2>1 DEF TakeLock, TryLock
    <3> QED BY <2>1, <3>1 DEF TakeLock, Goto, Inv, TypeOK
  <2>2. ASSUME Reconcile(d)
        PROVE  dpc'[d] = "bind" /\ dpc[d] = "reconcile" /\ UNCHANGED <<listening, at>>
    <3>1. \A e \in Daemons : listening[e] = None
      BY <1>1, <2>2 DEF Reconcile, Inv, TypeOK
    <3>2. at["socket"] = None /\ at["pending"] = None
      BY <3>1 DEF Clean, OneLaunch
    <3>3. at[StaleName] = None BY <3>2 DEF StaleName
    <3> QED BY <2>2, <3>3 DEF Reconcile, Goto, Inv, TypeOK
  <2>3. ASSUME Bind(d) PROVE dpc'[d] = "save" /\ listening'[d] # None
    BY <2>3 DEF Bind, FreeInodes, Inv, TypeOK, LockInv, FilesFit
  <2>4. ASSUME SaveRecord(d) \/ Publish(d)
        PROVE  dpc'[d] \in {"publish", "serve"} /\ listening[d] # None /\ UNCHANGED listening
    BY <2>4 DEF SaveRecord, Save, Publish, Goto, Inv, TypeOK
  <2>5. ~ (Replace(d) \/ Forget(d) \/ Retract(d) \/ Leave(d))
    BY <1>1 DEF Replace, Forget, Retract, Leave, Up
  <2> QED BY <2>1, <2>2, <2>3, <2>4, <2>5 DEF DaemonStep
<1>4. /\ \A e \in Daemons : e # d => dpc'[e] = dpc[e]
      /\ UNCHANGED <<cpc, local>>
  BY DEF DaemonStep, TakeLock, Reconcile, Replace, Forget, Bind, SaveRecord, Save,
         Publish, Retract, Leave, Goto, Exit, Inv, TypeOK
<1>5. OneLaunch'
  BY <1>1, <1>3, <1>4 DEF Clean, OneLaunch, Up, Inv, TypeOK
<1>6. \A e \in Daemons : Waited(e)'
  BY <1>1, <1>4 DEF Clean, Waited
<1>7. BootAlone' BY <1>4 DEF Clean, Boots, BootAlone
<1>8. \A c \in Clients : Relies(c)'
  <2> SUFFICES ASSUME NEW c \in Clients PROVE Relies(c)' OBVIOUS
  <2>1. /\ cpc'[c] = cpc[c] /\ mode'[c] = mode[c] /\ child'[c] = child[c]
        /\ Relies(c)
    BY <1>4 DEF Clean
  <2>2. dpc'[d] # "none" BY <1>3
  <2>3. child[c] # None => dpc'[child[c]] # "none"
    BY <1>4, <2>1, <2>2 DEF Relies, Inv, TypeOK
  <2> QED BY <1>2, <2>1, <2>3 DEF Relies
<1> QED BY <1>5, <1>6, <1>7, <1>8 DEF Clean

(* The daemon that serves is the one clients have seen and talk to.        *)
LEMMA Serving ==
  ASSUME Inv, Clean, NEW c \in Clients, cpc[c] \in {"read", "verify", "dial", "hello"}
  PROVE  \E d \in Daemons :
            /\ dpc[d] = "serve" /\ RecordOf(d) /\ record # None
            /\ at["socket"] = listening[d] /\ listening[d] \in Inodes
            /\ Listener(at["socket"]) = {d}
            /\ \A e \in Daemons : dpc[e] # "none" => e = d
<1>1. PICK d \in Daemons : dpc[d] = "serve" BY DEF Clean, Relies
<1>2. /\ RecordOf(d) /\ at["socket"] = listening[d] /\ listening[d] \in Inodes
      /\ \A e \in Daemons : dpc[e] # "none" => e = d
  BY <1>1 DEF Inv, TypeOK, LockInv, FilesFit, Clean, OneLaunch
<1>3. record # None BY <1>2 DEF RecordOf, Records
<1>4. \A e \in Daemons : listening[e] # None => e = d
  BY <1>2 DEF Inv, TypeOK
<1>5. Listener(at["socket"]) = {d} BY <1>2, <1>4 DEF Listener
<1> QED BY <1>1, <1>2, <1>3, <1>5

(* Where a client ends up that changes no daemon.                          *)
LEMMA CleanMove ==
  ASSUME Inv, Clean, NEW c \in Clients, NEW where \in ClientPcs, Move(c, where),
         UNCHANGED <<daemon, files, mode, child>>,
         \A e \in Clients : e # c => seen'[e] = seen[e] /\ peer'[e] = peer[e],
         where \in Inside /\ mode[c] # "passive" => cpc[c] \in Inside \/ Bootstrap(c),
         where \notin Inside /\ mode[c] = "launched" =>
            \A d \in Daemons : dpc[d] \in {"none", "serve"},
         Relies(c)'
  PROVE  Clean'
<1>1. /\ cpc \in [Clients -> ClientPcs] /\ cpc' = [cpc EXCEPT ![c] = where]
  BY DEF Inv, TypeOK, Move
<1>2. OneLaunch' BY DEF Clean, OneLaunch
<1>3. BootAlone'
  <2> SUFFICES ASSUME NEW x \in Clients, NEW y \in Clients,
                      mode[x] # "passive" /\ cpc'[x] \in Inside,
                      mode[y] # "passive" /\ cpc'[y] \in Inside, x # y
               PROVE  FALSE
    BY DEF Boots, BootAlone
  <2>1. \A e \in Clients : e # c => cpc'[e] = cpc[e] BY <1>1
  <2>2. cpc'[c] = where BY <1>1
  <2>3. CASE cpc[c] \in Inside
    BY <2>1, <2>2, <2>3 DEF Clean, Boots, BootAlone
  <2>4. CASE cpc[c] \notin Inside
    <3>1. x # c /\ y # c BY <2>1, <2>2, <2>4 DEF Bootstrap
    <3> QED BY <2>1, <3>1 DEF Clean, Boots, BootAlone
  <2> QED BY <2>3, <2>4
<1>4. \A d \in Daemons : Waited(d)'
  <2> SUFFICES ASSUME NEW d \in Daemons, dpc[d] \notin {"none", "serve"}
               PROVE  \E e \in Clients : mode[e] = "launched" /\ cpc'[e] \in Inside /\ child[e] = d
    BY DEF Waited
  <2>1. PICK e \in Clients : mode[e] = "launched" /\ cpc[e] \in Inside /\ child[e] = d
    BY DEF Clean, Waited
  <2> QED BY <1>1, <2>1
<1>5. \A e \in Clients : e # c => Relies(e)' BY <1>1 DEF Clean, Relies
<1> QED BY <1>2, <1>3, <1>4, <1>5 DEF Clean

LEMMA CleanClient ==
  ASSUME Inv, Clean, NEW c \in Clients, Start(c) \/ ClientStep(c)
  PROVE  Clean'
<1>. USE DEF Inv, TypeOK
<1>0. Relies(c) BY DEF Clean
<1>1. ASSUME Start(c) PROVE Clean'
  <2>1. /\ UNCHANGED <<daemon, files, seen, peer, child>> /\ child[c] = None
        /\ \/ cpc'[c] = "look" /\ mode'[c] = "passive"
           \/ cpc'[c] = "lock" /\ mode'[c] = "first"
        /\ \A e \in Clients : e # c => cpc'[e] = cpc[e] /\ mode'[e] = mode[e]
        /\ cpc[c] = "new"
    BY <1>1 DEF Start, Move
  <2>2. OneLaunch' BY <2>1 DEF Clean, OneLaunch
  <2>3. BootAlone' BY <2>1 DEF Clean, Boots, BootAlone
  <2>4. \A d \in Daemons : Waited(d)' BY <2>1 DEF Clean, Waited
  <2>5. \A e \in Clients : Relies(e)' BY <2>1 DEF Clean, Relies
  <2> QED BY <2>2, <2>3, <2>4, <2>5 DEF Clean
<1>2. ASSUME Acquire(c) PROVE Clean'
  <2>1. Relies(c)' BY <1>0, <1>2 DEF Acquire, Move, Relies
  <2> QED BY <1>2, <2>1, CleanMove DEF Acquire
<1>3. ASSUME Look(c) PROVE Clean'
  <2>1. CASE at["socket"] # None
    <3>1. \E d \in Daemons : dpc[d] = "serve"
      BY <2>1 DEF Clean, OneLaunch, Up, LockInv, FilesFit, SocketRecorded
    <3>2. Relies(c)' BY <1>0, <1>3, <2>1, <3>1 DEF Look, Move, Relies
    <3> QED BY <1>3, <2>1, <3>2, CleanMove DEF Look
  <2>2. CASE at["socket"] = None /\ mode[c] = "passive"
    <3>1. Move(c, "absent") BY <1>3, <2>2 DEF Look, Nothing
    <3>2. Relies(c)' BY <1>0, <1>3, <2>2, <3>1 DEF Look, Nothing, Move, Relies
    <3> QED BY <1>3, <2>2, <3>1, <3>2, CleanMove DEF Look, Nothing
  <2>3. CASE at["socket"] = None /\ mode[c] = "first"
    <3>1. Move(c, "spawn") BY <1>3, <2>3 DEF Look, Nothing
    <3>2. \A d \in Daemons : dpc[d] = "none"
      BY <1>3, <2>3 DEF Look, Clean, Waited, Boots, BootAlone, LockInv, FilesFit
    <3>3. Relies(c)' BY <1>0, <1>3, <2>3, <3>1, <3>2 DEF Look, Nothing, Move, Relies
    <3> QED BY <1>3, <2>3, <3>1, <3>3, CleanMove DEF Look, Nothing
  <2>4. CASE at["socket"] = None /\ mode[c] = "launched"
    <3>1. Move(c, "ready") BY <1>3, <2>4 DEF Look, Nothing
    <3>2. Relies(c)' BY <1>0, <1>3, <2>4, <3>1 DEF Look, Nothing, Move, Relies
    <3> QED BY <1>3, <2>4, <3>1, <3>2, CleanMove DEF Look, Nothing
  <2> QED BY <2>1, <2>2, <2>3, <2>4
<1>4. ASSUME Read(c) PROVE Clean'
  <2>1. record # None BY <1>4, Serving DEF Read
  <2>2. Relies(c)' BY <1>0, <1>4, <2>1 DEF Read, Move, Relies
  <2> QED BY <1>4, <2>1, <2>2, CleanMove DEF Read
<1>5. ASSUME Verify(c) PROVE Clean'
  <2>1. Matches(seen[c], "socket")
    BY <1>0, <1>5, Serving DEF Verify, Relies, Matches, RecordOf
  <2>2. Relies(c)' BY <1>0, <1>5, <2>1 DEF Verify, Move, Relies
  <2> QED BY <1>5, <2>1, <2>2, CleanMove DEF Verify
<1>6. ASSUME Dial(c) PROVE Clean'
  <2>1. PICK d \in Daemons :
            /\ dpc[d] = "serve" /\ RecordOf(d) /\ at["socket"] \in Inodes
            /\ Listener(at["socket"]) = {d}
    BY <1>6, Serving DEF Dial
  <2>2. /\ seen[c].daemon = d /\ at["socket"] # None
    BY <1>0, <1>6, <2>1 DEF Dial, Relies, RecordOf
  <2>3. Move(c, "hello") /\ UNCHANGED daemon /\ peer' = [peer EXCEPT ![c] = d]
    BY <1>6, <2>1, <2>2 DEF Dial
  <2>4. Relies(c)' BY <1>0, <1>6, <2>1, <2>3 DEF Dial, Move, Relies
  <2> QED BY <1>6, <2>3, <2>4, CleanMove DEF Dial
<1>7. ASSUME Hello(c) PROVE Clean'
  <2>1. /\ Move(c, "connected") /\ UNCHANGED daemon
        /\ \A d \in Daemons : dpc[d] \in {"none", "serve"}
    BY <1>0, <1>7, Serving DEF Hello, Relies
  <2>2. Relies(c)' BY <1>0, <1>7, <2>1 DEF Hello, Move, Relies
  <2> QED BY <1>7, <2>1, <2>2, CleanMove DEF Hello
<1>8. ASSUME Spawn(c) PROVE Clean'
  <2>1. PICK d \in Daemons :
            dpc[d] = "none" /\ Goto(d, "lock") /\ child' = [child EXCEPT ![c] = d]
    BY <1>8 DEF Spawn
  <2>2. /\ \A e \in Daemons : dpc[e] = "none"
        /\ mode[c] = "first" /\ cpc[c] \in Inside
    BY <1>0, <1>8 DEF Spawn, Relies
  <2>3. OneLaunch' BY <1>8, <2>1, <2>2 DEF Spawn, Goto, Clean, OneLaunch, Up
  <2>4. /\ mode'[c] = "launched" /\ cpc'[c] = "ready" /\ child'[c] = d
        /\ \A e \in Clients : e # c => /\ mode'[e] = mode[e] /\ cpc'[e] = cpc[e]
                                       /\ child'[e] = child[e]
        /\ UNCHANGED <<files, seen, peer>>
    BY <1>8, <2>1 DEF Spawn, Move
  <2>5. /\ dpc'[d] = "lock"
        /\ \A e \in Daemons : e # d => dpc'[e] = "none"
    BY <2>1, <2>2 DEF Goto
  <2>6. BootAlone' BY <2>2, <2>4 DEF Clean, Boots, BootAlone
  <2>7. \A e \in Daemons : Waited(e)' BY <2>4, <2>5 DEF Waited
  <2>8. \A e \in Clients : Relies(e)'
    <3> SUFFICES ASSUME NEW e \in Clients PROVE Relies(e)' OBVIOUS
    <3>1. child[e] = None BY <2>2 DEF Clean, Relies
    <3>2. e # c => cpc[e] # "spawn" BY <2>2 DEF Clean, Boots, BootAlone, Relies
    <3>3. cpc[e] \notin {"read", "verify", "dial", "hello"}
      BY <2>2 DEF Clean, Relies
    <3> QED BY <2>4, <2>5, <3>1, <3>2, <3>3 DEF Clean, Relies
  <2> QED BY <2>3, <2>6, <2>7, <2>8 DEF Clean
<1>9. ASSUME Poll(c) PROVE Clean'
  <2>1. dpc[child[c]] \notin Dead
    BY <1>0, <1>9 DEF Poll, Relies, Clean, OneLaunch, Up
  <2>2. Relies(c)' BY <1>0, <1>9, <2>1 DEF Poll, Move, Relies
  <2> QED BY <1>9, <2>1, <2>2, CleanMove DEF Poll
<1> QED BY <1>1, <1>2, <1>3, <1>4, <1>5, <1>6, <1>7, <1>8, <1>9 DEF ClientStep

LEMMA CleanNext == CleanInv /\ [Next]_vars => CleanInv'
<1> SUFFICES ASSUME CleanInv, [Next]_vars, ~ upset' PROVE Clean'
  BY NextInv DEF CleanInv
<1>1. CASE UNCHANGED vars
  BY <1>1 DEF CleanInv, Clean, OneLaunch, Boots, BootAlone, Waited, Relies
<1>2. ASSUME NEW d \in Daemons, DaemonStep(d) PROVE Clean'
  <2>1. ~ upset
    BY <1>2 DEF DaemonStep, TakeLock, Reconcile, Replace, Forget, Bind, SaveRecord,
                Publish, Retract, Leave
  <2> QED BY <1>2, <2>1, CleanDaemon DEF CleanInv
<1>3. ASSUME NEW c \in Clients, Start(c) \/ ClientStep(c) PROVE Clean'
  <2>1. ~ upset
    BY <1>3 DEF Start, ClientStep, Acquire, Look, Read, Verify, Dial, Hello, Spawn, Poll
  <2> QED BY <1>3, <2>1, CleanClient DEF CleanInv
<1>4. ~ (\E d \in Daemons : Stop(d) \/ Crash(d)) /\ ~ (\E c \in Clients : Interrupt(c) \/ Kill(c))
  BY DEF Stop, Crash, Interrupt, Kill, Disturb
<1> QED BY <1>1, <1>2, <1>3, <1>4 DEF Next

(* StartIsClean: commands that nothing disturbs do not fail.               *)
THEOREM StartClean == Spec => []StartIsClean
<1>1. Init => CleanInv BY InitType, InitInv, CleanInit DEF CleanInv, Inv
<1>2. CleanInv => StartIsClean BY DEF CleanInv, Clean, Relies, StartIsClean
<1> QED BY <1>1, <1>2, CleanNext, PTL DEF Spec

-----------------------------------------------------------------------------
(* How far a command with the bootstrap lock is from its connection.       *)

Serves == \E d \in Daemons : dpc[d] = "serve"

(* To a daemon that serves: from here to the answer to hello.              *)
Dialing(c) ==
    CASE cpc[c] = "ready" -> 6
      [] cpc[c] = "look" -> 5
      [] cpc[c] = "read" -> 4
      [] cpc[c] = "verify" -> 3
      [] cpc[c] = "dial" -> 2
      [] cpc[c] = "hello" -> 1
      [] OTHER -> 0

(* Of a daemon on its way up: to the publication of its socket.            *)
Climb(d) ==
    CASE dpc[d] = "lock" -> 5
      [] dpc[d] = "reconcile" -> 4
      [] dpc[d] = "bind" -> 3
      [] dpc[d] = "save" -> 2
      [] dpc[d] = "publish" -> 1
      [] OTHER -> 0

(* The launched daemon first climbs; before that there is a look and the   *)
(* launch itself.                                                          *)
Left(c) ==
    IF Serves THEN Dialing(c)
    ELSE IF mode[c] = "launched" THEN 6 + Climb(child[c])
    ELSE IF cpc[c] = "spawn" THEN 12 ELSE 13

(* A round of Launch::ready that finds no daemon yet.                      *)
Polls(c) == ~ Serves /\ mode[c] = "launched"

(* What a step does to the command c that holds the bootstrap lock.        *)
Nears(c) ==
    /\ Left(c) \in 1..13 /\ Left(c)' \in 0..Left(c)
    /\ Boots(c)' \/ cpc'[c] = "connected"
    /\ (\E d \in Daemons : DaemonStep(d)) => Left(c)' < Left(c)
    /\ ClientStep(c) =>
         (Left(c)' < Left(c)) \/ (Polls(c) /\ Climb(child[c]) > 0)

(* A command with the lock is brought nearer to its connection by every    *)
(* step that serves it, and taken away from it by none.                    *)
CallsNear == [][~ upset' => \A c \in Clients : Boots(c) => Nears(c)]_vars
(* The holder of the bootstrap lock looks for a daemon that serves, waits  *)
(* for the one it has launched, or has yet to launch the first one.        *)
LEMMA Phase ==
  ASSUME Inv, Clean, NEW c \in Clients, Boots(c)
  PROVE  /\ Serves => cpc[c] \in {"ready", "look", "read", "verify", "dial", "hello"}
         /\ ~ Serves /\ mode[c] = "launched" =>
              /\ cpc[c] \in {"ready", "look"} /\ child[c] \in Daemons
              /\ dpc[child[c]] \in {"lock", "reconcile", "bind", "save", "publish"}
         /\ ~ Serves /\ mode[c] # "launched" =>
              /\ cpc[c] \in {"look", "spawn"}
              /\ \A d \in Daemons : dpc[d] = "none"
<1>1. Relies(c) /\ cpc[c] \in Inside /\ mode[c] \in {"first", "launched"}
  BY DEF Clean, Boots, Inv, TypeOK
<1>2. ASSUME Serves
      PROVE  cpc[c] \in {"ready", "look", "read", "verify", "dial", "hello"}
  BY <1>1, <1>2 DEF Serves, Relies
<1>3. ASSUME ~ Serves PROVE cpc[c] \in {"ready", "look", "spawn"}
  BY <1>1, <1>3 DEF Serves, Relies
<1>4. ASSUME ~ Serves, mode[c] = "launched"
      PROVE  /\ cpc[c] \in {"ready", "look"} /\ child[c] \in Daemons
             /\ dpc[child[c]] \in {"lock", "reconcile", "bind", "save", "publish"}
  <2>1. child[c] \in Daemons /\ dpc[child[c]] # "none"
    BY <1>1, <1>4 DEF Relies, Inv, TypeOK
  <2>2. dpc[child[c]] \in Up /\ dpc[child[c]] # "serve"
    BY <1>4, <2>1 DEF Serves, Clean, OneLaunch
  <2> QED BY <1>1, <1>3, <1>4, <2>1, <2>2 DEF Up, Relies
<1>5. ASSUME ~ Serves, mode[c] # "launched"
      PROVE  cpc[c] \in {"look", "spawn"} /\ \A d \in Daemons : dpc[d] = "none"
  <2>1. cpc[c] \in {"look", "spawn"} BY <1>1, <1>3, <1>5 DEF Relies
  <2>2. \A d \in Daemons : dpc[d] = "none"
    BY <1>5, <1>1 DEF Serves, Clean, Waited, Boots, BootAlone
  <2> QED BY <2>1, <2>2
<1> QED BY <1>2, <1>4, <1>5

(* Its distance by these phases.                                           *)
LEMMA LeftRange ==
  ASSUME Inv, Clean, NEW c \in Clients, Boots(c)
  PROVE  /\ Left(c) \in 1..13
         /\ Serves => Left(c) = Dialing(c) /\ Left(c) \in 1..6
         /\ ~ Serves /\ mode[c] = "launched" =>
              Left(c) = 6 + Climb(child[c]) /\ Climb(child[c]) \in 1..5
         /\ ~ Serves /\ mode[c] # "launched" =>
              Left(c) = IF cpc[c] = "spawn" THEN 12 ELSE 13
<1>1. ASSUME Serves PROVE Left(c) = Dialing(c) /\ Left(c) \in 1..6
  BY <1>1, Phase DEF Left, Dialing
<1>2. ASSUME ~ Serves, mode[c] = "launched"
      PROVE  Left(c) = 6 + Climb(child[c]) /\ Climb(child[c]) \in 1..5
  BY <1>2, Phase DEF Left, Climb
<1>3. ASSUME ~ Serves, mode[c] # "launched"
      PROVE  Left(c) = IF cpc[c] = "spawn" THEN 12 ELSE 13
  BY <1>3 DEF Left
<1> QED BY <1>1, <1>2, <1>3

(* A daemon that nothing disturbs climbs by one step.                      *)
LEMMA ClimbStep ==
  ASSUME Inv, Clean, Clean', NEW d \in Daemons, DaemonStep(d)
  PROVE  /\ \/ dpc[d] = "lock" /\ dpc'[d] = "reconcile"
            \/ dpc[d] = "reconcile" /\ dpc'[d] = "bind"
            \/ dpc[d] = "bind" /\ dpc'[d] = "save"
            \/ dpc[d] = "save" /\ dpc'[d] = "publish"
            \/ dpc[d] = "publish" /\ dpc'[d] = "serve"
         /\ \A e \in Daemons : e # d => dpc'[e] = dpc[e]
         /\ UNCHANGED <<cpc, mode, child>>
<1>1. dpc[d] \in Up /\ dpc'[d] \in Up BY DEF Clean, OneLaunch
<1> QED BY <1>1 DEF DaemonStep, TakeLock, Reconcile, Replace, Forget, Bind, SaveRecord,
        Save, Publish, Retract, Leave, Goto, Exit, Up, Inv, TypeOK

(* A command that does not launch leaves every daemon where it is.         *)
LEMMA QuietStep ==
  ASSUME Inv, Clean', NEW e \in Clients, Start(e) \/ ClientStep(e), ~ Spawn(e)
  PROVE  UNCHANGED dpc
<1>1. ~ Fail(e)
  BY DEF Fail, Move, Clean, Relies, Inv, TypeOK
<1> QED BY <1>1 DEF Start, ClientStep, Acquire, Look, Read, Verify, Dial, Hello, Poll,
        Nothing, Move

(* Every step of a command takes it somewhere else.                        *)
LEMMA StepMoves ==
  ASSUME Inv, NEW c \in Clients, ClientStep(c)
  PROVE  cpc'[c] # cpc[c]
BY DEF ClientStep, Acquire, Look, Read, Verify, Dial, Hello, Spawn, Poll, Nothing, Fail,
   Move, Inv, TypeOK

(* Where a command that looks for a daemon gets with one step, while       *)
(* nothing is disturbed: it never falls back from a daemon that serves.    *)
LEMMA LookStep ==
  ASSUME Inv, Clean, Clean', NEW c \in Clients, Boots(c), ClientStep(c), ~ Spawn(c)
  PROVE  /\ UNCHANGED <<dpc, mode, child>>
         /\ \/ Serves /\ \/ cpc[c] = "ready" /\ cpc'[c] = "look"
                         \/ cpc[c] = "look" /\ cpc'[c] = "read"
                         \/ cpc[c] = "read" /\ cpc'[c] = "verify"
                         \/ cpc[c] = "verify" /\ cpc'[c] = "dial"
                         \/ cpc[c] = "dial" /\ cpc'[c] = "hello"
                         \/ cpc[c] = "hello" /\ cpc'[c] = "connected"
            \/ ~ Serves /\ mode[c] = "launched" /\ cpc'[c] \in {"ready", "look"}
            \/ ~ Serves /\ mode[c] # "launched" /\ cpc[c] = "look" /\ cpc'[c] = "spawn"
<1>1. /\ UNCHANGED dpc /\ ~ Fail(c) /\ ~ Acquire(c)
      /\ Relies(c) /\ Relies(c)' /\ mode[c] \in {"first", "launched"}
  <2>1. UNCHANGED dpc BY QuietStep
  <2>2. ~ Fail(c) BY DEF Fail, Move, Clean, Relies, Inv, TypeOK
  <2>3. ~ Acquire(c) BY DEF Acquire, Boots
  <2> QED BY <2>1, <2>2, <2>3 DEF Clean, Boots, Inv, TypeOK
<1>2. UNCHANGED <<mode, child>>
  BY <1>1 DEF ClientStep, Look, Read, Verify, Dial, Hello, Poll
<1>3. Serves' <=> Serves BY <1>1 DEF Serves
<1>4. Serves => at["socket"] # None
  BY DEF Serves, Inv, TypeOK, LockInv, FilesFit
<1>5. ASSUME Look(c)
      PROVE  /\ cpc[c] = "look"
             /\ \/ Serves /\ cpc'[c] = "read"
                \/ ~ Serves /\ mode[c] = "launched" /\ cpc'[c] = "ready"
                \/ ~ Serves /\ mode[c] # "launched" /\ cpc'[c] = "spawn"
  <2>1. CASE at["socket"] # None
    <3>1. cpc'[c] = "read" BY <1>5, <2>1 DEF Look, Move, Inv, TypeOK
    <3>2. Serves' BY <1>1, <3>1 DEF Relies, Serves
    <3> QED BY <1>3, <1>5, <3>1, <3>2 DEF Look
  <2>2. CASE at["socket"] = None
    <3>1. CASE mode[c] = "launched"
      BY <1>4, <1>5, <2>2, <3>1 DEF Look, Nothing, Move, Inv, TypeOK
    <3>2. CASE mode[c] = "first"
      BY <1>4, <1>5, <2>2, <3>2 DEF Look, Nothing, Move, Inv, TypeOK
    <3> QED BY <1>1, <3>1, <3>2
  <2> QED BY <2>1, <2>2
<1>6. ASSUME Read(c) \/ Verify(c) \/ Dial(c) \/ Hello(c)
      PROVE  /\ Serves
             /\ \/ cpc[c] = "read" /\ cpc'[c] = "verify"
                \/ cpc[c] = "verify" /\ cpc'[c] = "dial"
                \/ cpc[c] = "dial" /\ cpc'[c] = "hello"
                \/ cpc[c] = "hello" /\ cpc'[c] = "connected"
  <2>1. cpc[c] \in {"read", "verify", "dial", "hello"}
    BY <1>6 DEF Read, Verify, Dial, Hello
  <2>2. Serves BY <1>1, <2>1 DEF Relies, Serves
  <2>3. Listener(at["socket"]) # {} BY <2>1, Serving
  <2> QED BY <1>1, <1>6, <2>2, <2>3 DEF Read, Verify, Dial, Hello, Move, Inv, TypeOK
<1>7. ASSUME Poll(c)
      PROVE  cpc[c] = "ready" /\ cpc'[c] = "look" /\ mode[c] = "launched"
  BY <1>1, <1>7 DEF Poll, Relies, Move, Inv, TypeOK
<1> QED BY <1>1, <1>2, <1>5, <1>6, <1>7 DEF ClientStep

(* CallsNear.  While nothing is killed, stopped or interrupted, the command*)
(* that holds the bootstrap lock ends only with its connection, and no step*)
(* of anybody takes it further away.  Each step of a daemon brings it      *)
(* nearer, and so does each step of its own but a round of Launch::ready   *)
(* that meets a daemon still on its way up.  Thus everybody who waits for  *)
(* the lock waits for a command that is at most 13 steps, its own and those*)
(* of its daemon, from its end.                                            *)
THEOREM ConnectsNearer == Spec => CallsNear
<1>1. ASSUME CleanInv, [Next]_vars, ~ upset', NEW c \in Clients, Boots(c)
      PROVE  Nears(c)
  <2>. USE <1>1
  <2>1. Inv /\ Clean /\ Clean' /\ ~ upset
    <3>1. CleanInv' BY CleanNext
    <3>2. ~ upset
      BY DEF Next, DaemonStep, TakeLock, Reconcile, Replace, Forget, Bind, SaveRecord,
         Publish, Retract, Leave, Stop, Crash, Disturb, Start, ClientStep, Acquire, Look,
         Read, Verify, Dial, Hello, Spawn, Poll, Interrupt, Kill
    <3> QED BY <3>1, <3>2 DEF CleanInv
  <2>2. Left(c) \in 1..13 BY <2>1, LeftRange
  <2>3. /\ cpc[c] \in Inside /\ mode[c] \in {"first", "launched"} /\ Relies(c)
        /\ c \in DOMAIN cpc
    BY <2>1 DEF Boots, Clean, Inv, TypeOK
  <2>4. ASSUME UNCHANGED dpc, cpc'[c] = cpc[c], mode'[c] = mode[c], child'[c] = child[c]
        PROVE  Left(c)' = Left(c) /\ Boots(c)'
    BY <1>1, <2>4 DEF Left, Serves, Dialing, Climb, Boots
  <2>5. ASSUME NEW d \in Daemons, DaemonStep(d)
        PROVE  /\ Left(c)' \in 0..13 /\ Left(c)' < Left(c) /\ Boots(c)'
    <3>1. /\ \/ dpc[d] = "lock" /\ dpc'[d] = "reconcile"
             \/ dpc[d] = "reconcile" /\ dpc'[d] = "bind"
             \/ dpc[d] = "bind" /\ dpc'[d] = "save"
             \/ dpc[d] = "save" /\ dpc'[d] = "publish"
             \/ dpc[d] = "publish" /\ dpc'[d] = "serve"
          /\ \A e \in Daemons : e # d => dpc'[e] = dpc[e]
          /\ UNCHANGED <<cpc, mode, child>>
      BY <2>1, <2>5, ClimbStep
    <3>2. \A e \in Daemons : e # d => dpc[e] = "none"
      BY <2>1, <3>1 DEF Clean, OneLaunch
    <3>3. ~ Serves BY <3>1, <3>2 DEF Serves
    <3>4. mode[c] = "launched" /\ child[c] = d
      BY <1>1, <2>1, <3>1 DEF Clean, Waited, Boots, BootAlone
    <3>5. Left(c) = 6 + Climb(d) BY <3>3, <3>4 DEF Left
    <3>6. Boots(c)' BY <1>1, <3>1 DEF Boots
    <3>7. CASE dpc'[d] = "serve"
      <4>1. Serves' BY <3>7 DEF Serves
      <4>2. Left(c)' = Dialing(c)' BY <4>1 DEF Left
      <4>3. Dialing(c)' \in 0..6 BY DEF Dialing
      <4>4. Climb(d) = 1 BY <3>1, <3>7 DEF Climb
      <4> QED BY <3>5, <3>6, <4>2, <4>3, <4>4
    <3>8. CASE dpc'[d] # "serve"
      <4>1. ~ Serves' BY <3>1, <3>2, <3>8 DEF Serves
      <4>2. Left(c)' = 6 + Climb(d)' BY <3>1, <3>4, <4>1 DEF Left
      <4>3. Climb(d)' \in 0..5 /\ Climb(d) \in 0..5 /\ Climb(d)' < Climb(d)
        BY <3>1, <3>8 DEF Climb
      <4> QED BY <3>5, <3>6, <4>2, <4>3
    <3> QED BY <3>7, <3>8
  <2>6. ASSUME ClientStep(c)
        PROVE  /\ Left(c)' \in 0..Left(c) /\ (Boots(c)' \/ cpc'[c] = "connected")
               /\ (Left(c)' < Left(c)) \/ (Polls(c) /\ Climb(child[c]) > 0)
    <3>1. CASE Spawn(c)
      <4>1. cpc[c] = "spawn" /\ mode[c] = "first" /\ \A d \in Daemons : dpc[d] = "none"
        BY <2>3, <3>1 DEF Spawn, Relies
      <4>2. Left(c) = 12 BY <4>1 DEF Left, Serves
      <4>3. PICK d \in Daemons : Goto(d, "lock") /\ child' = [child EXCEPT ![c] = d]
        BY <3>1 DEF Spawn
      <4>4. /\ mode'[c] = "launched" /\ cpc'[c] = "ready" /\ child'[c] = d
            /\ dpc'[d] = "lock" /\ \A e \in Daemons : dpc'[e] # "serve"
        BY <2>1, <3>1, <4>1, <4>3 DEF Spawn, Goto, Move, Inv, TypeOK
      <4>5. Left(c)' = 11 BY <4>4 DEF Left, Serves, Climb
      <4> QED BY <4>2, <4>4, <4>5 DEF Boots
    <3>2. CASE ~ Spawn(c) /\ Serves
      <4>1. /\ UNCHANGED <<dpc, mode, child>>
            /\ \/ cpc[c] = "ready" /\ cpc'[c] = "look"
               \/ cpc[c] = "look" /\ cpc'[c] = "read"
               \/ cpc[c] = "read" /\ cpc'[c] = "verify"
               \/ cpc[c] = "verify" /\ cpc'[c] = "dial"
               \/ cpc[c] = "dial" /\ cpc'[c] = "hello"
               \/ cpc[c] = "hello" /\ cpc'[c] = "connected"
        BY <1>1, <2>1, <2>6, <3>2, LookStep
      <4>2. Left(c) = Dialing(c) /\ Left(c)' = Dialing(c)'
        BY <3>2, <4>1 DEF Left, Serves
      <4>3. Dialing(c) \in 1..6 /\ Dialing(c)' \in 0..5 /\ Dialing(c)' < Dialing(c)
        BY <4>1 DEF Dialing
      <4> QED BY <1>1, <4>1, <4>2, <4>3 DEF Boots
    <3>3. CASE ~ Spawn(c) /\ ~ Serves /\ mode[c] = "launched"
      <4>1. UNCHANGED <<dpc, mode, child>> /\ cpc'[c] \in {"ready", "look"}
        BY <1>1, <2>1, <2>6, <3>3, LookStep
      <4>2. Left(c) = 6 + Climb(child[c]) /\ Climb(child[c]) \in 1..5
        BY <1>1, <2>1, <3>3, LeftRange
      <4>3. Left(c)' = Left(c)
        BY <3>3, <4>1 DEF Left, Serves, Climb
      <4> QED BY <1>1, <2>2, <3>3, <4>1, <4>2, <4>3 DEF Boots, Polls
    <3>4. CASE ~ Spawn(c) /\ ~ Serves /\ mode[c] # "launched"
      <4>1. UNCHANGED <<dpc, mode, child>> /\ cpc[c] = "look" /\ cpc'[c] = "spawn"
        BY <1>1, <2>1, <2>6, <3>4, LookStep
      <4>2. Left(c) = 13 /\ Left(c)' = 12
        BY <3>4, <4>1 DEF Left, Serves
      <4> QED BY <1>1, <4>1, <4>2 DEF Boots
    <3> QED BY <3>1, <3>2, <3>3, <3>4
  <2>7. ASSUME NEW e \in Clients, Start(e) \/ ClientStep(e), e # c
        PROVE  Left(c)' = Left(c) /\ Boots(c)'
    <3>1. ~ Spawn(e)
      BY <1>1, <2>1, <2>7 DEF Spawn, Clean, Relies, Boots, BootAlone
    <3>2. UNCHANGED dpc BY <2>1, <2>7, <3>1, QuietStep
    <3>3. cpc'[c] = cpc[c] /\ mode'[c] = mode[c] /\ child'[c] = child[c]
      BY <2>1, <2>7, <3>1 DEF Start, ClientStep, Acquire, Look, Read, Verify, Dial, Hello,
         Poll, Nothing, Fail, Move, Inv, TypeOK
    <3> QED BY <2>4, <3>2, <3>3
  <2>8. ASSUME ~ ClientStep(c), \A d \in Daemons : ~ DaemonStep(d)
        PROVE  Left(c)' = Left(c) /\ Boots(c)'
    <3>1. CASE UNCHANGED vars BY <2>4, <3>1
    <3>2. ~ Start(c) BY <2>3 DEF Start
    <3>3. ~ (\E d \in Daemons : Stop(d) \/ Crash(d))
          /\ ~ (\E e \in Clients : Interrupt(e) \/ Kill(e))
      BY <1>1 DEF Stop, Crash, Interrupt, Kill, Disturb
    <3> QED BY <1>1, <2>7, <2>8, <3>1, <3>2, <3>3 DEF Next
  <2>9. (\E d \in Daemons : DaemonStep(d)) => ~ ClientStep(c)
    BY <2>1, StepMoves, ClimbStep
  <2> QED BY <2>2, <2>5, <2>6, <2>8, <2>9 DEF Nears
<1>2. CleanInv /\ [Next]_vars =>
        [~ upset' => \A c \in Clients : Boots(c) => Nears(c)]_vars
  BY <1>1
<1>3. Init => CleanInv BY InitType, InitInv, CleanInit DEF CleanInv, Inv
<1> QED BY <1>2, <1>3, CleanNext, PTL DEF Spec, CallsNear
=============================================================================
