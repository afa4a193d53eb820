-------------------------- MODULE CredentialsProofs --------------------------
(****************************************************************************)
(* Machine-checked theorems about module Credentials, for every number of   *)
(* clients, generations and tokens.  Those about logouts and refreshes      *)
(* assume that the epoch file survives a reboot.                            *)
(****************************************************************************)
EXTENDS Credentials, TLAPS

USE DEF vars, vault, clients, history

(* The clients' share of the type invariant.                                 *)
ClientOK(c) ==
    /\ pc[c] \in Holding <=> lock = c
    /\ pc[c] \in Holding \cup {"consent"} => rec[c] \in Records /\ goal[c] \in Goals
    /\ pc[c] \in {"using", "refused", "rotate", "rotating"} => token[c] \in Tokens
    /\ pc[c] \in Writing /\ goal[c] = "rotate" => token[c] \in Tokens
    /\ pc[c] \in Writing /\ goal[c] = "use" => rec[c].cred \in Tokens

ClientsOK ==
    /\ lock \in Clients \cup {None}
    /\ pc \in [Clients -> {"idle", "consent", "using", "refused"} \cup Holding]
    /\ goal \in [Clients -> Goals \cup {None}]
    /\ rec \in [Clients -> Records \cup {None}]
    /\ token \in [Clients -> Tokens \cup {None}]
    /\ disturbed \subseteq Clients
    /\ \A c \in Clients : ClientOK(c)

VaultOK ==
    /\ store \in Records \cup {None}
    /\ doubled \in BOOLEAN
    /\ epoch \in Gens \cup {Revoked, None}
    /\ pending \subseteq Messages

HistoryOK ==
    /\ issued \subseteq Tokens
    /\ spent \subseteq Tokens /\ revoked \subseteq Tokens /\ refused \subseteq Tokens

LEMMA TypeJoin ==
  ASSUME ClientsOK', VaultOK', HistoryOK'
  PROVE  TypeOK'
BY DEF TypeOK, ClientsOK, ClientOK, VaultOK, HistoryOK

LEMMA TypeSplit == TypeOK => ClientsOK /\ VaultOK /\ HistoryOK
BY DEF TypeOK, ClientsOK, ClientOK, VaultOK, HistoryOK

LEMMA RecordType ==
  ASSUME NEW g \in Gens, NEW t \in Tokens \cup {None}
  PROVE  Record(g, t) \in Records /\ Record(g, t).gen = g /\ Record(g, t).cred = t
         /\ ~Record(g, t).login_required
BY DEF Record, Records

LEMMA ReadType ==
  ASSUME TypeOK, Read # None
  PROVE  /\ Read = store /\ store \in Records
         /\ epoch = None \/ epoch = store.gen
         /\ Read.gen \in Gens /\ Read.cred \in Tokens \cup {None}
BY DEF TypeOK, Read, Records

LEMMA TypeInit == Init => TypeOK
<1> SUFFICES ASSUME Init PROVE TypeOK
  OBVIOUS
<1>1. issued \subseteq Tokens /\ refused \subseteq Tokens
  BY DEF Init, Records
<1> QED
  BY <1>1, NamesAssumption DEF Init, TypeOK, Holding, Writing

LEMMA TypeWrite ==
  ASSUME TypeOK, NEW c \in Clients, NEW r \in Records, NEW g \in Goals, Write(c, r, g),
         lock \in {None, c}, token' \in [Clients -> Tokens \cup {None}],
         \A d \in Clients \ {c} : token'[d] = token[d],
         g = "rotate" => token'[c] \in Tokens,
         g = "use" => r.cred \in Tokens
  PROVE  ClientsOK' /\ VaultOK'
<1>1. VaultOK'
  BY DEF TypeOK, VaultOK, Write
<1>2. \A d \in Clients : ClientOK(d)'
  BY NamesAssumption DEF TypeOK, ClientOK, Write, Holding, Writing
<1> QED
  BY <1>1, <1>2 DEF TypeOK, ClientsOK, Write, Holding, Writing

LEMMA TypeReturn ==
  ASSUME TypeOK, NEW c \in Clients, Return(c)
  PROVE  ClientsOK'
<1>1. \A d \in Clients : ClientOK(d)'
  BY NamesAssumption DEF TypeOK, ClientOK, Return, Holding, Writing
<1> QED
  BY <1>1 DEF TypeOK, ClientsOK, Return, Holding, Writing

LEMMA TypeStep == TypeOK /\ [Next]_vars => TypeOK'
<1> SUFFICES ASSUME TypeOK, [Next]_vars PROVE TypeOK'
  OBVIOUS
<1> USE NamesAssumption
<1>1. ASSUME NEW c \in Clients, ClientNext(c) PROVE TypeOK'
  <2> USE DEF Goals
  <2>0. token \in [Clients -> Tokens \cup {None}] /\ \A g \in Fresh : g \in Gens
    BY DEF TypeOK, Fresh
  <2>1. CASE Begin(c)
    <3>1. PICK g \in Fresh : Write(c, Renewed(g), "consent")
      BY <2>1 DEF Begin
    <3>2. g \in Gens
      BY <2>0
    <3>3. Renewed(g) \in Records
      BY <3>2, RecordType, ReadType DEF Records, Renewed
    <3>4. ClientsOK' /\ VaultOK'
      BY <2>0, <2>1, <3>1, <3>3, TypeWrite DEF Begin
    <3> QED
      BY <2>1, <3>4, TypeJoin, TypeSplit DEF Begin, HistoryOK
  <2>2. CASE Exchange(c)
    <3>1. PICK g \in Fresh, t \in Tokens \ issued :
            Write(c, Record(g, t), "in") /\ issued' = issued \cup {t}
      BY <2>2 DEF Exchange
    <3>2. ClientsOK' /\ VaultOK'
      BY <2>0, <2>2, <3>1, RecordType, TypeWrite DEF Exchange
    <3> QED
      BY <2>2, <3>1, <3>2, TypeJoin, TypeSplit DEF Exchange, HistoryOK
  <2>3. CASE Logout(c)
    <3>1. PICK g \in Fresh : Write(c, Record(g, None), "out")
      BY <2>3 DEF Logout
    <3>2. ClientsOK' /\ VaultOK'
      BY <2>0, <2>3, <3>1, RecordType, TypeWrite DEF Logout
    <3> QED
      BY <2>3, <3>2, TypeJoin, TypeSplit DEF Logout, HistoryOK
  <2>4. CASE LogoutAbsent(c)
    BY <2>4 DEF LogoutAbsent, TypeOK
  <2>5. CASE Authorize(c)
    <3>1. Read.cred \in Tokens
      BY <2>5, ReadType DEF Authorize, Usable
    <3> QED
      BY <2>5, <3>1 DEF Authorize, TypeOK, Holding, Writing
  <2>6. CASE Refresh(c)
    <3>1. PICK g \in Fresh : Write(c, Record(g, None), "rotate")
      BY <2>6 DEF Refresh
    <3>2. Read.cred \in Tokens
      BY <2>6, ReadType DEF Refresh, Usable
    <3>3. ClientsOK' /\ VaultOK'
      BY <2>0, <2>6, <3>1, <3>2, RecordType, TypeWrite DEF Refresh
    <3> QED
      BY <2>6, <3>3, TypeJoin, TypeSplit DEF Refresh, HistoryOK
  <2>7. CASE Rotate(c)
    BY <2>7 DEF Rotate, TypeOK, Holding, Writing
  <2>8. CASE Rotated(c)
    <3>1. PICK g \in Fresh, t \in (Tokens \ issued) \cup {token[c]} :
            t # token[c] /\ Write(c, Record(g, t), "use") /\ issued' = issued \cup {t}
      BY <2>8 DEF Rotated
    <3>2. t \in Tokens
      BY <3>1
    <3>3. lock = c
      BY <2>8 DEF Rotated, TypeOK, Holding
    <3>4. ClientsOK' /\ VaultOK'
      BY <2>0, <2>8, <3>1, <3>2, <3>3, RecordType, TypeWrite DEF Rotated
    <3> QED
      BY <2>8, <3>1, <3>2, <3>4, TypeJoin, TypeSplit DEF Rotated, HistoryOK
  <2>9. CASE Done(c)
    BY <2>9, TypeReturn, TypeJoin, TypeSplit DEF Done, VaultOK, HistoryOK
  <2>10. CASE Refused(c)
    BY <2>10 DEF Refused, TypeOK, Holding, Writing
  <2>11. CASE Challenged(c)
    <3>1. PICK g \in Fresh :
            Write(c, [gen |-> g, cred |-> Read.cred, login_required |-> TRUE], "report")
      BY <2>11 DEF Challenged
    <3>2. [gen |-> g, cred |-> Read.cred, login_required |-> TRUE] \in Records
      BY <2>0, <2>11, ReadType DEF Challenged, Records
    <3>3. ClientsOK' /\ VaultOK'
      BY <2>0, <2>11, <3>1, <3>2, TypeWrite DEF Challenged
    <3> QED
      BY <2>11, <3>3, TypeJoin, TypeSplit DEF Challenged, HistoryOK
  <2>12. CASE Put(c)
    <3>1. rec[c] \in Records
      BY <2>12 DEF Put, TypeOK, Holding, Writing
    <3>2. [record |-> rec[c], create |-> store = None] \in Messages
      BY <3>1 DEF Messages
    <3>3. VaultOK' /\ HistoryOK'
      BY <2>12, <3>2 DEF Put, TypeOK, VaultOK, HistoryOK
    <3>4. ClientsOK'
      BY <2>12 DEF Put, TypeOK, ClientsOK, ClientOK, Holding, Writing
    <3> QED
      BY <3>3, <3>4, TypeJoin, TypeSplit
  <2>13. CASE Verify(c)
    BY <2>13 DEF Verify, TypeOK, Holding, Writing
  <2>14. CASE Commit(c)
    <3>1. rec[c] \in Records /\ rec[c].gen \in Gens /\ lock = c /\ goal[c] \in Goals
      BY <2>14 DEF Commit, TypeOK, Holding, Writing, Records
    <3>2. VaultOK' /\ HistoryOK'
      BY <2>14, <3>1 DEF Commit, TypeOK, VaultOK, HistoryOK
    <3>3. CASE goal[c] = "consent"
      BY <2>14, <3>1, <3>2, <3>3, TypeJoin, TypeSplit DEF Commit, TypeOK, ClientsOK, ClientOK, Holding, Writing
    <3>4. CASE goal[c] = "rotate"
      BY <2>14, <3>1, <3>2, <3>4, TypeJoin, TypeSplit DEF Commit, TypeOK, ClientsOK, ClientOK, Holding, Writing
    <3>5. CASE goal[c] = "use"
      BY <2>14, <3>1, <3>2, <3>5, TypeJoin, TypeSplit DEF Commit, TypeOK, ClientsOK, ClientOK, Holding, Writing
    <3>6. CASE goal[c] \in {"out", "in", "report"}
      BY <2>14, <3>2, <3>6, TypeReturn, TypeJoin, TypeSplit DEF Commit
    <3> QED
      BY <3>1, <3>3, <3>4, <3>5, <3>6
  <2>15. CASE CommitLate(c)
    <3>1. rec[c].gen \in Gens
      BY <2>15 DEF CommitLate, TypeOK, Holding, Writing, Records
    <3> QED
      BY <2>15, <3>1, TypeReturn, TypeJoin, TypeSplit DEF CommitLate, VaultOK, HistoryOK
  <2>16. CASE Fail(c)
    BY <2>16, TypeReturn, TypeJoin, TypeSplit DEF Fail, VaultOK, HistoryOK
  <2> QED
    BY <1>1, <2>1, <2>2, <2>3, <2>4, <2>5, <2>6, <2>7, <2>8, <2>9, <2>10, <2>11, <2>12,
       <2>13, <2>14, <2>15, <2>16 DEF ClientNext
<1>2. ASSUME NEW m \in pending, Land(m) PROVE TypeOK'
  <2>1. m.record \in Records
    BY DEF TypeOK, Messages
  <2>2. store' \in Records \cup {None} /\ doubled' \in BOOLEAN /\ pending' \subseteq Messages
    BY <1>2, <2>1 DEF Land, TypeOK
  <2> QED
    BY <1>2, <2>2 DEF Land, TypeOK
<1>3. ASSUME NEW m \in pending, Lose(m) PROVE TypeOK'
  BY <1>3 DEF Lose, TypeOK
<1>4. CASE Reboot
  BY <1>4 DEF Reboot, TypeOK, Holding, Writing
<1>5. CASE UNCHANGED vars
  BY <1>5 DEF TypeOK
<1> QED
  BY <1>1, <1>2, <1>3, <1>4, <1>5 DEF Next

(* Every operation has what the point it has reached presupposes, and        *)
(* exactly the one between its first read and its last write has the lock.   *)
THEOREM TypeCorrect == Spec => []TypeOK
<1> QED
  BY TypeInit, TypeStep, PTL DEF Spec

----------------------------------------------------------------------------
(* A record that somebody holds: the keyring, a message to it, a client.     *)
Copy(R) ==
    /\ R \in Records
    /\ \/ R = store
       \/ \E m \in pending : m.record = R
       \/ \E c \in Clients : rec[c] = R

(* A generation names one record, whoever holds it, and is nobody else's.    *)
Unique ==
    /\ \A R, S : Copy(R) /\ Copy(S) /\ R.gen = S.gen => R = S
    /\ \A c, d \in Clients : rec[c] \in Records /\ rec[d] \in Records
                             /\ rec[c].gen = rec[d].gen => c = d

(* Every token in circulation was issued; those that a request was refused   *)
(* with are known.                                                           *)
Known ==
    /\ spent \subseteq issued /\ revoked \subseteq issued
    /\ \A R : Copy(R) => R.cred \in issued \cup {None}
    /\ \A R : Copy(R) /\ R.login_required => R.cred \in refused
    /\ \A c \in Clients : token[c] \in issued \cup {None}
    /\ \A c \in Clients : pc[c] = "refused" => token[c] \in refused

(* The record the epoch names has no dead credential, wherever a copy is.    *)
Live == \A R : Copy(R) /\ R.gen = epoch => R.cred \notin spent \cup revoked

(* Before the first write there is neither a dead credential nor a message.  *)
Untouched ==
    /\ epoch = None =>
         /\ pending = {} /\ spent = {} /\ revoked = {}
         /\ \A c \in Clients : pc[c] \in {"idle", "using", "refused"}
    /\ store = None => epoch \in {None, Revoked} /\ (epoch = None => issued = {})
    /\ \A c \in Clients : pc[c] = "commit" => store # None

(* What the client that holds the lock relies on.                            *)
Holder ==
    \A c \in Clients :
       /\ pc[c] \in {"idle", "using", "refused"} => rec[c] = None
       /\ pc[c] \in Writing => epoch = Revoked /\ rec[c].cred \notin spent \cup revoked
       /\ pc[c] \in Writing /\ goal[c] \in {"rotate", "out"} => rec[c].cred = None
       /\ pc[c] \in Writing /\ goal[c] = "rotate" => token[c] \notin spent
       /\ pc[c] \in {"rotate", "rotating"} => epoch = rec[c].gen /\ rec[c].cred = None
       /\ pc[c] = "rotate" => token[c] \notin spent

(* A login that was disturbed will not find its generation valid again.      *)
Disturbed ==
    \A c \in disturbed : pc[c] = "consent" /\ epoch # rec[c].gen

Inv == TypeOK /\ Unique /\ Known /\ Live /\ Untouched /\ Holder /\ Disturbed

LEMMA InvInit == Init => Inv
<1> SUFFICES ASSUME Init PROVE Inv
  OBVIOUS
<1> USE NamesAssumption
<1>1. TypeOK
  BY TypeInit
<1>2. \A R : Copy(R) => R = store /\ store # None
  BY DEF Init, Copy
<1>3. \A c \in Clients : rec[c] \notin Records
  BY DEF Init
<1>4. Unique /\ Live /\ Untouched /\ Holder /\ Disturbed
  BY <1>2, <1>3 DEF Init, Unique, Live, Untouched, Holder, Disturbed, Writing
<1>5. Known
  BY <1>2 DEF Init, Known
<1> QED
  BY <1>1, <1>4, <1>5 DEF Inv

LEMMA FreshIsNew ==
  ASSUME Inv, NEW g \in Fresh
  PROVE  g \in Gens /\ epoch # g /\ \A R : Copy(R) => R.gen # g
BY NamesAssumption DEF Fresh, InUse, Copy

LEMMA CopyType == \A R : Copy(R) => R.gen \in Gens /\ R.gen # Revoked /\ R.gen # None
                                   /\ R.cred \in Tokens \cup {None}
BY NamesAssumption DEF Copy, Records

LEMMA ReadIsCopy ==
  ASSUME Inv, Read # None
  PROVE  Copy(Read) /\ (epoch = None \/ Read.gen = epoch) /\ Read.cred \notin spent \cup revoked
<1>1. Copy(Read) /\ (epoch = None \/ Read.gen = epoch)
  BY ReadType DEF Inv, Copy
<1> QED
  BY <1>1 DEF Inv, Live, Untouched

(* The beginning of any Vault::write keeps the invariant.                    *)
LEMMA WriteStep ==
  ASSUME Inv, TypeOK', NEW c \in Clients, NEW r \in Records, NEW g \in Goals, Write(c, r, g),
         lock \in {None, c}, c \notin disturbed, r.gen \in Fresh, r.cred \notin spent \cup revoked,
         r.cred \in issued' \cup {None}, r.login_required => r.cred \in refused,
         issued \subseteq issued', UNCHANGED <<spent, revoked, refused>>,
         token'[c] \in issued' \cup {None}, \A d \in Clients \ {c} : token'[d] = token[d],
         g \in {"rotate", "out"} => r.cred = None,
         g = "rotate" => token'[c] \notin spent
  PROVE  Inv'
<1> USE NamesAssumption
<1>1. \A R : Copy(R)' => Copy(R) \/ R = r
  BY DEF Inv, TypeOK, Write, Copy
<1>2. \A d \in Clients \ {c} : pc'[d] = pc[d] /\ rec'[d] = rec[d] /\ pc[d] \notin Holding
  BY DEF Inv, TypeOK, Write
<1>3. pc'[c] = "put" /\ rec'[c] = r /\ goal'[c] = g /\ epoch' = Revoked
  BY DEF Inv, TypeOK, Write
<1>4. Unique'
  <2>1. \A R : Copy(R) => R.gen # r.gen
    BY FreshIsNew
  <2>2. \A R, S : Copy(R)' /\ Copy(S)' /\ R.gen = S.gen => R = S
    BY <1>1, <2>1 DEF Inv, Unique
  <2>3. \A d \in Clients \ {c} : rec[d] \in Records => rec[d].gen # r.gen
    BY <2>1 DEF Copy
  <2>4. \A d, e \in Clients : rec'[d] \in Records /\ rec'[e] \in Records
                             /\ rec'[d].gen = rec'[e].gen => d = e
    BY <1>2, <1>3, <2>3 DEF Inv, Unique
  <2> QED
    BY <2>2, <2>4 DEF Unique
<1>5. Known'
  BY <1>1, <1>2, <1>3 DEF Inv, Known
<1>6. Live'
  BY <1>1, <1>3, CopyType DEF Live, Records
<1>7. Untouched'
  BY <1>2, <1>3 DEF Inv, Untouched, Holding, Writing
<1>8. Holder'
  BY <1>2, <1>3 DEF Inv, Holder, Holding, Writing
<1>9. Disturbed'
  <2>1. disturbed' = disturbed \cup {d \in Clients \ {c} : pc[d] = "consent"}
    BY DEF Write
  <2>2. \A d \in Clients \ {c} : pc[d] = "consent" => rec[d].gen # Revoked
    BY DEF Inv, TypeOK, Records
  <2> QED
    BY <1>2, <1>3, <2>1, <2>2 DEF Inv, TypeOK, Disturbed
<1> QED
  BY <1>4, <1>5, <1>6, <1>7, <1>8, <1>9 DEF Inv

(* Every other step leaves no record with anybody who did not have it.       *)
Shrinks ==
    /\ \A R : Copy(R)' => Copy(R)
    /\ \A c \in Clients : rec'[c] \in {rec[c], None}

LEMMA ShrinkStep ==
  ASSUME Inv, Shrinks, issued' = issued, spent' \subseteq issued, revoked' \subseteq issued,
         refused \subseteq refused', \A c \in Clients : token'[c] \in issued \cup {None},
         \A c \in Clients : pc'[c] = "refused" => token'[c] \in refused'
  PROVE  Unique' /\ Known'
<1>1. Unique'
  BY NamesAssumption DEF Inv, Unique, Shrinks
<1>2. Known'
  BY DEF Inv, Known, Shrinks
<1> QED
  BY <1>1, <1>2

(* An operation that ends without touching the epoch keeps the invariant.    *)
LEMMA ReturnStep ==
  ASSUME Inv, TypeOK', NEW c \in Clients, Return(c),
         UNCHANGED <<vault, issued, spent, revoked, refused>>
  PROVE  Inv'
<1> USE NamesAssumption
<1>1. /\ rec' = [rec EXCEPT ![c] = None] /\ token' = [token EXCEPT ![c] = None]
      /\ pc' = [pc EXCEPT ![c] = "idle"] /\ goal' = [goal EXCEPT ![c] = None]
      /\ disturbed' = disturbed \ {c}
  BY DEF Return
<1>2. Shrinks
  BY <1>1 DEF Inv, TypeOK, Shrinks, Copy
<1>3. Unique' /\ Known'
  BY <1>1, <1>2, ShrinkStep DEF Inv, TypeOK, Known
<1>4. Live'
  BY <1>2 DEF Inv, Live, Shrinks
<1>5. Untouched' /\ Holder' /\ Disturbed'
  BY <1>1 DEF Inv, TypeOK, Untouched, Holder, Disturbed, Writing
<1> QED
  BY <1>3, <1>4, <1>5 DEF Inv

(* So does one that goes on, or whose message moves, if its own share of the *)
(* invariant is kept.                                                        *)
LEMMA StayStep ==
  ASSUME Inv, TypeOK', Shrinks, Untouched', Holder',
         UNCHANGED <<epoch, issued, spent, revoked, disturbed>>,
         refused \subseteq refused',
         \A c \in Clients : token'[c] \in issued \cup {None},
         \A c \in Clients : pc'[c] = "refused" => token'[c] \in refused',
         \A c \in Clients : pc[c] = "consent" => pc'[c] = "consent" /\ rec'[c] = rec[c]
  PROVE  Inv'
<1>1. Unique' /\ Known'
  BY ShrinkStep DEF Inv, Known
<1>2. Live'
  BY DEF Inv, Live, Shrinks
<1>3. Disturbed'
  BY DEF Inv, TypeOK, Disturbed
<1> QED
  BY <1>1, <1>2, <1>3 DEF Inv

(* The epoch is set to the generation that has been written.                 *)
LEMMA CommitEpoch ==
  ASSUME Inv, TypeOK', NEW c \in Clients, pc[c] = "commit", epoch' = rec[c].gen, Shrinks,
         UNCHANGED <<store, issued, spent>>, refused \subseteq refused',
         revoked' = revoked \/ (goal[c] = "out" /\ revoked' = issued)
  PROVE  Live' /\ epoch' \in Gens
<1> USE NamesAssumption
<1>1. rec[c] \in Records /\ Copy(rec[c])
  BY DEF Inv, TypeOK, Holding, Writing, Copy
<1>2. \A R : Copy(R)' /\ R.gen = epoch' => R = rec[c]
  BY <1>1 DEF Inv, Unique, Shrinks
<1>3. rec[c].cred \notin spent \cup revoked
  BY DEF Inv, Holder, Writing
<1>4. goal[c] = "out" => rec[c].cred \notin issued
  BY DEF Inv, Holder, Writing, TypeOK
<1>5. Live'
  BY <1>2, <1>3, <1>4 DEF Live
<1> QED
  BY <1>1, <1>5 DEF Records

LEMMA CommitStep ==
  ASSUME Inv, TypeOK', NEW c \in Clients, Commit(c) \/ CommitLate(c)
  PROVE  Inv'
<1> USE NamesAssumption
<1>1. /\ pc[c] = "commit" /\ epoch' = rec[c].gen /\ rec[c] \in Records /\ lock = c
      /\ UNCHANGED <<store, doubled, pending, issued, spent, refused>>
  BY DEF Commit, CommitLate, Inv, TypeOK, Holding, Writing
<1>2. /\ \A d \in Clients \ {c} : /\ pc'[d] = pc[d] /\ rec'[d] = rec[d] /\ goal'[d] = goal[d]
                                  /\ token'[d] = token[d] /\ pc[d] \notin Holding
      /\ rec'[c] \in {rec[c], None}
      /\ token'[c] \in {token[c], rec[c].cred, None}
      /\ disturbed' \subseteq disturbed
  BY <1>1 DEF Commit, CommitLate, Return, Inv, TypeOK
<1>3. \/ pc'[c] = "idle" /\ rec'[c] = None
      \/ /\ pc'[c] = "consent" /\ rec'[c] = rec[c] /\ disturbed' = disturbed
      \/ pc'[c] = "rotate" /\ rec'[c] = rec[c] /\ goal[c] = "rotate" /\ token'[c] = token[c]
      \/ pc'[c] = "using" /\ rec'[c] = None
  BY <1>1 DEF Commit, CommitLate, Return, Inv, TypeOK
<1>4. revoked' = revoked \/ (goal[c] = "out" /\ revoked' = issued)
  BY <1>1 DEF Commit, CommitLate
<1>5. Shrinks
  BY <1>1, <1>2 DEF Shrinks, Copy
<1>6. Live' /\ epoch' \in Gens
  BY <1>1, <1>4, <1>5, CommitEpoch
<1>7. Copy(rec[c])
  BY <1>1 DEF Copy
<1>8. Unique' /\ Known'
  <2>1. \A d \in Clients : token'[d] \in issued \cup {None}
    BY <1>2, <1>7 DEF Inv, Known
  <2>2. \A d \in Clients : pc'[d] = "refused" => token'[d] \in refused'
    BY <1>1, <1>2, <1>3 DEF Inv, Known
  <2> QED
    BY <1>1, <1>4, <1>5, <2>1, <2>2, ShrinkStep DEF Inv, Known
<1>9. Untouched'
  BY <1>1, <1>2, <1>3, <1>6 DEF Inv, Untouched, Holding, Writing
<1>10. Holder'
  BY <1>1, <1>2, <1>3, <1>4 DEF Inv, Holder, Holding, Writing
<1>11. Disturbed'
  <2>1. c \notin disturbed
    BY <1>1 DEF Inv, Disturbed
  <2>2. \A d \in Clients \ {c} : pc[d] = "consent" => rec[d].gen # rec[c].gen
    BY <1>1 DEF Inv, Unique, TypeOK
  <2> QED
    BY <1>1, <1>2, <2>1, <2>2 DEF Inv, Disturbed, TypeOK
<1> QED
  BY <1>6, <1>8, <1>9, <1>10, <1>11 DEF Inv

(* A step of one client inside an operation, other than those above.         *)
LEMMA InsideStep ==
  ASSUME Inv, TypeOK', NEW c \in Clients,
         Put(c) \/ Verify(c) \/ Rotate(c) \/ Authorize(c) \/ Refused(c)
  PROVE  Inv'
<1> USE NamesAssumption
<1>1. CASE Put(c)
  <2>1. Copy(rec[c])
    BY <1>1 DEF Put, Inv, TypeOK, Holding, Writing, Copy
  <2>2. Shrinks
    BY <1>1, <2>1 DEF Put, Shrinks, Copy
  <2>3. Untouched' /\ Holder'
    BY <1>1 DEF Put, Inv, TypeOK, Untouched, Holder, Holding, Writing
  <2> QED
    BY <1>1, <2>2, <2>3, StayStep DEF Put, Inv, TypeOK, Known
<1>2. CASE Verify(c)
  <2>1. Shrinks
    BY <1>2 DEF Verify, Shrinks, Copy
  <2>2. Untouched' /\ Holder'
    BY <1>2 DEF Verify, Inv, TypeOK, Untouched, Holder, Holding, Writing
  <2> QED
    BY <1>2, <2>1, <2>2, StayStep DEF Verify, Inv, TypeOK, Known
<1>3. CASE Rotate(c)
  <2>1. /\ pc[c] = "rotate" /\ rec[c] \in Records /\ token[c] \in Tokens /\ lock = c
        /\ epoch = rec[c].gen /\ rec[c].cred = None /\ Copy(rec[c]) /\ epoch # None
    BY <1>3 DEF Rotate, Inv, TypeOK, Holder, Holding, Copy, Records
  <2>2. Shrinks
    BY <1>3 DEF Rotate, Shrinks, Copy
  <2>3. Unique' /\ Known'
    BY <1>3, <2>1, <2>2, ShrinkStep DEF Rotate, Inv, TypeOK, Known
  <2>4. \A R : Copy(R)' /\ R.gen = epoch => R = rec[c]
    BY <2>1, <2>2 DEF Shrinks, Inv, Unique
  <2>5. Live'
    BY <1>3, <2>1, <2>4 DEF Rotate, Live, Inv, TypeOK
  <2>6. \A d \in Clients \ {c} : pc[d] \notin Holding
    BY <2>1 DEF Inv, TypeOK
  <2>7. Untouched'
    BY <1>3, <2>1 DEF Rotate, Inv, TypeOK, Untouched
  <2>8. Holder'
    BY <1>3, <2>1, <2>6 DEF Rotate, Inv, TypeOK, Holder, Holding, Writing
  <2>9. Disturbed'
    BY <1>3, <2>1 DEF Rotate, Inv, TypeOK, Disturbed
  <2> QED
    BY <2>3, <2>5, <2>7, <2>8, <2>9 DEF Inv
<1>4. CASE Authorize(c)
  <2>1. Shrinks
    BY <1>4 DEF Authorize, Shrinks, Copy
  <2>2. Read.cred \in issued
    BY <1>4, ReadIsCopy DEF Authorize, Usable, Inv, Known
  <2>3. Untouched' /\ Holder'
    BY <1>4 DEF Authorize, Inv, TypeOK, Untouched, Holder, Holding, Writing
  <2> QED
    BY <1>4, <2>1, <2>2, <2>3, StayStep DEF Authorize, Inv, TypeOK, Known
<1>5. CASE Refused(c)
  <2>1. Shrinks
    BY <1>5 DEF Refused, Shrinks, Copy
  <2>2. Untouched' /\ Holder'
    BY <1>5 DEF Refused, Inv, TypeOK, Untouched, Holder, Holding, Writing
  <2> QED
    BY <1>5, <2>1, <2>2, StayStep DEF Refused, Inv, TypeOK, Known
<1> QED
  BY <1>1, <1>2, <1>3, <1>4, <1>5

(* The steps that begin a Vault::write.                                      *)
LEMMA BeginStep ==
  ASSUME Inv, TypeOK', NEW c \in Clients,
         Begin(c) \/ Exchange(c) \/ Logout(c) \/ Refresh(c) \/ Rotated(c) \/ Challenged(c)
  PROVE  Inv'
<1> USE NamesAssumption DEF Goals
<1>0. /\ \A g \in Fresh : g \in Gens
      /\ token[c] \in issued \cup {None} /\ None \notin spent \cup revoked
      /\ \A t : t \notin issued => t \notin spent \cup revoked
      /\ pc[c] # "consent" => c \notin disturbed
  BY DEF Fresh, Inv, Known, TypeOK, Disturbed
<1>1. CASE Begin(c)
  <2>1. PICK g \in Fresh : Write(c, Renewed(g), "consent")
    BY <1>1 DEF Begin
  <2>2. /\ Renewed(g) \in Records /\ Renewed(g).gen = g
        /\ Renewed(g).cred \notin spent \cup revoked
        /\ Renewed(g).cred \in issued \cup {None}
        /\ Renewed(g).login_required => Renewed(g).cred \in refused
    <3>1. CASE Read = None
      BY <1>0, <3>1, RecordType DEF Renewed
    <3>2. CASE Read # None
      BY <1>0, <3>2, ReadType, ReadIsCopy DEF Renewed, Records, Inv, Known
    <3> QED
      BY <3>1, <3>2
  <2> QED
    BY <1>0, <1>1, <2>1, <2>2, WriteStep DEF Begin
<1>2. CASE Exchange(c)
  <2>1. PICK g \in Fresh, t \in Tokens \ issued :
          Write(c, Record(g, t), "in") /\ issued' = issued \cup {t}
    BY <1>2 DEF Exchange
  <2>2. c \notin disturbed
    BY <1>2, ReadIsCopy DEF Exchange, SameGeneration, Inv, Untouched, Disturbed
  <2> QED
    BY <1>0, <1>2, <2>1, <2>2, RecordType, WriteStep DEF Exchange
<1>3. CASE Logout(c)
  <2>1. PICK g \in Fresh : Write(c, Record(g, None), "out")
    BY <1>3 DEF Logout
  <2> QED
    BY <1>0, <1>3, <2>1, RecordType, WriteStep DEF Logout
<1>4. CASE Refresh(c)
  <2>1. PICK g \in Fresh : Write(c, Record(g, None), "rotate")
    BY <1>4 DEF Refresh
  <2>2. Read.cred \in issued /\ Read.cred \notin spent
    BY <1>4, ReadIsCopy DEF Refresh, Usable, Inv, Known
  <2>3. token'[c] = Read.cred /\ \A d \in Clients \ {c} : token'[d] = token[d]
    BY <1>4 DEF Refresh, Inv, TypeOK
  <2> QED
    BY <1>0, <1>4, <2>1, <2>2, <2>3, RecordType, WriteStep DEF Refresh
<1>5. CASE Rotated(c)
  <2>1. PICK g \in Fresh, t \in (Tokens \ issued) \cup {token[c]} :
          t # token[c] /\ Write(c, Record(g, t), "use") /\ issued' = issued \cup {t}
    BY <1>5 DEF Rotated
  <2>2. lock = c /\ t \in Tokens \ issued
    BY <1>5, <2>1 DEF Rotated, Inv, TypeOK, Holding
  <2> QED
    BY <1>0, <1>5, <2>1, <2>2, RecordType, WriteStep DEF Rotated
<1>6. CASE Challenged(c)
  <2> DEFINE r(g) == [gen |-> g, cred |-> Read.cred, login_required |-> TRUE]
  <2>1. PICK g \in Fresh : Write(c, r(g), "report")
    BY <1>6 DEF Challenged
  <2>2. /\ r(g) \in Records /\ r(g).gen = g /\ r(g).cred = Read.cred
        /\ Read.cred \notin spent \cup revoked
        /\ Read.cred \in issued \cup {None} /\ Read.cred \in refused
    BY <1>0, <1>6, ReadType, ReadIsCopy DEF Challenged, Marks, Records, Inv, Known
  <2> QED
    BY <1>0, <1>6, <2>1, <2>2, WriteStep DEF Challenged
<1> QED
  BY <1>1, <1>2, <1>3, <1>4, <1>5, <1>6

LEMMA InvStep ==
  ASSUME EpochSurvives, Inv, [Next]_vars
  PROVE  Inv'
<1> USE NamesAssumption
<1>0. TypeOK'
  BY TypeStep DEF Inv
<1>1. ASSUME NEW c \in Clients, ClientNext(c) PROVE Inv'
  <2>1. CASE LogoutAbsent(c)
    <3>1. Shrinks
      BY <2>1 DEF LogoutAbsent, Shrinks, Copy
    <3>2. Unique' /\ Known'
      BY <2>1, <3>1, ShrinkStep DEF LogoutAbsent, Inv, Known
    <3>3. epoch' \notin Gens
      BY <2>1 DEF LogoutAbsent, Inv, Untouched
    <3>4. Live'
      BY <3>3, CopyType DEF Live, Copy, Records
    <3>5. \A d \in Clients : pc[d] \notin Holding
      BY <2>1 DEF LogoutAbsent, Inv, TypeOK
    <3>6. Untouched' /\ Holder' /\ Disturbed'
      BY <2>1, <3>5 DEF LogoutAbsent, Inv, Untouched, Holder, Disturbed, Holding, Writing
    <3> QED
      BY <1>0, <3>2, <3>4, <3>6 DEF Inv
  <2>2. CASE Done(c) \/ Fail(c)
    BY <1>0, <2>2, ReturnStep DEF Done, Fail
  <2> QED
    BY <1>0, <1>1, <2>1, <2>2, InsideStep, BeginStep, CommitStep DEF ClientNext
<1>2. ASSUME NEW m \in pending, Land(m) \/ Lose(m) PROVE Inv'
  <2>1. m.record \in Records /\ Copy(m.record)
    BY DEF Inv, TypeOK, Messages, Copy
  <2>2. Shrinks
    BY <1>2, <2>1 DEF Land, Lose, Shrinks, Copy
  <2>3. Untouched' /\ Holder'
    BY <1>2, <2>1 DEF Land, Lose, Inv, TypeOK, Untouched, Holder
  <2> QED
    BY <1>0, <1>2, <2>2, <2>3, StayStep DEF Land, Lose, Inv, Known
<1>3. CASE Reboot
  <2>1. Shrinks
    BY <1>3 DEF Reboot, Shrinks, Copy
  <2>2. Unique' /\ Known'
    BY <1>3, <2>1, ShrinkStep DEF Reboot, Inv, Known
  <2>3. Live'
    BY <1>3, <2>1 DEF Reboot, Inv, Live, Shrinks
  <2>4. Untouched' /\ Holder' /\ Disturbed'
    BY <1>3 DEF Reboot, Inv, Untouched, Holder, Disturbed, Writing
  <2> QED
    BY <1>0, <2>2, <2>3, <2>4 DEF Inv
<1>4. CASE UNCHANGED vars
  BY <1>0, <1>4, StayStep DEF Inv, Shrinks, Copy, Known, Untouched, Holder
<1> QED
  BY <1>1, <1>2, <1>3, <1>4 DEF Next

(* The invariant that the three theorems below rest on.                      *)
THEOREM InvCorrect ==
  ASSUME EpochSurvives
  PROVE  Spec => []Inv
<1>1. Inv /\ [Next]_vars => Inv'
  BY InvStep
<1> QED
  BY InvInit, <1>1, PTL DEF Spec

(* A logout that succeeded is final, as long as the epoch file is kept.      *)
THEOREM LogoutIsFinal ==
  ASSUME EpochSurvives
  PROVE  Spec => []LogoutFinal
<1>1. Inv => LogoutFinal
  BY ReadIsCopy DEF LogoutFinal
<1> QED
  BY InvCorrect, <1>1, PTL

(* A login is demanded only for a credential that was refused.               *)
THEOREM OnlyRefused ==
  ASSUME EpochSurvives
  PROVE  Spec => []LoginRequiredDeserved
<1>1. Inv => LoginRequiredDeserved
  BY ReadIsCopy DEF LoginRequiredDeserved, Inv, Known
<1> QED
  BY InvCorrect, <1>1, PTL

(* No refresh token is sent twice.                                           *)
THEOREM SpentOnce ==
  ASSUME EpochSurvives
  PROVE  Spec => RefreshOnce
<1>1. Inv /\ [Next]_vars =>
        [\A c \in Clients : pc[c] = "rotate" /\ pc'[c] = "rotating" => token[c] \notin spent]_vars
  BY DEF Inv, Holder
<1> QED
  BY InvCorrect, <1>1, PTL DEF Spec, RefreshOnce

(* No login finishes over another credential operation.                      *)
THEOREM LoginsYield ==
  ASSUME EpochSurvives
  PROVE  Spec => LoginUndisturbed
<1>1. Inv /\ [Next]_vars =>
        [\A c \in Clients : pc[c] = "consent" /\ pc'[c] = "put" => c \notin disturbed]_vars
  <2> SUFFICES ASSUME Inv, Next, NEW c \in Clients, pc[c] = "consent", pc'[c] = "put"
               PROVE  c \notin disturbed
    OBVIOUS
  <2>1. PICK d \in Clients : ClientNext(d)
    BY DEF Next, Land, Lose, Reboot
  <2>2. pc' = pc \/ \E p : pc' = [pc EXCEPT ![d] = p]
    BY <2>1 DEF ClientNext, Begin, Exchange, Logout, LogoutAbsent, Authorize, Refresh, Rotate,
       Rotated, Done, Refused, Challenged, Put, Verify, Commit, CommitLate, Fail, Return, Write
  <2>3. d = c
    BY <2>2 DEF Inv, TypeOK
  <2>4. Exchange(c)
    BY <2>1, <2>3 DEF ClientNext, Begin, Logout, LogoutAbsent, Authorize, Refresh, Rotate,
       Rotated, Done, Refused, Challenged, Put, Verify, Commit, CommitLate, Fail, Return,
       Inv, TypeOK
  <2> QED
    BY <2>4, ReadIsCopy DEF Exchange, SameGeneration, Inv, Untouched, Disturbed
<1> QED
  BY InvCorrect, <1>1, PTL DEF Spec, LoginUndisturbed

----------------------------------------------------------------------------
(* No message still carries the record that counts, or is about to count:    *)
(* once a write was verified, nothing can bring its record back.             *)
Settled ==
    /\ \A m \in pending : m.record.gen # epoch
    /\ \A c \in Clients : pc[c] = "commit" => \A m \in pending : m.record # rec[c]

LEMMA SettledStep ==
  ASSUME Inv, Settled, Next
  PROVE  Settled'
<1> USE NamesAssumption
<1>0. \A m \in pending : m.record \in Records /\ Copy(m.record) /\ m.record.gen \in Gens
  BY CopyType DEF Inv, TypeOK, Messages, Copy
<1>1. ASSUME NEW c \in Clients, ClientNext(c) PROVE Settled'
  <2>1. CASE \E r, g : Write(c, r, g)
    <3>1. PICK r, g : Write(c, r, g)
      BY <2>1
    <3>2. epoch' = Revoked /\ pending' = pending
      BY <3>1 DEF Write
    <3>3. \A d \in Clients : pc'[d] = "commit" => pc[d] = "commit" /\ d # c /\ rec'[d] = rec[d]
      BY <3>1 DEF Write, Inv, TypeOK
    <3> QED
      BY <1>0, <3>2, <3>3 DEF Settled
  <2>2. CASE Put(c)
    <3>1. /\ lock = c /\ epoch = Revoked /\ rec[c] \in Records /\ rec[c].gen \in Gens
          /\ \A m \in pending' : m \in pending \/ m.record = rec[c]
          /\ epoch' = epoch /\ rec' = rec
      BY <2>2 DEF Put, Inv, TypeOK, Holder, Holding, Writing, Records
    <3>2. \A d \in Clients : pc'[d] # "commit"
      BY <2>2, <3>1 DEF Put, Inv, TypeOK, Holding, Writing
    <3> QED
      BY <3>1, <3>2 DEF Settled
  <2>3. CASE Verify(c)
    BY <2>3 DEF Verify, Settled, Inv, TypeOK
  <2>4. CASE Commit(c) \/ CommitLate(c)
    <3>1. /\ pc[c] = "commit" /\ lock = c /\ epoch' = rec[c].gen /\ pending' = pending
          /\ rec[c] \in Records /\ Copy(rec[c])
      BY <2>4 DEF Commit, CommitLate, Inv, TypeOK, Holding, Writing, Copy
    <3>2. \A m \in pending' : m.record.gen # epoch'
      BY <1>0, <3>1 DEF Settled, Inv, Unique
    <3>3. \A d \in Clients : pc'[d] # "commit"
      BY <2>4, <3>1 DEF Commit, CommitLate, Return, Inv, TypeOK, Holding, Writing
    <3> QED
      BY <3>2, <3>3 DEF Settled
  <2>5. CASE /\ UNCHANGED <<epoch, pending>>
             /\ \A d \in Clients : pc'[d] = "commit" => pc[d] = "commit" /\ rec'[d] = rec[d]
    BY <2>5 DEF Settled
  <2>6. CASE Fail(c) \/ Done(c) \/ LogoutAbsent(c) \/ Authorize(c) \/ Rotate(c) \/ Refused(c)
    BY <2>5, <2>6 DEF Fail, Done, LogoutAbsent, Authorize, Rotate, Refused, Return, Inv, TypeOK
  <2>7. CASE Begin(c) \/ Exchange(c) \/ Logout(c) \/ Refresh(c) \/ Rotated(c) \/ Challenged(c)
    BY <2>1, <2>7 DEF Begin, Exchange, Logout, Refresh, Rotated, Challenged
  <2> QED
    BY <1>1, <2>2, <2>3, <2>4, <2>6, <2>7 DEF ClientNext
<1>2. ASSUME NEW m \in pending, Land(m) \/ Lose(m) PROVE Settled'
  BY <1>2 DEF Land, Lose, Settled
<1>3. CASE Reboot
  BY <1>3 DEF Reboot, Settled
<1> QED
  BY <1>1, <1>2, <1>3 DEF Next

THEOREM SettledCorrect ==
  ASSUME EpochSurvives
  PROVE  Spec => [](Inv /\ Settled)
<1>1. Init => Settled
  BY DEF Init, Settled
<1>2. Inv /\ Settled /\ [Next]_vars => Settled'
  <2>1. CASE UNCHANGED vars
    BY <2>1 DEF Settled
  <2> QED
    BY <2>1, SettledStep
<1> QED
  BY InvCorrect, <1>1, <1>2, PTL DEF Spec

----------------------------------------------------------------------------
USE DEF TheCell!vars

LEMMA ValueType == TypeOK => Value \in Records \cup {None} /\ Intended \in Records \cup {None}
BY ReadType DEF Value, Intended, TypeOK, Holding

(* While somebody writes, nothing counts and the holder's record is intended.*)
LEMMA WriterOwns ==
  ASSUME Inv, NEW c \in Clients, pc[c] \in Holding
  PROVE  /\ lock = c
         /\ pc[c] \in Writing => Value = None /\ Intended = rec[c] /\ rec[c] \in Records
         /\ pc[c] \notin Writing => Intended = None
<1> USE NamesAssumption
<1>1. lock = c /\ lock # None
  BY DEF Inv, TypeOK
<1>2. pc[c] \in Writing => epoch = Revoked /\ rec[c] \in Records
  BY DEF Inv, Holder, TypeOK, Holding
<1>3. epoch = Revoked => Read = None
  BY DEF Inv, TypeOK, Read, Records
<1> QED
  BY <1>1, <1>2, <1>3 DEF Value, Intended

LEMMA NobodyWrites ==
  ASSUME Inv, lock = None
  PROVE  Intended = None
BY DEF Intended

LEMMA WriteBegins ==
  ASSUME Inv, TypeOK', NEW c \in Clients, NEW r \in Records, NEW g, Write(c, r, g),
         lock = None \/ pc[c] = "rotating"
  PROVE  TheCell!Begin(c, r)
<1> USE NamesAssumption
<1>1. lock \in {None, c} /\ Intended = None
  BY WriterOwns, NobodyWrites DEF Holding, Writing
<1>2. lock' = c /\ pc'[c] = "put" /\ rec'[c] = r /\ epoch' = Revoked /\ doubled' = doubled /\ store' = store
  BY DEF Write, Inv, TypeOK
<1>3. Intended' = r
  BY <1>2 DEF Intended, Writing
<1>4. Value' = None
  BY <1>2 DEF Value, Read, Inv, TypeOK, Records
<1> QED
  BY <1>1, <1>2, <1>3, <1>4 DEF TheCell!Begin

LEMMA CellCommit ==
  ASSUME Inv, NEW c \in Clients, Commit(c) \/ CommitLate(c)
  PROVE  TheCell!Commit(c) \/ TheCell!Abandon(c)
<1> USE NamesAssumption
<1>1. /\ pc[c] = "commit" /\ lock = c /\ epoch' = rec[c].gen /\ rec[c] \in Records
      /\ store' = store /\ doubled' = doubled /\ Value = None /\ Intended = rec[c]
  BY WriterOwns DEF Commit, CommitLate, Holding, Writing
<1>2. lock' \in {None, c} /\ (lock' = c => pc'[c] = "rotate")
  BY <1>1 DEF Commit, CommitLate, Return, Inv, TypeOK
<1>3. Intended' = None
  BY <1>2 DEF Intended, Writing
<1>4. CASE store = rec[c] /\ ~doubled
  <2>1. Value' = rec[c]
    BY <1>1, <1>4 DEF Value, Read
  <2> QED
    BY <1>1, <1>2, <1>3, <2>1 DEF TheCell!Commit
<1>5. CASE store # rec[c] \/ doubled
  <2>1. store # rec[c] /\ store # None => store.gen # rec[c].gen
    BY <1>1 DEF Inv, Unique, Copy, TypeOK
  <2>2. Value' = None
    BY <1>1, <1>5, <2>1 DEF Value, Read, Records
  <2> QED
    BY <1>1, <1>2, <1>3, <2>2 DEF TheCell!Abandon
<1> QED
  BY <1>4, <1>5

(* Keyring writes that are carried out never bring a record into the cell.   *)
LEMMA CellLand ==
  ASSUME Inv, Settled, NEW m \in pending, Land(m) \/ Lose(m)
  PROVE  TheCell!Lose \/ UNCHANGED TheCell!vars
<1> USE NamesAssumption
<1>1. epoch' = epoch /\ lock' = lock /\ epoch # None /\ Intended' = Intended
  BY DEF Land, Lose, Inv, Untouched, Intended
<1>2. m.record \in Records /\ m.record.gen # epoch
  BY DEF Settled, Inv, TypeOK, Messages
<1>3. Value' \in {Value, None}
  <2>1. CASE UNCHANGED <<store, doubled>>
    BY <1>1, <2>1 DEF Value, Read
  <2>2. CASE doubled'
    BY <2>2 DEF Value
  <2>3. CASE store' = m.record
    BY <1>1, <1>2, <2>3 DEF Value, Read
  <2> QED
    BY <2>1, <2>2, <2>3 DEF Land, Lose
<1> QED
  BY <1>1, <1>3 DEF TheCell!Lose

LEMMA CellClient ==
  ASSUME Inv, TypeOK', NEW c \in Clients, ClientNext(c)
  PROVE  [TheCell!Next]_(TheCell!vars)
<1> USE NamesAssumption
<1>1. CASE \E r \in Records : \E g : Write(c, r, g) /\ (lock = None \/ pc[c] = "rotating")
  BY <1>1, WriteBegins DEF TheCell!Next
<1>2. CASE Begin(c)
  <2>1. PICK g \in Fresh : Write(c, Renewed(g), "consent") /\ lock = None
    BY <1>2 DEF Begin
  <2>2. Renewed(g) \in Records
    BY RecordType, ReadType DEF Renewed, Records, Fresh, Inv
  <2> QED
    BY <1>1, <2>1, <2>2
<1>3. CASE Exchange(c)
  <2>1. PICK g \in Fresh, t \in Tokens : Write(c, Record(g, t), "in") /\ lock = None
    BY <1>3 DEF Exchange
  <2> QED
    BY <1>1, <2>1, RecordType DEF Fresh
<1>4. CASE Logout(c)
  <2>1. PICK g \in Fresh : Write(c, Record(g, None), "out") /\ lock = None
    BY <1>4 DEF Logout
  <2> QED
    BY <1>1, <2>1, RecordType DEF Fresh
<1>5. CASE Refresh(c)
  <2>1. PICK g \in Fresh : Write(c, Record(g, None), "rotate") /\ lock = None
    BY <1>5 DEF Refresh
  <2> QED
    BY <1>1, <2>1, RecordType DEF Fresh
<1>6. CASE Rotated(c)
  <2>1. PICK g \in Fresh, t \in (Tokens \ issued) \cup {token[c]} :
          Write(c, Record(g, t), "use") /\ pc[c] = "rotating"
    BY <1>6 DEF Rotated
  <2>2. t \in Tokens
    BY <2>1 DEF Inv, TypeOK
  <2> QED
    BY <1>1, <2>1, <2>2, RecordType DEF Fresh
<1>7. CASE Challenged(c)
  <2> DEFINE r(g) == [gen |-> g, cred |-> Read.cred, login_required |-> TRUE]
  <2>1. PICK g \in Fresh : Write(c, r(g), "report") /\ lock = None
    BY <1>7 DEF Challenged
  <2>2. r(g) \in Records
    BY <1>7, ReadType DEF Challenged, Records, Fresh, Inv
  <2> QED
    BY <1>1, <2>1, <2>2
<1>8. CASE Commit(c) \/ CommitLate(c)
  BY <1>8, CellCommit DEF TheCell!Next
<1>9. CASE Fail(c) \/ Done(c)
  <2>1. Value' = Value /\ lock' = IF lock = c THEN None ELSE lock
    BY <1>9 DEF Fail, Done, Return, Value, Read
  <2>2. CASE lock = c
    BY <2>1, <2>2 DEF TheCell!Next, TheCell!Abandon, Intended
  <2>3. CASE lock # c
    <3>1. Intended' = Intended
      BY <1>9, <2>1, <2>3 DEF Fail, Done, Return, Intended, Inv, TypeOK
    <3> QED
      BY <2>1, <2>3, <3>1
  <2> QED
    BY <2>2, <2>3
<1>10. CASE LogoutAbsent(c) \/ Authorize(c) \/ Rotate(c) \/ Refused(c) \/ Put(c) \/ Verify(c)
  <2>1. Value' = Value /\ lock' = lock
    BY <1>10 DEF LogoutAbsent, Authorize, Rotate, Refused, Put, Verify, Value, Read
  <2>2. /\ rec' = rec
        /\ \A d \in Clients : pc'[d] \in Writing <=> pc[d] \in Writing
    BY <1>10 DEF LogoutAbsent, Authorize, Rotate, Refused, Put, Verify, Writing, Inv, TypeOK
  <2>3. Intended' = Intended
    BY <2>1, <2>2 DEF Intended, Inv, TypeOK
  <2> QED
    BY <2>1, <2>3
<1> QED
  BY <1>2, <1>3, <1>4, <1>5, <1>6, <1>7, <1>8, <1>9, <1>10 DEF ClientNext

(* The endpoint's credentials are a cell with exclusive writers: whatever is *)
(* written late, lost, timed out or cancelled, a read returns the record of  *)
(* the last write that was validated, or none.                               *)
THEOREM VaultIsCell ==
  ASSUME EpochSurvives
  PROVE  Spec => TheCell!Spec
<1> USE NamesAssumption
<1>1. Init => TheCell!Init
  BY TypeInit, ValueType DEF Init, TheCell!Init, Intended
<1>2. Inv /\ Inv' /\ Settled /\ [Next]_vars => [TheCell!Next]_(TheCell!vars)
  <2> SUFFICES ASSUME Inv, TypeOK', Settled, [Next]_vars PROVE [TheCell!Next]_(TheCell!vars)
    BY DEF Inv
  <2>1. CASE \E c \in Clients : ClientNext(c)
    BY <2>1, CellClient
  <2>2. CASE \E m \in pending : Land(m) \/ Lose(m)
    BY <2>2, CellLand DEF TheCell!Next
  <2>3. CASE Reboot
    <3>1. Value' = Value /\ lock' = None /\ Intended' = None
      BY <2>3 DEF Reboot, Value, Read, Intended
    <3>2. CASE lock = None
      BY <3>1, <3>2, NobodyWrites
    <3>3. CASE lock # None
      <4>1. lock \in Clients
        BY <3>3 DEF Inv, TypeOK
      <4>2. TheCell!Abandon(lock)
        BY <3>1, <3>3 DEF TheCell!Abandon
      <4> QED
        BY <4>1, <4>2 DEF TheCell!Next
    <3> QED
      BY <3>2, <3>3
  <2>4. CASE UNCHANGED vars
    BY <2>4 DEF Value, Read, Intended
  <2> QED
    BY <2>1, <2>2, <2>3, <2>4 DEF Next
<1> QED
  BY SettledCorrect, <1>1, <1>2, PTL DEF Spec, TheCell!Spec

==============================================================================
