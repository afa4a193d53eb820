---------------------------- MODULE Credentials ----------------------------
(****************************************************************************)
(* The OAuth credentials of one endpoint: auth/provider.rs and the Vault of *)
(* auth/credentials.rs.                                                     *)
(*                                                                          *)
(* Any number of processes log in, log out, authorize requests and report   *)
(* refused ones.  A file lock per endpoint serialises them, except that a   *)
(* login lets it go while the user consents in a browser.  The keyring is   *)
(* another process behind D-Bus: a write whose caller has timed out or died *)
(* may still be carried out, at any later time.  The epoch, a small file of *)
(* its own, says which generation of the record counts.                     *)
(*                                                                          *)
(* The lock is held from before a handler's first read to its last write,   *)
(* and a late write that lands between a read and the set_epoch that        *)
(* follows it may as well land after both, so reading, computing the new    *)
(* record and revoking the old generation are one step here.                *)
(****************************************************************************)
EXTENDS Naturals, FiniteSets

CONSTANTS
    Clients,        \* processes and tasks that use the endpoint's credentials
    Gens,           \* generations of records
    Tokens,         \* credentials the authorization server may issue
    Revoked,        \* a random epoch that is no record's generation
    MaxLate,        \* bound on the keyring writes under way at a time
    EpochSurvives,  \* whether /tmp keeps the epoch file over a reboot
    None            \* no value

Records == [gen : Gens, cred : Tokens \cup {None}, login_required : BOOLEAN]

ASSUME NamesAssumption ==
    /\ None \notin Clients \cup Gens \cup Tokens \cup Records
    /\ Revoked \notin Gens \cup {None}
    /\ EpochSurvives \in BOOLEAN
ASSUME LateAssumption == MaxLate \in Nat \ {0}

VARIABLES
    store,      \* the record in the keyring item, None without an item
    doubled,    \* the keyring has two items for the endpoint
    epoch,      \* content of the epoch file, None without a file
    pending,    \* keyring writes that may still be carried out
    lock,       \* holder of the endpoint's file lock
    pc,         \* client -> where its operation is
    goal,       \* client -> what follows the write it is in
    rec,        \* client -> the record it writes or wrote last
    token,      \* client -> the token it refreshes or sends
    issued,     \* history: tokens the server has issued
    spent,      \* history: tokens sent to the server's refresh endpoint
    revoked,    \* history: tokens issued before a logout that succeeded
    refused,    \* history: tokens with which a request was refused
    disturbed   \* history: logins in the browser during which another write began

vault   == <<store, doubled, epoch, pending>>
clients == <<lock, pc, goal, rec, token>>
history == <<issued, spent, revoked, refused, disturbed>>
vars == <<store, doubled, epoch, pending, lock, pc, goal, rec, token, issued,
          spent, revoked, refused, disturbed>>

Record(g, t) == [gen |-> g, cred |-> t, login_required |-> FALSE]

Writing == {"put", "putting", "commit"}
Holding == Writing \cup {"rotate", "rotating"}

----------------------------------------------------------------------------
(* Mutant: a read that takes what the keyring holds.                         *)
ReadRaw == store

(* Vault::read: the record counts if the epoch names its generation, or if   *)
(* there is no epoch.                                                        *)
Read == IF store # None /\ (epoch = None \/ epoch = store.gen) THEN store ELSE None

(* random(): a generation that is nowhere in use.                            *)
InUse(g) ==
    \/ epoch = g
    \/ store # None /\ store.gen = g
    \/ \E m \in pending : m.record.gen = g
    \/ \E c \in Clients : rec[c] # None /\ rec[c].gen = g
Fresh == {g \in Gens : ~InUse(g)}

Init ==
    /\ store \in {None} \cup Records
    /\ doubled = FALSE /\ epoch = None /\ pending = {} /\ lock = None
    /\ pc = [c \in Clients |-> "idle"]
    /\ goal = [c \in Clients |-> None]
    /\ rec = [c \in Clients |-> None]
    /\ token = [c \in Clients |-> None]
    /\ store # None => (store.login_required => store.cred # None)
    /\ issued = IF store = None THEN {} ELSE {store.cred} \ {None}
    /\ refused = IF store # None /\ store.login_required THEN issued ELSE {}
    /\ spent = {} /\ revoked = {} /\ disturbed = {}

----------------------------------------------------------------------------
(* Vault::write, called with the lock: revoke, write, read back, validate.   *)

Write(c, r, g) ==
    /\ lock' = c
    /\ rec' = [rec EXCEPT ![c] = r]
    /\ goal' = [goal EXCEPT ![c] = g]
    /\ pc' = [pc EXCEPT ![c] = "put"]
    /\ epoch' = Revoked
    /\ disturbed' = disturbed \cup {d \in Clients \ {c} : pc[d] = "consent"}
    /\ UNCHANGED <<store, doubled, pending>>

(* SecureStore::write asks the keyring; only a login may create the item.    *)
Put(c) ==
    /\ pc[c] = "put" /\ ~doubled
    /\ store = None => goal[c] = "consent"
    /\ Cardinality(pending) < MaxLate
    /\ pending' = pending \cup {[record |-> rec[c], create |-> store = None]}
    /\ pc' = [pc EXCEPT ![c] = "putting"]
    /\ UNCHANGED <<store, doubled, epoch, lock, goal, rec, token, history>>

(* The keyring has answered, and what it now holds is what was written.      *)
Verify(c) ==
    /\ pc[c] = "putting"
    /\ \A m \in pending : m.record # rec[c]
    /\ ~doubled /\ store = rec[c]
    /\ pc' = [pc EXCEPT ![c] = "commit"]
    /\ UNCHANGED <<vault, lock, goal, rec, token, history>>

(* The operation ends; its lock file is closed.                              *)
Return(c) ==
    /\ lock' = IF lock = c THEN None ELSE lock
    /\ pc' = [pc EXCEPT ![c] = "idle"]
    /\ goal' = [goal EXCEPT ![c] = None]
    /\ rec' = [rec EXCEPT ![c] = None]
    /\ token' = [token EXCEPT ![c] = None]
    /\ disturbed' = disturbed \ {c}

(* The generation is validated.  A login goes on in the browser, without the *)
(* lock; a refresh goes on with it; a refreshed token is used without it;    *)
(* the others are done.                                                      *)
Commit(c) ==
    /\ pc[c] = "commit"
    /\ epoch' = rec[c].gen
    /\ \/ /\ goal[c] = "consent"
          /\ lock' = None
          /\ pc' = [pc EXCEPT ![c] = "consent"]
          /\ UNCHANGED <<goal, rec, token, revoked, disturbed>>
       \/ /\ goal[c] = "rotate"
          /\ pc' = [pc EXCEPT ![c] = "rotate"]
          /\ UNCHANGED <<lock, goal, rec, token, revoked, disturbed>>
       \/ /\ goal[c] = "use"
          /\ lock' = None
          /\ pc' = [pc EXCEPT ![c] = "using"]
          /\ token' = [token EXCEPT ![c] = rec[c].cred]
          /\ rec' = [rec EXCEPT ![c] = None]
          /\ UNCHANGED <<goal, revoked, disturbed>>
       \/ /\ goal[c] = "out"
          /\ revoked' = issued
          /\ Return(c)
       \/ /\ goal[c] \in {"in", "report"}
          /\ Return(c) /\ UNCHANGED revoked
    /\ UNCHANGED <<store, doubled, pending, issued, spent, refused>>

(* The deadline has passed when the epoch file has just been replaced: the   *)
(* new generation counts although the operation fails.                       *)
CommitLate(c) ==
    /\ pc[c] = "commit"
    /\ epoch' = rec[c].gen
    /\ Return(c)
    /\ UNCHANGED <<store, doubled, pending, issued, spent, revoked, refused>>

(* Cancellation, timeout, an error of keyring, network or server, a consent  *)
(* that is denied, a changed configuration, or the death of the process.     *)
(* What has been sent to the keyring stays sent.                             *)
Fail(c) ==
    /\ pc[c] # "idle"
    /\ Return(c)
    /\ UNCHANGED <<vault, issued, spent, revoked, refused>>

----------------------------------------------------------------------------
(* Provider::login_with.                                                     *)

Renewed(g) ==
    IF Read = None THEN Record(g, None)
    ELSE [gen |-> g, cred |-> Read.cred, login_required |-> Read.login_required]

(* begin: the record, or an empty one, is written under a new generation.    *)
Begin(c) ==
    /\ pc[c] = "idle" /\ lock = None /\ ~doubled
    /\ \E g \in Fresh : Write(c, Renewed(g), "consent")
    /\ UNCHANGED <<token, issued, spent, revoked, refused>>

(* Mutant: any valid record will do.                                         *)
AnyGeneration(c) == Read # None

(* require_generation: the record is still the one this login has written.   *)
SameGeneration(c) == Read # None /\ Read.gen = rec[c].gen

(* The user has consented: the code is exchanged and the new credential is   *)
(* written, all under the lock.                                              *)
Exchange(c) ==
    /\ pc[c] = "consent" /\ lock = None /\ ~doubled
    /\ SameGeneration(c)
    /\ \E g \in Fresh, t \in Tokens \ issued :
         /\ Write(c, Record(g, t), "in")
         /\ issued' = issued \cup {t}
    /\ UNCHANGED <<token, spent, revoked, refused>>

----------------------------------------------------------------------------
(* Provider::logout looks at the raw item: also a revoked one is emptied.    *)

Logout(c) ==
    /\ pc[c] = "idle" /\ lock = None /\ ~doubled /\ store # None
    /\ \E g \in Fresh : Write(c, Record(g, None), "out")
    /\ UNCHANGED <<token, issued, spent, revoked, refused>>

LogoutAbsent(c) ==
    /\ pc[c] = "idle" /\ lock = None /\ ~doubled /\ store = None
    /\ revoked' = issued
    /\ UNCHANGED <<vault, clients, issued, spent, refused, disturbed>>

----------------------------------------------------------------------------
(* Provider::credential and refresh.                                         *)

Usable == Read # None /\ ~Read.login_required /\ Read.cred # None

(* The access token has not expired and is sent without the lock.            *)
Authorize(c) ==
    /\ pc[c] = "idle" /\ lock = None /\ ~doubled /\ Usable
    /\ pc' = [pc EXCEPT ![c] = "using"]
    /\ token' = [token EXCEPT ![c] = Read.cred]
    /\ UNCHANGED <<vault, lock, goal, rec, history>>

(* Mutant: the refresh token is sent without being given up first.           *)
RefreshUnrecorded(c) ==
    /\ pc[c] = "idle" /\ lock = None /\ ~doubled /\ Usable
    /\ token' = [token EXCEPT ![c] = Read.cred]
    /\ lock' = c
    /\ pc' = [pc EXCEPT ![c] = "rotate"]
    /\ UNCHANGED <<vault, goal, rec, history>>

(* It has expired: the record is emptied before the refresh token is sent.   *)
Refresh(c) ==
    /\ pc[c] = "idle" /\ lock = None /\ ~doubled /\ Usable
    /\ token' = [token EXCEPT ![c] = Read.cred]
    /\ \E g \in Fresh : Write(c, Record(g, None), "rotate")
    /\ UNCHANGED <<issued, spent, revoked, refused>>

Rotate(c) ==
    /\ pc[c] = "rotate"
    /\ spent' = spent \cup {token[c]}
    /\ pc' = [pc EXCEPT ![c] = "rotating"]
    /\ UNCHANGED <<vault, lock, goal, rec, token, issued, revoked, refused, disturbed>>

(* The answer; the token that was sent is not accepted back.                 *)
Rotated(c) ==
    /\ pc[c] = "rotating"
    /\ \E g \in Fresh, t \in (Tokens \ issued) \cup {token[c]} :
         /\ t # token[c]
         /\ Write(c, Record(g, t), "use")
         /\ issued' = issued \cup {t}
    /\ UNCHANGED <<token, spent, revoked, refused>>

----------------------------------------------------------------------------
(* The HTTP request with the token, and challenged_with_authorization.       *)

Done(c) ==
    /\ pc[c] = "using"
    /\ Return(c)
    /\ UNCHANGED <<vault, issued, spent, revoked, refused>>

Refused(c) ==
    /\ pc[c] = "using"
    /\ refused' = refused \cup {token[c]}
    /\ pc' = [pc EXCEPT ![c] = "refused"]
    /\ UNCHANGED <<vault, lock, goal, rec, token, issued, spent, revoked, disturbed>>

(* Mutant: any credential is marked.                                         *)
MarksAny(c) == Read.cred # None

(* The record is marked only if it still has the token that was refused.     *)
Marks(c) == Read.cred # None /\ Read.cred = token[c]

Challenged(c) ==
    /\ pc[c] = "refused" /\ lock = None /\ ~doubled
    /\ Read # None /\ Marks(c)
    /\ \E g \in Fresh :
         Write(c, [gen |-> g, cred |-> Read.cred, login_required |-> TRUE], "report")
    /\ UNCHANGED <<token, issued, spent, revoked, refused>>

----------------------------------------------------------------------------
(* External: the keyring and the machine.                                    *)

(* A write is carried out, whether its caller still waits or not.  An item   *)
(* is created without replacing another.                                     *)
Land(m) ==
    /\ pending' = pending \ {m}
    /\ IF m.create /\ store # None
         THEN doubled' = TRUE /\ UNCHANGED store
         ELSE store' = m.record /\ UNCHANGED doubled
    /\ UNCHANGED <<epoch, clients, history>>

Lose(m) ==
    /\ pending' = pending \ {m}
    /\ UNCHANGED <<store, doubled, epoch, clients, history>>

(* Everything but the disk is gone; /tmp may be emptied.                     *)
Reboot ==
    /\ pending' = {}
    /\ epoch' = IF EpochSurvives THEN epoch ELSE None
    /\ lock' = None
    /\ pc' = [c \in Clients |-> "idle"]
    /\ goal' = [c \in Clients |-> None]
    /\ rec' = [c \in Clients |-> None]
    /\ token' = [c \in Clients |-> None]
    /\ disturbed' = {}
    /\ UNCHANGED <<store, doubled, issued, spent, revoked, refused>>

ClientNext(c) ==
    \/ Begin(c) \/ Exchange(c) \/ Logout(c) \/ LogoutAbsent(c)
    \/ Authorize(c) \/ Refresh(c) \/ Rotate(c) \/ Rotated(c)
    \/ Done(c) \/ Refused(c) \/ Challenged(c)
    \/ Put(c) \/ Verify(c) \/ Commit(c) \/ CommitLate(c) \/ Fail(c)

Next ==
    \/ \E c \in Clients : ClientNext(c)
    \/ \E m \in pending : Land(m) \/ Lose(m)
    \/ Reboot

Spec == Init /\ [][Next]_vars

----------------------------------------------------------------------------
Goals == {"consent", "in", "out", "rotate", "use", "report"}

Messages == [record : Records, create : BOOLEAN]

(* State has its type, and exactly the operations between their first read   *)
(* and the end of their last write hold the lock.                            *)
TypeOK ==
    /\ store \in Records \cup {None}
    /\ doubled \in BOOLEAN
    /\ epoch \in Gens \cup {Revoked, None}
    /\ pending \subseteq Messages
    /\ lock \in Clients \cup {None}
    /\ pc \in [Clients -> {"idle", "consent", "using", "refused"} \cup Holding]
    /\ goal \in [Clients -> Goals \cup {None}]
    /\ rec \in [Clients -> Records \cup {None}]
    /\ token \in [Clients -> Tokens \cup {None}]
    /\ issued \subseteq Tokens
    /\ spent \subseteq Tokens /\ revoked \subseteq Tokens /\ refused \subseteq Tokens
    /\ disturbed \subseteq Clients
    /\ \A c \in Clients :
         /\ pc[c] \in Holding <=> lock = c
         /\ pc[c] \in Holding \cup {"consent"} => rec[c] \in Records /\ goal[c] \in Goals
         /\ pc[c] \in {"using", "refused", "rotate", "rotating"} => token[c] \in Tokens
         /\ pc[c] \in Writing /\ goal[c] = "rotate" => token[c] \in Tokens
         /\ pc[c] \in Writing /\ goal[c] = "use" => rec[c].cred \in Tokens

(* A logout that succeeded is final: no credential issued before it counts   *)
(* again, whatever writes of logins, refreshes or challenges were under way  *)
(* and however late the keyring carries them out ("a timed-out or cancelled  *)
(* store operation cannot later resurrect a credential after logout").       *)
LogoutFinal == Read # None /\ ~doubled => Read.cred \notin revoked

(* A refresh token is sent at most once, over crashes, timeouts and late     *)
(* writes ("a crash/timeout cannot replay a consumed refresh token").        *)
RefreshOnce ==
    [][\A c \in Clients : pc[c] = "rotate" /\ pc'[c] = "rotating" =>
         token[c] \notin spent]_vars

(* A login that has waited for the user finishes only if no other credential *)
(* operation has begun to write meanwhile, not even one that failed (begin,  *)
(* require_generation).                                                      *)
LoginUndisturbed ==
    [][\A c \in Clients : pc[c] = "consent" /\ pc'[c] = "put" => c \notin disturbed]_vars

(* A login is demanded only for a credential with which a request was        *)
(* refused: a late challenge of an older token does not spoil a newer login  *)
(* (challenged_with_authorization).                                          *)
LoginRequiredDeserved ==
    Read # None /\ Read.login_required => Read.cred \in refused

----------------------------------------------------------------------------
(* What a read returns; with two items the keyring is no longer read.        *)
Value == IF doubled THEN None ELSE Read

(* The record the holder of the lock is about to make count.                 *)
Intended == IF lock # None /\ pc[lock] \in Writing THEN rec[lock] ELSE None

(* Lock, keyring and epoch file together are the cell that Cell describes.   *)
TheCell == INSTANCE Cell WITH
    Values <- Records,
    value <- Value,
    writer <- lock,
    next <- Intended
============================================================================
