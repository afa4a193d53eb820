------------------------ MODULE StdioRegistryProofs ------------------------
(***************************************************************************)
(* Machine-checked theorems about module StdioRegistry, for every limit,   *)
(* every number of requests and every number of callers.  One of them is   *)
(* about MCStdioRegistry, which adds the history of whether there ever was *)
(* more than one caller at a time.                                         *)
(***************************************************************************)
EXTENDS MCStdioRegistry, FiniteSetTheorems, SequenceTheorems, TLAPS

USE DEF vars, client, server
USE InFlightAssumption, MaxIdAssumption

(* The messages that the server has been or may yet be sent.               *)
Sent == received \cup InQueue

(* What holds of a single request besides its type.                        *)
IdOK(i) ==
    /\ pc[i] \in {"new", "waiting", "sending"} =>
         Request(i) \notin Sent /\ Cancelled(i) \notin Sent
    /\ Request(i) \in Sent \/ pc[i] = "sending" => i <= last_id
    /\ Cancelled(i) \in Sent => pc[i] = "ended" /\ reply[i] = None /\ i \notin pending
    /\ i \in pending /\ pc[i] = "sent" => Request(i) \in Sent

IdsOK == \A i \in Ids : IdOK(i)

(* Requests the server has to answer, on its way to it or held for it.     *)
Load == {i \in Ids : pc[i] = "sending" \/ Request(i) \in Sent} \ answered

(* While the registry is open each of them has a permit.                   *)
LoadInv ==
    /\ Cardinality(pending \cup abandoned) <= InFlight
    /\ closed => Cardinality(Load) <= InFlight
    /\ ~closed => Load \subseteq pending \cup abandoned

(* A cancellation is behind its request on the way to the server.          *)
Order ==
    \A i \in Ids :
        /\ Cancelled(i) \in received => Request(i) \in received
        /\ writing = Cancelled(i) => Request(i) \in received
        /\ \A n \in 1 .. Len(queue) : queue[n] = Cancelled(i) =>
             \/ Request(i) \in received \cup {writing}
             \/ \E m \in 1 .. Len(queue) : m < n /\ queue[m] = Request(i)

Inv == TypeOK /\ IdsOK /\ LoadInv /\ Order /\ HonestServerKept

-----------------------------------------------------------------------------
(* Messages and their sets.                                                *)

LEMMA MessageFacts ==
  ASSUME NEW i \in Ids
  PROVE  /\ Request(i) \in Messages /\ Cancelled(i) \in Messages
         /\ Request(i) # None /\ Cancelled(i) # None
         /\ \A j \in Ids : /\ Request(i) # Cancelled(j)
                           /\ Request(i) = Request(j) => i = j
                           /\ Cancelled(i) = Cancelled(j) => i = j
BY NoneAssumption DEF Request, Cancelled, Messages

LEMMA Appended ==
  ASSUME TypeOK, NEW m \in Messages, queue' = Append(queue, m),
         writing' = writing, received' = received
  PROVE  Sent' = Sent \cup {m}
<1>1. /\ Len(queue') = Len(queue) + 1
      /\ \A n \in 1 .. Len(queue) : queue'[n] = queue[n]
      /\ queue'[Len(queue) + 1] = m
      /\ Len(queue) \in Nat
      /\ DOMAIN queue = 1 .. Len(queue) /\ DOMAIN queue' = 1 .. Len(queue')
  BY AppendProperties DEF TypeOK
<1>2. {queue'[n] : n \in DOMAIN queue'} = {queue[n] : n \in DOMAIN queue} \cup {m}
  BY <1>1
<1> QED
  BY <1>2 DEF Sent, InQueue

LEMMA Popped ==
  ASSUME TypeOK, Pop
  PROVE  /\ Sent' = Sent
         /\ writing' = queue[1]
         /\ Len(queue') = Len(queue) - 1 /\ Len(queue) \in Nat \ {0}
         /\ \A n \in 1 .. Len(queue') : queue'[n] = queue[n + 1]
<1>1. /\ writing' = queue[1]
      /\ Len(queue') = Len(queue) - 1 /\ Len(queue) \in Nat \ {0}
      /\ \A n \in 1 .. Len(queue') : queue'[n] = queue[n + 1]
      /\ DOMAIN queue = 1 .. Len(queue) /\ DOMAIN queue' = 1 .. Len(queue')
      /\ writing' \in Messages
  BY HeadTailProperties DEF TypeOK, Pop
<1>2. {queue'[n] : n \in DOMAIN queue'} \cup {writing'} = {queue[n] : n \in DOMAIN queue}
  <2>1. \A n \in DOMAIN queue : n = 1 \/ (n - 1 \in DOMAIN queue' /\ queue'[n - 1] = queue[n])
    BY <1>1
  <2>2. \A n \in DOMAIN queue' : n + 1 \in DOMAIN queue /\ queue'[n] = queue[n + 1]
    BY <1>1
  <2>3. 1 \in DOMAIN queue
    BY <1>1
  <2> QED
    BY <1>1, <2>1, <2>2, <2>3
<1>3. InQueue' = InQueue
  BY <1>1, <1>2, NoneAssumption DEF InQueue, Pop
<1> QED
  BY <1>1, <1>3 DEF Sent, Pop

LEMMA Kept ==
  ASSUME UNCHANGED <<queue, writing, received>>
  PROVE  Sent' = Sent
BY DEF Sent, InQueue

LEMMA WrittenSent ==
  ASSUME TypeOK, Written
  PROVE  Sent' = Sent
BY DEF TypeOK, Sent, InQueue, Written

LEMMA GoneSent ==
  ASSUME WriterGone
  PROVE  Sent' \subseteq Sent
<1>1. InQueue' = {}
  BY DEF WriterGone, InQueue
<1> QED
  BY <1>1 DEF Sent, WriterGone

-----------------------------------------------------------------------------
(* The type invariant.                                                     *)

LEMMA TypeInit == Init => TypeOK
<1> SUFFICES ASSUME Init PROVE TypeOK
  OBVIOUS
<1>1. queue \in Seq(Messages) /\ Len(queue) = 0 /\ 0 <= Capacity
  BY DEF Init, Capacity
<1>2. \A i \in Ids : i >= next_id /\ pc[i] = "new" /\ reply[i] = None
  BY DEF Init, Ids
<1>3. next_id \in 1 .. MaxId + 1 /\ last_id \in 0 .. MaxId
  BY DEF Init
<1> QED
  BY <1>1, <1>2, <1>3 DEF Init, TypeOK

LEMMA AppendedType ==
  ASSUME TypeOK, NEW m \in Messages, queue' = Append(queue, m), Len(queue) < Capacity
  PROVE  queue' \in Seq(Messages) /\ Len(queue') <= Capacity
BY AppendProperties DEF TypeOK, Capacity

LEMMA CloseType ==
  ASSUME TypeOK, NEW entries \in SUBSET Ids, Close(entries)
  PROVE  /\ reply' \in [Ids -> {None, "answer", "error"}]
         /\ pending' = {} /\ abandoned' = {} /\ closed' = TRUE
         /\ \A i \in Ids : reply'[i] = IF i \in entries THEN "error" ELSE reply[i]
BY DEF TypeOK, Close

LEMMA TypeAbandon ==
  ASSUME TypeOK, NEW i \in Ids, i \in pending, pc[i] = "sent", Abandon(i),
         pc' = [pc EXCEPT ![i] = "ended"],
         UNCHANGED <<client, last_id, writing, worker, server>>
  PROVE  TypeOK'
<1>1. CASE /\ Len(queue) < Capacity
           /\ pending' = pending \ {i} /\ abandoned' = abandoned \cup {i}
           /\ queue' = Append(queue, Cancelled(i)) /\ UNCHANGED <<closed, reply>>
  <2>1. queue' \in Seq(Messages) /\ Len(queue') <= Capacity
    BY <1>1, MessageFacts, AppendedType
  <2> QED
    BY <1>1, <2>1 DEF TypeOK
<1>2. CASE Close(pending \ {i}) /\ UNCHANGED queue
  <2>1. /\ reply' \in [Ids -> {None, "answer", "error"}]
        /\ pending' = {} /\ abandoned' = {} /\ closed' = TRUE
        /\ \A j \in Ids : reply'[j] = IF j \in pending \ {i} THEN "error" ELSE reply[j]
    BY <1>2, CloseType DEF TypeOK
  <2> QED
    BY <1>2, <2>1, NoneAssumption DEF TypeOK
<1> QED
  BY <1>1, <1>2 DEF Abandon

LEMMA TypeStep == TypeOK /\ [Next]_vars => TypeOK'
<1> SUFFICES ASSUME TypeOK, [Next]_vars PROVE TypeOK'
  OBVIOUS
<1>1. CASE Begin
  BY <1>1, NoneAssumption DEF TypeOK, Begin, Ids
<1>2. CASE Pop
  <2>1. queue' \in Seq(Messages) /\ Len(queue') <= Capacity /\ writing' \in Messages
    BY <1>2, HeadTailProperties DEF TypeOK, Pop, Capacity
  <2> QED
    BY <1>2, <2>1 DEF TypeOK, Pop
<1>3. CASE Written
  BY <1>3 DEF TypeOK, Written
<1>4. CASE Disconnect
  <2>1. /\ reply' \in [Ids -> {None, "answer", "error"}]
        /\ pending' = {} /\ abandoned' = {} /\ closed' = TRUE
        /\ \A j \in Ids : reply'[j] = IF j \in pending THEN "error" ELSE reply[j]
    BY <1>4, CloseType DEF TypeOK, Disconnect
  <2> QED
    BY <1>4, <2>1, NoneAssumption DEF TypeOK, Disconnect
<1>5. CASE WriterGone
  <2>1. queue' \in Seq(Messages) /\ Len(queue') <= Capacity
    BY <1>5 DEF TypeOK, WriterGone, Capacity
  <2> QED
    BY <1>5, <2>1 DEF TypeOK, WriterGone
<1>6. CASE Shutdown
  BY <1>6 DEF TypeOK, Shutdown
<1>7. ASSUME NEW i \in Ids, RequestNext(i) PROVE TypeOK'
  <2>1. CASE Admit(i)
    <3>1. CASE closed
      BY <2>1, <3>1 DEF TypeOK, Admit, Register
    <3>2. CASE ~closed
      <4>1. /\ pc[i] = "waiting" /\ pc' = [pc EXCEPT ![i] = "sending"]
            /\ pending' = pending \cup {i} /\ reply[i] = None
            /\ UNCHANGED <<client, reply, abandoned, closed, queue, writing, worker, server>>
        BY <2>1, <3>2 DEF TypeOK, Admit, Register
      <4>2. /\ last_id' \in 0 .. MaxId /\ last_id' >= last_id /\ last_id' >= i
        BY <2>1, <3>2 DEF TypeOK, Admit, Register, Highest, Ids
      <4>3. \A j \in Ids : j <= last_id => j <= last_id'
        BY <4>2 DEF TypeOK, Ids
      <4>4. abandoned \cap {i} = {}
        BY <4>1 DEF TypeOK
      <4> QED
        BY <3>2, <4>1, <4>2, <4>3, <4>4 DEF TypeOK
    <3> QED
      BY <3>1, <3>2
  <2>2. CASE Submit(i)
    <3>1. queue' \in Seq(Messages) /\ Len(queue') <= Capacity
      BY <2>2, MessageFacts, AppendedType DEF Submit
    <3> QED
      BY <2>2, <3>1 DEF TypeOK, Submit
  <2>3. CASE SubmitFailed(i)
    BY <2>3 DEF TypeOK, SubmitFailed
  <2>4. CASE Take(i)
    BY <2>4 DEF TypeOK, Take
  <2>5. CASE Cancel(i)
    <3>1. CASE pc[i] = "sent" /\ i \in pending
      BY <2>5, <3>1, TypeAbandon DEF Cancel, Drop
    <3>2. CASE ~(pc[i] = "sent" /\ i \in pending)
      BY <2>5, <3>2 DEF TypeOK, Cancel, Drop, InProgress
    <3> QED
      BY <3>1, <3>2
  <2> QED
    BY <1>7, <2>1, <2>2, <2>3, <2>4, <2>5 DEF RequestNext
<1>8. ASSUME NEW i \in Ids, Receive(i) PROVE TypeOK'
  BY <1>8, NoneAssumption DEF TypeOK, Receive
<1>9. CASE UNCHANGED vars
  BY <1>9 DEF TypeOK, Capacity
<1> QED
  BY <1>1, <1>2, <1>3, <1>4, <1>5, <1>6, <1>7, <1>8, <1>9 DEF Next

(* State has its type, and entries, permits and replies agree with the     *)
(* program points of the requests (TypeOK).                                *)
THEOREM TypeCorrect == Spec => []TypeOK
BY TypeInit, TypeStep, PTL DEF Spec

-----------------------------------------------------------------------------
(* The requests.                                                           *)

LEMMA IdsInit == Init => IdsOK /\ LoadInv /\ Order /\ HonestServerKept
<1> SUFFICES ASSUME Init PROVE IdsOK /\ LoadInv /\ Order /\ HonestServerKept
  OBVIOUS
<1>1. Sent = {}
  BY DEF Init, Sent, InQueue
<1>2. IdsOK
  BY <1>1 DEF Init, IdsOK, IdOK
<1>3. LoadInv
  <2>1. Cardinality(pending \cup abandoned) = 0
    BY FS_EmptySet DEF Init
  <2> QED
    BY <1>1, <2>1 DEF Init, LoadInv, Load
<1>4. Order /\ HonestServerKept
  BY MessageFacts DEF Init, Order, HonestServerKept
<1> QED
  BY <1>2, <1>3, <1>4

(* Steps that send no message.                                             *)
LEMMA IdsQuiet ==
  ASSUME TypeOK, IdsOK, Sent' \subseteq Sent, last_id' = last_id,
         pending' \subseteq pending,
         \A i \in pending' : pc'[i] = pc[i] /\ (Request(i) \in Sent => Request(i) \in Sent'),
         \A i \in Ids : pc'[i] # pc[i] => pc'[i] \in {"waiting", "ended"},
         \A i \in Ids : pc'[i] = "waiting" => pc[i] \in {"new", "waiting"},
         \A i \in Ids : reply'[i] # reply[i] => i \in pending
  PROVE  IdsOK'
<1> SUFFICES ASSUME NEW i \in Ids PROVE IdOK(i)'
  BY DEF IdsOK
<1> QED
  BY DEF TypeOK, IdsOK, IdOK

LEMMA IdsAbandon ==
  ASSUME TypeOK, IdsOK, NEW i \in Ids, i \in pending, pc[i] = "sent", Abandon(i),
         pc' = [pc EXCEPT ![i] = "ended"],
         UNCHANGED <<client, last_id, writing, worker, server>>
  PROVE  IdsOK'
<1>1. CASE /\ pending' = pending \ {i} /\ UNCHANGED reply
           /\ queue' = Append(queue, Cancelled(i))
  <2>1. Sent' = Sent \cup {Cancelled(i)}
    BY <1>1, Appended, MessageFacts
  <2>2. ASSUME NEW j \in Ids PROVE IdOK(j)'
    BY <1>1, <2>1, MessageFacts DEF TypeOK, IdsOK, IdOK
  <2> QED
    BY <2>2 DEF IdsOK
<1>2. CASE Close(pending \ {i}) /\ UNCHANGED queue
  <2>1. Sent' = Sent
    BY <1>2, Kept
  <2>2. /\ pending' = {}
        /\ \A j \in Ids : reply'[j] # reply[j] => j \in pending
    <3>1. pending \ {i} \in SUBSET Ids
      BY DEF TypeOK
    <3> QED
      BY <1>2, <3>1, CloseType
  <2> QED
    BY <2>1, <2>2, IdsQuiet DEF TypeOK
<1> QED
  BY <1>1, <1>2 DEF Abandon

LEMMA IdsStep == TypeOK /\ IdsOK /\ [Next]_vars => IdsOK'
<1> SUFFICES ASSUME TypeOK, IdsOK, [Next]_vars PROVE IdsOK'
  OBVIOUS
<1>1. CASE Begin
  <2>1. Sent' = Sent
    BY <1>1, Kept DEF Begin
  <2>2. next_id \in Ids /\ pc[next_id] = "new"
    BY <1>1 DEF Begin, TypeOK, Ids
  <2> QED
    BY <1>1, <2>1, <2>2, IdsQuiet DEF Begin, TypeOK
<1>2. CASE Pop
  BY <1>2, Popped, IdsQuiet DEF Pop
<1>3. CASE Written
  BY <1>3, WrittenSent, IdsQuiet DEF Written
<1>4. CASE Disconnect
  <2>1. Sent' = Sent
    BY <1>4, Kept DEF Disconnect
  <2>2. /\ pending' = {}
        /\ \A j \in Ids : reply'[j] # reply[j] => j \in pending
    BY <1>4, CloseType DEF TypeOK, Disconnect
  <2> QED
    BY <1>4, <2>1, <2>2, IdsQuiet DEF Disconnect
<1>5. CASE WriterGone
  BY <1>5, GoneSent, IdsQuiet DEF WriterGone, TypeOK
<1>6. CASE Shutdown
  BY <1>6, Kept, IdsQuiet DEF Shutdown
<1>7. ASSUME NEW i \in Ids, RequestNext(i) PROVE IdsOK'
  <2>1. CASE Admit(i)
    <3>1. Sent' = Sent
      BY <2>1, Kept DEF Admit
    <3>2. CASE closed
      BY <2>1, <3>1, <3>2, IdsQuiet DEF TypeOK, Admit, Register
    <3>3. CASE ~closed
      <4>1. /\ pc[i] = "waiting" /\ pc' = [pc EXCEPT ![i] = "sending"]
            /\ pending' = pending \cup {i} /\ UNCHANGED reply
        BY <2>1, <3>3 DEF Admit, Register
      <4>2. i <= last_id' /\ \A j \in Ids : j <= last_id => j <= last_id'
        BY <2>1, <3>3 DEF TypeOK, Admit, Register, Highest, Ids
      <4>3. ASSUME NEW j \in Ids PROVE IdOK(j)'
        BY <3>1, <4>1, <4>2 DEF TypeOK, IdsOK, IdOK
      <4> QED
        BY <4>3 DEF IdsOK
    <3> QED
      BY <3>2, <3>3
  <2>2. CASE Submit(i)
    <3>1. Sent' = Sent \cup {Request(i)}
      BY <2>2, Appended, MessageFacts DEF Submit
    <3>2. ASSUME NEW j \in Ids PROVE IdOK(j)'
      BY <2>2, <3>1, MessageFacts DEF Submit, TypeOK, IdsOK, IdOK
    <3> QED
      BY <3>2 DEF IdsOK
  <2>3. CASE SubmitFailed(i)
    BY <2>3, Kept, IdsQuiet DEF SubmitFailed, TypeOK
  <2>4. CASE Take(i)
    BY <2>4, Kept, IdsQuiet DEF Take, TypeOK
  <2>5. CASE Cancel(i)
    <3>1. CASE pc[i] = "sent" /\ i \in pending
      BY <2>5, <3>1, IdsAbandon DEF Cancel, Drop
    <3>2. CASE ~(pc[i] = "sent" /\ i \in pending)
      BY <2>5, <3>2, Kept, IdsQuiet DEF TypeOK, Cancel, Drop
    <3> QED
      BY <3>1, <3>2
  <2> QED
    BY <1>7, <2>1, <2>2, <2>3, <2>4, <2>5 DEF RequestNext
<1>8. ASSUME NEW i \in Ids, Receive(i) PROVE IdsOK'
  BY <1>8, Kept, IdsQuiet DEF Receive, TypeOK
<1>9. CASE UNCHANGED vars
  BY <1>9, Kept, IdsQuiet
<1> QED
  BY <1>1, <1>2, <1>3, <1>4, <1>5, <1>6, <1>7, <1>8, <1>9 DEF Next

(* Only an answer to what was never asked ends the reader.                 *)
LEMMA HonestStep == TypeOK /\ IdsOK /\ HonestServerKept /\ [Next]_vars => HonestServerKept'
<1> SUFFICES ASSUME TypeOK, IdsOK, HonestServerKept, [Next]_vars PROVE HonestServerKept'
  OBVIOUS
<1>1. ASSUME NEW i \in Ids, Receive(i) PROVE HonestServerKept'
  <2>1. Unknown(i) => Request(i) \notin received
    BY DEF Unknown, IdsOK, IdOK, Sent, TypeOK, Ids
  <2> QED
    BY <1>1, <2>1 DEF Receive, HonestServerKept, TypeOK
<1>2. CASE ~\E i \in Ids : Receive(i)
  BY <1>2 DEF HonestServerKept, Next, RequestNext, Begin, Pop, Written, Disconnect,
     WriterGone, Shutdown, Admit, Submit, SubmitFailed, Take, Cancel
<1> QED
  BY <1>1, <1>2

-----------------------------------------------------------------------------
(* The load of the server.                                                 *)

LEMMA FiniteIds ==
  ASSUME NEW S \in SUBSET Ids
  PROVE  IsFiniteSet(S) /\ Cardinality(S) \in Nat
<1>1. IsFiniteSet(Ids)
  BY FS_Interval DEF Ids
<1>2. IsFiniteSet(S)
  BY <1>1, FS_Subset
<1> QED
  BY <1>2, FS_CardinalityType

(* Steps that take no permit.                                              *)
LEMMA LoadQuiet ==
  ASSUME TypeOK, TypeOK', LoadInv, Load' \subseteq Load,
         pending' \cup abandoned' \subseteq pending \cup abandoned,
         closed => closed',
         ~closed' => Load' \subseteq pending' \cup abandoned'
  PROVE  LoadInv'
<1> DEFINE P == pending \cup abandoned
<1>1. P \in SUBSET Ids /\ Load \in SUBSET Ids
  BY DEF TypeOK, Load
<1>2. /\ IsFiniteSet(P) /\ Cardinality(P) \in Nat
      /\ IsFiniteSet(Load) /\ Cardinality(Load) \in Nat
  BY <1>1, FiniteIds
<1>3. /\ Cardinality(P') <= Cardinality(P) /\ Cardinality(P') \in Nat
      /\ Cardinality(Load') <= Cardinality(Load) /\ Cardinality(Load') \in Nat
  <2>1. P' \in SUBSET P /\ Load' \in SUBSET Load
    OBVIOUS
  <2> QED
    BY <1>2, <2>1, FS_Subset, FS_CardinalityType
<1>4. ~closed => Cardinality(Load) <= Cardinality(P)
  BY <1>2, FS_Subset DEF LoadInv
<1> QED
  BY <1>2, <1>3, <1>4 DEF LoadInv

LEMMA LoadAbandon ==
  ASSUME TypeOK, TypeOK', IdsOK, LoadInv, NEW i \in Ids, i \in pending, pc[i] = "sent",
         Abandon(i), pc' = [pc EXCEPT ![i] = "ended"],
         UNCHANGED <<client, last_id, writing, worker, server>>
  PROVE  LoadInv'
<1>1. CASE /\ pending' = pending \ {i} /\ abandoned' = abandoned \cup {i}
           /\ queue' = Append(queue, Cancelled(i)) /\ UNCHANGED <<closed, reply>>
  <2>1. Sent' = Sent \cup {Cancelled(i)}
    BY <1>1, Appended, MessageFacts
  <2>2. Load' \subseteq Load
    BY <2>1, MessageFacts DEF Load, TypeOK
  <2> QED
    BY <1>1, <2>2, LoadQuiet DEF LoadInv
<1>2. CASE Close(pending \ {i}) /\ UNCHANGED queue
  <2>1. Sent' = Sent
    BY <1>2, Kept
  <2>2. Load' \subseteq Load
    BY <2>1 DEF Load, TypeOK
  <2> QED
    BY <1>2, <2>2, LoadQuiet DEF Close
<1> QED
  BY <1>1, <1>2 DEF Abandon

LEMMA OneMore ==
  ASSUME NEW S \in SUBSET Ids, NEW i \in Ids, Cardinality(S) < InFlight
  PROVE  Cardinality(S \cup {i}) <= InFlight
<1>1. IsFiniteSet(S) /\ Cardinality(S) \in Nat
  BY FiniteIds
<1>2. Cardinality(S \cup {i}) \in {Cardinality(S), Cardinality(S) + 1}
  BY <1>1, FS_AddElement
<1> QED
  BY <1>1, <1>2, InFlightAssumption

LEMMA LoadStep == TypeOK /\ TypeOK' /\ IdsOK /\ LoadInv /\ [Next]_vars => LoadInv'
<1> SUFFICES ASSUME TypeOK, TypeOK', IdsOK, LoadInv, [Next]_vars PROVE LoadInv'
  OBVIOUS
<1>1. CASE Begin
  <2>1. Sent' = Sent /\ next_id \in Ids
    BY <1>1, Kept DEF Begin
  <2>2. UNCHANGED <<pending, abandoned, closed>>
    BY <1>1 DEF Begin
  <2>3. Load' \subseteq Load
    BY <1>1, <2>1 DEF Begin, Load, TypeOK
  <2> QED
    BY <2>2, <2>3, LoadQuiet DEF LoadInv
<1>2. CASE Pop
  BY <1>2, Popped, LoadQuiet DEF Pop, Load, LoadInv
<1>3. CASE Written
  BY <1>3, WrittenSent, LoadQuiet DEF Written, Load, LoadInv
<1>4. CASE Disconnect
  BY <1>4, Kept, LoadQuiet DEF Disconnect, Close, Load
<1>5. CASE WriterGone
  BY <1>5, GoneSent, LoadQuiet DEF WriterGone, Load, TypeOK
<1>6. CASE Shutdown
  BY <1>6, Kept, LoadQuiet DEF Shutdown, Load, LoadInv
<1>7. ASSUME NEW i \in Ids, RequestNext(i) PROVE LoadInv'
  <2>1. CASE Admit(i)
    <3>1. Sent' = Sent
      BY <2>1, Kept DEF Admit
    <3>2. CASE closed
      BY <2>1, <3>1, <3>2, LoadQuiet DEF TypeOK, Admit, Register, Load
    <3>3. CASE ~closed
      <4>1. /\ pc' = [pc EXCEPT ![i] = "sending"] /\ pending' = pending \cup {i}
            /\ UNCHANGED <<abandoned, closed, answered>> /\ PermitFree
        BY <2>1, <3>3 DEF Admit, Register
      <4>2. Load' \subseteq Load \cup {i}
        BY <3>1, <4>1 DEF Load, TypeOK
      <4>3. pending \cup abandoned \in SUBSET Ids
        BY DEF TypeOK
      <4>4. pending' \cup abandoned' = (pending \cup abandoned) \cup {i}
        BY <4>1
      <4>5. Cardinality(pending' \cup abandoned') <= InFlight
        <5>1. Cardinality(pending \cup abandoned) < InFlight
          BY <4>1 DEF PermitFree
        <5> QED
          BY <4>3, <4>4, <5>1, OneMore
      <4> QED
        BY <3>3, <4>1, <4>2, <4>4, <4>5 DEF LoadInv
    <3> QED
      BY <3>2, <3>3
  <2>2. CASE Submit(i)
    <3>1. Sent' = Sent \cup {Request(i)}
      BY <2>2, Appended, MessageFacts DEF Submit
    <3>2. Load' \subseteq Load
      BY <2>2, <3>1, MessageFacts DEF Submit, Load, TypeOK
    <3> QED
      BY <2>2, <3>2, LoadQuiet DEF Submit, LoadInv
  <2>3. CASE SubmitFailed(i)
    <3>1. Sent' = Sent /\ closed
      BY <2>3, Kept DEF SubmitFailed, TypeOK
    <3> QED
      BY <2>3, <3>1, LoadQuiet DEF SubmitFailed, TypeOK, Load
  <2>4. CASE Take(i)
    BY <2>4, Kept, LoadQuiet DEF Take, TypeOK, Load, LoadInv
  <2>5. CASE Cancel(i)
    <3>1. CASE pc[i] = "sent" /\ i \in pending
      BY <2>5, <3>1, LoadAbandon DEF Cancel, Drop
    <3>2. CASE ~(pc[i] = "sent" /\ i \in pending)
      <4>1. Sent' = Sent
        BY <2>5, <3>2, Kept DEF Cancel, Drop
      <4>2. Load' \subseteq Load /\ (i \in pending => i \notin Load')
        BY <2>5, <3>2, <4>1 DEF Cancel, Drop, TypeOK, Load, IdsOK, IdOK
      <4> QED
        BY <2>5, <3>2, <4>2, LoadQuiet DEF Cancel, Drop, LoadInv
    <3> QED
      BY <3>1, <3>2
  <2> QED
    BY <1>7, <2>1, <2>2, <2>3, <2>4, <2>5 DEF RequestNext
<1>8. ASSUME NEW i \in Ids, Receive(i) PROVE LoadInv'
  BY <1>8, Kept, LoadQuiet DEF Receive, Load, LoadInv
<1>9. CASE UNCHANGED vars
  BY <1>9, Kept, LoadQuiet DEF Load, LoadInv
<1> QED
  BY <1>1, <1>2, <1>3, <1>4, <1>5, <1>6, <1>7, <1>8, <1>9 DEF Next

-----------------------------------------------------------------------------
(* The order of messages.                                                  *)

LEMMA OrderAppended ==
  ASSUME TypeOK, Order, NEW m \in Messages, queue' = Append(queue, m),
         writing' = writing, received' = received,
         \A i \in Ids : m = Cancelled(i) => Request(i) \in Sent
  PROVE  Order'
<1>1. /\ Len(queue') = Len(queue) + 1 /\ Len(queue) \in Nat
      /\ \A n \in 1 .. Len(queue) : queue'[n] = queue[n]
      /\ queue'[Len(queue) + 1] = m
      /\ DOMAIN queue = 1 .. Len(queue)
  BY AppendProperties DEF TypeOK
<1> SUFFICES ASSUME NEW i \in Ids, NEW n \in 1 .. Len(queue'), queue'[n] = Cancelled(i)
             PROVE  \/ Request(i) \in received' \cup {writing'}
                    \/ \E k \in 1 .. Len(queue') : k < n /\ queue'[k] = Request(i)
  BY DEF Order
<1>2. CASE n \in 1 .. Len(queue)
  <2>1. \/ Request(i) \in received \cup {writing}
        \/ \E k \in 1 .. Len(queue) : k < n /\ queue[k] = Request(i)
    BY <1>1, <1>2 DEF Order
  <2> QED
    BY <1>1, <2>1
<1>3. CASE n = Len(queue) + 1
  <2>1. \/ Request(i) \in received \cup {writing}
        \/ \E k \in 1 .. Len(queue) : queue[k] = Request(i)
    BY <1>1, <1>3 DEF Sent, InQueue
  <2> QED
    BY <1>1, <1>3, <2>1
<1> QED
  BY <1>1, <1>2, <1>3

LEMMA OrderStep == TypeOK /\ IdsOK /\ Order /\ [Next]_vars => Order'
<1> SUFFICES ASSUME TypeOK, IdsOK, Order, [Next]_vars PROVE Order'
  OBVIOUS
<1>1. CASE UNCHANGED <<queue, writing, received>>
  BY <1>1 DEF Order
<1>2. CASE Pop
  <2>1. /\ writing = None /\ writing' = queue[1] /\ received' = received
        /\ Len(queue') = Len(queue) - 1 /\ Len(queue) \in Nat \ {0}
        /\ \A n \in 1 .. Len(queue') : queue'[n] = queue[n + 1]
    BY <1>2, Popped DEF Pop
  <2> SUFFICES ASSUME NEW i \in Ids
               PROVE  /\ writing' = Cancelled(i) => Request(i) \in received
                      /\ \A n \in 1 .. Len(queue') : queue'[n] = Cancelled(i) =>
                           \/ Request(i) \in received \cup {writing'}
                           \/ \E m \in 1 .. Len(queue') : m < n /\ queue'[m] = Request(i)
    BY <2>1 DEF Order
  <2>2. writing' = Cancelled(i) => Request(i) \in received
    <3>1. SUFFICES ASSUME queue[1] = Cancelled(i) PROVE Request(i) \in received
      BY <2>1
    <3>2. 1 \in 1 .. Len(queue) /\ ~\E m \in 1 .. Len(queue) : m < 1
      BY <2>1
    <3>3. Request(i) \in received \cup {writing}
      BY <3>1, <3>2 DEF Order
    <3> QED
      BY <2>1, <3>3, MessageFacts
  <2>3. ASSUME NEW n \in 1 .. Len(queue'), queue'[n] = Cancelled(i)
        PROVE  \/ Request(i) \in received \cup {writing'}
               \/ \E m \in 1 .. Len(queue') : m < n /\ queue'[m] = Request(i)
    <3>1. n + 1 \in 1 .. Len(queue) /\ queue[n + 1] = Cancelled(i)
      BY <2>1, <2>3
    <3>2. CASE Request(i) \in received \cup {writing}
      BY <2>1, <3>2, MessageFacts
    <3>3. ASSUME NEW m \in 1 .. Len(queue), m < n + 1, queue[m] = Request(i)
          PROVE  \/ Request(i) \in received \cup {writing'}
                 \/ \E k \in 1 .. Len(queue') : k < n /\ queue'[k] = Request(i)
      <4>1. CASE m = 1
        BY <2>1, <3>3, <4>1
      <4>2. CASE m # 1
        <5>1. m - 1 \in 1 .. Len(queue') /\ m - 1 < n /\ queue'[m - 1] = queue[m]
          BY <2>1, <3>3, <4>2
        <5> QED
          BY <3>3, <5>1
      <4> QED
        BY <4>1, <4>2
    <3> QED
      BY <3>1, <3>2, <3>3 DEF Order
  <2> QED
    BY <2>2, <2>3
<1>3. CASE Written
  <2>1. /\ received' = received \cup {writing} /\ writing' = None /\ queue' = queue
    BY <1>3 DEF Written
  <2> QED
    BY <2>1, MessageFacts DEF Order
<1>4. CASE WriterGone
  <2>1. queue' = <<>> /\ writing' = None /\ received' = received
    BY <1>4 DEF WriterGone
  <2> QED
    BY <2>1, MessageFacts DEF Order
<1>5. ASSUME NEW i \in Ids, Submit(i) PROVE Order'
  BY <1>5, OrderAppended, MessageFacts DEF Submit
<1>6. ASSUME NEW i \in Ids, Cancel(i), pc[i] = "sent", i \in pending PROVE Order'
  <2>1. CASE queue' = Append(queue, Cancelled(i))
    <3>1. Request(i) \in Sent
      BY <1>6 DEF IdsOK, IdOK
    <3> QED
      BY <1>6, <2>1, <3>1, OrderAppended, MessageFacts DEF Cancel
  <2>2. CASE UNCHANGED queue
    BY <1>1, <1>6, <2>2 DEF Cancel
  <2> QED
    BY <1>6, <2>1, <2>2 DEF Cancel, Drop, Abandon
<1> QED
  <2>1. CASE \E i \in Ids : RequestNext(i)
    <3>1. PICK i \in Ids : RequestNext(i)
      BY <2>1
    <3>2. CASE Admit(i) \/ SubmitFailed(i) \/ Take(i)
      BY <1>1, <3>2 DEF Admit, SubmitFailed, Take
    <3>3. CASE Cancel(i) /\ ~(pc[i] = "sent" /\ i \in pending)
      BY <1>1, <3>3 DEF Cancel, Drop
    <3> QED
      BY <1>5, <1>6, <3>1, <3>2, <3>3 DEF RequestNext
  <2>2. CASE Begin \/ Disconnect \/ Shutdown \/ UNCHANGED vars \/ \E i \in Ids : Receive(i)
    BY <1>1, <2>2 DEF Begin, Disconnect, Shutdown, Receive
  <2> QED
    BY <1>2, <1>3, <1>4, <2>1, <2>2 DEF Next

-----------------------------------------------------------------------------
(* The theorems.                                                           *)

(* The inductive invariant: ids, permits, order and honesty.               *)
THEOREM InvCorrect == Spec => []Inv
<1>1. Init => Inv
  BY TypeInit, IdsInit DEF Inv
<1>2. Inv /\ [Next]_vars => Inv'
  BY TypeStep, IdsStep, LoadStep, OrderStep, HonestStep DEF Inv
<1> QED
  BY <1>1, <1>2, PTL DEF Spec

(* The server never has more unanswered requests than permits, with those  *)
(* whose callers have gone away (registry.rs).                             *)
THEOREM LoadBounded == Spec => []ServerLoad
<1>1. Inv => ServerLoad
  <2> SUFFICES ASSUME Inv PROVE ServerLoad
    OBVIOUS
  <2>1. Unsettled \in SUBSET Load /\ Load \in SUBSET Ids
    BY DEF Unsettled, Load, Sent
  <2>2. Cardinality(Unsettled) <= Cardinality(Load) /\ Cardinality(Unsettled) \in Nat
    BY <2>1, FiniteIds, FS_Subset, FS_CardinalityType
  <2>3. Cardinality(Load) \in Nat /\ Cardinality(Load) <= InFlight
    <3>1. CASE closed
      BY <2>1, <3>1, FiniteIds DEF Inv, LoadInv
    <3>2. CASE ~closed
      <4>1. pending \cup abandoned \in SUBSET Ids /\ Load \in SUBSET (pending \cup abandoned)
        BY <3>2 DEF Inv, LoadInv, TypeOK
      <4>2. Cardinality(Load) <= Cardinality(pending \cup abandoned)
        BY <4>1, FiniteIds, FS_Subset
      <4> QED
        BY <2>1, <4>1, <4>2, FiniteIds DEF Inv, LoadInv
    <3> QED
      BY <3>1, <3>2
  <2> QED
    BY <2>2, <2>3 DEF ServerLoad
<1> QED
  BY <1>1, InvCorrect, PTL

(* A cancellation follows its request, and cancels only a request whose    *)
(* caller was given nothing (PendingRequest::drop).                        *)
THEOREM CancelsFollow == Spec => []CancelsAbandoned
<1>1. Inv => CancelsAbandoned
  BY DEF Inv, CancelsAbandoned, IdsOK, IdOK, Order, Sent
<1> QED
  BY <1>1, InvCorrect, PTL

(* A server that only answers what it was asked is not cut off (receive).  *)
THEOREM HonestKept == Spec => []HonestServerKept
BY InvCorrect, PTL DEF Inv

-----------------------------------------------------------------------------
(* One caller at a time.                                                   *)

(* The place of a message in the order of ids, each request before its     *)
(* cancellation.                                                           *)
Rank(m) == IF m.kind = "request" THEN 2 * m.id ELSE 2 * m.id + 1

(* What was received, what is being written and what is in the queue are,  *)
(* in this order, messages of rising rank.                                 *)
Rising ==
    /\ writing # None =>
         /\ \A m \in received : Rank(m) < Rank(writing)
         /\ \A n \in 1 .. Len(queue) : Rank(writing) < Rank(queue[n])
    /\ \A n \in 1 .. Len(queue) : \A m \in received : Rank(m) < Rank(queue[n])
    /\ \A n, k \in 1 .. Len(queue) : n < k => Rank(queue[n]) < Rank(queue[k])

(* With one caller at a time its request is the last one, and messages are *)
(* sent in the order of their ids.                                         *)
SoloOK ==
    solo => /\ Cardinality(InProgress) <= 1
            /\ \A i \in InProgress : i + 1 = next_id
            /\ Rising

(* A server that has not lied has been sent what it has answered.          *)
AskedFirst == ~lied => \A i \in answered : Request(i) \in received

LEMMA RankFacts ==
  ASSUME NEW m \in Messages
  PROVE  /\ m.id \in Ids /\ Rank(m) \in Nat
         /\ m = Request(m.id) \/ m = Cancelled(m.id)
         /\ m = Request(m.id) => Rank(m) = 2 * m.id
         /\ m = Cancelled(m.id) => Rank(m) = 2 * m.id + 1
BY DEF Messages, Rank, Request, Cancelled, Ids

LEMMA RequestRank ==
  ASSUME NEW i \in Ids
  PROVE  Rank(Request(i)) = 2 * i /\ Rank(Cancelled(i)) = 2 * i + 1
         /\ Request(i).id = i /\ Cancelled(i).id = i
BY DEF Rank, Request, Cancelled, Ids

LEMMA QueueType ==
  ASSUME TypeOK
  PROVE  /\ Len(queue) \in Nat /\ DOMAIN queue = 1 .. Len(queue)
         /\ \A n \in 1 .. Len(queue) : queue[n] \in Messages /\ queue[n] \in Sent
         /\ writing # None => writing \in Messages /\ writing \in Sent
         /\ received \in SUBSET Messages /\ received \in SUBSET Sent
BY DEF TypeOK, Sent, InQueue

(* A message that is behind every one that was sent.                       *)
LEMMA RisingAppended ==
  ASSUME TypeOK, Rising, NEW m \in Messages, queue' = Append(queue, m),
         writing' = writing, received' = received,
         \A s \in Sent : Rank(s) < Rank(m)
  PROVE  Rising'
<1>1. /\ Len(queue') = Len(queue) + 1 /\ Len(queue) \in Nat
      /\ \A n \in 1 .. Len(queue) : queue'[n] = queue[n]
      /\ queue'[Len(queue) + 1] = m
  BY AppendProperties DEF TypeOK
<1>2. /\ \A n \in 1 .. Len(queue) : queue[n] \in Sent
      /\ writing # None => writing \in Sent
      /\ received \in SUBSET Sent
  BY QueueType
<1>3. \A n \in 1 .. Len(queue') : n \in 1 .. Len(queue) \/ n = Len(queue) + 1
  BY <1>1
<1>4. /\ writing' # None =>
         /\ \A k \in received' : Rank(k) < Rank(writing')
         /\ \A n \in 1 .. Len(queue') : Rank(writing') < Rank(queue'[n])
  BY <1>1, <1>2, <1>3 DEF Rising
<1>5. \A n \in 1 .. Len(queue') : \A k \in received' : Rank(k) < Rank(queue'[n])
  BY <1>1, <1>2, <1>3 DEF Rising
<1>6. ASSUME NEW n \in 1 .. Len(queue'), NEW k \in 1 .. Len(queue'), n < k
      PROVE  Rank(queue'[n]) < Rank(queue'[k])
  <2>1. n \in 1 .. Len(queue)
    BY <1>1, <1>3, <1>6
  <2>2. CASE k \in 1 .. Len(queue)
    BY <1>1, <1>6, <2>1, <2>2 DEF Rising
  <2>3. CASE k = Len(queue) + 1
    BY <1>1, <1>2, <2>1, <2>3
  <2> QED
    BY <1>3, <2>2, <2>3
<1> QED
  BY <1>4, <1>5, <1>6 DEF Rising

LEMMA RisingStep ==
  ASSUME TypeOK, IdsOK, Rising, [Next]_vars,
         \A i \in InProgress : i + 1 = next_id
  PROVE  Rising'
<1>1. CASE UNCHANGED <<queue, writing, received>>
  BY <1>1 DEF Rising
<1>2. CASE Pop
  <2>1. /\ writing = None /\ writing' = queue[1] /\ received' = received
        /\ Len(queue') = Len(queue) - 1 /\ Len(queue) \in Nat \ {0}
        /\ \A n \in 1 .. Len(queue') : queue'[n] = queue[n + 1]
    BY <1>2, Popped DEF Pop
  <2>2. 1 \in 1 .. Len(queue)
    BY <2>1
  <2>3. \A n \in 1 .. Len(queue') : n + 1 \in 1 .. Len(queue) /\ 1 < n + 1
    BY <2>1
  <2>4. \A k \in received' : Rank(k) < Rank(writing')
    BY <2>1, <2>2 DEF Rising
  <2>5. \A n \in 1 .. Len(queue') : Rank(writing') < Rank(queue'[n])
    BY <2>1, <2>2, <2>3 DEF Rising
  <2>6. \A n \in 1 .. Len(queue') : \A k \in received' : Rank(k) < Rank(queue'[n])
    BY <2>1, <2>3 DEF Rising
  <2>7. ASSUME NEW n \in 1 .. Len(queue'), NEW k \in 1 .. Len(queue'), n < k
        PROVE  Rank(queue'[n]) < Rank(queue'[k])
    BY <2>1, <2>3, <2>7 DEF Rising
  <2> QED
    BY <2>4, <2>5, <2>6, <2>7 DEF Rising
<1>3. CASE Written
  <2>1. writing # None /\ writing' = None /\ queue' = queue /\ received' = received \cup {writing}
    BY <1>3 DEF Written
  <2> QED
    BY <2>1 DEF Rising
<1>4. CASE WriterGone
  <2>1. queue' = <<>> /\ writing' = None
    BY <1>4 DEF WriterGone
  <2>2. Len(queue') = 0
    BY <2>1
  <2> QED
    BY <2>1, <2>2 DEF Rising
<1>5. \A m \in Sent : m \in Messages /\ pc[m.id] \in {"sent", "ended"} /\ m.id < next_id
  <2>1. Sent \subseteq Messages
    BY QueueType, NoneAssumption DEF Sent, InQueue
  <2>2. SUFFICES ASSUME NEW m \in Sent PROVE pc[m.id] \in {"sent", "ended"} /\ m.id < next_id
    BY <2>1
  <2>3. m.id \in Ids /\ (m = Request(m.id) \/ m = Cancelled(m.id))
    BY <2>1, RankFacts
  <2>4. IdOK(m.id)
    BY <2>3 DEF IdsOK
  <2>5. pc[m.id] \notin {"new", "waiting", "sending"}
    BY <2>3, <2>4 DEF IdOK
  <2>6. pc[m.id] \in {"new", "waiting", "sending", "sent", "ended"} /\ next_id \in Nat
        /\ (m.id >= next_id <=> pc[m.id] = "new") /\ m.id \in Nat
    BY <2>3 DEF TypeOK, Ids
  <2> QED
    BY <2>5, <2>6
<1>6. ASSUME NEW i \in Ids, Submit(i) PROVE Rising'
  <2>1. /\ i \in InProgress /\ queue' = Append(queue, Request(i))
        /\ writing' = writing /\ received' = received
    BY <1>6 DEF Submit, InProgress
  <2>2. ASSUME NEW m \in Sent PROVE Rank(m) < Rank(Request(i))
    <3>1. m.id \in Ids /\ m.id < i + 1 /\ m.id # i
      BY <1>5, <1>6, <2>1, RankFacts DEF Submit
    <3> QED
      BY <1>5, <3>1, RankFacts, RequestRank DEF Ids
  <2> QED
    BY <2>1, <2>2, RisingAppended, MessageFacts
<1>7. ASSUME NEW i \in Ids, Cancel(i), queue' = Append(queue, Cancelled(i)), pc[i] = "sent"
      PROVE  Rising'
  <2>1. /\ i \in InProgress
        /\ writing' = writing /\ received' = received
    BY <1>7 DEF Cancel
  <2>2. Cancelled(i) \notin Sent
    BY <1>7 DEF IdsOK, IdOK
  <2>3. ASSUME NEW m \in Sent PROVE Rank(m) < Rank(Cancelled(i))
    <3>1. m.id \in Ids /\ m.id < i + 1 /\ (m.id = i => m = Request(i))
      BY <1>5, <2>1, <2>2, RankFacts
    <3> QED
      BY <1>5, <3>1, RankFacts, RequestRank DEF Ids
  <2> QED
    BY <1>7, <2>1, <2>3, RisingAppended, MessageFacts
<1> QED
  <2>1. CASE \E i \in Ids : RequestNext(i)
    <3>1. PICK i \in Ids : RequestNext(i)
      BY <2>1
    <3>2. CASE Admit(i) \/ SubmitFailed(i) \/ Take(i)
      BY <1>1, <3>2 DEF Admit, SubmitFailed, Take
    <3>3. CASE Cancel(i)
      <4>1. \/ UNCHANGED queue
            \/ pc[i] = "sent" /\ queue' = Append(queue, Cancelled(i))
        BY <3>3 DEF Cancel, Drop, Abandon
      <4> QED
        BY <1>1, <1>7, <3>3, <4>1 DEF Cancel
    <3> QED
      BY <1>6, <3>1, <3>2, <3>3 DEF RequestNext
  <2>2. CASE Begin \/ Disconnect \/ Shutdown \/ UNCHANGED vars \/ \E i \in Ids : Receive(i)
    BY <1>1, <2>2 DEF Begin, Disconnect, Shutdown, Receive
  <2> QED
    BY <1>2, <1>3, <1>4, <2>1, <2>2 DEF Next

LEMMA AtMostOne ==
  ASSUME NEW S \in SUBSET Ids, Cardinality(S) <= 1, NEW i \in S, NEW j \in S
  PROVE  i = j
<1> SUFFICES ASSUME i # j PROVE FALSE
  OBVIOUS
<1>1. IsFiniteSet({i}) /\ Cardinality({i}) = 1
  BY FS_Singleton
<1>2. Cardinality({i, j}) = 2
  <2>1. {i, j} = {i} \cup {j} /\ j \notin {i}
    OBVIOUS
  <2>2. Cardinality({i} \cup {j}) = Cardinality({i}) + 1
    BY <1>1, <2>1, FS_AddElement
  <2> QED
    BY <1>1, <2>1, <2>2
<1>3. Cardinality({i, j}) <= Cardinality(S) /\ Cardinality(S) \in Nat
  <2>1. {i, j} \in SUBSET S /\ IsFiniteSet(S)
    BY FiniteIds
  <2> QED
    BY <2>1, FS_Subset, FS_CardinalityType
<1> QED
  BY <1>2, <1>3

LEMMA SoloStep == TypeOK /\ TypeOK' /\ IdsOK /\ SoloOK /\ MCNext => SoloOK'
<1> SUFFICES ASSUME TypeOK, TypeOK', IdsOK, SoloOK, MCNext, solo' PROVE SoloOK'
  BY DEF SoloOK
<1>1. /\ Cardinality(InProgress) <= 1 /\ Cardinality(InProgress') <= 1
      /\ \A i \in InProgress : i + 1 = next_id
      /\ Rising
  BY DEF MCNext, SoloOK
<1>2. Rising'
  <2>1. [Next]_vars
    BY DEF MCNext
  <2> QED
    BY <1>1, <2>1, RisingStep
<1>3. \A i \in InProgress' : i + 1 = next_id'
  <2>1. CASE Begin
    <3>1. next_id \in Ids /\ next_id' = next_id + 1 /\ next_id \in InProgress'
          /\ InProgress' = InProgress \cup {next_id}
      BY <2>1 DEF Begin, InProgress, TypeOK
    <3>2. InProgress' \in SUBSET Ids
      BY DEF InProgress
    <3>3. \A i \in InProgress' : i = next_id
      BY <1>1, <3>1, <3>2, AtMostOne
    <3> QED
      BY <3>1, <3>3
  <2>2. CASE ~Begin
    <3>1. InProgress' \subseteq InProgress /\ next_id' = next_id
      BY <2>2 DEF MCNext, Next, RequestNext, InProgress, TypeOK, Pop, Written, Disconnect, WriterGone,
         Shutdown, Receive, Admit, Register, Submit, SubmitFailed, Take, Cancel
    <3> QED
      BY <1>1, <3>1
  <2> QED
    BY <2>1, <2>2
<1> QED
  BY <1>1, <1>2, <1>3 DEF SoloOK

LEMMA AskedStep == TypeOK /\ AskedFirst /\ [Next]_vars => AskedFirst'
<1> SUFFICES ASSUME TypeOK, AskedFirst, [Next]_vars PROVE AskedFirst'
  OBVIOUS
<1>1. ASSUME NEW i \in Ids, Receive(i) PROVE AskedFirst'
  BY <1>1 DEF Receive, AskedFirst, TypeOK
<1>2. CASE ~\E i \in Ids : Receive(i)
  BY <1>2 DEF AskedFirst, Next, RequestNext, Begin, Pop, Written, Disconnect,
     WriterGone, Shutdown, Admit, Submit, SubmitFailed, Take, Cancel
<1> QED
  BY <1>1, <1>2

(* While the writer is busy what is in the queue is of requests that the   *)
(* server has to answer.                                                   *)
LEMMA QueueUnsettled ==
  ASSUME TypeOK, IdsOK, LoadInv, Order, Rising, AskedFirst, ~closed, ~lied,
         writing # None, NEW n \in 1 .. Len(queue)
  PROVE  queue[n].id \in pending \cup abandoned
<1> DEFINE i == queue[n].id
<1>1. /\ queue[n] \in Messages /\ i \in Ids
      /\ queue[n] = Request(i) \/ queue[n] = Cancelled(i)
      /\ \A m \in received : Rank(m) < Rank(writing)
      /\ Rank(writing) < Rank(queue[n])
      /\ Rank(writing) \in Nat
  BY QueueType, RankFacts DEF Rising
<1>2. Rank(Request(i)) = 2 * i /\ Rank(Cancelled(i)) = 2 * i + 1 /\ i \in Nat
  BY <1>1, RequestRank DEF Ids
<1>3. Request(i) \notin received
  <2>1. SUFFICES ASSUME Request(i) \in received PROVE FALSE
    OBVIOUS
  <2>2. Rank(Request(i)) < Rank(writing) /\ Rank(writing) < Rank(queue[n])
    BY <1>1, <2>1
  <2>3. Rank(queue[n]) \in {2 * i, 2 * i + 1}
    BY <1>1, <1>2
  <2> QED
    BY <1>1, <1>2, <2>2, <2>3
<1>4. Request(i) \in Sent
  <2>1. CASE queue[n] = Request(i)
    BY <2>1, QueueType
  <2>2. CASE queue[n] = Cancelled(i)
    <3>1. \/ Request(i) \in received \cup {writing}
          \/ \E m \in 1 .. Len(queue) : m < n /\ queue[m] = Request(i)
      BY <1>1, <2>2 DEF Order
    <3> QED
      BY <1>3, <3>1, QueueType
  <2> QED
    BY <1>1, <2>1, <2>2
<1>5. i \in Load
  BY <1>1, <1>3, <1>4 DEF Load, AskedFirst
<1> QED
  BY <1>5 DEF LoadInv

(* So there is room for one more cancellation.                             *)
LEMMA RoomToCancel ==
  ASSUME TypeOK, IdsOK, LoadInv, Order, Rising, AskedFirst, ~closed, ~lied,
         writing # None, NEW i \in Ids, i \in pending, pc[i] = "sent"
  PROVE  Len(queue) < Capacity
<1> DEFINE P == pending \cup abandoned
           D == 1 .. Len(queue)
           A == {n \in D : queue[n].kind = "request"}
           B == {n \in D : queue[n].kind # "request"}
           id == [n \in D |-> queue[n].id]
<1>1. /\ Len(queue) \in Nat /\ i \in P /\ P \in SUBSET Ids
      /\ IsFiniteSet(P) /\ Cardinality(P) \in Nat /\ Cardinality(P) <= InFlight
  BY QueueType, FiniteIds DEF LoadInv, TypeOK
<1>2. \A n \in D : /\ queue[n] \in Messages /\ queue[n] \in Sent
                   /\ queue[n].id \in P
  BY QueueType, QueueUnsettled
<1>3. \A n \in B : queue[n].id \in P \ {i}
  <2>1. Cancelled(i) \notin Sent
    BY DEF IdsOK, IdOK
  <2>2. \A m \in Messages : m.kind # "request" => m = Cancelled(m.id)
    BY DEF Messages, Cancelled
  <2> QED
    BY <1>2, <2>1, <2>2
<1>4. \A n, k \in D : queue[n] = queue[k] => n = k
  <2> SUFFICES ASSUME NEW n \in D, NEW k \in D, queue[n] = queue[k], n < k PROVE FALSE
    BY <1>1
  <2>1. Rank(queue[n]) < Rank(queue[k]) /\ Rank(queue[n]) \in Nat
    BY <1>2, RankFacts DEF Rising
  <2> QED
    BY <2>1
<1>5. \A n, k \in D : queue[n].kind = queue[k].kind /\ queue[n].id = queue[k].id => n = k
  <2>1. \A m, o \in Messages : m.kind = o.kind /\ m.id = o.id => m = o
    BY DEF Messages
  <2> QED
    BY <1>2, <1>4, <2>1
<1>6. \A n \in D : queue[n].kind \in {"request", "cancelled"}
  BY <1>2 DEF Messages
<1> HIDE DEF P
<1>7. IsFiniteSet(A) /\ Cardinality(A) \in Nat /\ Cardinality(A) <= Cardinality(P)
  <2> DEFINE f == [n \in A |-> queue[n].id]
  <2>1. f \in Injection(A, P)
    <3>1. f \in [A -> P]
      BY <1>2
    <3>2. \A n, k \in A : f[n] = f[k] => n = k
      BY <1>5
    <3> HIDE DEF f, A
    <3> QED
      BY <3>1, <3>2 DEF Injection, IsInjective
  <2> HIDE DEF f
  <2> QED
    BY <1>1, <2>1, FS_Injection, FS_CardinalityType
<1>8. IsFiniteSet(B) /\ Cardinality(B) \in Nat /\ Cardinality(B) <= Cardinality(P) - 1
  <2> DEFINE f == [n \in B |-> queue[n].id]
  <2>1. f \in Injection(B, P \ {i})
    <3>1. f \in [B -> P \ {i}]
      BY <1>3
    <3>2. \A n, k \in B : f[n] = f[k] => n = k
      <4>1. \A n, k \in B : queue[n].kind = queue[k].kind
        BY <1>6
      <4> QED
        BY <1>5, <4>1
    <3> HIDE DEF f, B
    <3> QED
      BY <3>1, <3>2 DEF Injection, IsInjective
  <2>2. IsFiniteSet(P \ {i}) /\ Cardinality(P \ {i}) = Cardinality(P) - 1
    BY <1>1, FS_RemoveElement
  <2> HIDE DEF f
  <2> QED
    BY <2>1, <2>2, FS_Injection, FS_CardinalityType
<1>9. Cardinality(D) = Len(queue)
  <2>1. Cardinality(1 .. Len(queue)) = IF 1 > Len(queue) THEN 0 ELSE Len(queue) - 1 + 1
    <3>1. 1 \in Int /\ Len(queue) \in Int
      BY <1>1
    <3> QED
      BY <3>1, FS_Interval
  <2> QED
    BY <1>1, <2>1
<1>10. Cardinality(D) = Cardinality(A) + Cardinality(B)
  <2>1. D = A \cup B /\ A \cap B = {}
    OBVIOUS
  <2>2. Cardinality(A \cap B) = 0
    BY <2>1, FS_EmptySet
  <2>3. Cardinality(A \cup B) = Cardinality(A) + Cardinality(B) - Cardinality(A \cap B)
    BY <1>7, <1>8, FS_Union
  <2> HIDE DEF A, B, D
  <2> QED
    BY <1>7, <1>8, <2>1, <2>2, <2>3
<1> QED
  BY <1>1, <1>7, <1>8, <1>9, <1>10 DEF Capacity

LEMMA CancelStep ==
  ASSUME Inv, SoloOK, AskedFirst, MCNext,
         solo, closed' # closed, ~lied, writing # None
  PROVE  worker' # worker
<1>1. TypeOK /\ IdsOK /\ LoadInv /\ Order /\ Rising
      /\ \A i \in InProgress : i + 1 = next_id
  BY DEF Inv, SoloOK
<1>2. CASE Disconnect
  BY <1>2 DEF Disconnect
<1>3. ASSUME NEW i \in Ids, Cancel(i) PROVE FALSE
  <2>1. i \in pending /\ pc[i] = "sent" /\ Abandon(i)
    BY <1>3 DEF Cancel, Drop
  <2>2. /\ worker = "gone" \/ Len(queue) + Cardinality(Blocked) >= Capacity
        /\ closed' = TRUE
    BY <2>1 DEF Abandon, Close
  <2>3. worker # "gone" /\ ~closed
    BY <1>1, <2>2 DEF TypeOK
  <2>4. Blocked = {}
    <3>1. i \in InProgress /\ \A j \in Blocked : j \in InProgress
      BY <1>3 DEF Cancel, Blocked, InProgress
    <3>2. \A j \in Blocked : j + 1 = i + 1 /\ j \in Nat
      BY <1>1, <3>1 DEF InProgress, Ids
    <3> QED
      BY <2>1, <3>2 DEF Blocked, Ids
  <2>5. Cardinality(Blocked) = 0 /\ Len(queue) \in Nat
    BY <1>1, <2>4, FS_EmptySet, QueueType
  <2>6. Len(queue) < Capacity
    BY <1>1, <2>1, <2>3, RoomToCancel
  <2> QED
    BY <2>2, <2>3, <2>5, <2>6 DEF Capacity
<1>4. (\E i \in Ids : Cancel(i)) \/ Disconnect \/ closed' = closed
  BY DEF MCNext, Next, RequestNext, Begin, Pop, Written, WriterGone, Shutdown, Admit,
     Submit, SubmitFailed, Take, Receive
<1> QED
  BY <1>2, <1>3, <1>4

(* Where there is one caller at a time, a cancelled call never closes the  *)
(* connection of a server that answers only what it was asked, once the    *)
(* writer has taken what it can: the queue of Stdio::spawn is long enough  *)
(* for every limit of requests in flight.                                  *)
THEOREM CancelsKept == MCSpec => CancelKeepsConnection
<1> DEFINE MInv == Inv /\ SoloOK /\ AskedFirst
<1>1. MCInit => MInv
  <2> SUFFICES ASSUME MCInit PROVE MInv
    OBVIOUS
  <2>1. Inv
    BY TypeInit, IdsInit DEF MCInit, Inv
  <2>2. InProgress = {} /\ received = {} /\ writing = None /\ Len(queue) = 0
    BY DEF MCInit, Init, InProgress
  <2>3. Cardinality(InProgress) = 0
    BY <2>2, FS_EmptySet
  <2> QED
    BY <2>1, <2>2, <2>3 DEF MCInit, Init, SoloOK, Rising, AskedFirst
<1>2. MInv /\ [MCNext]_<<vars, solo>> => MInv'
  <2> SUFFICES ASSUME MInv, [MCNext]_<<vars, solo>> PROVE MInv'
    OBVIOUS
  <2>1. [Next]_vars
    BY DEF MCNext
  <2>2. Inv'
    BY <2>1, TypeStep, IdsStep, LoadStep, OrderStep, HonestStep DEF Inv
  <2>3. AskedFirst'
    BY <2>1, AskedStep DEF Inv
  <2>4. SoloOK'
    <3>1. CASE MCNext
      BY <2>2, <3>1, SoloStep DEF Inv
    <3>2. CASE UNCHANGED <<vars, solo>>
      BY <3>2 DEF SoloOK, InProgress, Rising
    <3> QED
      BY <3>1, <3>2
  <2> QED
    BY <2>2, <2>3, <2>4
<1>3. MInv /\ [MCNext]_<<vars, solo>> =>
        [solo /\ closed' # closed /\ ~lied /\ writing # None => worker' # worker]_<<vars, solo>>
  BY CancelStep
<1> HIDE DEF MInv
<1> QED
  BY <1>1, <1>2, <1>3, PTL DEF MCSpec, CancelKeepsConnection

-----------------------------------------------------------------------------
(* The end of the connection.                                              *)

(* What a request in progress waits for has happened: there is a permit, on*)
(* a registry that will not take it, the queue has lost its receiver, or   *)
(* there is a reply (the guards of Admit, SubmitFailed and Take).          *)
Released(i) ==
    \/ pc[i] = "waiting" /\ PermitFree /\ closed
    \/ pc[i] = "sending"
    \/ pc[i] = "sent" /\ reply[i] # None

(* When the writer's task is gone no request waits for anything, wherever  *)
(* it was, and its next step is its last: what RequestsEnd needs besides   *)
(* that tasks are run, for every limit and any number of requests (close,  *)
(* and the error paths of Stdio::request).                                 *)
THEOREM GoneReleases ==
  Spec => /\ [](worker = "gone" => \A i \in InProgress : Released(i))
          /\ [][worker = "gone" => \A i \in InProgress : pc'[i] \in {pc[i], "ended"}]_vars
<1>1. TypeOK /\ worker = "gone" => \A i \in InProgress : Released(i)
  <2> SUFFICES ASSUME TypeOK, worker = "gone", NEW i \in InProgress PROVE Released(i)
    OBVIOUS
  <2>1. closed /\ pending \cup abandoned = {}
    BY DEF TypeOK
  <2>2. PermitFree
    <3>1. Cardinality(pending \cup abandoned) = 0
      BY <2>1, FS_EmptySet
    <3> QED
      BY <3>1 DEF PermitFree
  <2>3. pc[i] = "sent" => reply[i] # None
    BY <2>1 DEF TypeOK, InProgress
  <2> QED
    BY <2>1, <2>2, <2>3 DEF Released, InProgress
<1>2. TypeOK /\ [Next]_vars =>
        [worker = "gone" => \A i \in InProgress : pc'[i] \in {pc[i], "ended"}]_vars
  <2> SUFFICES ASSUME TypeOK, [Next]_vars, worker = "gone", NEW i \in InProgress
               PROVE  pc'[i] \in {pc[i], "ended"}
    OBVIOUS
  <2>1. closed /\ i \in Ids /\ pc[i] # "new"
    BY DEF TypeOK, InProgress
  <2>2. CASE Begin
    BY <2>1, <2>2 DEF Begin, TypeOK
  <2>3. ASSUME NEW j \in Ids, RequestNext(j) PROVE pc'[i] \in {pc[i], "ended"}
    BY <2>1, <2>3 DEF RequestNext, Admit, Register, Submit, SubmitFailed, Take, Cancel, TypeOK
  <2>4. CASE ~Begin /\ ~\E j \in Ids : RequestNext(j)
    BY <2>4 DEF Next, Pop, Written, Disconnect, WriterGone, Shutdown, Receive
  <2> QED
    BY <2>2, <2>3, <2>4
<1> QED
  BY <1>1, <1>2, TypeCorrect, PTL DEF Spec

=============================================================================
