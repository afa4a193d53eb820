--------------------------- MODULE StdioRegistry ---------------------------
(***************************************************************************)
(* Requests over one stdio connection: mcp/stdio.rs, mcp/stdio/registry.rs *)
(* and the reader and writer tasks of mcp/stdio/process.rs.                *)
(*                                                                         *)
(* A request takes a permit, is registered under its id, waits for room in *)
(* the writer's queue and then for its response.  A caller that goes away  *)
(* leaves its request abandoned: the permit stays taken until the server   *)
(* settles the request or the connection closes.  Tasks run on one thread, *)
(* a step is what happens between two awaits.                              *)
(*                                                                         *)
(* The server is external: it reads what is written to it at its own pace  *)
(* and may answer any id, once, twice or never, in any order.              *)
(***************************************************************************)
EXTENDS Naturals, Sequences, FiniteSets

CONSTANTS
    InFlight,   \* Limits::in_flight
    MaxId,      \* bound on the requests made over the connection
    Callers,    \* bound on the requests in progress at a time
    None        \* no value

Ids == 1 .. MaxId
Request(i) == [kind |-> "request", id |-> i]
Cancelled(i) == [kind |-> "cancelled", id |-> i]
Messages == [kind : {"request", "cancelled"}, id : Ids]

ASSUME InFlightAssumption == InFlight \in Nat \ {0}
ASSUME MaxIdAssumption == MaxId \in Nat /\ Callers \in Nat
ASSUME NoneAssumption == None \notin Messages \cup {"answer", "error"}

VARIABLES
    next_id,    \* Client::next_id
    stopped,    \* Client::closed and Client::stop
    pc,         \* id -> where its request is
    reply,      \* id -> what is in its oneshot channel
    pending,    \* State::pending
    abandoned,  \* State::abandoned
    closed,     \* State::closed
    last_id,    \* State::last_id
    queue,      \* the messages in the channel to the writer
    writing,    \* the message the writer has taken from it
    worker,     \* the connection: open, failed, closing, gone
    received,   \* external: the messages the server has been sent
    answered,   \* history: ids for which a response was read
    lied        \* history: the server has answered what it was not asked

client == <<next_id, stopped>>
server == <<received, answered, lied>>
vars == <<next_id, stopped, pc, reply, pending, abandoned, closed, last_id,
          queue, writing, worker, received, answered, lied>>

(* Mutant: no room for the cancellation that may be ahead of the requests. *)
CapacityShort == 2 * InFlight - 1

(* The channel of Stdio::spawn.                                            *)
Capacity == 2 * InFlight

(* A permit lives in the entry of its request, pending or abandoned.       *)
PermitFree == Cardinality(pending \cup abandoned) < InFlight

Init ==
    /\ next_id = 1 /\ stopped = FALSE
    /\ pc = [i \in Ids |-> "new"]
    /\ reply = [i \in Ids |-> None]
    /\ pending = {} /\ abandoned = {} /\ closed = FALSE /\ last_id = 0
    /\ queue = <<>> /\ writing = None /\ worker = "open"
    /\ received = {} /\ answered = {} /\ lied = FALSE

-----------------------------------------------------------------------------
(* Registry.                                                               *)

(* Registry::close, with the entries that are still pending.               *)
Close(entries) ==
    /\ closed' = TRUE /\ pending' = {} /\ abandoned' = {}
    /\ reply' = [i \in Ids |-> IF i \in entries THEN "error" ELSE reply[i]]

(* Mutant: the highest id is that of the last registration.                *)
HighestIsLatest(i) == i

Highest(i) == IF i > last_id THEN i ELSE last_id

(* Mutant: a closed registry takes requests.                               *)
RegisterClosed(i) ==
    /\ pc' = [pc EXCEPT ![i] = "sending"]
    /\ pending' = pending \cup {i} /\ last_id' = Highest(i)

(* Registry::register: a closed registry gives permit and error back.      *)
Register(i) ==
    IF closed
      THEN pc' = [pc EXCEPT ![i] = "ended"] /\ UNCHANGED <<pending, last_id>>
      ELSE /\ pc' = [pc EXCEPT ![i] = "sending"]
           /\ pending' = pending \cup {i} /\ last_id' = Highest(i)

-----------------------------------------------------------------------------
(* Client::request and Stdio::request.                                     *)

InProgress == {i \in Ids : pc[i] \in {"waiting", "sending", "sent"}}

(* An id is taken and the wait for a permit begins.                        *)
Begin ==
    /\ ~stopped /\ next_id \in Ids /\ Cardinality(InProgress) < Callers
    /\ next_id' = next_id + 1
    /\ pc' = [pc EXCEPT ![next_id] = "waiting"]
    /\ UNCHANGED <<stopped, reply, pending, abandoned, closed, last_id, queue,
                   writing, worker, server>>

Admit(i) ==
    /\ pc[i] = "waiting" /\ PermitFree
    /\ Register(i)
    /\ UNCHANGED <<client, reply, abandoned, closed, queue, writing, worker, server>>

(* There is room in the writer's queue.                                    *)
Submit(i) ==
    /\ pc[i] = "sending" /\ worker # "gone" /\ Len(queue) < Capacity
    /\ queue' = Append(queue, Request(i))
    /\ pc' = [pc EXCEPT ![i] = "sent"]
    /\ UNCHANGED <<client, reply, pending, abandoned, closed, last_id, writing,
                   worker, server>>

(* The queue has lost its receiver.                                        *)
SubmitFailed(i) ==
    /\ pc[i] = "sending" /\ worker = "gone"
    /\ pc' = [pc EXCEPT ![i] = "ended"]
    /\ pending' = pending \ {i}
    /\ UNCHANGED <<client, reply, abandoned, closed, last_id, queue, writing,
                   worker, server>>

(* The caller takes its response or error.                                 *)
Take(i) ==
    /\ pc[i] = "sent" /\ reply[i] # None
    /\ pc' = [pc EXCEPT ![i] = "ended"]
    /\ UNCHANGED <<client, reply, pending, abandoned, closed, last_id, queue,
                   writing, worker, server>>

(* Senders that wait for room are given it before try_send is.             *)
Blocked == {i \in Ids : pc[i] = "sending"}

(* Mutant: the permit returns when the caller goes away.                   *)
AbandonFreely(i) ==
    /\ pending' = pending \ {i}
    /\ IF worker # "gone" /\ Len(queue) < Capacity
         THEN queue' = Append(queue, Cancelled(i)) ELSE UNCHANGED queue
    /\ UNCHANGED <<abandoned, closed, reply>>

(* The request stays abandoned and the server is notified; without room    *)
(* for the notification the registry is closed.                            *)
Abandon(i) ==
    \/ /\ worker # "gone" /\ Len(queue) < Capacity
       /\ pending' = pending \ {i}
       /\ abandoned' = abandoned \cup {i}
       /\ queue' = Append(queue, Cancelled(i))
       /\ UNCHANGED <<closed, reply>>
    \/ /\ worker = "gone" \/ Len(queue) + Cardinality(Blocked) >= Capacity
       /\ Close(pending \ {i})
       /\ UNCHANGED queue

(* Mutant: a request that was never submitted is abandoned like the others. *)
DropAny(i) ==
    IF i \in pending
      THEN Abandon(i)
      ELSE UNCHANGED <<pending, abandoned, closed, reply, queue>>

(* PendingRequest::drop.                                                   *)
Drop(i) ==
    IF pc[i] = "sent" /\ i \in pending
      THEN Abandon(i)
      ELSE /\ pending' = pending \ {i}
           /\ UNCHANGED <<abandoned, closed, reply, queue>>

(* The operation is cancelled or out of time, or the client is stopped.    *)
Cancel(i) ==
    /\ i \in InProgress
    /\ Drop(i)
    /\ pc' = [pc EXCEPT ![i] = "ended"]
    /\ UNCHANGED <<client, last_id, writing, worker, server>>

-----------------------------------------------------------------------------
(* The tasks of the connection.                                            *)

(* write: the writer takes the next message.                               *)
Pop ==
    /\ worker \in {"open", "failed"} /\ writing = None /\ queue # <<>>
    /\ writing' = Head(queue) /\ queue' = Tail(queue)
    /\ UNCHANGED <<client, pc, reply, pending, abandoned, closed, last_id, worker, server>>

(* The server's end of the pipe has taken it.                              *)
Written ==
    /\ worker \in {"open", "failed"} /\ writing # None
    /\ received' = received \cup {writing} /\ writing' = None
    /\ UNCHANGED <<client, pc, reply, pending, abandoned, closed, last_id, queue,
                   worker, answered, lied>>

(* An id that was never registered; others may be answered again or late.  *)
Unknown(i) == i \notin pending \cup abandoned /\ i > last_id

(* Registry::receive, called by the reader, which an unknown id ends.      *)
Receive(i) ==
    /\ worker = "open"
    /\ answered' = answered \cup {i}
    /\ lied' = (lied \/ Request(i) \notin received)
    /\ worker' = IF Unknown(i) THEN "failed" ELSE worker
    /\ pending' = pending \ {i}
    /\ abandoned' = abandoned \ {i}
    /\ reply' = IF i \in pending THEN [reply EXCEPT ![i] = "answer"] ELSE reply
    /\ UNCHANGED <<client, pc, closed, last_id, queue, writing, received>>

(* The worker of spawn: the process has ended, reader or writer has ended, *)
(* or the client is stopped.                                               *)
Disconnect ==
    /\ worker \in {"open", "failed"}
    /\ Close(pending)
    /\ worker' = "closing"
    /\ UNCHANGED <<client, pc, last_id, queue, writing, server>>

(* The aborted writer is dropped, and with it the receiver of its queue.   *)
WriterGone ==
    /\ worker = "closing"
    /\ worker' = "gone" /\ queue' = <<>> /\ writing' = None
    /\ UNCHANGED <<client, pc, reply, pending, abandoned, closed, last_id, server>>

(* Client::shutdown.                                                       *)
Shutdown ==
    /\ ~stopped
    /\ stopped' = TRUE
    /\ UNCHANGED <<next_id, pc, reply, pending, abandoned, closed, last_id, queue,
                   writing, worker, server>>

RequestNext(i) == Admit(i) \/ Submit(i) \/ SubmitFailed(i) \/ Take(i) \/ Cancel(i)

Next ==
    \/ Begin \/ Pop \/ Written \/ Disconnect \/ WriterGone \/ Shutdown
    \/ \E i \in Ids : RequestNext(i) \/ Receive(i)

Spec == Init /\ [][Next]_vars

(* Tasks that can run do; the worker notices the end of its reader and a   *)
(* stop.  Nothing is assumed of the server, nor of deadlines.              *)
Fairness ==
    /\ WF_vars((worker = "failed" \/ stopped) /\ Disconnect)
    /\ WF_vars(WriterGone)
    /\ \A i \in Ids :
         /\ WF_vars(Admit(i)) /\ WF_vars(SubmitFailed(i)) /\ WF_vars(Take(i))
         /\ WF_vars(stopped /\ Cancel(i))

FairSpec == Spec /\ Fairness

-----------------------------------------------------------------------------
InQueue == {queue[n] : n \in DOMAIN queue} \cup ({writing} \ {None})

(* State has its type; ids are used once; an entry is pending for a caller *)
(* that waits and has no reply, a caller that waits has an entry or a      *)
(* reply; a closed registry is empty.                                      *)
TypeOK ==
    /\ next_id \in 1 .. MaxId + 1 /\ stopped \in BOOLEAN
    /\ pc \in [Ids -> {"new", "waiting", "sending", "sent", "ended"}]
    /\ reply \in [Ids -> {None, "answer", "error"}]
    /\ pending \subseteq Ids /\ abandoned \subseteq Ids
    /\ closed \in BOOLEAN /\ last_id \in 0 .. MaxId
    /\ queue \in Seq(Messages) /\ Len(queue) <= Capacity
    /\ writing \in Messages \cup {None}
    /\ worker \in {"open", "failed", "closing", "gone"}
    /\ received \subseteq Messages /\ answered \subseteq Ids /\ lied \in BOOLEAN
    /\ closed => pending = {} /\ abandoned = {}
    /\ worker \in {"closing", "gone"} => closed
    /\ \A i \in Ids :
         /\ i >= next_id <=> pc[i] = "new"
         /\ pc[i] \in {"new", "waiting"} => reply[i] = None
         /\ i \in pending =>
              pc[i] \in {"sending", "sent"} /\ reply[i] = None /\ i <= last_id
         /\ i \in abandoned => pc[i] = "ended" /\ i <= last_id
         /\ pc[i] \in {"sending", "sent"} /\ i \notin pending => reply[i] # None

(* The server, with what is on its way to it, never has more unanswered    *)
(* requests than permits, whoever goes away and even if the connection has *)
(* failed ("at most 16 unsettled requests, including abandoned requests"). *)
Unsettled == {i \in Ids : Request(i) \in received \cup InQueue} \ answered

ServerLoad == Cardinality(Unsettled) <= InFlight

(* A cancellation reaches the server after the request it cancels, and     *)
(* never for a request whose response or error its caller has been given   *)
(* (PendingRequest::drop).                                                 *)
CancelsAbandoned ==
    \A i \in Ids : Cancelled(i) \in received \cup InQueue =>
        /\ Cancelled(i) \in received => Request(i) \in received
        /\ pc[i] = "ended" /\ reply[i] = None

(* Late, repeated and unwanted responses do not cost the connection: only  *)
(* a server that answers what it was not asked is cut off (receive).       *)
HonestServerKept == worker = "failed" => lied

(* When the connection ends or the client is stopped, every request ends,  *)
(* wherever it waits and before its deadline.                              *)
RequestsEnd ==
    \A i \in Ids :
        i \in InProgress /\ (stopped \/ worker # "open") ~> pc[i] = "ended"

=============================================================================
