------------------------- MODULE ConnectionManager -------------------------
(***************************************************************************)
(* websocket_manager.py: the sockets of one process, their handshake       *)
(* queues with the byte budget they share, and the operation lock that     *)
(* serialises writes to each of them; with the part of room_websocket and  *)
(* run_socket_session (app.py) that drives a socket through it.            *)
(*                                                                         *)
(* Nothing suspends while it holds the manager's own lock, so a section    *)
(* under that lock is one step.  The operation lock of a socket is an      *)
(* asyncio.Lock, granted in the order it was asked for: opq[s] is the      *)
(* holder followed by the waiters.  A write to a socket starts in one step *)
(* and ends, or fails, in another.                                         *)
(***************************************************************************)
EXTENDS Integers, Sequences, FiniteSets, SequencesExt, FiniteSetsExt

CONSTANTS
    Sockets,            \* WebSockets, each registered at most once
    RoomOf,             \* the room a socket asks for
    SubjectOf,          \* the subject it authenticated as
    SizeOf,             \* serialized size of each broadcast event
    MaxConnections,     \* max_connections
    MaxPerRoom,         \* max_per_room
    MaxPendingEvents,   \* max_pending_events
    MaxPendingBytes,    \* max_pending_bytes
    MaxTotalBytes,      \* max_total_pending_bytes
    MaxEvents,          \* bound: how many events are broadcast
    MaxCancels          \* bound: how many broadcasters are cancelled

Events == 1..MaxEvents

ASSUME ConstantsAssumption ==
    /\ IsFiniteSet(Sockets)
    /\ MaxEvents \in Nat
    /\ SizeOf \in [Events -> Nat \ {0}]
    /\ MaxPendingEvents \in Nat \ {0}
    /\ MaxPendingBytes \in Nat \ {0}
    /\ MaxTotalBytes \in Nat \ {0}

VARIABLES
    (* ConnectionManager *)
    attached,   \* the keys of _metadata; _rooms partitions them by room
    ready,      \* broadcast_ready
    pending,    \* pending
    inflight,   \* inflight, 0 when None
    bytes,      \* pending_bytes
    total,      \* _pending_bytes, the sum shared by all sockets
    opq,        \* operation_lock: its holder and its waiters
    io,         \* what the holder is doing: "none", "send" or "close"
    sched,      \* tasks created for a socket that have not run yet
    (* the request that serves each socket *)
    stage,      \* where run_socket_session is
    busy,       \* it is suspended inside a call of the manager
    (* environment and history *)
    nextEvent,  \* next event to be broadcast
    wire,       \* what was written to each socket
    aimed,      \* the broadcasts that selected each socket, in order
    caller,     \* "waits" when the task that broadcast an event can lose its sends
    cut         \* the events whose send to a socket was cancelled

queueVars == <<attached, ready, pending, inflight, bytes, total>>
lockVars  == <<opq, io, sched>>
sessVars  == <<stage, busy>>
callVars  == <<caller, cut>>
histVars  == <<nextEvent, wire, aimed, callVars>>
vars == <<queueVars, lockVars, sessVars, histVars>>

Task(kind, e) == [kind |-> kind, event |-> e]

FrameKinds == {"ready", "history", "queued", "live", "notice", "close"}

Init ==
    /\ attached = {}
    /\ ready = [s \in Sockets |-> FALSE]
    /\ pending = [s \in Sockets |-> <<>>]
    /\ inflight = [s \in Sockets |-> 0]
    /\ bytes = [s \in Sockets |-> 0] /\ total = 0
    /\ opq = [s \in Sockets |-> <<>>]
    /\ io = [s \in Sockets |-> "none"]
    /\ sched = [s \in Sockets |-> {}]
    /\ stage = [s \in Sockets |-> "new"]
    /\ busy = [s \in Sockets |-> FALSE]
    /\ nextEvent = 1
    /\ wire = [s \in Sockets |-> <<>>]
    /\ aimed = [s \in Sockets |-> <<>>]
    /\ caller = [e \in Events |-> "safe"]
    /\ cut = [s \in Sockets |-> {}]

-----------------------------------------------------------------------------
(* Detaching.  Whoever removes the metadata owns the physical close, which *)
(* runs as a task of its own and finishes even if the caller is cancelled. *)

Charge(e) == IF e = 0 THEN 0 ELSE SizeOf[e]

\* _discard_pending: the bytes a detached socket keeps charged.
Retained(s) == Charge(inflight[s])

\* _detach_connection: only a socket that still has metadata gets a closer.
Winners(S) == S \cap attached

\* mutant: the sockets are detached and nobody is left to close them
NoCloser(kind) == {}

\* The task that closes a detached socket: _close_with_lock ("close") or
\* _notify_and_close ("notify").
Closer(kind) == {Task(kind, 0)}

\* Detach the sockets of S, create a closer for each, and create a send of
\* event e for each socket of L.
DetachAndSend(S, kind, L, e) ==
    LET W == Winners(S)
    IN  /\ attached' = attached \ W
        /\ sched' = [s \in Sockets |->
                        sched[s] \cup (IF s \in W THEN Closer(kind) ELSE {})
                                 \cup (IF s \in L THEN {Task("send", e)} ELSE {})]

\* The queues of the sockets of S are dropped and their bytes refunded.
DiscardPending(S) ==
    LET W == Winners(S)
    IN  /\ pending' = [s \in Sockets |-> IF s \in W THEN <<>> ELSE pending[s]]
        /\ bytes' = [s \in Sockets |-> IF s \in W THEN Retained(s) ELSE bytes[s]]
        /\ total' = total - MapThenSumSet(LAMBDA s : bytes[s] - Retained(s), W)

\* close, close_room, close_member and close_all as far as the manager lock
\* goes.
DetachAll(S, kind) ==
    /\ DetachAndSend(S, kind, {}, 0)
    /\ DiscardPending(S)

-----------------------------------------------------------------------------
(* register, broadcast and the collective closes.                          *)

InRoom(r) == {s \in attached : RoomOf[s] = r}

HasCapacity(s) ==
    Cardinality(attached) < MaxConnections /\ Cardinality(InRoom(RoomOf[s])) < MaxPerRoom

\* register.  A refused socket never belongs to the manager; the admission
\* check of PostgreSQL mode may refuse one for which there is place.
Register(s) ==
    /\ stage[s] = "new"
    /\ \/ /\ HasCapacity(s)
          /\ attached' = attached \cup {s}
          /\ stage' = [stage EXCEPT ![s] = "ready"]
       \/ /\ stage' = [stage EXCEPT ![s] = "refused"]
          /\ UNCHANGED attached
    /\ UNCHANGED <<ready, pending, inflight, bytes, total, lockVars, busy, histVars>>

\* mutant: the shared budget is read once, before the loop over the room
OverflowsStaleTotal(s, e, tot) ==
    \/ Len(pending[s]) + (IF inflight[s] # 0 THEN 1 ELSE 0) >= MaxPendingEvents
    \/ bytes[s] + SizeOf[e] > MaxPendingBytes
    \/ total + SizeOf[e] > MaxTotalBytes

\* The three limits of broadcast, with the shared budget at tot.
Overflows(s, e, tot) ==
    \/ Len(pending[s]) + (IF inflight[s] # 0 THEN 1 ELSE 0) >= MaxPendingEvents
    \/ bytes[s] + SizeOf[e] > MaxPendingBytes
    \/ tot + SizeOf[e] > MaxTotalBytes

IsLive(s) == ready[s]

\* The loop of broadcast over the initializing sockets, in the order order:
\* the shared budget after each of them.  An overflowing one is detached,
\* which refunds its bytes, any other one charges the event to the budget.
Budget(order, e) ==
    LET tot[k \in 0..Len(order)] ==
          IF k = 0 THEN total
          ELSE IF Overflows(order[k], e, tot[k - 1])
                 THEN tot[k - 1] - (bytes[order[k]] - Retained(order[k]))
                 ELSE tot[k - 1] + SizeOf[e]
    IN  tot

\* The sockets that loop finds over a limit.
Overflowing(order, e) ==
    {order[k] : k \in {j \in DOMAIN order : Overflows(order[j], e, Budget(order, e)[j - 1])}}

\* How broadcast delivers: the sends it waits for are shielded from its
\* cancellation only when there is a socket to close for an overflow.
CallerOf(over, live) == IF over = {} /\ live # {} THEN "waits" ELSE "safe"

\* broadcast: skip stands for the peers left out by the admission sequence,
\* the required permission or the exclusions, and order for the iteration
\* order of the room's set.
Broadcast(r, skip) ==
    LET e == nextEvent
        peers == InRoom(r) \ skip
        live == {s \in peers : IsLive(s)}
    IN  /\ e <= MaxEvents
        /\ nextEvent' = e + 1
        /\ aimed' = [s \in Sockets |-> IF s \in peers THEN Append(aimed[s], e) ELSE aimed[s]]
        /\ \E order \in SetToSeqs(peers \ live) :
              LET over == Overflowing(order, e)
                  queued == (peers \ live) \ over
              IN  /\ DetachAndSend(over, "close", live, e)
                  /\ pending' = [s \in Sockets |->
                        IF s \in over THEN <<>>
                        ELSE IF s \in queued THEN Append(pending[s], e) ELSE pending[s]]
                  /\ bytes' = [s \in Sockets |->
                        IF s \in over THEN Retained(s)
                        ELSE IF s \in queued THEN bytes[s] + SizeOf[e] ELSE bytes[s]]
                  /\ total' = Budget(order, e)[Len(order)]
                  /\ caller' = [caller EXCEPT ![e] = CallerOf(over, live)]
        /\ UNCHANGED <<ready, inflight, opq, io, sessVars, wire, cut>>

\* close_room, or close_member for one subject: notify and close.
CloseRoom(r, subjects) ==
    /\ \E s \in InRoom(r) : SubjectOf[s] \in subjects
    /\ DetachAll({s \in InRoom(r) : SubjectOf[s] \in subjects}, "notify")
    /\ UNCHANGED <<ready, inflight, opq, io, sessVars, histVars>>

\* close_all: the relay's fence, or the shutdown of the service.
CloseAll ==
    /\ attached # {}
    /\ DetachAll(attached, "close")
    /\ UNCHANGED <<ready, inflight, opq, io, sessVars, histVars>>

\* The lease task of a live connection (maintain_connection_lease) closes it
\* beside its request.
LeaseClose(s) ==
    /\ stage[s] = "live"
    /\ DetachAll({s}, "notify")
    /\ UNCHANGED <<ready, inflight, opq, io, sessVars, histVars>>

-----------------------------------------------------------------------------
(* The request of a socket: ready frame, history frame, activation, then   *)
(* the receive loop, and one cleanup however it ends.                      *)

\* send, from run_socket_session: the ready frame, then the history frame.
Send(s) ==
    /\ stage[s] \in {"ready", "history"} /\ ~busy[s]
    /\ \/ /\ s \in attached
          /\ opq' = [opq EXCEPT ![s] = Append(@, Task("direct", 0))]
          /\ busy' = [busy EXCEPT ![s] = TRUE]
          /\ UNCHANGED stage
       \/ /\ s \notin attached
          /\ stage' = [stage EXCEPT ![s] = "cleanup"]
          /\ UNCHANGED <<opq, busy>>
    /\ UNCHANGED <<queueVars, io, sched, histVars>>

\* activate, up to the wait for the operation lock.
Activate(s) ==
    /\ stage[s] = "activate" /\ ~busy[s]
    /\ \/ /\ s \in attached
          /\ opq' = [opq EXCEPT ![s] = Append(@, Task("activate", 0))]
          /\ busy' = [busy EXCEPT ![s] = TRUE]
          /\ UNCHANGED stage
       \/ /\ s \notin attached
          /\ stage' = [stage EXCEPT ![s] = "cleanup"]
          /\ UNCHANGED <<opq, busy>>
    /\ UNCHANGED <<queueVars, io, sched, histVars>>

\* The session ends outside the manager: a storage error, a disconnect, a
\* lost room, a cancellation.
EndSession(s) ==
    /\ stage[s] \in {"ready", "history", "activate", "live"} /\ ~busy[s]
    /\ stage' = [stage EXCEPT ![s] = "cleanup"]
    /\ UNCHANGED <<queueVars, lockVars, busy, histVars>>

\* cleanup of room_websocket (and the close with which activate reports a
\* failure): the request closes its socket unless somebody else has.
Cleanup(s) ==
    /\ stage[s] = "cleanup"
    /\ stage' = [stage EXCEPT ![s] = "done"]
    /\ DetachAll({s}, "close")
    /\ UNCHANGED <<ready, inflight, opq, io, busy, histVars>>

-----------------------------------------------------------------------------
(* The operation lock and the writes made under it.                        *)

Holder(s) == Head(opq[s])
Leave(s) == opq' = [opq EXCEPT ![s] = Tail(@)]

\* A send whose broadcaster was cancelled: asyncio.gather cancels what it
\* gathered.
Cancelled(t) == t.kind = "send" /\ caller[t.event] = "cancelled"

\* The event loop runs a created task up to its wait for the lock.
Start(s) ==
    /\ \E t \in sched[s] :
          /\ ~Cancelled(t)
          /\ opq' = [opq EXCEPT ![s] = Append(@, t)]
          /\ sched' = [sched EXCEPT ![s] = @ \ {t}]
    /\ UNCHANGED <<queueVars, io, sessVars, histVars>>

Granted(s, kinds) == io[s] = "none" /\ opq[s] # <<>> /\ Holder(s).kind \in kinds

\* mutant: the socket is not looked up again once the lock is held
AttachedWhenCalled(s) == TRUE

StillAttached(s) == s \in attached

\* _send_with_lock has the lock: it gives up if the socket was detached while
\* it waited.
GrantSend(s) ==
    /\ Granted(s, {"send", "direct"}) /\ ~Cancelled(Holder(s))
    /\ \/ /\ StillAttached(s)
          /\ io' = [io EXCEPT ![s] = "send"]
          /\ UNCHANGED <<opq, sessVars>>
       \/ /\ ~StillAttached(s)
          /\ Leave(s)
          /\ IF Holder(s).kind = "direct"
               THEN /\ stage' = [stage EXCEPT ![s] = "cleanup"]
                    /\ busy' = [busy EXCEPT ![s] = FALSE]
               ELSE UNCHANGED sessVars
          /\ UNCHANGED io
    /\ UNCHANGED <<queueVars, sched, histVars>>

\* mutant: the queue is drained from its tail
TakeNewest(q) == <<q[Len(q)], SubSeq(q, 1, Len(q) - 1)>>

\* pending.popleft(): the event to write and the queue that remains.
PopLeft(q) == <<Head(q), Tail(q)>>

\* mutant: activation does not look for events that came while it wrote
DrainedOnce(s) == pending[s] = <<>> \/ \E i \in 1..Len(wire[s]) : wire[s][i].kind = "queued"

\* The test under the manager lock that lets activation go live.
Drained(s) == pending[s] = <<>>

\* One turn of the loop of _activate.
GrantActivate(s) ==
    /\ Granted(s, {"activate"})
    /\ \/ /\ ~StillAttached(s)
          /\ Leave(s)
          /\ stage' = [stage EXCEPT ![s] = "cleanup"]
          /\ busy' = [busy EXCEPT ![s] = FALSE]
          /\ UNCHANGED <<ready, pending, inflight, io>>
       \/ /\ StillAttached(s) /\ Drained(s)
          /\ Leave(s)
          /\ ready' = [ready EXCEPT ![s] = TRUE]
          /\ stage' = [stage EXCEPT ![s] = "live"]
          /\ busy' = [busy EXCEPT ![s] = FALSE]
          /\ UNCHANGED <<pending, inflight, io>>
       \/ /\ StillAttached(s) /\ ~Drained(s)
          /\ inflight' = [inflight EXCEPT ![s] = PopLeft(pending[s])[1]]
          /\ pending' = [pending EXCEPT ![s] = PopLeft(pending[s])[2]]
          /\ io' = [io EXCEPT ![s] = "send"]
          /\ UNCHANGED <<ready, opq, sessVars>>
    /\ UNCHANGED <<attached, bytes, total, sched, histVars>>

\* _close_with_lock and _notify_and_close have the lock.
GrantClose(s) ==
    /\ Granted(s, {"close", "notify"})
    /\ io' = [io EXCEPT ![s] = IF Holder(s).kind = "notify" THEN "send" ELSE "close"]
    /\ UNCHANGED <<queueVars, opq, sched, sessVars, histVars>>

\* What the holder of the lock is writing.
Frame(s) ==
    CASE Holder(s).kind = "send"     -> [kind |-> "live", event |-> Holder(s).event]
      [] Holder(s).kind = "direct"   -> [kind |-> stage[s], event |-> 0]
      [] Holder(s).kind = "activate" -> [kind |-> "queued", event |-> inflight[s]]
      [] Holder(s).kind = "notify"   -> [kind |-> "notice", event |-> 0]

\* A write that raised or timed out may have reached the client or not.
Wrote(s, reached) ==
    /\ wire' = IF reached THEN [wire EXCEPT ![s] = Append(@, Frame(s))] ELSE wire
    /\ UNCHANGED <<nextEvent, aimed>>

Writing(s, kinds) == io[s] = "send" /\ Holder(s).kind \in kinds

\* The write of a broadcast ends; a failed one closes the socket.
SendEnds(s, ok, reached) ==
    /\ Writing(s, {"send"}) /\ (ok => reached)
    /\ Wrote(s, reached)
    /\ Leave(s) /\ io' = [io EXCEPT ![s] = "none"]
    /\ DetachAll(IF ok THEN {} ELSE {s}, "close")
    /\ UNCHANGED <<ready, inflight, sessVars, callVars>>

\* The write of an initial frame ends, with the request waiting for it.
DirectEnds(s, ok, reached) ==
    /\ Writing(s, {"direct"}) /\ (ok => reached)
    /\ Wrote(s, reached)
    /\ Leave(s) /\ io' = [io EXCEPT ![s] = "none"]
    /\ DetachAll(IF ok THEN {} ELSE {s}, "close")
    /\ busy' = [busy EXCEPT ![s] = FALSE]
    /\ stage' = [stage EXCEPT ![s] = IF ~ok THEN "cleanup"
                                     ELSE IF @ = "ready" THEN "history" ELSE "activate"]
    /\ UNCHANGED <<ready, inflight, callVars>>

\* mutant: only a write that succeeded gives its bytes back
RefundOnSuccess(s, ok) ==
    /\ inflight' = [inflight EXCEPT ![s] = 0]
    /\ bytes' = [bytes EXCEPT ![s] = @ - (IF ok THEN Charge(inflight[s]) ELSE 0)]
    /\ total' = total - (IF ok THEN Charge(inflight[s]) ELSE 0)

\* The finally block of _activate.
Refund(s, ok) ==
    /\ inflight' = [inflight EXCEPT ![s] = 0]
    /\ bytes' = [bytes EXCEPT ![s] = @ - Charge(inflight[s])]
    /\ total' = total - Charge(inflight[s])

\* activation wrote one queued event and takes its loop's next turn, or
\* fails.
FlushEnds(s, ok, reached) ==
    /\ Writing(s, {"activate"}) /\ (ok => reached)
    /\ Wrote(s, reached)
    /\ Refund(s, ok)
    /\ io' = [io EXCEPT ![s] = "none"]
    /\ \/ ok /\ UNCHANGED <<opq, sessVars>>
       \/ /\ ~ok /\ Leave(s)
          /\ stage' = [stage EXCEPT ![s] = "cleanup"]
          /\ busy' = [busy EXCEPT ![s] = FALSE]
    /\ UNCHANGED <<attached, ready, pending, sched, callVars>>

\* The final notice of _notify_and_close; its close follows either way.
NoticeEnds(s, reached) ==
    /\ Writing(s, {"notify"})
    /\ Wrote(s, reached)
    /\ io' = [io EXCEPT ![s] = "close"]
    /\ UNCHANGED <<queueVars, opq, sched, sessVars, callVars>>

\* websocket.close returned, failed or timed out.
CloseEnds(s) ==
    /\ io[s] = "close"
    /\ wire' = [wire EXCEPT ![s] = Append(@, [kind |-> "close", event |-> 0])]
    /\ Leave(s) /\ io' = [io EXCEPT ![s] = "none"]
    /\ UNCHANGED <<queueVars, sched, sessVars, nextEvent, aimed, callVars>>

IsOwn(t) == t.kind \in {"direct", "activate"}

\* The request is thrown out of the manager call it waits in, whether it
\* waits for the lock or for the write.
Withdraw(s, reached) ==
    LET holding == IsOwn(Holder(s))
        writing == holding /\ io[s] = "send"
    IN  /\ busy[s] /\ (reached => writing)
        /\ Wrote(s, reached)
        /\ \E i \in 1..Len(opq[s]) :
              /\ IsOwn(opq[s][i])
              /\ opq' = [opq EXCEPT ![s] = RemoveAt(@, i)]
        /\ io' = [io EXCEPT ![s] = IF holding THEN "none" ELSE @]
        /\ Refund(s, FALSE)
        /\ stage' = [stage EXCEPT ![s] = "cleanup"]
        /\ busy' = [busy EXCEPT ![s] = FALSE]
        /\ UNCHANGED <<attached, ready, pending, sched, callVars>>

\* mutant: activation has no deadline
NoDeadline(s, reached) == FALSE

\* The single deadline of activate.
Deadline(s, reached) == stage[s] = "activate" /\ Withdraw(s, reached)

\* The server cancels the request inside send or activate.
Cancel(s, reached) == Withdraw(s, reached)

\* The task that broadcast e is cancelled (a typing timer by the cleanup of its
\* session, a request by the server) while it waits, unshielded, for sends.
CancelCaller(e) ==
    /\ caller[e] = "waits"
    /\ Cardinality({d \in Events : caller[d] = "cancelled"}) < MaxCancels
    /\ \E s \in Sockets : Task("send", e) \in sched[s] \cup ToSet(opq[s])
    /\ caller' = [caller EXCEPT ![e] = "cancelled"]
    /\ UNCHANGED <<queueVars, lockVars, sessVars, nextEvent, wire, aimed, cut>>

\* A cancelled send ends: before it ran, waiting for the lock, or within its
\* write, which may have reached the client.  CancelledError is no Exception,
\* so the socket stays attached.
SendCancelled(s, reached) ==
    /\ \/ \E t \in sched[s] :
             /\ Cancelled(t) /\ ~reached
             /\ sched' = [sched EXCEPT ![s] = @ \ {t}]
             /\ cut' = [cut EXCEPT ![s] = @ \cup {t.event}]
             /\ UNCHANGED <<opq, io>>
       \/ \E i \in 1..Len(opq[s]) :
             /\ Cancelled(opq[s][i]) /\ (reached => i = 1 /\ io[s] = "send")
             /\ opq' = [opq EXCEPT ![s] = RemoveAt(@, i)]
             /\ io' = [io EXCEPT ![s] = IF i = 1 THEN "none" ELSE @]
             /\ cut' = [cut EXCEPT ![s] = @ \cup {opq[s][i].event}]
             /\ UNCHANGED sched
    /\ Wrote(s, reached)
    /\ UNCHANGED <<queueVars, sessVars, caller>>

Next ==
    \/ \E s \in Sockets :
          \/ Register(s) \/ Send(s) \/ Activate(s) \/ EndSession(s) \/ Cleanup(s)
          \/ Start(s) \/ GrantSend(s) \/ GrantActivate(s) \/ GrantClose(s)
          \/ CloseEnds(s) \/ LeaseClose(s)
          \/ \E reached \in BOOLEAN :
                \/ NoticeEnds(s, reached)
                \/ Deadline(s, reached)
                \/ Cancel(s, reached)
                \/ SendCancelled(s, reached)
                \/ \E ok \in BOOLEAN :
                      \/ SendEnds(s, ok, reached)
                      \/ DirectEnds(s, ok, reached)
                      \/ FlushEnds(s, ok, reached)
    \/ \E r \in {RoomOf[s] : s \in Sockets} :
          \/ \E skip \in SUBSET InRoom(r) : Broadcast(r, skip)
          \/ \E who \in {{SubjectOf[s] : s \in Sockets}} \cup {{SubjectOf[s]} : s \in Sockets} :
                CloseRoom(r, who)
    \/ \E e \in Events : CancelCaller(e)
    \/ CloseAll

Spec == Init /\ [][Next]_vars

\* A created task runs, a free lock is granted, and every write but the ones
\* of _activate has a timeout of its own; those end by the deadline.
Fairness ==
    \A s \in Sockets :
       /\ WF_vars(Start(s)) /\ WF_vars(GrantSend(s) \/ GrantActivate(s) \/ GrantClose(s))
       /\ WF_vars(CloseEnds(s) \/ \E reached, ok \in BOOLEAN :
                     SendEnds(s, ok, reached) \/ DirectEnds(s, ok, reached)
                        \/ NoticeEnds(s, reached))
       /\ WF_vars(\E reached \in BOOLEAN : SendCancelled(s, reached))
       /\ WF_vars(\E reached \in BOOLEAN : Deadline(s, reached))
       /\ WF_vars(Send(s) \/ Activate(s)) /\ WF_vars(Cleanup(s))

FairSpec == Spec /\ Fairness

-----------------------------------------------------------------------------
(* Properties.                                                             *)

QueueBytes(q) == FoldSeq(LAMBDA e, sum : SizeOf[e] + sum, 0, q)

\* The budget is exact: whatever order broadcasts, activations, failures,
\* cancellations and detachments come in, _pending_bytes is the size of the
\* payloads really retained, queued ones and ones still being written, so no
\* byte leaks and none is refunded twice.
BudgetExact ==
    /\ \A s \in Sockets : bytes[s] = QueueBytes(pending[s]) + Charge(inflight[s])
    /\ total = MapThenSumSet(LAMBDA s : bytes[s], Sockets)

\* The limits of the handshake queues hold: retained events, bytes and total
\* bytes, counting the payload an activation is writing and the ones of
\* detached sockets.
LimitsHold ==
    /\ total <= MaxTotalBytes
    /\ \A s \in Sockets :
          /\ bytes[s] <= MaxPendingBytes
          /\ Len(pending[s]) + (IF inflight[s] # 0 THEN 1 ELSE 0) <= MaxPendingEvents

Rank == [k \in FrameKinds |->
            CASE k = "ready" -> 1 [] k = "history" -> 2 [] k = "queued" -> 3
              [] k = "live" -> 4 [] k = "notice" -> 5 [] k = "close" -> 6]


\* A client sees ready, then history, then the events queued during its
\* handshake, each of them and in the order they were broadcast, and only then
\* live events.
HandshakeOrder ==
    \A s \in Sockets :
       /\ \A i, j \in 1..Len(wire[s]) :
             i < j => Rank[wire[s][i].kind] <= Rank[wire[s][j].kind]
       /\ \A i \in 1..Len(wire[s]) :
             wire[s][i].kind \in {"queued", "live"} =>
                i > 2 /\ wire[s][1].kind = "ready" /\ wire[s][2].kind = "history"
       /\ \A i \in 1..Len(wire[s]) :
             wire[s][i].kind = "queued" =>
                i - 2 \in DOMAIN aimed[s] /\ wire[s][i].event = aimed[s][i - 2]

\* The frames that carry a broadcast, and the broadcasts they carry.
Delivered(s) == {i \in 1..Len(wire[s]) : wire[s][i].kind \in {"queued", "live"}}
Sent(s) == {wire[s][i].event : i \in Delivered(s)}

\* The broadcasts a task has still to write.
Waiting(s) == {t.event : t \in {u \in sched[s] \cup ToSet(opq[s]) : u.kind = "send"}}

\* Until its request gives a socket up no broadcast that selected it is doubled,
\* and none is lost but by the cancellation of its broadcaster: each other one
\* is on the wire, queued, being written, or the work of a task that still has
\* to run.  That cancellation takes no event from a handshake queue, and going
\* live leaves none behind there.
NothingDropped ==
    \A s \in {u \in attached : stage[u] # "cleanup"} :
       /\ \A i, j \in Delivered(s) : wire[s][i].event = wire[s][j].event => i = j
       /\ Sent(s) \cap Waiting(s) = {}
       /\ ToSet(aimed[s]) = Sent(s) \cup Waiting(s) \cup ToSet(pending[s])
                              \cup ({inflight[s]} \ {0}) \cup cut[s]
       /\ ~ready[s] => cut[s] = {}
       /\ ready[s] => pending[s] = <<>> /\ inflight[s] = 0

\* One owner closes each socket, once, and nothing is written after it: not
\* the send that waited for the lock, not a second notice.
CloseIsLast ==
    \A s \in Sockets : \A i \in 1..Len(wire[s]) :
       wire[s][i].kind = "close" => i = Len(wire[s])

IsClosed(s) == \E i \in 1..Len(wire[s]) : wire[s][i].kind = "close"

\* A socket the manager has detached, by whichever of its closers, gets its
\* physical close, although its request may be cancelled at any point.
DetachedIsClosed ==
    \A s \in Sockets :
       (s \notin attached /\ stage[s] \notin {"new", "refused"}) ~> IsClosed(s)

\* A registered socket becomes live or is given up: no write that hangs and
\* no stream of broadcasts keeps its handshake open.
HandshakeSettles ==
    \A s \in Sockets : (stage[s] = "activate") ~> (stage[s] \in {"live", "done"})
=============================================================================
