# Samsarix chat engine: a TLA+ verification project

This directory holds TLA+ models of the Samsarix chat engine, the TLC
configurations that check them on small instances, and theorems about them that
TLAPS proves for every instance. `PROJECT.json` lists the components, the runs,
the lines of source each definition stands for, the hazards the properties are
aimed at, and the findings.

Run a check with `tlc -workers 2 -config RelayFaults.cfg MCRealtimeRelay`, a
proof with `tlapm RealtimeRelayProofs.tla`.

## 1. The system

The engine is a Python service (`samsarix_chat_engine/`) with a TypeScript
client (`clients/typescript/`). It stores rooms and messages in SQLite (one
process) or PostgreSQL (several replicas) and fans events out to WebSockets.

| Component | State | Operations | Interacts through |
| --- | --- | --- | --- |
| Event log (`postgres.py`) | `samsarix_realtime_events`, retention floor | append, prune, read, acknowledge | transactions, one advisory lock for sequences, one for retention |
| Instance cursors (`postgres.py`) | one row per instance id: generation, last sequence, lease | claim, renew, release, resynchronize | row locks, database clock |
| Relay (`postgres_realtime.py`) | cursor, generation, fence and recovery flags, admission epoch | initialize, run, fence, dispatch | the log and the connection manager |
| Runtime (`postgres_runtime.py`) | relay and maintenance tasks | open, close, admit and release a connection, maintain | relay, leases, manager |
| Connection manager (`websocket_manager.py`) | sockets by room, handshake queues, shared byte budget, one operation lock per socket | register, activate, send, broadcast, close one, a member, a room, all | asyncio locks and tasks |
| Socket session (`app.py`) | registered, initialized, background tasks | handshake, receive loop, cleanup | manager, store, runtime |
| Leases, presence, typing (`postgres_connections.py`, `postgres_typing.py`) | one row per admitted socket, typing rows | acquire, renew, release, reap, start, stop | capacity advisory lock, `SKIP LOCKED` sweeps, events |
| Rate limits (`postgres_rate_limits.py`, `app.py`) | counters per scope, key and window | consume, prune | row updates, one advisory lock |
| Webhooks (`webhooks.py`, `webhook_transport.py`) | outbox rows with attempts, due time, lease | claim, deliver, record, retry | store, one worker thread |
| Store (`store.py`, `postgres_store.py`) | rooms, messages, reactions, pins, read state, moderation, audit, outbox | the mutations of the HTTP API | one transaction per mutation, with its event |
| Client (`room-session.ts`, `room-timeline.ts`) | attempt generation, timers, timeline | connect, close, receive, retry | WebSocket callbacks, timers |

What is hard in it:

* *Ordering.* Sequences are allocated and committed in different orders unless a
  lock prevents it; the relay, the handshake queue and the operation lock must
  each keep an order the client can rely on.
* *Failure.* Every database call can commit and lose its answer; leases expire by
  the database's clock whatever the process believes; processes die and come
  back under the same instance id.
* *Interleaving.* Admission takes four awaits, and the relay can fence, recover
  or dispatch a revocation between any two of them. A socket has up to five
  closers at once.
* *Bounds.* Queues, budgets and caps are checked while the things they count move.

What makes each part correct: the relay never leaves a gap, a duplicate or a
reordering in a socket that lives on, and gives up sockets it cannot serve; a
revoked member loses access as soon as its relay reaches the revocation; the
manager delivers ready, history, queued and live events in that order, keeps its
budget exact, and closes each socket exactly once; leases enforce the caps and
pair every join with one leave; rate limits admit no more than their count;
webhooks are delivered at least once and never after cancellation; the client
reports a synchronized timeline only after a complete handshake.

## 2. Modules

### RealtimeRelay

Models `postgres.py` (log and cursors), `postgres_realtime.py` and
`PostgresRuntime.open`, `close`, `admit_connection`, for one room.

* A transaction that changes something and appends its event is `AppendBegin`
  followed by `AppendCommit` or `AppendAbort`; the advisory lock is
  `SequenceLockFree`. `read_events` is two steps, `ReadCheck` (row lock, floor,
  lag) and `ReadSelect` (the batch), because each of its statements has a
  snapshot of its own; `prune_events` is `PruneBegin` and `PruneCommit`.
* `Start`, `Claim`, `Resync`, `FenceAgain`, `FenceClose`, `Dispatch`,
  `DispatchError`, `Ack`, `LeaseLost` and `DatabaseError` are the steps and the
  except branches of the relay loop; `Raise` is what every branch does.
* `Admit`, `Acquire`, `Register` and `Recheck` are the four parts of admitting a
  socket: token and first checks, the committed reservation with its join event,
  registration under the guard, and the checks after it.
* A generation is a number that is never reused. Leases have no clock: one may
  expire at any moment (`ExpireLease`), which covers every drift between the
  process's clock and the database's. A database call commits and answers,
  commits and loses its answer, or does nothing and fails.
* Faults (expiry of a lease its owner would renew, lost answers, failed calls,
  age lag, failing `close_all` and dispatch, process ends) are counted by
  `faults` and bounded by `MaxFaults`; a lease nobody can renew expires freely.
* Left out: payloads, event types that act like a message, the
  `origin_connection_id` exclusion, and rows a sweep skips because another
  transaction scrubs them.

History variables: `committed`, `pos` (the sequence a relay has brought its
sockets to), `snap` (what a socket's history read contained) and `got` (what the
relay dispatched to it).

### ConnectionManager

Models `websocket_manager.py` and the path of `room_websocket` and
`run_socket_session` through it.

* No code suspends while it holds the manager's lock, so each section under it is
  a step. The operation lock of a socket is `opq[s]`, its holder first, its
  waiters in the order they came, as `asyncio.Lock` grants it. Tasks made by
  `gather` or by `_finish_connection_cleanup` wait in `sched` until `Start`; the
  model lets them start in any order, which covers the extra turn of the event
  loop that a broadcast with an overflow takes.
* `GrantSend`, `GrantActivate` and `GrantClose` are what the holder does first,
  `SendEnds`, `DirectEnds`, `FlushEnds`, `NoticeEnds` and `CloseEnds` the end of
  its write. A write that fails or times out may have reached the client.
* `Deadline` is the single timeout of `activate`, `Cancel` a cancelled request;
  both take the request out of the lock's queue or out of its write.
* A broadcast with no socket to close awaits its sends unshielded
  (`websocket_manager.py:284-288`), so cancelling the task that called it cancels
  them; `caller` records which broadcasts are exposed (`CallerOf`). In the code it is
  the typing timer of a session in SQLite mode (`app.py:1796-1811`) that the cleanup
  of that session cancels (`app.py:1580-1585`). `CancelCaller` is the cancellation,
  `SendCancelled` what it does to one send: one that has not run never does, one that
  waits leaves the lock's queue, one that writes stops, after the client saw it or
  before. `CancelledError` is no `Exception`, so the socket stays attached and the
  event is lost to it (`cut`). A send whose write ended before the cancellation
  reached it ends as usual. A broadcast that overflows a queue shields all it does.
* Closers are `Cleanup`, `SendEnds` (a failed write), `Broadcast` (overflow),
  `CloseRoom`, `CloseAll` and `LeaseClose`. The close with which `activate`
  reports a failure and the one of the request's cleanup follow each other in one
  task and are one step.
* `skip` in `Broadcast` stands for the peers that the admission sequence, the
  permission or the exclusions leave out. An event that cannot be encoded behaves
  like one that overflows every queue.
* Left out: replies to client commands, which use `send` like the initial frames;
  the error frame of a refused or rechecked admission; cancellation of
  `close_room`, `close_member` and `close_all`, whose callers are not cancelled.

History variables: `wire` (what was written to a socket), `aimed` (the broadcasts
that selected it) and `cut` (the sends to it that were cancelled).

### ConnectionLeases

Models `postgres_connections.py`, `postgres_typing.py`, `release_connection`,
`set_typing` and the lease and typing maintenance of `postgres_runtime.py`, for
several rooms and processes.

* `try_acquire` is `AcquireBegin` (process and room locked, stale rows swept),
  `AcquireCount` or `AcquireFull` (the caps) and `AcquireEnd` (insertion, join);
  `release` is `ReleaseBegin` (the statement that reads the row) and `ReleaseEnd`;
  typing `start` is `StartBegin` (the lease row locked) and `StartEnd`. `Reap` and
  the typing transitions that need one statement are one step.
* Locks are predicates on the running transactions: `CapLockFree` (the advisory
  lock of the caps), `SequenceFree` (the one of the log), `RowLocked`,
  `RoomShared`.
* A lease runs out at any moment; of a session that renews it that is a fault.
  `renew` is `RenewBegin` (its `UPDATE` finds the lease live and locks the row) and
  `RenewEnd` or `RenewFails`, and the heartbeat of a process is `HeartbeatBegin` and
  `HeartbeatEnd` or `HeartbeatFails`. In between the lease or the claim may run out,
  sweeps skip the locked row and counts take it for dead; the commit makes it live
  again. A renewal that begins and commits before the expiry changes nothing and is
  covered by the expiry not happening.
* `Reclaim` gives a process a new generation (`NewGeneration`), after its own fence or
  as a new process whose predecessor releases nothing. `Resynchronize` is the recovery
  of a process that lagged; `ResynchronizeAgain` is its retry after a lost answer,
  which finds its own generation there and makes the claim live again. Whatever writes
  the row of a process waits for the admissions that share its lock (`InstShared`).
* A connection id is admitted once, as in the code, which makes a fresh one for
  every socket. The sweep is atomic, so the window between its snapshot and its row
  locks is not explored; the number of active connections that presence events
  carry is left out.

History variables: `joins`, `leaves` and `shown` (what the committed events told
the room), and `missed` (per room, the leases its admissions took for dead when they
counted). `CapsHold` bounds the live leases that no admission missed: a count never
overlooks a lease that was live when it looked, and a cap is exceeded only by leases
that were dead then and came back, by a late renewal, a late heartbeat, a repeated
recovery or the reopening of their room.

### WebhookOutbox

Models the outbox of `store.py` and `postgres_store.py`, the dispatcher of
`webhooks.py` and the transport thread of `webhook_transport.py`, for one room.
`Leased` selects the backend.

* A mutation of the store is one of `Changes`, which say what it does to messages,
  to the room and to the outbox: creation, edits and reactions, deletion,
  retention, moderation and room deletion. In SQLite it is one step (`Mutate`). In
  PostgreSQL it is `Begin` (the pending rows are scrubbed), `Continue` (the terminal
  ones, and the choice of what to prune) and `Commit` (pruning, capacity,
  insertion): between them outcomes, claims and replays commit.
* A dispatcher claims (`Claim`), gets an answer or hits its deadline (`Answer`,
  `Timeout`), and records (`Record`, `RecordFails`). The thread may outlive its
  attempt (`ThreadReturns`); until it returns, the dispatcher's attempts fail.
* `Retry` is the operator's replay, `Stop` and `Restart` the end and the start of a
  process, `BecomeDue` and `ExpireLease` the passage of time.
* `IdOf` is the worker id a process writes into its leases, its instance id. A
  process whose instance lease ran out while it was paused is replaced by another one
  with the same id, and its dispatcher goes on when it wakes up; nothing fences it as
  the relay is fenced. `SharedIds` makes two of three processes such a pair.
* Left out: the length of retry delays, resolution and validation of the target,
  signatures, request bytes, and the archived state of a room.

History variables: `holder` (the process that was the last to claim a row) and
`overtaken` (the rows on which a process recorded that was not the holder, until they
are replayed). `ClaimsAreFresh` has two parts. `OnlySharersRecord`: who may record on a
row has the worker id of its holder, so with ids of their own nobody overtakes.
`HolderCounts`: the holder itself knows the row's count. `HolderCounts`,
`FailsOnlyWhenExhausted` and the bound on attempts in `TypeOK` except the rows of
`overtaken`.

### ChatRows, ChatStore and RoomStore

`ChatRows` is the data: what a database holds and, for each of the twelve mutating
operations, what it is refused for (`RoomAllows`, `RowAllows`), whether it changes
anything (`Changes`), which messages it removes (`Victims`) and what it writes
(`Effect`). Content, metadata, attachments and mentions are one text, time is the
order of the messages, a mute or a ban is in force until `Lapse`.

`ChatStore` is the abstract specification, the promise of the `ChatStorage`
protocol: each accepted request takes effect in one step, on the database of that
moment. `MarkRead` alone is weaker, because `mark_read` of PostgreSQL reads its
message without locking it: the cursor may move to a message that is gone.

`RoomStore` is how the backends do it, with the handlers and one watching client.

* `Begin` is the handler that asks for the member's moderation (`MemberAccess`) and
  enters the store, `Abort` a failure before the commit.
* SQLite: `CommitLocal` is the transaction of `_write_lock` and `to_thread`, `Resume`
  the handler that lets the lock go and broadcasts before anything else can run.
  A message command of a typing socket announces `typing.stopped` first and is
  suspended there (`SuspendsFirst`, `Tell`).
* PostgreSQL: `Stages` lists, for each operation, the statements that lock something
  or read events, in the order of the code: the room row, the capacity lock of
  messages, the message or its parent, the rows of a `DELETE` and the replies whose
  parent it clears, the scrub of retained events, the audit and webhook locks.
  `LockRow` and `Statement` run them, `Stops` are the checks behind them, `Commit`
  writes and appends the event. The sequence lock of the log is taken last and is
  part of `Commit`.
* `Told` is what `RoomTimeline.apply` shows after an event, `Reload` a new socket's
  history.
* Left out: queries, search, export, what audit rows say, and time stamps other than
  their order. Several events of one request are one event.

History variables: `log` (events that still hold a body), `view` and `live` (the
client), `typed` (messages of typing sockets).

### RoomSession

Models `room-session.ts` and the status of `room-timeline.ts`.

* JavaScript runs one callback at a time, but the session notifies listeners in the
  middle of its functions. `self.stack` holds the rest of the functions that are
  being interrupted: every notification pushes a `listen` frame on which a listener
  may call `connect()` or `close()` any number of times, and `Continue` takes up
  what is below. Methods are functions of the session object (`Connect`, `Close`,
  `FailAttempt`, `Handle`, ...), each up to its first notification.
* `CredentialSettles`, `SocketReceives`, `SocketFails` and the three timers are the
  callbacks. Timers carry the generation they were started in; one whose handle was
  overwritten can no longer be cancelled, as in JavaScript.
* The server may send any event at any time or nothing. `send` outside the
  handshake is one more cause of `SocketFails`.
* Left out: which messages the timeline holds, delays and jitter, and several
  listeners as such (one that calls several times stands for them).

### RateLimits

Models `postgres_rate_limits.py` with the pruning of `run_maintenance_once`. A
bucket is `<<key, window>>`; the clock is the number of the current window and may
advance between any two statements. `consume` is `DatabaseWindow`,
`IncrementExisting` (with `Unblocked` after a wait for the row), `ReadExisting`,
and in the second transaction `CapLock`, `DeleteExpired` and `InsertBucket`; `Abort`
ends any of them, before or after the commit. The history variable `spent` counts
the allowances that were committed.

## 3. Runs

Deadlock is not checked: every instance bounds its events, sockets and faults and
comes to rest when they are used up.

| Run | Instance | Checks |
| --- | --- | --- |
| `relay_faults` | 2 processes with one instance id, 1 socket, 2 sequences, 2 faults | types, `SingleOwner`, `NoGapWhileOwned`, `InOrderOnce`, `FencedServesNobody`, `AdvanceOnlyAfterDispatch` |
| `relay_live` | 1 process, 1 socket, 2 sequences, 2 faults: message, archive, reopen, ban; fairness | `RevokedOnlyWhileBehind`, `NoStaleRevocation`, `DeliveredOrClosed`, `RelayRecovers` |
| `relay_gap` | 1 fault | `NoSilentGap` is violated (see Findings) |
| `manager_socket` | 1 socket, 4 broadcasts, queue of 2 events, 1 cancelled broadcaster (`MaxCancels`), fairness | `HandshakeOrder`, `NothingDropped`, `CloseIsLast`, `DetachedIsClosed`, `HandshakeSettles` |
| `manager_budget` | 2 sockets, a budget of 3 bytes, broadcasts of 1 and 2, no cancelled broadcaster | `BudgetExact`, `LimitsHold` |
| `leases` | 2 connections in one room or in two, 2 processes, one place in all, 1 fault, 1 input (a reopening, a typing command, a late renewal or heartbeat), fairness | types, `CapsHold`, `LeavesOnce`, `TypingStops`, `AbandonedIsReclaimed` |
| `outbox_sqlite` | 2 messages, 2 rows, 1 replay, 1 fault | types, `ErasedEverywhere`, `WithinCapacity`, `PromiseKept` |
| `outbox_postgres` | 3 processes, of which 2 share a worker id, 1 delivery, 1 replay, 1 fault, fairness | `ClaimsAreFresh`, `FailsOnlyWhenExhausted`, `PendingSettles` |
| `outbox_erasure_gap` | PostgreSQL, 1 replay | `ErasedEverywhere` is violated (see Findings) |
| `room_store` | both backends, 2 requests at a time out of 20, 2 rooms, 3 stored messages, the caps reached by one more | `Atomic` (refinement of `ChatStore`), `StoreSound`, `Converges`, `ErasedFromLog`, `NoWaitCycle` |
| `room_session` | 1 retry, 3 calls of the application or a listener, 2 losses of an activated connection, fairness | `ClosedIsQuiet`, `ConnectedIsSynchronized`, `RetriesBounded`, `ConnectSettles` |
| `rate_limits` | 2 requests at a time and maintenance, 2 keys, allowance 2, 2 buckets, 2 windows, 4 requests, 1 fault, fairness | `AllowanceExact`, `RequestsDecided` |

Why the bounds are enough for the cases in question.

* *Relay.* Two sequences with a lag limit of one give a backlog over the limit, a
  pruned event below and above a cursor, a batch interrupted in the middle and a
  replay. Two faults give a lost answer followed by a second failure of the retry.
  One socket is enough, because sockets do not influence the relay.
* *Manager.* A budget of three bytes against events of one and two makes one
  socket's detachment free the bytes another one needs within the same broadcast.
  One cancelled broadcaster meets every state of the lock; in `manager_budget` there
  is none, because a send it cancels no longer counts in the budget, which the proof
  of `BudgetExact` confirms for any number.
* *Leases.* The one place is wanted by connections of one room (the room's cap) and
  of two rooms (the total). A sweep limit of one leaves stale rows behind an
  admission. `MaxInputs` bounds reopenings, typing commands, renewals and heartbeats
  together: one is enough for a lease to come back behind an admission that counted it
  as dead, or for a release to overtake a typing command; each exception of the
  properties takes only one. The proofs have no such bound.
* *Outbox.* Two attempts tell a retry from exhaustion; an outbox of one or two rows
  is full after one or two mutations, so that pruning and refusal both happen. In
  `outbox_postgres` a lost lease or a replay is enough for one process to record over
  the claim of the other with its id, and for that one to do the same in return; the
  third process is told apart from both.
* *Store.* Every property relates two transactions that overlap, or one transaction
  and what it left to the next. The requests are chosen to meet: a replayed client
  message id, replies to a live, a deleted and a nested parent, an edit and a
  deletion of a message that a creation trims by age or by a cap, archiving,
  deletion and creation of the same room, a mute during a write.
* *Session.* Two calls inside one another, followed by a third, reach every
  re-entrance of the functions that notify; one retry makes the budget run out.
* *Rate limits.* With an allowance of two the first request inserts, the second
  increments and the third is refused; two keys in two windows want two buckets.

Symmetry is used where the values are interchangeable and no liveness is checked:
sockets of the manager, messages and processes of the outbox. In `room_store` it is
used for the processes; `Atomic` has no fairness and does not mention them.

Fairness. A relay loop keeps polling and its database calls end, because every
checked-out operation has a timeout; a transaction ends for the same reason; a lease
nobody renews expires. In the manager, created tasks run, a free lock is granted, a
cancelled task ends, and every write except the ones of `_activate` has a timeout of its
own. Those have none: `manager_socket` gives them no fairness and relies on the deadline
alone. In the outbox, dispatchers poll, attempts have a deadline, and a process that
ended is started again; a transport thread returns, because a resolver that never does
stops its dispatcher for good, which the code accepts. For leases, maintenance runs,
transactions, renewals and heartbeats end and time passes; no session has to end or to
release anything. In the session, callbacks run to their end and timers that are due get
their turn, strongly, because a busy socket may make their action unavailable again and
again without keeping the event loop from them. For rate limits, statements run, and the
capacity lock is granted in the order of the requests, which is why a request is
strongly fair against maintenance. Nothing assumes that a client answers, that a request
ends, or that anything is broadcast or sent.

## 4. Findings

`relay_gap`: `docs/MULTI_INSTANCE_ARCHITECTURE.md` says an instance behind the
retained window "must never pretend that an event gap was delivered".
`read_events` checks the retention floor and selects its batch in two statements.
When the lease expires between them, `prune_events` ignores the cursor and may
remove events the batch should have started with; the rest of the batch is
dispatched to live sockets. The acknowledgement then fails and fences, so the gap
is short-lived, but it was delivered. As long as the process still owns its claim
there is no gap: that is `NoGapWhileOwned`.

`outbox_erasure_gap`: `docs/WEBHOOKS.md` says that deleting a message cancels its
pending payloads and scrubs the terminal ones. In PostgreSQL mode these are two
statements. A row that an operator replays between them was terminal for the first
and is pending for the second, so it keeps the deleted content and can be
delivered. In SQLite (`outbox_sqlite`) the property holds.

The following do not have a run of their own; changing one constant or one guard of
an existing instance shows them.

* `OutboxPostgres` with `PromiseKept` and a second delivery (`MaxIds = 2`): rows to
  prune are chosen while they are terminal and deleted by id (`postgres_store.py:1801`),
  so a row replayed in between is pruned although it is pending.
* `OutboxSqlite` with `FailsOnlyWhenExhausted`: SQLite records an outcome on
  whatever row is pending (`store.py:2353`). A replay during the last attempt resets
  the count, and the outcome of the old attempt then fails the fresh row.
* `OutboxPostgres` with `overtaken = {}` as invariant:
  `docs/MULTI_INSTANCE_ARCHITECTURE.md:63` says "Only the current unexpired owner can
  acknowledge a claim", and `record_webhook_attempt` tells the owner by the worker id,
  which is the instance id (`postgres_runtime.py:84`). The dispatcher of a process that
  was displaced under its instance id, and lost its lease on a row to its replacement,
  passes the check and records on the replacement's claim (`postgres_store.py:1421`).
  The replacement's attempt is then not recorded, and the count behind the decision is
  an old one, so the delivery may be given up with attempts left or get more than
  `max_attempts`.
* `Leases` without `missed` in `RoomCapHolds`: `docs/MULTI_INSTANCE_ARCHITECTURE.md:58`
  says the leases "enforce deployment-wide and per-room caps". `renew` finds its lease
  live and commits later (`postgres_connections.py:230`); meanwhile the lease runs out,
  the sweep of another admission skips the locked row and its count takes it for
  expired. When the renewal commits, the room is over its cap. The claim of a process,
  whose heartbeat or repeated recovery revives all its leases, has the same window.
* `Leases` with all live leases in `TotalCapHolds`: leases of an archived room are not
  counted; when the room is opened again before they are reaped, they come on top of
  the cap of the deployment.
* `Leases` without `late = 0` in `TypingStops`: a release waits for the row that
  a `typing.start` of the same connection holds, but looked for the typing state
  before; the room is never told that the member stopped.
* `RoomSession` without `overrun` in `ClosedIsQuiet`: `failAttempt` publishes the stale
  timeline and goes on. When a timeline listener calls `close()` there, the session is
  closed, then schedules a retry and stays "reconnecting"; the timer finds the session
  closed and does nothing, and a `connect()` after that waits for ever. The client's
  `README.md:148` says "Listener-driven close/reconnect does not leave stale timers".
* `RoomStore` without `typed` in `Converges`: in SQLite mode a message command of a
  typing socket broadcasts `typing.stopped` between its commit and its own
  `message.created` (`app.py:2015`). An edit or deletion in between is broadcast
  first, and clients keep showing the message as it was created.
* `RateLimits`: when the window ends between `_database_window` and the `INSERT` of the
  second transaction, the `INSERT` meets the expired row of its own key and fails, or
  inserts a bucket that is expired already, although the comment above it says such
  a bucket is "never inserted" (`postgres_rate_limits.py:90`). Allowances stay exact.

## 5. Proofs

### RealtimeRelayProofs

For any number of processes, instance ids, sockets, event shapes, sequences and
faults, from `ConstantsAssumption` alone:

* `TypeCorrect`: `TypeOK` always holds;
* `AtMostOnceInOrder`: `InOrderOnce`, no socket gets an event twice or out of
  order;
* `FenceHolds`: `FencedServesNobody`;
* `OneOwner`: `SingleOwner`, processes that share an instance id never serve under
  one generation.

None of the safety properties is inductive. A socket may be at the end of what
its relay has dispatched while the durable cursor is still behind (the
acknowledgement was lost), so replay looks possible. The invariant `IInv` says why
it is not:

* `LogOrder`: what is retained was committed, nothing exceeds the allocated
  sequences, and the head is above every cursor;
* `Fencing`: a relay without a cursor, or one that has to recover, has a fence
  required or no sockets, and between a fence and the next claim none attaches;
* `Position`: unless the process owes an acknowledgement or a fence, `pos` is not
  beyond the durable cursor, and a batch in hand is increasing and beyond `pos`;
* `Delivery`: what a socket got is increasing and not beyond the `pos` of its
  relay; a socket that is not attached has nothing.

So a replay can only start after the sockets that saw the events are gone. Each
step of `Next` has a lemma that it preserves `IInv`; the steps that only change one
relay share `RelayLocal`, which reduces the invariant to that relay.

`SingleOwner` needs `GenUnique`: a generation that a process holds, or keeps for its
recovery, was handed out before, belongs to no other process, and a new claim takes
one that nobody has. The lemma `GenLocalKeeps` reduces it to what one process does
to its own two generations.

### RelayDeliveryProofs

On top of `IInv` and `GenUnique`, from the same assumption: `NoGap`
(`NoGapWhileOwned`), `RevocationReaches` (`RevokedOnlyWhileBehind`) and the two action
properties `CursorFollows` (`AdvanceOnlyAfterDispatch`) and `RevocationIsFresh`
(`NoStaleRevocation`).

A socket is admitted in a transaction of its own, by a claim its relay may lose at
any moment; prunes, recoveries and takeovers move the log and the row meanwhile. The
invariant `DInv` follows the sockets whose claim is still the live one (`Serves`):

* `OldClaim`: the claim a socket was admitted under is never a generation that is
  still to be handed out or that a recovery prepares, so once the row leaves it
  no step brings it back;
* `Caught`: a relay is never behind its durable cursor;
* `Unread`: an event beyond both the cursor and the admission is retained, and no
  open prune transaction has a bound that reaches it; this is what the order "bound
  first, delete later" of `prune_events` needs of admission, which starts at the
  newest event;
* `InHand`: a batch leaves out nothing such a socket still needs;
* `Sent` and `Behind`: what the relay passed reached the socket or was in its
  snapshot, and a revocation it has not passed is still to come.

Most steps of a relay only lose something: `RelayMove` says what such a step may do
to rows, positions and sockets, `MoveKeeps` proves once that it keeps `DInv`, and each
action is shown to be such a move. `SelectKeeps` and `DispatchKeeps` are the two steps
that read and send; `NewEvent` serves the two that extend the log.

### ConnectionManagerProofs

For any finite number of sockets, any number of rooms and events and any limits, from
`ConstantsAssumption`: `OrderSeen` (`HandshakeOrder`), `ClosedOnce` (`CloseIsLast`),
`NothingLost` (`NothingDropped`), `BudgetIsExact` (`BudgetExact`) and `LimitsAreKept`
(`LimitsHold`).

The first three hold whatever the byte counters do, so their invariant does not
mention those. They are about what was written; the reasons are in who may still
write. The invariant `Inv` speaks of each socket by itself:

* `OneCloser`: an attached socket has no closer and no final frame; a detached one
  has one closer, created, waiting or done;
* `LockHeld`: what the holder of the operation lock is doing, and that after a
  notice only its close is left;
* `OwnTasks`: the request has at most one call under way, the one of its stage;
* `LiveTasks`: senders of live events exist only once the socket is ready;
* `Handshake`: what the client has seen in each stage;
* `Flushing` and `Line`: the broadcasts that selected an initializing socket are the
  ones written, then the one being written, then the queue, in this order;
* `Seen`: the two properties themselves.

`NothingLost` adds `DeliveryInv`: event numbers rise (`Ascending`), an event has at most
one sender or frame (`Once`), a finished request left its socket detached (`Released`),
and for a live socket frames, senders and cancelled sends cover what selected it
(`LiveCover`). `CutInv` says that only a live socket loses a send, so a handshake loses
nothing. That live events can be lost is the code's behaviour and part of the statement:
its README promises delivery at most once and best effort. The step from `Line` to
`LiveCover` is `GoesLive`: activation looks at the empty queue under the manager's lock,
so nothing is left behind. Steps that write none of a socket's broadcasts share
`QuietKeeps`.

The budget is the invariant `Books`: each socket is charged for its queue and the
payload being written, and `total` is the sum. Both are folds, of which the provers
know nothing: `SumStep`, `SumChange` and `SumLess` say what taking a term out and
changing one or several terms does to a sum, `BytesAppend` and `BytesTake` what a
queue's size becomes. The library's induction theorems take an operator as a
parameter; these lemmas state induction over a finite set with a set instead, as the
choice of a smallest counterexample (`Minimal`, `Counting`). `BroadcastTotal` follows
the loop of `broadcast`: after each turn the shared budget is the sum of charges in
which the sockets already visited have their new ones. `TakeBooks` needs `Inv`: when
activation takes a payload from the queue, none is being written.

### WebhookOutboxProofs

For any number of processes, messages, deliveries, attempts, replays and faults, and
whichever processes share a worker id:

* `OutboxTypes`: `TypeOK`, in both modes; it includes that no row exceeds its attempts
  that only its holders recorded on;
* `ClaimsStayFresh`: `ClaimsAreFresh`, with leases (`Leased`);
* `NotGivenUpEarly`: `FailsOnlyWhenExhausted`, with leases.

A dispatcher decides with the count it read when it claimed, and records only under
its lease. `HolderCounts` carries the argument: a replay or an outcome ends the
lease, a new claim makes another dispatcher the holder, and everything else leaves the
count alone, so what the holder records is never computed from an older count.
`OnlySharersRecord` says who else can record: `Tied` relates a live lease to the process
that took it, so the owner check of the code lets pass just the processes with the
holder's id. In SQLite there is no lease and a replay may lower the count in the
middle of an attempt; `Counted` keeps what is left, that the row's count is at most
the one its holder read, and this bounds the attempts in both modes.

About the rows themselves, without any assumption on the workers:

* `ErasedInSqlite`: `ErasedEverywhere`, when the mutations of the room are one
  transaction each (`~Leased`);
* `PromiseInSqlite`: `PromiseKept`, in the same mode;
* `CapacityKept`: `WithinCapacity`, in both modes.

Claims, outcomes, replays and restarts change what a row says of its attempts, never
what it reports (`ServingKeeps`), so only the mutations matter. `ChangeFacts` says which
messages each of them takes away; both statements of its scrub name those, and a pending
row they delete is about a message that changes in the same step. In PostgreSQL a
terminal row may be replayed between the two statements, which keeps its body
(`outbox_erasure_gap`), or between the selection for pruning and the deletion, which
takes a row that is pending again; both theorems are therefore about SQLite. The
capacity holds anyway: a transaction counts the rows under the outbox lock, nobody else
inserts until it commits, and `Counts` keeps what it counted.

### RateLimitsProofs

For any number of tasks, keys, windows, buckets and database errors, from
`LimitsAssumption`: `RateLimitExact`, the three parts of `AllowanceExact`.

The difficulty is that `consume` computes its window, reads the row and commits in
different statements while the clock advances and other transactions delete what
has expired. The invariant `IInv` names what protects each of them:

* `Counted`: a row that is not expired counts exactly what was spent; only an
  expired bucket may have lost its row;
* `Incremented`: an increment that waits for its commit holds the lock of its row,
  which keeps the `DELETE` away even when the window ends meanwhile;
* `HoldsCap` and `Fresh`: the second transaction holds the capacity lock from its
  `DELETE` on, so nobody else deletes or inserts; the count of rows it read, and the
  absence of its own row, are still true when it commits;
* `Refused`: a refusal was read from a row that was not expired.

Steps that leave the counts alone share `QuietStep`, which reduces the invariant to
the task that moves; `ConsumeStep` shows that no two tasks commit to one count.

### ConnectionLeasesProofs

For any number of connections, rooms, processes, sweeps, reopenings, renewals and
faults, from `ConstantsAssumption` (which makes the set of connections finite):
`TypeCorrect`, `CapsKept` (`CapsHold`), `LeavesToldOnce` (`LeavesOnce`) and
`TypingStopsTold` (`TypingStops`). These are all the invariants of the run `leases`.

`try_acquire` counts in one statement and inserts in a later one, while leases
expire and are renewed late, processes lose and regain their claims, rooms are
archived and opened again and typing commands write. The invariant `IInv` says what
it may rely on meanwhile:

* `OneTx` and `Waits`: the capacity lock has one holder, whose session waits for it,
  and the room of an admission stays open;
* `Departs`: the rows a transaction is about to delete are still there, no
  typing.start holds them, and their typing states were seen; for a release this
  holds until a release overtakes a typing.start (`late`);
* `Caps`: the caps hold for all leases, live or not, that no admission has taken for
  dead (`HeldIn`, `Held`). Which leases are live changes at any moment and in both
  directions, which ones were counted does not: an admission that has counted still
  has its place (`HasPlace`), because no step but its own can add a lease, and what it
  did not count it has entered in `missed`;
* `Told`: joins and leaves balance for each connection.

`CapsShrink` is the argument about cardinalities that every step without an insertion
shares, among them each renewal, heartbeat and recovery (`RowsAlone`), `CommitStep` the
one for the four transactions that delete and insert.

### RoomSessionProofs

For any retry budget, any number of calls and losses and any depth of interrupted
functions, from `BoundsAssumption`: `ClosedStaysQuiet` (`ClosedIsQuiet`),
`ConnectedMeansSynchronized` (`ConnectedIsSynchronized`) and `RetriesStayBounded`
(`RetriesBounded`).

The properties speak of a session at rest; the invariant has to speak of every moment
in between, when functions are interrupted and listeners have called others. `Sound`
relates the object to what is still on its stack (`Has`, `On`) and to the credentials
awaited:

* `Aged`, `Opening`: attempts, frames, credentials and the socket belong to
  generations that have begun, and an attempt that awaits its credential has neither
  a socket nor events;
* `Timed`: a timer that runs is the generation's own and its handle can still clear
  it, so `detachAttempt` leaves none behind;
* `Resting`, `Closing`: a closed session has nothing left, and after `close()` it is
  closed or the rest of `close()` is on the stack;
* `Waiting`: the reconnect timer runs alone, and `attempts` has already been charged
  for the retry it will make;
* `Failing`: below the listeners of `failAttempt` nothing is under way, which is what
  a `close()` there destroys (`overrun`);
* `Activating`, `Connected`, `Reading`: the rest of an activation finds its attempt
  live, or a `close()` above it that makes it stale.

Each method has a lemma on the fields it changes (`StartShape`, `DetachShape`, ...) and
one that it keeps `Sound` (`OpenKeeps`, `FailKeeps`, `CloseRestKeeps`, ...). Frames
whose rest only notifies are inert (`InertKeeps`).

### RoomStoreProofs

For any number of concurrent requests, rooms, members and messages. The assumptions
are those of the modules: requests are well formed (`setRoomState` names room flags,
`moderate` controls, sockets only create messages), the databases the service may
start on are well formed, the processes are finitely many, and `None` is neither a
transaction nor an event.

* `StoreInvariance`: the invariant below;
* `StoreIsAtomic`: `Atomic`, both backends implement `ChatStore`;
* `IntegrityStays`: `Integrity` of the committed database;
* `StoreStaysSound`: `StoreSound`, which adds the two caps, when every initial
  database is within them. The hypothesis is needed: a limit that is lowered trims
  nothing before the next message;
* `ErasedStaysErased`: `ErasedFromLog`;
* `ClientsConverge`: `Converges`;
* `NobodyWaitsInACircle`: `NoWaitCycle`.

In SQLite one thread runs a whole operation. In PostgreSQL its checks are made in
separate READ COMMITTED statements, between which others commit, so nothing about
the database alone is inductive enough to say why the last statement may still rely
on the first. `StoreInv` speaks of every transaction under way:

* `OnTrack`: the statements left are the last ones of its operation;
* `Promise`: for each lock it has taken, what it read under that lock is still true
  of the database as committed now: `RoomPromise` (the room lets it, its client
  message id is new), `CapPromise` (the messages it is going to remove are still
  those the caps ask for), `RowPromise` (the message or parent is as checked),
  `RowsPromise` (it holds every row it removes);
* no lock has two holders, and there are ids left for the creations under way.

`Moves` says what a commit that holds given locks leaves alone, and is the only thing
the other transactions need to know of it. `EffectMoves` proves it of every operation
from the locks it holds (`Covers`), `PromiseStands` that each promise survives such a
commit, `StatementPromise` that a statement makes good the promise of its lock. Not
everything stays as it was read: a mute may lapse, retention may remove other messages
of the room, a parent may lose its own parent; `Moves` allows that, and the promises
are worded so that it does no harm. At the commit the promises are the guards of
`ChatStore` (`CommitStep`), which is the step simulation.

The other theorems add to it:

* *Integrity and caps.* They follow from the steps of `ChatStore` alone
  (`StoreChanges`); `BeyondCap` and `TrimmedCaps` are the argument about
  cardinalities.
* *Erasure* (`ErasedInv`). Past its scrub a transaction has found all the events of
  what it erases (`Scrubs`), because whoever would append another one needs a row
  lock or the capacity lock it holds; and the event a rewrite read under its row lock
  is the one of the row it writes (`Pictures`).
* *Convergence* (`ShownInv`). Each stored message is shown, or its event is on the way
  with the one SQLite handler that has the write lock, and is about the message as it
  is stored.
* *Locks* (`LocksInv`). Every lock a transaction holds ranks below its next statement,
  so whoever is waited for is further than who waits. `delete_room` breaks the order,
  since it deletes its rows behind the audit and webhook locks; `DeletionWaitsForNone`
  shows that it finds them free: who holds one without the capacity lock rewrites a
  message of that room, and would hold the room lock. It needs threads to stay inside
  a room, hence `Integrity`.

### Only model-checked

Liveness and deadlock of fair behaviours, which are beyond the prover. Every other
property of a passing run is a theorem.

## 6. Not modelled

* Queries, search, pagination and export of the store: they change nothing that
  another operation depends on.
* The in-process `MessageRateLimiter` of SQLite mode: a deque under one asyncio lock,
  without a suspension in it.
* Schema migration: DDL under one advisory lock.
* Authentication, configuration and request models: stateless validation.
* The order and the limit of the messages a timeline shows, and the HTTP client.
* Command line, scripts and the compatibility package: no state of their own.

## 7. Next

1. Abstractions: a per-socket specification of "a suffix of the log since admission,
   in order, or closed" that `RealtimeRelay` implements.
2. The foreign keys between rooms, leases and typing rows, whose row locks can make
   `delete_room` and `typing.start` wait for each other (`postgres_typing.py:79`).
