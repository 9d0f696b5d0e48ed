--------------------------- MODULE RealtimeRelay ---------------------------
(***************************************************************************)
(* The PostgreSQL event log, the durable instance cursors, the relay loop  *)
(* of every process and the admission of its sockets, for one room.        *)
(*                                                                         *)
(*   postgres.py           append_event, prune_events, claim_instance,     *)
(*                         release_instance, read_events,                  *)
(*                         acknowledge_events,                             *)
(*                         resynchronize_claimed_instance                  *)
(*   postgres_realtime.py  PostgresRealtimeRelay                           *)
(*   postgres_runtime.py   admit_connection                                *)
(*                                                                         *)
(* A generation (UUID) is a fresh natural number, 0 is "no generation".    *)
(* Leases carry no clock: a lease may expire at any moment.  A database    *)
(* call either commits and answers, commits and loses the answer, or does  *)
(* nothing and fails.                                                      *)
(***************************************************************************)
EXTENDS Naturals, Sequences, FiniteSets

CONSTANTS
    Procs,          \* server processes
    Instances,      \* instance ids
    InstanceOf,     \* the instance id each process is configured with
    Conns,          \* socket connections, each used once
    Shapes,         \* the events writers append: a type and who it concerns
    BatchSize,      \* batch_size
    MaxPending,     \* max_pending_events
    MaxSeq,         \* bound: how many event sequences are allocated
    MaxFaults       \* bound: how many faults the environment injects

EventTypes == {"message", "archived", "reopened", "banned", "unbanned"}

ASSUME ConstantsAssumption ==
    /\ Procs # {}
    /\ InstanceOf \in [Procs -> Instances]
    /\ Shapes \subseteq [type: EventTypes, to: SUBSET Conns]
    /\ BatchSize \in Nat \ {0}
    /\ MaxPending \in Nat \ {0}
    /\ MaxSeq \in Nat
    /\ MaxFaults \in Nat

VARIABLES
    (* samsarix_realtime_events and samsarix_realtime_retention *)
    nextSeq,    \* next identity value
    open,       \* sequences allocated by transactions that are still open
    event,      \* the event of each allocated sequence
    committed,  \* history: every sequence that ever committed
    retained,   \* the committed sequences not pruned
    floor,      \* pruned_through_sequence
    pruning,    \* safe_through of the open prune transaction, 0 when none
                \* is open (a bound of 0 deletes nothing)
    (* authoritative room state *)
    archived,   \* rooms.archived_at is set
    banned,     \* connections whose subject is banned
    (* samsarix_instance_cursors; generation 0 is a missing row *)
    rowGen, rowLast, rowLive,
    nextGen,    \* next unused generation
    (* the relay of each process *)
    pc, gen, recGen, hasCursor, fenced, fenceReq, recover, epoch,
    batch,      \* events read and not yet dispatched
    done,       \* dispatched_sequence, 0 when None
    pos,        \* history: the sequence this relay has brought its sockets to
    (* sockets *)
    cst, home, token, leaseGen, after,
    snap,       \* history: what had committed when the socket read its snapshot
    got,        \* history: the events the relay dispatched to the socket
    faults      \* faults injected so far

logVars   == <<nextSeq, open, event, committed, retained, floor, pruning>>
roomVars  == <<archived, banned>>
rowVars   == <<rowGen, rowLast, rowLive, nextGen>>
relayVars == <<pc, gen, recGen, hasCursor, fenced, fenceReq, recover, epoch,
               batch, done, pos>>
connVars  == <<cst, home, token, leaseGen, after, snap, got>>
vars == <<logVars, roomVars, rowVars, relayVars, connVars, faults>>

----------------------------------------------------------------------------
(* The event log *)

\* GREATEST(MAX(sequence), pruned_through_sequence)
LogHead == CHOOSE h \in retained \cup {floor} :
            \A x \in retained \cup {floor} : x <= h

Fault == faults < MaxFaults /\ faults' = faults + 1

\* A state change and its event in one transaction.  The advisory lock makes
\* it the only transaction that holds an allocated, uncommitted sequence.
SequenceLockFree == open = {}

AppendBegin(shape) ==
    /\ SequenceLockFree
    /\ nextSeq <= MaxSeq
    /\ shape.type = "archived" => ~archived
    /\ shape.type = "reopened" => archived
    /\ event' = [event EXCEPT ![nextSeq] = shape]
    /\ open' = open \cup {nextSeq}
    /\ nextSeq' = nextSeq + 1
    /\ UNCHANGED <<committed, retained, floor, pruning, roomVars, rowVars,
                   relayVars, connVars, faults>>

AppendCommit(s) ==
    /\ s \in open
    /\ open' = open \ {s}
    /\ committed' = committed \cup {s}
    /\ retained' = retained \cup {s}
    /\ archived' = CASE event[s].type = "archived" -> TRUE
                     [] event[s].type = "reopened" -> FALSE
                     [] OTHER -> archived
    /\ banned' = CASE event[s].type = "banned" -> banned \cup event[s].to
                   [] event[s].type = "unbanned" -> banned \ event[s].to
                   [] OTHER -> banned
    /\ UNCHANGED <<nextSeq, event, floor, pruning, rowVars, relayVars,
                   connVars, faults>>

\* Mutant: an event survives the rollback of its transaction.
AbortLeavesEvent(s) ==
    /\ s \in open
    /\ open' = open \ {s}
    /\ retained' = retained \cup {s}
    /\ UNCHANGED <<nextSeq, event, committed, floor, pruning, roomVars, rowVars,
                   relayVars, connVars, faults>>

\* A rollback leaves a hole in the identity sequence.
AppendAbort(s) ==
    /\ s \in open
    /\ open' = open \ {s}
    /\ UNCHANGED <<nextSeq, event, committed, retained, floor, pruning,
                   roomVars, rowVars, relayVars, connVars, faults>>

LiveRows == {i \in Instances : rowGen[i] # 0 /\ rowLive[i]}

\* The statements of prune_events see different snapshots: the safe bound is
\* read first, the rows go and the floor rises when the transaction commits.
IsSafeThrough(n) ==
    \/ LiveRows = {} /\ n = LogHead
    \/ /\ \E i \in LiveRows : n = rowLast[i]
       /\ \A i \in LiveRows : n <= rowLast[i]

PruneBegin ==
    /\ pruning = 0
    /\ \E n \in {rowLast[i] : i \in Instances} \cup {LogHead} :
          IsSafeThrough(n) /\ pruning' = n
    /\ UNCHANGED <<nextSeq, open, event, committed, retained, floor, roomVars,
                   rowVars, relayVars, connVars, faults>>

\* created_at is taken under the sequence lock, so what is too old or over the
\* count is a prefix of the log; how long a prefix is left open.
PruneCommit(last) ==
    /\ pruning # 0
    /\ last <= pruning \/ last = floor
    /\ retained' = {e \in retained : e > last}
    /\ floor' = IF last > floor THEN last ELSE floor
    /\ pruning' = 0
    /\ UNCHANGED <<nextSeq, open, event, committed, roomVars, rowVars,
                   relayVars, connVars, faults>>

----------------------------------------------------------------------------
(* Instance claims *)

\* read_events keeps the cursor row locked between its statements.
RowFree(i) == \A p \in Procs : pc[p] = "select" => InstanceOf[p] # i

\* No running process can renew this row any more.
Orphaned(i) ==
    \A p \in Procs : InstanceOf[p] = i =>
        (gen[p] # rowGen[i] /\ recGen[p] # rowGen[i])

ExpireLease(i) ==
    /\ rowGen[i] # 0 /\ rowLive[i]
    /\ rowLive' = [rowLive EXCEPT ![i] = FALSE]
    /\ IF Orphaned(i) THEN UNCHANGED faults ELSE Fault
    /\ UNCHANGED <<logVars, roomVars, rowGen, rowLast, nextGen, relayVars,
                   connVars>>

Owns(p) ==
    /\ gen[p] # 0 /\ gen[p] = rowGen[InstanceOf[p]]
    /\ rowLive[InstanceOf[p]]

\* Mutant: a live row is renewed without comparing its generation.
ClaimIgnoresOwner(p) == TRUE

\* Mutant: an expired row of another generation is never taken over.
ClaimNeverTakesOver(p) ==
    LET i == InstanceOf[p] IN rowGen[i] = 0 \/ rowGen[i] = gen[p]

\* claim_instance: insert at the head, renew the exact live generation, or
\* take over an expired row and keep its cursor.
CanClaim(p) ==
    LET i == InstanceOf[p]
    IN  rowGen[i] = 0 \/ ~rowLive[i] \/ rowGen[i] = gen[p]

ClaimedGen(p) ==
    LET i == InstanceOf[p]
    IN  IF rowGen[i] # 0 /\ rowLive[i] THEN rowGen[i] ELSE nextGen

ClaimedLast(p) ==
    LET i == InstanceOf[p] IN IF rowGen[i] = 0 THEN LogHead ELSE rowLast[i]

ClaimRow(p) ==
    LET i == InstanceOf[p]
    IN  /\ RowFree(i)
        /\ CanClaim(p)
        /\ rowGen'  = [rowGen  EXCEPT ![i] = ClaimedGen(p)]
        /\ rowLast' = [rowLast EXCEPT ![i] = ClaimedLast(p)]
        /\ rowLive' = [rowLive EXCEPT ![i] = TRUE]
        /\ nextGen' = IF ClaimedGen(p) = nextGen THEN nextGen + 1 ELSE nextGen

\* Mutant: a retry that finds its own recovery generation samples the head again.
ResyncSamplesHeadAgain(p, r) ==
    LET i == InstanceOf[p]
    IN  /\ RowFree(i)
        /\ rowGen[i] # 0 /\ rowGen[i] \in {gen[p], r}
        /\ rowGen'  = [rowGen  EXCEPT ![i] = r]
        /\ rowLast' = [rowLast EXCEPT ![i] = LogHead]
        /\ rowLive' = [rowLive EXCEPT ![i] = TRUE]

\* resynchronize_claimed_instance for recovery generation r: jump to the head
\* once, and only renew when an earlier attempt already committed.
ResyncRow(p, r) ==
    LET i == InstanceOf[p]
    IN  /\ RowFree(i)
        /\ rowGen[i] # 0 /\ rowGen[i] \in {gen[p], r}
        /\ rowGen'  = [rowGen  EXCEPT ![i] = r]
        /\ rowLast' = [rowLast EXCEPT ![i] = IF rowGen[i] = r THEN rowLast[i] ELSE LogHead]
        /\ rowLive' = [rowLive EXCEPT ![i] = TRUE]

----------------------------------------------------------------------------
(* Sockets of a process *)

Attached(p) == {c \in Conns : home[c] = p /\ cst[c] \in {"registered", "live"}}

\* Sockets leave the manager and are forgotten; the others keep, or have just
\* been given, the events in received.
Detach(leaving, received) ==
    /\ cst'      = [c \in Conns |-> IF c \in leaving THEN "gone" ELSE cst[c]]
    /\ token'    = [c \in Conns |-> IF c \in leaving THEN <<0, 0>> ELSE token[c]]
    /\ leaseGen' = [c \in Conns |-> IF c \in leaving THEN 0 ELSE leaseGen[c]]
    /\ after'    = [c \in Conns |-> IF c \in leaving THEN 0 ELSE after[c]]
    /\ snap'     = [c \in Conns |-> IF c \in leaving THEN {} ELSE snap[c]]
    /\ got'      = [c \in Conns |-> IF c \in leaving THEN <<>> ELSE received[c]]
    /\ UNCHANGED home

----------------------------------------------------------------------------
(* The relay loop *)

Ready(p) ==
    /\ pc[p] # "idle" /\ gen[p] # 0 /\ hasCursor[p]
    /\ ~fenced[p] /\ ~fenceReq[p] /\ ~recover[p] /\ recGen[p] = 0

\* Mutant: the loop reclaims without closing its sockets.
SkipFence(p) ==
    /\ fenceReq' = [fenceReq EXCEPT ![p] = FALSE]
    /\ pc' = [pc EXCEPT ![p] = "loop"]
    /\ UNCHANGED epoch

\* _fence: nothing to do when the sockets are already closed, otherwise the
\* admission epoch moves before close_all is awaited.
EnterFence(p) ==
    IF fenced[p]
    THEN /\ fenceReq' = [fenceReq EXCEPT ![p] = FALSE]
         /\ pc' = [pc EXCEPT ![p] = "loop"]
         /\ UNCHANGED epoch
    ELSE /\ fenceReq' = [fenceReq EXCEPT ![p] = TRUE]
         /\ pc' = [pc EXCEPT ![p] = "fencing"]
         /\ epoch' = [epoch EXCEPT ![p] = @ + 1]

\* The except branches of run: "recovery" is a gap or a lag, "lease" a claim
\* that is unusable, "database" any other PostgreSQL failure.
Raise(p, error) ==
    /\ hasCursor' = [hasCursor EXCEPT ![p] = FALSE]
    /\ recover' = [recover EXCEPT ![p] =
                      CASE error = "recovery" -> TRUE
                        [] error = "lease" -> FALSE
                        [] OTHER -> @]
    /\ recGen' = [recGen EXCEPT ![p] = IF error = "lease" THEN 0 ELSE @]
    /\ batch' = [batch EXCEPT ![p] = <<>>]
    /\ done' = [done EXCEPT ![p] = 0]
    /\ EnterFence(p)
    /\ UNCHANGED <<gen, fenced, pos>>

\* initialize succeeded: this process serves from the row's cursor.
Adopt(p, g, last) ==
    /\ gen' = [gen EXCEPT ![p] = g]
    /\ epoch' = [epoch EXCEPT ![p] = @ + 1]
    /\ hasCursor' = [hasCursor EXCEPT ![p] = TRUE]
    /\ pos' = [pos EXCEPT ![p] = last]
    /\ fenced' = [fenced EXCEPT ![p] = FALSE]
    /\ pc' = [pc EXCEPT ![p] = "loop"]
    /\ UNCHANGED <<batch, done>>

\* PostgresRuntime.open: a process that cannot claim its id does not start.
Start(p) ==
    /\ pc[p] = "idle"
    /\ ClaimRow(p)
    /\ \/ /\ Adopt(p, ClaimedGen(p), ClaimedLast(p))
          /\ fenceReq' = [fenceReq EXCEPT ![p] = FALSE]
          /\ UNCHANGED <<recGen, recover, faults>>
       \/ Fault /\ UNCHANGED relayVars        \* the answer is lost
    /\ UNCHANGED <<logVars, roomVars, connVars>>

\* At the top of the loop the sockets are still to be fenced.
NeedsFence(p) ==
    pc[p] = "loop" /\ (fenceReq[p] \/ (recover[p] /\ ~fenced[p]))

FenceAgain(p) ==
    /\ NeedsFence(p)
    /\ EnterFence(p)
    /\ UNCHANGED <<logVars, roomVars, rowVars, connVars, faults, gen, recGen,
                   hasCursor, fenced, recover, batch, done, pos>>

\* Mutant: the fence is recorded but the sockets stay registered.
FenceKeepsSockets(p) ==
    /\ pc[p] = "fencing"
    /\ pc' = [pc EXCEPT ![p] = "loop"]
    /\ fenced' = [fenced EXCEPT ![p] = TRUE]
    /\ fenceReq' = [fenceReq EXCEPT ![p] = FALSE]
    /\ UNCHANGED <<logVars, roomVars, rowVars, connVars, faults, gen, recGen,
                   hasCursor, recover, epoch, batch, done, pos>>

\* close_all detaches every socket under the manager lock, then closes them;
\* an error there leaves the fence required.
FenceClose(p) ==
    /\ pc[p] = "fencing"
    /\ Detach(Attached(p), got)
    /\ pc' = [pc EXCEPT ![p] = "loop"]
    /\ \/ /\ fenced' = [fenced EXCEPT ![p] = TRUE]
          /\ fenceReq' = [fenceReq EXCEPT ![p] = FALSE]
          /\ UNCHANGED faults
       \/ Fault /\ UNCHANGED <<fenced, fenceReq>>
    /\ UNCHANGED <<logVars, roomVars, rowVars, gen, recGen, hasCursor, recover,
                   epoch, batch, done, pos>>

\* The body of the loop runs.
Working(p) == pc[p] = "loop" /\ ~NeedsFence(p)

\* Recovery keeps one generation across ambiguous failures.
Resync(p) ==
    LET i == InstanceOf[p]
        r == IF recGen[p] = 0 THEN nextGen ELSE recGen[p]
    IN  /\ Working(p) /\ recover[p]
        /\ nextGen' = IF recGen[p] = 0 THEN nextGen + 1 ELSE nextGen
        /\ \/ /\ ResyncRow(p, r)
              /\ Adopt(p, r, rowLast'[i])
              /\ recover' = [recover EXCEPT ![p] = FALSE]
              /\ recGen' = [recGen EXCEPT ![p] = 0]
              /\ UNCHANGED <<fenceReq, faults>>
           \/ /\ \/ ResyncRow(p, r)                          \* the answer is lost
                 \/ UNCHANGED <<rowGen, rowLast, rowLive>>   \* nothing happened
              /\ Fault
              /\ recGen' = [recGen EXCEPT ![p] = r]
              /\ UNCHANGED <<pc, gen, hasCursor, fenced, fenceReq, recover,
                             epoch, batch, done, pos>>
           \/ /\ rowGen[i] \notin {gen[p], r}
              /\ Raise(p, "lease")
              /\ UNCHANGED <<rowGen, rowLast, rowLive, faults>>
        /\ UNCHANGED <<logVars, roomVars, connVars>>

\* initialize after an interruption.
Claim(p) ==
    /\ Working(p) /\ ~recover[p] /\ ~hasCursor[p]
    /\ \/ /\ ClaimRow(p)
          /\ Adopt(p, ClaimedGen(p), ClaimedLast(p))
          /\ fenceReq' = [fenceReq EXCEPT ![p] = FALSE]
          /\ UNCHANGED <<recGen, recover, faults>>
       \/ /\ ClaimRow(p)                                    \* the answer is lost
          /\ Fault
          /\ Raise(p, "database")
       \/ /\ ~CanClaim(p)                                   \* already active
          /\ Raise(p, "lease")
          /\ UNCHANGED <<rowVars, faults>>
    /\ UNCHANGED <<logVars, roomVars, connVars>>

\* A heartbeat, a read or an acknowledgement of a claim this process lost.
LeaseLost(p) ==
    /\ \/ Working(p) /\ ~recover[p] /\ hasCursor[p]
       \/ pc[p] = "ack"
    /\ ~Owns(p)
    /\ Raise(p, "lease")
    /\ UNCHANGED <<logVars, roomVars, rowVars, connVars, faults>>

\* The database fails, or times out, before any call of the loop commits.
DatabaseError(p) ==
    /\ \/ Working(p) /\ ~recover[p]
       \/ pc[p] \in {"select", "ack"}
    /\ Fault
    /\ Raise(p, "database")
    /\ UNCHANGED <<logVars, roomVars, rowVars, connVars>>

Pending(p) == {e \in retained : e > rowLast[InstanceOf[p]]}

\* read_events, first statements: lock the owned row, compare it with the
\* retention floor, then apply the lag limits.  The age limit may be exceeded
\* whenever something is pending.
Gap(p) == rowLast[InstanceOf[p]] < floor

OverCount(p) == Cardinality(Pending(p)) > MaxPending

ReadCheck(p) ==
    /\ Working(p) /\ ~recover[p] /\ hasCursor[p]
    /\ Owns(p) /\ RowFree(InstanceOf[p])
    /\ \/ /\ Gap(p) \/ OverCount(p)
          /\ Raise(p, "recovery")
          /\ UNCHANGED faults
       \/ /\ ~Gap(p) /\ Pending(p) # {}                     \* over the age limit
          /\ Fault
          /\ Raise(p, "recovery")
       \/ /\ ~Gap(p) /\ ~OverCount(p)
          /\ pc' = [pc EXCEPT ![p] = "select"]
          /\ UNCHANGED <<gen, recGen, hasCursor, fenced, fenceReq, recover,
                         epoch, batch, done, pos, faults>>
    /\ UNCHANGED <<logVars, roomVars, rowVars, connVars>>

\* Mutant: the newest event is left for the next batch.
IsBatchButLast(p, b) ==
    /\ \A j, k \in 1..Len(b) : j < k => b[j] < b[k]
    /\ \A j \in 1..Len(b) : b[j] \in Pending(p) /\ \E e \in Pending(p) : b[j] < e
    /\ \A e \in Pending(p) :
          \/ \E j \in 1..Len(b) : b[j] = e
          \/ \A f \in Pending(p) : f <= e

\* The first BatchSize pending events, in sequence order.
IsBatch(p, b) ==
    /\ \A j, k \in 1..Len(b) : j < k => b[j] < b[k]
    /\ \A j \in 1..Len(b) : b[j] \in Pending(p)
    /\ \A e \in Pending(p) :
          \/ \E j \in 1..Len(b) : b[j] = e
          \/ Len(b) = BatchSize /\ b[Len(b)] < e

Batches == UNION {[1..n -> 1..MaxSeq] : n \in 0..BatchSize}

\* read_events, last statement, with a snapshot of its own.
ReadSelect(p) ==
    /\ pc[p] = "select"
    /\ \E b \in Batches :
          /\ IsBatch(p, b)
          /\ batch' = [batch EXCEPT ![p] = b]
          /\ pc' = [pc EXCEPT ![p] = IF b = <<>> THEN "loop" ELSE "dispatch"]
    /\ UNCHANGED <<logVars, roomVars, rowVars, connVars, faults, gen, recGen,
                   hasCursor, fenced, fenceReq, recover, epoch, done, pos>>

\* Mutant: events are not compared with the admission sequence.
AcceptsAll(c, e) == TRUE

Accepts(c, e) == after[c] < e

\* broadcast, close_room and close_member pick their sockets by sequence.
Receivers(p, e) ==
    {c \in Attached(p) : /\ Accepts(c, e)
                         /\ event[e].type = "message" /\ c \in event[e].to}

Revoked(p, e) ==
    {c \in Attached(p) : /\ Accepts(c, e)
                         /\ \/ event[e].type = "archived"
                            \/ event[e].type = "banned" /\ c \in event[e].to}

Dispatch(p) ==
    /\ pc[p] = "dispatch"
    /\ LET e == Head(batch[p])
       IN  /\ Detach(Revoked(p, e),
                     [c \in Conns |-> IF c \in Receivers(p, e)
                                     THEN Append(got[c], e) ELSE got[c]])
           /\ done' = [done EXCEPT ![p] = e]
           /\ pos'  = [pos EXCEPT ![p] = e]
    /\ batch' = [batch EXCEPT ![p] = Tail(@)]
    /\ pc' = [pc EXCEPT ![p] = IF Len(batch[p]) = 1 THEN "ack" ELSE "dispatch"]
    /\ UNCHANGED <<logVars, roomVars, rowVars, faults, gen, recGen, hasCursor,
                   fenced, fenceReq, recover, epoch>>

\* A dispatch raises before it reaches a socket: the finally clause still
\* acknowledges what was dispatched, and the loop goes on from the cursor.
DispatchError(p) ==
    /\ pc[p] = "dispatch"
    /\ Fault
    /\ batch' = [batch EXCEPT ![p] = <<>>]
    /\ pc' = [pc EXCEPT ![p] = IF done[p] = 0 THEN "loop" ELSE "ack"]
    /\ UNCHANGED <<logVars, roomVars, rowVars, connVars, gen, recGen,
                   hasCursor, fenced, fenceReq, recover, epoch, done, pos>>

\* acknowledge_events.
AckRow(p) ==
    LET i == InstanceOf[p]
    IN  /\ Owns(p) /\ RowFree(i)
        /\ done[p] > rowLast[i] => done[p] \in retained
        /\ rowLast' = [rowLast EXCEPT ![i] = IF done[p] > @ THEN done[p] ELSE @]
        /\ UNCHANGED <<rowGen, rowLive, nextGen>>

Ack(p) ==
    /\ pc[p] = "ack"
    /\ \/ /\ AckRow(p)
          /\ pc' = [pc EXCEPT ![p] = "loop"]
          /\ done' = [done EXCEPT ![p] = 0]
          /\ UNCHANGED <<gen, recGen, hasCursor, fenced, fenceReq, recover,
                         epoch, batch, pos, faults>>
       \/ /\ AckRow(p)                                      \* the answer is lost
          /\ Fault
          /\ Raise(p, "database")
       \/ /\ Owns(p) /\ RowFree(InstanceOf[p])              \* the event was pruned
          /\ done[p] > rowLast[InstanceOf[p]] /\ done[p] \notin retained
          /\ Raise(p, "lease")
          /\ UNCHANGED <<rowVars, faults>>
    /\ UNCHANGED <<logVars, roomVars, connVars>>

\* A process ends.  A graceful close expires the claim it still holds.
Stop(p, releases) ==
    /\ pc[p] # "idle"
    /\ releases => pc[p] = "loop" /\ RowFree(InstanceOf[p])
    /\ Fault
    /\ rowLive' = [rowLive EXCEPT ![InstanceOf[p]] =
                      IF releases /\ gen[p] = rowGen[InstanceOf[p]] THEN FALSE ELSE @]
    /\ Detach({c \in Conns : home[c] = p /\ cst[c] # "new"}, got)
    /\ pc' = [pc EXCEPT ![p] = "idle"]
    /\ gen' = [gen EXCEPT ![p] = 0]
    /\ recGen' = [recGen EXCEPT ![p] = 0]
    /\ hasCursor' = [hasCursor EXCEPT ![p] = FALSE]
    /\ fenced' = [fenced EXCEPT ![p] = FALSE]
    /\ fenceReq' = [fenceReq EXCEPT ![p] = FALSE]
    /\ recover' = [recover EXCEPT ![p] = FALSE]
    /\ epoch' = [epoch EXCEPT ![p] = 0]
    /\ batch' = [batch EXCEPT ![p] = <<>>]
    /\ done' = [done EXCEPT ![p] = 0]
    /\ pos' = [pos EXCEPT ![p] = 0]
    /\ UNCHANGED <<logVars, roomVars, rowGen, rowLast, nextGen>>

----------------------------------------------------------------------------
(* Admission: room_websocket and admit_connection *)

Token(p) == <<gen[p], epoch[p]>>

Admit(c, p) ==
    /\ cst[c] = "new"
    /\ Ready(p) /\ ~archived /\ c \notin banned
    /\ cst' = [cst EXCEPT ![c] = "admitting"]
    /\ home' = [home EXCEPT ![c] = p]
    /\ token' = [token EXCEPT ![c] = Token(p)]
    /\ UNCHANGED <<logVars, roomVars, rowVars, relayVars, leaseGen, after, snap,
                   got, faults>>

Joined == [type |-> "message", to |-> Conns]

\* try_acquire: one transaction, under the sequence lock when it commits, that
\* reads the live claim and the open room and appends presence.joined.
Acquire(c) ==
    LET i == InstanceOf[home[c]]
    IN  /\ cst[c] = "admitting"
        /\ rowGen[i] # 0 /\ rowLive[i] /\ RowFree(i)
        /\ ~archived
        /\ SequenceLockFree /\ nextSeq <= MaxSeq
        /\ event' = [event EXCEPT ![nextSeq] = Joined]
        /\ committed' = committed \cup {nextSeq}
        /\ retained' = retained \cup {nextSeq}
        /\ nextSeq' = nextSeq + 1
        /\ cst' = [cst EXCEPT ![c] = "leased"]
        /\ leaseGen' = [leaseGen EXCEPT ![c] = rowGen[i]]
        /\ after' = [after EXCEPT ![c] = nextSeq]
        /\ UNCHANGED <<open, floor, pruning, roomVars, rowVars, relayVars, home,
                       token, snap, got, faults>>

\* Mutant: only the lease is compared, not the relay's admission window.
CheckLeaseOnly(c) == leaseGen[c] = token[c][1]

\* The guard runs under the manager lock that close_all takes.
AdmissionCheck(c) ==
    /\ Ready(home[c])
    /\ Token(home[c]) = token[c]
    /\ leaseGen[c] = token[c][1]

Register(c) ==
    /\ cst[c] = "leased"
    /\ AdmissionCheck(c)
    /\ cst' = [cst EXCEPT ![c] = "registered"]
    /\ UNCHANGED <<logVars, roomVars, rowVars, relayVars, home, token, leaseGen,
                   after, snap, got, faults>>

\* Mutant: nothing is read again after registration.
TrustPrecheck(c) ==
    /\ cst[c] = "registered"
    /\ cst' = [cst EXCEPT ![c] = "live"]
    /\ snap' = [snap EXCEPT ![c] = committed]
    /\ UNCHANGED <<home, token, leaseGen, after, got>>
    /\ UNCHANGED <<logVars, roomVars, rowVars, relayVars, faults>>

\* After registration the room and the ban are read again, then the history.
Recheck(c) ==
    /\ cst[c] = "registered"
    /\ IF archived \/ c \in banned
       THEN Detach({c}, got)
       ELSE /\ cst' = [cst EXCEPT ![c] = "live"]
            /\ snap' = [snap EXCEPT ![c] = committed]
            /\ UNCHANGED <<home, token, leaseGen, after, got>>
    /\ UNCHANGED <<logVars, roomVars, rowVars, relayVars, faults>>

\* A refused admission, a failed send, a lost connection lease, a client that
\* goes away.
Leave(c) ==
    /\ cst[c] \notin {"new", "gone"}
    /\ Detach({c}, got)
    /\ UNCHANGED <<logVars, roomVars, rowVars, relayVars, faults>>

----------------------------------------------------------------------------

Init ==
    /\ nextSeq = 1 /\ open = {} /\ committed = {} /\ retained = {} /\ floor = 0
    /\ event = [s \in 1..MaxSeq |-> Joined]
    /\ pruning = 0
    /\ archived = FALSE /\ banned = {}
    /\ rowGen = [i \in Instances |-> 0]
    /\ rowLast = [i \in Instances |-> 0]
    /\ rowLive = [i \in Instances |-> FALSE]
    /\ nextGen = 1
    /\ pc = [p \in Procs |-> "idle"]
    /\ gen = [p \in Procs |-> 0] /\ recGen = [p \in Procs |-> 0]
    /\ hasCursor = [p \in Procs |-> FALSE]
    /\ fenced = [p \in Procs |-> FALSE] /\ fenceReq = [p \in Procs |-> FALSE]
    /\ recover = [p \in Procs |-> FALSE]
    /\ epoch = [p \in Procs |-> 0]
    /\ batch = [p \in Procs |-> <<>>]
    /\ done = [p \in Procs |-> 0] /\ pos = [p \in Procs |-> 0]
    /\ cst = [c \in Conns |-> "new"]
    /\ home = [c \in Conns |-> CHOOSE p \in Procs : TRUE]
    /\ token = [c \in Conns |-> <<0, 0>>]
    /\ leaseGen = [c \in Conns |-> 0] /\ after = [c \in Conns |-> 0]
    /\ snap = [c \in Conns |-> {}] /\ got = [c \in Conns |-> <<>>]
    /\ faults = 0

Database ==
    \/ \E shape \in Shapes : AppendBegin(shape)
    \/ \E s \in open : AppendCommit(s) \/ AppendAbort(s)
    \/ PruneBegin
    \/ \E last \in retained \cup {floor} : PruneCommit(last)
    \/ \E i \in Instances : ExpireLease(i)

Relay(p) ==
    \/ Start(p) \/ FenceAgain(p) \/ FenceClose(p) \/ Resync(p) \/ Claim(p)
    \/ LeaseLost(p) \/ DatabaseError(p) \/ ReadCheck(p) \/ ReadSelect(p)
    \/ Dispatch(p) \/ DispatchError(p) \/ Ack(p)
    \/ \E releases \in BOOLEAN : Stop(p, releases)

Socket(c) ==
    \/ \E p \in Procs : Admit(c, p)
    \/ Acquire(c) \/ Register(c) \/ Recheck(c) \/ Leave(c)

Next ==
    \/ Database
    \/ \E p \in Procs : Relay(p)
    \/ \E c \in Conns : Socket(c)

Spec == Init /\ [][Next]_vars

\* What one process does without a new fault.
Progress(p) ==
    \/ FenceAgain(p) \/ FenceClose(p) \/ Resync(p) \/ Claim(p) \/ LeaseLost(p)
    \/ ReadCheck(p) \/ ReadSelect(p) \/ Dispatch(p) \/ Ack(p)

\* A running relay loop keeps being scheduled, an open transaction ends (its
\* operation timeout), and a lease nobody renews runs out.
FairSpec ==
    /\ Spec
    /\ \A p \in Procs : WF_vars(Progress(p))
    /\ WF_vars(\E s \in open : AppendCommit(s) \/ AppendAbort(s))
    /\ \A i \in Instances : WF_vars(Orphaned(i) /\ ExpireLease(i))

----------------------------------------------------------------------------
(* Properties *)

Seqs == 1..MaxSeq

LogTypes ==
    /\ nextSeq \in Nat /\ 1 <= nextSeq /\ nextSeq <= MaxSeq + 1
    /\ open \subseteq Seqs
    /\ event \in [Seqs -> [type: EventTypes, to: SUBSET Conns]]
    /\ committed \subseteq Seqs /\ retained \subseteq committed
    /\ floor \in 0..MaxSeq
    /\ pruning \in 0..MaxSeq
    /\ archived \in BOOLEAN /\ banned \subseteq Conns
    /\ faults \in Nat /\ faults <= MaxFaults

RowTypes ==
    /\ rowGen \in [Instances -> Nat] /\ rowLast \in [Instances -> 0..MaxSeq]
    /\ rowLive \in [Instances -> BOOLEAN]
    /\ nextGen \in Nat

RelayTypes ==
    /\ pc \in [Procs -> {"idle", "loop", "fencing", "select", "dispatch", "ack"}]
    /\ gen \in [Procs -> Nat] /\ recGen \in [Procs -> Nat]
    /\ hasCursor \in [Procs -> BOOLEAN] /\ fenced \in [Procs -> BOOLEAN]
    /\ fenceReq \in [Procs -> BOOLEAN] /\ recover \in [Procs -> BOOLEAN]
    /\ epoch \in [Procs -> Nat]
    /\ batch \in [Procs -> Seq(Seqs)]
    /\ done \in [Procs -> 0..MaxSeq] /\ pos \in [Procs -> 0..MaxSeq]
    /\ \A p \in Procs : pc[p] = "dispatch" => batch[p] # <<>>

ConnTypes ==
    /\ cst \in [Conns -> {"new", "admitting", "leased", "registered", "live", "gone"}]
    /\ home \in [Conns -> Procs]
    /\ token \in [Conns -> Nat \X Nat]
    /\ leaseGen \in [Conns -> Nat] /\ after \in [Conns -> 0..MaxSeq]
    /\ snap \in [Conns -> SUBSET Seqs] /\ got \in [Conns -> Seq(Seqs)]

\* Every variable keeps its type, nothing uncommitted is retained, and the loop
\* dispatches only from a batch that has events.
TypeOK == LogTypes /\ RowTypes /\ RelayTypes /\ ConnTypes

Concerns(e, c) ==
    \/ event[e].type = "archived"
    \/ event[e].type \in {"message", "banned"} /\ c \in event[e].to

\* What the relay has passed since the socket's admission either reached the
\* socket or was in the snapshot the socket read.  An archive or a ban must have
\* been in the snapshot: dispatching it would have closed the socket.
Complete(c) ==
    \A e \in committed :
        (after[c] < e /\ e <= pos[home[c]] /\ Concerns(e, c)) =>
            \/ e \in snap[c]
            \/ \E k \in 1..Len(got[c]) : got[c][k] = e

\* "It must never pretend that an event gap was delivered"
\* (MULTI_INSTANCE_ARCHITECTURE.md): no socket that finished its handshake has
\* been sent anything beyond an event it should have had.
NoSilentGap == \A c \in Conns : cst[c] = "live" => Complete(c)

\* As long as the process still holds the claim it serves under, read_events,
\* prune_events, recovery and admission leave no gap in any of its sockets.
NoGapWhileOwned ==
    \A c \in Conns : (cst[c] = "live" /\ Owns(home[c])) => Complete(c)

\* One socket never receives an event twice or out of order, however often the
\* relay loses an acknowledgement, its claim or its database and replays.
InOrderOnce ==
    \A c \in Conns :
        \A j, k \in 1..Len(got[c]) : j < k => got[c][j] < got[c][k]

\* A socket that still hangs on after its room was archived or its subject
\* banned hangs on only because its relay, still holding its claim, has yet to
\* reach that event.
RevokedOnlyWhileBehind ==
    \A c \in Conns : (cst[c] = "live" /\ Owns(home[c]) /\ (archived \/ c \in banned)) =>
        \E e \in committed :
            /\ e > pos[home[c]]
            /\ \/ event[e].type = "archived"
               \/ event[e].type = "banned" /\ c \in event[e].to

\* Two processes configured with one instance id never serve under the same
\* generation, so at most one of them can read or acknowledge.
SingleOwner ==
    \A p, q \in Procs :
        (p # q /\ InstanceOf[p] = InstanceOf[q] /\ hasCursor[p] /\ hasCursor[q])
            => gen[p] # gen[q]

\* Within one generation the durable cursor moves only to what its owner has
\* dispatched to its sockets; it jumps to the head only together with a new
\* generation, so a retried recovery skips nothing.
AdvanceOnlyAfterDispatch ==
    [][\A i \in Instances :
          (rowGen[i] # 0 /\ rowGen'[i] = rowGen[i] /\ rowLast'[i] # rowLast[i]) =>
              \E p \in Procs :
                  /\ InstanceOf[p] = i /\ gen[p] = rowGen[i]
                  /\ rowLast'[i] > rowLast[i] /\ rowLast'[i] = pos[p]]_vars

\* A dispatch that succeeds closes a socket only if a revocation that concerns
\* it was committed after its admission: replayed history cannot revoke a newer
\* admission.  A dispatch that fails leaves its loop for the fence instead.
NoStaleRevocation ==
    [][\A c \in Conns :
          LET p == home[c] IN
          (cst[c] \in {"registered", "live"} /\ cst'[c] = "gone" /\ pc[p] = "dispatch"
             /\ pos'[p] # pos[p] /\ pc'[p] # "idle") =>
              \E e \in committed :
                  /\ e > after[c] /\ Concerns(e, c)
                  /\ event[e].type # "message"]_vars

\* A fenced process serves nobody, and a process that is about to claim or to
\* resynchronize is fenced: no socket survives a change of cursor.
FencedServesNobody ==
    \A p \in Procs :
        (fenced[p] \/ (Working(p) /\ (recover[p] \/ ~hasCursor[p]))) =>
            Attached(p) = {}

\* A committed event reaches every socket it concerns, or the socket is closed
\* so that its client reloads; no fault leaves a socket waiting silently.
DeliveredOrClosed ==
    \A c \in Conns, e \in Seqs :
        (cst[c] = "live" /\ e \in committed /\ after[c] < e /\ Concerns(e, c))
            ~> \/ cst[c] # "live" \/ e \in snap[c]
               \/ \E k \in 1..Len(got[c]) : got[c][k] = e

\* A relay that fenced itself after a lost answer, a lost claim, a gap or lag
\* admits sockets again, even when it locked itself out of its own id.
RelayRecovers ==
    \A p \in Procs : pc[p] # "idle" ~> (Ready(p) \/ pc[p] = "idle")
=============================================================================
