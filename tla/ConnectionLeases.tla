-------------------------- MODULE ConnectionLeases --------------------------
(***************************************************************************)
(* The connection leases of PostgreSQL mode (postgres_connections.py), the *)
(* typing states that hang on them (postgres_typing.py) and the presence   *)
(* and typing events both append, as the sessions of app.py and the        *)
(* maintenance of postgres_runtime.py use them.                            *)
(*                                                                         *)
(* Every connection id is admitted at most once.  The transactions of      *)
(* admission and of release are split into the statements that see         *)
(* different snapshots.  Expiry needs no clock: a lease or a claim runs    *)
(* out at any moment, also between the statement that renews it and the    *)
(* commit that makes the renewal visible.  A renewal that begins and       *)
(* commits before the expiry changes nothing here.                         *)
(***************************************************************************)
EXTENDS Integers, FiniteSets

CONSTANTS
    Conns,              \* connection ids
    Rooms,
    Placements,         \* which rooms the connections may ask for
    Instances, InstOf,  \* the process that serves each connection
    MaxConnections,     \* max_connections
    MaxPerRoom,         \* max_connections_per_room
    SweepLimit,         \* _ADMISSION_SWEEP_LIMIT
    MaxFaults,          \* bound: lost answers, failed releases, lost leases, crashes
    MaxInputs,          \* bound: reopened rooms, typing.start commands, renewals and
                        \* heartbeats, all together
    MaxLateStarts       \* bound: releases that overtake a typing.start

ASSUME ConstantsAssumption ==
    /\ Placements \subseteq [Conns -> Rooms] /\ InstOf \in [Conns -> Instances]
    /\ MaxConnections \in Nat \ {0} /\ MaxPerRoom \in 1..MaxConnections
    /\ SweepLimit \in Nat \ {0}
    /\ MaxFaults \in Nat /\ MaxInputs \in Nat /\ MaxLateStarts \in Nat
    /\ IsFiniteSet(Conns)

VARIABLES
    (* database *)
    room,       \* "open", "archived" or "gone"
    owner,      \* instance cursor: generation, and whether its lease lasts
    lease,      \* each connection: "none", "live" or "expired", and the generation
    typing,     \* typing state: "none", "on" or "expired"
    (* transactions *)
    tx,         \* admission or release of each connection
    starting,   \* a typing.start holds the lease row of this connection
    renewing,   \* a renew found the lease live and is not committed
    beating,    \* a heartbeat found the claim live and is not committed
    unsure,     \* the process does not know whether its recovery committed
    (* sessions *)
    session,    \* "new", "open", "closing" or "done"
    place,      \* the room in the URL of each connection
    (* history: what the committed events told the room, and for each room *)
    (* the leases that were dead when an admission to it counted           *)
    joins, leaves, shown, missed,
    (* bounds *)
    faults, inputs, late

dbVars == <<room, owner, lease, typing>>
renewalVars == <<renewing, beating, unsure, missed>>
histVars == <<joins, leaves, shown>>
boundVars == <<faults, inputs, late>>
vars == <<dbVars, tx, starting, session, place, renewalVars, histVars, boundVars>>

NoLease == [st |-> "none", gen |-> 0]
NoTx == [op |-> "none", gone |-> {}, typed |-> {}]

Init ==
    /\ room = [r \in Rooms |-> "open"]
    /\ owner = [i \in Instances |-> [gen |-> 1, live |-> TRUE]]
    /\ lease = [c \in Conns |-> NoLease]
    /\ typing = [c \in Conns |-> "none"]
    /\ tx = [c \in Conns |-> NoTx]
    /\ starting = [c \in Conns |-> FALSE] /\ renewing = [c \in Conns |-> FALSE]
    /\ beating = [i \in Instances |-> FALSE] /\ unsure = [i \in Instances |-> FALSE]
    /\ missed = [r \in Rooms |-> {}]
    /\ session = [c \in Conns |-> "new"]
    /\ place \in Placements
    /\ joins = [c \in Conns |-> 0] /\ leaves = [c \in Conns |-> 0]
    /\ shown = [c \in Conns |-> FALSE]
    /\ faults = 0 /\ inputs = 0 /\ late = 0

Fault == faults < MaxFaults /\ faults' = faults + 1
Input == inputs < MaxInputs /\ inputs' = inputs + 1

Has(c) == lease[c].st # "none"
OwnerLive(c) == owner[InstOf[c]].live /\ owner[InstOf[c]].gen = lease[c].gen

\* The rows that counts, renewal and typing regard as live.
Live(c) == lease[c].st = "live" /\ OwnerLive(c) /\ room[place[c]] = "open"

\* mutant: a lease ends only with its process or its room
StaleIgnoresExpiry(c) == Has(c) /\ (~OwnerLive(c) \/ room[place[c]] = "archived")

\* The rows that _delete_expired looks for.
Stale(c) ==
    Has(c) /\ (lease[c].st = "expired" \/ ~OwnerLive(c) \/ room[place[c]] = "archived")

LiveConns == {c \in Conns : Live(c)}
InRoom(r) == {c \in LiveConns : place[c] = r}

-----------------------------------------------------------------------------
(* Locks.                                                                  *)

\* mutant: admissions and releases do not exclude each other
NoCapLock == TRUE

\* pg_advisory_xact_lock(POSTGRES_CONNECTION_CAP_LOCK_ID).
CapLockFree == \A c \in Conns : tx[c].op = "none"

\* append_event holds its own lock until the transaction ends.
SequenceFree == \A c \in Conns : tx[c].op \in {"swept", "counted"} => tx[c].gone = {}

\* mutant: rows are deleted without regard to their locks
NothingLocked(c) == FALSE

\* A lease row that a running transaction has locked.
RowLocked(c) ==
    \/ starting[c] \/ renewing[c] \/ tx[c].op = "leaving"
    \/ \E d \in Conns : c \in tx[d].gone

\* An admission holds its room FOR SHARE.
RoomShared(r) == \E c \in Conns : tx[c].op \in {"swept", "counted"} /\ place[c] = r

\* An admission holds the cursor row of its process FOR SHARE.
InstShared(i) == \E c \in Conns : tx[c].op \in {"swept", "counted"} /\ InstOf[c] = i

-----------------------------------------------------------------------------
(* Departures.                                                             *)

Typing(S) == {c \in S : typing[c] # "none"}

\* mutant: a sweep does not look for typing states
TypingUnseen(S) == {}

\* was_typing, as the statement that locks the rows sees it.
WasTyping(S) == Typing(S)

\* The transaction commits: the lease rows of gone are deleted, their typing
\* rows by cascade, a row for each of new is inserted, and the events tell
\* the room of typing.stopped for typed, of presence.left for gone and of
\* presence.joined for new.
Commit(gone, typed, new) ==
    /\ lease' = [c \in Conns |->
                   IF c \in new THEN [st |-> "live", gen |-> owner[InstOf[c]].gen]
                   ELSE IF c \in gone THEN NoLease ELSE lease[c]]
    /\ typing' = [c \in Conns |-> IF c \in gone THEN "none" ELSE typing[c]]
    /\ joins' = [c \in Conns |-> IF c \in new THEN joins[c] + 1 ELSE joins[c]]
    /\ leaves' = [c \in Conns |-> IF c \in gone THEN leaves[c] + 1 ELSE leaves[c]]
    /\ shown' = [c \in Conns |-> shown[c] /\ c \notin typed]

\* What FOR UPDATE SKIP LOCKED may pick: as many stale rows as limit allows.
Sweeps(limit) ==
    LET free == {c \in Conns : Stale(c) /\ ~RowLocked(c)}
    IN  {S \in SUBSET free :
           \/ S = free /\ Cardinality(free) <= limit
           \/ Cardinality(S) = limit}

\* reap_expired, one pass of the maintenance of any process.
Reap ==
    /\ CapLockFree
    /\ \E S \in Sweeps(Cardinality(Conns)) : S # {} /\ Commit(S, WasTyping(S), {})
    /\ UNCHANGED <<place, renewalVars, room, owner, tx, starting, session, boundVars>>

-----------------------------------------------------------------------------
(* Admission: try_acquire, called by admit_connection.                     *)

\* The process and the room are locked FOR SHARE, then stale rows are swept.
AcquireBegin(c) ==
    /\ session[c] = "new" /\ tx[c] = NoTx
    /\ owner[InstOf[c]].live /\ room[place[c]] = "open"
    /\ CapLockFree
    /\ \E S \in Sweeps(SweepLimit) :
          tx' = [tx EXCEPT ![c] = [op |-> "swept", gone |-> S, typed |-> WasTyping(S)]]
    /\ UNCHANGED <<place, renewalVars, dbVars, starting, session, histVars, boundVars>>

Full(c, counted) ==
    \/ Cardinality(counted) >= MaxConnections
    \/ Cardinality({d \in counted : place[d] = place[c]}) >= MaxPerRoom

\* Either cap is reached: None, and the departures are committed all the same.
AcquireFull(c) ==
    /\ tx[c].op = "swept" /\ Full(c, LiveConns \ tx[c].gone)
    /\ Commit(tx[c].gone, tx[c].typed, {})
    /\ tx' = [tx EXCEPT ![c] = NoTx]
    /\ session' = [session EXCEPT ![c] = "done"]
    /\ UNCHANGED <<place, renewalVars, room, owner, starting, boundVars>>

\* The leases that an admission does not count although their rows stay.
Dead(c) == {d \in Conns : Has(d) /\ ~Live(d)} \ tx[c].gone

AcquireCount(c) ==
    /\ tx[c].op = "swept" /\ ~Full(c, LiveConns \ tx[c].gone)
    /\ tx' = [tx EXCEPT ![c].op = "counted"]
    /\ missed' = [missed EXCEPT ![place[c]] = @ \cup Dead(c)]
    /\ UNCHANGED <<place, renewing, beating, unsure, dbVars, starting, session, histVars,
                   boundVars>>

\* The insertion looks at the process once more.  The session opens, or goes
\* straight to its cleanup: the answer was lost, or the manager refused the
\* socket, as it does until a recovery is confirmed.
AcquireEnd(c) ==
    LET alive == owner[InstOf[c]].live
    IN  /\ tx[c].op = "counted"
        /\ Commit(tx[c].gone, tx[c].typed, IF alive THEN {c} ELSE {})
        /\ tx' = [tx EXCEPT ![c] = NoTx]
        /\ \E next \in CASE ~alive -> {"done"}
                          [] alive /\ unsure[InstOf[c]] -> {"closing"}
                          [] OTHER -> {"open", "closing"} :
              session' = [session EXCEPT ![c] = next]
        /\ UNCHANGED <<place, renewalVars, room, owner, starting, boundVars>>

\* The transaction is lost; a reservation is possible, so it is released.
AcquireFails(c) ==
    /\ tx[c].op \in {"swept", "counted"} /\ Fault
    /\ tx' = [tx EXCEPT ![c] = NoTx]
    /\ session' = [session EXCEPT ![c] = "closing"]
    /\ UNCHANGED <<place, renewalVars, dbVars, starting, histVars, inputs, late>>

-----------------------------------------------------------------------------
(* Sessions.                                                               *)

\* The client leaves, a broadcast or a revocation closes the socket, or renew
\* finds that the row is not live any more.
SessionEnds(c) ==
    /\ session[c] = "open"
    /\ session' = [session EXCEPT ![c] = "closing"]
    /\ UNCHANGED <<place, renewalVars, dbVars, tx, starting, histVars, boundVars>>

\* renew: a session whose lease, process or room is unusable is closed.
RenewRefused(c) ==
    /\ session[c] = "open" /\ ~Live(c) /\ ~RowLocked(c)
    /\ session' = [session EXCEPT ![c] = "closing"]
    /\ UNCHANGED <<place, renewalVars, dbVars, tx, starting, histVars, boundVars>>

\* renew: the UPDATE finds the lease live; it holds the row, or waits for
\* whoever holds it, and looks at the clock no more.
RenewBegin(c) ==
    /\ session[c] = "open" /\ Live(c) /\ ~renewing[c]
    /\ Input
    /\ renewing' = [renewing EXCEPT ![c] = TRUE]
    /\ UNCHANGED <<place, dbVars, tx, starting, session, beating, unsure, missed,
                   histVars, faults, late>>

\* The transaction commits, at a time when the lease may have run out for
\* everybody else: the row is live again.
RenewEnd(c) ==
    /\ renewing[c] /\ Has(c) /\ ~starting[c]
    /\ \A d \in Conns : c \notin tx[d].gone
    /\ renewing' = [renewing EXCEPT ![c] = FALSE]
    /\ lease' = [lease EXCEPT ![c].st = "live"]
    /\ UNCHANGED <<place, room, owner, typing, tx, starting, session, beating, unsure, missed,
                   histVars, boundVars>>

\* The session's cleanup cancels the renewal, it times out, or the row it
\* waited for was deleted.
RenewFails(c) ==
    /\ renewing[c]
    /\ renewing' = [renewing EXCEPT ![c] = FALSE]
    /\ UNCHANGED <<place, dbVars, tx, starting, session, beating, unsure, missed,
                   histVars, boundVars>>

\* release: the row is read, with whether the connection is typing, and
\* locked; a typing.start or a renewal that was given up may still hold it.
ReleaseBegin(c) ==
    /\ session[c] = "closing" /\ tx[c] = NoTx /\ CapLockFree
    /\ \/ ~starting[c] /\ UNCHANGED late
       \/ starting[c] /\ late < MaxLateStarts /\ late' = late + 1
    /\ tx' = [tx EXCEPT ![c] = [op |-> "leaving", gone |-> {}, typed |-> WasTyping({c})]]
    /\ UNCHANGED <<place, renewalVars, dbVars, starting, session, histVars,
                   inputs, faults>>

\* mutant: a row that is gone already is released again
ReleasesAlways(c) == {c}

\* if row is None: return False.
Released(c) == IF Has(c) THEN {c} ELSE {}

ReleaseEnd(c) ==
    /\ tx[c].op = "leaving" /\ ~starting[c] /\ ~renewing[c]
    /\ Commit(Released(c), tx[c].typed \cap Released(c), {})
    /\ tx' = [tx EXCEPT ![c] = NoTx]
    /\ session' = [session EXCEPT ![c] = "done"]
    /\ UNCHANGED <<place, renewalVars, room, owner, starting, boundVars>>

\* release_connection only logs a database error; the row is left to expire.
ReleaseFails(c) ==
    /\ session[c] = "closing" /\ Fault
    /\ tx' = [tx EXCEPT ![c] = NoTx]
    /\ session' = [session EXCEPT ![c] = "done"]
    /\ UNCHANGED <<place, renewalVars, dbVars, starting, histVars, inputs, late>>

-----------------------------------------------------------------------------
(* Typing.                                                                 *)

\* start: the live row is locked.
StartBegin(c) ==
    /\ session[c] = "open" /\ Live(c) /\ ~RowLocked(c)
    /\ Input
    /\ starting' = [starting EXCEPT ![c] = TRUE]
    /\ UNCHANGED <<place, renewalVars, dbVars, tx, session, histVars, faults, late>>

\* The typing row is written; typing.started goes out unless it was on.
StartEnd(c) ==
    /\ starting[c] /\ (typing[c] # "on" => SequenceFree)
    /\ starting' = [starting EXCEPT ![c] = FALSE]
    /\ typing' = [typing EXCEPT ![c] = "on"]
    /\ shown' = [shown EXCEPT ![c] = @ \/ typing[c] # "on"]
    /\ UNCHANGED <<place, renewalVars, room, owner, lease, tx, session, joins, leaves,
                   boundVars>>

\* start fails after it locked the row.
StartFails(c) ==
    /\ starting[c] /\ Fault
    /\ starting' = [starting EXCEPT ![c] = FALSE]
    /\ UNCHANGED <<place, renewalVars, dbVars, tx, session, histVars, inputs, late>>

\* A typing row is deleted and typing.stopped goes out.
DeleteTyping(c) ==
    /\ typing[c] # "none" /\ SequenceFree
    /\ typing' = [typing EXCEPT ![c] = "none"]
    /\ shown' = [shown EXCEPT ![c] = FALSE]
    /\ UNCHANGED <<place, renewalVars, room, owner, lease, tx, starting, session, joins,
                   leaves, boundVars>>

\* stop.
Stop(c) == session[c] = "open" /\ DeleteTyping(c)

\* typing.reap_expired, for one row.
ReapTyping(c) == typing[c] = "expired" /\ DeleteTyping(c)

\* Time passes: expires_at of a typing state.
ExpireTyping(c) ==
    /\ typing[c] = "on"
    /\ typing' = [typing EXCEPT ![c] = "expired"]
    /\ UNCHANGED <<place, renewalVars, room, owner, lease, tx, starting, session, histVars,
                   boundVars>>

-----------------------------------------------------------------------------
(* Time, processes and rooms.                                              *)

\* lease_expires_at is reached: nobody renews the row, or no renewal has
\* committed in time.
ExpireLease(c) ==
    /\ lease[c].st = "live"
    /\ lease' = [lease EXCEPT ![c].st = "expired"]
    /\ IF session[c] = "open" /\ Live(c) THEN Fault ELSE UNCHANGED faults
    /\ UNCHANGED <<place, renewalVars, room, owner, typing, tx, starting,
                   session, histVars, inputs, late>>

\* The claim of the process runs out; admissions hold the cursor row FOR SHARE
\* but do not keep it from running out.  While a recovery is not confirmed
\* nobody sends heartbeats.
ExpireOwner(i) ==
    /\ owner[i].live
    /\ IF unsure[i] THEN UNCHANGED faults ELSE Fault
    /\ owner' = [owner EXCEPT ![i].live = FALSE]
    /\ UNCHANGED <<place, renewalVars, room, lease, typing, tx, starting,
                   session, histVars, inputs, late>>

\* heartbeat_claimed_instance, and claim_instance by the process that still has
\* the claim: its UPDATE finds it live, and waits for admissions that share
\* the row.
HeartbeatBegin(i) ==
    /\ owner[i].live /\ ~unsure[i] /\ ~beating[i]
    /\ Input
    /\ beating' = [beating EXCEPT ![i] = TRUE]
    /\ UNCHANGED <<place, dbVars, tx, starting, session, renewing, unsure,
                   missed, histVars, faults, late>>

\* The heartbeat commits, maybe after others saw the claim expired.
HeartbeatEnd(i) ==
    /\ beating[i] /\ ~InstShared(i)
    /\ beating' = [beating EXCEPT ![i] = FALSE]
    /\ owner' = [owner EXCEPT ![i].live = TRUE]
    /\ UNCHANGED <<place, room, lease, typing, tx, starting, session, renewing, unsure, missed,
                   histVars, boundVars>>

\* The heartbeat is lost.
HeartbeatFails(i) ==
    /\ beating[i]
    /\ beating' = [beating EXCEPT ![i] = FALSE]
    /\ UNCHANGED <<place, dbVars, tx, starting, session, renewing, unsure, missed,
                   histVars, boundVars>>

\* The process takes a new generation and its open sessions end in next.
NewGeneration(i, next) ==
    /\ ~beating[i] /\ ~InstShared(i)
    /\ owner' = [owner EXCEPT ![i] = [gen |-> @.gen + 1, live |-> TRUE]]
    /\ session' = [c \in Conns |-> IF InstOf[c] = i /\ session[c] = "open" THEN next
                                   ELSE session[c]]

\* The claim is taken again under a new generation, after the fence closed the
\* sockets of the old one, or by a new process, whose predecessor releases
\* nothing.
Reclaim(i) ==
    /\ ~owner[i].live
    /\ \E next \in {"closing", "done"} : NewGeneration(i, next)
    /\ unsure' = [unsure EXCEPT ![i] = FALSE]
    /\ UNCHANGED <<place, room, lease, typing, tx, starting, renewing, beating, missed,
                   histVars, boundVars>>

\* resynchronize_claimed_instance: after the fence the process that lags
\* changes its generation, whether its claim lasts or not.  The answer may be
\* lost.
Resynchronize(i) ==
    /\ ~unsure[i] /\ Fault
    /\ NewGeneration(i, "closing")
    /\ \E lost \in BOOLEAN : unsure' = [unsure EXCEPT ![i] = lost]
    /\ UNCHANGED <<place, room, lease, typing, tx, starting, renewing, beating,
                   missed, histVars, inputs, late>>

\* The recovery is tried again and finds its generation: the claim is renewed,
\* whether it had run out or not.
ResynchronizeAgain(i) ==
    /\ unsure[i] /\ ~InstShared(i)
    /\ owner' = [owner EXCEPT ![i].live = TRUE]
    /\ unsure' = [unsure EXCEPT ![i] = FALSE]
    /\ UNCHANGED <<place, room, lease, typing, tx, starting, session, renewing, beating, missed,
                   histVars, boundVars>>

\* set_room_state.
Archive(r) ==
    /\ room[r] = "open" /\ ~RoomShared(r) /\ SequenceFree
    /\ room' = [room EXCEPT ![r] = "archived"]
    /\ UNCHANGED <<place, renewalVars, owner, lease, typing, tx, starting, session,
                   histVars, boundVars>>

Reopen(r) ==
    /\ room[r] = "archived" /\ SequenceFree
    /\ Input
    /\ room' = [room EXCEPT ![r] = "open"]
    /\ UNCHANGED <<place, renewalVars, owner, lease, typing, tx, starting,
                   session, histVars, faults, late>>

\* delete_room takes the leases and typing states of the room with it.
DeleteRoom(r) ==
    LET members == {c \in Conns : place[c] = r}
    IN  /\ room[r] = "archived" /\ SequenceFree
        /\ \A c \in members : ~RowLocked(c)
        /\ room' = [room EXCEPT ![r] = "gone"]
        /\ lease' = [c \in Conns |-> IF c \in members THEN NoLease ELSE lease[c]]
        /\ typing' = [c \in Conns |-> IF c \in members THEN "none" ELSE typing[c]]
        /\ UNCHANGED <<place, renewalVars, owner, tx, starting, session, histVars, boundVars>>

Next ==
    \/ Reap
    \/ \E c \in Conns :
          \/ AcquireBegin(c) \/ AcquireFull(c) \/ AcquireCount(c) \/ AcquireEnd(c)
          \/ AcquireFails(c) \/ SessionEnds(c) \/ RenewRefused(c)
          \/ RenewBegin(c) \/ RenewEnd(c) \/ RenewFails(c)
          \/ ReleaseBegin(c) \/ ReleaseEnd(c) \/ ReleaseFails(c)
          \/ StartBegin(c) \/ StartEnd(c) \/ StartFails(c) \/ Stop(c)
          \/ ReapTyping(c) \/ ExpireTyping(c) \/ ExpireLease(c)
    \/ \E i \in Instances :
          \/ ExpireOwner(i) \/ HeartbeatBegin(i) \/ HeartbeatEnd(i) \/ HeartbeatFails(i)
          \/ Reclaim(i) \/ Resynchronize(i) \/ ResynchronizeAgain(i)
    \/ \E r \in Rooms : Archive(r) \/ Reopen(r) \/ DeleteRoom(r)

Spec == Init /\ [][Next]_vars

\* Maintenance runs, transactions end, and time passes for a lease that nobody
\* renews.  Nothing makes a session end or release its lease.
Fairness ==
    /\ WF_vars(Reap)
    /\ \A c \in Conns :
          /\ WF_vars(AcquireFull(c) \/ AcquireCount(c) \/ AcquireEnd(c) \/ ReleaseEnd(c))
          /\ WF_vars(StartEnd(c)) /\ WF_vars(RenewEnd(c) \/ RenewFails(c))
          /\ WF_vars(ExpireLease(c) /\ session[c] # "open")
    /\ \A i \in Instances : WF_vars(HeartbeatEnd(i) \/ HeartbeatFails(i))

FairSpec == Spec /\ Fairness

-----------------------------------------------------------------------------
(* Properties.                                                             *)

TypeOK ==
    /\ room \in [Rooms -> {"open", "archived", "gone"}]
    /\ owner \in [Instances -> [gen: Nat, live: BOOLEAN]]
    /\ lease \in [Conns -> [st: {"none", "live", "expired"}, gen: Nat]]
    /\ typing \in [Conns -> {"none", "on", "expired"}]
    /\ \A c \in Conns : typing[c] # "none" => Has(c)
    /\ tx \in [Conns -> [op: {"none", "swept", "counted", "leaving"},
                         gone: SUBSET Conns, typed: SUBSET Conns]]
    /\ starting \in [Conns -> BOOLEAN]
    /\ \A c \in Conns : starting[c] => Has(c)
    /\ session \in [Conns -> {"new", "open", "closing", "done"}]
    /\ place \in Placements
    /\ renewing \in [Conns -> BOOLEAN]
    /\ beating \in [Instances -> BOOLEAN] /\ unsure \in [Instances -> BOOLEAN]
    /\ missed \in [Rooms -> SUBSET Conns]
    /\ joins \in [Conns -> 0..1] /\ leaves \in [Conns -> Nat]

\* Concurrent admissions of several processes keep both caps for all leases but
\* those that were dead when an admission counted and came back: a renewal or
\* heartbeat committed, or a recovery was repeated, after the expiry, or the
\* room was opened again.
RoomCapHolds == \A r \in Rooms : Cardinality(InRoom(r) \ missed[r]) <= MaxPerRoom
TotalCapHolds ==
    Cardinality(LiveConns \ UNION {missed[r] : r \in Rooms}) <= MaxConnections
CapsHold == RoomCapHolds /\ TotalCapHolds

\* Every committed join is followed by exactly one leave when the lease goes,
\* whoever removes it, unless the whole room was deleted.
LeavesOnce ==
    \A c \in Conns :
       /\ leaves[c] + (IF Has(c) THEN 1 ELSE 0) <= joins[c]
       /\ room[place[c]] # "gone" => leaves[c] + (IF Has(c) THEN 1 ELSE 0) = joins[c]

\* A connection that the room was told is typing has a typing state, which
\* some stop, sweep, release or expiry will still turn into typing.stopped;
\* only a release that overtook a typing.start of its own connection forgets
\* one, because it looked for the typing state before it waited for the row.
TypingStops ==
    late = 0 =>
       \A c \in Conns : shown[c] /\ room[place[c]] # "gone" => typing[c] # "none"

\* The lease of a session that ended is removed, also when its release failed
\* or its process died: no capacity is lost for ever.
AbandonedIsReclaimed ==
    \A c \in Conns : session[c] \in {"closing", "done"} /\ Has(c) ~> ~Has(c)
=============================================================================
