----------------------------- MODULE RateLimits -----------------------------
(***************************************************************************)
(* postgres_rate_limits.py: the rate buckets that all replicas share, as   *)
(* the requests and the maintenance of several processes use them.  One    *)
(* step is one statement of a READ COMMITTED transaction.                  *)
(*                                                                         *)
(* Time is the number of the current window (database time, window_seconds *)
(* of it): a bucket of window w is expired as soon as w < clock.  A bucket *)
(* is addressed by <<key, window>>; the digest of the key and the scope    *)
(* are part of the key.                                                    *)
(***************************************************************************)
EXTENDS Naturals, FiniteSets

CONSTANTS
    Requests,       \* tasks of any process that serve one request at a time
    Keys,           \* scope and subject of a limited operation
    Limit,          \* allowance per key and window
    MaxBuckets,     \* max_buckets
    MaxClock,       \* bound: windows
    MaxRequests,    \* bound: requests served
    MaxFaults,      \* bound: transactions that end with a database error
    None            \* no lock holder, no key

ASSUME LimitsAssumption ==
    /\ {Limit, MaxBuckets} \subseteq Nat \ {0}
    /\ {MaxClock, MaxRequests, MaxFaults} \subseteq Nat
    /\ None \notin Requests \cup {"maintenance"}

VARIABLES
    clock,      \* database time
    count,      \* committed event_count of every bucket, 0 where there is no row
    locked,     \* the transaction that holds the row lock of a bucket
    cap,        \* holder of POSTGRES_RATE_BUCKET_CAP_LOCK_ID
    req,        \* for each task: program counter, key, window, second transaction?
    served,     \* requests begun so far
    faults,     \* database errors so far
    spent       \* history: allowances committed per bucket

vars == <<clock, count, locked, cap, req, served, faults, spent>>

Windows == 0..MaxClock
Buckets == Keys \X Windows
Tasks == Requests \cup {"maintenance"}

Bucket(p) == <<req[p].key, req[p].window>>
Rows == {b \in Buckets : count[b] > 0}
Expired(b) == b[2] < clock
At(p, pc) == req[p].pc = pc
Go(p, pc) == req' = [req EXCEPT ![p].pc = pc]

\* A transaction ends: its row locks and its advisory lock are free again.
Unlocked(p) == [b \in Buckets |-> IF locked[b] = p THEN None ELSE locked[b]]
EndTransaction(p) == locked' = Unlocked(p) /\ cap' = IF cap = p THEN None ELSE cap

Idle == [pc |-> "idle", key |-> None, window |-> 0, second |-> FALSE]

Init ==
    /\ clock = 0 /\ served = 0 /\ faults = 0 /\ cap = None
    /\ count = [b \in Buckets |-> 0] /\ spent = [b \in Buckets |-> 0]
    /\ locked = [b \in Buckets |-> None]
    /\ req = [p \in Tasks |-> Idle]

-----------------------------------------------------------------------------
(* consume                                                                 *)

Request(p, k) ==
    /\ At(p, "idle") /\ served < MaxRequests
    /\ req' = [req EXCEPT ![p] = [pc |-> "window", key |-> k, window |-> 0, second |-> FALSE]]
    /\ served' = served + 1
    /\ UNCHANGED <<clock, count, locked, cap, faults, spent>>

\* mutant: the second transaction keeps the window of the first
FirstWindow(p) == IF req[p].second THEN req[p].window ELSE clock

\* statement_timestamp() in both transactions
WindowOf(p) == clock

\* _database_window
DatabaseWindow(p) ==
    /\ At(p, "window")
    /\ req' = [req EXCEPT ![p].window = WindowOf(p), ![p].pc = "update"]
    /\ UNCHANGED <<clock, count, locked, cap, served, faults, spent>>

\* The condition of the UPDATE of _increment_existing.
Increments(b) == count[b] \in 1..(Limit - 1) /\ ~Expired(b)

\* The UPDATE finds a row to increment, finds none, or waits for its lock.
IncrementExisting(p) ==
    LET b == Bucket(p)
    IN  /\ At(p, "update")
        /\ \/ Increments(b) /\ locked[b] \in {None, p}
              /\ locked' = [locked EXCEPT ![b] = p] /\ Go(p, "incremented")
           \/ Increments(b) /\ locked[b] \notin {None, p}
              /\ Go(p, "blocked") /\ UNCHANGED locked
           \/ ~Increments(b) /\ Go(p, "read") /\ UNCHANGED locked
        /\ UNCHANGED <<clock, count, cap, served, faults, spent>>

\* After the wait PostgreSQL locks the row that is there now and evaluates the
\* condition again; the lock stays when the condition fails.
Unblocked(p) ==
    LET b == Bucket(p)
    IN  /\ At(p, "blocked") /\ locked[b] = None
        /\ locked' = IF b \in Rows THEN [locked EXCEPT ![b] = p] ELSE locked
        /\ Go(p, IF Increments(b) THEN "incremented" ELSE "read")
        /\ UNCHANGED <<clock, count, cap, served, faults, spent>>

\* mutant: the capacity lock is awaited inside the first transaction
MissKeepsLocks(p) == UNCHANGED <<locked, cap>>

\* The first transaction ends before the capacity lock is taken.
EndMiss(p) == EndTransaction(p)

\* _read_existing, and what _consume_existing and consume make of it.
ReadExisting(p) ==
    LET b == Bucket(p)
        usable == b \in Rows /\ ~Expired(b)
    IN  /\ At(p, "read")
        /\ \/ usable /\ count[b] >= Limit /\ EndTransaction(p) /\ Go(p, "rejected")
           \/ usable /\ count[b] < Limit /\ Go(p, "update") /\ UNCHANGED <<locked, cap>>
           \/ ~usable /\ ~req[p].second /\ EndMiss(p)
              /\ req' = [req EXCEPT ![p].pc = "cap", ![p].second = TRUE]
           \/ ~usable /\ req[p].second /\ Go(p, "insert") /\ UNCHANGED <<locked, cap>>
        /\ UNCHANGED <<clock, count, served, faults, spent>>

\* pg_advisory_xact_lock, of a request or of prune_expired
CapLock(p) ==
    /\ At(p, "cap") /\ cap = None
    /\ cap' = p /\ Go(p, "delete")
    /\ UNCHANGED <<clock, count, locked, served, faults, spent>>

\* The DELETE of expired rows waits for those that an UPDATE holds.
DeleteExpired(p) ==
    /\ At(p, "delete")
    /\ \A b \in Rows : Expired(b) => locked[b] \in {None, p}
    /\ count' = [b \in Buckets |-> IF Expired(b) THEN 0 ELSE count[b]]
    /\ locked' = [b \in Buckets |-> IF Expired(b) THEN None ELSE locked[b]]
    /\ Go(p, IF p = "maintenance" THEN "pruned" ELSE "window")
    /\ UNCHANGED <<clock, cap, served, faults, spent>>

\* SELECT COUNT(*) and INSERT.  A row of this window that expired since the
\* DELETE is seen by neither the UPDATE nor the SELECT, and the INSERT fails
\* on its primary key.
InsertBucket(p) ==
    /\ At(p, "insert")
    /\ \/ Cardinality(Rows) >= MaxBuckets /\ EndTransaction(p) /\ Go(p, "full")
       \/ Cardinality(Rows) < MaxBuckets /\ Bucket(p) \in Rows /\ EndTransaction(p) /\ Go(p, "failed")
       \/ Cardinality(Rows) < MaxBuckets /\ Bucket(p) \notin Rows /\ Go(p, "inserted")
          /\ UNCHANGED <<locked, cap>>
    /\ UNCHANGED <<clock, count, served, faults, spent>>

Consumed(p) ==
    /\ count' = [count EXCEPT ![Bucket(p)] = @ + 1]
    /\ spent' = [spent EXCEPT ![Bucket(p)] = @ + 1]

Commit(p) ==
    /\ req[p].pc \in {"incremented", "inserted"}
    /\ Consumed(p) /\ EndTransaction(p) /\ Go(p, "allowed")
    /\ UNCHANGED <<clock, served, faults>>

\* The database ends the transaction: before its commit, or after it and the
\* answer is lost.
Abort(p) ==
    /\ faults < MaxFaults /\ faults' = faults + 1
    /\ req[p].pc \in {"update", "blocked", "read", "delete", "window", "insert", "incremented", "inserted", "pruned"}
    /\ \/ req[p].pc \in {"incremented", "inserted"} /\ Consumed(p)
       \/ UNCHANGED <<count, spent>>
    /\ EndTransaction(p) /\ Go(p, "failed")
    /\ UNCHANGED <<clock, served>>

\* The handler answers, and the task serves the next request.
Decided == {"allowed", "rejected", "full", "failed"}
Answer(p) ==
    /\ req[p].pc \in Decided /\ req' = [req EXCEPT ![p] = Idle]
    /\ UNCHANGED <<clock, count, locked, cap, served, faults, spent>>

-----------------------------------------------------------------------------
(* prune_expired                                                           *)

BeginPrune ==
    /\ At("maintenance", "idle") /\ Go("maintenance", "cap")
    /\ UNCHANGED <<clock, count, locked, cap, served, faults, spent>>

CommitPrune ==
    /\ At("maintenance", "pruned") /\ EndTransaction("maintenance") /\ Go("maintenance", "idle")
    /\ UNCHANGED <<clock, count, served, faults, spent>>

Tick == /\ clock < MaxClock /\ clock' = clock + 1
        /\ UNCHANGED <<count, locked, cap, req, served, faults, spent>>

Step(p) ==
    \/ DatabaseWindow(p) \/ IncrementExisting(p) \/ Unblocked(p) \/ ReadExisting(p)
    \/ CapLock(p) \/ DeleteExpired(p) \/ InsertBucket(p) \/ Commit(p) \/ Answer(p)

Next ==
    \/ \E p \in Requests, k \in Keys : Request(p, k)
    \/ \E p \in Tasks : Step(p) \/ Abort(p)
    \/ BeginPrune \/ CommitPrune
    \/ Tick

Spec == Init /\ [][Next]_vars

\* A statement that can run runs, and PostgreSQL grants the capacity lock in
\* the order in which it was asked for: maintenance, which takes it again and
\* again, does not pass a request over for ever.
FairSpec ==
    /\ Spec
    /\ \A p \in Tasks : WF_vars(Step(p))
    /\ \A p \in Requests : SF_vars(CapLock(p))
    /\ WF_vars(CommitPrune)

-----------------------------------------------------------------------------
(* Properties.                                                             *)

\* Every window of a key admits at most its allowance, also when requests read
\* the clock in one window and lock the bucket in the next.
WithinAllowance == \A b \in Buckets : spent[b] <= Limit

\* A request is refused only when its window's allowance was used up.
RefusedWhenSpent == \A p \in Requests : At(p, "rejected") => spent[Bucket(p)] >= Limit

\* The buckets never exceed their capacity.
WithinBuckets == Cardinality(Rows) <= MaxBuckets

\* consume is exact at the boundaries of windows and of the capacity.
AllowanceExact == WithinAllowance /\ RefusedWhenSpent /\ WithinBuckets

\* Every request is decided although requests wait for the rows of each other
\* and for the capacity lock, which maintenance takes before the rows.
RequestsDecided == \A p \in Requests : ~At(p, "idle") ~> req[p].pc \in Decided
=============================================================================
