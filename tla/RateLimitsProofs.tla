-------------------------- MODULE RateLimitsProofs --------------------------
(***************************************************************************)
(* The allowance of postgres_rate_limits.py is exact for every number of   *)
(* tasks, keys, windows, buckets and database errors.                      *)
(***************************************************************************)
EXTENDS RateLimits, FiniteSetTheorems, TLAPS

PCs == {"idle", "window", "update", "blocked", "read", "insert", "incremented",
        "inserted", "cap", "delete", "pruned", "allowed", "rejected", "full", "failed"}

Records == [Tasks -> [pc : PCs, key : Keys \cup {None}, window : Windows, second : BOOLEAN]]

Types ==
    /\ clock \in Windows
    /\ count \in [Buckets -> Nat] /\ spent \in [Buckets -> Nat]
    /\ locked \in [Buckets -> Tasks \cup {None}]
    /\ req \in Records

\* A task that works on a bucket has a key; only maintenance prunes without.
Keyed(p) ==
    /\ req[p].pc \in {"window", "update", "blocked", "read", "insert", "incremented", "inserted", "rejected"}
       => req[p].key \in Keys
    /\ p # "maintenance" /\ req[p].pc \in {"cap", "delete"} => req[p].key \in Keys

\* A live row counts what was spent; a pruned one counts nothing.
Counted(b) ==
    /\ spent[b] <= Limit
    /\ count[b] = spent[b] \/ (count[b] = 0 /\ Expired(b))

\* The capacity lock is held from the DELETE to the end of the transaction.
HoldsCap(p) ==
    /\ req[p].pc \in {"delete", "pruned", "insert", "inserted"} => cap = p
    /\ req[p].pc \in {"window", "update", "blocked", "read", "incremented"} /\ req[p].second => cap = p
    /\ req[p].pc \in {"insert", "inserted"} => req[p].second

\* Under the capacity lock no other transaction removes or adds a row: the
\* bucket still counts exactly what was spent, also after its window ended.
Fresh(p) ==
    /\ req[p].second /\ req[p].pc \in {"update", "blocked", "read", "insert", "incremented", "inserted"}
       => count[Bucket(p)] = spent[Bucket(p)]
    /\ At(p, "inserted") => count[Bucket(p)] = 0 /\ Cardinality(Rows) < MaxBuckets

\* The increment waits for its commit under the lock of its row.
Incremented(p) ==
    At(p, "incremented") =>
        /\ locked[Bucket(p)] = p
        /\ count[Bucket(p)] = spent[Bucket(p)]
        /\ count[Bucket(p)] \in 1..(Limit - 1)

Refused(p) == At(p, "rejected") => spent[Bucket(p)] >= Limit

Bounded == IsFiniteSet(Rows) /\ Cardinality(Rows) <= MaxBuckets

TaskInv(p) == Keyed(p) /\ HoldsCap(p) /\ Fresh(p) /\ Incremented(p) /\ Refused(p)

\* The inductive invariant.
IInv ==
    /\ Types
    /\ Bounded
    /\ \A b \in Buckets : Counted(b)
    /\ \A p \in Tasks : TaskInv(p)

-----------------------------------------------------------------------------
(* Facts about buckets and steps that several actions use.                 *)

\* What a step of task p leaves to the others, and how it moves p.
Frame(p) == \A q \in Tasks \ {p} : req'[q] = req[q]
OwnLocks(p) ==
    /\ \A q \in Tasks \ {p} : cap = q => cap' = q
    /\ \A q \in Tasks \ {p}, b \in Buckets : locked[b] = q => locked'[b] = q
Moved(p, c) ==
    /\ req' \in Records /\ Frame(p)
    /\ req'[p].pc = c /\ req'[p].key = req[p].key
    /\ req'[p].window = req[p].window /\ req'[p].second = req[p].second
    /\ Bucket(p)' = Bucket(p)

\* A task with a key addresses a bucket.
LEMMA BucketInDomain ==
    ASSUME Types, NEW p \in Tasks, req[p].key \in Keys
    PROVE  Bucket(p) \in Buckets
BY DEF Types, Records, Bucket, Buckets

\* A step that leaves counts and clock alone, releases only its own locks and
\* re-establishes the invariant of its own task preserves the invariant.
LEMMA QuietStep ==
    ASSUME IInv, NEW p \in Tasks, Types', TaskInv(p)',
           UNCHANGED <<clock, count, spent>>,
           Frame(p), OwnLocks(p)
    PROVE  IInv'
<1>1. Rows' = Rows
    BY DEF Rows
<1>2. Bounded'
    BY <1>1 DEF IInv, Bounded
<1>3. \A b \in Buckets : Counted(b)'
    BY DEF IInv, Counted, Expired
<1>4. ASSUME NEW q \in Tasks, q # p PROVE TaskInv(q)'
    <2>1. TaskInv(q) /\ Types
        BY DEF IInv
    <2>2. req'[q] = req[q] /\ Bucket(q)' = Bucket(q)
        BY <1>4 DEF Bucket, Frame
    <2>3. Keyed(q)' /\ HoldsCap(q)' /\ Refused(q)'
        BY <1>4, <2>1, <2>2 DEF TaskInv, Keyed, HoldsCap, Refused, At, OwnLocks
    <2>4. Fresh(q)'
        BY <1>1, <2>1, <2>2 DEF TaskInv, Fresh, At
    <2>5. Incremented(q)'
        <3>1. CASE At(q, "incremented")
            <4>1. Bucket(q) \in Buckets
                BY <2>1, <3>1, BucketInDomain DEF TaskInv, Keyed, At
            <4>2. locked'[Bucket(q)] = q
                BY <1>4, <2>1, <3>1, <4>1 DEF TaskInv, Incremented, OwnLocks
            <4>3. QED
                BY <2>1, <2>2, <3>1, <4>2 DEF TaskInv, Incremented, At
        <3>2. CASE ~At(q, "incremented")
            BY <2>2, <3>2 DEF Incremented, At
        <3>3. QED
            BY <3>1, <3>2
    <2>6. QED
        BY <2>3, <2>4, <2>5 DEF TaskInv
<1>5. QED
    BY <1>2, <1>3, <1>4 DEF IInv

\* What the end of a transaction does to the locks of the others.
LEMMA EndKeepsOthers ==
    ASSUME Types, NEW p \in Tasks, EndTransaction(p)
    PROVE  locked' \in [Buckets -> Tasks \cup {None}] /\ OwnLocks(p)
BY DEF Types, EndTransaction, Unlocked, OwnLocks

\* Moving the program counter changes nothing else of the task.
LEMMA GoMoves ==
    ASSUME Types, NEW p \in Tasks, NEW c \in PCs, Go(p, c)
    PROVE  Moved(p, c)
<1>1. /\ req' \in Records /\ Frame(p)
      /\ req'[p].pc = c /\ req'[p].key = req[p].key
      /\ req'[p].window = req[p].window /\ req'[p].second = req[p].second
    BY DEF Types, Go, Records, Frame
<1>2. QED
    BY <1>1 DEF Bucket, Moved

\* A task with no claim on a bucket or a lock satisfies its invariant.
LEMMA NoClaim ==
    ASSUME NEW p \in Tasks,
           req[p].pc \in {"idle", "allowed", "full", "failed"}
    PROVE  TaskInv(p)
BY DEF TaskInv, Keyed, HoldsCap, Fresh, Incremented, Refused, At

\* The empty table satisfies the inductive invariant.
LEMMA Initial == ASSUME Init PROVE IInv
<1>1. Types
    BY LimitsAssumption DEF Init, Types, Records, Idle, PCs, Windows, Tasks
<1>2. Rows = {}
    BY DEF Init, Rows
<1>3. Bounded
    <2>1. IsFiniteSet({}) /\ Cardinality({}) = 0
        BY FS_EmptySet
    <2>2. MaxBuckets \in Nat
        BY LimitsAssumption
    <2>3. QED
        BY <1>2, <2>1, <2>2 DEF Bounded
<1>4. \A b \in Buckets : Counted(b)
    BY LimitsAssumption DEF Init, Counted
<1>5. \A p \in Tasks : TaskInv(p)
    BY NoClaim DEF Init, Idle
<1>6. QED
    BY <1>1, <1>3, <1>4, <1>5 DEF IInv

-----------------------------------------------------------------------------
(* One lemma per action.                                                   *)

\* A request begins its first transaction without any lock.
LEMMA RequestStep ==
    ASSUME IInv, NEW p \in Requests, NEW k \in Keys, Request(p, k)
    PROVE  IInv'
<1>1. Types /\ p \in Tasks
    BY DEF IInv, Tasks
<1>2. /\ req' \in Records
      /\ Frame(p)
      /\ req'[p].pc = "window" /\ req'[p].key = k /\ req'[p].second = FALSE
    <2> DEFINE r == [pc |-> "window", key |-> k, window |-> 0, second |-> FALSE]
    <2>1. req' = [req EXCEPT ![p] = r]
        BY DEF Request
    <2>2. 0 \in Windows
        BY LimitsAssumption DEF Windows
    <2>3. r \in [pc : PCs, key : Keys \cup {None}, window : Windows, second : BOOLEAN]
        BY <2>2 DEF PCs
    <2>4. QED
        BY <1>1, <2>1, <2>3 DEF Types, Records, Frame
<1>3. Types'
    BY <1>1, <1>2 DEF Types, Request
<1>4. TaskInv(p)'
    BY <1>2 DEF TaskInv, Keyed, HoldsCap, Fresh, Incremented, Refused, At
<1>5. QED
    BY <1>1, <1>2, <1>3, <1>4, QuietStep DEF Request, OwnLocks

\* The bucket of the current window is live when its number is read.
LEMMA DatabaseWindowStep ==
    ASSUME IInv, NEW p \in Tasks, DatabaseWindow(p)
    PROVE  IInv'
<1>1. Types /\ TaskInv(p) /\ At(p, "window")
    BY DEF IInv, DatabaseWindow
<1>2. /\ req' \in Records
      /\ Frame(p)
      /\ req'[p].pc = "update" /\ req'[p].key = req[p].key
      /\ req'[p].window = clock /\ req'[p].second = req[p].second
    BY <1>1 DEF Types, Records, Frame, DatabaseWindow, WindowOf, PCs
<1>3. Types'
    BY <1>1, <1>2 DEF Types, DatabaseWindow
<1>4. req[p].key \in Keys
    BY <1>1 DEF TaskInv, Keyed, At
<1>5. Bucket(p)' = <<req[p].key, clock>>
    BY <1>2 DEF Bucket
<1>6. Bucket(p)' \in Buckets /\ ~Expired(Bucket(p)')
    BY <1>1, <1>4, <1>5 DEF Types, Buckets, Windows, Expired
<1>7. count[Bucket(p)'] = spent[Bucket(p)']
    BY <1>6 DEF IInv, Counted
<1>8. Keyed(p)' /\ HoldsCap(p)' /\ Incremented(p)' /\ Refused(p)'
    BY <1>1, <1>2, <1>4 DEF TaskInv, Keyed, HoldsCap, Incremented, Refused, At, DatabaseWindow
<1>9. Fresh(p)'
    BY <1>2, <1>7 DEF Fresh, At, DatabaseWindow
<1>10. QED
    BY <1>1, <1>2, <1>3, <1>8, <1>9, QuietStep DEF DatabaseWindow, TaskInv, OwnLocks

\* A bucket whose UPDATE finds a row counts what was spent.
LEMMA IncrementsCounted ==
    ASSUME IInv, NEW b \in Buckets, Increments(b)
    PROVE  count[b] = spent[b] /\ count[b] \in 1..(Limit - 1) /\ b \in Rows
BY LimitsAssumption DEF IInv, Types, Increments, Counted, Rows

\* The UPDATE locks a live row, waits for its lock, or finds none.
LEMMA IncrementExistingStep ==
    ASSUME IInv, NEW p \in Tasks, IncrementExisting(p)
    PROVE  IInv'
<1>1. Types /\ TaskInv(p) /\ At(p, "update")
    BY DEF IInv, IncrementExisting
<1>2. req[p].key \in Keys /\ Bucket(p) \in Buckets
    BY <1>1, BucketInDomain DEF TaskInv, Keyed, At
<1>3. UNCHANGED <<clock, count, cap, spent>>
    BY DEF IncrementExisting
<1>4. CASE Increments(Bucket(p)) /\ locked[Bucket(p)] \in {None, p}
           /\ locked' = [locked EXCEPT ![Bucket(p)] = p] /\ Go(p, "incremented")
    <2>1. Moved(p, "incremented")
        BY <1>1, <1>4, GoMoves DEF PCs
    <2>2. /\ locked' \in [Buckets -> Tasks \cup {None}] /\ OwnLocks(p)
          /\ locked'[Bucket(p)] = p
        BY <1>1, <1>2, <1>3, <1>4, LimitsAssumption DEF Types, OwnLocks, Tasks
    <2>3. Types'
        BY <1>1, <1>3, <2>1, <2>2 DEF Types, Moved
    <2>4. TaskInv(p)'
        <3>1. Keyed(p)' /\ HoldsCap(p)' /\ Refused(p)'
            BY <1>1, <1>2, <1>3, <2>1 DEF TaskInv, Keyed, HoldsCap, Refused, At, Moved
        <3>2. Fresh(p)' /\ Incremented(p)'
            BY <1>2, <1>3, <1>4, <2>1, <2>2, IncrementsCounted DEF Fresh, Incremented, At, Moved
        <3>3. QED
            BY <3>1, <3>2 DEF TaskInv
    <2>5. QED
        BY <1>3, <2>1, <2>2, <2>3, <2>4, QuietStep DEF Moved
<1>5. ASSUME NEW c \in {"blocked", "read"}, Go(p, c), UNCHANGED locked PROVE IInv'
    <2>1. Moved(p, c)
        BY <1>1, <1>5, GoMoves DEF PCs
    <2>2. Types' /\ OwnLocks(p)
        BY <1>1, <1>3, <1>5, <2>1 DEF Types, Moved, OwnLocks
    <2>3. TaskInv(p)'
        BY <1>1, <1>2, <1>3, <2>1
        DEF TaskInv, Keyed, HoldsCap, Fresh, Incremented, Refused, At, Moved
    <2>4. QED
        BY <1>3, <2>1, <2>2, <2>3, QuietStep DEF Moved
<1>6. QED
    BY <1>4, <1>5 DEF IncrementExisting

\* After the wait the condition is evaluated on the row as it is now.
LEMMA UnblockedStep ==
    ASSUME IInv, NEW p \in Tasks, Unblocked(p)
    PROVE  IInv'
<1>1. Types /\ TaskInv(p) /\ At(p, "blocked")
    BY DEF IInv, Unblocked
<1>2. req[p].key \in Keys /\ Bucket(p) \in Buckets
    BY <1>1, BucketInDomain DEF TaskInv, Keyed, At
<1>3. UNCHANGED <<clock, count, cap, spent>>
    BY DEF Unblocked
<1>4. PICK c \in {"incremented", "read"} : Go(p, c) /\ (c = "incremented" => Increments(Bucket(p)))
    BY DEF Unblocked
<1>5. Moved(p, c)
    BY <1>1, <1>4, GoMoves DEF PCs
<1>6. /\ locked' \in [Buckets -> Tasks \cup {None}] /\ OwnLocks(p)
      /\ Bucket(p) \in Rows => locked'[Bucket(p)] = p
    BY <1>1, <1>2, <1>3, LimitsAssumption DEF Types, OwnLocks, Tasks, Unblocked
<1>7. Types'
    BY <1>1, <1>3, <1>5, <1>6 DEF Types, Moved
<1>8. Keyed(p)' /\ HoldsCap(p)' /\ Refused(p)' /\ Fresh(p)'
    BY <1>1, <1>2, <1>3, <1>5 DEF TaskInv, Keyed, HoldsCap, Refused, Fresh, At, Moved
<1>9. Incremented(p)'
    BY <1>2, <1>3, <1>4, <1>5, <1>6, IncrementsCounted DEF Incremented, At, Moved
<1>10. QED
    BY <1>3, <1>5, <1>6, <1>7, <1>8, <1>9, QuietStep DEF Moved, TaskInv

\* A refusal is read from a live row; a miss gives up its locks.
LEMMA ReadExistingStep ==
    ASSUME IInv, NEW p \in Tasks, ReadExisting(p)
    PROVE  IInv'
<1>1. Types /\ TaskInv(p) /\ At(p, "read")
    BY DEF IInv, ReadExisting
<1>2. req[p].key \in Keys /\ Bucket(p) \in Buckets
    BY <1>1, BucketInDomain DEF TaskInv, Keyed, At
<1>3. UNCHANGED <<clock, count, spent>>
    BY DEF ReadExisting
<1>4. CASE Bucket(p) \in Rows /\ ~Expired(Bucket(p)) /\ count[Bucket(p)] >= Limit
           /\ EndTransaction(p) /\ Go(p, "rejected")
    <2>1. Moved(p, "rejected")
        BY <1>1, <1>4, GoMoves DEF PCs
    <2>2. locked' \in [Buckets -> Tasks \cup {None}] /\ OwnLocks(p)
        BY <1>1, <1>4, EndKeepsOthers
    <2>3. Types'
        BY <1>1, <1>3, <2>1, <2>2 DEF Types, Moved
    <2>4. spent[Bucket(p)] >= Limit
        BY <1>2, <1>4 DEF IInv, Counted
    <2>5. TaskInv(p)'
        BY <1>2, <1>3, <2>1, <2>4
        DEF TaskInv, Keyed, HoldsCap, Fresh, Incremented, Refused, At, Moved
    <2>6. QED
        BY <1>3, <2>1, <2>2, <2>3, <2>5, QuietStep DEF Moved
<1>5. CASE Go(p, "update") /\ UNCHANGED <<locked, cap>>
    <2>1. Moved(p, "update")
        BY <1>1, <1>5, GoMoves DEF PCs
    <2>2. Types' /\ OwnLocks(p)
        BY <1>1, <1>3, <1>5, <2>1 DEF Types, Moved, OwnLocks
    <2>3. TaskInv(p)'
        BY <1>1, <1>2, <1>3, <1>5, <2>1
        DEF TaskInv, Keyed, HoldsCap, Fresh, Incremented, Refused, At, Moved
    <2>4. QED
        BY <1>3, <2>1, <2>2, <2>3, QuietStep DEF Moved
<1>6. CASE EndTransaction(p) /\ req' = [req EXCEPT ![p].pc = "cap", ![p].second = TRUE]
    <2>1. /\ req' \in Records /\ Frame(p)
          /\ req'[p].pc = "cap" /\ req'[p].key = req[p].key
        BY <1>1, <1>6 DEF Types, Records, Frame, PCs
    <2>2. locked' \in [Buckets -> Tasks \cup {None}] /\ OwnLocks(p)
        BY <1>1, <1>6, EndKeepsOthers
    <2>3. Types'
        BY <1>1, <1>3, <2>1, <2>2 DEF Types
    <2>4. TaskInv(p)'
        BY <1>2, <2>1 DEF TaskInv, Keyed, HoldsCap, Fresh, Incremented, Refused, At
    <2>5. QED
        BY <1>3, <2>1, <2>2, <2>3, <2>4, QuietStep
<1>7. CASE req[p].second /\ Go(p, "insert") /\ UNCHANGED <<locked, cap>>
    <2>1. Moved(p, "insert")
        BY <1>1, <1>7, GoMoves DEF PCs
    <2>2. Types' /\ OwnLocks(p)
        BY <1>1, <1>3, <1>7, <2>1 DEF Types, Moved, OwnLocks
    <2>3. TaskInv(p)'
        BY <1>1, <1>2, <1>3, <1>7, <2>1
        DEF TaskInv, Keyed, HoldsCap, Fresh, Incremented, Refused, At, Moved
    <2>4. QED
        BY <1>3, <2>1, <2>2, <2>3, QuietStep DEF Moved
<1>8. QED
    BY <1>4, <1>5, <1>6, <1>7 DEF ReadExisting, EndMiss

\* The capacity lock is taken only when nobody holds it.
LEMMA CapLockStep ==
    ASSUME IInv, NEW p \in Tasks, CapLock(p)
    PROVE  IInv'
<1>1. Types /\ TaskInv(p) /\ At(p, "cap") /\ Go(p, "delete") /\ cap = None /\ cap' = p
    BY DEF IInv, CapLock
<1>2. UNCHANGED <<clock, count, locked, spent>>
    BY DEF CapLock
<1>3. Moved(p, "delete")
    BY <1>1, GoMoves DEF PCs
<1>4. Types' /\ OwnLocks(p)
    BY <1>1, <1>2, <1>3, LimitsAssumption DEF Types, Moved, OwnLocks, Tasks
<1>5. TaskInv(p)'
    BY <1>1, <1>3 DEF TaskInv, Keyed, HoldsCap, Fresh, Incremented, Refused, At, Moved
<1>6. QED
    BY <1>2, <1>3, <1>4, <1>5, QuietStep DEF Moved

\* A step that ends a transaction of p without a write, and leaves p with
\* no claim.
LEMMA EndStep ==
    ASSUME IInv, NEW p \in Tasks, NEW c \in {"idle", "full", "failed"},
           EndTransaction(p), Go(p, c), UNCHANGED <<clock, count, spent>>
    PROVE  IInv'
<1>1. Types
    BY DEF IInv
<1>2. Moved(p, c)
    BY <1>1, GoMoves DEF PCs
<1>3. locked' \in [Buckets -> Tasks \cup {None}] /\ OwnLocks(p)
    BY <1>1, EndKeepsOthers
<1>4. Types'
    BY <1>1, <1>2, <1>3 DEF Types, Moved
<1>5. TaskInv(p)'
    BY <1>2 DEF TaskInv, Keyed, HoldsCap, Fresh, Incremented, Refused, At, Moved
<1>6. QED
    BY <1>2, <1>3, <1>4, <1>5, QuietStep DEF Moved

\* The INSERT goes ahead only below the capacity and without a row.
LEMMA InsertBucketStep ==
    ASSUME IInv, NEW p \in Tasks, InsertBucket(p)
    PROVE  IInv'
<1>1. Types /\ TaskInv(p) /\ At(p, "insert")
    BY DEF IInv, InsertBucket
<1>2. req[p].key \in Keys /\ Bucket(p) \in Buckets
    BY <1>1, BucketInDomain DEF TaskInv, Keyed, At
<1>3. UNCHANGED <<clock, count, spent>>
    BY DEF InsertBucket
<1>4. CASE \E c \in {"full", "failed"} : EndTransaction(p) /\ Go(p, c)
    BY <1>3, <1>4, EndStep
<1>5. CASE Cardinality(Rows) < MaxBuckets /\ Bucket(p) \notin Rows /\ Go(p, "inserted")
           /\ UNCHANGED <<locked, cap>>
    <2>1. Moved(p, "inserted")
        BY <1>1, <1>5, GoMoves DEF PCs
    <2>2. Types' /\ OwnLocks(p)
        BY <1>1, <1>3, <1>5, <2>1 DEF Types, Moved, OwnLocks
    <2>3. Keyed(p)' /\ HoldsCap(p)' /\ Incremented(p)' /\ Refused(p)'
        BY <1>1, <1>2, <1>5, <2>1 DEF TaskInv, Keyed, HoldsCap, Incremented, Refused, At, Moved
    <2>4. count[Bucket(p)] = 0
        BY <1>1, <1>2, <1>5 DEF Types, Rows
    <2>5. Rows' = Rows
        BY <1>3 DEF Rows
    <2>6. Fresh(p)'
        BY <1>1, <1>3, <1>5, <2>1, <2>4, <2>5 DEF TaskInv, Fresh, HoldsCap, At, Moved
    <2>7. QED
        BY <1>3, <2>1, <2>2, <2>3, <2>6, QuietStep DEF Moved, TaskInv
<1>6. QED
    BY <1>4, <1>5 DEF InsertBucket

\* Answering leaves the task without a claim.
LEMMA AnswerStep ==
    ASSUME IInv, NEW p \in Tasks, Answer(p)
    PROVE  IInv'
<1>1. Types
    BY DEF IInv
<1>2. Idle \in [pc : PCs, key : Keys \cup {None}, window : Windows, second : BOOLEAN]
    BY LimitsAssumption DEF Idle, PCs, Windows
<1>3. req' \in Records /\ Frame(p) /\ req'[p] = Idle
    BY <1>1, <1>2 DEF Types, Records, Frame, Answer
<1>4. Types' /\ OwnLocks(p)
    BY <1>1, <1>3 DEF Types, OwnLocks, Answer
<1>5. TaskInv(p)'
    BY <1>3 DEF TaskInv, Keyed, HoldsCap, Fresh, Incremented, Refused, At, Idle
<1>6. QED
    BY <1>3, <1>4, <1>5, QuietStep DEF Answer

\* prune_expired begins without locks and gives all of them back.
LEMMA PruneStep ==
    ASSUME IInv, BeginPrune \/ CommitPrune
    PROVE  IInv'
<1>1. "maintenance" \in Tasks /\ Types
    BY DEF IInv, Tasks
<1>2. CASE BeginPrune
    <2>1. Moved("maintenance", "cap")
        BY <1>1, <1>2, GoMoves DEF BeginPrune, PCs
    <2>2. Types' /\ OwnLocks("maintenance")
        BY <1>1, <1>2, <2>1 DEF Types, Moved, OwnLocks, BeginPrune
    <2>3. TaskInv("maintenance")'
        BY <2>1 DEF TaskInv, Keyed, HoldsCap, Fresh, Incremented, Refused, At, Moved
    <2>4. QED
        BY <1>1, <1>2, <2>1, <2>2, <2>3, QuietStep DEF Moved, BeginPrune
<1>3. CASE CommitPrune
    BY <1>1, <1>3, EndStep DEF CommitPrune
<1>4. QED
    BY <1>2, <1>3

\* The commit of an increment or of an insert: with a row lock or with the
\* capacity lock, no other task works on the same count.
LEMMA ConsumeStep ==
    ASSUME IInv, NEW p \in Tasks, NEW c \in {"allowed", "failed"},
           req[p].pc \in {"incremented", "inserted"},
           Consumed(p), EndTransaction(p), Go(p, c), UNCHANGED clock
    PROVE  IInv'
<1> DEFINE b == Bucket(p)
<1>1. Types /\ TaskInv(p)
    BY DEF IInv
<1>2. b \in Buckets
    BY <1>1, BucketInDomain DEF TaskInv, Keyed
<1>3. Moved(p, c)
    BY <1>1, GoMoves DEF PCs
<1>4. locked' \in [Buckets -> Tasks \cup {None}] /\ OwnLocks(p)
    BY <1>1, EndKeepsOthers
<1>5. /\ count \in [Buckets -> Nat] /\ spent \in [Buckets -> Nat]
      /\ count' \in [Buckets -> Nat] /\ spent' \in [Buckets -> Nat]
      /\ count'[b] = count[b] + 1 /\ spent'[b] = spent[b] + 1
      /\ \A d \in Buckets \ {b} : count'[d] = count[d] /\ spent'[d] = spent[d]
    BY <1>1, <1>2 DEF Types, Consumed
<1>6. Types'
    BY <1>1, <1>3, <1>4, <1>5 DEF Types, Moved
<1>7. count[b] = spent[b] /\ count[b] < Limit
    <2>1. CASE At(p, "incremented")
        BY <1>1, <1>2, <1>5, <2>1, LimitsAssumption DEF TaskInv, Incremented
    <2>2. CASE At(p, "inserted")
        BY <1>1, <2>2, LimitsAssumption DEF TaskInv, Fresh, HoldsCap, At
    <2>3. QED
        BY <2>1, <2>2 DEF At
<1>8. ASSUME NEW d \in Buckets PROVE Counted(d)'
    <2>1. Counted(d) /\ Limit \in Nat
        BY LimitsAssumption DEF IInv
    <2>2. CASE d = b
        BY <1>5, <1>7, <2>1, <2>2 DEF Counted
    <2>3. CASE d # b
        BY <1>5, <2>1, <2>3 DEF Counted, Expired
    <2>4. QED
        BY <2>2, <2>3
<1>9. Bounded' /\ (At(p, "incremented") => Rows' = Rows)
    <2>1. IsFiniteSet(Rows) /\ Cardinality(Rows) \in Nat /\ Cardinality(Rows) <= MaxBuckets
        BY FS_CardinalityType DEF IInv, Bounded
    <2>2. Rows' = Rows \cup {b}
        BY <1>2, <1>5 DEF Rows
    <2>3. CASE At(p, "incremented")
        <3>1. b \in Rows
            BY <1>1, <1>2, <1>5, <2>3, LimitsAssumption DEF TaskInv, Incremented, Rows
        <3>2. Rows' = Rows
            BY <2>2, <3>1
        <3>3. QED
            BY <2>1, <3>2 DEF Bounded
    <2>4. CASE At(p, "inserted")
        <3>1. b \notin Rows /\ Cardinality(Rows) < MaxBuckets
            BY <1>1, <2>4 DEF TaskInv, Fresh, Rows
        <3>2. IsFiniteSet(Rows \cup {b}) /\ Cardinality(Rows \cup {b}) = Cardinality(Rows) + 1
            BY <2>1, <3>1, FS_AddElement
        <3>3. Bounded'
            BY <2>1, <2>2, <3>1, <3>2, LimitsAssumption DEF Bounded
        <3>4. QED
            BY <2>4, <3>3 DEF At
    <2>5. QED
        BY <2>3, <2>4 DEF At
<1>10. TaskInv(p)'
    BY <1>3 DEF TaskInv, Keyed, HoldsCap, Fresh, Incremented, Refused, At, Moved
<1>11. ASSUME NEW q \in Tasks, q # p PROVE TaskInv(q)'
    <2>1. TaskInv(q) /\ req'[q] = req[q] /\ Bucket(q)' = Bucket(q)
        BY <1>3, <1>11 DEF IInv, Moved, Frame, Bucket
    <2>2. Keyed(q)' /\ HoldsCap(q)'
        BY <1>4, <1>11, <2>1 DEF TaskInv, Keyed, HoldsCap, OwnLocks
    <2>3. At(q, "incremented") => Bucket(q) \in Buckets /\ Bucket(q) # b
        <3>1. ASSUME At(q, "incremented") PROVE Bucket(q) \in Buckets /\ Bucket(q) # b
            <4>1. Bucket(q) \in Buckets
                BY <1>1, <2>1, <3>1, BucketInDomain DEF TaskInv, Keyed, At
            <4>2. locked[Bucket(q)] = q /\ count[Bucket(q)] \in 1..(Limit - 1)
                BY <2>1, <3>1 DEF TaskInv, Incremented
            <4>3. CASE At(p, "incremented")
                BY <1>1, <1>11, <4>1, <4>2, <4>3 DEF TaskInv, Incremented
            <4>4. CASE At(p, "inserted")
                BY <1>1, <4>1, <4>2, <4>4, LimitsAssumption DEF TaskInv, Fresh
            <4>5. QED
                BY <4>3, <4>4 DEF At
        <3>2. QED
            BY <3>1
    <2>4. Incremented(q)'
        BY <1>4, <1>5, <1>11, <2>1, <2>3 DEF TaskInv, Incremented, At, OwnLocks
    <2>5. Refused(q)'
        <3>1. CASE At(q, "rejected")
            <4>1. Bucket(q) \in Buckets /\ spent[Bucket(q)] >= Limit
                BY <1>1, <2>1, <3>1, BucketInDomain DEF TaskInv, Keyed, Refused, At
            <4>2. spent'[Bucket(q)] >= Limit
                BY <1>2, <1>5, <4>1, LimitsAssumption
            <4>3. QED
                BY <2>1, <4>2 DEF Refused
        <3>2. CASE ~At(q, "rejected")
            BY <2>1, <3>2 DEF Refused, At
        <3>3. QED
            BY <3>1, <3>2
    <2>6. Fresh(q)'
        <3>1. ASSUME req[q].second,
                     req[q].pc \in {"update", "blocked", "read", "insert", "incremented", "inserted"}
              PROVE  count'[Bucket(q)] = spent'[Bucket(q)]
            <4>1. Bucket(q) \in Buckets /\ count[Bucket(q)] = spent[Bucket(q)]
                BY <1>1, <2>1, <3>1, BucketInDomain DEF TaskInv, Keyed, Fresh
            <4>2. QED
                BY <1>2, <1>5, <4>1
        <3>2. ASSUME At(q, "inserted") PROVE count'[Bucket(q)] = 0 /\ Cardinality(Rows') < MaxBuckets
            <4>1. cap = q /\ Bucket(q) \in Buckets /\ count[Bucket(q)] = 0 /\ Cardinality(Rows) < MaxBuckets
                BY <1>1, <2>1, <3>2, BucketInDomain DEF TaskInv, Keyed, Fresh, HoldsCap, At
            <4>2. At(p, "incremented")
                BY <1>1, <1>11, <4>1 DEF TaskInv, HoldsCap, At
            <4>3. Bucket(q) # b
                BY <1>1, <4>1, <4>2, LimitsAssumption DEF TaskInv, Incremented
            <4>4. QED
                BY <1>5, <1>9, <4>1, <4>2, <4>3
        <3>3. QED
            BY <2>1, <3>1, <3>2 DEF Fresh, At
    <2>7. QED
        BY <2>2, <2>4, <2>5, <2>6 DEF TaskInv
<1>12. QED
    BY <1>6, <1>8, <1>9, <1>10, <1>11 DEF IInv

\* The commit of consume.
LEMMA CommitStep ==
    ASSUME IInv, NEW p \in Tasks, Commit(p)
    PROVE  IInv'
BY ConsumeStep DEF Commit

\* A database error before the commit, or after it with the answer lost.
LEMMA AbortStep ==
    ASSUME IInv, NEW p \in Tasks, Abort(p)
    PROVE  IInv'
<1>1. CASE req[p].pc \in {"incremented", "inserted"} /\ Consumed(p)
    BY <1>1, ConsumeStep DEF Abort
<1>2. CASE UNCHANGED <<count, spent>>
    BY <1>2, EndStep DEF Abort
<1>3. QED
    BY <1>1, <1>2 DEF Abort

\* The DELETE of expired rows leaves alone every row that is being
\* incremented, and no other task relies on the capacity lock.
LEMMA DeleteExpiredStep ==
    ASSUME IInv, NEW p \in Tasks, DeleteExpired(p)
    PROVE  IInv'
<1>1. Types /\ TaskInv(p) /\ At(p, "delete") /\ cap = p /\ UNCHANGED <<clock, cap, spent>>
    BY DEF IInv, DeleteExpired, TaskInv, HoldsCap, At
<1>2. PICK c \in {"pruned", "window"} : Go(p, c) /\ (c = "window" => p # "maintenance")
    BY DEF DeleteExpired
<1>3. Moved(p, c)
    BY <1>1, <1>2, GoMoves DEF PCs
<1>4. /\ count' \in [Buckets -> Nat]
      /\ locked' \in [Buckets -> Tasks \cup {None}]
      /\ \A b \in Buckets : count'[b] = IF Expired(b) THEN 0 ELSE count[b]
      /\ \A b \in Buckets : locked'[b] = IF Expired(b) THEN None ELSE locked[b]
    BY <1>1 DEF Types, DeleteExpired
<1>5. Types'
    BY <1>1, <1>3, <1>4 DEF Types, Moved
<1>6. \A b \in Buckets : Counted(b)'
    BY <1>1, <1>4 DEF IInv, Counted, Expired
<1>7. Bounded'
    <2>1. IsFiniteSet(Rows) /\ Cardinality(Rows) \in Nat /\ Cardinality(Rows) <= MaxBuckets
        BY FS_CardinalityType DEF IInv, Bounded
    <2>2. Rows' \subseteq Rows
        BY <1>4 DEF Rows
    <2>3. IsFiniteSet(Rows') /\ Cardinality(Rows') <= Cardinality(Rows)
        BY <2>1, <2>2, FS_Subset
    <2>4. Cardinality(Rows') \in Nat
        BY <2>3, FS_CardinalityType
    <2>5. QED
        BY <2>1, <2>3, <2>4, LimitsAssumption DEF Bounded
<1>8. TaskInv(p)'
    BY <1>1, <1>2, <1>3 DEF TaskInv, Keyed, HoldsCap, Fresh, Incremented, Refused, At, Moved
<1>9. ASSUME NEW q \in Tasks, q # p PROVE TaskInv(q)'
    <2>1. TaskInv(q) /\ req'[q] = req[q] /\ Bucket(q)' = Bucket(q)
        BY <1>3, <1>9 DEF IInv, Moved, Frame, Bucket
    <2>2. Keyed(q)' /\ HoldsCap(q)' /\ Refused(q)'
        BY <1>1, <2>1 DEF TaskInv, Keyed, HoldsCap, Refused, At
    <2>3. Fresh(q)'
        BY <1>1, <1>9, <2>1 DEF TaskInv, HoldsCap, Fresh, At
    <2>4. Incremented(q)'
        <3>1. CASE At(q, "incremented")
            <4>1. Bucket(q) \in Buckets
                BY <1>1, <2>1, <3>1, BucketInDomain DEF TaskInv, Keyed, At
            <4>2. locked[Bucket(q)] = q /\ count[Bucket(q)] \in 1..(Limit - 1) /\ Bucket(q) \in Rows
                BY <1>1, <2>1, <3>1, <4>1, LimitsAssumption DEF TaskInv, Incremented, Rows, Types
            <4>3. ~Expired(Bucket(q))
                BY <1>9, <4>2, LimitsAssumption DEF DeleteExpired, Tasks
            <4>4. QED
                BY <1>1, <1>4, <2>1, <3>1, <4>1, <4>3 DEF TaskInv, Incremented, At
        <3>2. CASE ~At(q, "incremented")
            BY <2>1, <3>2 DEF Incremented, At
        <3>3. QED
            BY <3>1, <3>2
    <2>5. QED
        BY <2>2, <2>3, <2>4 DEF TaskInv
<1>10. QED
    BY <1>5, <1>6, <1>7, <1>8, <1>9 DEF IInv

\* A bucket that is expired stays expired.
LEMMA TickStep ==
    ASSUME IInv, Tick
    PROVE  IInv'
<1>1. Types /\ Rows' = Rows /\ clock \in Nat /\ clock' = clock + 1
    BY LimitsAssumption DEF IInv, Types, Rows, Tick, Windows
<1>2. Types'
    BY <1>1, LimitsAssumption DEF Types, Tick, Windows
<1>3. Bounded'
    BY <1>1 DEF IInv, Bounded
<1>4. \A b \in Buckets : Counted(b)'
    BY <1>1, LimitsAssumption DEF IInv, Counted, Expired, Tick, Buckets, Windows
<1>5. ASSUME NEW p \in Tasks PROVE TaskInv(p)'
    BY <1>1 DEF IInv, TaskInv, Keyed, HoldsCap, Fresh, Incremented, Refused, At, Bucket, Tick
<1>6. QED
    BY <1>2, <1>3, <1>4, <1>5 DEF IInv

\* A step that changes nothing preserves the invariant.
LEMMA StutterStep ==
    ASSUME IInv, UNCHANGED vars
    PROVE  IInv'
<1>1. Rows' = Rows
    BY DEF Rows, vars
<1>2. QED
    BY <1>1 DEF vars, IInv, Types, Bounded, Counted, Expired, TaskInv, Keyed, HoldsCap,
                Fresh, Incremented, Refused, At, Bucket

\* Every step of the specification preserves the invariant.
LEMMA Inductive == ASSUME IInv, [Next]_vars PROVE IInv'
<1>1. ASSUME NEW p \in Tasks, Step(p) PROVE IInv'
    BY <1>1, DatabaseWindowStep, IncrementExistingStep, UnblockedStep, ReadExistingStep,
       CapLockStep, DeleteExpiredStep, InsertBucketStep, CommitStep, AnswerStep DEF Step
<1>2. QED
    BY <1>1, RequestStep, AbortStep, PruneStep, TickStep, StutterStep DEF Next

\* The invariant implies the property.
LEMMA Exact == ASSUME IInv PROVE AllowanceExact
<1>1. WithinAllowance /\ WithinBuckets
    BY DEF IInv, Counted, Bounded, WithinAllowance, WithinBuckets
<1>2. RefusedWhenSpent
    BY DEF IInv, TaskInv, Refused, RefusedWhenSpent, Tasks
<1>3. QED
    BY <1>1, <1>2 DEF AllowanceExact

\* PostgresRateLimiter.consume admits at most the allowance of a key in every
\* window, refuses only when it is used up, and never stores more than
\* max_buckets rows, however requests, pruning, errors and clock interleave.
THEOREM RateLimitExact == Spec => []AllowanceExact
<1>1. Init => IInv
    BY Initial
<1>2. IInv /\ [Next]_vars => IInv'
    BY Inductive
<1>3. IInv => AllowanceExact
    BY Exact
<1>4. QED
    BY <1>1, <1>2, <1>3, PTL DEF Spec
=============================================================================
