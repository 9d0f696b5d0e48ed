--------------------------- MODULE WebhookOutbox ---------------------------
(***************************************************************************)
(* The transactional outbox of webhook deliveries (store.py and            *)
(* postgres_store.py), the dispatchers that drain it (webhooks.py) and the *)
(* one transport thread of each (webhook_transport.py), for one room.      *)
(*                                                                         *)
(* Leased tells the two backends apart.  SQLite has one process and runs   *)
(* every transaction alone.  PostgreSQL has several processes, claims rows *)
(* with a lease, and at READ COMMITTED each statement of a transaction     *)
(* sees what others committed before it: a mutation is split where that    *)
(* matters, between the statements that scrub and prune the outbox.        *)
(***************************************************************************)
EXTENDS Integers, FiniteSets

CONSTANTS
    Leased,         \* TRUE for PostgreSQL, FALSE for SQLite
    Workers,        \* processes, each with a dispatcher and a transport thread
    IdOf,           \* the worker id a process writes into its leases: its instance id,
                    \* which a displaced process shares with its replacement
    Messages,       \* message ids; each is created at most once
    Selected,       \* the bodies whose event types are in webhook_events
    MaxDeliveries,  \* max_webhook_deliveries
    MaxAttempts,    \* max_attempts
    MaxIds,         \* bound: deliveries ever inserted
    MaxReplays,     \* bound: retries asked for by an operator
    MaxFaults       \* bound: crashes, storage errors and leases lost at work

Ids == 1..MaxIds
Bodies == {"content", "tombstone", "moderation"}

ASSUME ConstantsAssumption ==
    /\ Leased \in BOOLEAN
    /\ MaxDeliveries \in Nat \ {0} /\ MaxAttempts \in Nat \ {0}
    /\ MaxIds \in Nat \ {0} /\ MaxReplays \in Nat /\ MaxFaults \in Nat
    /\ Selected \subseteq Bodies
    /\ "subject" \notin Messages /\ \A w \in Workers : IdOf[w] # "nobody"

VARIABLES
    (* database *)
    room,       \* the room exists
    msg,        \* each message: "none", "live", "deleted" (tombstone) or "gone"
    row,        \* webhook_deliveries; status "none" where there is no row
    nextId,     \* deliveries are numbered in the order they are created
    txn,        \* the mutation in progress (PostgreSQL only)
    (* dispatchers *)
    st,         \* "idle", "sending", "record" or "off"
    claim,      \* what next_webhook_delivery returned
    result,     \* the outcome of the attempt
    thread,     \* the transport thread is busy
    (* environment *)
    replays, faults,
    (* history *)
    holder,     \* the process whose dispatcher was the last to claim a row
    overtaken   \* rows another process than the holder has recorded on, since
                \* they were inserted or replayed

msgVars == <<room, msg>>
workVars == <<st, claim, result, thread>>
history == <<holder, overtaken>>
vars == <<msgVars, row, nextId, txn, workVars, replays, faults, history>>

NoRow == [status |-> "none", res |-> "subject", body |-> "none", attempts |-> 0,
          due |-> FALSE, code |-> "none", owner |-> "nobody", live |-> FALSE]
NewRow(res, body) ==
    [status |-> "pending", res |-> res, body |-> body, attempts |-> 0,
     due |-> TRUE, code |-> "none", owner |-> "nobody", live |-> FALSE]
NoClaim == [id |-> 0, n |-> 0]
Idle == [stage |-> "idle"]

Rows == {i \in Ids : row[i].status # "none"}
Pending(i) == row[i].status = "pending"
Terminal(i) == row[i].status \in {"delivered", "failed"}

Init ==
    /\ room = TRUE /\ msg = [m \in Messages |-> "none"]
    /\ row = [i \in Ids |-> NoRow] /\ nextId = 1
    /\ txn = Idle
    /\ st = [w \in Workers |-> "idle"]
    /\ claim = [w \in Workers |-> NoClaim]
    /\ result = [w \in Workers |-> "none"]
    /\ thread = [w \in Workers |-> FALSE]
    /\ replays = 0 /\ faults = 0
    /\ holder = [i \in Ids |-> "nobody"] /\ overtaken = {}

Fault == faults < MaxFaults /\ faults' = faults + 1

-----------------------------------------------------------------------------
(* Mutations of the room.  One transaction changes messages, removes the   *)
(* bodies the change makes obsolete, and inserts the event it promises.    *)

Stored == {m \in Messages : msg[m] \in {"live", "deleted"}}
New == {m \in Messages : msg[m] = "none"}
Live == {m \in Messages : msg[m] = "live"}

\* new messages appear, lost ones become into; body is the event for res.
Change(new, lost, into, body, res) ==
    [new |-> new, lost |-> lost, into |-> into, body |-> body, res |-> res, keep |-> TRUE]

\* create_message, with the messages that _trim_messages removes for age or
\* for one of its two caps.
Creations ==
    {Change({p[1]}, p[2], "gone", "content", p[1]) : p \in New \X SUBSET Stored}
\* update_message, set_message_reaction and set_message_pin.
Touches == {Change({}, {}, "gone", "content", m) : m \in Live}
\* delete_message leaves a tombstone.
Deletions == {Change({}, {m}, "deleted", "tombstone", m) : m \in Live}
\* run_retention.
Retentions == {Change({}, old, "gone", "none", "subject") : old \in SUBSET Stored \ {{}}}
\* set_member_moderation.
Moderations == {Change({}, {}, "gone", "moderation", "subject")}
\* delete_room.
RoomDeletions ==
    {[new |-> {}, lost |-> Stored, into |-> "gone", body |-> "none", res |-> "subject",
      keep |-> FALSE]}

Changes ==
    IF room THEN Creations \cup Touches \cup Deletions \cup Retentions
                   \cup Moderations \cup RoomDeletions
            ELSE {}

\* The rows that _scrub_message_webhooks or _scrub_room_webhooks looks at.
Concerned(c) == {i \in Rows : ~c.keep \/ row[i].res \in c.lost}

\* First statement of a scrub: the rows it deletes.
ScrubPending(c) == {i \in Concerned(c) : Pending(i)}

\* mutant: terminal rows keep their bodies
ScrubNothing(c) == {}

\* Second statement: the rows whose body it erases.
ScrubTerminal(c) == {i \in Concerned(c) : Terminal(i)}

Inserts(c) == c.body \in Selected

Oldest(n, S) == {i \in S : Cardinality({j \in S : j < i}) < n}

\* mutant: the oldest rows make place, whether they were sent or not
PruneOldest(del) ==
    Oldest(Cardinality(Rows \ del) - MaxDeliveries + 1, Rows \ del)

\* _insert_webhook: terminal rows are pruned, oldest first, to make place.
Prune(del) ==
    Oldest(Cardinality(Rows \ del) - MaxDeliveries + 1, {i \in Rows \ del : Terminal(i)})

\* mutant: one row too many
FitsLoosely(gone) == Cardinality(Rows \ gone) <= MaxDeliveries

\* The check after pruning; WebhookCapacityError rolls everything back.
Fits(gone) == Cardinality(Rows \ gone) < MaxDeliveries

\* The mutation c takes effect: the rows of gone disappear, those of erased
\* lose their body, and the event of c is inserted.
Apply(c, gone, erased) ==
    /\ room' = (room /\ c.keep)
    /\ msg' = [m \in Messages |-> IF m \in c.new THEN "live"
                                  ELSE IF m \in c.lost THEN c.into ELSE msg[m]]
    /\ row' = [i \in Ids |->
                 IF Inserts(c) /\ i = nextId THEN NewRow(c.res, c.body)
                 ELSE IF i \in gone THEN NoRow
                 ELSE IF i \in erased THEN [row[i] EXCEPT !.body = "none"] ELSE row[i]]
    /\ nextId' = IF Inserts(c) THEN nextId + 1 ELSE nextId

HasId(c) == Inserts(c) => nextId <= MaxIds

\* SQLite: BEGIN IMMEDIATE makes a mutation one step.
Mutate(c) ==
    LET del == ScrubPending(c)
        gone == IF Inserts(c) THEN del \cup Prune(del) ELSE del
    IN  /\ ~Leased /\ HasId(c)
        /\ Inserts(c) => Fits(gone)
        /\ Apply(c, gone, ScrubTerminal(c))
        /\ UNCHANGED <<txn, workVars, replays, faults, history>>

\* PostgreSQL: the transaction holds the outbox lock from here on, has run
\* the first statement of its scrub, and keeps the rows of del locked.
Begin(c) ==
    /\ Leased /\ txn = Idle /\ HasId(c)
    /\ txn' = [stage |-> "scrubbing", change |-> c, del |-> ScrubPending(c)]
    /\ UNCHANGED <<msgVars, row, nextId, workVars, replays, faults, history>>

\* The second statement of the scrub locks the rows it erases; then the rows
\* to prune are selected and counted.
Continue ==
    LET prune == IF Inserts(txn.change) THEN Prune(txn.del) ELSE {}
    IN  /\ txn.stage = "scrubbing"
        /\ txn' = IF Inserts(txn.change) /\ ~Fits(txn.del \cup prune) THEN Idle
                  ELSE [stage |-> "pruning", change |-> txn.change, del |-> txn.del,
                        erased |-> ScrubTerminal(txn.change), prune |-> prune]
        /\ UNCHANGED <<msgVars, row, nextId, workVars, replays, faults, history>>

\* The rows selected for pruning are deleted, also one that was replayed
\* since: DELETE ... WHERE id IN (SELECT ...) rechecks only the id of a row
\* that changed under it.
Commit ==
    /\ txn.stage = "pruning"
    /\ Apply(txn.change, txn.del \cup txn.prune, txn.erased)
    /\ txn' = Idle
    /\ UNCHANGED <<workVars, replays, faults, history>>

\* Rows that the mutation in progress has locked.
Locked(i) ==
    \/ txn.stage # "idle" /\ i \in txn.del
    \/ txn.stage = "pruning" /\ i \in txn.erased

\* mutant: a replay leaves the lease of the attempt in flight alone
RetryKeepsLease(i) ==
    /\ i \in Rows /\ row[i].body # "none" /\ ~Locked(i)
    /\ replays < MaxReplays /\ replays' = replays + 1
    /\ row' = [row EXCEPT ![i] = [NewRow(@.res, @.body) EXCEPT !.owner = row[i].owner,
                                                             !.live = row[i].live]]
    /\ overtaken' = overtaken \ {i}
    /\ UNCHANGED <<msgVars, nextId, txn, workVars, faults, holder>>

\* retry_webhook_delivery.
Retry(i) ==
    /\ i \in Rows /\ row[i].body # "none" /\ ~Locked(i)
    /\ replays < MaxReplays /\ replays' = replays + 1
    /\ row' = [row EXCEPT ![i] = NewRow(@.res, @.body)]
    /\ overtaken' = overtaken \ {i}
    /\ UNCHANGED <<msgVars, nextId, txn, workVars, faults, holder>>

\* Time passes: next_attempt_at is reached.
BecomeDue(i) ==
    /\ Pending(i) /\ ~row[i].due
    /\ row' = [row EXCEPT ![i].due = TRUE]
    /\ UNCHANGED <<msgVars, nextId, txn, workVars, replays, faults, history>>

\* Time passes: lease_expires_at is reached, in time of need only when the
\* attempt, which is shorter than the lease, is held up somewhere.
ExpireLease(i) ==
    /\ row[i].live
    /\ row' = [row EXCEPT ![i].live = FALSE]
    /\ IF \E w \in Workers : st[w] \in {"sending", "record"} /\ claim[w].id = i
         THEN Fault ELSE UNCHANGED faults
    /\ UNCHANGED <<msgVars, nextId, txn, workVars, replays, history>>

-----------------------------------------------------------------------------
(* A dispatcher.                                                           *)

\* mutant: a lease is never taken over
ClaimableUnowned(i) ==
    Pending(i) /\ row[i].body # "none" /\ row[i].due /\ row[i].owner = "nobody"

\* next_webhook_delivery: due, with a body, and under no live lease.
Claimable(i) == Pending(i) /\ row[i].body # "none" /\ row[i].due /\ ~row[i].live

\* _process_due_once takes no row while the thread of an earlier attempt
\* lingers; it starts the attempt in the same breath.
Claim(w) ==
    /\ st[w] = "idle" /\ ~thread[w]
    /\ \E i \in Ids :
          /\ Claimable(i) /\ ~Locked(i)
          /\ claim' = [claim EXCEPT ![w] = [id |-> i, n |-> row[i].attempts]]
          /\ row' = IF Leased THEN [row EXCEPT ![i].owner = IdOf[w], ![i].live = TRUE] ELSE row
          /\ holder' = [holder EXCEPT ![i] = w]
    /\ st' = [st EXCEPT ![w] = "sending"]
    /\ thread' = [thread EXCEPT ![w] = TRUE]
    /\ UNCHANGED <<msgVars, nextId, txn, result, replays, faults, overtaken>>

\* The receiver answers 2xx ("ok"), 410 ("gone") or otherwise, or the
\* attempt fails; the thread is free again.
Answer(w) ==
    /\ st[w] = "sending"
    /\ \E r \in {"ok", "gone", "error"} : result' = [result EXCEPT ![w] = r]
    /\ st' = [st EXCEPT ![w] = "record"]
    /\ thread' = [thread EXCEPT ![w] = FALSE]
    /\ UNCHANGED <<msgVars, row, nextId, txn, claim, replays, faults, history>>

\* BoundedTransport.run gives up at the deadline and leaves the thread alone.
Timeout(w) ==
    /\ st[w] = "sending"
    /\ result' = [result EXCEPT ![w] = "error"]
    /\ st' = [st EXCEPT ![w] = "record"]
    /\ UNCHANGED <<msgVars, row, nextId, txn, claim, thread, replays, faults, history>>

\* The late thread returns; its result goes to a future nobody waits for.
ThreadReturns(w) ==
    /\ thread[w] /\ st[w] # "sending"
    /\ thread' = [thread EXCEPT ![w] = FALSE]
    /\ UNCHANGED <<msgVars, row, nextId, txn, st, claim, result, replays, faults, history>>

\* mutant: the lease is checked, but not whose it is
MayRecordUnowned(w) == Pending(claim[w].id) /\ (Leased => row[claim[w].id].live)

\* The condition of record_webhook_attempt.
MayRecord(w) ==
    LET i == claim[w].id
    IN  Pending(i) /\ (Leased => row[i].owner = IdOf[w] /\ row[i].live)

\* mutant: one attempt too many
ExhaustedLate(w) ==
    result[w] # "ok" /\ (claim[w].n >= MaxAttempts \/ result[w] = "gone")

\* terminal, from the count that came with the claim.
Exhausted(w) ==
    result[w] # "ok" /\ (claim[w].n + 1 >= MaxAttempts \/ result[w] = "gone")

\* The local variables of the attempt are gone.
EndAttempt(w, next) ==
    /\ st' = [st EXCEPT ![w] = next]
    /\ claim' = [claim EXCEPT ![w] = NoClaim]
    /\ result' = [result EXCEPT ![w] = "none"]

\* A row after one more attempt, with a new status and without its lease.
Attempted(r, code, status) ==
    [status |-> status, res |-> r.res, body |-> r.body, attempts |-> r.attempts + 1,
     due |-> FALSE, code |-> code, owner |-> "nobody", live |-> FALSE]

\* record_webhook_attempt; WebhookDeliveryNotFoundError is only logged.
Record(w) ==
    LET i == claim[w].id
    IN  /\ st[w] = "record" /\ ~Locked(i)
        /\ EndAttempt(w, "idle")
        /\ \/ /\ MayRecord(w)
              /\ row' = [row EXCEPT ![i] = Attempted(@, result[w],
                                    IF result[w] = "ok" THEN "delivered"
                                    ELSE IF Exhausted(w) THEN "failed" ELSE "pending")]
              /\ overtaken' = IF holder[i] = w THEN overtaken ELSE overtaken \cup {i}
           \/ /\ ~MayRecord(w) /\ UNCHANGED <<row, overtaken>>
        /\ UNCHANGED <<msgVars, nextId, txn, thread, replays, faults, holder>>

\* The statement fails; _run_loop logs it and goes on.
RecordFails(w) ==
    /\ st[w] = "record" /\ Fault
    /\ EndAttempt(w, "idle")
    /\ UNCHANGED <<msgVars, row, nextId, txn, thread, replays, history>>

\* The process stops or dies, without recording what it was doing.
Stop(w) ==
    /\ st[w] # "off" /\ Fault
    /\ EndAttempt(w, "off")
    /\ thread' = [thread EXCEPT ![w] = FALSE]
    /\ UNCHANGED <<msgVars, row, nextId, txn, replays, history>>

Restart(w) ==
    /\ st[w] = "off"
    /\ st' = [st EXCEPT ![w] = "idle"]
    /\ UNCHANGED <<msgVars, row, nextId, txn, claim, result, thread, replays, faults, history>>

Work(w) ==
    \/ Claim(w) \/ Answer(w) \/ Timeout(w) \/ ThreadReturns(w)
    \/ Record(w) \/ RecordFails(w) \/ Stop(w) \/ Restart(w)

Next ==
    \/ \E c \in Changes : Mutate(c) \/ Begin(c)
    \/ Continue \/ Commit
    \/ \E i \in Ids : Retry(i) \/ BecomeDue(i) \/ ExpireLease(i)
    \/ \E w \in Workers : Work(w)

Spec == Init /\ [][Next]_vars

\* The dispatcher loop polls, every attempt has a deadline, transactions end,
\* and time passes.  ThreadReturns is fair too: a resolver that never returns
\* stops its dispatcher, which the code accepts.
Fairness ==
    /\ \A w \in Workers :
          /\ WF_vars(Claim(w)) /\ WF_vars(Answer(w) \/ Timeout(w)) /\ WF_vars(ThreadReturns(w))
          /\ WF_vars(Record(w)) /\ WF_vars(Restart(w))
    /\ WF_vars(Continue) /\ WF_vars(Commit)
    /\ \A i \in Ids : WF_vars(BecomeDue(i)) /\ WF_vars(ExpireLease(i))

FairSpec == Spec /\ Fairness

-----------------------------------------------------------------------------
(* Properties.                                                             *)

RowType ==
    [status: {"none", "pending", "delivered", "failed"}, res: Messages \cup {"subject"},
     body: Bodies \cup {"none"}, attempts: Nat, due: BOOLEAN,
     code: {"none", "ok", "gone", "error"},
     owner: {IdOf[w] : w \in Workers} \cup {"nobody"}, live: BOOLEAN]

ChangeType ==
    [new: SUBSET Messages, lost: SUBSET Messages, into: {"deleted", "gone"},
     body: Bodies \cup {"none"}, res: Messages \cup {"subject"}, keep: BOOLEAN]

TypeOK ==
    /\ room \in BOOLEAN /\ msg \in [Messages -> {"none", "live", "deleted", "gone"}]
    /\ row \in [Ids -> RowType]
    /\ \A i \in Ids \ overtaken : row[i].attempts <= MaxAttempts
    /\ nextId \in 1..MaxIds + 1
    /\ txn.stage \in {"idle", "scrubbing", "pruning"}
    /\ txn.stage # "idle" => Leased /\ txn.change \in ChangeType /\ HasId(txn.change)
    /\ st \in [Workers -> {"idle", "sending", "record", "off"}]
    /\ claim \in [Workers -> [id: 0..MaxIds, n: Nat]]
    /\ \A w \in Workers : st[w] \in {"sending", "record"} => claim[w].id \in Ids
    /\ result \in [Workers -> {"none", "ok", "gone", "error"}]
    /\ thread \in [Workers -> BOOLEAN]
    /\ replays \in 0..MaxReplays /\ faults \in 0..MaxFaults
    /\ holder \in [Ids -> Workers \cup {"nobody"}] /\ overtaken \in SUBSET Ids

\* Deleting a message or the room, or removing a message by retention, also
\* removes every body the outbox retains of it: a body with content belongs
\* to a live message, a tombstone's to a stored one, and any to a room that
\* exists.
ErasedEverywhere ==
    \A i \in Rows :
       /\ row[i].body = "content" => msg[row[i].res] = "live"
       /\ row[i].body = "tombstone" => msg[row[i].res] = "deleted"
       /\ row[i].body # "none" => room

\* An outbox row that still has to be sent leaves the outbox only with what it
\* reports on: its message erased or its room deleted in the same step.
PromiseKept ==
    [][\A i \in Ids :
          Pending(i) /\ row'[i].status = "none" =>
             ~room' \/ (row[i].res \in Messages /\ msg'[row[i].res] # msg[row[i].res])]_vars

\* The outbox never exceeds its capacity, also across replays.
WithinCapacity == Cardinality(Rows) <= MaxDeliveries

\* A process that may record on a row has the worker id of the process whose
\* dispatcher was the last to claim it: with ids of their own, nobody
\* acknowledges the claim of another, across expiry, replay and restart.
OnlySharersRecord ==
    \A w \in Workers :
        LET i == claim[w].id
        IN  st[w] = "record" /\ MayRecord(w) => holder[i] \in Workers /\ IdOf[holder[i]] = IdOf[w]

\* The process w may record, and no other has claimed the row since it did.
Current(w) ==
    st[w] \in {"sending", "record"} /\ MayRecord(w) /\ holder[claim[w].id] = w

\* A dispatcher that may still record on the row it was the last to claim
\* knows the row's count, whatever expired or was replayed meanwhile; and a
\* pending row has attempts left, unless a displaced process recorded on it.
HolderCounts ==
    /\ \A i \in Ids \ overtaken : Pending(i) => row[i].attempts < MaxAttempts
    /\ \A w \in Workers : Current(w) => row[claim[w].id].attempts = claim[w].n

\* What the lease of a claim protects: who may record has the holder's worker
\* id, and the holder itself decides with the count the row still has.
ClaimsAreFresh == OnlySharersRecord /\ HolderCounts

\* A delivery is given up only after all the attempts it was given since it
\* was created or replayed, or when the receiver answered 410; the exception
\* is a delivery on which a displaced process recorded over the claim of its
\* replacement, which the worker id does not tell from it.
FailsOnlyWhenExhausted ==
    \A i \in Ids \ overtaken :
        row[i].status = "failed" => row[i].attempts >= MaxAttempts \/ row[i].code = "gone"

\* Every delivery is sooner or later delivered, given up or erased: no crash,
\* lost lease or lingering thread leaves it in the outbox for ever.
PendingSettles == \A i \in Ids : Pending(i) ~> ~Pending(i)
=============================================================================
