------------------------ MODULE WebhookOutboxProofs ------------------------
(***************************************************************************)
(* With leases (PostgreSQL) no delivery is given up before its attempts    *)
(* are used up, whoever shares a worker id, unless a displaced process     *)
(* recorded on it; and worker ids of their own rule that out.  With one    *)
(* transaction at a time (SQLite) no body outlives what it reports, and no *)
(* report is lost.  In both modes the outbox stays within its capacity.    *)
(***************************************************************************)
EXTENDS WebhookOutbox, FiniteSetTheorems, TLAPS

\* A row that only its holders have recorded on has attempts left while it is
\* pending, and its count is at most the one its holder read: a replay, which
\* SQLite allows in the middle of an attempt, only lowers it.
Counted ==
  /\ \A i \in Ids \ overtaken : Pending(i) => row[i].attempts < MaxAttempts
  /\ \A w \in Workers : Current(w) /\ claim[w].id \notin overtaken
                            => row[claim[w].id].attempts <= claim[w].n

IInv == TypeOK /\ Counted /\ (Leased => HolderCounts /\ FailsOnlyWhenExhausted)

\* What a step other than a claim or a record may do to a row.
Mild(r, s) ==
  \/ s.status = "none" /\ s.attempts = 0
  \/ s.status = "pending" /\ s.attempts = 0 /\ s.owner = "nobody"
  \/ /\ s.status = r.status /\ s.attempts = r.attempts /\ s.code = r.code
     /\ s.owner = r.owner /\ (s.live => r.live)

\* An absent row and a fresh one have the type of rows and no lease.
LEMMA RowTypes ==
  /\ NoRow \in RowType /\ NoRow.status = "none" /\ NoRow.attempts = 0
  /\ \A res \in Messages \cup {"subject"}, body \in Bodies :
        LET r == NewRow(res, body)
        IN  /\ r \in RowType /\ r.status = "pending" /\ r.attempts = 0
            /\ r.owner = "nobody" /\ ~r.live
BY ConstantsAssumption DEF NoRow, NewRow, RowType, Bodies

\* An empty outbox satisfies the invariant.
LEMMA InitHolds == Init => IInv
<1> SUFFICES ASSUME Init PROVE IInv OBVIOUS
<1> USE ConstantsAssumption
<1>1. \A i \in Ids : row[i] = NoRow BY DEF Init
<1>2. row \in [Ids -> RowType] BY RowTypes DEF Init
<1>3. TypeOK
  <2>1. claim \in [Workers -> [id: 0..MaxIds, n: Nat]]
    BY DEF Init, NoClaim
  <2>2. \A i \in Ids : row[i].attempts <= MaxAttempts
    BY <1>1 DEF NoRow
  <2> QED BY <1>2, <2>1, <2>2 DEF Init, TypeOK, Idle
<1>4. Counted /\ HolderCounts /\ FailsOnlyWhenExhausted
  BY <1>1, RowTypes DEF Init, Counted, HolderCounts, FailsOnlyWhenExhausted, Pending, Current
<1> QED BY <1>3, <1>4 DEF IInv

\* The mutations of the room have their type.
LEMMA ChangeTypes == \A c \in Changes : c \in ChangeType
<1>1. Stored \in SUBSET Messages /\ Live \in SUBSET Messages /\ {} \in SUBSET Messages
  BY DEF Stored, Live
<1>2. ASSUME NEW new \in SUBSET Messages, NEW lost \in SUBSET Messages,
             NEW into \in {"deleted", "gone"}, NEW body \in Bodies \cup {"none"},
             NEW res \in Messages \cup {"subject"}, NEW keep \in BOOLEAN
      PROVE  [new |-> new, lost |-> lost, into |-> into, body |-> body, res |-> res,
              keep |-> keep] \in ChangeType
  BY DEF ChangeType
<1>3. ASSUME NEW new \in SUBSET Messages, NEW lost \in SUBSET Messages,
             NEW into \in {"deleted", "gone"}, NEW body \in Bodies \cup {"none"},
             NEW res \in Messages \cup {"subject"}
      PROVE  Change(new, lost, into, body, res) \in ChangeType
  BY <1>2 DEF Change
<1>4. ASSUME NEW c \in Creations PROVE c \in ChangeType
  <2>1. PICK p \in New \X SUBSET Stored :
           c = Change({p[1]}, p[2], "gone", "content", p[1])
    BY DEF Creations
  <2>2. p[1] \in Messages /\ {p[1]} \in SUBSET Messages /\ p[2] \in SUBSET Messages
    BY <1>1 DEF New
  <2> QED BY <1>3, <2>1, <2>2 DEF Bodies
<1>5. ASSUME NEW c \in Touches \cup Deletions PROVE c \in ChangeType
  <2>1. PICK m \in Live : \/ c = Change({}, {}, "gone", "content", m)
                          \/ c = Change({}, {m}, "deleted", "tombstone", m)
    BY DEF Touches, Deletions
  <2>2. {m} \in SUBSET Messages /\ m \in Messages BY <1>1
  <2> QED BY <1>1, <1>3, <2>1, <2>2 DEF Bodies
<1>6. ASSUME NEW c \in Retentions PROVE c \in ChangeType
  <2>1. PICK old \in SUBSET Stored : c = Change({}, old, "gone", "none", "subject")
    BY DEF Retentions
  <2>2. old \in SUBSET Messages BY <1>1
  <2> QED BY <1>1, <1>3, <2>1, <2>2 DEF Bodies
<1>7. ASSUME NEW c \in Moderations PROVE c \in ChangeType
  BY <1>1, <1>3 DEF Moderations, Bodies
<1>8. ASSUME NEW c \in RoomDeletions PROVE c \in ChangeType
  BY <1>1, <1>2 DEF RoomDeletions, Bodies
<1> QED BY <1>4, <1>5, <1>6, <1>7, <1>8 DEF Changes

\* Mild steps that leave the dispatchers alone keep the invariants; of the rows
\* a displaced process recorded on they forget only those they renew.
LEMMA MildKeeps ==
  ASSUME IInv, row' \in [Ids -> RowType], UNCHANGED <<st, claim, holder>>,
         overtaken' \subseteq overtaken,
         \A i \in Ids : Mild(row[i], row'[i]),
         \A i \in overtaken \ overtaken' :
            row'[i].status = "pending" /\ row'[i].attempts = 0 /\ row'[i].owner = "nobody"
  PROVE  /\ Counted' /\ (Leased => HolderCounts' /\ FailsOnlyWhenExhausted')
         /\ \A i \in Ids \ overtaken' : row'[i].attempts <= MaxAttempts
<1> USE ConstantsAssumption
<1>1. ASSUME NEW i \in Ids \ overtaken'
      PROVE  /\ Pending(i)' => row'[i].attempts < MaxAttempts
             /\ row'[i].attempts <= MaxAttempts
             /\ Leased /\ row'[i].status = "failed" =>
                   row'[i].attempts >= MaxAttempts \/ row'[i].code = "gone"
  BY DEF IInv, TypeOK, Counted, FailsOnlyWhenExhausted, Pending, Mild, RowType
<1>2. ASSUME NEW w \in Workers, Current(w)'
      PROVE  LET i == claim[w].id
             IN  \/ row'[i].attempts = 0 /\ ~Leased
                 \/ Current(w) /\ row'[i].attempts = row[i].attempts /\ i \notin overtaken \ overtaken'
  <2> DEFINE i == claim[w].id
  <2>1. i \in Ids BY <1>2 DEF Current, IInv, TypeOK
  <2>2. Mild(row[i], row'[i]) BY <2>1
  <2>3. /\ st[w] \in {"sending", "record"} /\ holder[i] = w /\ row'[i].status = "pending"
        /\ Leased => row'[i].owner = IdOf[w] /\ row'[i].live
    BY <1>2 DEF Current, MayRecord, Pending
  <2>4. IdOf[w] # "nobody" OBVIOUS
  <2> QED BY <2>1, <2>2, <2>3, <2>4 DEF Current, MayRecord, Pending, Mild
<1>3. Counted'
  <2>1. ASSUME NEW w \in Workers, Current(w)', claim'[w].id \notin overtaken'
        PROVE  row'[claim'[w].id].attempts <= claim'[w].n
    <3>1. claim[w].n \in Nat BY DEF IInv, TypeOK
    <3> QED BY <1>2, <2>1, <3>1 DEF IInv, Counted
  <2> QED BY <1>1, <2>1 DEF Counted
<1>4. Leased => HolderCounts'
  BY <1>1, <1>2 DEF IInv, HolderCounts
<1>5. Leased => FailsOnlyWhenExhausted' BY <1>1 DEF FailsOnlyWhenExhausted
<1> QED BY <1>1, <1>3, <1>4, <1>5

\* A mutation that takes effect.
LEMMA ApplyKeeps ==
  ASSUME IInv, NEW c \in ChangeType, HasId(c), NEW gone, NEW erased,
         Apply(c, gone, erased)
  PROVE  /\ row' \in [Ids -> RowType] /\ \A i \in Ids : Mild(row[i], row'[i])
         /\ room' \in BOOLEAN /\ msg' \in [Messages -> {"none", "live", "deleted", "gone"}]
         /\ nextId' \in 1..MaxIds + 1
<1> USE ConstantsAssumption
<1>1. ASSUME NEW i \in Ids
      PROVE  row'[i] \in RowType /\ Mild(row[i], row'[i])
  <2>1. row[i] \in RowType BY DEF IInv, TypeOK
  <2>2. CASE Inserts(c) /\ i = nextId
    <3>1. row'[i] = NewRow(c.res, c.body) BY <2>2 DEF Apply
    <3>2. c.res \in Messages \cup {"subject"} /\ c.body \in Bodies
      BY <2>2 DEF Inserts, ChangeType
    <3> QED BY <3>1, <3>2, RowTypes DEF Mild
  <2>3. CASE ~(Inserts(c) /\ i = nextId) /\ i \in gone
    BY <2>3, RowTypes DEF Apply, Mild
  <2>4. CASE ~(Inserts(c) /\ i = nextId) /\ i \notin gone /\ i \in erased
    <3>1. row'[i] = [row[i] EXCEPT !.body = "none"] BY <2>4 DEF Apply
    <3> QED BY <2>1, <3>1 DEF RowType, Mild
  <2>5. CASE ~(Inserts(c) /\ i = nextId) /\ i \notin gone /\ i \notin erased
    <3>1. row'[i] = row[i] BY <2>5 DEF Apply
    <3> QED BY <2>1, <3>1 DEF Mild
  <2> QED BY <2>2, <2>3, <2>4, <2>5
<1>2. row' \in [Ids -> RowType] BY <1>1 DEF Apply
<1>3. room' \in BOOLEAN BY DEF Apply
<1>4. msg' \in [Messages -> {"none", "live", "deleted", "gone"}]
  BY DEF Apply, IInv, TypeOK, ChangeType
<1>5. nextId' \in 1..MaxIds + 1 BY DEF Apply, HasId, IInv, TypeOK
<1> QED BY <1>1, <1>2, <1>3, <1>4, <1>5

\* A step that changes no row and starts no attempt.
LEMMA SameRows ==
  ASSUME IInv, UNCHANGED <<row, holder, overtaken>>,
         \A v \in Workers : st'[v] \in {"sending", "record"} =>
            st[v] \in {"sending", "record"} /\ claim'[v] = claim[v]
  PROVE  Counted' /\ (Leased => HolderCounts' /\ FailsOnlyWhenExhausted')
<1>1. ASSUME NEW v \in Workers, Current(v)' PROVE Current(v) /\ claim'[v] = claim[v]
  BY <1>1 DEF Current, MayRecord, Pending
<1> QED BY <1>1 DEF IInv, Counted, HolderCounts, FailsOnlyWhenExhausted, Pending

\* In SQLite a mutation is one step.
LEMMA MutateStep ==
  ASSUME IInv, NEW c \in Changes, Mutate(c) PROVE IInv'
<1> DEFINE del == ScrubPending(c)
           gone == IF Inserts(c) THEN del \cup Prune(del) ELSE del
<1>1. c \in ChangeType BY ChangeTypes
<1>2. /\ Apply(c, gone, ScrubTerminal(c)) /\ HasId(c)
      /\ UNCHANGED <<txn, workVars, replays, faults, history>>
  BY DEF Mutate
<1> HIDE DEF gone
<1>3. /\ row' \in [Ids -> RowType] /\ \A i \in Ids : Mild(row[i], row'[i])
      /\ room' \in BOOLEAN /\ msg' \in [Messages -> {"none", "live", "deleted", "gone"}]
      /\ nextId' \in 1..MaxIds + 1
  BY <1>1, <1>2, ApplyKeeps
<1>4. /\ Counted' /\ (Leased => HolderCounts' /\ FailsOnlyWhenExhausted')
      /\ \A i \in Ids \ overtaken' : row'[i].attempts <= MaxAttempts
  BY <1>2, <1>3, MildKeeps DEF workVars, history
<1>5. txn.stage = "idle" BY DEF Mutate, IInv, TypeOK
<1>6. TypeOK' BY <1>2, <1>3, <1>4, <1>5 DEF IInv, TypeOK, workVars, history
<1> QED BY <1>4, <1>6 DEF IInv

\* The first statement of a PostgreSQL mutation changes no row.
LEMMA BeginStep ==
  ASSUME IInv, NEW c \in Changes, Begin(c) PROVE IInv'
<1>1. c \in ChangeType BY ChangeTypes
<1>2. Leased /\ txn'.stage = "scrubbing" /\ txn'.change = c BY DEF Begin
<1>3. UNCHANGED <<msgVars, row, nextId, workVars, replays, faults, history>> /\ HasId(c)
  BY DEF Begin
<1>4. TypeOK' BY <1>1, <1>2, <1>3 DEF IInv, TypeOK, HasId, msgVars, workVars, history
<1> QED BY <1>3, <1>4, SameRows DEF IInv, workVars, history

\* Neither do the second and the selection of rows to prune.
LEMMA ContinueStep == IInv /\ Continue => IInv'
<1> SUFFICES ASSUME IInv, Continue PROVE IInv' OBVIOUS
<1>1. UNCHANGED <<msgVars, row, nextId, workVars, replays, faults, history>> BY DEF Continue
<1>2. txn'.stage = "idle" \/ (txn'.stage = "pruning" /\ txn'.change = txn.change)
  BY DEF Continue, Idle
<1>3. Leased /\ txn.change \in ChangeType /\ HasId(txn.change) BY DEF Continue, IInv, TypeOK
<1>4. TypeOK' BY <1>1, <1>2, <1>3 DEF IInv, TypeOK, HasId, msgVars, workVars, history
<1> QED BY <1>1, <1>4, SameRows DEF IInv, workVars, history

\* The commit of a mutation only inserts, removes or erases rows.
LEMMA CommitStep == IInv /\ Commit => IInv'
<1> SUFFICES ASSUME IInv, Commit PROVE IInv' OBVIOUS
<1>1. txn.change \in ChangeType /\ HasId(txn.change) BY DEF Commit, IInv, TypeOK
<1>2. UNCHANGED <<workVars, replays, faults, history>> /\ txn'.stage = "idle"
  BY DEF Commit, Idle
<1>3. /\ row' \in [Ids -> RowType] /\ \A i \in Ids : Mild(row[i], row'[i])
      /\ room' \in BOOLEAN /\ msg' \in [Messages -> {"none", "live", "deleted", "gone"}]
      /\ nextId' \in 1..MaxIds + 1
  BY <1>1, ApplyKeeps DEF Commit
<1>4. /\ Counted' /\ (Leased => HolderCounts' /\ FailsOnlyWhenExhausted')
      /\ \A i \in Ids \ overtaken' : row'[i].attempts <= MaxAttempts
  BY <1>2, <1>3, MildKeeps DEF workVars, history
<1>5. TypeOK' BY <1>2, <1>3, <1>4 DEF IInv, TypeOK, workVars, history
<1> QED BY <1>4, <1>5 DEF IInv

\* A replay and the passing of time: a replayed row loses its lease.
LEMMA RowStep ==
  ASSUME IInv, NEW i \in Ids, Retry(i) \/ BecomeDue(i) \/ ExpireLease(i) PROVE IInv'
<1> USE ConstantsAssumption
<1>1. UNCHANGED <<msgVars, nextId, txn, workVars, holder>>
  BY DEF Retry, BecomeDue, ExpireLease, history
<1>2. row[i] \in RowType BY DEF IInv, TypeOK
<1>3. PICK r : row' = [row EXCEPT ![i] = r] /\ r \in RowType /\ Mild(row[i], r)
  <2>1. CASE Retry(i)
    <3>1. row' = [row EXCEPT ![i] = NewRow(row[i].res, row[i].body)]
      BY <2>1 DEF Retry, IInv, TypeOK
    <3>2. row[i].res \in Messages \cup {"subject"} /\ row[i].body \in Bodies
      BY <1>2, <2>1 DEF Retry, RowType
    <3> QED BY <3>1, <3>2, RowTypes DEF Mild
  <2>2. CASE BecomeDue(i)
    <3>1. row' = [row EXCEPT ![i] = [row[i] EXCEPT !.due = TRUE]]
      BY <2>2 DEF BecomeDue, IInv, TypeOK
    <3>2. /\ [row[i] EXCEPT !.due = TRUE] \in RowType
          /\ Mild(row[i], [row[i] EXCEPT !.due = TRUE])
      BY <1>2 DEF RowType, Mild
    <3> QED BY <3>1, <3>2
  <2>3. CASE ExpireLease(i)
    <3>1. row' = [row EXCEPT ![i] = [row[i] EXCEPT !.live = FALSE]]
      BY <2>3 DEF ExpireLease, IInv, TypeOK
    <3>2. /\ [row[i] EXCEPT !.live = FALSE] \in RowType
          /\ Mild(row[i], [row[i] EXCEPT !.live = FALSE])
      BY <1>2 DEF RowType, Mild
    <3> QED BY <3>1, <3>2
  <2> QED BY <2>1, <2>2, <2>3
<1>4. row' \in [Ids -> RowType] /\ \A j \in Ids : Mild(row[j], row'[j])
  BY <1>3 DEF IInv, TypeOK, Mild
<1>5. /\ overtaken' \subseteq overtaken
      /\ \A j \in overtaken \ overtaken' :
            row'[j].status = "pending" /\ row'[j].attempts = 0 /\ row'[j].owner = "nobody"
  <2>1. CASE Retry(i)
    <3>1. overtaken' = overtaken \ {i} BY <2>1 DEF Retry
    <3>2. row'[i] = NewRow(row[i].res, row[i].body) BY <2>1 DEF Retry, IInv, TypeOK
    <3> QED BY <3>1, <3>2 DEF NewRow
  <2>2. CASE BecomeDue(i) \/ ExpireLease(i)
    BY <2>2 DEF BecomeDue, ExpireLease, history
  <2> QED BY <2>1, <2>2
<1>6. /\ Counted' /\ (Leased => HolderCounts' /\ FailsOnlyWhenExhausted')
      /\ \A j \in Ids \ overtaken' : row'[j].attempts <= MaxAttempts
  BY <1>1, <1>4, <1>5, MildKeeps DEF workVars
<1>7. replays' \in 0..MaxReplays /\ faults' \in 0..MaxFaults
  BY DEF Retry, BecomeDue, ExpireLease, Fault, IInv, TypeOK
<1>8. TypeOK'
  BY <1>1, <1>4, <1>5, <1>6, <1>7 DEF IInv, TypeOK, HasId, msgVars, workVars
<1> QED BY <1>6, <1>8 DEF IInv

\* A claim makes its dispatcher the holder of the row, so that the count of any
\* other dispatcher on that row no longer matters.
LEMMA ClaimStep ==
  ASSUME IInv, NEW w \in Workers, Claim(w) PROVE IInv'
<1> USE ConstantsAssumption
<1>1. PICK i \in Ids :
        /\ Claimable(i)
        /\ claim' = [claim EXCEPT ![w] = [id |-> i, n |-> row[i].attempts]]
        /\ row' = IF Leased THEN [row EXCEPT ![i].owner = IdOf[w], ![i].live = TRUE] ELSE row
        /\ holder' = [holder EXCEPT ![i] = w]
  BY DEF Claim
<1>2. /\ st' = [st EXCEPT ![w] = "sending"] /\ thread' = [thread EXCEPT ![w] = TRUE]
      /\ UNCHANGED <<msgVars, nextId, txn, result, replays, faults, overtaken>>
  BY DEF Claim
<1>3. row[i] \in RowType /\ holder'[i] = w BY <1>1 DEF IInv, TypeOK
<1>4. /\ row'[i] \in RowType /\ row'[i].status = row[i].status
      /\ row'[i].attempts = row[i].attempts /\ row'[i].code = row[i].code
  <2>1. CASE Leased
    <3>1. row' = [row EXCEPT ![i] = [row[i] EXCEPT !.owner = IdOf[w], !.live = TRUE]]
      BY <1>1, <2>1 DEF IInv, TypeOK
    <3> QED BY <1>3, <3>1, ZenonT(30) DEF RowType, IInv, TypeOK
  <2>2. CASE ~Leased BY <1>1, <1>3, <2>2
  <2> QED BY <2>1, <2>2
<1>5. \A j \in Ids : j # i => row'[j] = row[j] /\ holder'[j] = holder[j]
  BY <1>1 DEF IInv, TypeOK
<1>6. TypeOK'
  <2>1. row' \in [Ids -> RowType] BY <1>1, <1>4, <1>5 DEF IInv, TypeOK
  <2>2. claim' \in [Workers -> [id: 0..MaxIds, n: Nat]]
    BY <1>1, <1>3 DEF IInv, TypeOK, RowType, Ids
  <2>3. \A v \in Workers : st'[v] \in {"sending", "record"} => claim'[v].id \in Ids
    BY <1>1, <1>2 DEF IInv, TypeOK
  <2>4. \A j \in Ids \ overtaken' : row'[j].attempts <= MaxAttempts
    BY <1>2, <1>4, <1>5 DEF IInv, TypeOK
  <2>5. holder' \in [Ids -> Workers \cup {"nobody"}] BY <1>1 DEF IInv, TypeOK
  <2> QED BY <1>2, <2>1, <2>2, <2>3, <2>4, <2>5 DEF IInv, TypeOK, HasId, msgVars
<1>7. /\ \A j \in Ids \ overtaken' : Pending(j)' => row'[j].attempts < MaxAttempts
      /\ Leased => FailsOnlyWhenExhausted'
  BY <1>2, <1>4, <1>5 DEF IInv, Counted, FailsOnlyWhenExhausted, Pending
<1>8. ASSUME NEW v \in Workers, Current(v)'
      PROVE  \/ row'[claim'[v].id].attempts = claim'[v].n
             \/ /\ Current(v) /\ claim'[v] = claim[v]
                /\ row'[claim[v].id].attempts = row[claim[v].id].attempts
  <2>1. CASE v = w
    <3>1. claim'[v].id = i /\ claim'[v].n = row[i].attempts
      BY <1>1, <2>1 DEF IInv, TypeOK
    <3> QED BY <1>4, <3>1
  <2>2. CASE v # w
    <3>1. claim'[v] = claim[v] /\ st'[v] = st[v]
      BY <1>1, <1>2, <2>2 DEF IInv, TypeOK
    <3>2. claim[v].id \in Ids BY <1>8, <3>1 DEF Current, IInv, TypeOK
    <3>3. claim[v].id # i BY <1>3, <1>8, <2>2, <3>1 DEF Current
    <3> QED BY <1>5, <1>8, <3>1, <3>2, <3>3 DEF Current, MayRecord, Pending
  <2> QED BY <2>1, <2>2
<1>9. Counted'
  <2>1. ASSUME NEW v \in Workers, Current(v)', claim'[v].id \notin overtaken'
        PROVE  row'[claim'[v].id].attempts <= claim'[v].n
    <3>1. claim'[v].n \in Nat BY <1>6 DEF TypeOK
    <3> QED BY <1>2, <1>8, <2>1, <3>1 DEF IInv, Counted
  <2> QED BY <1>7, <2>1 DEF Counted
<1>10. Leased => HolderCounts' BY <1>7, <1>8 DEF IInv, HolderCounts
<1> QED BY <1>6, <1>7, <1>9, <1>10 DEF IInv

\* The steps of an attempt that leave the outbox alone.
LEMMA AttemptStep ==
  ASSUME IInv, NEW w \in Workers,
         \/ Answer(w) \/ Timeout(w) \/ ThreadReturns(w)
         \/ RecordFails(w) \/ Stop(w) \/ Restart(w)
  PROVE  IInv'
<1> USE ConstantsAssumption
<1>1. UNCHANGED <<msgVars, row, nextId, txn, replays, holder, overtaken>>
  BY DEF Answer, Timeout, ThreadReturns, RecordFails, Stop, Restart, history
<1>2. faults' \in 0..MaxFaults
  BY DEF Answer, Timeout, ThreadReturns, RecordFails, Stop, Restart, Fault, IInv, TypeOK
<1>3. /\ st' \in [Workers -> {"idle", "sending", "record", "off"}]
      /\ result' \in [Workers -> {"none", "ok", "gone", "error"}]
      /\ thread' \in [Workers -> BOOLEAN]
      /\ claim' \in [Workers -> [id: 0..MaxIds, n: Nat]]
  <2>1. CASE Answer(w)
    <3>1. PICK r \in {"ok", "gone", "error"} : result' = [result EXCEPT ![w] = r]
      BY <2>1 DEF Answer
    <3> QED BY <2>1, <3>1 DEF Answer, IInv, TypeOK
  <2>4. CASE Timeout(w)
    BY <2>4 DEF Timeout, IInv, TypeOK
  <2>2. CASE ThreadReturns(w) \/ Restart(w)
    BY <2>2 DEF ThreadReturns, Restart, IInv, TypeOK
  <2>3. CASE RecordFails(w) \/ Stop(w)
    <3>1. claim' \in [Workers -> [id: 0..MaxIds, n: Nat]]
      BY <2>3 DEF RecordFails, Stop, EndAttempt, NoClaim, IInv, TypeOK
    <3> QED BY <2>3, <3>1 DEF RecordFails, Stop, EndAttempt, IInv, TypeOK
  <2> QED BY <2>1, <2>2, <2>3, <2>4
<1>4. ASSUME NEW v \in Workers, st'[v] \in {"sending", "record"}
      PROVE  st[v] \in {"sending", "record"} /\ claim'[v] = claim[v]
  BY <1>4 DEF Answer, Timeout, ThreadReturns, RecordFails, Stop, Restart, EndAttempt,
              IInv, TypeOK
<1>5. TypeOK' BY <1>1, <1>2, <1>3, <1>4 DEF IInv, TypeOK, HasId, msgVars
<1> QED BY <1>1, <1>4, <1>5, SameRows DEF IInv

\* The count that came with the claim of the holder is the row's, so a row that
\* only holders recorded on becomes failed exactly when its attempts are used up.
LEMMA RecordStep ==
  ASSUME IInv, NEW w \in Workers, Record(w) PROVE IInv'
<1> USE ConstantsAssumption
<1> DEFINE i == claim[w].id
           status == IF result[w] = "ok" THEN "delivered"
                     ELSE IF Exhausted(w) THEN "failed" ELSE "pending"
<1>1. i \in Ids /\ row[i] \in RowType /\ claim[w].n \in Nat
  BY DEF Record, IInv, TypeOK
<1>2. /\ st' = [st EXCEPT ![w] = "idle"] /\ claim' = [claim EXCEPT ![w] = NoClaim]
      /\ result' = [result EXCEPT ![w] = "none"]
      /\ UNCHANGED <<msgVars, nextId, txn, thread, replays, faults, holder>>
  BY DEF Record, EndAttempt
<1>3. ASSUME NEW v \in Workers, st'[v] \in {"sending", "record"}
      PROVE  st[v] \in {"sending", "record"} /\ claim'[v] = claim[v] /\ v # w
  BY <1>2, <1>3 DEF IInv, TypeOK
<1>4. /\ row' \in [Ids -> RowType] /\ overtaken' \in SUBSET Ids
      /\ \A j \in Ids \ overtaken' : row'[j].attempts <= MaxAttempts
      => TypeOK'
  <2>1. claim' \in [Workers -> [id: 0..MaxIds, n: Nat]]
    BY <1>2 DEF NoClaim, IInv, TypeOK
  <2>2. /\ st' \in [Workers -> {"idle", "sending", "record", "off"}]
        /\ result' \in [Workers -> {"none", "ok", "gone", "error"}]
    BY <1>2 DEF IInv, TypeOK
  <2>3. \A v \in Workers : st'[v] \in {"sending", "record"} => claim'[v].id \in Ids
    BY <1>3 DEF IInv, TypeOK
  <2> QED BY <1>2, <2>1, <2>2, <2>3 DEF IInv, TypeOK, HasId, msgVars
<1>5. CASE MayRecord(w)
  <2>1. /\ row' = [row EXCEPT ![i] = Attempted(row[i], result[w], status)]
        /\ overtaken' = IF holder[i] = w THEN overtaken ELSE overtaken \cup {i}
    BY <1>5 DEF Record, IInv, TypeOK
  <2>2. ASSUME i \notin overtaken'
        PROVE  /\ Current(w) /\ row[i].attempts < MaxAttempts /\ row[i].attempts <= claim[w].n
               /\ Leased => row[i].attempts = claim[w].n
    <3>1. holder[i] = w /\ i \notin overtaken BY <2>1, <2>2
    <3>2. Current(w) /\ Pending(i) BY <1>5, <3>1 DEF Current, MayRecord, Record
    <3> QED BY <1>1, <3>1, <3>2 DEF IInv, Counted, HolderCounts
  <2>3. /\ row[i].attempts + 1 \in Nat
        /\ status \in {"none", "pending", "delivered", "failed"}
        /\ i \notin overtaken' =>
             /\ row[i].attempts + 1 <= MaxAttempts
             /\ status = "pending" => row[i].attempts + 1 < MaxAttempts
             /\ Leased /\ status = "failed" =>
                  row[i].attempts + 1 >= MaxAttempts \/ result[w] = "gone"
    BY <1>1, <2>2 DEF Exhausted, RowType
  <2>4. result[w] \in {"none", "ok", "gone", "error"} BY DEF IInv, TypeOK
  <2> HIDE DEF status
  <2>5. /\ row'[i] \in RowType /\ row'[i].owner = "nobody" /\ row'[i].status = status
        /\ row'[i].attempts = row[i].attempts + 1 /\ row'[i].code = result[w]
    <3>1. row'[i] = Attempted(row[i], result[w], status) BY <1>1, <2>1 DEF IInv, TypeOK
    <3> QED BY <1>1, <2>3, <2>4, <3>1 DEF Attempted, RowType
  <2>6. \A j \in Ids : j # i => row'[j] = row[j] /\ (j \in overtaken <=> j \in overtaken')
    BY <2>1 DEF IInv, TypeOK
  <2>7. row' \in [Ids -> RowType] /\ overtaken' \in SUBSET Ids
    BY <1>1, <2>1, <2>5, <2>6 DEF IInv, TypeOK
  <2>8. /\ \A j \in Ids \ overtaken' : Pending(j)' => row'[j].attempts < MaxAttempts
        /\ \A j \in Ids \ overtaken' : row'[j].attempts <= MaxAttempts
        /\ Leased => FailsOnlyWhenExhausted'
    <3>1. ASSUME NEW j \in Ids \ overtaken'
          PROVE  /\ Pending(j)' => row'[j].attempts < MaxAttempts
                 /\ row'[j].attempts <= MaxAttempts
                 /\ Leased /\ row'[j].status = "failed" =>
                      row'[j].attempts >= MaxAttempts \/ row'[j].code = "gone"
      <4>1. CASE j = i BY <2>3, <2>5, <3>1, <4>1 DEF Pending
      <4>2. CASE j # i
        <5>1. row'[j] = row[j] /\ j \in Ids \ overtaken BY <2>6, <3>1, <4>2
        <5>2. row[j].attempts <= MaxAttempts BY <5>1 DEF IInv, TypeOK
        <5>3. Pending(j)' => Pending(j) BY <5>1 DEF Pending
        <5> QED BY <5>1, <5>2, <5>3 DEF IInv, Counted, FailsOnlyWhenExhausted
      <4> QED BY <4>1, <4>2
    <3> QED BY <3>1 DEF FailsOnlyWhenExhausted
  <2>9. ASSUME NEW v \in Workers, Current(v)'
        PROVE  \/ ~Leased /\ holder[i] = v /\ v # w /\ claim'[v].id = i
               \/ /\ Current(v) /\ claim'[v] = claim[v] /\ claim[v].id # i
                  /\ row'[claim[v].id] = row[claim[v].id]
    <3>1. st[v] \in {"sending", "record"} /\ claim'[v] = claim[v] /\ v # w
      BY <1>3, <2>9 DEF Current
    <3>2. claim[v].id \in Ids BY <3>1 DEF IInv, TypeOK
    <3>3. CASE claim[v].id = i
      BY <1>2, <2>5, <2>9, <3>1, <3>3 DEF Current, MayRecord
    <3>4. CASE claim[v].id # i
      BY <1>2, <2>6, <2>9, <3>1, <3>2, <3>4 DEF Current, MayRecord, Pending
    <3> QED BY <3>3, <3>4
  <2>10. Counted'
    <3>1. ASSUME NEW v \in Workers, Current(v)', claim'[v].id \notin overtaken'
          PROVE  row'[claim'[v].id].attempts <= claim'[v].n
      <4>1. CASE ~Leased /\ holder[i] = v /\ v # w /\ claim'[v].id = i
        BY <2>1, <3>1, <4>1
      <4>2. CASE ~(~Leased /\ holder[i] = v /\ v # w /\ claim'[v].id = i)
        <5>1. claim[v].id \in Ids BY <2>9, <3>1, <4>2 DEF Current, IInv, TypeOK
        <5> QED BY <2>6, <2>9, <3>1, <4>2, <5>1 DEF IInv, Counted
      <4> QED BY <4>1, <4>2
    <3> QED BY <2>8, <3>1 DEF Counted
  <2>11. Leased => HolderCounts' BY <2>8, <2>9 DEF IInv, HolderCounts
  <2> QED BY <1>4, <2>7, <2>8, <2>10, <2>11 DEF IInv
<1>6. CASE ~MayRecord(w)
  <2>1. row' = row /\ overtaken' = overtaken BY <1>6 DEF Record
  <2>2. Counted' /\ (Leased => HolderCounts' /\ FailsOnlyWhenExhausted')
    BY <1>2, <1>3, <2>1, SameRows
  <2> QED BY <1>4, <2>1, <2>2 DEF IInv, TypeOK
<1> QED BY <1>5, <1>6

\* Every step keeps the invariant.
LEMMA NextStep == IInv /\ [Next]_vars => IInv'
<1> SUFFICES ASSUME IInv, [Next]_vars PROVE IInv' OBVIOUS
<1>1. CASE UNCHANGED vars
  <2>1. TypeOK' BY <1>1 DEF vars, msgVars, workVars, history, IInv, TypeOK, HasId
  <2> QED BY <1>1, <2>1, SameRows DEF vars, workVars, history, IInv
<1>2. ASSUME NEW c \in Changes, Mutate(c) \/ Begin(c) PROVE IInv'
  BY <1>2, MutateStep, BeginStep
<1>3. CASE Continue \/ Commit BY <1>3, ContinueStep, CommitStep
<1>4. ASSUME NEW i \in Ids, Retry(i) \/ BecomeDue(i) \/ ExpireLease(i) PROVE IInv'
  BY <1>4, RowStep
<1>5. ASSUME NEW w \in Workers, Work(w) PROVE IInv'
  BY <1>5, ClaimStep, RecordStep, AttemptStep DEF Work
<1> QED BY <1>1, <1>2, <1>3, <1>4, <1>5 DEF Next

\* Type correctness of the outbox in both modes.  No row exceeds its attempts
\* that only its holders recorded on.
THEOREM OutboxTypes == Spec => []TypeOK
<1>1. IInv => TypeOK BY DEF IInv
<1> QED BY <1>1, NextStep, InitHolds, PTL DEF Spec

\* record_webhook_attempt in PostgreSQL mode gives a delivery up only after
\* all its attempts, or after a 410, unless a displaced process recorded over
\* the claim of its replacement.
THEOREM NotGivenUpEarly == ASSUME Leased PROVE Spec => []FailsOnlyWhenExhausted
<1>1. IInv => FailsOnlyWhenExhausted BY DEF IInv
<1> QED BY <1>1, NextStep, InitHolds, PTL DEF Spec

\* The worker id in a live lease is that of the process that holds the row.
Tied ==
  \A i \in Ids : row[i].live => holder[i] \in Workers /\ row[i].owner = IdOf[holder[i]]

\* Only a claim makes a lease, and it names its dispatcher.
LEMMA TiedStep == ASSUME Leased, IInv, Tied, [Next]_vars PROVE Tied'
<1> USE ConstantsAssumption
<1> DEFINE Ties(r) == \A i \in Ids : r[i].live => row[i].live /\ r[i].owner = row[i].owner
<1>1. ASSUME Ties(row'), holder' = holder PROVE Tied' BY <1>1 DEF Tied
<1>2. ASSUME NEW c \in Changes, Mutate(c) \/ Begin(c) PROVE Tied'
  <2>1. row' = row /\ holder' = holder BY <1>2 DEF Mutate, Begin, history
  <2> QED BY <2>1, <1>1
<1>3. CASE Continue
  BY <1>1, <1>3 DEF Continue, history
<1>4. CASE Commit
  <2>1. holder' = holder BY <1>4 DEF Commit, history
  <2>2. ASSUME NEW i \in Ids, row'[i].live PROVE row[i].live /\ row'[i].owner = row[i].owner
    <3> DEFINE gone == txn.del \cup txn.prune
    <3>1. row'[i] = IF Inserts(txn.change) /\ i = nextId THEN NewRow(txn.change.res, txn.change.body)
                    ELSE IF i \in gone THEN NoRow
                    ELSE IF i \in txn.erased THEN [row[i] EXCEPT !.body = "none"] ELSE row[i]
      BY <1>4 DEF Commit, Apply
    <3>2. row[i] \in RowType BY DEF IInv, TypeOK
    <3>3. /\ ~NewRow(txn.change.res, txn.change.body).live /\ ~NoRow.live
      BY DEF NewRow, NoRow
    <3>4. /\ [row[i] EXCEPT !.body = "none"].live = row[i].live
          /\ [row[i] EXCEPT !.body = "none"].owner = row[i].owner
      BY <3>2 DEF RowType
    <3> QED BY <2>2, <3>1, <3>3, <3>4
  <2> QED BY <1>1, <2>1, <2>2
<1>5. ASSUME NEW i \in Ids, Retry(i) \/ BecomeDue(i) \/ ExpireLease(i) PROVE Tied'
  <2>1. holder' = holder BY <1>5 DEF Retry, BecomeDue, ExpireLease, history
  <2>2. \A j \in Ids : j # i => row'[j] = row[j]
    BY <1>5 DEF Retry, BecomeDue, ExpireLease, IInv, TypeOK
  <2>3. row'[i].live => row[i].live /\ row'[i].owner = row[i].owner
    <3>1. CASE Retry(i) BY <3>1 DEF Retry, NewRow, IInv, TypeOK
    <3>2. CASE BecomeDue(i) \/ ExpireLease(i)
      BY <3>2 DEF BecomeDue, ExpireLease, IInv, TypeOK, RowType
    <3> QED BY <1>5, <3>1, <3>2
  <2> QED BY <1>1, <2>1, <2>2, <2>3
<1>6. ASSUME NEW w \in Workers, Claim(w) PROVE Tied'
  <2>1. PICK i \in Ids :
          /\ row' = [row EXCEPT ![i].owner = IdOf[w], ![i].live = TRUE]
          /\ holder' = [holder EXCEPT ![i] = w]
    BY <1>6 DEF Claim
  <2>2. holder'[i] = w /\ row'[i].owner = IdOf[w]
    <3>1. row[i] \in RowType BY DEF IInv, TypeOK
    <3>2. row'[i].owner = IdOf[w] BY <2>1, <3>1 DEF IInv, TypeOK, RowType
    <3> QED BY <2>1, <3>2 DEF IInv, TypeOK
  <2>3. \A j \in Ids : j # i => row'[j] = row[j] /\ holder'[j] = holder[j]
    BY <2>1 DEF IInv, TypeOK
  <2> QED BY <2>2, <2>3 DEF Tied
<1>7. ASSUME NEW w \in Workers, Record(w) PROVE Tied'
  <2>1. holder' = holder /\ claim[w].id \in Ids BY <1>7 DEF Record, IInv, TypeOK
  <2>2. \A j \in Ids : j # claim[w].id => row'[j] = row[j]
    BY <1>7 DEF Record, IInv, TypeOK
  <2>3. row'[claim[w].id] = row[claim[w].id] \/ ~row'[claim[w].id].live
    BY <1>7, <2>1 DEF Record, Attempted, IInv, TypeOK
  <2> QED BY <1>1, <2>1, <2>2, <2>3
<1>8. ASSUME NEW w \in Workers,
             \/ Answer(w) \/ Timeout(w) \/ ThreadReturns(w)
             \/ RecordFails(w) \/ Stop(w) \/ Restart(w)
      PROVE  Tied'
  BY <1>1, <1>8 DEF Answer, Timeout, ThreadReturns, RecordFails, Stop, Restart, history
<1>9. CASE UNCHANGED vars BY <1>1, <1>9 DEF vars, history
<1> QED BY <1>2, <1>3, <1>4, <1>5, <1>6, <1>7, <1>8, <1>9 DEF Next, Work

\* In PostgreSQL mode a process that may record on a row has the worker id of the
\* one that holds it, and the holder knows its attempt count: no replay, no lost
\* lease and no process with another worker id changes it underneath.
THEOREM ClaimsStayFresh == ASSUME Leased PROVE Spec => []ClaimsAreFresh
<1>1. Init => Tied BY DEF Init, Tied, NoRow
<1>2. IInv /\ Tied /\ [Next]_vars => IInv' /\ Tied' BY NextStep, TiedStep
<1>3. IInv /\ Tied => OnlySharersRecord
  BY DEF IInv, TypeOK, Tied, OnlySharersRecord, MayRecord
<1>4. IInv /\ Tied => ClaimsAreFresh BY <1>3 DEF IInv, ClaimsAreFresh
<1> QED BY <1>1, <1>2, <1>4, InitHolds, PTL DEF Spec

-----------------------------------------------------------------------------
(* Erasure and capacity, which do not depend on leases.                    *)

\* A row, whatever its attempts.
Shape ==
  [status: {"none", "pending", "delivered", "failed"}, res: Messages \cup {"subject"},
   body: Bodies \cup {"none"}, attempts: Nat, due: BOOLEAN,
   code: {"none", "ok", "gone", "error"},
   owner: {IdOf[w] : w \in Workers} \cup {"nobody"}, live: BOOLEAN]

Shapes ==
  /\ row \in [Ids -> Shape]
  /\ msg \in [Messages -> {"none", "live", "deleted", "gone"}]
  /\ result \in [Workers -> {"none", "ok", "gone", "error"}]

\* The rows are the same, and report the same on the same message.
SameReports ==
  \A i \in Ids : /\ row'[i].status = "none" <=> row[i].status = "none"
                 /\ row'[i].res = row[i].res /\ row'[i].body = row[i].body

\* The steps that only serve the rows there are.
Serving ==
  \/ \E i \in Ids : Retry(i) \/ BecomeDue(i) \/ ExpireLease(i)
  \/ \E w \in Workers : Work(w)

LEMMA RowShapes ==
  /\ NoRow \in Shape /\ NoRow.status = "none"
  /\ \A res \in Messages \cup {"subject"}, body \in Bodies :
        LET r == NewRow(res, body)
        IN  /\ r \in Shape /\ r.status = "pending" /\ r.res = res /\ r.body = body
BY ConstantsAssumption DEF NoRow, NewRow, Shape, Bodies

\* A step that replaces one row by one that reports the same.
LEMMA OneRow ==
  ASSUME Shapes, NEW i, NEW r \in Shape, row' = [row EXCEPT ![i] = r],
         i \in Ids => /\ r.status = "none" <=> row[i].status = "none"
                      /\ r.res = row[i].res /\ r.body = row[i].body
  PROVE  row' \in [Ids -> Shape] /\ SameReports
<1>1. \A j \in Ids : row'[j] = IF j = i THEN r ELSE row[j] BY DEF Shapes
<1>2. row' \in [Ids -> Shape] BY DEF Shapes
<1> QED BY <1>1, <1>2 DEF SameReports

\* Claims, attempts, replays and the passing of time leave what the outbox
\* reports alone.
LEMMA ServingKeeps ==
  ASSUME Shapes, Serving
  PROVE  Shapes' /\ SameReports /\ UNCHANGED <<msgVars, nextId, txn>>
<1> USE ConstantsAssumption
<1>1. ASSUME row' = row PROVE row' \in [Ids -> Shape] /\ SameReports
  BY <1>1 DEF Shapes, SameReports
<1>2. ASSUME NEW i \in Ids, Retry(i) \/ BecomeDue(i) \/ ExpireLease(i)
      PROVE  row' \in [Ids -> Shape] /\ SameReports
  <2>1. row[i] \in Shape BY DEF Shapes
  <2>2. CASE Retry(i)
    <3>1. row' = [row EXCEPT ![i] = NewRow(row[i].res, row[i].body)]
      BY <2>2 DEF Retry, Shapes
    <3>2. /\ row[i].res \in Messages \cup {"subject"} /\ row[i].body \in Bodies
          /\ row[i].status # "none"
      BY <2>1, <2>2 DEF Retry, Rows, Shape
    <3>3. /\ NewRow(row[i].res, row[i].body) \in Shape
          /\ NewRow(row[i].res, row[i].body).status # "none"
          /\ NewRow(row[i].res, row[i].body).res = row[i].res
          /\ NewRow(row[i].res, row[i].body).body = row[i].body
      BY <3>2, RowShapes
    <3> HIDE DEF NewRow
    <3> QED BY <3>1, <3>2, <3>3, OneRow
  <2>3. CASE BecomeDue(i)
    <3>1. row' = [row EXCEPT ![i] = [row[i] EXCEPT !.due = TRUE]]
      BY <2>3 DEF BecomeDue, Shapes
    <3>2. /\ [row[i] EXCEPT !.due = TRUE] \in Shape
          /\ [row[i] EXCEPT !.due = TRUE].status = row[i].status
          /\ [row[i] EXCEPT !.due = TRUE].res = row[i].res
          /\ [row[i] EXCEPT !.due = TRUE].body = row[i].body
      BY <2>1 DEF Shape
    <3> QED BY <3>1, <3>2, OneRow
  <2>4. CASE ExpireLease(i)
    <3>1. row' = [row EXCEPT ![i] = [row[i] EXCEPT !.live = FALSE]]
      BY <2>4 DEF ExpireLease, Shapes
    <3>2. /\ [row[i] EXCEPT !.live = FALSE] \in Shape
          /\ [row[i] EXCEPT !.live = FALSE].status = row[i].status
          /\ [row[i] EXCEPT !.live = FALSE].res = row[i].res
          /\ [row[i] EXCEPT !.live = FALSE].body = row[i].body
      BY <2>1 DEF Shape
    <3> QED BY <3>1, <3>2, OneRow
  <2> QED BY <1>2, <2>2, <2>3, <2>4
<1>3. ASSUME NEW w \in Workers, Claim(w)
      PROVE  row' \in [Ids -> Shape] /\ SameReports
  <2>1. PICK i \in Ids : row' = IF Leased THEN [row EXCEPT ![i].owner = IdOf[w], ![i].live = TRUE]
                                ELSE row
    BY <1>3 DEF Claim
  <2>2. CASE ~Leased BY <1>1, <2>1, <2>2
  <2>3. CASE Leased
    <3>1. row' = [row EXCEPT ![i] = [row[i] EXCEPT !.owner = IdOf[w], !.live = TRUE]]
      BY <2>1, <2>3 DEF Shapes
    <3>2. row[i] \in Shape BY DEF Shapes
    <3>3. /\ [row[i] EXCEPT !.owner = IdOf[w], !.live = TRUE] \in Shape
          /\ [row[i] EXCEPT !.owner = IdOf[w], !.live = TRUE].status = row[i].status
          /\ [row[i] EXCEPT !.owner = IdOf[w], !.live = TRUE].res = row[i].res
          /\ [row[i] EXCEPT !.owner = IdOf[w], !.live = TRUE].body = row[i].body
      BY <3>2 DEF Shape
    <3> QED BY <3>1, <3>3, OneRow
  <2> QED BY <2>2, <2>3
<1>4. ASSUME NEW w \in Workers, Record(w)
      PROVE  row' \in [Ids -> Shape] /\ SameReports
  <2> DEFINE i == claim[w].id
             status == IF result[w] = "ok" THEN "delivered"
                       ELSE IF Exhausted(w) THEN "failed" ELSE "pending"
  <2>1. CASE row' = row BY <1>1, <2>1
  <2>2. CASE i \in Ids /\ MayRecord(w) /\ row' = [row EXCEPT ![i] = Attempted(row[i], result[w], status)]
    <3>1. row[i] \in Shape /\ row[i].status # "none" /\ result[w] \in {"none", "ok", "gone", "error"}
      BY <2>2 DEF Shapes, MayRecord, Pending
    <3>2. status \in {"pending", "delivered", "failed"} OBVIOUS
    <3> HIDE DEF status, i
    <3>3. /\ Attempted(row[i], result[w], status) \in Shape
          /\ Attempted(row[i], result[w], status).status # "none"
          /\ Attempted(row[i], result[w], status).res = row[i].res
          /\ Attempted(row[i], result[w], status).body = row[i].body
      BY <3>1, <3>2 DEF Attempted, Shape
    <3> HIDE DEF Attempted
    <3> QED BY <2>2, <3>1, <3>3, OneRow
  <2>3. row' = row \/ (i \in Ids /\ MayRecord(w)
                         /\ row' = [row EXCEPT ![i] = Attempted(row[i], result[w], status)])
    BY <1>4 DEF Record, Shapes
  <2> QED BY <2>1, <2>2, <2>3
<1>5. ASSUME NEW w \in Workers,
             \/ Answer(w) \/ Timeout(w) \/ ThreadReturns(w)
             \/ RecordFails(w) \/ Stop(w) \/ Restart(w)
      PROVE  row' = row
  BY <1>5 DEF Answer, Timeout, ThreadReturns, RecordFails, Stop, Restart
<1>6. row' \in [Ids -> Shape] /\ SameReports
  BY <1>1, <1>2, <1>3, <1>4, <1>5 DEF Serving, Work
<1>7. UNCHANGED <<msgVars, nextId, txn>>
  BY DEF Serving, Work, Retry, BecomeDue, ExpireLease, Claim, Answer, Timeout, ThreadReturns,
         Record, RecordFails, Stop, Restart
<1>8. result' \in [Workers -> {"none", "ok", "gone", "error"}]
  <2>1. ASSUME NEW w \in Workers, Answer(w)
        PROVE  result' \in [Workers -> {"none", "ok", "gone", "error"}]
    <3>1. PICK r \in {"ok", "gone", "error"} : result' = [result EXCEPT ![w] = r]
      BY <2>1 DEF Answer
    <3> QED BY <3>1 DEF Shapes
  <2>2. ASSUME NEW w \in Workers, Work(w), ~Answer(w)
        PROVE  result' \in [Workers -> {"none", "ok", "gone", "error"}]
    BY <2>2 DEF Work, Claim, Timeout, ThreadReturns, Record, RecordFails, Stop, Restart,
                EndAttempt, Shapes
  <2>3. ASSUME NEW i \in Ids, Retry(i) \/ BecomeDue(i) \/ ExpireLease(i)
        PROVE  result' = result
    BY <2>3 DEF Retry, BecomeDue, ExpireLease, workVars
  <2> QED BY <2>1, <2>2, <2>3 DEF Serving, Shapes
<1> QED BY <1>6, <1>7, <1>8 DEF Shapes, msgVars

\* What the mutations of the room promise: the event they insert reports on a
\* message that is live after them, or on the tombstone they leave.
LEMMA ChangeFacts ==
  ASSUME NEW c \in Changes
  PROVE  /\ room /\ c.lost \subseteq Stored /\ c.new \subseteq New
         /\ c.into = "deleted" => c.lost \subseteq Live
         /\ c.body = "content" =>
               c.res \in Messages /\ c.res \notin c.lost /\ c.res \in c.new \cup Live
         /\ c.body = "tombstone" => c.res \in Messages /\ c.res \in c.lost /\ c.into = "deleted"
         /\ ~c.keep => c.body = "none"
         /\ c.body \in Bodies \cup {"none"}
<1>1. room /\ c \in Creations \cup Touches \cup Deletions \cup Retentions
                      \cup Moderations \cup RoomDeletions
  BY DEF Changes
<1>2. CASE c \in Creations
  <2>1. PICK p \in New \X SUBSET Stored : c = Change({p[1]}, p[2], "gone", "content", p[1])
    BY <1>2 DEF Creations
  <2>2. /\ c.new = {p[1]} /\ c.lost = p[2] /\ c.into = "gone" /\ c.body = "content"
        /\ c.res = p[1] /\ c.keep
    BY <2>1 DEF Change
  <2>3. p[1] \in New /\ p[2] \subseteq Stored /\ p[1] \in Messages /\ p[1] \notin Stored
    BY DEF New, Stored
  <2> QED BY <1>1, <2>2, <2>3 DEF Bodies
<1>3. CASE c \in Touches \cup Deletions
  <2>1. PICK m \in Live : \/ c = Change({}, {}, "gone", "content", m)
                          \/ c = Change({}, {m}, "deleted", "tombstone", m)
    BY <1>3 DEF Touches, Deletions
  <2>2. m \in Messages /\ Live \subseteq Stored BY DEF Live, Stored
  <2>3. CASE c = Change({}, {}, "gone", "content", m)
    <3>1. /\ c.new = {} /\ c.lost = {} /\ c.into = "gone" /\ c.body = "content"
          /\ c.res = m /\ c.keep
      BY <2>3 DEF Change
    <3> QED BY <1>1, <2>2, <3>1 DEF Bodies
  <2>4. CASE c = Change({}, {m}, "deleted", "tombstone", m)
    <3>1. /\ c.new = {} /\ c.lost = {m} /\ c.into = "deleted" /\ c.body = "tombstone"
          /\ c.res = m /\ c.keep
      BY <2>4 DEF Change
    <3> QED BY <1>1, <2>2, <3>1 DEF Bodies
  <2> QED BY <2>1, <2>3, <2>4
<1>4. CASE c \in Retentions \cup Moderations
  <2>1. PICK old \in SUBSET Stored : \/ c = Change({}, old, "gone", "none", "subject")
                                     \/ c = Change({}, {}, "gone", "moderation", "subject")
    BY <1>4 DEF Retentions, Moderations
  <2>2. /\ c.new = {} /\ c.lost \subseteq Stored /\ c.into = "gone"
        /\ c.body \in {"none", "moderation"} /\ c.keep
    BY <2>1 DEF Change
  <2> QED BY <1>1, <2>2 DEF Bodies
<1>5. CASE c \in RoomDeletions
  BY <1>1, <1>5 DEF RoomDeletions, Bodies
<1> QED BY <1>1, <1>2, <1>3, <1>4, <1>5

\* A mutation keeps the shape of rows and messages.
LEMMA ApplyShapes ==
  ASSUME Shapes, NEW c \in ChangeType, NEW gone, NEW erased, Apply(c, gone, erased),
         UNCHANGED result
  PROVE  Shapes'
<1> USE ConstantsAssumption
<1>1. ASSUME NEW i \in Ids
      PROVE  row'[i] \in Shape
  <2>1. row[i] \in Shape BY DEF Shapes
  <2>2. CASE Inserts(c) /\ i = nextId
    <3>1. row'[i] = NewRow(c.res, c.body) BY <2>2 DEF Apply
    <3>2. c.res \in Messages \cup {"subject"} /\ c.body \in Bodies
      BY <2>2 DEF Inserts, ChangeType
    <3> QED BY <3>1, <3>2, RowShapes
  <2>3. CASE ~(Inserts(c) /\ i = nextId) /\ i \in gone
    BY <2>3, RowShapes DEF Apply
  <2>4. CASE ~(Inserts(c) /\ i = nextId) /\ i \notin gone /\ i \in erased
    <3>1. row'[i] = [row[i] EXCEPT !.body = "none"] BY <2>4 DEF Apply
    <3> QED BY <2>1, <3>1 DEF Shape
  <2>5. CASE ~(Inserts(c) /\ i = nextId) /\ i \notin gone /\ i \notin erased
    BY <2>1, <2>5 DEF Apply
  <2> QED BY <2>2, <2>3, <2>4, <2>5
<1>2. row' \in [Ids -> Shape] BY <1>1 DEF Apply
<1>3. msg' \in [Messages -> {"none", "live", "deleted", "gone"}]
  BY DEF Apply, Shapes, ChangeType
<1> QED BY <1>2, <1>3 DEF Shapes

\* A row with the content or the tombstone of a message names that message.
Named == \A i \in Rows : row[i].body \in {"content", "tombstone"} => row[i].res \in Messages

ErasureInv == Shapes /\ Named /\ ErasedEverywhere

\* One transaction of SQLite erases whatever it makes obsolete.
LEMMA MutateErases ==
  ASSUME ErasureInv, NEW c \in Changes, Mutate(c)
  PROVE  ErasureInv'
<1> USE ConstantsAssumption
<1> DEFINE del == ScrubPending(c)
           gone == IF Inserts(c) THEN del \cup Prune(del) ELSE del
           erased == ScrubTerminal(c)
<1>1. Apply(c, gone, erased) /\ UNCHANGED result BY DEF Mutate, workVars
<1>2. c \in ChangeType BY ChangeTypes
<1>3. Shapes' BY <1>1, <1>2, ApplyShapes DEF ErasureInv
<1>4. /\ room' = (room /\ c.keep)
      /\ \A m \in Messages : msg'[m] = IF m \in c.new THEN "live"
                                       ELSE IF m \in c.lost THEN c.into ELSE msg[m]
      /\ \A i \in Ids : row'[i] = IF Inserts(c) /\ i = nextId THEN NewRow(c.res, c.body)
                                  ELSE IF i \in gone THEN NoRow
                                  ELSE IF i \in erased THEN [row[i] EXCEPT !.body = "none"]
                                  ELSE row[i]
  BY <1>1 DEF Apply
<1>5. /\ room /\ c.lost \subseteq Stored /\ c.new \subseteq New
      /\ c.into = "deleted" => c.lost \subseteq Live
      /\ c.body = "content" =>
            c.res \in Messages /\ c.res \notin c.lost /\ c.res \in c.new \cup Live
      /\ c.body = "tombstone" => c.res \in Messages /\ c.res \in c.lost /\ c.into = "deleted"
      /\ ~c.keep => c.body = "none"
  BY ChangeFacts
<1>6. /\ del \subseteq gone
      /\ \A i \in Concerned(c) : i \in del \/ i \in erased
  <2>1. \A i \in Concerned(c) : row[i].status \in {"pending", "delivered", "failed"}
    BY DEF Concerned, Rows, ErasureInv, Shapes, Shape
  <2> QED BY <2>1 DEF ScrubPending, ScrubTerminal, Pending, Terminal
<1> HIDE DEF del, gone, erased
<1>7. ASSUME NEW i \in Ids, row'[i].status # "none"
      PROVE  /\ row'[i].body \in {"content", "tombstone"} => row'[i].res \in Messages
             /\ row'[i].body = "content" => msg'[row'[i].res] = "live"
             /\ row'[i].body = "tombstone" => msg'[row'[i].res] = "deleted"
             /\ row'[i].body # "none" => room'
  <2>0. row[i] \in Shape BY DEF ErasureInv, Shapes
  <2>1. CASE Inserts(c) /\ i = nextId
    <3>0. row'[i] = NewRow(c.res, c.body) BY <1>4, <2>1
    <3>1. row'[i].res = c.res /\ row'[i].body = c.body BY <3>0 DEF NewRow
    <3>2. c.body \in Bodies /\ c.body # "none" BY <2>1 DEF Inserts, Bodies
    <3>3. room' BY <1>4, <1>5, <3>2
    <3>4. c.body = "content" => msg'[c.res] = "live"
      BY <1>4, <1>5 DEF Live
    <3>5. c.body = "tombstone" => msg'[c.res] = "deleted"
      BY <1>4, <1>5 DEF New, Live
    <3> QED BY <1>5, <3>1, <3>3, <3>4, <3>5
  <2>2. CASE ~(Inserts(c) /\ i = nextId)
    <3>1. i \notin gone
      BY <1>4, <1>7, <2>2, RowShapes
    <3>2. CASE i \in erased
      <4>1. row'[i] = [row[i] EXCEPT !.body = "none"] BY <1>4, <2>2, <3>1, <3>2
      <4>2. row'[i].body = "none" BY <2>0, <4>1 DEF Shape
      <4> QED BY <4>2
    <3>3. CASE i \notin erased
      <4>1. row'[i] = row[i] BY <1>4, <2>2, <3>1, <3>3
      <4>2. i \in Rows BY <1>7, <4>1 DEF Rows
      <4>3. i \notin Concerned(c) BY <1>6, <3>1, <3>3
      <4>4. c.keep /\ row[i].res \notin c.lost BY <4>2, <4>3 DEF Concerned
      <4>5. /\ row[i].body \in {"content", "tombstone"} => row[i].res \in Messages
            /\ row[i].body = "content" => msg[row[i].res] = "live"
            /\ row[i].body = "tombstone" => msg[row[i].res] = "deleted"
        BY <4>2 DEF ErasureInv, Named, ErasedEverywhere
      <4>6. ASSUME row[i].body \in {"content", "tombstone"}
            PROVE  msg'[row[i].res] = msg[row[i].res]
        <5>1. row[i].res \notin c.new BY <1>5, <4>5, <4>6 DEF New
        <5> QED BY <1>4, <4>4, <4>5, <4>6, <5>1
      <4> QED BY <1>4, <1>5, <4>1, <4>4, <4>5, <4>6
    <3> QED BY <3>2, <3>3
  <2> QED BY <2>1, <2>2
<1>8. Named' BY <1>7 DEF Named, Rows
<1>9. ErasedEverywhere' BY <1>7 DEF ErasedEverywhere, Rows
<1> QED BY <1>3, <1>8, <1>9 DEF ErasureInv

LEMMA SameErasure ==
  ASSUME ErasureInv, Shapes', SameReports, UNCHANGED msgVars
  PROVE  ErasureInv'
<1>1. Named' BY DEF ErasureInv, Named, Rows, SameReports
<1>2. ErasedEverywhere' BY DEF ErasureInv, ErasedEverywhere, Rows, SameReports, msgVars
<1> QED BY <1>1, <1>2 DEF ErasureInv

\* In SQLite the two statements of a scrub are one step for everybody else.
LEMMA ErasureStep ==
  ASSUME ~Leased, ErasureInv, txn = Idle, [Next]_vars
  PROVE  ErasureInv' /\ txn' = Idle
<1>1. ASSUME NEW c \in Changes, Mutate(c)
      PROVE  ErasureInv' /\ txn' = Idle
  BY <1>1, MutateErases DEF Mutate
<1>2. ASSUME Serving
      PROVE  ErasureInv' /\ txn' = Idle
  BY <1>2, ServingKeeps, SameErasure DEF ErasureInv
<1>3. ASSUME UNCHANGED vars
      PROVE  ErasureInv' /\ txn' = Idle
  <2>1. Shapes' /\ SameReports /\ UNCHANGED msgVars /\ txn' = txn
    BY <1>3 DEF ErasureInv, Shapes, SameReports, vars, msgVars, workVars
  <2> QED BY <2>1, SameErasure
<1>4. ~Continue /\ ~Commit /\ \A c \in Changes : ~Begin(c)
  BY DEF Continue, Commit, Begin, Idle
<1> QED BY <1>1, <1>2, <1>3, <1>4 DEF Next, Serving

LEMMA InitErased == Init => ErasureInv /\ txn = Idle
<1> SUFFICES ASSUME Init PROVE ErasureInv /\ txn = Idle OBVIOUS
<1>1. \A i \in Ids : row[i] = NoRow BY DEF Init
<1>2. Rows = {} BY <1>1, RowShapes DEF Rows
<1>3. Shapes BY RowShapes DEF Init, Shapes
<1> QED BY <1>2, <1>3 DEF Init, ErasureInv, Named, ErasedEverywhere

\* In SQLite mode no body outlives what it tells of: delete_message, run_retention,
\* _trim_messages and delete_room remove it from pending and terminal rows
\* alike, whatever was claimed, retried or replayed.
THEOREM ErasedInSqlite == ASSUME ~Leased PROVE Spec => []ErasedEverywhere
<1>1. ErasureInv => ErasedEverywhere BY DEF ErasureInv
<1>2. ErasureInv /\ txn = Idle /\ [Next]_vars => ErasureInv' /\ (txn = Idle)'
  BY ErasureStep
<1> QED BY <1>1, <1>2, InitErased, PTL DEF Spec

\* What PromiseKept says of a step.
KeepsPromise ==
  \A i \in Ids :
     Pending(i) /\ row'[i].status = "none" =>
        ~room' \/ (row[i].res \in Messages /\ msg'[row[i].res] # msg[row[i].res])

LEMMA MutatePromises ==
  ASSUME Shapes, NEW c \in Changes, Mutate(c)
  PROVE  KeepsPromise
<1> USE ConstantsAssumption
<1> DEFINE del == ScrubPending(c)
           gone == IF Inserts(c) THEN del \cup Prune(del) ELSE del
           erased == ScrubTerminal(c)
<1> SUFFICES ASSUME NEW i \in Ids, row[i].status = "pending", row'[i].status = "none", room'
             PROVE  row[i].res \in Messages /\ msg'[row[i].res] # msg[row[i].res]
  BY DEF KeepsPromise, Pending
<1>1. Apply(c, gone, erased) BY DEF Mutate
<1>2. c \in ChangeType BY ChangeTypes
<1>3. /\ room' = (room /\ c.keep)
      /\ \A m \in Messages : msg'[m] = IF m \in c.new THEN "live"
                                       ELSE IF m \in c.lost THEN c.into ELSE msg[m]
      /\ row'[i] = IF Inserts(c) /\ i = nextId THEN NewRow(c.res, c.body)
                   ELSE IF i \in gone THEN NoRow
                   ELSE IF i \in erased THEN [row[i] EXCEPT !.body = "none"]
                   ELSE row[i]
  BY <1>1 DEF Apply
<1>4. i \in gone
  <2>0. row[i] \in Shape BY DEF Shapes
  <2>1. ~(Inserts(c) /\ i = nextId)
    <3> SUFFICES ASSUME Inserts(c), i = nextId PROVE FALSE OBVIOUS
    <3>1. row'[i] = NewRow(c.res, c.body) BY <1>3
    <3> QED BY <3>1 DEF NewRow
  <2>2. [row[i] EXCEPT !.body = "none"].status = "pending" BY <2>0 DEF Shape
  <2> QED BY <1>3, <2>1, <2>2
<1>5. i \in del BY <1>4 DEF Prune, Oldest, Terminal
<1>6. c.keep /\ row[i].res \in c.lost BY <1>3, <1>5 DEF ScrubPending, Concerned
<1>7. /\ c.lost \subseteq Stored /\ c.new \subseteq New
      /\ c.into = "deleted" => c.lost \subseteq Live
  BY ChangeFacts
<1>8. row[i].res \in Messages /\ msg[row[i].res] \in {"live", "deleted"} /\ row[i].res \notin c.new
  BY <1>6, <1>7 DEF Stored, New
<1>9. msg'[row[i].res] = c.into BY <1>3, <1>6, <1>8
<1>10. c.into \in {"deleted", "gone"} BY <1>2 DEF ChangeType
<1>11. c.into = "deleted" => msg[row[i].res] = "live" BY <1>6, <1>7 DEF Live
<1> QED BY <1>8, <1>9, <1>10, <1>11

\* In SQLite mode a row that is still to be sent leaves the outbox only together
\* with what it reports on; pruning for capacity never takes it.
THEOREM PromiseInSqlite == ASSUME ~Leased PROVE Spec => PromiseKept
<1>1. ErasureInv /\ txn = Idle /\ [Next]_vars => ErasureInv' /\ (txn = Idle)'
  BY ErasureStep
<1>2. ASSUME ErasureInv, txn = Idle, [Next]_vars PROVE KeepsPromise
  <2>1. ASSUME NEW c \in Changes, Mutate(c) PROVE KeepsPromise
    BY <1>2, <2>1, MutatePromises DEF ErasureInv
  <2>2. ASSUME Serving PROVE KeepsPromise
    <3>1. SameReports BY <1>2, <2>2, ServingKeeps DEF ErasureInv
    <3> QED BY <3>1 DEF SameReports, KeepsPromise, Pending
  <2>3. ASSUME UNCHANGED vars PROVE KeepsPromise
    BY <2>3 DEF vars, KeepsPromise, Pending
  <2>4. ~Continue /\ ~Commit /\ \A c \in Changes : ~Begin(c)
    BY <1>2 DEF Continue, Commit, Begin, Idle
  <2> QED BY <1>2, <2>1, <2>2, <2>3, <2>4 DEF Next, Serving
<1>3. Spec => [][KeepsPromise]_vars
  BY <1>1, <1>2, InitErased, PTL DEF Spec
<1> QED BY <1>3 DEF KeepsPromise, PromiseKept

\* The capacity as the transaction in progress has counted it: until it
\* commits nobody else inserts, and the rows it prunes make its place.
Counts ==
  /\ txn.stage # "idle" => Leased /\ txn.change \in ChangeType
  /\ txn.stage = "pruning" /\ Inserts(txn.change) => Fits(txn.del \cup txn.prune)

CapacityInv == Shapes /\ Counts /\ WithinCapacity

LEMMA RowsFinite == IsFiniteSet(Rows) /\ IsFiniteSet(Ids)
<1>1. IsFiniteSet(Ids) BY ConstantsAssumption, FS_Interval DEF Ids
<1> QED BY <1>1, FS_Subset DEF Rows

\* A mutation that inserts has made the place for its row.
LEMMA ApplyFits ==
  ASSUME WithinCapacity, Shapes, NEW c, NEW gone, NEW erased, Apply(c, gone, erased),
         Inserts(c) => Fits(gone)
  PROVE  WithinCapacity'
<1> USE ConstantsAssumption
<1>1. \A i \in Ids : row'[i] = IF Inserts(c) /\ i = nextId THEN NewRow(c.res, c.body)
                               ELSE IF i \in gone THEN NoRow
                               ELSE IF i \in erased THEN [row[i] EXCEPT !.body = "none"]
                               ELSE row[i]
  BY DEF Apply
<1>2. ASSUME NEW i \in Ids, row'[i].status # "none", ~(Inserts(c) /\ i = nextId)
      PROVE  i \in Rows \ gone
  <2>0. row[i] \in Shape BY DEF Shapes
  <2>1. i \notin gone BY <1>1, <1>2, RowShapes
  <2>2. [row[i] EXCEPT !.body = "none"].status = row[i].status BY <2>0 DEF Shape
  <2>3. row'[i].status = row[i].status BY <1>1, <1>2, <2>1, <2>2
  <2> QED BY <1>2, <2>1, <2>3 DEF Rows
<1>3. IsFiniteSet(Rows \ gone) /\ Cardinality(Rows \ gone) <= Cardinality(Rows)
      /\ Cardinality(Rows) \in Nat /\ Cardinality(Rows \ gone) \in Nat
  <2>1. Rows \ gone \subseteq Rows OBVIOUS
  <2>2. IsFiniteSet(Rows \ gone) /\ Cardinality(Rows \ gone) <= Cardinality(Rows)
    BY <2>1, RowsFinite, FS_Subset
  <2> QED BY <2>2, RowsFinite, FS_CardinalityType
<1>4. CASE Inserts(c)
  <2>1. Rows' \subseteq (Rows \ gone) \cup {nextId} BY <1>2 DEF Rows
  <2>2. /\ IsFiniteSet((Rows \ gone) \cup {nextId})
        /\ Cardinality((Rows \ gone) \cup {nextId}) <= Cardinality(Rows \ gone) + 1
    <3>1. /\ IsFiniteSet((Rows \ gone) \cup {nextId})
          /\ Cardinality((Rows \ gone) \cup {nextId}) =
               IF nextId \in Rows \ gone THEN Cardinality(Rows \ gone)
               ELSE Cardinality(Rows \ gone) + 1
      BY <1>3, FS_AddElement
    <3> QED BY <1>3, <3>1
  <2>3. Cardinality(Rows') <= Cardinality((Rows \ gone) \cup {nextId})
    BY <2>1, <2>2, FS_Subset
  <2>4. Cardinality(Rows') \in Nat /\ Cardinality((Rows \ gone) \cup {nextId}) \in Nat
    BY <2>1, <2>2, FS_Subset, FS_CardinalityType
  <2>5. Cardinality(Rows \ gone) < MaxDeliveries BY <1>4 DEF Fits
  <2>6. Cardinality(Rows') <= MaxDeliveries BY <1>3, <2>2, <2>3, <2>4, <2>5
  <2> QED BY <2>6 DEF WithinCapacity
<1>5. CASE ~Inserts(c)
  <2>1. Rows' \subseteq Rows BY <1>2, <1>5 DEF Rows
  <2>2. Cardinality(Rows') <= Cardinality(Rows) /\ Cardinality(Rows') \in Nat
    BY <2>1, RowsFinite, FS_Subset, FS_CardinalityType
  <2> QED BY <1>3, <2>2 DEF WithinCapacity
<1> QED BY <1>4, <1>5

LEMMA SameCapacity ==
  ASSUME CapacityInv, Shapes', SameReports, UNCHANGED txn
  PROVE  CapacityInv'
<1>1. Rows' = Rows BY DEF SameReports, Rows
<1>2. WithinCapacity' BY <1>1 DEF CapacityInv, WithinCapacity
<1>3. Counts' BY <1>1 DEF CapacityInv, Counts, Fits, Inserts
<1> QED BY <1>2, <1>3 DEF CapacityInv

LEMMA CapacityStep ==
  ASSUME CapacityInv, [Next]_vars
  PROVE  CapacityInv'
<1>1. ASSUME NEW c \in Changes, Mutate(c) PROVE CapacityInv'
  <2> DEFINE del == ScrubPending(c)
             gone == IF Inserts(c) THEN del \cup Prune(del) ELSE del
  <2>1. /\ Apply(c, gone, ScrubTerminal(c)) /\ (Inserts(c) => Fits(gone))
        /\ UNCHANGED result /\ txn' = txn
    BY <1>1 DEF Mutate, workVars
  <2>2. c \in ChangeType BY ChangeTypes
  <2> HIDE DEF gone
  <2>3. Shapes' /\ WithinCapacity'
    BY <2>1, <2>2, ApplyShapes, ApplyFits DEF CapacityInv
  <2>4. txn.stage = "idle" BY <1>1 DEF Mutate, CapacityInv, Counts
  <2>5. Counts' BY <2>1, <2>4 DEF Counts
  <2> QED BY <2>3, <2>5 DEF CapacityInv
<1>2. ASSUME NEW c \in Changes, Begin(c) PROVE CapacityInv'
  <2>1. Leased /\ txn'.stage = "scrubbing" /\ txn'.change = c /\ UNCHANGED <<msgVars, row, workVars>>
    BY <1>2 DEF Begin
  <2>2. c \in ChangeType BY ChangeTypes
  <2> QED BY <2>1, <2>2 DEF CapacityInv, Shapes, Counts, WithinCapacity, Rows, msgVars, workVars
<1>3. ASSUME Continue PROVE CapacityInv'
  <2>1. UNCHANGED <<msgVars, row, workVars>> BY <1>3 DEF Continue
  <2>2. Shapes' /\ WithinCapacity'
    BY <2>1 DEF CapacityInv, Shapes, WithinCapacity, Rows, msgVars, workVars
  <2>3. Counts'
    <3>1. Leased /\ txn.change \in ChangeType BY <1>3 DEF Continue, CapacityInv, Counts
    <3>2. Rows' = Rows BY <2>1 DEF Rows
    <3>3. \/ txn'.stage = "idle"
          \/ /\ txn'.change = txn.change
             /\ Inserts(txn.change) => Fits(txn'.del \cup txn'.prune)
      BY <1>3 DEF Continue, Idle
    <3> QED BY <3>1, <3>2, <3>3 DEF Counts, Inserts, Fits
  <2> QED BY <2>2, <2>3 DEF CapacityInv
<1>4. ASSUME Commit PROVE CapacityInv'
  <2>1. /\ Apply(txn.change, txn.del \cup txn.prune, txn.erased) /\ UNCHANGED result
        /\ txn'.stage = "idle"
    BY <1>4 DEF Commit, workVars, Idle
  <2>2. /\ txn.change \in ChangeType
        /\ Inserts(txn.change) => Fits(txn.del \cup txn.prune)
    BY <1>4 DEF Commit, CapacityInv, Counts
  <2>3. Shapes' /\ WithinCapacity'
    BY <2>1, <2>2, ApplyShapes, ApplyFits DEF CapacityInv
  <2> QED BY <2>1, <2>3 DEF CapacityInv, Counts
<1>5. ASSUME Serving PROVE CapacityInv'
  BY <1>5, ServingKeeps, SameCapacity DEF CapacityInv
<1>6. ASSUME UNCHANGED vars PROVE CapacityInv'
  <2>1. Shapes' /\ SameReports /\ UNCHANGED txn
    BY <1>6 DEF CapacityInv, Shapes, SameReports, vars, msgVars, workVars
  <2> QED BY <2>1, SameCapacity
<1> QED BY <1>1, <1>2, <1>3, <1>4, <1>5, <1>6 DEF Next, Serving

\* The outbox stays within max_webhook_deliveries in both modes: the check of
\* _insert_webhook counts under the lock that every other insertion takes.
THEOREM CapacityKept == Spec => []WithinCapacity
<1>1. Init => CapacityInv
  <2> SUFFICES ASSUME Init PROVE CapacityInv OBVIOUS
  <2>1. Rows = {} BY RowShapes DEF Init, Rows
  <2>2. Cardinality(Rows) = 0 BY <2>1, FS_EmptySet
  <2>3. WithinCapacity BY <2>2, ConstantsAssumption DEF WithinCapacity
  <2>4. Counts BY DEF Init, Counts, Idle
  <2> QED BY <2>3, <2>4, InitErased DEF CapacityInv, ErasureInv
<1>2. CapacityInv /\ [Next]_vars => CapacityInv' BY CapacityStep
<1>3. CapacityInv => WithinCapacity BY DEF CapacityInv
<1> QED BY <1>1, <1>2, <1>3, PTL DEF Spec

=============================================================================
