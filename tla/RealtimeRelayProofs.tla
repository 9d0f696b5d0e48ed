------------------------ MODULE RealtimeRelayProofs ------------------------
(***************************************************************************)
(* Theorems about RealtimeRelay, for any processes, instance ids, sockets, *)
(* events and bounds.                                                      *)
(***************************************************************************)
EXTENDS RealtimeRelay, SequenceTheorems, TLAPS

----------------------------------------------------------------------------
(* The log: its head is its greatest committed sequence *)

LogOrder ==
    /\ \A s \in open, t \in open : s = t
    /\ \A s \in open : s < nextSeq /\ \A x \in committed : x < s
    /\ \A x \in committed : x < nextSeq
    /\ floor \in committed \cup {0}
    /\ \A i \in Instances : rowLast[i] \in committed \cup {0}
    /\ \E h \in retained \cup {floor} : \A x \in committed : x <= h

LEMMA HeadIsTop ==
    ASSUME LogTypes, LogOrder
    PROVE  /\ LogHead \in committed \cup {0}
           /\ LogHead \in 0..MaxSeq
           /\ \A x \in committed : x <= LogHead
<1>1. PICK h \in retained \cup {floor} : \A x \in committed : x <= h
  BY DEF LogOrder
<1>2. \A x \in retained \cup {floor} : x <= h
  BY <1>1, ConstantsAssumption DEF LogOrder, LogTypes, Seqs
<1>3. LogHead \in retained \cup {floor} /\ \A x \in retained \cup {floor} : x <= LogHead
  BY <1>1, <1>2 DEF LogHead
<1> QED BY <1>1, <1>3, ConstantsAssumption DEF LogOrder, LogTypes, Seqs

LEMMA TypeInit == Init => TypeOK
<1> SUFFICES ASSUME Init PROVE TypeOK OBVIOUS
<1> USE ConstantsAssumption DEF Init
<1>1. Joined \in [type: EventTypes, to: SUBSET Conns]
  BY DEF Joined, EventTypes
<1>2. LogTypes
  <2>1. event \in [Seqs -> [type: EventTypes, to: SUBSET Conns]]
    BY <1>1 DEF Seqs
  <2>2. archived \in BOOLEAN
    OBVIOUS
  <2>3. open \subseteq Seqs /\ committed \subseteq Seqs /\ retained \subseteq committed
    OBVIOUS
  <2>4. banned \subseteq Conns
    OBVIOUS
  <2>5. /\ nextSeq \in Nat /\ 1 <= nextSeq /\ nextSeq <= MaxSeq + 1
        /\ floor \in 0..MaxSeq /\ pruning \in 0..MaxSeq
        /\ faults \in Nat /\ faults <= MaxFaults
    OBVIOUS
  <2> QED BY <2>1, <2>2, <2>3, <2>4, <2>5 DEF LogTypes
<1>3. RowTypes BY DEF RowTypes
<1>4. RelayTypes BY DEF RelayTypes
<1>5. ConnTypes BY DEF ConnTypes
<1> QED BY <1>2, <1>3, <1>4, <1>5 DEF TypeOK

----------------------------------------------------------------------------
(* What the building blocks of the actions do to the types *)

RowsGrow ==
    \A i \in Instances : /\ rowLast'[i] \in committed' \cup {0}
                         /\ rowLast'[i] \in 0..MaxSeq
                         /\ rowLast[i] <= rowLast'[i]

LEMMA ClaimRowFacts ==
    ASSUME TypeOK, LogOrder, NEW p \in Procs, ClaimRow(p), UNCHANGED committed
    PROVE  /\ RowTypes' /\ RowsGrow
           /\ ClaimedGen(p) \in Nat
           /\ ClaimedLast(p) \in 0..MaxSeq
           /\ rowLast'[InstanceOf[p]] = ClaimedLast(p)
<1> DEFINE i == InstanceOf[p]
<1>0. i \in Instances BY ConstantsAssumption
<1>1. /\ LogHead \in committed \cup {0} /\ LogHead \in 0..MaxSeq
      /\ \A x \in committed : x <= LogHead
  BY HeadIsTop DEF TypeOK
<1>2. ClaimedGen(p) \in Nat /\ ClaimedLast(p) \in 0..MaxSeq
  BY <1>0, <1>1 DEF TypeOK, RowTypes, ClaimedGen, ClaimedLast
<1>3. ClaimedLast(p) \in committed \cup {0} /\ rowLast[i] <= ClaimedLast(p)
  BY <1>0, <1>1, ConstantsAssumption
     DEF TypeOK, RowTypes, LogTypes, Seqs, LogOrder, ClaimedLast
<1>4. rowLast' = [rowLast EXCEPT ![i] = ClaimedLast(p)]
  BY DEF ClaimRow
<1>5. RowTypes'
  BY <1>0, <1>2, <1>4 DEF TypeOK, RowTypes, ClaimRow
<1>6. RowsGrow
  BY <1>0, <1>2, <1>3, <1>4, ConstantsAssumption DEF TypeOK, RowTypes, RowsGrow, LogOrder
<1> QED BY <1>0, <1>2, <1>4, <1>5, <1>6 DEF TypeOK, RowTypes

LEMMA ResyncRowFacts ==
    ASSUME TypeOK, LogOrder, NEW p \in Procs, NEW r \in Nat, ResyncRow(p, r),
           nextGen' \in Nat, UNCHANGED committed
    PROVE  RowTypes' /\ RowsGrow /\ rowLast'[InstanceOf[p]] \in 0..MaxSeq
<1> DEFINE i == InstanceOf[p]
           new == IF rowGen[i] = r THEN rowLast[i] ELSE LogHead
<1>0. i \in Instances BY ConstantsAssumption
<1>1. /\ LogHead \in committed \cup {0} /\ LogHead \in 0..MaxSeq
      /\ \A x \in committed : x <= LogHead
  BY HeadIsTop DEF TypeOK
<1>2. new \in 0..MaxSeq /\ new \in committed \cup {0} /\ rowLast[i] <= new
  BY <1>0, <1>1, ConstantsAssumption
     DEF TypeOK, RowTypes, LogTypes, Seqs, LogOrder
<1>3. rowLast' = [rowLast EXCEPT ![i] = new]
  BY DEF ResyncRow
<1>4. RowTypes'
  BY <1>0, <1>2, <1>3 DEF TypeOK, RowTypes, ResyncRow
<1>5. RowsGrow
  BY <1>0, <1>2, <1>3, ConstantsAssumption DEF TypeOK, RowTypes, RowsGrow, LogOrder
<1> QED BY <1>0, <1>4, <1>5 DEF RowTypes

LEMMA AckRowFacts ==
    ASSUME TypeOK, LogOrder, NEW p \in Procs, AckRow(p), UNCHANGED committed
    PROVE  RowTypes' /\ RowsGrow /\ done[p] <= rowLast'[InstanceOf[p]]
<1> DEFINE i == InstanceOf[p]
           new == IF done[p] > rowLast[i] THEN done[p] ELSE rowLast[i]
<1>0. i \in Instances BY ConstantsAssumption
<1>a. rowLast[i] \in 0..MaxSeq /\ done[p] \in 0..MaxSeq /\ MaxSeq \in Nat
  BY <1>0, ConstantsAssumption DEF TypeOK, RowTypes, RelayTypes
<1>b. done[p] > rowLast[i] => done[p] \in committed
  BY DEF AckRow, TypeOK, LogTypes
<1>c. rowLast[i] \in committed \cup {0}
  BY <1>0 DEF LogOrder
<1>1. /\ new \in 0..MaxSeq /\ new \in committed \cup {0}
      /\ rowLast[i] <= new /\ done[p] <= new
  BY <1>a, <1>b, <1>c
<1>2. rowLast' = [rowLast EXCEPT ![i] = new]
  BY DEF AckRow
<1>3. RowTypes'
  BY <1>0, <1>1, <1>2 DEF TypeOK, RowTypes, AckRow
<1>4. RowsGrow
  BY <1>0, <1>1, <1>2, ConstantsAssumption DEF TypeOK, RowTypes, RowsGrow, LogOrder
<1> QED BY <1>0, <1>1, <1>2, <1>3, <1>4 DEF TypeOK, RowTypes

LEMMA RaiseTypes ==
    ASSUME RelayTypes, NEW p \in Procs, NEW error, Raise(p, error)
    PROVE  RelayTypes'
<1>1. /\ pc' \in [Procs -> {"idle", "loop", "fencing", "select", "dispatch", "ack"}]
      /\ pc'[p] # "dispatch" /\ \A q \in Procs \ {p} : pc'[q] = pc[q]
  <2>1. pc' = [pc EXCEPT ![p] = "loop"] \/ pc' = [pc EXCEPT ![p] = "fencing"]
    BY DEF Raise, EnterFence
  <2> QED BY <2>1 DEF RelayTypes
<1>2. epoch' \in [Procs -> Nat]
  <2>1. epoch' = epoch \/ epoch' = [epoch EXCEPT ![p] = epoch[p] + 1]
    BY DEF Raise, EnterFence
  <2>2. epoch \in [Procs -> Nat] /\ epoch[p] + 1 \in Nat
    BY DEF RelayTypes
  <2> QED BY <2>1, <2>2
<1>3. fenceReq' \in [Procs -> BOOLEAN]
  <2>1. fenceReq' = [fenceReq EXCEPT ![p] = FALSE] \/ fenceReq' = [fenceReq EXCEPT ![p] = TRUE]
    BY DEF Raise, EnterFence
  <2> QED BY <2>1, Zenon DEF RelayTypes
<1>4. hasCursor' \in [Procs -> BOOLEAN]
  BY Zenon DEF RelayTypes, Raise
<1>5. recover' \in [Procs -> BOOLEAN]
  <2>1. \/ recover' = [recover EXCEPT ![p] = TRUE] \/ recover' = [recover EXCEPT ![p] = FALSE]
        \/ recover' = [recover EXCEPT ![p] = recover[p]]
    BY DEF Raise
  <2> QED BY <2>1 DEF RelayTypes
<1>6. recGen' \in [Procs -> Nat]
  BY DEF RelayTypes, Raise
<1>7. done' \in [Procs -> 0..MaxSeq]
  BY ConstantsAssumption DEF RelayTypes, Raise
<1>8. batch' \in [Procs -> Seq(Seqs)] /\ \A q \in Procs \ {p} : batch'[q] = batch[q]
  BY DEF RelayTypes, Raise
<1> QED BY <1>1, <1>2, <1>3, <1>4, <1>5, <1>6, <1>7, <1>8 DEF RelayTypes, Raise

LEMMA AdoptTypes ==
    ASSUME RelayTypes, NEW p \in Procs, NEW g \in Nat, NEW last \in 0..MaxSeq,
           Adopt(p, g, last), recGen' \in [Procs -> Nat],
           recover' \in [Procs -> BOOLEAN], fenceReq' \in [Procs -> BOOLEAN]
    PROVE  RelayTypes'
<1>1. /\ gen' \in [Procs -> Nat] /\ epoch' \in [Procs -> Nat]
      /\ pos' \in [Procs -> 0..MaxSeq]
      /\ pc' \in [Procs -> {"idle", "loop", "fencing", "select", "dispatch", "ack"}]
      /\ \A q \in Procs : pc'[q] = "dispatch" => pc[q] = "dispatch"
  BY DEF RelayTypes, Adopt
<1>2. hasCursor' \in [Procs -> BOOLEAN] /\ fenced' \in [Procs -> BOOLEAN]
  BY DEF RelayTypes, Adopt
<1> QED BY <1>1, <1>2 DEF RelayTypes, Adopt

LEMMA DetachTypes ==
    ASSUME ConnTypes, NEW leaving, NEW received \in [Conns -> Seq(Seqs)],
           Detach(leaving, received)
    PROVE  ConnTypes'
  BY ConstantsAssumption DEF ConnTypes, Detach

----------------------------------------------------------------------------
(* The inductive invariant *)

\* When sockets can be attached, and which flags go together.
FencingAt(p) ==
    /\ (fenced[p] \/ pc[p] = "idle") => Attached(p) = {}
    /\ pc[p] = "fencing" => fenceReq[p]
    /\ pc[p] \in {"select", "dispatch", "ack"} => hasCursor[p]
    /\ (fenceReq[p] \/ recover[p] \/ pc[p] = "idle") => ~hasCursor[p]
    /\ pc[p] = "idle" => ~recover[p]
    /\ (pc[p] = "loop" /\ ~hasCursor[p]) => (fenced[p] \/ fenceReq[p])

Fencing == \A p \in Procs : FencingAt(p)

\* Where the relay stands relative to its durable cursor and its batch: only
\* between a dispatch and its acknowledgement is it ahead of the cursor.
PositionAt(p) ==
    /\ done[p] # 0 => done[p] = pos[p]
    /\ pc[p] \notin {"dispatch", "ack"} => done[p] = 0
    /\ (hasCursor[p] /\ done[p] = 0) => pos[p] <= rowLast[InstanceOf[p]]
    /\ pc[p] = "dispatch" =>
          /\ \A j, k \in 1..Len(batch[p]) : j < k => batch[p][j] < batch[p][k]
          /\ \A j \in 1..Len(batch[p]) : pos[p] < batch[p][j]

Position == \A p \in Procs : PositionAt(p)

\* Nothing a socket received is ahead of its relay.
Delivery ==
    \A c \in Conns :
        /\ cst[c] \notin {"registered", "live"} => got[c] = <<>>
        /\ \A k \in 1..Len(got[c]) : got[c][k] <= pos[home[c]]
        /\ \A j, k \in 1..Len(got[c]) : j < k => got[c][j] < got[c][k]

IInv == TypeOK /\ LogOrder /\ Fencing /\ Position /\ Delivery

LEMMA InvInit == Init => IInv
<1> SUFFICES ASSUME Init PROVE IInv OBVIOUS
<1>1. TypeOK BY TypeInit
<1>2. LogOrder BY ConstantsAssumption DEF Init, LogOrder
<1>3. Fencing BY DEF Init, Fencing, FencingAt, Attached
<1>4. Position BY ConstantsAssumption DEF Init, Position, PositionAt
<1>5. Delivery BY DEF Init, Delivery
<1> QED BY <1>1, <1>2, <1>3, <1>4, <1>5 DEF IInv

\* The log and the rows may move while no relay or socket does.
LEMMA RelayFrame ==
    ASSUME IInv, UNCHANGED relayVars, UNCHANGED connVars, UNCHANGED rowLast
    PROVE  RelayTypes' /\ ConnTypes' /\ Fencing' /\ Position' /\ Delivery'
<1>1. RelayTypes' BY DEF IInv, TypeOK, RelayTypes, relayVars
<1>2. ConnTypes' BY DEF IInv, TypeOK, ConnTypes, connVars
<1>3. Fencing' BY DEF IInv, Fencing, FencingAt, Attached, relayVars, connVars
<1>4. Position' BY DEF IInv, Position, PositionAt, relayVars
<1>5. Delivery' BY DEF IInv, Delivery, relayVars, connVars
<1> QED BY <1>1, <1>2, <1>3, <1>4, <1>5

LEMMA DatabaseStep == IInv /\ Database => IInv'
<1> SUFFICES ASSUME IInv, Database PROVE IInv' OBVIOUS
<1> USE ConstantsAssumption
<1>1. UNCHANGED relayVars /\ UNCHANGED connVars /\ UNCHANGED rowLast
  BY DEF Database, AppendBegin, AppendCommit, AppendAbort, PruneBegin,
         PruneCommit, ExpireLease, rowVars
<1>2. RelayTypes' /\ ConnTypes' /\ Fencing' /\ Position' /\ Delivery'
  BY <1>1, RelayFrame
<1>3. /\ LogHead \in committed \cup {0} /\ LogHead \in 0..MaxSeq
      /\ \A x \in committed : x <= LogHead
  BY HeadIsTop DEF IInv, TypeOK
<1>4. LogTypes' /\ LogOrder' /\ RowTypes'
  <2>1. ASSUME NEW shape \in Shapes, AppendBegin(shape)
        PROVE  LogTypes' /\ LogOrder' /\ RowTypes'
    <3>1. shape \in [type: EventTypes, to: SUBSET Conns] /\ nextSeq \in Seqs
      BY <2>1 DEF AppendBegin, IInv, TypeOK, LogTypes, Seqs
    <3>2. event' \in [Seqs -> [type: EventTypes, to: SUBSET Conns]]
      BY <2>1, <3>1 DEF AppendBegin, IInv, TypeOK, LogTypes
    <3>3. LogTypes'
      BY <2>1, <3>1, <3>2 DEF AppendBegin, IInv, TypeOK, LogTypes, Seqs, roomVars
    <3>4. LogOrder'
      BY <2>1, <3>1 DEF AppendBegin, SequenceLockFree, IInv, TypeOK, LogTypes,
                        LogOrder, Seqs, rowVars
    <3>5. RowTypes'
      BY <2>1 DEF AppendBegin, IInv, TypeOK, RowTypes, rowVars
    <3> QED BY <3>3, <3>4, <3>5
  <2>2. ASSUME NEW s \in open, AppendCommit(s)
        PROVE  LogTypes' /\ LogOrder' /\ RowTypes'
    <3>1. archived' \in BOOLEAN /\ banned' \subseteq Conns
      <4>1. s \in Seqs /\ event[s].to \subseteq Conns
        BY DEF IInv, TypeOK, LogTypes
      <4>2. archived' \in {TRUE, FALSE, archived}
        BY <2>2 DEF AppendCommit
      <4>3. banned' = banned \/ banned' = banned \cup event[s].to \/ banned' = banned \ event[s].to
        BY <2>2 DEF AppendCommit
      <4> QED BY <4>1, <4>2, <4>3 DEF IInv, TypeOK, LogTypes
    <3>2. LogTypes'
      BY <2>2, <3>1 DEF AppendCommit, IInv, TypeOK, LogTypes
    <3>3. LogOrder'
      <4>1. \A x \in committed' : x <= s
        BY <2>2 DEF AppendCommit, IInv, TypeOK, LogTypes, LogOrder, Seqs
      <4>2. s \in retained' \cup {floor'}
        BY <2>2 DEF AppendCommit
      <4> QED BY <2>2, <4>1, <4>2 DEF AppendCommit, IInv, TypeOK, LogTypes,
                                    LogOrder, Seqs, rowVars
    <3>4. RowTypes'
      BY <2>2 DEF AppendCommit, IInv, TypeOK, RowTypes, rowVars
    <3> QED BY <3>2, <3>3, <3>4
  <2>3. ASSUME NEW s \in open, AppendAbort(s)
        PROVE  LogTypes' /\ LogOrder' /\ RowTypes'
    <3>1. LogTypes' BY <2>3 DEF AppendAbort, IInv, TypeOK, LogTypes, roomVars
    <3>2. LogOrder' BY <2>3 DEF AppendAbort, IInv, LogOrder, rowVars
    <3>3. RowTypes' BY <2>3 DEF AppendAbort, IInv, TypeOK, RowTypes, rowVars
    <3> QED BY <3>1, <3>2, <3>3
  <2>4. ASSUME PruneBegin
        PROVE  LogTypes' /\ LogOrder' /\ RowTypes'
    <3>1. pruning' \in 0..MaxSeq
      BY <2>4, <1>3 DEF PruneBegin, IInv, TypeOK, RowTypes
    <3>2. LogTypes' BY <2>4, <3>1 DEF PruneBegin, IInv, TypeOK, LogTypes, roomVars
    <3>3. LogOrder' BY <2>4 DEF PruneBegin, IInv, LogOrder, rowVars
    <3>4. RowTypes' BY <2>4 DEF PruneBegin, IInv, TypeOK, RowTypes, rowVars
    <3> QED BY <3>2, <3>3, <3>4
  <2>5. ASSUME NEW last \in retained \cup {floor}, PruneCommit(last)
        PROVE  LogTypes' /\ LogOrder' /\ RowTypes'
    <3>1. last \in committed \cup {0} /\ last \in 0..MaxSeq
      BY DEF IInv, TypeOK, LogTypes, LogOrder, Seqs
    <3>2. LogTypes'
      <4>1. /\ floor' \in 0..MaxSeq /\ pruning' \in 0..MaxSeq
            /\ retained' \subseteq retained
        BY <2>5, <3>1 DEF PruneCommit, IInv, TypeOK, LogTypes
      <4>2. UNCHANGED <<nextSeq, open, event, committed, archived, banned, faults>>
        BY <2>5 DEF PruneCommit, roomVars
      <4> QED BY <4>1, <4>2 DEF IInv, TypeOK, LogTypes
    <3>3. LogOrder'
      <4>1. PICK h \in retained \cup {floor} : \A x \in committed : x <= h
        BY DEF IInv, LogOrder
      <4>2. \E g \in retained' \cup {floor'} : \A x \in committed : x <= g
        <5>1. h \in 0..MaxSeq
          BY DEF IInv, TypeOK, LogTypes, Seqs
        <5>2. CASE h \in retained /\ h > last
          BY <2>5, <4>1, <5>2 DEF PruneCommit
        <5>3. CASE ~(h \in retained /\ h > last)
          <6>1. h <= floor'
            BY <2>5, <3>1, <5>1, <5>3 DEF PruneCommit, IInv, TypeOK, LogTypes
          <6> QED BY <2>5, <3>1, <4>1, <5>1, <6>1
                  DEF PruneCommit, IInv, TypeOK, LogTypes, Seqs
        <5> QED BY <5>2, <5>3
      <4>3. floor' \in committed \cup {0}
        BY <2>5, <3>1 DEF PruneCommit, IInv, LogOrder
      <4> QED BY <2>5, <4>2, <4>3 DEF PruneCommit, IInv, LogOrder, rowVars
    <3>4. RowTypes' BY <2>5 DEF PruneCommit, IInv, TypeOK, RowTypes, rowVars
    <3> QED BY <3>2, <3>3, <3>4
  <2>6. ASSUME NEW i \in Instances, ExpireLease(i)
        PROVE  LogTypes' /\ LogOrder' /\ RowTypes'
    <3>1. faults' \in Nat /\ faults' <= MaxFaults
      <4>1. faults' = faults \/ (faults < MaxFaults /\ faults' = faults + 1)
        BY <2>6 DEF ExpireLease, Fault
      <4>2. faults \in Nat /\ faults <= MaxFaults
        BY DEF IInv, TypeOK, LogTypes
      <4> QED BY <4>1, <4>2
    <3>2. LogTypes' BY <2>6, <3>1 DEF ExpireLease, IInv, TypeOK, LogTypes, logVars, roomVars
    <3>3. LogOrder' BY <2>6 DEF ExpireLease, IInv, LogOrder, logVars
    <3>4. RowTypes' BY <2>6 DEF ExpireLease, IInv, TypeOK, RowTypes
    <3> QED BY <3>2, <3>3, <3>4
  <2> QED BY <2>1, <2>2, <2>3, <2>4, <2>5, <2>6 DEF Database
<1> QED BY <1>2, <1>4 DEF IInv, TypeOK

\* A socket step leaves every relay where it is.
LEMMA SocketStep == ASSUME IInv, NEW c \in Conns, Socket(c) PROVE IInv'
<1> USE ConstantsAssumption
<1>1. UNCHANGED relayVars /\ UNCHANGED rowVars /\ UNCHANGED faults
  BY DEF Socket, Admit, Acquire, Register, Recheck, Leave
<1>2. RelayTypes' /\ RowTypes' /\ Position'
  BY <1>1 DEF IInv, TypeOK, RelayTypes, RowTypes, Position, PositionAt, relayVars, rowVars
<1>3. LogTypes' /\ LogOrder'
  <2>1. CASE Acquire(c)
    <3>1. nextSeq \in Seqs /\ SequenceLockFree
      BY <2>1 DEF Acquire, IInv, TypeOK, LogTypes, Seqs
    <3>2. event' \in [Seqs -> [type: EventTypes, to: SUBSET Conns]]
      <4>1. Joined \in [type: EventTypes, to: SUBSET Conns]
        BY DEF Joined, EventTypes
      <4> QED BY <2>1, <3>1, <4>1 DEF Acquire, IInv, TypeOK, LogTypes
    <3>3. LogTypes'
      <4>1. nextSeq' = nextSeq + 1 /\ committed' = committed \cup {nextSeq}
            /\ retained' = retained \cup {nextSeq}
        BY <2>1 DEF Acquire
      <4>2. UNCHANGED <<open, floor, pruning, archived, banned>>
        BY <2>1 DEF Acquire, roomVars
      <4>3. /\ nextSeq' \in Nat /\ 1 <= nextSeq' /\ nextSeq' <= MaxSeq + 1
        BY <3>1, <4>1 DEF Seqs
      <4>4. committed' \subseteq Seqs /\ retained' \subseteq committed'
        BY <3>1, <4>1 DEF IInv, TypeOK, LogTypes
      <4> QED BY <1>1, <3>2, <4>2, <4>3, <4>4 DEF IInv, TypeOK, LogTypes
    <3>4. LogOrder'
      <4>1. \A x \in committed' : x <= nextSeq
        BY <2>1, <3>1 DEF Acquire, IInv, TypeOK, LogTypes, LogOrder, Seqs
      <4>2. /\ nextSeq \in retained' /\ open' = {} /\ nextSeq' = nextSeq + 1
            /\ committed' = committed \cup {nextSeq} /\ UNCHANGED <<floor, rowLast>>
        BY <2>1, <3>1 DEF Acquire, SequenceLockFree, rowVars
      <4> QED BY <3>1, <4>1, <4>2, SMTT(30) DEF IInv, TypeOK, LogTypes, LogOrder, Seqs
    <3> QED BY <3>3, <3>4
  <2>2. CASE ~Acquire(c)
    <3>1. UNCHANGED logVars /\ UNCHANGED roomVars
      BY <2>2 DEF Socket, Admit, Register, Recheck, Leave
    <3> QED BY <1>1, <3>1 DEF IInv, TypeOK, LogTypes, LogOrder, logVars, roomVars, rowVars
  <2> QED BY <2>1, <2>2
<1>4. ConnTypes' /\ Fencing' /\ Delivery'
  <2>1. ASSUME NEW p \in Procs, Admit(c, p)
        PROVE  ConnTypes' /\ Fencing' /\ Delivery'
    <3>1. ConnTypes'
      BY <2>1 DEF Admit, Token, IInv, TypeOK, ConnTypes, RelayTypes
    <3>2. \A q \in Procs : Attached(q)' = Attached(q)
      BY <2>1 DEF Admit, Attached, IInv, TypeOK, ConnTypes
    <3>3. Fencing'
      BY <1>1, <3>2 DEF IInv, Fencing, FencingAt, relayVars
    <3>4. Delivery'
      BY <2>1, <1>1 DEF Admit, IInv, TypeOK, ConnTypes, Delivery, relayVars
    <3> QED BY <3>1, <3>3, <3>4
  <2>2. ASSUME Acquire(c)
        PROVE  ConnTypes' /\ Fencing' /\ Delivery'
    <3>1. nextSeq \in 0..MaxSeq /\ rowGen[InstanceOf[home[c]]] \in Nat
      BY <2>2 DEF Acquire, IInv, TypeOK, LogTypes, RowTypes, ConnTypes
    <3>2. ConnTypes'
      BY <2>2, <3>1 DEF Acquire, IInv, TypeOK, ConnTypes
    <3>3. \A q \in Procs : Attached(q)' = Attached(q)
      BY <2>2 DEF Acquire, Attached, IInv, TypeOK, ConnTypes
    <3>4. Fencing'
      BY <1>1, <3>3 DEF IInv, Fencing, FencingAt, relayVars
    <3>5. Delivery'
      BY <2>2, <1>1 DEF Acquire, IInv, TypeOK, ConnTypes, Delivery, relayVars
    <3> QED BY <3>2, <3>4, <3>5
  <2>3. ASSUME Register(c)
        PROVE  ConnTypes' /\ Fencing' /\ Delivery'
    <3>1. ConnTypes'
      BY <2>3 DEF Register, IInv, TypeOK, ConnTypes
    <3>2. ~fenced[home[c]] /\ pc[home[c]] # "idle"
      BY <2>3 DEF Register, AdmissionCheck, Ready
    <3>3. \A q \in Procs : Attached(q)' \subseteq Attached(q) \cup {d \in {c} : home[c] = q}
      BY <2>3 DEF Register, Attached, IInv, TypeOK, ConnTypes
    <3>4. Fencing'
      BY <1>1, <3>2, <3>3 DEF IInv, Fencing, FencingAt, relayVars
    <3>5. Delivery'
      BY <2>3, <1>1 DEF Register, IInv, TypeOK, ConnTypes, Delivery, relayVars
    <3> QED BY <3>1, <3>4, <3>5
  <2>4. ASSUME Detach({c}, got)
        PROVE  ConnTypes' /\ Fencing' /\ Delivery'
    <3>1. ConnTypes'
      BY <2>4, DetachTypes DEF IInv, TypeOK, ConnTypes
    <3>2. \A q \in Procs : Attached(q)' \subseteq Attached(q)
      BY <2>4 DEF Detach, Attached
    <3>3. Fencing'
      BY <1>1, <3>2 DEF IInv, Fencing, FencingAt, relayVars
    <3>4. Delivery'
      BY <2>4, <1>1 DEF Detach, IInv, TypeOK, ConnTypes, Delivery, relayVars
    <3> QED BY <3>1, <3>3, <3>4
  <2>5. ASSUME Recheck(c), ~Detach({c}, got)
        PROVE  ConnTypes' /\ Fencing' /\ Delivery'
    <3>1. /\ cst[c] = "registered" /\ cst' = [cst EXCEPT ![c] = "live"]
          /\ snap' = [snap EXCEPT ![c] = committed]
          /\ UNCHANGED <<home, token, leaseGen, after, got>>
      BY <2>5 DEF Recheck
    <3>2. ConnTypes'
      BY <3>1 DEF IInv, TypeOK, ConnTypes, LogTypes
    <3>3. \A q \in Procs : Attached(q)' = Attached(q)
      BY <3>1 DEF Attached, IInv, TypeOK, ConnTypes
    <3>4. Fencing'
      BY <1>1, <3>3 DEF IInv, Fencing, FencingAt, relayVars
    <3>5. Delivery'
      BY <3>1, <1>1 DEF IInv, TypeOK, ConnTypes, Delivery, relayVars
    <3> QED BY <3>2, <3>4, <3>5
  <2> QED BY <2>1, <2>2, <2>3, <2>4, <2>5 DEF Socket, Leave
<1> QED BY <1>2, <1>3, <1>4 DEF IInv, TypeOK

\* A relay step of p leaves the other relays alone.
OthersSame(p) ==
    \A q \in Procs \ {p} :
        /\ pc'[q] = pc[q] /\ hasCursor'[q] = hasCursor[q] /\ fenced'[q] = fenced[q]
        /\ fenceReq'[q] = fenceReq[q] /\ recover'[q] = recover[q]
        /\ done'[q] = done[q] /\ batch'[q] = batch[q] /\ pos'[q] = pos[q]

LEMMA RelayLocal ==
    ASSUME IInv, NEW p \in Procs, OthersSame(p), RowsGrow,
           \A q \in Procs \ {p} : Attached(q)' \subseteq Attached(q),
           FencingAt(p)', PositionAt(p)'
    PROVE  Fencing' /\ Position'
<1>1. ASSUME NEW q \in Procs \ {p} PROVE FencingAt(q)'
  BY <1>1 DEF IInv, Fencing, FencingAt, OthersSame
<1>2. ASSUME NEW q \in Procs \ {p} PROVE PositionAt(q)'
  <2>1. /\ pos[q] \in 0..MaxSeq
        /\ rowLast[InstanceOf[q]] \in 0..MaxSeq /\ rowLast'[InstanceOf[q]] \in 0..MaxSeq
        /\ rowLast[InstanceOf[q]] <= rowLast'[InstanceOf[q]]
    BY ConstantsAssumption DEF IInv, TypeOK, RelayTypes, RowTypes, RowsGrow
  <2>2. PositionAt(q) BY DEF IInv, Position
  <2>3. (hasCursor[q] /\ done[q] = 0) => pos[q] <= rowLast'[InstanceOf[q]]
    BY <2>1, <2>2 DEF PositionAt
  <2> QED BY <2>2, <2>3 DEF PositionAt, OthersSame
<1> QED BY <1>1, <1>2 DEF Fencing, Position

\* Every except branch of the loop ends fenced or about to fence.
LEMMA RaiseKeeps ==
    ASSUME IInv, NEW p \in Procs, NEW error, Raise(p, error), pc[p] # "idle",
           RowsGrow, UNCHANGED connVars
    PROVE  RelayTypes' /\ ConnTypes' /\ Fencing' /\ Position' /\ Delivery'
<1>1. RelayTypes' BY RaiseTypes DEF IInv, TypeOK
<1>2. ConnTypes' BY DEF IInv, TypeOK, ConnTypes, connVars
<1>3. /\ hasCursor'[p] = FALSE /\ done'[p] = 0 /\ fenced' = fenced /\ pos' = pos
      /\ (pc'[p] = "loop" /\ fenced[p]) \/ (pc'[p] = "fencing" /\ fenceReq'[p] = TRUE)
  <2>1. /\ hasCursor'[p] = FALSE /\ done'[p] = 0 /\ fenced' = fenced /\ pos' = pos
    BY DEF IInv, TypeOK, RelayTypes, Raise
  <2>2. CASE fenced[p]
    <3>1. pc' = [pc EXCEPT ![p] = "loop"] BY <2>2 DEF Raise, EnterFence
    <3>2. pc'[p] = "loop" BY <3>1 DEF IInv, TypeOK, RelayTypes
    <3> QED BY <2>1, <2>2, <3>2
  <2>3. CASE ~fenced[p]
    BY <2>1, <2>3 DEF IInv, TypeOK, RelayTypes, Raise, EnterFence
  <2> QED BY <2>2, <2>3
<1>4. OthersSame(p)
  BY DEF IInv, TypeOK, RelayTypes, Raise, EnterFence, OthersSame
<1>5. \A q \in Procs : Attached(q)' = Attached(q)
  BY DEF Attached, connVars
<1>6. FencingAt(p)' BY <1>3, <1>5 DEF IInv, Fencing, FencingAt
<1>7. PositionAt(p)' BY <1>3 DEF PositionAt
<1>8. Fencing' /\ Position' BY <1>4, <1>5, <1>6, <1>7, RelayLocal
<1>9. Delivery' BY <1>3 DEF IInv, Delivery, connVars
<1> QED BY <1>1, <1>2, <1>8, <1>9

\* A process that adopts a cursor has no sockets left.
LEMMA AdoptKeeps ==
    ASSUME IInv, NEW p \in Procs, NEW g \in Nat, NEW last \in 0..MaxSeq,
           Adopt(p, g, last), Attached(p) = {}, done[p] = 0,
           recGen' \in [Procs -> Nat],
           recover' = [recover EXCEPT ![p] = FALSE],
           fenceReq' = [fenceReq EXCEPT ![p] = FALSE],
           last <= rowLast'[InstanceOf[p]], RowsGrow, UNCHANGED connVars
    PROVE  RelayTypes' /\ ConnTypes' /\ Fencing' /\ Position' /\ Delivery'
<1>0. recover' \in [Procs -> BOOLEAN] /\ fenceReq' \in [Procs -> BOOLEAN]
  BY DEF IInv, TypeOK, RelayTypes
<1>1. RelayTypes' BY <1>0, AdoptTypes DEF IInv, TypeOK
<1>2. ConnTypes' BY DEF IInv, TypeOK, ConnTypes, connVars
<1>3. /\ hasCursor'[p] = TRUE /\ fenced'[p] = FALSE /\ recover'[p] = FALSE
      /\ fenceReq'[p] = FALSE /\ pc'[p] = "loop" /\ pos'[p] = last /\ done'[p] = 0
  BY DEF IInv, TypeOK, RelayTypes, Adopt
<1>4. OthersSame(p)
  BY DEF IInv, TypeOK, RelayTypes, Adopt, OthersSame
<1>5. \A q \in Procs : Attached(q)' = Attached(q)
  BY DEF Attached, connVars
<1>6. FencingAt(p)' BY <1>3, <1>5 DEF FencingAt
<1>7. PositionAt(p)' BY <1>3 DEF PositionAt
<1>8. Fencing' /\ Position' BY <1>4, <1>5, <1>6, <1>7, RelayLocal
<1>9. Delivery'
  <2> SUFFICES ASSUME NEW c \in Conns
               PROVE  /\ cst'[c] \notin {"registered", "live"} => got'[c] = <<>>
                      /\ \A k \in 1..Len(got'[c]) : got'[c][k] <= pos'[home'[c]]
                      /\ \A j, k \in 1..Len(got'[c]) : j < k => got'[c][j] < got'[c][k]
    BY DEF Delivery
  <2>1. UNCHANGED <<cst, got, home>> BY DEF connVars
  <2>2. CASE home[c] = p
    <3>1. got[c] = <<>> BY <2>2 DEF IInv, Delivery, Attached
    <3> QED BY <2>1, <3>1
  <2>3. CASE home[c] # p
    <3>1. pos'[home[c]] = pos[home[c]]
      BY <2>3, <1>4 DEF OthersSame, IInv, TypeOK, ConnTypes
    <3> QED BY <2>1, <3>1 DEF IInv, Delivery
  <2> QED BY <2>2, <2>3
<1> QED BY <1>1, <1>2, <1>8, <1>9

LEMMA RowsSame ==
    ASSUME IInv, UNCHANGED rowLast, UNCHANGED committed
    PROVE  RowsGrow
  BY ConstantsAssumption DEF IInv, TypeOK, RowTypes, LogOrder, RowsGrow

Kept == /\ RowTypes' /\ RowsGrow
        /\ RelayTypes' /\ ConnTypes' /\ Fencing' /\ Position' /\ Delivery'

\* A process about to take a cursor has none, and no sockets.
LEMMA WorkingIsFenced ==
    ASSUME IInv, NEW p \in Procs, Working(p), recover[p] \/ ~hasCursor[p]
    PROVE  /\ Attached(p) = {} /\ done[p] = 0 /\ ~fenceReq[p] /\ fenced[p]
           /\ pc[p] # "idle"
  BY DEF IInv, Fencing, FencingAt, Position, PositionAt, Working, NeedsFence

LEMMA ErrorSteps ==
    ASSUME IInv, NEW p \in Procs, UNCHANGED logVars,
           LeaseLost(p) \/ DatabaseError(p)
    PROVE  Kept
<1>1. /\ \E error \in {"lease", "database"} : Raise(p, error)
      /\ UNCHANGED rowVars /\ UNCHANGED connVars
      /\ pc[p] # "idle"
  BY DEF LeaseLost, DatabaseError, Working
<1>2. RowTypes' BY <1>1 DEF IInv, TypeOK, RowTypes, rowVars
<1>3. RowsGrow BY <1>1, RowsSame DEF rowVars, logVars
<1> QED BY <1>1, <1>2, <1>3, RaiseKeeps DEF Kept

LEMMA ClaimSteps ==
    ASSUME IInv, NEW p \in Procs, UNCHANGED logVars, Start(p) \/ Claim(p)
    PROVE  Kept
<1>1. UNCHANGED committed /\ UNCHANGED connVars BY DEF logVars, Start, Claim
<1>2. Start(p) => Attached(p) = {} /\ done[p] = 0 /\ ~recover[p]
  BY DEF IInv, Fencing, FencingAt, Position, PositionAt, Start
<1>3. Claim(p) => Attached(p) = {} /\ done[p] = 0 /\ ~recover[p] /\ pc[p] # "idle"
  BY WorkingIsFenced DEF Claim
<1>4. CASE /\ ClaimRow(p) /\ Adopt(p, ClaimedGen(p), ClaimedLast(p))
           /\ fenceReq' = [fenceReq EXCEPT ![p] = FALSE]
           /\ UNCHANGED <<recGen, recover>>
  <2>1. /\ RowTypes' /\ RowsGrow /\ ClaimedGen(p) \in Nat /\ ClaimedLast(p) \in 0..MaxSeq
        /\ rowLast'[InstanceOf[p]] = ClaimedLast(p)
    BY <1>1, <1>4, ClaimRowFacts DEF IInv
  <2>2. ClaimedLast(p) <= rowLast'[InstanceOf[p]]
    BY <2>1, ConstantsAssumption
  <2>3. recover' = [recover EXCEPT ![p] = FALSE]
    BY <1>2, <1>3, <1>4 DEF IInv, TypeOK, RelayTypes
  <2>4. recGen' \in [Procs -> Nat]
    BY <1>4 DEF IInv, TypeOK, RelayTypes
  <2>5. Attached(p) = {} /\ done[p] = 0
    BY <1>2, <1>3
  <2>6. RelayTypes' /\ ConnTypes' /\ Fencing' /\ Position' /\ Delivery'
    BY <1>1, <1>4, <2>1, <2>2, <2>3, <2>4, <2>5, AdoptKeeps
  <2> QED BY <2>1, <2>6 DEF Kept
<1>5. CASE ClaimRow(p) /\ UNCHANGED relayVars
  <2>1. RowTypes' /\ RowsGrow
    BY <1>1, <1>5, ClaimRowFacts DEF IInv
  <2>2. RelayTypes' /\ ConnTypes'
    BY <1>1, <1>5 DEF IInv, TypeOK, RelayTypes, ConnTypes, relayVars, connVars
  <2>3. \A q \in Procs : Attached(q)' = Attached(q)
    BY <1>1 DEF Attached, connVars
  <2>4. Fencing'
    BY <1>5, <2>3 DEF IInv, Fencing, FencingAt, relayVars
  <2>5. Position'
    <3> SUFFICES ASSUME NEW q \in Procs PROVE PositionAt(q)'
      BY DEF Position
    <3>1. /\ pos[q] \in 0..MaxSeq
          /\ rowLast[InstanceOf[q]] \in 0..MaxSeq /\ rowLast'[InstanceOf[q]] \in 0..MaxSeq
          /\ rowLast[InstanceOf[q]] <= rowLast'[InstanceOf[q]]
      BY <2>1, ConstantsAssumption DEF IInv, TypeOK, RelayTypes, RowTypes, RowsGrow
    <3>2. PositionAt(q) BY DEF IInv, Position
    <3>3. (hasCursor[q] /\ done[q] = 0) => pos[q] <= rowLast'[InstanceOf[q]]
      BY <3>1, <3>2 DEF PositionAt
    <3> QED BY <1>5, <3>2, <3>3 DEF PositionAt, relayVars
  <2>6. Delivery'
    BY <1>1, <1>5 DEF IInv, Delivery, relayVars, connVars
  <2> QED BY <2>1, <2>2, <2>4, <2>5, <2>6 DEF Kept
<1>6. CASE Claim(p) /\ ClaimRow(p) /\ Raise(p, "database")
  <2>1. RowTypes' /\ RowsGrow
    BY <1>1, <1>6, ClaimRowFacts DEF IInv
  <2> QED BY <1>1, <1>3, <1>6, <2>1, RaiseKeeps DEF Kept
<1>7. CASE Claim(p) /\ Raise(p, "lease") /\ UNCHANGED rowVars
  <2>1. RowTypes' /\ RowsGrow
    BY <1>1, <1>7, RowsSame DEF IInv, TypeOK, RowTypes, rowVars
  <2> QED BY <1>1, <1>3, <1>7, <2>1, RaiseKeeps DEF Kept
<1> QED BY <1>4, <1>5, <1>6, <1>7 DEF Start, Claim

LEMMA ResyncStep ==
    ASSUME IInv, NEW p \in Procs, UNCHANGED logVars, Resync(p)
    PROVE  Kept
<1> DEFINE i == InstanceOf[p]
           r == IF recGen[p] = 0 THEN nextGen ELSE recGen[p]
<1>1. /\ Working(p) /\ recover[p] /\ UNCHANGED committed /\ UNCHANGED connVars
      /\ nextGen' = IF recGen[p] = 0 THEN nextGen + 1 ELSE nextGen
  BY DEF logVars, Resync
<1>2. r \in Nat /\ nextGen' \in Nat
  BY <1>1 DEF IInv, TypeOK, RelayTypes, RowTypes
<1>3. Attached(p) = {} /\ done[p] = 0 /\ ~fenceReq[p] /\ fenced[p] /\ pc[p] # "idle"
  BY <1>1, WorkingIsFenced
<1>4. CASE /\ ResyncRow(p, r) /\ Adopt(p, r, rowLast'[i])
           /\ recover' = [recover EXCEPT ![p] = FALSE]
           /\ recGen' = [recGen EXCEPT ![p] = 0]
           /\ UNCHANGED fenceReq
  <2>1. RowTypes' /\ RowsGrow /\ rowLast'[i] \in 0..MaxSeq
    BY <1>1, <1>2, <1>4, ResyncRowFacts DEF IInv
  <2>2. rowLast'[i] <= rowLast'[i]
    BY <2>1, ConstantsAssumption
  <2>3. fenceReq' = [fenceReq EXCEPT ![p] = FALSE]
    BY <1>3, <1>4 DEF IInv, TypeOK, RelayTypes
  <2>4. recGen' \in [Procs -> Nat]
    BY <1>4 DEF IInv, TypeOK, RelayTypes
  <2>5. RelayTypes' /\ ConnTypes' /\ Fencing' /\ Position' /\ Delivery'
    BY <1>1, <1>2, <1>3, <1>4, <2>1, <2>2, <2>3, <2>4, AdoptKeeps
  <2> QED BY <2>1, <2>5 DEF Kept
<1>5. CASE /\ ResyncRow(p, r) \/ UNCHANGED <<rowGen, rowLast, rowLive>>
           /\ recGen' = [recGen EXCEPT ![p] = r]
           /\ UNCHANGED <<pc, gen, hasCursor, fenced, fenceReq, recover,
                          epoch, batch, done, pos>>
  <2>1. RowTypes' /\ RowsGrow
    <3>1. CASE ResyncRow(p, r)
      BY <1>1, <1>2, <3>1, ResyncRowFacts DEF IInv
    <3>2. CASE UNCHANGED <<rowGen, rowLast, rowLive>>
      BY <1>1, <1>2, <3>2, RowsSame DEF IInv, TypeOK, RowTypes
    <3> QED BY <1>5, <3>1, <3>2
  <2>2. RelayTypes'
    BY <1>2, <1>5 DEF IInv, TypeOK, RelayTypes
  <2>3. ConnTypes' BY <1>1 DEF IInv, TypeOK, ConnTypes, connVars
  <2>4. OthersSame(p) BY <1>5 DEF OthersSame
  <2>5. \A q \in Procs : Attached(q)' = Attached(q)
    BY <1>1 DEF Attached, connVars
  <2>6. FencingAt(p)' BY <1>5, <2>5 DEF IInv, Fencing, FencingAt
  <2>7. PositionAt(p)'
    <3>1. hasCursor[p] = FALSE
      BY <1>1 DEF IInv, TypeOK, RelayTypes, Fencing, FencingAt
    <3>2. PositionAt(p) BY DEF IInv, Position
    <3> QED BY <1>5, <3>1, <3>2 DEF PositionAt
  <2>8. Fencing' /\ Position' BY <2>1, <2>4, <2>5, <2>6, <2>7, RelayLocal
  <2>9. Delivery' BY <1>1, <1>5 DEF IInv, Delivery, connVars
  <2> QED BY <2>1, <2>2, <2>3, <2>8, <2>9 DEF Kept
<1>6. CASE Raise(p, "lease") /\ UNCHANGED <<rowGen, rowLast, rowLive>>
  <2>1. RowTypes' /\ RowsGrow
    BY <1>1, <1>2, <1>6, RowsSame DEF IInv, TypeOK, RowTypes
  <2> QED BY <1>1, <1>3, <1>6, <2>1, RaiseKeeps DEF Kept
<1> QED BY <1>4, <1>5, <1>6 DEF Resync

LEMMA FenceSteps ==
    ASSUME IInv, NEW p \in Procs, UNCHANGED logVars, FenceAgain(p) \/ FenceClose(p)
    PROVE  Kept
<1>1. UNCHANGED rowVars /\ UNCHANGED committed BY DEF FenceAgain, FenceClose, logVars
<1>2. RowTypes' /\ RowsGrow
  BY <1>1, RowsSame DEF IInv, TypeOK, RowTypes, rowVars
<1>3. PositionAt(p) /\ FencingAt(p) BY DEF IInv, Position, Fencing
<1>4. CASE FenceAgain(p)
  <2>1. /\ UNCHANGED connVars
        /\ UNCHANGED <<gen, recGen, hasCursor, fenced, recover, batch, done, pos>>
        /\ pc[p] = "loop" /\ (fenceReq[p] \/ (recover[p] /\ ~fenced[p]))
    BY <1>4 DEF FenceAgain, NeedsFence
  <2>2. \/ /\ fenced[p] /\ fenceReq' = [fenceReq EXCEPT ![p] = FALSE]
           /\ pc' = [pc EXCEPT ![p] = "loop"] /\ epoch' = epoch
        \/ /\ fenceReq' = [fenceReq EXCEPT ![p] = TRUE]
           /\ pc' = [pc EXCEPT ![p] = "fencing"]
           /\ epoch' = [epoch EXCEPT ![p] = epoch[p] + 1]
    BY <1>4 DEF FenceAgain, EnterFence
  <2>3. RelayTypes'
    <3>1. epoch[p] + 1 \in Nat /\ epoch \in [Procs -> Nat]
      BY DEF IInv, TypeOK, RelayTypes
    <3>2. epoch' \in [Procs -> Nat] BY <2>2, <3>1
    <3>3. fenceReq' \in [Procs -> BOOLEAN] BY <2>2 DEF IInv, TypeOK, RelayTypes
    <3>4. /\ pc' \in [Procs -> {"idle", "loop", "fencing", "select", "dispatch", "ack"}]
          /\ \A q \in Procs : pc'[q] = "dispatch" => pc[q] = "dispatch"
      BY <2>2 DEF IInv, TypeOK, RelayTypes
    <3> QED BY <2>1, <3>2, <3>3, <3>4 DEF IInv, TypeOK, RelayTypes
  <2>4. ConnTypes' BY <2>1 DEF IInv, TypeOK, ConnTypes, connVars
  <2>5. OthersSame(p) BY <2>1, <2>2 DEF OthersSame, IInv, TypeOK, RelayTypes
  <2>6. \A q \in Procs : Attached(q)' = Attached(q)
    BY <2>1 DEF Attached, connVars
  <2>7. hasCursor[p] = FALSE
    BY <2>1, <1>3 DEF FencingAt, IInv, TypeOK, RelayTypes
  <2>8. FencingAt(p)'
    <3>1. (pc'[p] = "loop" /\ fenced[p]) \/ (pc'[p] = "fencing" /\ fenceReq'[p] = TRUE)
      <4>1. CASE fenced[p] /\ pc' = [pc EXCEPT ![p] = "loop"]
        BY <4>1 DEF IInv, TypeOK, RelayTypes
      <4>2. CASE fenceReq' = [fenceReq EXCEPT ![p] = TRUE] /\ pc' = [pc EXCEPT ![p] = "fencing"]
        BY <4>2 DEF IInv, TypeOK, RelayTypes
      <4> QED BY <2>2, <4>1, <4>2
    <3>2. hasCursor'[p] = FALSE /\ fenced' = fenced BY <2>1, <2>7
    <3> QED BY <3>1, <3>2, <2>6, <1>3 DEF FencingAt
  <2>9. PositionAt(p)'
    <3>1. done'[p] = 0 /\ hasCursor'[p] = FALSE /\ pc'[p] # "dispatch"
      BY <2>1, <2>2, <2>7, <1>3 DEF PositionAt, IInv, TypeOK, RelayTypes
    <3> QED BY <3>1 DEF PositionAt
  <2>10. Fencing' /\ Position' BY <1>2, <2>5, <2>6, <2>8, <2>9, RelayLocal
  <2>11. Delivery' BY <2>1 DEF IInv, Delivery, connVars
  <2> QED BY <1>2, <2>3, <2>4, <2>10, <2>11 DEF Kept
<1>5. CASE FenceClose(p)
  <2>1. /\ UNCHANGED <<gen, recGen, hasCursor, recover, epoch, batch, done, pos>>
        /\ pc[p] = "fencing" /\ pc' = [pc EXCEPT ![p] = "loop"]
        /\ Detach(Attached(p), got)
    BY <1>5 DEF FenceClose
  <2>2. \/ fenced' = [fenced EXCEPT ![p] = TRUE] /\ fenceReq' = [fenceReq EXCEPT ![p] = FALSE]
        \/ UNCHANGED <<fenced, fenceReq>>
    BY <1>5 DEF FenceClose
  <2>3. RelayTypes'
    <3>1. fenced' \in [Procs -> BOOLEAN] /\ fenceReq' \in [Procs -> BOOLEAN]
      BY <2>2 DEF IInv, TypeOK, RelayTypes
    <3> QED BY <2>1, <3>1 DEF IInv, TypeOK, RelayTypes
  <2>4. ConnTypes'
    BY <2>1, DetachTypes DEF IInv, TypeOK, ConnTypes
  <2>5. OthersSame(p) BY <2>1, <2>2 DEF OthersSame, IInv, TypeOK, RelayTypes
  <2>6. Attached(p)' = {} /\ \A q \in Procs : Attached(q)' \subseteq Attached(q)
    BY <2>1 DEF Detach, Attached
  <2>7. hasCursor[p] = FALSE /\ fenceReq[p]
    BY <2>1, <1>3 DEF FencingAt, IInv, TypeOK, RelayTypes
  <2>8. FencingAt(p)'
    <3>1. pc'[p] = "loop" /\ hasCursor'[p] = FALSE
      BY <2>1, <2>7 DEF IInv, TypeOK, RelayTypes
    <3>2. fenced'[p] \/ fenceReq'[p]
      BY <2>2, <2>7 DEF IInv, TypeOK, RelayTypes
    <3> QED BY <3>1, <3>2, <2>6 DEF FencingAt
  <2>9. PositionAt(p)'
    <3>1. done'[p] = 0 /\ hasCursor'[p] = FALSE /\ pc'[p] = "loop"
      BY <2>1, <2>7, <1>3 DEF PositionAt, IInv, TypeOK, RelayTypes
    <3> QED BY <3>1 DEF PositionAt
  <2>10. Fencing' /\ Position' BY <1>2, <2>5, <2>6, <2>8, <2>9, RelayLocal
  <2>11. Delivery' BY <2>1 DEF IInv, TypeOK, ConnTypes, Delivery, Detach
  <2> QED BY <1>2, <2>3, <2>4, <2>10, <2>11 DEF Kept
<1> QED BY <1>4, <1>5

LEMMA ReadSteps ==
    ASSUME IInv, NEW p \in Procs, UNCHANGED logVars, ReadCheck(p) \/ ReadSelect(p)
    PROVE  Kept
<1>1. UNCHANGED rowVars /\ UNCHANGED committed /\ UNCHANGED connVars /\ pc[p] # "idle"
  BY DEF ReadCheck, ReadSelect, logVars, Working
<1>2. RowTypes' /\ RowsGrow
  BY <1>1, RowsSame DEF IInv, TypeOK, RowTypes, rowVars
<1>3. PositionAt(p) /\ FencingAt(p) BY DEF IInv, Position, Fencing
<1>4. CASE Raise(p, "recovery")
  BY <1>1, <1>2, <1>4, RaiseKeeps DEF Kept
<1>5. ASSUME ~Raise(p, "recovery") PROVE Kept
  <2>1. /\ UNCHANGED <<gen, recGen, hasCursor, fenced, fenceReq, recover, epoch, done, pos>>
        /\ hasCursor[p] /\ pc[p] \in {"loop", "select"}
    BY <1>3, <1>5 DEF ReadCheck, ReadSelect, Working, FencingAt
  <2>2. \/ pc' = [pc EXCEPT ![p] = "select"] /\ batch' = batch
        \/ \E b \in Batches :
              /\ IsBatch(p, b) /\ batch' = [batch EXCEPT ![p] = b]
              /\ pc' = [pc EXCEPT ![p] = IF b = <<>> THEN "loop" ELSE "dispatch"]
    BY <1>5 DEF ReadCheck, ReadSelect
  <2>3. RelayTypes' /\ OthersSame(p) /\ FencingAt(p)' /\ PositionAt(p)'
    <3>0. \A q \in Procs : Attached(q)' = Attached(q)
      BY <1>1 DEF Attached, connVars
    <3>1. CASE pc' = [pc EXCEPT ![p] = "select"] /\ batch' = batch
      <4>1. RelayTypes' BY <2>1, <3>1 DEF IInv, TypeOK, RelayTypes
      <4>2. OthersSame(p) BY <2>1, <3>1 DEF IInv, TypeOK, RelayTypes, OthersSame
      <4>3. pc'[p] = "select" BY <3>1 DEF IInv, TypeOK, RelayTypes
      <4>4. FencingAt(p)' BY <1>3, <2>1, <3>0, <4>3 DEF FencingAt
      <4>5. PositionAt(p)' BY <1>1, <1>3, <2>1, <4>3 DEF PositionAt, rowVars
      <4> QED BY <4>1, <4>2, <4>4, <4>5
    <3>2. ASSUME NEW b \in Batches, IsBatch(p, b), batch' = [batch EXCEPT ![p] = b],
                 pc' = [pc EXCEPT ![p] = IF b = <<>> THEN "loop" ELSE "dispatch"]
          PROVE  RelayTypes' /\ OthersSame(p) /\ FencingAt(p)' /\ PositionAt(p)'
      <4>0. b \in Seq(Seqs)
        BY <3>2, ConstantsAssumption DEF Batches, Seqs
      <4>1. /\ batch' \in [Procs -> Seq(Seqs)]
            /\ pc' \in [Procs -> {"idle", "loop", "fencing", "select", "dispatch", "ack"}]
            /\ pc'[p] \in {"loop", "dispatch"}
            /\ pc'[p] = "dispatch" => b # <<>>
            /\ batch'[p] = b
            /\ \A q \in Procs \ {p} : pc'[q] = pc[q] /\ batch'[q] = batch[q]
        BY <3>2, <4>0 DEF IInv, TypeOK, RelayTypes
      <4>2. RelayTypes' BY <2>1, <4>1 DEF IInv, TypeOK, RelayTypes
      <4>3. OthersSame(p) BY <2>1, <4>1 DEF OthersSame
      <4>4. FencingAt(p)' BY <1>3, <2>1, <3>0, <4>1 DEF FencingAt
      <4>5. PositionAt(p)'
        <5>1. done[p] = 0 /\ pos[p] <= rowLast[InstanceOf[p]]
          BY <1>3, <2>1 DEF PositionAt
        <5>2. pos[p] \in 0..MaxSeq /\ rowLast[InstanceOf[p]] \in 0..MaxSeq
          BY ConstantsAssumption DEF IInv, TypeOK, RelayTypes, RowTypes
        <5>3. \A j \in 1..Len(b) : b[j] \in Nat /\ rowLast[InstanceOf[p]] < b[j]
          <6>1. retained \subseteq 1..MaxSeq BY DEF IInv, TypeOK, LogTypes, Seqs
          <6>2. \A j \in 1..Len(b) : b[j] \in retained /\ b[j] > rowLast[InstanceOf[p]]
            BY <3>2 DEF IsBatch, Pending
          <6>3. ASSUME NEW x \in retained, x > rowLast[InstanceOf[p]]
                PROVE  x \in Nat /\ rowLast[InstanceOf[p]] < x
            BY <5>2, <6>1, <6>3, ConstantsAssumption
          <6> QED BY <6>2, <6>3
        <5>4. \A j \in 1..Len(b) : pos[p] < b[j]
          BY <5>1, <5>2, <5>3, ConstantsAssumption
        <5>5. \A j, k \in 1..Len(b) : j < k => b[j] < b[k]
          BY <3>2 DEF IsBatch
        <5> QED BY <1>1, <2>1, <4>1, <5>1, <5>4, <5>5 DEF PositionAt, rowVars
      <4> QED BY <4>2, <4>3, <4>4, <4>5
    <3> QED BY <2>2, <3>1, <3>2
  <2>4. \A q \in Procs \ {p} : Attached(q)' \subseteq Attached(q)
    BY <1>1 DEF Attached, connVars
  <2>5. Fencing' /\ Position' BY <1>2, <2>3, <2>4, RelayLocal
  <2>6. ConnTypes' /\ Delivery'
    BY <1>1, <2>1 DEF IInv, TypeOK, ConnTypes, Delivery, connVars
  <2> QED BY <1>2, <2>3, <2>5, <2>6 DEF Kept
<1> QED BY <1>4, <1>5

\* A sequence of positive length is not the empty one.
LEMMA NonEmpty ==
    ASSUME NEW S, NEW t \in Seq(S), Len(t) # 0
    PROVE  t # <<>>
  BY EmptySeq

\* Dispatching moves the relay to the next event of its batch, which is beyond
\* anything its sockets have received.
LEMMA DispatchStep ==
    ASSUME IInv, NEW p \in Procs, UNCHANGED logVars, Dispatch(p)
    PROVE  Kept
<1> DEFINE b == batch[p]
           e == Head(b)
           received == [c \in Conns |-> IF c \in Receivers(p, e) THEN Append(got[c], e) ELSE got[c]]
<1>1. /\ pc[p] = "dispatch" /\ UNCHANGED rowVars /\ UNCHANGED committed
      /\ Detach(Revoked(p, e), received)
      /\ done' = [done EXCEPT ![p] = e] /\ pos' = [pos EXCEPT ![p] = e]
      /\ batch' = [batch EXCEPT ![p] = Tail(b)]
      /\ pc' = [pc EXCEPT ![p] = IF Len(b) = 1 THEN "ack" ELSE "dispatch"]
      /\ UNCHANGED <<gen, recGen, hasCursor, fenced, fenceReq, recover, epoch>>
  BY DEF Dispatch, logVars
<1>2. RowTypes' /\ RowsGrow
  BY <1>1, RowsSame DEF IInv, TypeOK, RowTypes, rowVars
<1>3. PositionAt(p) /\ FencingAt(p) BY DEF IInv, Position, Fencing
<1>4. /\ b \in Seq(Seqs) /\ b # <<>> /\ Len(b) \in Nat /\ Len(b) >= 1
      /\ e = b[1] /\ e \in Seqs
  BY <1>1 DEF IInv, TypeOK, RelayTypes
<1>5. /\ Tail(b) \in Seq(Seqs) /\ Len(Tail(b)) = Len(b) - 1
      /\ \A j \in 1..Len(Tail(b)) : Tail(b)[j] = b[j + 1]
  BY <1>4
<1>6. /\ pos[p] < e
      /\ \A j \in 1..Len(Tail(b)) : e < Tail(b)[j]
      /\ \A j, k \in 1..Len(Tail(b)) : j < k => Tail(b)[j] < Tail(b)[k]
  <2>1. /\ \A j, k \in 1..Len(b) : j < k => b[j] < b[k]
        /\ \A j \in 1..Len(b) : pos[p] < b[j]
    BY <1>1, <1>3 DEF PositionAt
  <2>2. \A j \in 1..Len(Tail(b)) : j + 1 \in 1..Len(b) /\ 1 < j + 1
    BY <1>4, <1>5
  <2> QED BY <1>4, <1>5, <2>1, <2>2
<1>7. e \in 0..MaxSeq /\ e \in Nat /\ e # 0
  BY <1>4, ConstantsAssumption DEF Seqs
<1>8. RelayTypes'
  <2>1. \A q \in Procs : pc'[q] = "dispatch" => batch'[q] # <<>>
    <3>1. pc'[p] = "dispatch" => Tail(b) # <<>>
      <4>1. pc'[p] = "dispatch" => Len(b) # 1 BY <1>1 DEF IInv, TypeOK, RelayTypes
      <4>2. Len(b) # 1 => Len(Tail(b)) # 0 BY <1>4, <1>5
      <4>3. Len(Tail(b)) # 0 => Tail(b) # <<>> BY <1>5, NonEmpty
      <4> QED BY <4>1, <4>2, <4>3
    <3> QED BY <1>1, <3>1 DEF IInv, TypeOK, RelayTypes
  <2>2. /\ pc' \in [Procs -> {"idle", "loop", "fencing", "select", "dispatch", "ack"}]
        /\ batch' \in [Procs -> Seq(Seqs)]
        /\ done' \in [Procs -> 0..MaxSeq] /\ pos' \in [Procs -> 0..MaxSeq]
    BY <1>1, <1>5, <1>7 DEF IInv, TypeOK, RelayTypes
  <2> QED BY <1>1, <2>1, <2>2 DEF IInv, TypeOK, RelayTypes
<1>9. received \in [Conns -> Seq(Seqs)]
  BY <1>4 DEF IInv, TypeOK, ConnTypes
<1>10. ConnTypes'
  BY <1>1, <1>9, DetachTypes DEF IInv, TypeOK
<1>11. OthersSame(p)
  BY <1>1 DEF IInv, TypeOK, RelayTypes, OthersSame
<1>12. \A q \in Procs : Attached(q)' \subseteq Attached(q)
  BY <1>1 DEF Detach, Attached
<1>13. /\ pc'[p] \in {"dispatch", "ack"} /\ done'[p] = e /\ pos'[p] = e
       /\ batch'[p] = Tail(b)
  BY <1>1 DEF IInv, TypeOK, RelayTypes
<1>14. FencingAt(p)'
  BY <1>1, <1>3, <1>12, <1>13 DEF FencingAt
<1>15. PositionAt(p)'
  BY <1>6, <1>7, <1>13 DEF PositionAt
<1>16. Fencing' /\ Position' BY <1>2, <1>11, <1>12, <1>14, <1>15, RelayLocal
<1>17. Delivery'
  <2> SUFFICES ASSUME NEW c \in Conns
               PROVE  /\ cst'[c] \notin {"registered", "live"} => got'[c] = <<>>
                      /\ \A k \in 1..Len(got'[c]) : got'[c][k] <= pos'[home'[c]]
                      /\ \A j, k \in 1..Len(got'[c]) : j < k => got'[c][j] < got'[c][k]
    BY DEF Delivery
  <2>0. home' = home /\ home[c] \in Procs
    BY <1>1 DEF Detach, IInv, TypeOK, ConnTypes
  <2>1. /\ cst[c] \notin {"registered", "live"} => got[c] = <<>>
        /\ \A k \in 1..Len(got[c]) : got[c][k] <= pos[home[c]]
        /\ \A j, k \in 1..Len(got[c]) : j < k => got[c][j] < got[c][k]
        /\ got[c] \in Seq(Seqs)
    BY DEF IInv, Delivery, TypeOK, ConnTypes
  <2>2. \A k \in 1..Len(got[c]) : got[c][k] <= pos'[home[c]]
    <3>1. CASE home[c] # p
      BY <2>0, <2>1, <3>1, <1>11 DEF OthersSame
    <3>2. CASE home[c] = p
      <4>1. pos[p] \in Nat BY ConstantsAssumption DEF IInv, TypeOK, RelayTypes
      <4>2. \A k \in 1..Len(got[c]) : got[c][k] \in Nat
        BY <2>1, ConstantsAssumption DEF Seqs
      <4> QED BY <2>1, <3>2, <4>1, <4>2, <1>6, <1>7, <1>13
    <3> QED BY <3>1, <3>2
  <2>3. CASE c \in Revoked(p, e)
    <3>1. got'[c] = <<>> BY <1>1, <2>3 DEF Detach
    <3> QED BY <3>1
  <2>4. CASE c \notin Revoked(p, e) /\ c \notin Receivers(p, e)
    <3>1. got'[c] = got[c] /\ cst'[c] = cst[c] BY <1>1, <2>4 DEF Detach
    <3> QED BY <2>0, <2>1, <2>2, <3>1
  <2>5. CASE c \notin Revoked(p, e) /\ c \in Receivers(p, e)
    <3>1. got'[c] = Append(got[c], e) /\ cst'[c] = cst[c] BY <1>1, <2>5 DEF Detach
    <3>2. home[c] = p /\ cst[c] \in {"registered", "live"}
      BY <2>5 DEF Receivers, Attached
    <3>3. /\ Len(got'[c]) = Len(got[c]) + 1 /\ Len(got[c]) \in Nat
          /\ \A k \in 1..Len(got[c]) : got'[c][k] = got[c][k] /\ got'[c][k] \in Nat
          /\ got'[c][Len(got[c]) + 1] = e
      BY <2>1, <3>1, <1>4, ConstantsAssumption DEF Seqs
    <3>4. \A k \in 1..Len(got[c]) : got[c][k] < e
      <4>1. pos[p] \in Nat BY ConstantsAssumption DEF IInv, TypeOK, RelayTypes
      <4> QED BY <2>1, <3>2, <3>3, <4>1, <1>6, <1>7, SMTT(30)
    <3>5. \A k \in 1..Len(got'[c]) : got'[c][k] <= e
      BY <3>3, <3>4, <1>7
    <3>6. \A j, k \in 1..Len(got'[c]) : j < k => got'[c][j] < got'[c][k]
      BY <2>1, <3>3, <3>4, <1>7, SMTT(30)
    <3> QED BY <2>0, <3>1, <3>2, <3>5, <3>6, <1>13
  <2> QED BY <2>3, <2>4, <2>5
<1> QED BY <1>2, <1>8, <1>10, <1>16, <1>17 DEF Kept

LEMMA AckSteps ==
    ASSUME IInv, NEW p \in Procs, UNCHANGED logVars, DispatchError(p) \/ Ack(p)
    PROVE  Kept
<1>1. UNCHANGED committed /\ UNCHANGED connVars /\ pc[p] \in {"dispatch", "ack"}
  BY DEF DispatchError, Ack, logVars
<1>2. PositionAt(p) /\ FencingAt(p) BY DEF IInv, Position, Fencing
<1>3. \A q \in Procs : Attached(q)' = Attached(q)
  BY <1>1 DEF Attached, connVars
<1>4. CASE DispatchError(p)
  <2>1. /\ UNCHANGED rowVars
        /\ batch' = [batch EXCEPT ![p] = <<>>]
        /\ pc' = [pc EXCEPT ![p] = IF done[p] = 0 THEN "loop" ELSE "ack"]
        /\ UNCHANGED <<gen, recGen, hasCursor, fenced, fenceReq, recover, epoch, done, pos>>
    BY <1>4 DEF DispatchError
  <2>2. RowTypes' /\ RowsGrow
    BY <1>1, <2>1, RowsSame DEF IInv, TypeOK, RowTypes, rowVars
  <2>3. RelayTypes' BY <2>1 DEF IInv, TypeOK, RelayTypes
  <2>4. OthersSame(p) BY <2>1 DEF IInv, TypeOK, RelayTypes, OthersSame
  <2>5. /\ pc'[p] \in {"loop", "ack"}
        /\ pc'[p] = "loop" => done[p] = 0
    BY <2>1 DEF IInv, TypeOK, RelayTypes
  <2>6. FencingAt(p)' BY <1>1, <1>2, <1>3, <2>1, <2>5 DEF FencingAt
  <2>7. PositionAt(p)' BY <1>2, <2>1, <2>5 DEF PositionAt, rowVars
  <2>8. Fencing' /\ Position' BY <1>3, <2>2, <2>4, <2>6, <2>7, RelayLocal
  <2>9. ConnTypes' /\ Delivery'
    BY <1>1, <2>1 DEF IInv, TypeOK, ConnTypes, Delivery, connVars
  <2> QED BY <2>2, <2>3, <2>8, <2>9 DEF Kept
<1>5. CASE /\ pc[p] = "ack" /\ AckRow(p) /\ pc' = [pc EXCEPT ![p] = "loop"]
           /\ done' = [done EXCEPT ![p] = 0]
           /\ UNCHANGED <<gen, recGen, hasCursor, fenced, fenceReq, recover, epoch, batch, pos>>
  <2>1. RowTypes' /\ RowsGrow /\ done[p] <= rowLast'[InstanceOf[p]]
    BY <1>1, <1>5, AckRowFacts DEF IInv
  <2>2. RelayTypes'
    <3>1. RelayTypes BY DEF IInv, TypeOK
    <3>2. 0 \in 0..MaxSeq BY ConstantsAssumption
    <3>3. done' \in [Procs -> 0..MaxSeq] BY <1>5, <3>1, <3>2 DEF RelayTypes
    <3>4. pc' \in [Procs -> {"idle", "loop", "fencing", "select", "dispatch", "ack"}]
      BY <1>5, <3>1 DEF RelayTypes
    <3>5. \A q \in Procs : pc'[q] = "dispatch" => batch'[q] # <<>>
      BY <1>5, <3>1 DEF RelayTypes
    <3> QED BY <1>5, <3>1, <3>3, <3>4, <3>5 DEF RelayTypes
  <2>3. OthersSame(p) BY <1>5 DEF IInv, TypeOK, RelayTypes, OthersSame
  <2>4. pc'[p] = "loop" /\ done'[p] = 0 BY <1>5 DEF IInv, TypeOK, RelayTypes
  <2>5. FencingAt(p)' BY <1>2, <1>3, <1>5, <2>4 DEF FencingAt
  <2>6. PositionAt(p)'
    <3>1. pos[p] <= rowLast'[InstanceOf[p]]
      <4>1. CASE done[p] # 0 BY <1>2, <2>1, <4>1 DEF PositionAt
      <4>2. CASE done[p] = 0
        <5>1. pos[p] <= rowLast[InstanceOf[p]] BY <1>2, <1>5, <4>2 DEF PositionAt, FencingAt
        <5>2. /\ pos[p] \in 0..MaxSeq
              /\ rowLast[InstanceOf[p]] \in 0..MaxSeq /\ rowLast'[InstanceOf[p]] \in 0..MaxSeq
              /\ rowLast[InstanceOf[p]] <= rowLast'[InstanceOf[p]]
          BY <2>1, ConstantsAssumption DEF IInv, TypeOK, RelayTypes, RowTypes, RowsGrow
        <5> QED BY <5>1, <5>2
      <4> QED BY <4>1, <4>2
    <3> QED BY <1>5, <2>4, <3>1 DEF PositionAt
  <2>7. Fencing' /\ Position' BY <1>3, <2>1, <2>3, <2>5, <2>6, RelayLocal
  <2>8. ConnTypes' /\ Delivery'
    BY <1>1, <1>5 DEF IInv, TypeOK, ConnTypes, Delivery, connVars
  <2> QED BY <2>1, <2>2, <2>7, <2>8 DEF Kept
<1>6. CASE AckRow(p) /\ Raise(p, "database")
  <2>1. RowTypes' /\ RowsGrow BY <1>1, <1>6, AckRowFacts DEF IInv
  <2> QED BY <1>1, <1>6, <2>1, RaiseKeeps DEF Kept
<1>7. CASE Raise(p, "lease") /\ UNCHANGED rowVars
  <2>1. RowTypes' /\ RowsGrow
    BY <1>1, <1>7, RowsSame DEF IInv, TypeOK, RowTypes, rowVars
  <2> QED BY <1>1, <1>7, <2>1, RaiseKeeps DEF Kept
<1> QED BY <1>4, <1>5, <1>6, <1>7 DEF Ack

LEMMA StopStep ==
    ASSUME IInv, NEW p \in Procs, NEW releases \in BOOLEAN, UNCHANGED logVars,
           Stop(p, releases)
    PROVE  Kept
<1> DEFINE leaving == {c \in Conns : home[c] = p /\ cst[c] # "new"}
<1>1. /\ Detach(leaving, got) /\ UNCHANGED <<rowGen, rowLast, nextGen, committed>>
      /\ pc' = [pc EXCEPT ![p] = "idle"] /\ gen' = [gen EXCEPT ![p] = 0]
      /\ recGen' = [recGen EXCEPT ![p] = 0]
      /\ hasCursor' = [hasCursor EXCEPT ![p] = FALSE]
      /\ fenced' = [fenced EXCEPT ![p] = FALSE] /\ fenceReq' = [fenceReq EXCEPT ![p] = FALSE]
      /\ recover' = [recover EXCEPT ![p] = FALSE] /\ epoch' = [epoch EXCEPT ![p] = 0]
      /\ batch' = [batch EXCEPT ![p] = <<>>]
      /\ done' = [done EXCEPT ![p] = 0] /\ pos' = [pos EXCEPT ![p] = 0]
  BY DEF Stop, logVars
<1>2. RowTypes'
  <2>1. \/ rowLive' = [rowLive EXCEPT ![InstanceOf[p]] = FALSE]
        \/ rowLive' = [rowLive EXCEPT ![InstanceOf[p]] = rowLive[InstanceOf[p]]]
    BY DEF Stop
  <2> QED BY <1>1, <2>1, ConstantsAssumption DEF IInv, TypeOK, RowTypes
<1>3. RowsGrow BY <1>1, RowsSame
<1>4. RelayTypes'
  <2>1. /\ pc' \in [Procs -> {"idle", "loop", "fencing", "select", "dispatch", "ack"}]
        /\ gen' \in [Procs -> Nat] /\ recGen' \in [Procs -> Nat] /\ epoch' \in [Procs -> Nat]
        /\ done' \in [Procs -> 0..MaxSeq] /\ pos' \in [Procs -> 0..MaxSeq]
        /\ batch' \in [Procs -> Seq(Seqs)]
        /\ \A q \in Procs : pc'[q] = "dispatch" => pc[q] = "dispatch" /\ batch'[q] = batch[q]
    BY <1>1, ConstantsAssumption, SMTT(30) DEF IInv, TypeOK, RelayTypes
  <2>2. /\ hasCursor' \in [Procs -> BOOLEAN] /\ fenced' \in [Procs -> BOOLEAN]
        /\ fenceReq' \in [Procs -> BOOLEAN] /\ recover' \in [Procs -> BOOLEAN]
    BY <1>1 DEF IInv, TypeOK, RelayTypes
  <2> QED BY <2>1, <2>2 DEF IInv, TypeOK, RelayTypes
<1>5. ConnTypes'
  BY <1>1, DetachTypes DEF IInv, TypeOK, ConnTypes
<1>6. OthersSame(p)
  <2>1. \A q \in Procs \ {p} : /\ pc'[q] = pc[q] /\ done'[q] = done[q]
                              /\ batch'[q] = batch[q] /\ pos'[q] = pos[q]
    BY <1>1 DEF IInv, TypeOK, RelayTypes
  <2>2. \A q \in Procs \ {p} : /\ hasCursor'[q] = hasCursor[q] /\ fenced'[q] = fenced[q]
                              /\ fenceReq'[q] = fenceReq[q] /\ recover'[q] = recover[q]
    BY <1>1 DEF IInv, TypeOK, RelayTypes
  <2> QED BY <2>1, <2>2 DEF OthersSame
<1>7. Attached(p)' = {} /\ \A q \in Procs : Attached(q)' \subseteq Attached(q)
  BY <1>1 DEF Detach, Attached
<1>8. /\ pc'[p] = "idle" /\ done'[p] = 0 /\ hasCursor'[p] = FALSE /\ recover'[p] = FALSE
  BY <1>1 DEF IInv, TypeOK, RelayTypes
<1>9. FencingAt(p)' BY <1>7, <1>8 DEF FencingAt
<1>10. PositionAt(p)' BY <1>8 DEF PositionAt
<1>11. Fencing' /\ Position' BY <1>3, <1>6, <1>7, <1>9, <1>10, RelayLocal
<1>12. Delivery'
  <2> SUFFICES ASSUME NEW c \in Conns
               PROVE  /\ cst'[c] \notin {"registered", "live"} => got'[c] = <<>>
                      /\ \A k \in 1..Len(got'[c]) : got'[c][k] <= pos'[home'[c]]
                      /\ \A j, k \in 1..Len(got'[c]) : j < k => got'[c][j] < got'[c][k]
    BY DEF Delivery
  <2>0. home' = home /\ home[c] \in Procs
    BY <1>1 DEF Detach, IInv, TypeOK, ConnTypes
  <2>1. CASE home[c] = p
    <3>1. got'[c] = <<>> BY <1>1, <2>1 DEF Detach, IInv, Delivery
    <3> QED BY <3>1
  <2>2. CASE home[c] # p
    <3>1. got'[c] = got[c] /\ cst'[c] = cst[c] /\ pos'[home[c]] = pos[home[c]]
      BY <1>1, <1>6, <2>0, <2>2 DEF Detach, OthersSame
    <3> QED BY <2>0, <3>1 DEF IInv, Delivery
  <2> QED BY <2>1, <2>2
<1> QED BY <1>2, <1>3, <1>4, <1>5, <1>11, <1>12 DEF Kept

LEMMA RelayStep == ASSUME IInv, NEW p \in Procs, Relay(p) PROVE IInv'
<1>1. UNCHANGED logVars /\ UNCHANGED roomVars
  BY DEF Relay, Start, FenceAgain, FenceClose, Resync, Claim, LeaseLost,
         DatabaseError, ReadCheck, ReadSelect, Dispatch, DispatchError, Ack, Stop
<1>2. Kept
  BY <1>1, ErrorSteps, ClaimSteps, ResyncStep, FenceSteps, ReadSteps,
     DispatchStep, AckSteps, StopStep DEF Relay
<1>3. faults' = faults \/ Fault
  BY DEF Relay, Start, FenceAgain, FenceClose, Resync, Claim, LeaseLost,
         DatabaseError, ReadCheck, ReadSelect, Dispatch, DispatchError, Ack, Stop
<1>4. faults' \in Nat /\ faults' <= MaxFaults
  BY <1>3, ConstantsAssumption DEF Fault, IInv, TypeOK, LogTypes
<1>5. LogTypes' BY <1>1, <1>4 DEF IInv, TypeOK, LogTypes, logVars, roomVars
<1>6. LogOrder' BY <1>1, <1>2 DEF IInv, LogOrder, logVars, Kept, RowsGrow
<1> QED BY <1>2, <1>5, <1>6 DEF IInv, TypeOK, Kept

LEMMA StutterStep == IInv /\ UNCHANGED vars => IInv'
<1> SUFFICES ASSUME IInv, UNCHANGED vars PROVE IInv' OBVIOUS
<1>1. /\ UNCHANGED logVars /\ UNCHANGED roomVars /\ UNCHANGED rowVars
      /\ UNCHANGED relayVars /\ UNCHANGED connVars /\ UNCHANGED faults
  BY DEF vars
<1>2. RelayTypes' /\ ConnTypes' /\ Fencing' /\ Position' /\ Delivery'
  BY <1>1, RelayFrame DEF rowVars
<1>3. LogTypes' /\ LogOrder' /\ RowTypes'
  BY <1>1 DEF IInv, TypeOK, LogTypes, LogOrder, RowTypes, logVars, roomVars, rowVars
<1> QED BY <1>2, <1>3 DEF IInv, TypeOK

LEMMA InvNext == IInv /\ [Next]_vars => IInv'
  BY DatabaseStep, RelayStep, SocketStep, StutterStep DEF Next

----------------------------------------------------------------------------
(* Theorems *)

\* The inductive invariant holds in every reachable state.
THEOREM Invariance == Spec => []IInv
  BY InvInit, InvNext, PTL DEF Spec

\* The relay model keeps its types: in particular the log retains only
\* committed events and the loop never dispatches from an empty batch.
THEOREM TypeCorrect == Spec => []TypeOK
<1>1. IInv => TypeOK BY DEF IInv
<1> QED BY <1>1, Invariance, PTL

\* At most once and in order: whatever answers, claims or batches a relay loses
\* and replays, no socket ever receives an event twice or after a later one.
THEOREM AtMostOnceInOrder == Spec => []InOrderOnce
<1>1. IInv => InOrderOnce BY DEF IInv, Delivery, InOrderOnce
<1> QED BY <1>1, Invariance, PTL

\* No socket survives a change of cursor: _fence has emptied the process before
\* it may claim or resynchronize, and nobody is admitted while it is fenced.
THEOREM FenceHolds == Spec => []FencedServesNobody
<1>1. ASSUME IInv PROVE FencedServesNobody
  <2> SUFFICES ASSUME NEW p \in Procs,
                      fenced[p] \/ (Working(p) /\ (recover[p] \/ ~hasCursor[p]))
               PROVE  Attached(p) = {}
    BY DEF FencedServesNobody
  <2>1. CASE fenced[p] BY <1>1, <2>1 DEF IInv, Fencing, FencingAt
  <2>2. CASE Working(p) /\ (recover[p] \/ ~hasCursor[p])
    BY <1>1, <2>2, WorkingIsFenced
  <2> QED BY <2>1, <2>2
<1> QED BY <1>1, Invariance, PTL

----------------------------------------------------------------------------
(* Ownership of a cursor *)

\* Generations are never reused: the claim of one process, and the recovery it
\* has begun, differ from those of every other.
GenUnique ==
    /\ 1 <= nextGen
    /\ \A i \in Instances : rowGen[i] < nextGen
    /\ \A p \in Procs : /\ gen[p] < nextGen /\ recGen[p] < nextGen
                        /\ hasCursor[p] => gen[p] # 0
    /\ \A p, q \in Procs : p # q =>
          /\ gen[p] # 0 => gen[p] # gen[q] /\ gen[p] # recGen[q]
          /\ recGen[p] # 0 => recGen[p] # recGen[q]

\* A generation that p may hold after a step: one it had, or a new one.
MayHold(p, g) == g \in {0, gen[p], recGen[p]} \/ (nextGen <= g /\ g < nextGen')

\* One relay moves between its own and new generations.
GenLocal(p) ==
    /\ nextGen <= nextGen' /\ \A i \in Instances : rowGen'[i] < nextGen'
    /\ MayHold(p, gen'[p]) /\ MayHold(p, recGen'[p])
    /\ hasCursor'[p] => gen'[p] # 0
    /\ \A q \in Procs \ {p} : /\ gen'[q] = gen[q] /\ recGen'[q] = recGen[q]
                              /\ hasCursor'[q] = hasCursor[q]

\* Such a step keeps generations apart.
LEMMA GenLocalKeeps ==
    ASSUME TypeOK, TypeOK', GenUnique, NEW p \in Procs, GenLocal(p)
    PROVE  GenUnique'
<1>1. /\ nextGen \in Nat /\ nextGen' \in Nat
      /\ gen \in [Procs -> Nat] /\ gen' \in [Procs -> Nat]
      /\ recGen \in [Procs -> Nat] /\ recGen' \in [Procs -> Nat]
  BY DEF TypeOK, RowTypes, RelayTypes
<1>2. /\ 1 <= nextGen' /\ \A i \in Instances : rowGen'[i] < nextGen'
      /\ \A q \in Procs : /\ gen'[q] < nextGen' /\ recGen'[q] < nextGen'
                          /\ hasCursor'[q] => gen'[q] # 0
  BY <1>1 DEF GenUnique, GenLocal, MayHold
<1>3. ASSUME NEW q \in Procs \ {p}
      PROVE  /\ gen'[p] # 0 => gen'[p] # gen[q] /\ gen'[p] # recGen[q]
             /\ recGen'[p] # 0 => recGen'[p] # gen[q] /\ recGen'[p] # recGen[q]
  BY <1>1, <1>3 DEF GenUnique, GenLocal, MayHold
<1>4. ASSUME NEW q \in Procs, NEW r \in Procs, q # r
      PROVE  /\ gen'[q] # 0 => gen'[q] # gen'[r] /\ gen'[q] # recGen'[r]
             /\ recGen'[q] # 0 => recGen'[q] # recGen'[r]
  <2>1. CASE q = p BY <1>1, <1>3, <1>4, <2>1 DEF GenLocal
  <2>2. CASE r = p BY <1>1, <1>3, <1>4, <2>2 DEF GenLocal
  <2>3. CASE q # p /\ r # p BY <1>1, <1>4, <2>3 DEF GenLocal, GenUnique
  <2> QED BY <2>1, <2>2, <2>3
<1> QED BY <1>2, <1>4 DEF GenUnique

\* Steps of the database and of sockets hand out no generation.
LEMMA GenFrame ==
    ASSUME GenUnique, UNCHANGED <<gen, recGen, hasCursor, rowGen, nextGen>>
    PROVE  GenUnique'
  BY DEF GenUnique

\* Raising an error forgets a recovery at most.
LEMMA RaiseGen ==
    ASSUME TypeOK, GenUnique, NEW p \in Procs, NEW error, Raise(p, error),
           UNCHANGED <<rowGen, nextGen>> \/ ClaimRow(p)
    PROVE  GenLocal(p)
<1>1. nextGen <= nextGen' /\ \A i \in Instances : rowGen'[i] < nextGen'
  BY ConstantsAssumption DEF ClaimRow, ClaimedGen, TypeOK, RowTypes, GenUnique
<1>2. /\ gen' = gen /\ recGen'[p] \in {0, recGen[p]} /\ ~hasCursor'[p]
      /\ \A q \in Procs \ {p} : recGen'[q] = recGen[q] /\ hasCursor'[q] = hasCursor[q]
  BY DEF Raise, TypeOK, RelayTypes
<1> QED BY <1>1, <1>2 DEF GenLocal, MayHold

\* A claim that succeeds renews the process's own generation or takes a new one.
LEMMA ClaimGen ==
    ASSUME TypeOK, GenUnique, NEW p \in Procs, ClaimRow(p),
           Adopt(p, ClaimedGen(p), ClaimedLast(p)), UNCHANGED recGen
    PROVE  GenLocal(p)
<1>1. nextGen <= nextGen' /\ \A i \in Instances : rowGen'[i] < nextGen'
  BY ConstantsAssumption DEF ClaimRow, ClaimedGen, TypeOK, RowTypes, GenUnique
<1>2. ClaimedGen(p) # 0 /\ MayHold(p, ClaimedGen(p))
  BY ConstantsAssumption, SMTT(30)
     DEF ClaimRow, CanClaim, ClaimedGen, MayHold, TypeOK, RowTypes, RelayTypes, GenUnique
<1>3. /\ gen'[p] = ClaimedGen(p)
      /\ \A q \in Procs \ {p} : gen'[q] = gen[q] /\ hasCursor'[q] = hasCursor[q]
  BY DEF Adopt, TypeOK, RelayTypes
<1> QED BY <1>1, <1>2, <1>3 DEF GenLocal, MayHold

\* A recovery keeps the generation it began with, or takes a new one.
LEMMA ResyncGen ==
    ASSUME TypeOK, GenUnique, NEW p \in Procs, Resync(p)
    PROVE  GenLocal(p)
<1> DEFINE r == IF recGen[p] = 0 THEN nextGen ELSE recGen[p]
<1>1. /\ nextGen' = IF recGen[p] = 0 THEN nextGen + 1 ELSE nextGen
      /\ nextGen \in Nat /\ recGen[p] \in Nat /\ recGen[p] < nextGen
  BY DEF Resync, TypeOK, RowTypes, RelayTypes, GenUnique
<1>2. r # 0 /\ MayHold(p, r) /\ r < nextGen' /\ nextGen <= nextGen'
  BY <1>1 DEF MayHold, GenUnique
<1>3. ResyncRow(p, r) \/ rowGen' = rowGen
  BY DEF Resync
<1>4. \A i \in Instances : rowGen'[i] < nextGen'
  BY <1>1, <1>2, <1>3 DEF ResyncRow, TypeOK, RowTypes, GenUnique
<1>5. \/ /\ \E last : Adopt(p, r, last)
         /\ recGen' = [recGen EXCEPT ![p] = 0]
      \/ /\ recGen' = [recGen EXCEPT ![p] = r]
         /\ UNCHANGED <<gen, hasCursor>>
      \/ Raise(p, "lease")
  BY DEF Resync
<1>6. CASE \E last : Adopt(p, r, last) /\ recGen' = [recGen EXCEPT ![p] = 0]
  BY <1>2, <1>4, <1>6 DEF Adopt, GenLocal, MayHold, TypeOK, RelayTypes
<1>7. CASE recGen' = [recGen EXCEPT ![p] = r] /\ UNCHANGED <<gen, hasCursor>>
  BY <1>2, <1>4, <1>7 DEF GenLocal, MayHold, TypeOK, RelayTypes, GenUnique
<1>8. CASE Raise(p, "lease")
  <2>1. /\ gen' = gen /\ recGen'[p] = 0 /\ ~hasCursor'[p]
        /\ \A q \in Procs \ {p} : recGen'[q] = recGen[q] /\ hasCursor'[q] = hasCursor[q]
    BY <1>8 DEF Raise, TypeOK, RelayTypes
  <2> QED BY <1>2, <1>4, <2>1 DEF GenLocal, MayHold
<1> QED BY <1>5, <1>6, <1>7, <1>8

\* Every step of a relay keeps generations apart.
LEMMA RelayGen ==
    ASSUME TypeOK, TypeOK', GenUnique, NEW p \in Procs, Relay(p)
    PROVE  GenUnique'
<1>1. CASE Start(p)
  <2>1. CASE Adopt(p, ClaimedGen(p), ClaimedLast(p)) /\ UNCHANGED recGen
    BY <1>1, <2>1, ClaimGen, GenLocalKeeps DEF Start
  <2>2. CASE UNCHANGED relayVars
    <3>1. nextGen <= nextGen' /\ \A i \in Instances : rowGen'[i] < nextGen'
      BY <1>1, ConstantsAssumption
         DEF Start, ClaimRow, ClaimedGen, TypeOK, RowTypes, GenUnique
    <3>2. GenLocal(p)
      BY <2>2, <3>1 DEF relayVars, GenLocal, MayHold, GenUnique
    <3> QED BY <3>2, GenLocalKeeps
  <2> QED BY <1>1, <2>1, <2>2 DEF Start
<1>2. CASE Claim(p)
  <2>1. CASE ClaimRow(p) /\ Adopt(p, ClaimedGen(p), ClaimedLast(p)) /\ UNCHANGED recGen
    BY <2>1, ClaimGen, GenLocalKeeps
  <2>2. CASE \E error : Raise(p, error) /\ (UNCHANGED <<rowGen, nextGen>> \/ ClaimRow(p))
    BY <2>2, RaiseGen, GenLocalKeeps
  <2> QED BY <1>2, <2>1, <2>2 DEF Claim, rowVars
<1>3. CASE Resync(p) BY <1>3, ResyncGen, GenLocalKeeps
<1>4. CASE LeaseLost(p) \/ DatabaseError(p)
  <2>1. PICK error : Raise(p, error) /\ UNCHANGED <<rowGen, nextGen>>
    BY <1>4 DEF LeaseLost, DatabaseError, rowVars
  <2> QED BY <2>1, RaiseGen, GenLocalKeeps
<1>5. CASE ReadCheck(p) \/ Ack(p)
  <2>1. UNCHANGED <<rowGen, nextGen>>
    BY <1>5 DEF ReadCheck, Ack, AckRow, rowVars
  <2>2. (\E error : Raise(p, error)) \/ UNCHANGED <<gen, recGen, hasCursor>>
    BY <1>5 DEF ReadCheck, Ack
  <2>3. CASE \E error : Raise(p, error) BY <2>1, <2>3, RaiseGen, GenLocalKeeps
  <2> QED BY <2>1, <2>2, <2>3, GenFrame
<1>6. CASE FenceAgain(p) \/ FenceClose(p) \/ ReadSelect(p) \/ Dispatch(p) \/ DispatchError(p)
  <2>1. UNCHANGED <<gen, recGen, hasCursor, rowGen, nextGen>>
    BY <1>6 DEF FenceAgain, FenceClose, ReadSelect, Dispatch, DispatchError, rowVars
  <2> QED BY <2>1, GenFrame
<1>7. CASE \E releases \in BOOLEAN : Stop(p, releases)
  <2>1. /\ UNCHANGED <<rowGen, nextGen>> /\ gen'[p] = 0 /\ recGen'[p] = 0 /\ ~hasCursor'[p]
        /\ \A q \in Procs \ {p} : /\ gen'[q] = gen[q] /\ recGen'[q] = recGen[q]
                                  /\ hasCursor'[q] = hasCursor[q]
    BY <1>7 DEF Stop, TypeOK, RelayTypes
  <2>2. GenLocal(p) BY <2>1 DEF GenLocal, MayHold, GenUnique, TypeOK, RowTypes
  <2> QED BY <2>2, GenLocalKeeps
<1> QED BY <1>1, <1>2, <1>3, <1>4, <1>5, <1>6, <1>7 DEF Relay

\* Two processes configured with one instance id never serve under one
\* generation, so that claim_instance leaves a cursor at most one owner.
THEOREM OneOwner == Spec => []SingleOwner
<1>1. Init => GenUnique BY DEF Init, GenUnique
<1>2. TypeOK /\ TypeOK' /\ GenUnique /\ [Next]_vars => GenUnique'
  <2> SUFFICES ASSUME TypeOK, TypeOK', GenUnique, [Next]_vars PROVE GenUnique'
    OBVIOUS
  <2>1. CASE Database
    BY <2>1, GenFrame
       DEF Database, AppendBegin, AppendCommit, AppendAbort, PruneBegin, PruneCommit,
           ExpireLease, relayVars, rowVars
  <2>2. CASE \E p \in Procs : Relay(p) BY <2>2, RelayGen
  <2>3. CASE \E c \in Conns : Socket(c)
    BY <2>3, GenFrame
       DEF Socket, Admit, Acquire, Register, Recheck, Leave, relayVars, rowVars
  <2>4. CASE UNCHANGED vars BY <2>4, GenFrame DEF vars, relayVars, rowVars
  <2> QED BY <2>1, <2>2, <2>3, <2>4 DEF Next
<1>3. GenUnique => SingleOwner BY DEF GenUnique, SingleOwner
<1> QED BY <1>1, <1>2, <1>3, TypeCorrect, PTL DEF Spec
=============================================================================
