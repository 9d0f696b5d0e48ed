----------------------- MODULE ConnectionLeasesProofs -----------------------
(***************************************************************************)
(* The connection caps, the balance of joins and leaves and the promise of *)
(* typing.stopped hold for every number of connections, rooms, processes,  *)
(* faults and reopenings.                                                  *)
(***************************************************************************)
EXTENDS ConnectionLeases, FiniteSetTheorems, TLAPS

\* The bound and the history that TypeOK leaves out.
Counters == late \in Nat /\ shown \in [Conns -> BOOLEAN]

\* The leases of a room, live or not, that no admission to it has taken for
\* dead, and those of the deployment that none has taken for dead.
Missed == UNION {missed[r] : r \in Rooms}
HeldIn(r) == {c \in Conns : Has(c) /\ place[c] = r} \ missed[r]
Held == {c \in Conns : Has(c)} \ Missed

\* The capacity lock has one holder.
OneTx == \A c, d \in Conns : tx[c].op # "none" /\ tx[d].op # "none" => c = d

\* What a transaction may rely on between two of its statements: its session
\* waits for it, the room of an admission is open, and the rows it is about
\* to delete are there, with the typing states it has seen.
Waits(c) ==
    /\ tx[c].op \in {"none", "leaving"} => tx[c].gone = {}
    /\ tx[c].op = "none" => tx[c] = NoTx
    /\ tx[c].op = "leaving" => session[c] = "closing"
    /\ tx[c].op \in {"swept", "counted"} => session[c] = "new" /\ room[place[c]] = "open"
Departs(c) ==
    /\ \A d \in tx[c].gone :
          Has(d) /\ ~starting[d] /\ (typing[d] # "none" => d \in tx[c].typed)
    /\ late = 0 /\ tx[c].op = "leaving" =>
          ~starting[c] /\ (typing[c] # "none" => c \in tx[c].typed)

\* There is still place for a connection that was counted.
HasPlace(c) ==
    tx[c].op = "counted" =>
        /\ Cardinality(HeldIn(place[c]) \ tx[c].gone) < MaxPerRoom
        /\ Cardinality(Held \ tx[c].gone) < MaxConnections

\* A lease is told of once, and so is a typing state.
Told(c) ==
    /\ session[c] = "new" => joins[c] = 0
    /\ leaves[c] + (IF Has(c) THEN 1 ELSE 0) <= joins[c]
    /\ room[place[c]] # "gone" => leaves[c] + (IF Has(c) THEN 1 ELSE 0) = joins[c]
    /\ late = 0 /\ shown[c] /\ room[place[c]] # "gone" => typing[c] # "none"

Caps ==
    /\ \A r \in Rooms : Cardinality(HeldIn(r)) <= MaxPerRoom
    /\ Cardinality(Held) <= MaxConnections
    /\ \A c \in Conns : HasPlace(c)

\* The inductive invariant.
IInv ==
    /\ TypeOK /\ Counters
    /\ OneTx
    /\ \A c \in Conns : Waits(c) /\ Departs(c) /\ Told(c)
    /\ Caps

-----------------------------------------------------------------------------
(* Facts about sets of connections and about the caps.                     *)

\* A part of a set of connections is not larger.
LEMMA Fewer ==
  ASSUME NEW T \in SUBSET Conns, NEW S \in SUBSET T
  PROVE  Cardinality(S) \in Nat /\ Cardinality(T) \in Nat /\ Cardinality(S) <= Cardinality(T)
<1>1. IsFiniteSet(T) BY FS_Subset, ConstantsAssumption
<1>2. IsFiniteSet(S) /\ Cardinality(S) <= Cardinality(T) BY <1>1, FS_Subset
<1> QED BY <1>1, <1>2, FS_CardinalityType

\* One connection more adds at most one.
LEMMA OneMore ==
  ASSUME NEW T \in SUBSET Conns, NEW c \in Conns, NEW S \in SUBSET (T \cup {c})
  PROVE  Cardinality(S) \in Nat /\ Cardinality(T) \in Nat /\ Cardinality(S) <= Cardinality(T) + 1
<1>1. IsFiniteSet(T) BY FS_Subset, ConstantsAssumption
<1>4. Cardinality(T) \in Nat BY <1>1, FS_CardinalityType
<1>2. Cardinality(T \cup {c}) <= Cardinality(T) + 1 /\ Cardinality(T) \in Nat
  <2>1. CASE c \in T
    <3>1. T \cup {c} = T BY <2>1
    <3> QED BY <1>4, <3>1
  <2>2. CASE c \notin T
    <3>1. Cardinality(T \cup {c}) = Cardinality(T) + 1 BY <1>1, <2>2, FS_AddElement, Zenon
    <3> QED BY <1>4, <3>1
  <2> QED BY <2>1, <2>2
<1>3. Cardinality(S) \in Nat /\ Cardinality(S) <= Cardinality(T \cup {c})
      /\ Cardinality(T \cup {c}) \in Nat
  BY Fewer
<1> QED BY <1>2, <1>3

\* A step that adds no lease and misses none it did not miss keeps the caps,
\* whichever leases and claims run out or come back.
LEMMA CapsShrink ==
  ASSUME IInv, place' = place, missed' = missed, \A d \in Conns : Has(d)' => Has(d),
         \A c \in Conns : tx'[c].op = "counted" =>
            tx[c].op = "counted" /\ tx'[c].gone = tx[c].gone
  PROVE  Caps'
<1>1. MaxConnections \in Nat /\ MaxPerRoom \in Nat BY ConstantsAssumption
<1>2. /\ \A r \in Rooms : HeldIn(r)' \subseteq HeldIn(r) /\ HeldIn(r) \subseteq Conns
      /\ Held' \subseteq Held /\ Held \subseteq Conns
  BY DEF HeldIn, Held, Missed
<1>3. /\ \A r \in Rooms : Cardinality(HeldIn(r)) <= MaxPerRoom
      /\ Cardinality(Held) <= MaxConnections /\ \A c \in Conns : HasPlace(c)
  BY DEF IInv, Caps
<1> HIDE DEF HeldIn, Held
<1>4. ASSUME NEW r \in Rooms PROVE Cardinality(HeldIn(r)') <= MaxPerRoom
  <2>1. HeldIn(r) \in SUBSET Conns /\ HeldIn(r)' \in SUBSET HeldIn(r) BY <1>2
  <2> QED BY <1>1, <1>3, <2>1, Fewer
<1>5. Cardinality(Held') <= MaxConnections
  <2>1. Held \in SUBSET Conns /\ Held' \in SUBSET Held BY <1>2
  <2> QED BY <1>1, <1>3, <2>1, Fewer
<1>6. ASSUME NEW c \in Conns PROVE HasPlace(c)'
  <2>1. CASE tx'[c].op # "counted" BY <2>1 DEF HasPlace
  <2>2. CASE tx'[c].op = "counted"
    <3> DEFINE g == tx[c].gone
    <3>1. tx[c].op = "counted" /\ tx'[c].gone = g BY <2>2
    <3>2. PICK r \in Rooms : r = place[c] BY ConstantsAssumption DEF IInv, TypeOK
    <3>3. Cardinality(HeldIn(r) \ g) < MaxPerRoom /\ Cardinality(Held \ g) < MaxConnections
      BY <1>3, <3>1, <3>2 DEF HasPlace
    <3>4. HeldIn(r) \ g \in SUBSET Conns /\ HeldIn(r)' \ g \in SUBSET (HeldIn(r) \ g) BY <1>2
    <3>5. Held \ g \in SUBSET Conns /\ Held' \ g \in SUBSET (Held \ g) BY <1>2
    <3>6. Cardinality(HeldIn(r)' \ g) < MaxPerRoom /\ Cardinality(Held' \ g) < MaxConnections
      BY <1>1, <3>3, <3>4, <3>5, Fewer
    <3>7. HeldIn(r)' = HeldIn(place[c])' BY <3>2 DEF HeldIn
    <3> QED BY <3>1, <3>6, <3>7 DEF HasPlace
  <2> QED BY <2>1, <2>2
<1> QED BY <1>4, <1>5, <1>6 DEF Caps

-----------------------------------------------------------------------------
(* Steps of sessions and locks, which leave the rows alone.                *)

\* What has to be shown of a step that adds and removes no row and tells the
\* room nothing.
LEMMA RowsAlone ==
  ASSUME IInv, place' = place, missed' = missed, typing' = typing,
         joins' = joins, leaves' = leaves, shown' = shown,
         \A c \in Conns : Has(c)' = Has(c),
         \A c \in Conns : (room'[place[c]] = "gone") = (room[place[c]] = "gone"),
         late' \in Nat, late' = 0 => late = 0,
         TypeOK', OneTx',
         \A c \in Conns : Waits(c)' /\ Departs(c)',
         \A c \in Conns : session'[c] = "new" => session[c] = "new",
         \A c \in Conns : tx'[c].op = "counted" =>
            tx[c].op = "counted" /\ tx'[c].gone = tx[c].gone
  PROVE  IInv'
<1>1. Caps' BY CapsShrink
<1>2. ASSUME NEW c \in Conns PROVE Told(c)'
  <2>1. Told(c) /\ (session'[c] = "new" => session[c] = "new") BY DEF IInv
  <2> QED BY <2>1 DEF Told
<1>3. Counters' BY DEF IInv, Counters
<1> QED BY <1>1, <1>2, <1>3 DEF IInv

\* Types of a connection's transaction.
TxType == [op: {"none", "swept", "counted", "leaving"}, gone: SUBSET Conns, typed: SUBSET Conns]

\* While nobody holds the capacity lock, no row is about to be deleted.
LEMMA FreeMeansNoTx ==
  ASSUME IInv, CapLockFree
  PROVE  \A c \in Conns : tx[c].op = "none" /\ tx[c].gone = {}
BY DEF IInv, Waits, CapLockFree

\* An admission begins: only rows that nobody holds are picked.
LEMMA AcquireBeginStep ==
  ASSUME IInv, NEW c \in Conns, AcquireBegin(c) PROVE IInv'
<1>1. /\ UNCHANGED <<place, renewalVars, dbVars, starting, session, histVars, boundVars>>
      /\ session[c] = "new" /\ room[place[c]] = "open" /\ CapLockFree
  BY DEF AcquireBegin
<1>2. PICK S \in SUBSET {d \in Conns : Stale(d) /\ ~RowLocked(d)} :
         tx' = [tx EXCEPT ![c] = [op |-> "swept", gone |-> S, typed |-> WasTyping(S)]]
  BY DEF AcquireBegin, Sweeps
<1>3. \A d \in Conns : tx[d].op = "none" /\ tx[d].gone = {} BY <1>1, FreeMeansNoTx
<1>4. tx \in [Conns -> TxType] BY DEF IInv, TypeOK, TxType
<1>5. /\ tx'[c] = [op |-> "swept", gone |-> S, typed |-> WasTyping(S)]
      /\ \A d \in Conns \ {c} : tx'[d] = tx[d]
  BY <1>2, <1>4
<1>6. tx'[c] \in TxType BY <1>5 DEF TxType, WasTyping, Typing
<1>7. tx' \in [Conns -> TxType] BY <1>2, <1>4, <1>5, <1>6
<1>8. TypeOK' BY <1>1, <1>7 DEF IInv, TypeOK, TxType, Has, dbVars, histVars, renewalVars
<1>9. OneTx' BY <1>3, <1>5 DEF OneTx
<1>10. \A d \in Conns : Waits(d)'
  BY <1>1, <1>3, <1>5 DEF IInv, Waits, dbVars
<1>11. \A d \in S : Has(d) /\ ~starting[d] /\ (typing[d] # "none" => d \in WasTyping(S))
  BY DEF Stale, RowLocked, WasTyping, Typing
<1>12. ASSUME NEW d \in Conns PROVE Departs(d)'
  <2>1. CASE d = c BY <1>1, <1>5, <1>11, <2>1 DEF Departs, Has, dbVars
  <2>2. CASE d # c BY <1>1, <1>3, <1>5, <2>2 DEF Departs
  <2> QED BY <2>1, <2>2
<1>13. \A d \in Conns : tx'[d].op # "counted" BY <1>3, <1>5
<1> QED BY <1>1, <1>8, <1>9, <1>10, <1>12, <1>13, RowsAlone
        DEF Has, dbVars, histVars, renewalVars, boundVars, IInv, Counters

\* The live connections that stay are counted under the capacity lock.
LEMMA AcquireCountStep ==
  ASSUME IInv, NEW c \in Conns, AcquireCount(c) PROVE IInv'
<1>1. /\ UNCHANGED <<place, renewing, beating, unsure, dbVars, starting, session, histVars, boundVars>>
      /\ tx[c].op = "swept" /\ ~Full(c, LiveConns \ tx[c].gone)
      /\ tx' = [tx EXCEPT ![c].op = "counted"]
  BY DEF AcquireCount
<1>2. tx \in [Conns -> TxType] BY DEF IInv, TypeOK, TxType
<1>3. /\ tx'[c].op = "counted" /\ tx'[c].gone = tx[c].gone /\ tx'[c].typed = tx[c].typed
      /\ \A d \in Conns \ {c} : tx'[d] = tx[d]
      /\ tx' \in [Conns -> TxType]
  BY <1>1, <1>2 DEF TxType
<1>mis. /\ missed' = [missed EXCEPT ![place[c]] = @ \cup Dead(c)]
        /\ missed \in [Rooms -> SUBSET Conns] /\ place \in [Conns -> Rooms]
  BY ConstantsAssumption DEF AcquireCount, IInv, TypeOK
<1>mty. /\ missed' \in [Rooms -> SUBSET Conns]
        /\ missed'[place[c]] = missed[place[c]] \cup Dead(c)
        /\ \A r \in Rooms : missed[r] \subseteq missed'[r]
  BY <1>mis DEF Dead
<1>4. TypeOK' BY <1>1, <1>3, <1>mty DEF IInv, TypeOK, TxType, Has, dbVars, histVars, renewalVars
<1>5. OneTx' BY <1>1, <1>3 DEF IInv, OneTx
<1>6. \A d \in Conns : Waits(d)'
  BY <1>1, <1>3 DEF IInv, Waits, dbVars
<1>7. \A d \in Conns : Departs(d)'
  BY <1>1, <1>3 DEF IInv, Departs, Has, dbVars, boundVars
<1>8. Told(c)' /\ \A d \in Conns : Told(d)'
  BY <1>1 DEF IInv, Told, Has, dbVars, histVars, boundVars
<1>nat. MaxConnections \in Nat /\ MaxPerRoom \in Nat BY ConstantsAssumption
<1>9. /\ \A r \in Rooms : HeldIn(r)' \in SUBSET HeldIn(r) /\ HeldIn(r) \in SUBSET Conns
      /\ Held' \in SUBSET Held /\ Held \in SUBSET Conns
  <2>1. \A d \in Conns : Has(d)' = Has(d) BY <1>1 DEF Has, dbVars
  <2>2. Missed \subseteq Missed' BY <1>mty DEF Missed
  <2> QED BY <1>1, <1>mty, <2>1, <2>2 DEF HeldIn, Held
<1>10. ASSUME NEW d \in Conns PROVE HasPlace(d)'
  <2>1. CASE d # c
    <3>1. tx'[d].op # "counted" BY <1>1, <1>3, <2>1 DEF IInv, OneTx
    <3> QED BY <3>1 DEF HasPlace
  <2>2. CASE d = c
    <3> DEFINE g == tx[c].gone
               all == LiveConns \ g
               rest == {e \in all : place[e] = place[c]}
    <3>1. all \in SUBSET Conns /\ rest \in SUBSET Conns BY DEF LiveConns
    <3>2. Cardinality(rest) \in Nat /\ Cardinality(all) \in Nat
      <4> HIDE DEF all, rest
      <4> QED BY <3>1, Fewer
    <3>3. Cardinality(rest) < MaxPerRoom /\ Cardinality(all) < MaxConnections
      BY <1>1, <1>nat, <3>2 DEF Full
    <3>4. \A e \in Conns : Has(e)' = Has(e) BY <1>1 DEF Has, dbVars
    <3>5. \A e \in Conns : Has(e) /\ e \notin g /\ e \notin missed'[place[c]] => e \in all
      BY <1>mty DEF Dead, LiveConns
    <3>6. \A e \in missed'[place[c]] : e \in Missed' BY <1>mis, <1>1 DEF Missed
    <3>7. HeldIn(place[c])' \ g \in SUBSET rest /\ Held' \ g \in SUBSET all
      BY <1>1, <3>4, <3>5, <3>6 DEF HeldIn, Held
    <3>8. Cardinality(HeldIn(place[c])' \ g) < MaxPerRoom /\ Cardinality(Held' \ g) < MaxConnections
      <4> HIDE DEF all, rest
      <4> QED BY <1>nat, <3>1, <3>2, <3>3, <3>7, Fewer
    <3> QED BY <1>1, <1>3, <2>2, <3>8 DEF HasPlace
  <2> QED BY <2>1, <2>2
<1>11. Caps'
  <2>1. /\ \A r \in Rooms : Cardinality(HeldIn(r)) <= MaxPerRoom
        /\ Cardinality(Held) <= MaxConnections
    BY DEF IInv, Caps
  <2> HIDE DEF HeldIn, Held
  <2>2. \A r \in Rooms : Cardinality(HeldIn(r)') <= MaxPerRoom BY <1>nat, <1>9, <2>1, Fewer
  <2>3. Cardinality(Held') <= MaxConnections BY <1>nat, <1>9, <2>1, Fewer
  <2> QED BY <1>10, <2>2, <2>3 DEF Caps
<1>12. Counters' BY <1>1 DEF IInv, Counters, boundVars, histVars
<1> QED BY <1>4, <1>5, <1>6, <1>7, <1>8, <1>11, <1>12 DEF IInv

\* A lost admission or release gives up its locks; its session goes on.
LEMMA FailsStep ==
  ASSUME IInv, NEW c \in Conns, AcquireFails(c) \/ ReleaseFails(c) PROVE IInv'
<1>1. /\ UNCHANGED <<place, renewalVars, dbVars, starting, histVars, inputs, late>>
      /\ tx' = [tx EXCEPT ![c] = NoTx]
  BY DEF AcquireFails, ReleaseFails
<1>2. PICK next \in {"closing", "done"} : session' = [session EXCEPT ![c] = next]
  BY DEF AcquireFails, ReleaseFails
<1>3. tx \in [Conns -> TxType] /\ session \in [Conns -> {"new", "open", "closing", "done"}]
  BY DEF IInv, TypeOK, TxType
<1>4. /\ tx'[c] = NoTx /\ \A d \in Conns \ {c} : tx'[d] = tx[d] /\ session'[d] = session[d]
      /\ tx' \in [Conns -> TxType] /\ session' \in [Conns -> {"new", "open", "closing", "done"}]
      /\ session'[c] = next
  BY <1>1, <1>2, <1>3 DEF TxType, NoTx
<1>5. TypeOK' BY <1>1, <1>4 DEF IInv, TypeOK, TxType, Has, dbVars, histVars, renewalVars
<1>6. OneTx' BY <1>4 DEF IInv, OneTx, NoTx
<1>7. \A d \in Conns : Waits(d)' BY <1>1, <1>4 DEF IInv, Waits, NoTx, dbVars
<1>8. \A d \in Conns : Departs(d)' BY <1>1, <1>4 DEF IInv, Departs, NoTx, Has, dbVars
<1>9. \A d \in Conns : tx'[d].op = "counted" => tx[d].op = "counted" /\ tx'[d].gone = tx[d].gone
  BY <1>4 DEF NoTx
<1>10. \A d \in Conns : session'[d] = "new" => session[d] = "new" BY <1>2, <1>4
<1> QED BY <1>1, <1>5, <1>6, <1>7, <1>8, <1>9, <1>10, RowsAlone
        DEF Has, dbVars, histVars, renewalVars, IInv, Counters

\* A session that ends, by itself or because renew refused it.
LEMMA SessionStep ==
  ASSUME IInv, NEW c \in Conns, SessionEnds(c) \/ RenewRefused(c) PROVE IInv'
<1>1. /\ UNCHANGED <<place, renewalVars, dbVars, tx, starting, histVars, boundVars>>
      /\ session[c] = "open" /\ session' = [session EXCEPT ![c] = "closing"]
  BY DEF SessionEnds, RenewRefused
<1>2. session' \in [Conns -> {"new", "open", "closing", "done"}]
  BY <1>1 DEF IInv, TypeOK
<1>3. \A d \in Conns : session'[d] = session[d] \/ (session[d] = "open" /\ session'[d] = "closing")
  BY <1>1 DEF IInv, TypeOK
<1>4. TypeOK' BY <1>1, <1>2 DEF IInv, TypeOK, Has, dbVars, histVars, renewalVars
<1>5. \A d \in Conns : Waits(d)' BY <1>1, <1>3 DEF IInv, Waits, dbVars
<1>6. \A d \in Conns : Departs(d)' BY <1>1 DEF IInv, Departs, Has, dbVars, boundVars
<1>7. OneTx' BY <1>1 DEF IInv, OneTx
<1> QED BY <1>1, <1>3, <1>4, <1>5, <1>6, <1>7, RowsAlone
        DEF Has, dbVars, histVars, renewalVars, boundVars, IInv, Counters

\* A release reads its row, with whether the connection is typing.
LEMMA ReleaseBeginStep ==
  ASSUME IInv, NEW c \in Conns, ReleaseBegin(c) PROVE IInv'
<1>1. /\ UNCHANGED <<place, renewalVars, dbVars, starting, session, histVars, inputs>>
      /\ session[c] = "closing" /\ CapLockFree
      /\ tx' = [tx EXCEPT ![c] = [op |-> "leaving", gone |-> {}, typed |-> WasTyping({c})]]
      /\ late' \in Nat /\ (late' = 0 => late = 0 /\ ~starting[c])
  BY DEF ReleaseBegin, IInv, Counters
<1>2. \A d \in Conns : tx[d].op = "none" /\ tx[d].gone = {} BY <1>1, FreeMeansNoTx
<1>3. tx \in [Conns -> TxType] BY DEF IInv, TypeOK, TxType
<1>4. /\ tx'[c] = [op |-> "leaving", gone |-> {}, typed |-> WasTyping({c})]
      /\ \A d \in Conns \ {c} : tx'[d] = tx[d]
  BY <1>1, <1>3
<1>5. tx'[c] \in TxType BY <1>4 DEF TxType, WasTyping, Typing
<1>6. tx' \in [Conns -> TxType] BY <1>1, <1>3, <1>4, <1>5
<1>7. TypeOK' BY <1>1, <1>6 DEF IInv, TypeOK, TxType, Has, dbVars, histVars, renewalVars
<1>8. OneTx' BY <1>2, <1>4 DEF OneTx
<1>9. \A d \in Conns : Waits(d)' BY <1>1, <1>2, <1>4 DEF IInv, Waits, dbVars
<1>10. typing[c] # "none" => c \in WasTyping({c}) BY DEF WasTyping, Typing
<1>11. \A d \in Conns : Departs(d)' BY <1>1, <1>2, <1>4, <1>10 DEF Departs, dbVars
<1>12. \A d \in Conns : tx'[d].op # "counted" BY <1>2, <1>4
<1> QED BY <1>1, <1>7, <1>8, <1>9, <1>11, <1>12, RowsAlone
        DEF Has, dbVars, histVars, renewalVars

\* typing.start locks a live row that no departure has picked, or lets go.
LEMMA StartLockStep ==
  ASSUME IInv, NEW c \in Conns, StartBegin(c) \/ StartFails(c) PROVE IInv'
<1>1. UNCHANGED <<place, renewalVars, dbVars, tx, session, histVars, late>>
  BY DEF StartBegin, StartFails
<1>2. PICK on \in BOOLEAN : starting' = [starting EXCEPT ![c] = on] /\ (on => Has(c) /\ ~RowLocked(c))
  BY DEF StartBegin, StartFails, Live, Has
<1>3. starting' \in [Conns -> BOOLEAN] /\ \A d \in Conns : starting'[d] = IF d = c THEN on ELSE starting[d]
  BY <1>2 DEF IInv, TypeOK
<1>4. TypeOK'
  <2>1. \A d \in Conns : starting'[d] => Has(d) BY <1>2, <1>3 DEF IInv, TypeOK
  <2> QED BY <1>1, <1>3, <2>1 DEF IInv, TypeOK, Has, dbVars, histVars, renewalVars
<1>5. \A d \in Conns : Waits(d)' BY <1>1 DEF IInv, Waits, dbVars
<1>6. ASSUME NEW d \in Conns PROVE Departs(d)'
  <2>1. Departs(d) /\ tx[d].gone \subseteq Conns BY DEF IInv, TypeOK
  <2>2. on => c \notin tx[d].gone /\ tx[c].op # "leaving" BY <1>2 DEF RowLocked
  <2> QED BY <1>1, <1>3, <2>1, <2>2 DEF Departs, Has, dbVars
<1>7. OneTx' BY <1>1 DEF IInv, OneTx
<1> QED BY <1>1, <1>4, <1>5, <1>6, <1>7, RowsAlone
        DEF Has, dbVars, histVars, renewalVars, IInv, Counters

-----------------------------------------------------------------------------
(* Typing states come and go.                                              *)

\* What has to be shown of a step that changes only typing states: a state
\* appears only under a row that typing.start holds.
LEMMA TypingAlone ==
  ASSUME IInv, NEW c \in Conns, NEW t \in {"none", "on", "expired"}, NEW sh \in BOOLEAN,
         UNCHANGED <<place, renewalVars, room, owner, lease, tx, session>>,
         UNCHANGED <<joins, leaves, boundVars>>,
         typing' = [typing EXCEPT ![c] = t], shown' = [shown EXCEPT ![c] = sh],
         starting' = [starting EXCEPT ![c] = FALSE] \/ starting' = starting,
         t # "none" /\ typing[c] = "none" => starting[c],
         sh => t # "none"
  PROVE  IInv'
<1>1. /\ typing \in [Conns -> {"none", "on", "expired"}] /\ starting \in [Conns -> BOOLEAN]
      /\ typing' \in [Conns -> {"none", "on", "expired"}] /\ starting' \in [Conns -> BOOLEAN]
      /\ typing'[c] = t /\ \A d \in Conns \ {c} : typing'[d] = typing[d] /\ starting'[d] = starting[d]
      /\ \A d \in Conns : starting'[d] => starting[d]
  BY DEF IInv, TypeOK
<1>2. shown' \in [Conns -> BOOLEAN] /\ shown'[c] = sh /\ \A d \in Conns \ {c} : shown'[d] = shown[d]
  BY DEF IInv, Counters
<1>3. t # "none" => Has(c) BY <1>1 DEF IInv, TypeOK
<1>4. TypeOK'
  <2>1. \A d \in Conns : typing'[d] # "none" => Has(d) BY <1>1, <1>3 DEF IInv, TypeOK
  <2>2. \A d \in Conns : starting'[d] => Has(d) BY <1>1 DEF IInv, TypeOK
  <2>3. \A d \in Conns : Has(d)' = Has(d) BY DEF Has
  <2> QED BY <1>1, <2>1, <2>2, <2>3 DEF IInv, TypeOK, renewalVars
<1>5. Counters' BY <1>2 DEF IInv, Counters, boundVars
<1>6. OneTx' BY DEF IInv, OneTx
<1>7. \A d \in Conns : Waits(d)' BY DEF IInv, Waits
<1>8. ASSUME NEW d \in Conns PROVE Departs(d)'
  <2>1. Departs(d) BY DEF IInv
  <2>2. \A e \in Conns : ~starting[e] /\ typing'[e] # "none" => typing[e] # "none" BY <1>1
  <2>3. tx[d].gone \subseteq Conns BY DEF IInv, TypeOK
  <2> QED BY <1>1, <2>1, <2>2, <2>3 DEF Departs, Has, boundVars
<1>9. ASSUME NEW d \in Conns PROVE Told(d)'
  <2>1. Told(d) /\ (shown'[d] => typing'[d] # "none" \/ (shown[d] /\ typing'[d] = typing[d]))
    BY <1>1, <1>2 DEF IInv
  <2> QED BY <2>1 DEF Told, Has, boundVars
<1>11. Caps'
  <2>1. \A d \in Conns : Has(d)' = Has(d) BY DEF Has
  <2> QED BY <2>1, CapsShrink DEF renewalVars
<1> QED BY <1>4, <1>5, <1>6, <1>7, <1>8, <1>9, <1>11 DEF IInv

\* typing.start and typing.stop write, the sweep and the clock end a typing
\* state.
LEMMA TypingStep ==
  ASSUME IInv, NEW c \in Conns, StartEnd(c) \/ Stop(c) \/ ReapTyping(c) \/ ExpireTyping(c)
  PROVE  IInv'
<1>1. shown \in [Conns -> BOOLEAN] BY DEF IInv, Counters
<1>2. CASE StartEnd(c)
  <2> DEFINE sh == shown[c] \/ typing[c] # "on"
  <2>2. sh \in BOOLEAN BY <1>1
  <2>3. shown' = [shown EXCEPT ![c] = sh] BY <1>2 DEF StartEnd
  <2> HIDE DEF sh
  <2> QED BY <1>2, <2>2, <2>3, TypingAlone DEF StartEnd
<1>3. CASE Stop(c) \/ ReapTyping(c)
  BY <1>3, TypingAlone DEF Stop, ReapTyping, DeleteTyping
<1>4. CASE ExpireTyping(c)
  <2> DEFINE sh == shown[c]
  <2>1. sh \in BOOLEAN /\ shown' = [shown EXCEPT ![c] = sh]
    BY <1>1, <1>4 DEF ExpireTyping, histVars
  <2> HIDE DEF sh
  <2> QED BY <1>4, <2>1, TypingAlone DEF ExpireTyping, histVars
<1> QED BY <1>2, <1>3, <1>4

-----------------------------------------------------------------------------
(* Transactions that remove leases.                                        *)

\* What has to be shown of a transaction that ends: no other is under way, the
\* rows it deletes are there and their typing states were seen, and it adds at
\* most the one connection it has counted.
LEMMA CommitStep ==
  ASSUME IInv,
         NEW gone \in SUBSET Conns, NEW typed \in SUBSET Conns, NEW new \in SUBSET Conns,
         Commit(gone, typed, new), UNCHANGED <<place, renewalVars, room, owner, starting, boundVars>>,
         tx' \in [Conns -> TxType], \A d \in Conns : tx'[d] = NoTx,
         session' \in [Conns -> {"new", "open", "closing", "done"}],
         \A d \in Conns : session'[d] = "new" => session[d] = "new" /\ d \notin new,
         \A d \in gone : Has(d) /\ ~starting[d]
                         /\ (late = 0 /\ typing[d] # "none" => d \in typed),
         \A d \in new : session[d] = "new",
         \A d \in new : new = {d} /\ gone = tx[d].gone /\ tx[d].op = "counted"
  PROVE  IInv'
<1>1. /\ lease' = [d \in Conns |->
                     IF d \in new THEN [st |-> "live", gen |-> owner[InstOf[d]].gen]
                     ELSE IF d \in gone THEN NoLease ELSE lease[d]]
      /\ typing' = [d \in Conns |-> IF d \in gone THEN "none" ELSE typing[d]]
      /\ joins' = [d \in Conns |-> IF d \in new THEN joins[d] + 1 ELSE joins[d]]
      /\ leaves' = [d \in Conns |-> IF d \in gone THEN leaves[d] + 1 ELSE leaves[d]]
      /\ shown' = [d \in Conns |-> shown[d] /\ d \notin typed]
  BY DEF Commit
<1>2. /\ room \in [Rooms -> {"open", "archived", "gone"}]
      /\ owner \in [Instances -> [gen: Nat, live: BOOLEAN]]
      /\ lease \in [Conns -> [st: {"none", "live", "expired"}, gen: Nat]]
      /\ typing \in [Conns -> {"none", "on", "expired"}]
      /\ starting \in [Conns -> BOOLEAN] /\ InstOf \in [Conns -> Instances]
      /\ joins \in [Conns -> 0..1] /\ leaves \in [Conns -> Nat]
      /\ \A d \in Conns : starting[d] => Has(d)
      /\ \A d \in Conns : typing[d] # "none" => Has(d)
  BY ConstantsAssumption DEF IInv, TypeOK
<1>nat. MaxConnections \in Nat /\ MaxPerRoom \in Nat BY ConstantsAssumption
<1>3. \A d \in new : joins[d] = 0 /\ leaves[d] = 0 /\ ~Has(d) /\ d \notin gone
  <2> TAKE d \in new
  <2>1. Told(d) /\ session[d] = "new" BY DEF IInv
  <2>2. joins[d] = 0 BY <2>1 DEF Told
  <2>3. leaves[d] = 0 /\ ~Has(d) BY <1>2, <2>1, <2>2 DEF Told
  <2> QED BY <2>2, <2>3
<1>4. \A d \in Conns : Has(d)' <=> d \in new \/ (Has(d) /\ d \notin gone)
  BY <1>1 DEF Has, NoLease
<1>5. TypeOK'
  <2>1. lease' \in [Conns -> [st: {"none", "live", "expired"}, gen: Nat]]
    BY <1>1, <1>2 DEF NoLease
  <2>2. typing' \in [Conns -> {"none", "on", "expired"}] BY <1>1, <1>2
  <2>3. joins' \in [Conns -> 0..1] /\ leaves' \in [Conns -> Nat] BY <1>1, <1>2, <1>3
  <2>4. \A d \in Conns : typing'[d] # "none" => Has(d)' BY <1>1, <1>2, <1>4
  <2>5. \A d \in Conns : starting'[d] => Has(d)' BY <1>2, <1>4
  <2> QED BY <1>2, <2>1, <2>2, <2>3, <2>4, <2>5 DEF IInv, TypeOK, TxType, renewalVars
<1>6. Counters'
  <2>1. shown' \in [Conns -> BOOLEAN] BY <1>1
  <2> QED BY <2>1 DEF IInv, Counters, boundVars
<1>7. OneTx' /\ \A d \in Conns : Waits(d)' /\ Departs(d)' /\ HasPlace(d)'
  BY DEF OneTx, Waits, Departs, HasPlace, NoTx
<1>8. ASSUME NEW d \in Conns PROVE Told(d)'
  <2>1. Told(d) BY DEF IInv
  <2>2. CASE d \in new
    <3>1. /\ joins'[d] = 1 /\ leaves'[d] = 0 /\ Has(d)' /\ session'[d] # "new"
      BY <1>1, <1>3, <1>4, <2>2
    <3>3. typing'[d] = typing[d] /\ (shown'[d] => shown[d]) BY <1>1, <1>3, <2>2
    <3> QED BY <2>1, <3>1, <3>3 DEF Told, boundVars
  <2>3. CASE d \in gone
    <3>1. /\ joins'[d] = joins[d] /\ leaves'[d] = leaves[d] + 1 /\ ~Has(d)' /\ Has(d)
          /\ (late = 0 => ~shown'[d] \/ (room[place[d]] = "gone"))
      BY <1>1, <1>3, <1>4, <2>1, <2>3 DEF Told
    <3>2. leaves[d] \in Nat BY <1>2
    <3> QED BY <2>1, <3>1, <3>2 DEF Told, boundVars
  <2>4. CASE d \notin new /\ d \notin gone
    <3>1. /\ joins'[d] = joins[d] /\ leaves'[d] = leaves[d] /\ Has(d)' = Has(d)
          /\ lease'[d] = lease[d] /\ typing'[d] = typing[d] /\ (shown'[d] => shown[d])
      BY <1>1, <2>4 DEF Has
    <3> QED BY <2>1, <3>1 DEF Told, boundVars
  <2> QED BY <2>2, <2>3, <2>4
<1>9. /\ Held' \subseteq (Held \ gone) \cup new
      /\ \A r \in Rooms : HeldIn(r)' \subseteq (HeldIn(r) \ gone) \cup {d \in new : place[d] = r}
  BY <1>3, <1>4 DEF Held, HeldIn, Missed, renewalVars
<1>10. /\ Held \in SUBSET Conns /\ \A r \in Rooms : HeldIn(r) \in SUBSET Conns
       /\ Cardinality(Held) <= MaxConnections
       /\ \A r \in Rooms : Cardinality(HeldIn(r)) <= MaxPerRoom
  BY DEF Held, HeldIn, IInv, Caps
<1>11. ASSUME NEW r \in Rooms PROVE Cardinality(HeldIn(r)') <= MaxPerRoom
  <2> HIDE DEF HeldIn
  <2>1. CASE \A d \in new : place[d] # r
    <3>1. HeldIn(r)' \in SUBSET HeldIn(r) BY <1>9, <2>1
    <3>2. HeldIn(r) \in SUBSET Conns /\ Cardinality(HeldIn(r)) <= MaxPerRoom BY <1>10
    <3> QED BY <1>nat, <3>1, <3>2, Fewer
  <2>2. CASE \E d \in new : place[d] = r
    <3>1. PICK d \in new : place[d] = r BY <2>2
    <3>2. Cardinality(HeldIn(r) \ gone) < MaxPerRoom BY <3>1 DEF IInv, Caps, HasPlace
    <3>3. HeldIn(r) \ gone \in SUBSET Conns /\ HeldIn(r)' \in SUBSET ((HeldIn(r) \ gone) \cup {d})
      BY <1>9, <1>10, <3>1
    <3>4. d \in Conns OBVIOUS
    <3> QED BY <1>nat, <3>2, <3>3, <3>4, OneMore
  <2> QED BY <2>1, <2>2
<1>12. Cardinality(Held') <= MaxConnections
  <2> HIDE DEF Held
  <2>1. CASE new = {}
    <3>1. Held' \in SUBSET Held BY <1>9, <2>1
    <3> QED BY <1>nat, <1>10, <3>1, Fewer
  <2>2. CASE new # {}
    <3>1. PICK d \in new : TRUE BY <2>2
    <3>2. Cardinality(Held \ gone) < MaxConnections BY <3>1 DEF IInv, Caps, HasPlace
    <3>3. Held \ gone \in SUBSET Conns /\ Held' \in SUBSET ((Held \ gone) \cup {d})
      BY <1>9, <1>10, <3>1
    <3>4. d \in Conns OBVIOUS
    <3> QED BY <1>nat, <3>2, <3>3, <3>4, OneMore
  <2> QED BY <2>1, <2>2
<1>13. Caps' BY <1>7, <1>11, <1>12 DEF Caps
<1> QED BY <1>5, <1>6, <1>7, <1>8, <1>13 DEF IInv

\* The transaction of c ends, and none is left.
LEMMA LastTx ==
  ASSUME IInv, NEW c \in Conns, tx[c].op # "none", tx' = [tx EXCEPT ![c] = NoTx]
  PROVE  tx' \in [Conns -> TxType] /\ \A d \in Conns : tx'[d] = NoTx
<1>1. tx \in [Conns -> TxType] BY DEF IInv, TypeOK, TxType
<1>2. \A d \in Conns : d # c => tx[d] = NoTx BY DEF IInv, OneTx, Waits
<1> QED BY <1>1, <1>2 DEF TxType, NoTx

\* Maintenance removes stale rows that nobody holds.
LEMMA ReapStep ==
  ASSUME IInv, Reap PROVE IInv'
<1>1. /\ CapLockFree /\ UNCHANGED <<place, renewalVars, room, owner, tx, starting, session, boundVars>>
  BY DEF Reap
<1>2. PICK S \in SUBSET {d \in Conns : Stale(d) /\ ~RowLocked(d)} : Commit(S, WasTyping(S), {})
  BY DEF Reap, Sweeps
<1>3. \A d \in Conns : tx[d] = NoTx BY <1>1 DEF IInv, Waits, CapLockFree
<1>4. S \in SUBSET Conns /\ WasTyping(S) \in SUBSET Conns BY DEF WasTyping, Typing
<1>5. \A d \in S : Has(d) /\ ~starting[d] /\ (typing[d] # "none" => d \in WasTyping(S))
  BY DEF Stale, RowLocked, WasTyping, Typing
<1>6. /\ tx' \in [Conns -> TxType] /\ session' \in [Conns -> {"new", "open", "closing", "done"}]
  BY <1>1 DEF IInv, TypeOK, TxType
<1> QED BY <1>1, <1>2, <1>3, <1>4, <1>5, <1>6, CommitStep

\* An admission ends, refused or admitted.
LEMMA AcquireStep ==
  ASSUME IInv, NEW c \in Conns, AcquireFull(c) \/ AcquireEnd(c) PROVE IInv'
<1>1. /\ tx[c].op \in {"swept", "counted"} /\ tx' = [tx EXCEPT ![c] = NoTx]
      /\ UNCHANGED <<place, renewalVars, room, owner, starting, boundVars>>
  BY DEF AcquireFull, AcquireEnd
<1>2. PICK new \in SUBSET {c} :
         Commit(tx[c].gone, tx[c].typed, new) /\ (new # {} => tx[c].op = "counted")
  BY DEF AcquireFull, AcquireEnd
<1>3. PICK next \in {"open", "closing", "done"} : session' = [session EXCEPT ![c] = next]
  BY DEF AcquireFull, AcquireEnd
<1>4. /\ session' \in [Conns -> {"new", "open", "closing", "done"}]
      /\ \A d \in Conns : session'[d] = "new" => session[d] = "new" /\ d # c
  BY <1>3 DEF IInv, TypeOK
<1>5. /\ tx[c].gone \in SUBSET Conns /\ tx[c].typed \in SUBSET Conns /\ new \in SUBSET Conns
      /\ session[c] = "new" /\ Departs(c)
  BY <1>1 DEF IInv, TypeOK, Waits
<1>6. tx' \in [Conns -> TxType] /\ \A d \in Conns : tx'[d] = NoTx BY <1>1, LastTx
<1>7. \A d \in tx[c].gone : Has(d) /\ ~starting[d]
                            /\ (late = 0 /\ typing[d] # "none" => d \in tx[c].typed)
  BY <1>5 DEF Departs
<1>8. \A d \in new : new = {d} /\ d = c /\ tx[d].op = "counted" BY <1>2
<1>9. \A d \in new : session[d] = "new" /\ tx[c].gone = tx[d].gone BY <1>5, <1>8
<1> QED BY <1>1, <1>2, <1>4, <1>5, <1>6, <1>7, <1>8, <1>9, CommitStep

\* A release that waited for its row deletes it, unless it is gone already.
LEMMA ReleaseEndStep ==
  ASSUME IInv, NEW c \in Conns, ReleaseEnd(c) PROVE IInv'
<1>1. /\ tx[c].op = "leaving" /\ ~starting[c] /\ tx' = [tx EXCEPT ![c] = NoTx]
      /\ session' = [session EXCEPT ![c] = "done"]
      /\ UNCHANGED <<place, renewalVars, room, owner, starting, boundVars>>
      /\ Commit(Released(c), tx[c].typed \cap Released(c), {})
  BY DEF ReleaseEnd
<1>2. /\ session' \in [Conns -> {"new", "open", "closing", "done"}]
      /\ \A d \in Conns : session'[d] = "new" => session[d] = "new"
  BY <1>1 DEF IInv, TypeOK
<1>3. Released(c) \in SUBSET Conns /\ \A d \in Released(c) : d = c /\ Has(c)
  BY DEF Released
<1>4. tx[c].typed \cap Released(c) \in SUBSET Conns /\ {} \in SUBSET Conns BY <1>3
<1>5. tx' \in [Conns -> TxType] /\ \A d \in Conns : tx'[d] = NoTx BY <1>1, LastTx
<1>6. \A d \in Released(c) :
         Has(d) /\ ~starting[d]
         /\ (late = 0 /\ typing[d] # "none" => d \in tx[c].typed \cap Released(c))
  BY <1>1, <1>3 DEF IInv, Departs
<1> QED BY <1>1, <1>2, <1>3, <1>4, <1>5, <1>6, CommitStep

-----------------------------------------------------------------------------
(* Time, processes and rooms.                                              *)

\* A lease runs out, or a renewal that is committed makes it live again: its
\* row stays until somebody removes it.
LEMMA LeaseStep ==
  ASSUME IInv, NEW c \in Conns,
         ExpireLease(c) \/ RenewBegin(c) \/ RenewEnd(c) \/ RenewFails(c)
  PROVE  IInv'
<1>1. /\ UNCHANGED <<place, missed, beating, unsure, room, owner, typing, tx, starting, session>>
      /\ UNCHANGED <<histVars, late>>
  BY DEF ExpireLease, RenewBegin, RenewEnd, RenewFails, dbVars, renewalVars, boundVars
<1>2. /\ lease \in [Conns -> [st: {"none", "live", "expired"}, gen: Nat]]
      /\ renewing \in [Conns -> BOOLEAN]
  BY DEF IInv, TypeOK
<1>3. /\ lease' \in [Conns -> [st: {"none", "live", "expired"}, gen: Nat]]
      /\ \A d \in Conns : lease'[d].st = "none" <=> lease[d].st = "none"
  <2>1. CASE ExpireLease(c) BY <1>2, <2>1 DEF ExpireLease
  <2>2. CASE RenewEnd(c) BY <1>2, <2>2 DEF RenewEnd, Has
  <2>3. CASE RenewBegin(c) \/ RenewFails(c) BY <1>2, <2>3 DEF RenewBegin, RenewFails, dbVars
  <2> QED BY <2>1, <2>2, <2>3
<1>4. renewing' \in [Conns -> BOOLEAN]
  BY <1>2 DEF ExpireLease, RenewBegin, RenewEnd, RenewFails, renewalVars
<1>5. \A d \in Conns : Has(d)' = Has(d) BY <1>3 DEF Has
<1>6. TypeOK' BY <1>1, <1>3, <1>4, <1>5 DEF IInv, TypeOK, histVars
<1>7. OneTx' BY <1>1 DEF IInv, OneTx
<1>8. \A d \in Conns : Waits(d)' BY <1>1 DEF IInv, Waits
<1>9. ASSUME NEW d \in Conns PROVE Departs(d)'
  <2>1. Departs(d) /\ tx[d].gone \subseteq Conns BY DEF IInv, TypeOK
  <2> QED BY <1>1, <1>5, <2>1 DEF Departs
<1>10. late \in Nat BY DEF IInv, Counters
<1> QED BY <1>1, <1>5, <1>6, <1>7, <1>8, <1>9, <1>10, RowsAlone DEF histVars

\* A process loses its claim, renews it in time or too late, or takes it under
\* a new generation: the rows of its leases stay.
LEMMA OwnerStep ==
  ASSUME IInv, NEW i \in Instances,
         \/ ExpireOwner(i) \/ HeartbeatBegin(i) \/ HeartbeatEnd(i) \/ HeartbeatFails(i)
         \/ Reclaim(i) \/ Resynchronize(i) \/ ResynchronizeAgain(i)
  PROVE  IInv'
<1>1. UNCHANGED <<place, missed, renewing, room, lease, typing, tx, starting, histVars, late>>
  BY DEF ExpireOwner, HeartbeatBegin, HeartbeatEnd, HeartbeatFails, Reclaim, Resynchronize,
         ResynchronizeAgain, dbVars, renewalVars, boundVars
<1>2. /\ owner \in [Instances -> [gen: Nat, live: BOOLEAN]]
      /\ beating \in [Instances -> BOOLEAN] /\ unsure \in [Instances -> BOOLEAN]
      /\ session \in [Conns -> {"new", "open", "closing", "done"}]
  BY DEF IInv, TypeOK
<1>3. \/ owner' = owner
      \/ owner' = [owner EXCEPT ![i].live = TRUE] \/ owner' = [owner EXCEPT ![i].live = FALSE]
      \/ owner' = [owner EXCEPT ![i] = [gen |-> owner[i].gen + 1, live |-> TRUE]]
  BY DEF ExpireOwner, HeartbeatBegin, HeartbeatEnd, HeartbeatFails, Reclaim, Resynchronize,
         ResynchronizeAgain, NewGeneration, dbVars
<1>4. owner' \in [Instances -> [gen: Nat, live: BOOLEAN]]
  <2>1. CASE owner' = owner BY <1>2, <2>1
  <2>2. CASE owner' = [owner EXCEPT ![i].live = TRUE] BY <1>2, <2>2
  <2>3. CASE owner' = [owner EXCEPT ![i].live = FALSE] BY <1>2, <2>3
  <2>4. CASE owner' = [owner EXCEPT ![i] = [gen |-> owner[i].gen + 1, live |-> TRUE]]
    BY <1>2, <2>4
  <2> QED BY <1>3, <2>1, <2>2, <2>3, <2>4
<1>5. beating' \in [Instances -> BOOLEAN]
  BY <1>2 DEF ExpireOwner, HeartbeatBegin, HeartbeatEnd, HeartbeatFails, Reclaim, Resynchronize,
         ResynchronizeAgain, renewalVars
<1>6. unsure' \in [Instances -> BOOLEAN]
  BY <1>2 DEF ExpireOwner, HeartbeatBegin, HeartbeatEnd, HeartbeatFails, Reclaim, Resynchronize,
         ResynchronizeAgain, renewalVars
<1>7. \/ session' = session
      \/ \E next \in {"closing", "done"} : NewGeneration(i, next)
  BY DEF ExpireOwner, HeartbeatBegin, HeartbeatEnd, HeartbeatFails, Reclaim, Resynchronize,
         ResynchronizeAgain
<1>8. /\ session' \in [Conns -> {"new", "open", "closing", "done"}]
      /\ \A d \in Conns : session[d] # "open" => session'[d] = session[d]
      /\ \A d \in Conns : session'[d] = "new" => session[d] = "new"
  BY <1>2, <1>7 DEF NewGeneration
<1>9. \A d \in Conns : Has(d)' = Has(d) BY <1>1 DEF Has
<1>10. TypeOK' BY <1>1, <1>4, <1>5, <1>6, <1>8, <1>9 DEF IInv, TypeOK, histVars
<1>11. OneTx' BY <1>1 DEF IInv, OneTx
<1>12. \A d \in Conns : Waits(d)' BY <1>1, <1>8 DEF IInv, Waits
<1>13. \A d \in Conns : Departs(d)' BY <1>1 DEF IInv, Departs, Has
<1>14. late \in Nat BY DEF IInv, Counters
<1> QED BY <1>1, <1>8, <1>9, <1>10, <1>11, <1>12, <1>13, <1>14, RowsAlone DEF histVars

\* A room is archived only when no admission holds it; when it is opened again
\* its leases come back, and they never stopped to count here.
LEMMA RoomStateStep ==
  ASSUME IInv, NEW r \in Rooms, Archive(r) \/ Reopen(r) PROVE IInv'
<1>1. /\ UNCHANGED <<place, renewalVars, owner, lease, typing, tx, starting, session, histVars, late>>
      /\ room[r] # "gone" /\ (room[r] = "open" => ~RoomShared(r))
  BY DEF Archive, Reopen, boundVars
<1>2. PICK st \in {"open", "archived"} : room' = [room EXCEPT ![r] = st]
  BY DEF Archive, Reopen
<1>3. room \in [Rooms -> {"open", "archived", "gone"}] /\ place \in [Conns -> Rooms]
  BY ConstantsAssumption DEF IInv, TypeOK
<1>4. /\ room' \in [Rooms -> {"open", "archived", "gone"}]
      /\ room'[r] = st /\ \A q \in Rooms \ {r} : room'[q] = room[q]
  BY <1>2, <1>3
<1>5. TypeOK' BY <1>1, <1>4 DEF IInv, TypeOK, Has, histVars, renewalVars
<1>6. OneTx' BY <1>1 DEF IInv, OneTx
<1>7. \A d \in Conns : Waits(d)' BY <1>1, <1>3, <1>4 DEF IInv, Waits, RoomShared
<1>8. \A d \in Conns : Departs(d)' BY <1>1 DEF IInv, Departs, Has
<1>9. \A d \in Conns : (room'[place[d]] = "gone") = (room[place[d]] = "gone")
  BY <1>1, <1>3, <1>4
<1>10. late \in Nat /\ \A d \in Conns : Has(d)' = Has(d) BY <1>1 DEF IInv, Counters, Has
<1> QED BY <1>1, <1>5, <1>6, <1>7, <1>8, <1>9, <1>10, RowsAlone DEF histVars, renewalVars

\* A room is deleted with its leases and typing states, none of them locked.
LEMMA DeleteRoomStep ==
  ASSUME IInv, NEW r \in Rooms, DeleteRoom(r) PROVE IInv'
<1>1. /\ room[r] = "archived" /\ room' = [room EXCEPT ![r] = "gone"]
      /\ \A d \in Conns : place[d] = r => ~RowLocked(d)
      /\ lease' = [d \in Conns |-> IF place[d] = r THEN NoLease ELSE lease[d]]
      /\ typing' = [d \in Conns |-> IF place[d] = r THEN "none" ELSE typing[d]]
      /\ UNCHANGED <<place, renewalVars, owner, tx, starting, session, histVars, boundVars>>
  BY DEF DeleteRoom
<1>2. /\ room' \in [Rooms -> {"open", "archived", "gone"}]
      /\ room'[r] = "gone" /\ \A q \in Rooms \ {r} : room'[q] = room[q]
      /\ lease' \in [Conns -> [st: {"none", "live", "expired"}, gen: Nat]]
      /\ typing' \in [Conns -> {"none", "on", "expired"}]
      /\ place \in [Conns -> Rooms]
  BY <1>1, ConstantsAssumption DEF IInv, TypeOK, NoLease
<1>3. /\ \A d \in Conns : Has(d)' <=> Has(d) /\ place[d] # r
      /\ \A d \in Conns : place[d] # r => lease'[d] = lease[d] /\ typing'[d] = typing[d]
      /\ \A d \in Conns : typing'[d] # "none" => typing[d] # "none" /\ place[d] # r
  BY <1>1 DEF Has, NoLease
<1>4. TypeOK'
  <2>1. \A d \in Conns : typing'[d] # "none" => Has(d)' BY <1>3 DEF IInv, TypeOK
  <2>2. \A d \in Conns : starting[d] => Has(d)' BY <1>1, <1>3 DEF IInv, TypeOK, RowLocked
  <2> QED BY <1>1, <1>2, <2>1, <2>2 DEF IInv, TypeOK, histVars, renewalVars
<1>5. Counters' /\ OneTx' BY <1>1 DEF IInv, Counters, OneTx, histVars, boundVars
<1>6. \A d \in Conns : Waits(d)' BY <1>1, <1>2 DEF IInv, Waits
<1>7. ASSUME NEW d \in Conns PROVE Departs(d)'
  <2>1. Departs(d) /\ tx[d].gone \subseteq Conns BY DEF IInv, TypeOK
  <2>2. \A e \in tx[d].gone : place[e] # r BY <1>1, <2>1 DEF RowLocked
  <2>3. tx[d].op = "leaving" => place[d] # r BY <1>1 DEF RowLocked
  <2> QED BY <1>1, <1>3, <2>1, <2>2, <2>3 DEF Departs, boundVars
<1>8. ASSUME NEW d \in Conns PROVE Told(d)'
  <2>0. leaves \in [Conns -> Nat] /\ joins \in [Conns -> 0..1] BY DEF IInv, TypeOK
  <2>1. Told(d) /\ leaves[d] \in Nat /\ joins[d] \in Nat BY <2>0 DEF IInv
  <2>2. CASE place[d] = r
    <3>1. room'[place'[d]] = "gone" /\ ~Has(d)' BY <1>1, <1>2, <1>3, <2>2
    <3>2. leaves[d] <= joins[d] BY <2>1 DEF Told
    <3> QED BY <1>1, <2>1, <3>1, <3>2 DEF Told, histVars, boundVars
  <2>3. CASE place[d] # r
    <3>1. room'[place[d]] = room[place[d]] /\ Has(d)' = Has(d)
          /\ lease'[d] = lease[d] /\ typing'[d] = typing[d]
      BY <1>2, <1>3, <2>3 DEF Has
    <3> QED BY <1>1, <2>1, <3>1 DEF Told, histVars, boundVars
  <2> QED BY <2>2, <2>3
<1>11. Caps' BY <1>1, <1>3, CapsShrink DEF renewalVars
<1> QED BY <1>4, <1>5, <1>6, <1>7, <1>8, <1>11 DEF IInv

-----------------------------------------------------------------------------
(* The invariant.                                                          *)

\* Before anybody asks for admission there are no leases.
LEMMA Initial == Init => IInv
<1> SUFFICES ASSUME Init PROVE IInv OBVIOUS
<1>1. TypeOK BY ConstantsAssumption DEF Init, TypeOK, Has, NoLease, NoTx
<1>2. Counters BY DEF Init, Counters
<1>3. OneTx /\ \A c \in Conns : Waits(c) /\ Departs(c) /\ HasPlace(c)
  BY DEF Init, OneTx, Waits, Departs, HasPlace, NoTx
<1>4. \A c \in Conns : Told(c) BY DEF Init, Told, Has, NoLease
<1>5. Held = {} /\ \A r \in Rooms : HeldIn(r) = {}
  BY DEF Init, Held, HeldIn, Has, NoLease
<1>6. Cardinality({}) = 0 BY FS_EmptySet
<1>7. MaxConnections \in Nat /\ MaxPerRoom \in Nat BY ConstantsAssumption
<1>8. Caps BY <1>3, <1>5, <1>6, <1>7 DEF Caps
<1> QED BY <1>1, <1>2, <1>3, <1>4, <1>8 DEF IInv

\* Nothing happens.
LEMMA Stutter == IInv /\ UNCHANGED vars => IInv'
<1> SUFFICES ASSUME IInv, UNCHANGED vars PROVE IInv' OBVIOUS
<1>1. TypeOK' BY DEF IInv, TypeOK, Has, vars, dbVars, histVars, renewalVars
<1>2. OneTx' BY DEF IInv, OneTx, vars
<1>3. \A c \in Conns : Waits(c)' BY DEF IInv, Waits, vars, dbVars
<1>4. \A c \in Conns : Departs(c)' BY DEF IInv, Departs, Has, vars, dbVars, boundVars
<1>5. UNCHANGED <<place, renewalVars, dbVars, histVars, tx, session, late>> BY DEF vars, boundVars
<1>6. \A c \in Conns : Has(c)' = Has(c) BY <1>5 DEF Has, dbVars
<1> QED BY <1>1, <1>2, <1>3, <1>4, <1>5, <1>6, RowsAlone
        DEF IInv, Counters, dbVars, histVars, renewalVars

\* Every statement of an admission, a release, a typing command, the
\* maintenance, an archive or a deletion keeps the invariant.
LEMMA Inductive == IInv /\ [Next]_vars => IInv'
<1> SUFFICES ASSUME IInv, [Next]_vars PROVE IInv' OBVIOUS
<1>1. CASE Reap BY <1>1, ReapStep
<1>2. ASSUME NEW c \in Conns,
             \/ AcquireBegin(c) \/ AcquireFull(c) \/ AcquireCount(c) \/ AcquireEnd(c)
             \/ AcquireFails(c) \/ SessionEnds(c) \/ RenewRefused(c)
             \/ RenewBegin(c) \/ RenewEnd(c) \/ RenewFails(c)
             \/ ReleaseBegin(c) \/ ReleaseEnd(c) \/ ReleaseFails(c)
             \/ StartBegin(c) \/ StartEnd(c) \/ StartFails(c) \/ Stop(c)
             \/ ReapTyping(c) \/ ExpireTyping(c) \/ ExpireLease(c)
      PROVE  IInv'
  BY <1>2, AcquireBeginStep, AcquireStep, AcquireCountStep, FailsStep, SessionStep,
     ReleaseBeginStep, ReleaseEndStep, StartLockStep, TypingStep, LeaseStep
<1>3. ASSUME NEW i \in Instances,
             \/ ExpireOwner(i) \/ HeartbeatBegin(i) \/ HeartbeatEnd(i) \/ HeartbeatFails(i)
             \/ Reclaim(i) \/ Resynchronize(i) \/ ResynchronizeAgain(i)
      PROVE  IInv'
  BY <1>3, OwnerStep
<1>4. ASSUME NEW r \in Rooms, Archive(r) \/ Reopen(r) \/ DeleteRoom(r) PROVE IInv'
  BY <1>4, RoomStateStep, DeleteRoomStep
<1>5. CASE UNCHANGED vars BY <1>5, Stutter
<1> QED BY <1>1, <1>2, <1>3, <1>4, <1>5 DEF Next

\* The inductive invariant holds in every state of admission, release, typing
\* and maintenance.
THEOREM Invariance == Spec => []IInv
BY Initial, Inductive, PTL DEF Spec

\* Rows, transactions and sessions keep their types: a typing state and a
\* typing.start always have their lease, and no connection joins twice.
THEOREM TypeCorrect == Spec => []TypeOK
<1>1. IInv => TypeOK BY DEF IInv
<1> QED BY <1>1, Invariance, PTL

\* try_acquire keeps max_connections_per_room and max_connections, but for leases
\* that it saw dead and that came back, however many processes admit, sweep,
\* renew, archive, reopen and lose their claims at the same time.
THEOREM CapsKept == Spec => []CapsHold
<1>1. IInv => CapsHold
  <2> SUFFICES ASSUME IInv PROVE CapsHold OBVIOUS
  <2>1. MaxConnections \in Nat /\ MaxPerRoom \in Nat BY ConstantsAssumption
  <2>2. /\ Held \in SUBSET Conns /\ LiveConns \ Missed \in SUBSET Held
        /\ \A r \in Rooms : HeldIn(r) \in SUBSET Conns /\ InRoom(r) \ missed[r] \in SUBSET HeldIn(r)
    BY DEF InRoom, LiveConns, Live, Has, HeldIn, Held
  <2>3. /\ Cardinality(Held) <= MaxConnections
        /\ \A r \in Rooms : Cardinality(HeldIn(r)) <= MaxPerRoom
    BY DEF IInv, Caps
  <2> HIDE DEF HeldIn, Held
  <2>4. \A r \in Rooms : Cardinality(InRoom(r) \ missed[r]) <= MaxPerRoom
    BY <2>1, <2>2, <2>3, Fewer
  <2>5. Cardinality(LiveConns \ Missed) <= MaxConnections
    BY <2>1, <2>2, <2>3, Fewer
  <2> QED BY <2>4, <2>5 DEF CapsHold, RoomCapHolds, TotalCapHolds, Missed
<1> QED BY <1>1, Invariance, PTL

\* Whoever deletes a lease row, a release, an admission's sweep or maintenance,
\* tells the room of it exactly once.
THEOREM LeavesToldOnce == Spec => []LeavesOnce
<1>1. IInv => LeavesOnce BY DEF IInv, Told, LeavesOnce
<1> QED BY <1>1, Invariance, PTL

\* As long as no release overtakes a typing.start of its own connection,
\* whatever removes a typing row tells the room of typing.stopped.
THEOREM TypingStopsTold == Spec => []TypingStops
<1>1. IInv => TypingStops BY DEF IInv, Told, TypingStops
<1> QED BY <1>1, Invariance, PTL
=============================================================================
