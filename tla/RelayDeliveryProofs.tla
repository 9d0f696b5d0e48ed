------------------------ MODULE RelayDeliveryProofs ------------------------
(***************************************************************************)
(* What the relay owes its sockets, for any processes, instance ids,       *)
(* sockets, events and bounds: no gap while the claim lasts, no revocation *)
(* that is forgotten or replayed, and a cursor that only follows           *)
(* dispatches.                                                             *)
(***************************************************************************)
EXTENDS RealtimeRelayProofs

----------------------------------------------------------------------------
(* The inductive invariant *)

\* The claim that admitted a socket is still the live one.
Serves(c) ==
    LET i == InstanceOf[home[c]]
    IN  /\ cst[c] \in {"leased", "registered", "live"}
        /\ leaseGen[c] = token[c][1] /\ leaseGen[c] = rowGen[i] /\ rowLive[i]

\* Positions are sequences that committed, what was pruned is below the floor,
\* and a live claim has a generation.
LogKept ==
    /\ \A i \in Instances : rowLive[i] => rowGen[i] # 0
    /\ \A e \in retained : floor < e
    /\ pruning \in committed \cup {0}
    /\ \A c \in Conns : after[c] \in committed \cup {0}
    /\ \A p \in Procs : /\ pos[p] \in committed \cup {0}
                        /\ \A j \in 1..Len(batch[p]) : batch[p][j] \in committed

\* The claim a socket was admitted under is never the one a recovery prepares,
\* and an attached socket was admitted under its relay's present claim.
OldClaim(c) ==
    /\ token[c][1] < nextGen
    /\ \A q \in Procs : recGen[q] # 0 => token[c][1] # recGen[q]
    /\ cst[c] \in {"registered", "live"} =>
          leaseGen[c] = token[c][1] /\ leaseGen[c] = gen[home[c]]

\* A relay is at the durable cursor of its claim or ahead of it.
Caught(p) ==
    LET i == InstanceOf[p]
    IN  (hasCursor[p] /\ gen[p] = rowGen[i]) => rowLast[i] <= pos[p]

\* What its claim has yet to read for a socket is in the log, and no prune
\* transaction is about to delete it.
Unread(c) ==
    Serves(c) => \A e \in committed :
                    (after[c] < e /\ rowLast[InstanceOf[home[c]]] < e)
                        => e \in retained /\ pruning < e

\* A batch leaves out nothing that a socket of its claim still needs.
InHand(c) ==
    LET p == home[c]
    IN  (Serves(c) /\ gen[p] = leaseGen[c] /\ pc[p] = "dispatch") =>
           \A x \in committed, j \in 1..Len(batch[p]) :
              (after[c] < x /\ pos[p] < x /\ x < batch[p][j]) =>
                  \E k \in 1..Len(batch[p]) : batch[p][k] = x

\* What the relay has passed reached the socket.
Sent(c) == (Serves(c) /\ cst[c] = "live") => Complete(c)

Revokes(e, c) ==
    \/ event[e].type = "archived"
    \/ event[e].type = "banned" /\ c \in event[e].to

\* The event that revokes a socket is still to come.
Behind(c) ==
    (Serves(c) /\ cst[c] = "live" /\ (archived \/ c \in banned)) =>
        \E e \in committed : pos[home[c]] < e /\ after[c] < e /\ Revokes(e, c)

Owed == \A c \in Conns : Unread(c) /\ InHand(c) /\ Sent(c) /\ Behind(c)

DInv ==
    /\ IInv /\ GenUnique
    /\ LogKept
    /\ \A c \in Conns : OldClaim(c)
    /\ \A p \in Procs : Caught(p)
    /\ Owed

\* Sequences and positions are numbers.
LEMMA Numbers ==
    ASSUME TypeOK
    PROVE  /\ MaxSeq \in Nat /\ floor \in Nat /\ pruning \in Nat /\ nextSeq \in Nat
           /\ \A e \in committed : e \in Nat /\ e \in Seqs /\ e # 0
           /\ \A i \in Instances : rowLast[i] \in Nat /\ rowGen[i] \in Nat
           /\ \A p \in Procs : /\ pos[p] \in Nat /\ done[p] \in Nat /\ gen[p] \in Nat
                               /\ recGen[p] \in Nat /\ InstanceOf[p] \in Instances
                               /\ Len(batch[p]) \in Nat
                               /\ \A j \in 1..Len(batch[p]) : batch[p][j] \in Nat
           /\ \A c \in Conns : /\ after[c] \in Nat /\ home[c] \in Procs /\ leaseGen[c] \in Nat
                               /\ token[c][1] \in Nat
           /\ nextGen \in Nat
<1>1. MaxSeq \in Nat /\ Seqs \subseteq Nat /\ 0..MaxSeq \subseteq Nat /\ 0 \notin Seqs
  BY ConstantsAssumption DEF Seqs
<1>2. /\ floor \in Nat /\ pruning \in Nat /\ nextSeq \in Nat /\ nextGen \in Nat
      /\ \A e \in committed : e \in Nat /\ e \in Seqs /\ e # 0
  BY <1>1 DEF TypeOK, LogTypes, RowTypes
<1>3. \A i \in Instances : rowLast[i] \in Nat /\ rowGen[i] \in Nat
  BY <1>1 DEF TypeOK, RowTypes
<1>4. ASSUME NEW p \in Procs
      PROVE  /\ pos[p] \in Nat /\ done[p] \in Nat /\ gen[p] \in Nat
             /\ recGen[p] \in Nat /\ InstanceOf[p] \in Instances
             /\ Len(batch[p]) \in Nat
             /\ \A j \in 1..Len(batch[p]) : batch[p][j] \in Nat
  <2>1. batch[p] \in Seq(Seqs) BY DEF TypeOK, RelayTypes
  <2>2. /\ Len(batch[p]) \in Nat /\ \A j \in 1..Len(batch[p]) : batch[p][j] \in Nat
    <3>1. Len(batch[p]) \in Nat /\ \A j \in 1..Len(batch[p]) : batch[p][j] \in Seqs BY <2>1
    <3> QED BY <1>1, <3>1
  <2>3. pos[p] \in 0..MaxSeq /\ done[p] \in 0..MaxSeq BY DEF TypeOK, RelayTypes
  <2>4. gen[p] \in Nat /\ recGen[p] \in Nat BY DEF TypeOK, RelayTypes
  <2> QED BY <1>1, <2>2, <2>3, <2>4, ConstantsAssumption
<1>5. \A c \in Conns : /\ after[c] \in Nat /\ home[c] \in Procs /\ leaseGen[c] \in Nat
                       /\ token[c][1] \in Nat
  BY <1>1 DEF TypeOK, ConnTypes
<1> QED BY <1>1, <1>2, <1>3, <1>4, <1>5

----------------------------------------------------------------------------
(* Steps of a relay *)

\* How a step of p may move a row: not at all (a lease may run out), to a new
\* generation, to the generation of p's recovery, or on to what p has reached.
RowMove(p, i) ==
    \/ rowGen'[i] = rowGen[i] /\ rowLast'[i] = rowLast[i] /\ (rowLive'[i] => rowLive[i])
    \/ nextGen <= rowGen'[i]
    \/ recGen[p] # 0 /\ rowGen'[i] = recGen[p]
    \/ /\ gen[p] # 0 /\ gen[p] = rowGen[i]
       /\ rowGen'[i] = rowGen[i] /\ rowLive'[i] = rowLive[i]
       /\ rowLast[i] <= rowLast'[i] /\ rowLast'[i] <= pos[p]

\* A socket is as it was, or has left.
ConnKept(c) ==
    /\ home'[c] = home[c]
    /\ \/ /\ cst'[c] = cst[c] /\ token'[c] = token[c] /\ leaseGen'[c] = leaseGen[c]
          /\ after'[c] = after[c] /\ snap'[c] = snap[c] /\ got'[c] = got[c]
       \/ /\ cst'[c] = "gone" /\ token'[c] = <<0, 0>> /\ after'[c] = 0

\* A step of p that neither reads a batch nor dispatches from one.
RelayMove(p) ==
    /\ UNCHANGED logVars /\ UNCHANGED roomVars
    /\ \A i \in Instances : RowMove(p, i)
    /\ nextGen <= nextGen'
    /\ recGen'[p] \in {0, recGen[p]} \/ nextGen <= recGen'[p]
    /\ \A q \in Procs \ {p} : /\ gen'[q] = gen[q] /\ recGen'[q] = recGen[q]
                              /\ hasCursor'[q] = hasCursor[q] /\ pos'[q] = pos[q]
                              /\ batch'[q] = batch[q] /\ pc'[q] = pc[q]
    /\ \A c \in Conns : ConnKept(c)
    /\ \A c \in Attached(p)' : pos'[p] = pos[p] /\ gen'[p] = gen[p]
    /\ pc'[p] # "dispatch"
    /\ batch'[p] \in {batch[p], <<>>}
    /\ pos'[p] \in {0, pos[p], rowLast'[InstanceOf[p]]}
    /\ hasCursor'[p] => \/ rowLast'[InstanceOf[p]] <= pos'[p]
                        \/ /\ hasCursor[p] /\ gen'[p] = gen[p] /\ pos'[p] = pos[p]
                           /\ rowGen'[InstanceOf[p]] = rowGen[InstanceOf[p]]
                           /\ rowLast'[InstanceOf[p]] = rowLast[InstanceOf[p]]

\* A claim that serves a socket after such a step did so before.
LEMMA ServedBefore ==
    ASSUME DInv, NEW p \in Procs, \A i \in Instances : RowMove(p, i),
           NEW c \in Conns, Serves(c)',
           home'[c] = home[c], cst'[c] = cst[c], token'[c] = token[c], leaseGen'[c] = leaseGen[c]
    PROVE  /\ Serves(c)
           /\ rowLast[InstanceOf[home[c]]] <= rowLast'[InstanceOf[home[c]]]
<1> DEFINE i == InstanceOf[home[c]]
<1>1. i \in Instances /\ rowLast[i] \in Nat /\ token[c][1] \in Nat /\ nextGen \in Nat
      /\ rowGen[i] \in Nat
  BY Numbers DEF DInv, IInv
<1>2. /\ cst[c] \in {"leased", "registered", "live"}
      /\ leaseGen[c] = token[c][1] /\ leaseGen[c] = rowGen'[i] /\ rowLive'[i]
  BY DEF Serves
<1>3. token[c][1] < nextGen /\ (recGen[p] # 0 => token[c][1] # recGen[p])
  BY DEF DInv, OldClaim
<1>4. rowGen'[i] = rowGen[i] /\ rowLive[i] /\ rowLast[i] <= rowLast'[i]
  BY <1>1, <1>2, <1>3 DEF RowMove
<1> QED BY <1>2, <1>4 DEF Serves

\* The cursor of another process is not moved by a step of p.
LEMMA CaughtElsewhere ==
    ASSUME DInv, NEW p \in Procs, \A i \in Instances : RowMove(p, i),
           NEW q \in Procs, q # p,
           gen'[q] = gen[q], hasCursor'[q] = hasCursor[q], pos'[q] = pos[q]
    PROVE  Caught(q)'
<1> DEFINE i == InstanceOf[q]
<1> SUFFICES ASSUME hasCursor[q], gen[q] = rowGen'[i] PROVE rowLast'[i] <= pos[q]
  BY DEF Caught
<1>1. i \in Instances /\ gen[q] \in Nat /\ nextGen \in Nat BY Numbers DEF DInv, IInv
<1>2. gen[q] # 0 /\ gen[q] < nextGen /\ gen[q] # recGen[p] /\ gen[q] # gen[p]
  BY DEF DInv, GenUnique
<1>3. rowGen'[i] = rowGen[i] /\ rowLast'[i] = rowLast[i] BY <1>1, <1>2 DEF RowMove
<1> QED BY <1>3 DEF DInv, Caught

\* Such a step keeps what the relays owe their sockets.
LEMMA MoveKeeps ==
    ASSUME DInv, IInv', GenUnique', NEW p \in Procs, RelayMove(p)
    PROVE  DInv'
<1>1. /\ UNCHANGED <<open, event, committed, retained, floor, pruning, archived, banned>>
      /\ \A i \in Instances : RowMove(p, i)
      /\ \A c \in Conns : ConnKept(c)
  BY DEF RelayMove, logVars, roomVars
<1>2. \A c \in Conns : home[c] \in Procs /\ home'[c] = home[c]
  BY <1>1, Numbers DEF DInv, IInv, ConnKept
<1>3. LogKept'
  <2>1. \A c \in Conns : after'[c] \in committed \cup {0}
    BY <1>1 DEF ConnKept, DInv, LogKept
  <2>2. ASSUME NEW q \in Procs
        PROVE  /\ pos'[q] \in committed \cup {0}
               /\ \A j \in 1..Len(batch'[q]) : batch'[q][j] \in committed
    <3>1. batch'[q] \in {batch[q], <<>>} BY DEF RelayMove
    <3>2. \A j \in 1..Len(batch'[q]) : batch'[q][j] \in committed
      <4>1. CASE batch'[q] = <<>>
        <5>1. 1..Len(batch'[q]) = {} BY <4>1
        <5> QED BY <5>1
      <4>2. CASE batch'[q] = batch[q] BY <4>2 DEF DInv, LogKept
      <4> QED BY <3>1, <4>1, <4>2
    <3>3. rowLast'[InstanceOf[q]] \in committed \cup {0}
      BY <1>1, Numbers DEF DInv, IInv, LogOrder
    <3>4. pos'[q] \in committed \cup {0} BY <3>3 DEF RelayMove, DInv, LogKept
    <3> QED BY <3>2, <3>4
  <2>3. ASSUME NEW i \in Instances, rowLive'[i] PROVE rowGen'[i] # 0
    <3>1. 1 <= nextGen /\ nextGen \in Nat BY Numbers DEF DInv, IInv, GenUnique
    <3> QED BY <1>1, <2>3, <3>1 DEF RowMove, DInv, LogKept
  <2> QED BY <1>1, <2>1, <2>2, <2>3 DEF DInv, LogKept
<1>4. ASSUME NEW c \in Conns PROVE OldClaim(c)'
  <2>1. OldClaim(c) /\ ConnKept(c) BY <1>1 DEF DInv
  <2>2. /\ nextGen \in Nat /\ nextGen' \in Nat /\ nextGen <= nextGen' /\ token[c][1] \in Nat
        /\ 1 <= nextGen
    BY Numbers DEF DInv, IInv, TypeOK, RowTypes, RelayMove, GenUnique
  <2>3. \A q \in Procs : recGen'[q] \in {0, recGen[q]} \/ nextGen <= recGen'[q]
    BY DEF RelayMove
  <2>4. \A q \in Procs : recGen'[q] \in Nat BY DEF IInv, TypeOK, RelayTypes
  <2>5. CASE cst'[c] = "gone" /\ token'[c] = <<0, 0>>
    <3>1. token'[c][1] = 0 BY <2>5
    <3>2. \A q \in Procs : recGen'[q] # 0 => 0 # recGen'[q] OBVIOUS
    <3> QED BY <2>2, <2>5, <3>1, <3>2 DEF OldClaim
  <2>6. CASE cst'[c] = cst[c] /\ token'[c] = token[c] /\ leaseGen'[c] = leaseGen[c]
    <3>1. token'[c][1] < nextGen' BY <2>1, <2>2, <2>6 DEF OldClaim
    <3>2. \A q \in Procs : recGen'[q] # 0 => token[c][1] # recGen'[q]
      BY <2>1, <2>2, <2>3, <2>4 DEF OldClaim
    <3>3. cst[c] \in {"registered", "live"} => gen'[home[c]] = gen[home[c]]
      BY <1>2, <2>6 DEF RelayMove, Attached
    <3> QED BY <1>2, <2>1, <2>6, <3>1, <3>2, <3>3 DEF OldClaim
  <2> QED BY <2>1, <2>5, <2>6 DEF ConnKept
<1>5. ASSUME NEW q \in Procs PROVE Caught(q)'
  <2>1. CASE q = p
    <3>1. CASE rowLast'[InstanceOf[p]] <= pos'[p] BY <2>1, <3>1 DEF Caught
    <3>2. CASE ~(rowLast'[InstanceOf[p]] <= pos'[p]) BY <2>1, <3>2 DEF Caught, DInv, RelayMove
    <3> QED BY <3>1, <3>2
  <2>2. CASE q # p BY <1>1, <2>2, CaughtElsewhere DEF RelayMove
  <2> QED BY <2>1, <2>2
<1>6. ASSUME NEW c \in Conns, Serves(c)'
      PROVE  /\ Serves(c) /\ cst'[c] = cst[c]
             /\ rowLast[InstanceOf[home[c]]] <= rowLast'[InstanceOf[home[c]]]
             /\ UNCHANGED <<token[c], leaseGen[c], after[c], snap[c], got[c]>>
  <2>1. cst'[c] # "gone" BY <1>6 DEF Serves
  <2>2. /\ cst'[c] = cst[c] /\ token'[c] = token[c] /\ leaseGen'[c] = leaseGen[c]
        /\ after'[c] = after[c] /\ snap'[c] = snap[c] /\ got'[c] = got[c]
    BY <1>1, <2>1 DEF ConnKept
  <2> QED BY <1>1, <1>2, <1>6, <2>2, ServedBefore
<1>7. ASSUME NEW c \in Conns PROVE Unread(c)'
  <2> SUFFICES ASSUME Serves(c)', NEW e \in committed, after'[c] < e,
                      rowLast'[InstanceOf[home[c]]] < e
               PROVE  e \in retained /\ pruning < e
    BY <1>1, <1>2 DEF Unread
  <2>1. Serves(c) /\ after[c] < e BY <1>6
  <2>2. /\ rowLast[InstanceOf[home[c]]] \in Nat /\ e \in Nat
        /\ rowLast'[InstanceOf[home[c]]] \in Nat
    BY <1>2, Numbers, ConstantsAssumption, SMTT(30) DEF DInv, IInv, TypeOK, RowTypes
  <2>3. rowLast[InstanceOf[home[c]]] < e BY <1>6, <2>2
  <2> QED BY <2>1, <2>3 DEF DInv, Owed, Unread
<1>8. ASSUME NEW c \in Conns PROVE InHand(c)'
  <2> DEFINE q == home[c]
  <2>1. CASE pc'[q] # "dispatch" BY <1>2, <2>1 DEF InHand
  <2>2. CASE pc'[q] = "dispatch"
    <3>1. q \in Procs \ {p} BY <1>2, <2>2 DEF RelayMove
    <3>2. gen'[q] = gen[q] /\ pc'[q] = pc[q] /\ batch'[q] = batch[q] /\ pos'[q] = pos[q]
      BY <3>1 DEF RelayMove
    <3>3. InHand(c) BY DEF DInv, Owed
    <3> QED BY <1>1, <1>2, <1>6, <3>2, <3>3 DEF InHand
  <2> QED BY <2>1, <2>2
<1>9. ASSUME NEW c \in Conns, cst'[c] = "live" PROVE pos'[home[c]] = pos[home[c]]
  BY <1>2, <1>9 DEF RelayMove, Attached
<1>10. ASSUME NEW c \in Conns PROVE Sent(c)'
  <2> SUFFICES ASSUME Serves(c)', cst'[c] = "live" PROVE Complete(c)' BY DEF Sent
  <2>1. Complete(c) BY <1>6 DEF DInv, Owed, Sent
  <2> QED BY <1>1, <1>2, <1>6, <1>9, <2>1 DEF Complete, Concerns
<1>11. ASSUME NEW c \in Conns PROVE Behind(c)'
  <2> SUFFICES ASSUME Serves(c)', cst'[c] = "live", archived \/ c \in banned
               PROVE  \E e \in committed : pos'[home[c]] < e /\ after'[c] < e /\ Revokes(e, c)'
    BY <1>1, <1>2 DEF Behind
  <2>1. \E e \in committed : pos[home[c]] < e /\ after[c] < e /\ Revokes(e, c)
    BY <1>6 DEF DInv, Owed, Behind
  <2> QED BY <1>1, <1>6, <1>9, <2>1 DEF Revokes
<1> QED BY <1>3, <1>4, <1>5, <1>7, <1>8, <1>10, <1>11 DEF DInv, Owed

\* A row that nobody touches has not moved.
LEMMA RowsStay ==
    ASSUME DInv, NEW p \in Procs, UNCHANGED rowVars
    PROVE  (\A i \in Instances : RowMove(p, i)) /\ nextGen <= nextGen'
<1>1. nextGen \in Nat BY Numbers DEF DInv, IInv
<1> QED BY <1>1 DEF RowMove, rowVars

\* claim_instance renews a live row as it is, or gives it a new generation.
LEMMA ClaimMoves ==
    ASSUME DInv, NEW p \in Procs, ClaimRow(p)
    PROVE  /\ \A i \in Instances : RowMove(p, i)
           /\ nextGen <= nextGen'
           /\ rowLast'[InstanceOf[p]] = ClaimedLast(p)
<1> DEFINE i == InstanceOf[p]
<1>1. /\ nextGen \in Nat /\ i \in Instances
      /\ rowGen \in [Instances -> Nat] /\ rowLive \in [Instances -> BOOLEAN]
      /\ rowLast \in [Instances -> 0..MaxSeq]
  BY Numbers DEF DInv, IInv, TypeOK, RowTypes
<1>2. /\ rowGen' = [rowGen EXCEPT ![i] = ClaimedGen(p)]
      /\ rowLast' = [rowLast EXCEPT ![i] = ClaimedLast(p)]
      /\ rowLive' = [rowLive EXCEPT ![i] = TRUE]
      /\ nextGen' = IF ClaimedGen(p) = nextGen THEN nextGen + 1 ELSE nextGen
  BY DEF ClaimRow
<1>3. RowMove(p, i)
  <2>1. CASE rowGen[i] # 0 /\ rowLive[i]
    BY <1>1, <1>2, <2>1 DEF RowMove, ClaimedGen, ClaimedLast
  <2>2. CASE ~(rowGen[i] # 0 /\ rowLive[i])
    <3>1. ClaimedGen(p) = nextGen BY <2>2 DEF ClaimedGen
    <3>2. rowGen'[i] = nextGen BY <1>1, <1>2, <3>1
    <3>3. nextGen <= nextGen BY <1>1
    <3> QED BY <3>2, <3>3 DEF RowMove
  <2> QED BY <2>1, <2>2
<1>4. \A j \in Instances \ {i} : RowMove(p, j) BY <1>1, <1>2 DEF RowMove
<1> QED BY <1>1, <1>2, <1>3, <1>4

\* resynchronize_claimed_instance gives a row the generation of the recovery.
LEMMA ResyncMoves ==
    ASSUME DInv, NEW p \in Procs,
           ResyncRow(p, IF recGen[p] = 0 THEN nextGen ELSE recGen[p])
    PROVE  \A i \in Instances : RowMove(p, i)
<1> DEFINE i == InstanceOf[p]
           r == IF recGen[p] = 0 THEN nextGen ELSE recGen[p]
<1>1. /\ nextGen \in Nat /\ recGen[p] \in Nat /\ i \in Instances
      /\ rowGen \in [Instances -> Nat] /\ rowLive \in [Instances -> BOOLEAN]
      /\ rowLast \in [Instances -> 0..MaxSeq]
  BY Numbers DEF DInv, IInv, TypeOK, RowTypes
<1>2. /\ rowGen' = [rowGen EXCEPT ![i] = r]
      /\ rowLast' = [rowLast EXCEPT ![i] = IF rowGen[i] = r THEN rowLast[i] ELSE LogHead]
      /\ rowLive' = [rowLive EXCEPT ![i] = TRUE]
  BY DEF ResyncRow
<1>3. RowMove(p, i)
  <2>1. rowGen'[i] = r BY <1>1, <1>2
  <2>2. nextGen <= nextGen BY <1>1
  <2> QED BY <2>1, <2>2 DEF RowMove
<1>4. \A j \in Instances \ {i} : RowMove(p, j) BY <1>1, <1>2 DEF RowMove
<1> QED BY <1>3, <1>4

\* acknowledge_events moves a row to what its owner has dispatched.
LEMMA AckMoves ==
    ASSUME DInv, NEW p \in Procs, AckRow(p)
    PROVE  /\ \A i \in Instances : RowMove(p, i)
           /\ nextGen <= nextGen'
           /\ hasCursor[p] => rowLast'[InstanceOf[p]] <= pos[p]
<1> DEFINE i == InstanceOf[p]
<1>1. /\ nextGen \in Nat /\ i \in Instances /\ rowLast \in [Instances -> 0..MaxSeq]
      /\ rowLast[i] \in Nat /\ done[p] \in Nat /\ pos[p] \in Nat
  BY Numbers DEF DInv, IInv, TypeOK, RowTypes
<1>2. /\ gen[p] # 0 /\ gen[p] = rowGen[i]
      /\ rowLast' = [rowLast EXCEPT ![i] = IF done[p] > rowLast[i] THEN done[p] ELSE rowLast[i]]
      /\ UNCHANGED <<rowGen, rowLive, nextGen>>
  BY DEF AckRow, Owns
<1>3. done[p] # 0 => done[p] = pos[p] BY DEF DInv, IInv, Position, PositionAt
<1>4. RowMove(p, i) BY <1>1, <1>2, <1>3 DEF RowMove
<1>5. \A j \in Instances \ {i} : RowMove(p, j) BY <1>1, <1>2 DEF RowMove
<1>6. hasCursor[p] => rowLast'[i] <= pos[p] BY <1>1, <1>2, <1>3 DEF DInv, Caught
<1> QED BY <1>1, <1>2, <1>4, <1>5, <1>6

\* An except branch of the loop drops the cursor and the batch, nothing else.
LEMMA RaiseMove ==
    ASSUME DInv, NEW p \in Procs, NEW error, Raise(p, error),
           UNCHANGED <<logVars, roomVars, connVars>>,
           \A i \in Instances : RowMove(p, i), nextGen <= nextGen'
    PROVE  RelayMove(p)
<1>1. /\ hasCursor' = [hasCursor EXCEPT ![p] = FALSE]
      /\ recGen' = [recGen EXCEPT ![p] = IF error = "lease" THEN 0 ELSE recGen[p]]
      /\ batch' = [batch EXCEPT ![p] = <<>>]
      /\ UNCHANGED <<gen, pos>>
      /\ pc' = [pc EXCEPT ![p] = "loop"] \/ pc' = [pc EXCEPT ![p] = "fencing"]
  BY DEF Raise, EnterFence
<1>2. RelayTypes BY DEF DInv, IInv, TypeOK
<1>3. /\ pc'[p] # "dispatch" /\ \A q \in Procs \ {p} : pc'[q] = pc[q]
  BY <1>1, <1>2 DEF RelayTypes
<1>4. /\ hasCursor'[p] = FALSE /\ recGen'[p] \in {0, recGen[p]} /\ batch'[p] = <<>>
      /\ \A q \in Procs \ {p} : /\ recGen'[q] = recGen[q] /\ hasCursor'[q] = hasCursor[q]
                                /\ batch'[q] = batch[q]
  BY <1>1, <1>2 DEF RelayTypes
<1>5. \A c \in Conns : ConnKept(c) BY DEF ConnKept, connVars
<1> QED BY <1>1, <1>3, <1>4, <1>5 DEF RelayMove

\* A process that adopts a cursor starts at it, with no sockets.
LEMMA AdoptMove ==
    ASSUME DInv, NEW p \in Procs, NEW g, NEW last, Adopt(p, g, last),
           UNCHANGED <<logVars, roomVars, connVars>>,
           \A i \in Instances : RowMove(p, i), nextGen <= nextGen',
           last = rowLast'[InstanceOf[p]], last \in Nat, Attached(p) = {},
           recGen' = recGen \/ recGen' = [recGen EXCEPT ![p] = 0]
    PROVE  RelayMove(p)
<1>1. RelayTypes BY DEF DInv, IInv, TypeOK
<1>2. /\ \A q \in Procs \ {p} : /\ gen'[q] = gen[q] /\ recGen'[q] = recGen[q]
                                /\ hasCursor'[q] = hasCursor[q] /\ pos'[q] = pos[q]
                                /\ batch'[q] = batch[q] /\ pc'[q] = pc[q]
      /\ recGen'[p] \in {0, recGen[p]} /\ pc'[p] = "loop"
      /\ batch'[p] = batch[p] /\ pos'[p] = last
  BY <1>1 DEF Adopt, RelayTypes
<1>3. \A c \in Conns : ConnKept(c) BY DEF ConnKept, connVars
<1>4. Attached(p)' = {} BY DEF Attached, connVars
<1>5. last <= last OBVIOUS
<1> QED BY <1>2, <1>3, <1>4, <1>5 DEF RelayMove

\* PostgresRuntime.open and a claim after an interruption.
LEMMA ClaimIsMove ==
    ASSUME DInv, NEW p \in Procs, Start(p) \/ Claim(p)
    PROVE  RelayMove(p)
<1>1. UNCHANGED <<logVars, roomVars, connVars>> BY DEF Start, Claim
<1>2. Attached(p) = {}
  <2>1. CASE Start(p) BY <2>1 DEF Start, DInv, IInv, Fencing, FencingAt
  <2>2. CASE Claim(p) BY <2>2, WorkingIsFenced DEF Claim, DInv
  <2> QED BY <2>1, <2>2
<1>3. CASE ClaimRow(p) /\ Adopt(p, ClaimedGen(p), ClaimedLast(p)) /\ UNCHANGED recGen
  <2>1. ClaimedLast(p) \in Nat
    <3>1. UNCHANGED committed BY <1>1 DEF logVars
    <3>2. ClaimedLast(p) \in 0..MaxSeq BY <1>3, <3>1, ClaimRowFacts DEF DInv, IInv
    <3> QED BY <3>2, ConstantsAssumption
  <2> QED BY <1>1, <1>2, <1>3, <2>1, ClaimMoves, AdoptMove
<1>4. CASE Start(p) /\ ClaimRow(p) /\ UNCHANGED relayVars
  <2>1. \A c \in Conns : ConnKept(c) BY <1>1 DEF ConnKept, connVars
  <2>2. Attached(p)' = {} BY <1>1, <1>2 DEF Attached, connVars
  <2>3. pc[p] = "idle" /\ ~hasCursor[p]
    BY <1>4 DEF Start, DInv, IInv, TypeOK, RelayTypes, Fencing, FencingAt
  <2> QED BY <1>1, <1>4, <2>1, <2>2, <2>3, ClaimMoves DEF RelayMove, relayVars
<1>5. CASE ClaimRow(p) /\ Raise(p, "database") BY <1>1, <1>5, ClaimMoves, RaiseMove
<1>6. CASE Raise(p, "lease") /\ UNCHANGED rowVars BY <1>1, <1>6, RowsStay, RaiseMove
<1> QED BY <1>3, <1>4, <1>5, <1>6 DEF Start, Claim

\* A recovery, whether its answer arrives or not.
LEMMA ResyncIsMove ==
    ASSUME DInv, NEW p \in Procs, Resync(p)
    PROVE  RelayMove(p)
<1> DEFINE r == IF recGen[p] = 0 THEN nextGen ELSE recGen[p]
           i == InstanceOf[p]
<1>1. /\ UNCHANGED <<logVars, roomVars, connVars>> /\ Working(p) /\ recover[p]
      /\ nextGen' = IF recGen[p] = 0 THEN nextGen + 1 ELSE nextGen
  BY DEF Resync
<1>2. Attached(p) = {} BY <1>1, WorkingIsFenced DEF DInv
<1>3. nextGen \in Nat /\ nextGen' \in Nat /\ nextGen <= nextGen' /\ r \in Nat
  BY <1>1, Numbers DEF DInv, IInv
<1>4. CASE /\ ResyncRow(p, r) /\ Adopt(p, r, rowLast'[i])
           /\ recGen' = [recGen EXCEPT ![p] = 0]
  <2>1. rowLast'[i] \in Nat
    <3>1. UNCHANGED committed BY <1>1 DEF logVars
    <3>2. rowLast'[i] \in 0..MaxSeq BY <1>3, <1>4, <3>1, ResyncRowFacts DEF DInv, IInv
    <3> QED BY <3>2, ConstantsAssumption
  <2> QED BY <1>1, <1>2, <1>3, <1>4, <2>1, ResyncMoves, AdoptMove
<1>5. CASE /\ ResyncRow(p, r) \/ UNCHANGED <<rowGen, rowLast, rowLive>>
           /\ recGen' = [recGen EXCEPT ![p] = r]
           /\ UNCHANGED <<pc, gen, hasCursor, batch, pos>>
  <2>1. \A j \in Instances : RowMove(p, j)
    <3>1. CASE ResyncRow(p, r) BY <3>1, ResyncMoves
    <3>2. CASE UNCHANGED <<rowGen, rowLast, rowLive>> BY <3>2 DEF RowMove
    <3> QED BY <1>5, <3>1, <3>2
  <2>2. \A c \in Conns : ConnKept(c) BY <1>1 DEF ConnKept, connVars
  <2>3. Attached(p)' = {} BY <1>1, <1>2 DEF Attached, connVars
  <2>4. pc[p] = "loop" /\ ~hasCursor[p]
    BY <1>1 DEF Working, DInv, IInv, TypeOK, RelayTypes, Fencing, FencingAt
  <2>5. /\ recGen'[p] \in {0, recGen[p]} \/ nextGen <= recGen'[p]
        /\ \A q \in Procs \ {p} : recGen'[q] = recGen[q]
    BY <1>3, <1>5 DEF DInv, IInv, TypeOK, RelayTypes
  <2> QED BY <1>1, <1>3, <1>5, <2>1, <2>2, <2>3, <2>4, <2>5 DEF RelayMove
<1>6. CASE Raise(p, "lease") /\ UNCHANGED <<rowGen, rowLast, rowLive>>
  <2>1. \A j \in Instances : RowMove(p, j) BY <1>6 DEF RowMove
  <2> QED BY <1>1, <1>3, <1>6, <2>1, RaiseMove
<1> QED BY <1>4, <1>5, <1>6 DEF Resync

\* _fence, before and after close_all.
LEMMA FenceIsMove ==
    ASSUME DInv, NEW p \in Procs, FenceAgain(p) \/ FenceClose(p)
    PROVE  RelayMove(p)
<1>1. /\ UNCHANGED <<logVars, roomVars, gen, recGen, hasCursor, batch, pos>>
      /\ UNCHANGED rowVars
      /\ pc[p] \in {"loop", "fencing"}
  BY DEF FenceAgain, FenceClose, NeedsFence
<1>2. ~hasCursor[p]
  BY DEF FenceAgain, FenceClose, NeedsFence, DInv, IInv, TypeOK, RelayTypes, Fencing, FencingAt
<1>3. pc' = [pc EXCEPT ![p] = "loop"] \/ pc' = [pc EXCEPT ![p] = "fencing"]
  BY DEF FenceAgain, FenceClose, EnterFence
<1>4. /\ pc'[p] # "dispatch" /\ \A q \in Procs \ {p} : pc'[q] = pc[q]
  BY <1>3 DEF DInv, IInv, TypeOK, RelayTypes
<1>5. \A c \in Conns : ConnKept(c)
  BY ZenonT(30) DEF FenceAgain, FenceClose, ConnKept, Detach, connVars, DInv, IInv, TypeOK, ConnTypes
<1> QED BY <1>1, <1>2, <1>4, <1>5, RowsStay DEF RelayMove

\* The calls of the loop that fail or only read.
LEMMA ErrorIsMove ==
    ASSUME DInv, NEW p \in Procs, LeaseLost(p) \/ DatabaseError(p) \/ ReadCheck(p)
    PROVE  RelayMove(p)
<1>1. UNCHANGED <<logVars, roomVars, connVars>> /\ UNCHANGED rowVars
  BY DEF LeaseLost, DatabaseError, ReadCheck
<1>2. CASE \E error : Raise(p, error) BY <1>1, <1>2, RowsStay, RaiseMove
<1>3. CASE /\ pc' = [pc EXCEPT ![p] = "select"] /\ hasCursor[p]
           /\ UNCHANGED <<gen, recGen, hasCursor, batch, pos>>
  <2>1. /\ pc'[p] # "dispatch" /\ \A q \in Procs \ {p} : pc'[q] = pc[q]
    BY <1>3 DEF DInv, IInv, TypeOK, RelayTypes
  <2>2. \A c \in Conns : ConnKept(c) BY <1>1 DEF ConnKept, connVars
  <2> QED BY <1>1, <1>3, <2>1, <2>2, RowsStay DEF RelayMove, rowVars
<1> QED BY <1>2, <1>3 DEF LeaseLost, DatabaseError, ReadCheck

\* A dispatch that raises, and the acknowledgement.
LEMMA AckIsMove ==
    ASSUME DInv, NEW p \in Procs, DispatchError(p) \/ Ack(p)
    PROVE  RelayMove(p)
<1>1. UNCHANGED <<logVars, roomVars, connVars>> /\ \A c \in Conns : ConnKept(c)
  BY DEF DispatchError, Ack, ConnKept, connVars
<1>2. hasCursor[p] BY DEF DispatchError, Ack, DInv, IInv, Fencing, FencingAt
<1>3. CASE DispatchError(p)
  <2>1. /\ UNCHANGED rowVars /\ UNCHANGED <<gen, recGen, hasCursor, pos>>
        /\ batch' = [batch EXCEPT ![p] = <<>>]
        /\ pc' = [pc EXCEPT ![p] = IF done[p] = 0 THEN "loop" ELSE "ack"]
    BY <1>3 DEF DispatchError
  <2>2. /\ pc'[p] # "dispatch" /\ batch'[p] = <<>>
        /\ \A q \in Procs \ {p} : pc'[q] = pc[q] /\ batch'[q] = batch[q]
    BY <2>1 DEF DInv, IInv, TypeOK, RelayTypes
  <2> QED BY <1>1, <1>2, <2>1, <2>2, RowsStay DEF RelayMove, rowVars
<1>4. CASE /\ AckRow(p) /\ pc' = [pc EXCEPT ![p] = "loop"]
           /\ UNCHANGED <<gen, recGen, hasCursor, batch, pos>>
  <2>1. /\ pc'[p] # "dispatch" /\ \A q \in Procs \ {p} : pc'[q] = pc[q]
    BY <1>4 DEF DInv, IInv, TypeOK, RelayTypes
  <2> QED BY <1>1, <1>2, <1>4, <2>1, AckMoves DEF RelayMove
<1>5. CASE AckRow(p) /\ Raise(p, "database") BY <1>1, <1>5, AckMoves, RaiseMove
<1>6. CASE Raise(p, "lease") /\ UNCHANGED rowVars BY <1>1, <1>6, RowsStay, RaiseMove
<1> QED BY <1>3, <1>4, <1>5, <1>6 DEF Ack

\* A process that ends.
LEMMA StopIsMove ==
    ASSUME DInv, NEW p \in Procs, NEW releases \in BOOLEAN, Stop(p, releases)
    PROVE  RelayMove(p)
<1> DEFINE leaving == {c \in Conns : home[c] = p /\ cst[c] # "new"}
<1>1. /\ UNCHANGED <<logVars, roomVars, rowGen, rowLast, nextGen>> /\ Detach(leaving, got)
      /\ pc' = [pc EXCEPT ![p] = "idle"] /\ gen' = [gen EXCEPT ![p] = 0]
      /\ recGen' = [recGen EXCEPT ![p] = 0]
      /\ hasCursor' = [hasCursor EXCEPT ![p] = FALSE]
      /\ batch' = [batch EXCEPT ![p] = <<>>] /\ pos' = [pos EXCEPT ![p] = 0]
  BY DEF Stop
<1>2. \A i \in Instances : rowLive'[i] => rowLive[i]
  <2>1. \/ rowLive' = [rowLive EXCEPT ![InstanceOf[p]] = FALSE]
        \/ rowLive' = [rowLive EXCEPT ![InstanceOf[p]] = rowLive[InstanceOf[p]]]
    BY DEF Stop
  <2> QED BY <2>1 DEF DInv, IInv, TypeOK, RowTypes
<1>3. (\A i \in Instances : RowMove(p, i)) /\ nextGen <= nextGen'
  <2>1. nextGen \in Nat BY Numbers DEF DInv, IInv
  <2> QED BY <1>1, <1>2, <2>1 DEF RowMove
<1>4. /\ pc'[p] = "idle" /\ recGen'[p] = 0 /\ batch'[p] = <<>> /\ pos'[p] = 0 /\ ~hasCursor'[p]
      /\ \A q \in Procs \ {p} : /\ gen'[q] = gen[q] /\ recGen'[q] = recGen[q]
                                /\ pos'[q] = pos[q]
                                /\ batch'[q] = batch[q] /\ pc'[q] = pc[q]
  BY <1>1 DEF DInv, IInv, TypeOK, RelayTypes
<1>5. \A q \in Procs \ {p} : hasCursor'[q] = hasCursor[q]
  BY <1>1 DEF DInv, IInv, TypeOK, RelayTypes
<1>6. \A c \in Conns : ConnKept(c) BY <1>1 DEF ConnKept, Detach
<1>7. Attached(p)' = {} BY <1>1 DEF Detach, Attached
<1> QED BY <1>1, <1>3, <1>4, <1>5, <1>6, <1>7 DEF RelayMove

----------------------------------------------------------------------------
(* Reading a batch and dispatching from it *)

\* A batch is what the log still has beyond the durable cursor: nothing of it
\* was pruned while the claim lasted.
LEMMA SelectKeeps ==
    ASSUME DInv, IInv', GenUnique', NEW p \in Procs, ReadSelect(p)
    PROVE  DInv'
<1> DEFINE i == InstanceOf[p]
<1>1. /\ UNCHANGED <<logVars, roomVars, rowVars, connVars, gen, recGen, hasCursor, done, pos>>
      /\ pc[p] = "select"
  BY DEF ReadSelect
<1>2. PICK b \in Batches :
         /\ IsBatch(p, b) /\ batch' = [batch EXCEPT ![p] = b]
         /\ pc' = [pc EXCEPT ![p] = IF b = <<>> THEN "loop" ELSE "dispatch"]
  BY DEF ReadSelect
<1>3. /\ batch'[p] = b
      /\ \A q \in Procs \ {p} : batch'[q] = batch[q] /\ pc'[q] = pc[q]
  BY <1>2 DEF DInv, IInv, TypeOK, RelayTypes
<1>4. /\ i \in Instances /\ rowLast[i] \in Nat /\ pos[p] \in Nat
      /\ \A e \in committed : e \in Nat /\ e # 0
      /\ retained \subseteq committed
  BY Numbers DEF DInv, IInv, TypeOK, LogTypes
<1>5. \A j \in 1..Len(b) : b[j] \in retained /\ b[j] > rowLast[i]
  BY <1>2 DEF IsBatch, Pending
<1>6. LogKept'
  <2>1. \A j \in 1..Len(b) : b[j] \in committed BY <1>4, <1>5
  <2>2. \A q \in Procs : \A j \in 1..Len(batch'[q]) : batch'[q][j] \in committed
    BY <1>3, <2>1 DEF DInv, LogKept
  <2> QED BY <1>1, <2>2 DEF DInv, LogKept, logVars, rowVars, connVars
<1>7. ASSUME NEW c \in Conns PROVE OldClaim(c)'
  BY <1>1 DEF DInv, OldClaim, rowVars, connVars
<1>8. ASSUME NEW q \in Procs PROVE Caught(q)'
  BY <1>1 DEF DInv, Caught, rowVars
<1>9. ASSUME NEW c \in Conns
      PROVE  /\ Serves(c)' <=> Serves(c)
             /\ Unread(c)' /\ Sent(c)' /\ Behind(c)'
  <2>1. Serves(c)' <=> Serves(c) BY <1>1 DEF Serves, rowVars, connVars
  <2>2. Unread(c)' BY <1>1, <2>1 DEF DInv, Owed, Unread, logVars, rowVars, connVars
  <2>3. Sent(c)'
    BY <1>1, <2>1 DEF DInv, Owed, Sent, Complete, Concerns, logVars, connVars
  <2>4. Behind(c)'
    BY <1>1, <2>1 DEF DInv, Owed, Behind, Revokes, logVars, roomVars, connVars
  <2> QED BY <2>1, <2>2, <2>3, <2>4
<1>10. ASSUME NEW c \in Conns PROVE InHand(c)'
  <2>1. home'[c] = home[c] /\ home[c] \in Procs /\ after[c] \in Nat
    BY <1>1, Numbers DEF connVars, DInv, IInv
  <2>2. CASE home[c] # p
    <3>1. InHand(c) BY DEF DInv, Owed
    <3> QED BY <1>1, <1>3, <1>9, <2>1, <2>2, <3>1 DEF InHand, logVars, connVars
  <2>3. CASE home[c] = p
    <3> SUFFICES ASSUME Serves(c), gen[p] = leaseGen[c],
                        NEW x \in committed, NEW j \in 1..Len(b),
                        after[c] < x, pos[p] < x, x < b[j]
                 PROVE  \E k \in 1..Len(b) : b[k] = x
      BY <1>1, <1>3, <1>9, <2>1, <2>3 DEF InHand, logVars, connVars
    <3>1. hasCursor[p] BY <1>1 DEF DInv, IInv, Fencing, FencingAt
    <3>2. rowLast[i] <= pos[p]
      BY <2>3, <3>1 DEF Serves, DInv, Caught
    <3>3. rowLast[i] < x BY <1>4, <3>2
    <3>4. x \in Pending(p) BY <2>3, <3>3, <1>4 DEF DInv, Owed, Unread, Pending
    <3>5. \/ \E k \in 1..Len(b) : b[k] = x
          \/ Len(b) = BatchSize /\ b[Len(b)] < x
      BY <1>2, <3>4 DEF IsBatch
    <3>6. ASSUME Len(b) = BatchSize, b[Len(b)] < x PROVE FALSE
      <4>1. Len(b) \in Nat /\ Len(b) >= 1 BY <3>6, ConstantsAssumption
      <4>2. j = Len(b) \/ b[j] < b[Len(b)] BY <1>2, <4>1 DEF IsBatch
      <4>3. b[j] \in Nat /\ b[Len(b)] \in Nat /\ x \in Nat BY <1>4, <1>5, <4>1
      <4> QED BY <3>6, <4>2, <4>3
    <3> QED BY <3>5, <3>6
  <2> QED BY <2>2, <2>3
<1> QED BY <1>6, <1>7, <1>8, <1>9, <1>10 DEF DInv, Owed

\* Dispatching the head of the batch reaches everybody it concerns, and there
\* is nothing before it that a socket of the claim still needs.
LEMMA DispatchKeeps ==
    ASSUME DInv, IInv', GenUnique', NEW p \in Procs, Dispatch(p)
    PROVE  DInv'
<1> DEFINE b == batch[p]
           e == Head(b)
           received == [c \in Conns |-> IF c \in Receivers(p, e) THEN Append(got[c], e) ELSE got[c]]
<1>1. /\ UNCHANGED <<logVars, roomVars, rowVars, gen, recGen, hasCursor, home>>
      /\ pc[p] = "dispatch" /\ Detach(Revoked(p, e), received)
      /\ pos' = [pos EXCEPT ![p] = e] /\ batch' = [batch EXCEPT ![p] = Tail(b)]
      /\ pc' = [pc EXCEPT ![p] = IF Len(b) = 1 THEN "ack" ELSE "dispatch"]
  BY DEF Dispatch, Detach
<1>2. RelayTypes BY DEF DInv, IInv, TypeOK
<1>3. /\ pos'[p] = e /\ batch'[p] = Tail(b)
      /\ \A q \in Procs \ {p} : pos'[q] = pos[q] /\ batch'[q] = batch[q] /\ pc'[q] = pc[q]
  BY <1>1, <1>2 DEF RelayTypes
<1>4. /\ b \in Seq(Seqs) /\ Len(b) \in Nat /\ Len(b) >= 1 /\ e = b[1] /\ e \in Seqs
  BY <1>1, <1>2 DEF RelayTypes
<1>5. /\ Len(Tail(b)) = Len(b) - 1
      /\ \A j \in 1..Len(Tail(b)) : Tail(b)[j] = b[j + 1] /\ j + 1 \in 1..Len(b)
  BY <1>4
<1>6. /\ \A j, k \in 1..Len(b) : j < k => b[j] < b[k]
      /\ \A j \in 1..Len(b) : pos[p] < b[j] /\ b[j] \in committed
  BY <1>1 DEF DInv, LogKept, IInv, Position, PositionAt
<1>7. /\ \A x \in committed : x \in Nat
      /\ pos[p] \in Nat /\ e \in committed /\ e \in Nat /\ pos[p] < e
      /\ \A i \in Instances : rowLast[i] \in Nat
      /\ \A c \in Conns : home[c] \in Procs /\ after[c] \in Nat
      /\ \A q \in Procs : InstanceOf[q] \in Instances
  BY <1>4, <1>6, Numbers DEF DInv, IInv
<1>8. ASSUME NEW c \in Conns
      PROVE  \/ cst'[c] = "gone" /\ token'[c] = <<0, 0>> /\ after'[c] = 0
             \/ /\ c \notin Revoked(p, e)
                /\ UNCHANGED <<cst[c], token[c], leaseGen[c], after[c], snap[c]>>
                /\ got'[c] = IF c \in Receivers(p, e) THEN Append(got[c], e) ELSE got[c]
  BY <1>1 DEF Detach
<1> HIDE DEF b, e, received
<1>9. LogKept'
  <2>1. \A c \in Conns : after'[c] \in committed \cup {0} BY <1>8 DEF DInv, LogKept
  <2>2. \A j \in 1..Len(batch'[p]) : batch'[p][j] \in committed BY <1>3, <1>5, <1>6
  <2>3. \A q \in Procs : /\ pos'[q] \in committed \cup {0}
                         /\ \A j \in 1..Len(batch'[q]) : batch'[q][j] \in committed
    BY <1>3, <1>7, <2>2 DEF DInv, LogKept
  <2> QED BY <1>1, <2>1, <2>3 DEF DInv, LogKept, logVars, rowVars
<1>10. ASSUME NEW c \in Conns PROVE OldClaim(c)'
  <2>1. OldClaim(c) /\ nextGen' = nextGen /\ recGen' = recGen /\ gen' = gen /\ home' = home
    BY <1>1 DEF DInv, rowVars
  <2>2. CASE cst'[c] = "gone" /\ token'[c] = <<0, 0>>
    <3>1. token'[c][1] = 0 BY <2>2
    <3>2. 1 <= nextGen /\ nextGen \in Nat BY Numbers DEF DInv, IInv, GenUnique
    <3>3. \A q \in Procs : recGen'[q] # 0 => 0 # recGen'[q] OBVIOUS
    <3> QED BY <2>1, <2>2, <3>1, <3>2, <3>3 DEF OldClaim
  <2>3. CASE UNCHANGED <<cst[c], token[c], leaseGen[c]>> BY <2>1, <2>3 DEF OldClaim
  <2> QED BY <1>8, <2>2, <2>3
<1>11. ASSUME NEW q \in Procs PROVE Caught(q)'
  <2>1. CASE q # p BY <1>1, <1>3, <2>1 DEF DInv, Caught, rowVars
  <2>2. CASE q = p
    <3>1. hasCursor[p] /\ gen[p] = rowGen[InstanceOf[p]] => rowLast[InstanceOf[p]] <= pos[p]
      BY DEF DInv, Caught
    <3> QED BY <1>1, <1>3, <1>7, <2>2, <3>1 DEF Caught, rowVars
  <2> QED BY <2>1, <2>2
<1>12. ASSUME NEW c \in Conns, Serves(c)'
       PROVE  /\ Serves(c) /\ c \notin Revoked(p, e)
              /\ UNCHANGED <<cst[c], token[c], leaseGen[c], after[c], snap[c], home[c]>>
              /\ got'[c] = IF c \in Receivers(p, e) THEN Append(got[c], e) ELSE got[c]
  <2>1. cst'[c] # "gone" BY <1>12 DEF Serves
  <2> QED BY <1>1, <1>8, <1>12, <2>1 DEF Serves, rowVars
<1>13. ASSUME NEW c \in Conns PROVE Unread(c)'
  BY <1>1, <1>12 DEF DInv, Owed, Unread, logVars, rowVars
<1>14. ASSUME NEW c \in Conns, Serves(c), home[c] = p, gen[p] = leaseGen[c],
              NEW x \in committed, after[c] < x, pos[p] < x, NEW j \in 1..Len(b), x < b[j]
       PROVE  \E k \in 1..Len(b) : b[k] = x
  BY <1>1, <1>14 DEF DInv, Owed, InHand, b
<1>15. ASSUME NEW c \in Conns PROVE InHand(c)'
  <2>1. home'[c] = home[c] /\ home[c] \in Procs BY <1>1, <1>7
  <2>2. CASE home[c] # p
    <3>1. InHand(c) BY DEF DInv, Owed
    <3> QED BY <1>1, <1>3, <1>12, <2>1, <2>2, <3>1 DEF InHand, logVars
  <2>3. CASE home[c] = p
    <3>0. /\ home'[c] = p /\ batch'[p] = Tail(b) /\ pos'[p] = e /\ gen'[p] = gen[p]
          /\ committed' = committed
      BY <1>1, <1>3, <2>1, <2>3 DEF logVars
    <3> SUFFICES ASSUME Serves(c)', gen[p] = leaseGen'[c],
                        NEW x \in committed, NEW j \in 1..Len(Tail(b)),
                        after'[c] < x, e < x, x < Tail(b)[j]
                 PROVE  \E k \in 1..Len(Tail(b)) : Tail(b)[k] = x
      BY <3>0 DEF InHand
    <3>1. Serves(c) /\ gen[p] = leaseGen[c] /\ after[c] < x BY <1>12
    <3>2. pos[p] < x
      <4>1. x \in Nat /\ e \in Nat /\ pos[p] \in Nat /\ pos[p] < e BY <1>7
      <4> QED BY <4>1
    <3>3. j + 1 \in 1..Len(b) /\ x < b[j + 1] BY <1>5
    <3>4. PICK k \in 1..Len(b) : b[k] = x BY <1>14, <2>3, <3>1, <3>2, <3>3
    <3>5. k # 1 BY <1>4, <1>7, <3>4
    <3>6. k - 1 \in 1..Len(Tail(b)) /\ (k - 1) + 1 = k BY <1>4, <1>5, <3>5
    <3>7. Tail(b)[k - 1] = x BY <1>5, <3>4, <3>6
    <3> QED BY <3>6, <3>7
  <2> QED BY <2>2, <2>3
<1>16. ASSUME NEW c \in Conns, Serves(c), home[c] = p, cst[c] = "live",
              NEW x \in committed, after[c] < x, pos[p] < x
       PROVE  x = e \/ e < x
  <2> SUFFICES ASSUME x < e PROVE FALSE
    <3>1. x \in Nat /\ e \in Nat BY <1>7
    <3> QED BY <3>1
  <2>1. gen[p] = leaseGen[c] BY <1>16 DEF DInv, OldClaim
  <2>2. 1 \in 1..Len(b) /\ x < b[1] BY <1>4
  <2>3. PICK k \in 1..Len(b) : b[k] = x BY <1>14, <1>16, <2>1, <2>2
  <2>4. k = 1 \/ b[1] < b[k] BY <1>4, <1>6
  <2> QED BY <1>4, <1>7, <2>2, <2>3, <2>4
<1>17. ASSUME NEW c \in Conns PROVE Sent(c)'
  <2> SUFFICES ASSUME Serves(c)', cst'[c] = "live", NEW x \in committed,
                      after'[c] < x, x <= pos'[home[c]], Concerns(x, c)
               PROVE  x \in snap'[c] \/ \E k \in 1..Len(got'[c]) : got'[c][k] = x
    BY <1>1 DEF Sent, Complete, Concerns, logVars
  <2>1. Serves(c) /\ cst[c] = "live" /\ after[c] < x /\ home[c] \in Procs BY <1>7, <1>12
  <2>2. Complete(c) BY <2>1 DEF DInv, Owed, Sent
  <2>3. got[c] \in Seq(Seqs) BY DEF DInv, IInv, TypeOK, ConnTypes
  <2>4. ASSUME x <= pos[home[c]]
        PROVE  x \in snap'[c] \/ \E k \in 1..Len(got'[c]) : got'[c][k] = x
    <3>1. x \in snap[c] \/ \E k \in 1..Len(got[c]) : got[c][k] = x
      BY <2>1, <2>2, <2>4 DEF Complete
    <3>2. \A k \in 1..Len(got[c]) : k \in 1..Len(got'[c]) /\ got'[c][k] = got[c][k]
      <4>1. got'[c] = got[c] \/ got'[c] = Append(got[c], e) BY <1>12
      <4> QED BY <1>4, <2>3, <4>1
    <3> QED BY <1>12, <3>1, <3>2
  <2>5. CASE home[c] # p BY <1>3, <2>1, <2>4, <2>5
  <2>6. CASE home[c] = p /\ pos[p] < x
    <3>1. x = e BY <1>3, <1>7, <1>16, <2>1, <2>6
    <3>2. c \in Attached(p) /\ Accepts(c, e) BY <2>1, <2>6, <3>1 DEF Attached, Accepts
    <3>3. c \in Receivers(p, e) BY <1>12, <3>1, <3>2 DEF Concerns, Receivers, Revoked
    <3>4. got'[c] = Append(got[c], e) BY <1>12, <3>3
    <3>5. Len(got[c]) + 1 \in 1..Len(got'[c]) /\ got'[c][Len(got[c]) + 1] = e
      BY <1>4, <2>3, <3>4
    <3> QED BY <3>1, <3>5
  <2>7. CASE home[c] = p /\ ~(pos[p] < x) BY <1>7, <2>4, <2>7
  <2> QED BY <2>5, <2>6, <2>7
<1>18. ASSUME NEW c \in Conns PROVE Behind(c)'
  <2> SUFFICES ASSUME Serves(c)', cst'[c] = "live", archived \/ c \in banned
               PROVE  \E x \in committed : pos'[home[c]] < x /\ after'[c] < x /\ Revokes(x, c)
    BY <1>1 DEF Behind, Revokes, logVars, roomVars
  <2>1. Serves(c) /\ cst[c] = "live" /\ after'[c] = after[c] /\ home[c] \in Procs
    BY <1>7, <1>12
  <2>2. PICK x \in committed : pos[home[c]] < x /\ after[c] < x /\ Revokes(x, c)
    BY <2>1 DEF DInv, Owed, Behind
  <2>3. CASE home[c] # p BY <1>3, <2>1, <2>2, <2>3
  <2>4. CASE home[c] = p
    <3>1. x = e \/ e < x BY <1>16, <2>1, <2>2, <2>4
    <3>2. x # e
      <4>1. ASSUME x = e PROVE c \in Revoked(p, e)
        BY <2>1, <2>2, <2>4, <4>1 DEF Revoked, Attached, Accepts, Revokes
      <4> QED BY <1>12, <4>1
    <3> QED BY <1>3, <2>1, <2>2, <2>4, <3>1, <3>2
  <2> QED BY <2>3, <2>4
<1> QED BY <1>9, <1>10, <1>11, <1>13, <1>15, <1>17, <1>18 DEF DInv, Owed

----------------------------------------------------------------------------
(* Steps of the database *)

\* What the log, the room and the sockets look like is as it was to a socket.
LEMMA StillOwed ==
    ASSUME DInv, NEW c \in Conns, Serves(c)' => Serves(c),
           UNCHANGED <<committed, archived, banned, rowGen, rowLast, nextGen>>,
           UNCHANGED relayVars, UNCHANGED connVars,
           \A x \in committed : event'[x] = event[x]
    PROVE  OldClaim(c)' /\ InHand(c)' /\ Sent(c)' /\ Behind(c)'
<1>1. OldClaim(c)' BY DEF DInv, OldClaim, relayVars, connVars
<1>2. InHand(c)'
  <2>1. InHand(c) BY DEF DInv, Owed
  <2> QED BY <2>1 DEF InHand, relayVars, connVars
<1>3. Sent(c)'
  <2>1. Sent(c) BY DEF DInv, Owed
  <2> QED BY <2>1 DEF Sent, Complete, Concerns, relayVars, connVars
<1>4. Behind(c)'
  <2>1. Behind(c) BY DEF DInv, Owed
  <2> QED BY <2>1 DEF Behind, Revokes, relayVars, connVars
<1> QED BY <1>1, <1>2, <1>3, <1>4

\* A transaction that opens, or ends without an event, owes nobody anything.
LEMMA OpenKeeps ==
    ASSUME DInv, IInv', GenUnique',
           (\E shape \in Shapes : AppendBegin(shape)) \/ (\E s \in open : AppendAbort(s))
    PROVE  DInv'
<1>1. /\ UNCHANGED <<committed, retained, floor, pruning, archived, banned>>
      /\ UNCHANGED rowVars /\ UNCHANGED relayVars /\ UNCHANGED connVars
  BY DEF AppendBegin, AppendAbort, roomVars
<1>2. \A x \in committed : event'[x] = event[x]
  <2>1. \A x \in committed : x \in Seqs /\ x # nextSeq
    BY Numbers DEF DInv, IInv, LogOrder
  <2> QED BY <2>1 DEF AppendBegin, AppendAbort, DInv, IInv, TypeOK, LogTypes
<1>3. LogKept' BY <1>1 DEF DInv, LogKept, rowVars, relayVars, connVars
<1>4. \A q \in Procs : Caught(q)' BY <1>1 DEF DInv, Caught, rowVars, relayVars
<1>5. ASSUME NEW c \in Conns
      PROVE  OldClaim(c)' /\ Unread(c)' /\ InHand(c)' /\ Sent(c)' /\ Behind(c)'
  <2>1. Serves(c)' <=> Serves(c) BY <1>1 DEF Serves, rowVars, connVars
  <2>2. Unread(c)' BY <1>1, <2>1 DEF DInv, Owed, Unread, rowVars, connVars
  <2>3. UNCHANGED <<rowGen, rowLast, nextGen>> BY <1>1 DEF rowVars
  <2> QED BY <1>1, <1>2, <2>1, <2>2, <2>3, StillOwed
<1> QED BY <1>3, <1>4, <1>5 DEF DInv, Owed

\* prune_events may pass no live cursor, so it deletes nothing that a claim
\* still has to read, and a lease that runs out releases its process of all.
LEMMA PruneKeeps ==
    ASSUME DInv, IInv', GenUnique',
           \/ PruneBegin
           \/ \E last \in retained \cup {floor} : PruneCommit(last)
           \/ \E i \in Instances : ExpireLease(i)
    PROVE  DInv'
<1>1. /\ UNCHANGED <<event, committed, archived, banned, rowGen, rowLast, nextGen>>
      /\ UNCHANGED relayVars /\ UNCHANGED connVars
  BY DEF PruneBegin, PruneCommit, ExpireLease, logVars, roomVars, rowVars
<1>2. \A i \in Instances : rowLive'[i] => rowLive[i]
  BY DEF PruneBegin, PruneCommit, ExpireLease, rowVars, DInv, IInv, TypeOK, RowTypes
<1>3. \A c \in Conns : Serves(c)' => Serves(c)
  <2>1. \A c \in Conns : InstanceOf[home[c]] \in Instances /\ home'[c] = home[c]
    BY <1>1, Numbers DEF DInv, IInv, connVars
  <2> QED BY <1>1, <1>2, <2>1 DEF Serves, connVars
<1>4. /\ \A e \in committed : e \in Nat /\ e # 0
      /\ retained \subseteq committed /\ floor \in Nat /\ pruning \in Nat
      /\ \A i \in Instances : rowLast[i] \in Nat /\ rowLast[i] \in committed \cup {0}
      /\ LogHead \in committed \cup {0}
      /\ \A e \in committed : e <= LogHead
  BY Numbers, HeadIsTop DEF DInv, IInv, TypeOK, LogTypes, LogOrder
<1>5. \A q \in Procs : Caught(q)' BY <1>1 DEF DInv, Caught, relayVars
<1>6. ASSUME NEW c \in Conns PROVE OldClaim(c)' /\ InHand(c)' /\ Sent(c)' /\ Behind(c)'
  BY <1>1, <1>3, StillOwed
<1>7. CASE PruneBegin
  <2>1. PICK n \in {rowLast[i] : i \in Instances} \cup {LogHead} :
           IsSafeThrough(n) /\ pruning' = n
    BY <1>7 DEF PruneBegin
  <2>2. n \in committed \cup {0} /\ n \in Nat BY <1>4, <2>1
  <2>3. UNCHANGED <<retained, floor, rowLive>> BY <1>7 DEF PruneBegin, rowVars
  <2>4. LogKept' BY <1>1, <2>1, <2>2, <2>3 DEF DInv, LogKept, relayVars, connVars
  <2>5. ASSUME NEW c \in Conns PROVE Unread(c)'
    <3> DEFINE i == InstanceOf[home[c]]
    <3> SUFFICES ASSUME Serves(c), NEW e \in committed, after[c] < e, rowLast[i] < e
                 PROVE  e \in retained /\ n < e
      BY <1>1, <1>3, <2>1, <2>3 DEF Unread, connVars
    <3>1. i \in Instances /\ rowLive[i] BY Numbers DEF Serves, DInv, IInv
    <3>2. i \in LiveRows BY <3>1 DEF LiveRows, DInv, LogKept
    <3>3. n <= rowLast[i] BY <2>1, <3>2 DEF IsSafeThrough
    <3>4. e \in retained BY DEF DInv, Owed, Unread
    <3>5. rowLast[i] \in Nat /\ e \in Nat BY <1>4, <3>1
    <3>6. n < e BY <2>2, <3>3, <3>5
    <3> QED BY <3>4, <3>6
  <2> QED BY <1>5, <1>6, <2>4, <2>5 DEF DInv, Owed
<1>8. CASE \E last \in retained \cup {floor} : PruneCommit(last)
  <2>1. PICK last \in retained \cup {floor} : PruneCommit(last) BY <1>8
  <2>2. /\ last <= pruning \/ last = floor
        /\ retained' = {e \in retained : e > last}
        /\ floor' = IF last > floor THEN last ELSE floor
        /\ pruning' = 0 /\ rowLive' = rowLive
    BY <2>1 DEF PruneCommit, rowVars
  <2>3. last \in Nat BY <1>4
  <2>4. \A e \in retained : floor < e BY DEF DInv, LogKept
  <2>5. LogKept' BY <1>1, <2>2, <2>4 DEF DInv, LogKept, relayVars, connVars
  <2>6. ASSUME NEW c \in Conns PROVE Unread(c)'
    <3> SUFFICES ASSUME Serves(c), NEW e \in committed, after[c] < e,
                        rowLast[InstanceOf[home[c]]] < e
                 PROVE  e \in retained /\ e > last /\ 0 < e
      BY <1>1, <1>3, <2>2 DEF Unread, connVars
    <3>1. e \in retained /\ pruning < e BY DEF DInv, Owed, Unread
    <3> QED BY <1>4, <2>2, <2>3, <2>4, <3>1
  <2> QED BY <1>5, <1>6, <2>5, <2>6 DEF DInv, Owed
<1>9. CASE \E i \in Instances : ExpireLease(i)
  <2>1. UNCHANGED <<retained, floor, pruning>> BY <1>9 DEF ExpireLease, logVars
  <2>2. LogKept' BY <1>1, <1>2, <2>1 DEF DInv, LogKept, relayVars, connVars
  <2>3. ASSUME NEW c \in Conns PROVE Unread(c)'
    BY <1>1, <1>3, <2>1 DEF DInv, Owed, Unread, connVars
  <2> QED BY <1>5, <1>6, <2>2, <2>3 DEF DInv, Owed
<1> QED BY <1>7, <1>8, <1>9

\* A new event is beyond every position, so nobody has missed it yet.
LEMMA NewEvent ==
    ASSUME DInv, NEW s \in Seqs, \A x \in committed : x < s,
           committed' = committed \cup {s}, retained' = retained \cup {s},
           UNCHANGED <<floor, pruning>>, \A x \in committed : event'[x] = event[x],
           UNCHANGED rowVars, UNCHANGED relayVars,
           NEW c \in Conns,
           UNCHANGED <<home[c], cst[c], token[c], leaseGen[c], after[c], snap[c], got[c]>>
    PROVE  /\ Serves(c)' <=> Serves(c)
           /\ OldClaim(c)' /\ Unread(c)' /\ InHand(c)' /\ Sent(c)'
<1>1. Serves(c)' <=> Serves(c) BY DEF Serves, rowVars
<1>2. OldClaim(c)' BY DEF DInv, OldClaim, rowVars, relayVars
<1>3. /\ s \in Nat /\ s # 0 /\ \A x \in committed : x \in Nat
      /\ \A x \in committed \cup {0} : x < s
  <2>1. s \in Nat /\ s # 0 BY ConstantsAssumption DEF Seqs
  <2>2. \A x \in committed : x \in Nat BY Numbers DEF DInv, IInv
  <2> QED BY <2>1, <2>2
<1>4. home[c] \in Procs BY Numbers DEF DInv, IInv
<1>5. Unread(c)'
  <2>1. pruning < s BY <1>3 DEF DInv, LogKept
  <2> QED BY <1>1, <2>1 DEF DInv, Owed, Unread, rowVars
<1>6. InHand(c)'
  <2> DEFINE p == home[c]
  <2> SUFFICES ASSUME Serves(c), gen[p] = leaseGen[c], pc[p] = "dispatch",
                      NEW x \in committed \cup {s}, NEW j \in 1..Len(batch[p]),
                      after[c] < x, pos[p] < x, x < batch[p][j]
               PROVE  \E k \in 1..Len(batch[p]) : batch[p][k] = x
    BY <1>1 DEF InHand, relayVars
  <2>1. batch[p][j] \in committed BY <1>4 DEF DInv, LogKept
  <2>2. x # s
    <3>1. batch[p][j] \in Nat /\ batch[p][j] < s BY <1>3, <2>1
    <3> QED BY <1>3, <3>1
  <2> QED BY <2>2 DEF DInv, Owed, InHand
<1>7. Sent(c)'
  <2> SUFFICES ASSUME Serves(c), cst[c] = "live", NEW x \in committed \cup {s},
                      after[c] < x, x <= pos[home[c]], Concerns(x, c)'
               PROVE  x \in snap[c] \/ \E k \in 1..Len(got[c]) : got[c][k] = x
    BY <1>1 DEF Sent, Complete, relayVars
  <2>1. x # s
    <3>1. pos[home[c]] \in committed \cup {0} BY <1>4 DEF DInv, LogKept
    <3>2. pos[home[c]] \in Nat /\ pos[home[c]] < s BY <1>3, <3>1
    <3> QED BY <1>3, <3>2
  <2>2. Concerns(x, c) BY <2>1 DEF Concerns
  <2> QED BY <2>1, <2>2 DEF DInv, Owed, Sent, Complete
<1> QED BY <1>1, <1>2, <1>5, <1>6, <1>7

\* The log and the positions after a new event.
LEMMA NewEventKept ==
    ASSUME DInv, NEW s \in Seqs, \A x \in committed : x < s,
           committed' = committed \cup {s}, retained' = retained \cup {s},
           UNCHANGED <<floor, pruning>>, UNCHANGED rowVars, UNCHANGED relayVars,
           \A c \in Conns : after'[c] \in {after[c], s}
    PROVE  LogKept' /\ \A q \in Procs : Caught(q)'
<1>1. \A q \in Procs : Caught(q)' BY DEF DInv, Caught, rowVars, relayVars
<1>2. floor < s
  <2>1. s \in Nat /\ s # 0 /\ floor \in committed \cup {0}
    BY ConstantsAssumption DEF Seqs, DInv, IInv, LogOrder
  <2> QED BY <2>1
<1>3. \A e \in retained' : floor < e BY <1>2 DEF DInv, LogKept
<1>4. \A c \in Conns : after'[c] \in committed' \cup {0} BY DEF DInv, LogKept
<1>5. \A i \in Instances : rowLive'[i] => rowGen'[i] # 0 BY DEF DInv, LogKept, rowVars
<1>6. pruning' \in committed' \cup {0} BY DEF DInv, LogKept
<1>7. \A p \in Procs : /\ pos'[p] \in committed' \cup {0}
                       /\ \A j \in 1..Len(batch'[p]) : batch'[p][j] \in committed'
  BY DEF DInv, LogKept, relayVars
<1> QED BY <1>1, <1>3, <1>4, <1>5, <1>6, <1>7 DEF LogKept

\* A commit that archives the room or bans a subject is itself the event that
\* is still to reach the sockets it revokes.
LEMMA CommitKeeps ==
    ASSUME DInv, IInv', GenUnique', NEW s \in open, AppendCommit(s)
    PROVE  DInv'
<1>1. /\ committed' = committed \cup {s} /\ retained' = retained \cup {s}
      /\ UNCHANGED <<floor, pruning, event>> /\ UNCHANGED rowVars
      /\ UNCHANGED relayVars /\ UNCHANGED connVars
  BY DEF AppendCommit
<1>2. s \in Seqs /\ \A x \in committed : x < s
  BY DEF DInv, IInv, TypeOK, LogTypes, LogOrder
<1>3. LogKept' /\ \A q \in Procs : Caught(q)'
  <2>1. \A c \in Conns : after'[c] \in {after[c], s} BY <1>1 DEF connVars
  <2> QED BY <1>1, <1>2, <2>1, NewEventKept
<1>4. ASSUME NEW c \in Conns
      PROVE  /\ Serves(c)' <=> Serves(c)
             /\ OldClaim(c)' /\ Unread(c)' /\ InHand(c)' /\ Sent(c)'
  <2>1. UNCHANGED <<home[c], cst[c], token[c], leaseGen[c], after[c], snap[c], got[c]>>
    BY <1>1 DEF connVars
  <2>2. \A x \in committed : event'[x] = event[x] BY <1>1
  <2> QED BY <1>1, <1>2, <2>1, <2>2, NewEvent
<1>5. ASSUME NEW c \in Conns PROVE Behind(c)'
  <2> SUFFICES ASSUME Serves(c), cst[c] = "live", archived' \/ c \in banned'
               PROVE  \E e \in committed \cup {s} :
                         pos[home[c]] < e /\ after[c] < e /\ Revokes(e, c)
    BY <1>1, <1>4 DEF Behind, Revokes, relayVars, connVars
  <2>1. CASE archived \/ c \in banned
    BY <2>1 DEF DInv, Owed, Behind
  <2>2. CASE ~archived /\ c \notin banned
    <3>1. Revokes(s, c)
      <4>1. CASE archived'
        <5>1. event[s].type = "archived" BY <2>2, <4>1 DEF AppendCommit
        <5> QED BY <5>1 DEF Revokes
      <4>2. CASE c \in banned'
        <5>1. \/ event[s].type = "banned" /\ banned' = banned \cup event[s].to
              \/ banned' \subseteq banned
          BY DEF AppendCommit
        <5> QED BY <2>2, <4>2, <5>1 DEF Revokes
      <4> QED BY <4>1, <4>2
    <3>2. /\ pos[home[c]] \in committed \cup {0} /\ after[c] \in committed \cup {0}
          /\ s \in Nat /\ s # 0
      BY <1>2, Numbers, ConstantsAssumption DEF DInv, IInv, LogKept, Seqs
    <3>3. pos[home[c]] < s /\ after[c] < s BY <1>2, <3>2
    <3> QED BY <3>1, <3>3
  <2> QED BY <2>1, <2>2
<1> QED BY <1>3, <1>4, <1>5 DEF DInv, Owed

----------------------------------------------------------------------------
(* Steps of a socket *)

\* What is owed to a socket while nothing but other sockets moves.
LEMMA SocketStays ==
    ASSUME DInv, UNCHANGED logVars, UNCHANGED roomVars, UNCHANGED rowVars,
           UNCHANGED relayVars, NEW c \in Conns, ConnKept(c)
    PROVE  OldClaim(c)' /\ Unread(c)' /\ InHand(c)' /\ Sent(c)' /\ Behind(c)'
<1>1. CASE UNCHANGED <<home[c], cst[c], token[c], leaseGen[c], after[c], snap[c], got[c]>>
  <2>1. Serves(c)' <=> Serves(c) BY <1>1 DEF Serves, rowVars
  <2>2. OldClaim(c)' BY <1>1 DEF DInv, OldClaim, rowVars, relayVars
  <2>3. Unread(c)' BY <1>1, <2>1 DEF DInv, Owed, Unread, logVars, rowVars
  <2>4. InHand(c)'
    <3>1. InHand(c) BY DEF DInv, Owed
    <3> QED BY <1>1, <2>1, <3>1 DEF InHand, logVars, relayVars
  <2>5. Sent(c)'
    <3>1. Sent(c) BY DEF DInv, Owed
    <3>2. UNCHANGED <<committed, event, pos>> BY DEF logVars, relayVars
    <3> QED BY <1>1, <2>1, <3>1, <3>2 DEF Sent, Complete, Concerns
  <2>6. Behind(c)'
    BY <1>1, <2>1 DEF DInv, Owed, Behind, Revokes, logVars, roomVars, relayVars
  <2> QED BY <2>2, <2>3, <2>4, <2>5, <2>6
<1>2. CASE cst'[c] = "gone" /\ token'[c] = <<0, 0>>
  <2>1. ~Serves(c)' BY <1>2 DEF Serves
  <2>2. OldClaim(c)'
    <3>1. token'[c][1] = 0 BY <1>2
    <3>2. 1 <= nextGen /\ nextGen \in Nat /\ nextGen' = nextGen
      BY Numbers DEF DInv, IInv, GenUnique, rowVars
    <3>3. \A q \in Procs : recGen'[q] # 0 => 0 # recGen'[q] OBVIOUS
    <3> QED BY <1>2, <3>1, <3>2, <3>3 DEF OldClaim
  <2> QED BY <2>1, <2>2 DEF Unread, InHand, Sent, Behind
<1> QED BY <1>1, <1>2 DEF ConnKept

\* Positions do not move with a socket that keeps its place in the log.
LEMMA SocketKept ==
    ASSUME DInv, UNCHANGED logVars, UNCHANGED rowVars, UNCHANGED relayVars,
           \A c \in Conns : after'[c] \in {after[c], 0}
    PROVE  LogKept' /\ \A q \in Procs : Caught(q)'
<1>1. \A q \in Procs : Caught(q)' BY DEF DInv, Caught, rowVars, relayVars
<1>2. \A c \in Conns : after'[c] \in committed' \cup {0} BY DEF DInv, LogKept, logVars
<1> QED BY <1>1, <1>2 DEF DInv, LogKept, logVars, rowVars, relayVars

\* A socket whose admission begins carries its relay's claim, which is no
\* recovery's.
LEMMA AdmitKeeps ==
    ASSUME DInv, IInv', GenUnique', NEW c \in Conns, NEW p \in Procs, Admit(c, p)
    PROVE  DInv'
<1>1. /\ UNCHANGED logVars /\ UNCHANGED roomVars /\ UNCHANGED rowVars /\ UNCHANGED relayVars
      /\ UNCHANGED <<leaseGen, after, snap, got>>
      /\ Ready(p) /\ cst' = [cst EXCEPT ![c] = "admitting"] /\ home' = [home EXCEPT ![c] = p]
      /\ token' = [token EXCEPT ![c] = Token(p)]
  BY DEF Admit
<1>2. ConnTypes BY DEF DInv, IInv, TypeOK
<1>3. LogKept' /\ \A q \in Procs : Caught(q)' BY <1>1, SocketKept
<1>4. cst'[c] = "admitting" /\ token'[c] = Token(p) BY <1>1, <1>2 DEF ConnTypes
<1>5. \A d \in Conns \ {c} : ConnKept(d) BY <1>1, <1>2 DEF ConnTypes, ConnKept
<1>6. OldClaim(c)'
  <2>1. token'[c][1] = gen[p] BY <1>4 DEF Token
  <2>2. gen[p] # 0 /\ recGen[p] = 0 BY <1>1 DEF Ready
  <2>3. gen[p] < nextGen /\ \A q \in Procs : recGen[q] # 0 => gen[p] # recGen[q]
    BY <2>2 DEF DInv, GenUnique
  <2> QED BY <1>1, <1>4, <2>1, <2>3 DEF OldClaim, rowVars, relayVars
<1>7. Unread(c)' /\ InHand(c)' /\ Sent(c)' /\ Behind(c)'
  <2>1. ~Serves(c)' BY <1>4 DEF Serves
  <2> QED BY <2>1 DEF Unread, InHand, Sent, Behind
<1>8. \A d \in Conns : OldClaim(d)' /\ Unread(d)' /\ InHand(d)' /\ Sent(d)' /\ Behind(d)'
  BY <1>1, <1>5, <1>6, <1>7, SocketStays
<1> QED BY <1>3, <1>8 DEF DInv, Owed

\* A socket that acquires its lease starts at the newest event there is.
LEMMA AcquireKeeps ==
    ASSUME DInv, IInv', GenUnique', NEW c \in Conns, Acquire(c)
    PROVE  DInv'
<1>1. /\ committed' = committed \cup {nextSeq} /\ retained' = retained \cup {nextSeq}
      /\ UNCHANGED <<floor, pruning>> /\ UNCHANGED roomVars
      /\ UNCHANGED rowVars /\ UNCHANGED relayVars
      /\ UNCHANGED <<home, token, snap, got>>
      /\ event' = [event EXCEPT ![nextSeq] = Joined]
      /\ cst' = [cst EXCEPT ![c] = "leased"]
      /\ leaseGen' = [leaseGen EXCEPT ![c] = rowGen[InstanceOf[home[c]]]]
      /\ after' = [after EXCEPT ![c] = nextSeq]
  BY DEF Acquire
<1>2. nextSeq \in Seqs /\ \A x \in committed : x < nextSeq /\ x \in Seqs
  BY DEF DInv, IInv, TypeOK, LogTypes, LogOrder, Acquire, Seqs
<1>3. nextSeq \in Nat /\ \A x \in committed : x \in Nat
  BY <1>2, Numbers DEF DInv, IInv
<1>4. \A x \in committed : event'[x] = event[x]
  <2>1. \A x \in committed : x # nextSeq BY <1>2, <1>3
  <2> QED BY <1>1, <1>2, <2>1 DEF DInv, IInv, TypeOK, LogTypes
<1>5. ConnTypes BY DEF DInv, IInv, TypeOK
<1>6. /\ cst'[c] = "leased" /\ after'[c] = nextSeq
      /\ \A d \in Conns \ {c} : UNCHANGED <<cst[d], leaseGen[d], after[d]>>
  BY <1>1, <1>5 DEF ConnTypes
<1>7. LogKept' /\ \A q \in Procs : Caught(q)'
  <2>1. \A d \in Conns : after'[d] \in {after[d], nextSeq} BY <1>6
  <2> QED BY <1>1, <1>2, <2>1, NewEventKept
<1>8. ASSUME NEW d \in Conns \ {c}
      PROVE  OldClaim(d)' /\ Unread(d)' /\ InHand(d)' /\ Sent(d)' /\ Behind(d)'
  <2>1. UNCHANGED <<home[d], cst[d], token[d], leaseGen[d], after[d], snap[d], got[d]>>
    BY <1>1, <1>6
  <2>2. /\ Serves(d)' <=> Serves(d)
        /\ OldClaim(d)' /\ Unread(d)' /\ InHand(d)' /\ Sent(d)'
    BY <1>1, <1>2, <1>4, <2>1, NewEvent
  <2>3. Behind(d)'
    <3> SUFFICES ASSUME Serves(d), cst[d] = "live", archived \/ d \in banned
                 PROVE  \E e \in committed' : pos[home[d]] < e /\ after[d] < e /\ Revokes(e, d)'
      BY <1>1, <2>1, <2>2 DEF Behind, roomVars, relayVars
    <3>1. PICK e \in committed : pos[home[d]] < e /\ after[d] < e /\ Revokes(e, d)
      BY DEF DInv, Owed, Behind
    <3> QED BY <1>1, <1>4, <3>1 DEF Revokes
  <2> QED BY <2>2, <2>3
<1>9. OldClaim(c)' BY <1>1, <1>6 DEF DInv, OldClaim, rowVars, relayVars
<1>10. \A x \in committed' : ~(after'[c] < x) BY <1>1, <1>2, <1>3, <1>6
<1>11. Unread(c)' /\ InHand(c)' BY <1>10 DEF Unread, InHand
<1>12. Sent(c)' /\ Behind(c)' BY <1>6 DEF Sent, Behind
<1>13. \A d \in Conns : OldClaim(d)' /\ Unread(d)' /\ InHand(d)' /\ Sent(d)' /\ Behind(d)'
  BY <1>8, <1>9, <1>11, <1>12
<1> QED BY <1>7, <1>13 DEF DInv, Owed

\* The guard of the registration ties the lease to the claim the relay holds.
LEMMA RegisterKeeps ==
    ASSUME DInv, IInv', GenUnique', NEW c \in Conns, Register(c)
    PROVE  DInv'
<1>1. /\ UNCHANGED logVars /\ UNCHANGED roomVars /\ UNCHANGED rowVars /\ UNCHANGED relayVars
      /\ UNCHANGED <<home, token, leaseGen, after, snap, got>>
      /\ AdmissionCheck(c) /\ cst[c] = "leased" /\ cst' = [cst EXCEPT ![c] = "registered"]
  BY DEF Register
<1>2. ConnTypes BY DEF DInv, IInv, TypeOK
<1>3. LogKept' /\ \A q \in Procs : Caught(q)' BY <1>1, SocketKept
<1>4. cst'[c] = "registered" BY <1>1, <1>2 DEF ConnTypes
<1>5. \A d \in Conns \ {c} : ConnKept(d) BY <1>1, <1>2 DEF ConnTypes, ConnKept
<1>6. OldClaim(c)'
  <2>1. leaseGen[c] = token[c][1] /\ token[c] = <<gen[home[c]], epoch[home[c]]>>
    BY <1>1 DEF AdmissionCheck, Token
  <2>2. leaseGen[c] = gen[home[c]] BY <2>1
  <2> QED BY <1>1, <2>1, <2>2 DEF DInv, OldClaim, rowVars, relayVars
<1>7. Serves(c)' <=> Serves(c) BY <1>1, <1>4 DEF Serves, rowVars
<1>8. Unread(c)' BY <1>1, <1>7 DEF DInv, Owed, Unread, logVars, rowVars
<1>9. InHand(c)'
  <2>1. InHand(c) BY DEF DInv, Owed
  <2> QED BY <1>1, <1>7, <2>1 DEF InHand, logVars, relayVars
<1>10. Sent(c)' /\ Behind(c)' BY <1>4 DEF Sent, Behind
<1>11. \A d \in Conns : OldClaim(d)' /\ Unread(d)' /\ InHand(d)' /\ Sent(d)' /\ Behind(d)'
  BY <1>1, <1>5, <1>6, <1>8, <1>9, <1>10, SocketStays
<1> QED BY <1>3, <1>11 DEF DInv, Owed

\* A socket that finishes its handshake has read the room after it was
\* registered, or is closed.
LEMMA RecheckKeeps ==
    ASSUME DInv, IInv', GenUnique', NEW c \in Conns, Recheck(c) \/ Leave(c)
    PROVE  DInv'
<1>1. UNCHANGED logVars /\ UNCHANGED roomVars /\ UNCHANGED rowVars /\ UNCHANGED relayVars
  BY DEF Recheck, Leave
<1>2. ConnTypes BY DEF DInv, IInv, TypeOK
<1>3. CASE Detach({c}, got)
  <2>1. \A d \in Conns : ConnKept(d) BY <1>3 DEF Detach, ConnKept
  <2>2. \A d \in Conns : after'[d] \in {after[d], 0} BY <1>3 DEF Detach
  <2>3. LogKept' /\ \A q \in Procs : Caught(q)' BY <1>1, <2>2, SocketKept
  <2>4. \A d \in Conns : OldClaim(d)' /\ Unread(d)' /\ InHand(d)' /\ Sent(d)' /\ Behind(d)'
    BY <1>1, <2>1, SocketStays
  <2> QED BY <2>3, <2>4 DEF DInv, Owed
<1>4. CASE /\ cst[c] = "registered" /\ ~(archived \/ c \in banned)
           /\ cst' = [cst EXCEPT ![c] = "live"] /\ snap' = [snap EXCEPT ![c] = committed]
           /\ UNCHANGED <<home, token, leaseGen, after, got>>
  <2>1. LogKept' /\ \A q \in Procs : Caught(q)' BY <1>1, <1>4, SocketKept
  <2>2. cst'[c] = "live" /\ snap'[c] = committed BY <1>2, <1>4 DEF ConnTypes
  <2>3. \A d \in Conns \ {c} : ConnKept(d) BY <1>2, <1>4 DEF ConnTypes, ConnKept
  <2>4. OldClaim(c)' BY <1>1, <1>4, <2>2 DEF DInv, OldClaim, rowVars, relayVars
  <2>5. Serves(c)' <=> Serves(c) BY <1>1, <1>4, <2>2 DEF Serves, rowVars
  <2>6. Unread(c)' BY <1>1, <1>4, <2>5 DEF DInv, Owed, Unread, logVars, rowVars
  <2>7. InHand(c)'
    <3>1. InHand(c) BY DEF DInv, Owed
    <3> QED BY <1>1, <1>4, <2>5, <3>1 DEF InHand, logVars, relayVars
  <2>8. Sent(c)' BY <1>1, <2>2 DEF Sent, Complete, logVars
  <2>9. Behind(c)' BY <1>1, <1>4 DEF Behind, roomVars
  <2>10. \A d \in Conns : OldClaim(d)' /\ Unread(d)' /\ InHand(d)' /\ Sent(d)' /\ Behind(d)'
    BY <1>1, <2>3, <2>4, <2>6, <2>7, <2>8, <2>9, SocketStays
  <2> QED BY <2>1, <2>10 DEF DInv, Owed
<1> QED BY <1>3, <1>4 DEF Recheck, Leave

----------------------------------------------------------------------------
(* Every step *)

LEMMA DeliveryInit == Init => DInv
<1> SUFFICES ASSUME Init PROVE DInv OBVIOUS
<1>1. IInv BY InvInit
<1>2. GenUnique BY DEF Init, GenUnique
<1>3. LogKept
  <2>1. \A p \in Procs : 1..Len(batch[p]) = {} BY DEF Init
  <2> QED BY <2>1, ConstantsAssumption DEF Init, LogKept
<1>4. \A c \in Conns : cst[c] = "new" /\ token[c][1] = 0 BY DEF Init
<1>5. \A c \in Conns : OldClaim(c) BY <1>4 DEF Init, OldClaim
<1>6. \A p \in Procs : Caught(p) BY DEF Init, Caught
<1>7. \A c \in Conns : ~Serves(c) BY <1>4 DEF Serves
<1>8. Owed BY <1>7 DEF Owed, Unread, InHand, Sent, Behind
<1> QED BY <1>1, <1>2, <1>3, <1>5, <1>6, <1>8 DEF DInv

LEMMA GenNext ==
    ASSUME TypeOK, TypeOK', GenUnique, Next
    PROVE  GenUnique'
<1>1. CASE Database
  BY <1>1, GenFrame
     DEF Database, AppendBegin, AppendCommit, AppendAbort, PruneBegin, PruneCommit,
         ExpireLease, relayVars, rowVars
<1>2. CASE \E p \in Procs : Relay(p) BY <1>2, RelayGen
<1>3. CASE \E c \in Conns : Socket(c)
  BY <1>3, GenFrame
     DEF Socket, Admit, Acquire, Register, Recheck, Leave, relayVars, rowVars
<1> QED BY <1>1, <1>2, <1>3 DEF Next

LEMMA DeliveryNext == DInv /\ [Next]_vars => DInv'
<1> SUFFICES ASSUME DInv, [Next]_vars PROVE DInv' OBVIOUS
<1>1. CASE UNCHANGED vars
  <2>1. IInv' BY <1>1, StutterStep DEF DInv
  <2>2. /\ UNCHANGED logVars /\ UNCHANGED roomVars /\ UNCHANGED rowVars
        /\ UNCHANGED relayVars /\ UNCHANGED connVars
    BY <1>1 DEF vars
  <2>3. GenUnique' BY <2>2, GenFrame DEF DInv, rowVars, relayVars
  <2>4. \A c \in Conns : ConnKept(c) /\ after'[c] \in {after[c], 0}
    BY <2>2 DEF ConnKept, connVars
  <2>5. LogKept' /\ \A q \in Procs : Caught(q)' BY <2>2, <2>4, SocketKept
  <2>6. \A c \in Conns : OldClaim(c)' /\ Unread(c)' /\ InHand(c)' /\ Sent(c)' /\ Behind(c)'
    BY <2>2, <2>4, SocketStays
  <2> QED BY <2>1, <2>3, <2>5, <2>6 DEF DInv, Owed
<1>2. CASE Next
  <2>1. IInv' BY <1>2, InvNext DEF DInv
  <2>2. GenUnique' BY <1>2, <2>1, GenNext DEF DInv, IInv
  <2>3. CASE Database
    BY <2>1, <2>2, <2>3, OpenKeeps, CommitKeeps, PruneKeeps DEF Database
  <2>4. ASSUME NEW p \in Procs, Relay(p) PROVE DInv'
    <3>1. CASE ReadSelect(p) BY <2>1, <2>2, <3>1, SelectKeeps
    <3>2. CASE Dispatch(p) BY <2>1, <2>2, <3>2, DispatchKeeps
    <3>3. CASE ~ReadSelect(p) /\ ~Dispatch(p)
      <4>1. RelayMove(p)
        BY <2>4, <3>3, ClaimIsMove, ResyncIsMove, FenceIsMove, ErrorIsMove, AckIsMove, StopIsMove
           DEF Relay
      <4> QED BY <2>1, <2>2, <4>1, MoveKeeps
    <3> QED BY <3>1, <3>2, <3>3
  <2>5. ASSUME NEW c \in Conns, Socket(c) PROVE DInv'
    BY <2>1, <2>2, <2>5, AdmitKeeps, AcquireKeeps, RegisterKeeps, RecheckKeeps DEF Socket
  <2> QED BY <1>2, <2>3, <2>4, <2>5 DEF Next
<1> QED BY <1>1, <1>2

----------------------------------------------------------------------------
(* Theorems *)

\* What every relay owes its sockets holds in every reachable state.
THEOREM DeliveryInvariance == Spec => []DInv
  BY DeliveryInit, DeliveryNext, PTL DEF Spec

\* "It must never pretend that an event gap was delivered": for as long as the
\* process holds the claim that admitted a socket, claims, recoveries, prunes,
\* batches and replays leave no event between its admission and its relay's
\* position that it neither received nor read in its snapshot.
THEOREM NoGap == Spec => []NoGapWhileOwned
<1>1. ASSUME DInv PROVE NoGapWhileOwned
  <2> SUFFICES ASSUME NEW c \in Conns, cst[c] = "live", Owns(home[c]) PROVE Complete(c)
    BY DEF NoGapWhileOwned
  <2>1. Serves(c) BY <1>1 DEF DInv, OldClaim, Owns, Serves
  <2> QED BY <1>1, <2>1 DEF DInv, Owed, Sent
<1> QED BY <1>1, DeliveryInvariance, PTL

\* A socket outlives the archive of its room or the ban of its subject only
\* while the event that closes it is still before its relay.
THEOREM RevocationReaches == Spec => []RevokedOnlyWhileBehind
<1>1. ASSUME DInv PROVE RevokedOnlyWhileBehind
  <2> SUFFICES ASSUME NEW c \in Conns, cst[c] = "live", Owns(home[c]),
                      archived \/ c \in banned
               PROVE  \E e \in committed :
                         /\ e > pos[home[c]]
                         /\ \/ event[e].type = "archived"
                            \/ event[e].type = "banned" /\ c \in event[e].to
    BY DEF RevokedOnlyWhileBehind
  <2>1. Serves(c) BY <1>1 DEF DInv, OldClaim, Owns, Serves
  <2>2. PICK e \in committed : pos[home[c]] < e /\ Revokes(e, c)
    BY <1>1, <2>1 DEF DInv, Owed, Behind
  <2> QED BY <2>2 DEF Revokes
<1> QED BY <1>1, DeliveryInvariance, PTL

CursorMoves ==
    \A i \in Instances :
       (rowGen[i] # 0 /\ rowGen'[i] = rowGen[i] /\ rowLast'[i] # rowLast[i]) =>
           \E p \in Procs :
               /\ InstanceOf[p] = i /\ gen[p] = rowGen[i]
               /\ rowLast'[i] > rowLast[i] /\ rowLast'[i] = pos[p]

\* The durable cursor follows the dispatches of its owner: only
\* acknowledge_events moves it within a generation, and only to where the
\* owner's sockets have been brought; a retried recovery never skips an event.
THEOREM CursorFollows == Spec => AdvanceOnlyAfterDispatch
<1>1. ASSUME DInv, [Next]_vars PROVE CursorMoves
  <2> SUFFICES ASSUME NEW i \in Instances, rowGen[i] # 0, rowGen'[i] = rowGen[i],
                      rowLast'[i] # rowLast[i]
               PROVE  \E p \in Procs :
                         /\ InstanceOf[p] = i /\ gen[p] = rowGen[i]
                         /\ rowLast'[i] > rowLast[i] /\ rowLast'[i] = pos[p]
    BY DEF CursorMoves
  <2>1. RowTypes BY <1>1 DEF DInv, IInv, TypeOK
  <2>2. ASSUME NEW p \in Procs, ClaimRow(p) PROVE FALSE
    BY <2>1, <2>2 DEF ClaimRow, ClaimedLast, RowTypes
  <2>3. ASSUME NEW p \in Procs, NEW r, ResyncRow(p, r) PROVE FALSE
    BY <2>1, <2>3 DEF ResyncRow, RowTypes
  <2>4. PICK p \in Procs : AckRow(p)
    <3>1. rowLast' # rowLast OBVIOUS
    <3>2. PICK p \in Procs : Relay(p)
      BY <1>1, <3>1 DEF Next, Database, AppendBegin, AppendCommit, AppendAbort, PruneBegin,
         PruneCommit, ExpireLease, Socket, Admit, Acquire, Register, Recheck, Leave, vars, rowVars
    <3>3. ClaimRow(p) \/ (\E r : ResyncRow(p, r)) \/ AckRow(p)
      BY <3>1, <3>2 DEF Relay, Start, FenceAgain, FenceClose, Resync, Claim, LeaseLost,
         DatabaseError, ReadCheck, ReadSelect, Dispatch, DispatchError, Ack, Stop, rowVars
    <3> QED BY <2>2, <2>3, <3>3
  <2>5. /\ rowLast' = [rowLast EXCEPT ![InstanceOf[p]] =
                          IF done[p] > rowLast[InstanceOf[p]] THEN done[p]
                          ELSE rowLast[InstanceOf[p]]]
        /\ gen[p] = rowGen[InstanceOf[p]]
    BY <2>4 DEF AckRow, Owns
  <2>6. InstanceOf[p] = i /\ rowLast'[i] = done[p] /\ done[p] > rowLast[i]
    BY <2>1, <2>5 DEF RowTypes
  <2>7. done[p] = pos[p]
    <3>1. done[p] \in Nat /\ rowLast[i] \in Nat BY <1>1, Numbers DEF DInv, IInv
    <3>2. done[p] # 0 BY <2>6, <3>1
    <3> QED BY <1>1, <3>2 DEF DInv, IInv, Position, PositionAt
  <2> QED BY <2>5, <2>6, <2>7
<1>2. Spec => [][CursorMoves]_vars
  BY <1>1, DeliveryInvariance, PTL DEF Spec
<1> QED BY <1>2 DEF CursorMoves, AdvanceOnlyAfterDispatch

RevocationIsNewer ==
    \A c \in Conns :
       LET p == home[c] IN
       (cst[c] \in {"registered", "live"} /\ cst'[c] = "gone" /\ pc[p] = "dispatch"
          /\ pos'[p] # pos[p] /\ pc'[p] # "idle") =>
           \E e \in committed :
               /\ e > after[c] /\ Concerns(e, c)
               /\ event[e].type # "message"

\* close_room and close_member compare sequences: replayed history never closes
\* a socket that was admitted after it.
THEOREM RevocationIsFresh == Spec => NoStaleRevocation
<1>1. ASSUME DInv, [Next]_vars PROVE RevocationIsNewer
  <2> SUFFICES ASSUME NEW c \in Conns, NEW p \in Procs, p = home[c],
                      cst[c] \in {"registered", "live"}, cst'[c] = "gone",
                      pc[p] = "dispatch", pos'[p] # pos[p], pc'[p] # "idle"
               PROVE  \E e \in committed :
                         /\ e > after[c] /\ Concerns(e, c)
                         /\ event[e].type # "message"
    <3>1. \A c \in Conns : home[c] \in Procs BY <1>1, Numbers DEF DInv, IInv
    <3> QED BY <3>1 DEF RevocationIsNewer
  <2>1. RelayTypes BY <1>1 DEF DInv, IInv, TypeOK
  <2>2. PICK q \in Procs : Relay(q)
    BY <1>1 DEF Next, Database, AppendBegin, AppendCommit, AppendAbort, PruneBegin,
       PruneCommit, ExpireLease, Socket, Admit, Acquire, Register, Recheck, Leave, vars, relayVars
  <2>3. Dispatch(p)
    <3>1. \/ \E g, last : Adopt(q, g, last) /\ pc[q] \in {"idle", "loop"}
          \/ Dispatch(q)
          \/ pos' = [pos EXCEPT ![q] = 0] /\ pc' = [pc EXCEPT ![q] = "idle"]
      BY <2>2 DEF Relay, Start, FenceAgain, FenceClose, Resync, Claim, Working, LeaseLost,
         DatabaseError, ReadCheck, ReadSelect, DispatchError, Ack, Stop, Raise, relayVars
    <3>2. ASSUME NEW v, pos' = [pos EXCEPT ![q] = v] PROVE q = p
      BY <2>1, <3>2 DEF RelayTypes
    <3>3. q = p BY <3>1, <3>2 DEF Adopt, Dispatch
    <3>4. pc' # [pc EXCEPT ![p] = "idle"] BY <2>1 DEF RelayTypes
    <3> QED BY <3>1, <3>3, <3>4
  <2>4. c \in Revoked(p, Head(batch[p])) BY <2>3 DEF Dispatch, Detach
  <2>5. Head(batch[p]) \in committed
    <3>1. batch[p] \in Seq(Seqs) /\ batch[p] # <<>> BY <2>1 DEF RelayTypes
    <3>2. 1 \in 1..Len(batch[p]) /\ Head(batch[p]) = batch[p][1] BY <3>1
    <3> QED BY <1>1, <3>2 DEF DInv, LogKept
  <2> QED BY <2>4, <2>5 DEF Revoked, Accepts, Concerns
<1>2. Spec => [][RevocationIsNewer]_vars
  BY <1>1, DeliveryInvariance, PTL DEF Spec
<1> QED BY <1>2 DEF RevocationIsNewer, NoStaleRevocation
=============================================================================
