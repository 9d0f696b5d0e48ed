---------------------- MODULE ConnectionManagerProofs ----------------------
(***************************************************************************)
(* Proofs about ConnectionManager: the order of what a client sees, the    *)
(* single close of a socket, that no broadcast is dropped or doubled, and  *)
(* the byte budget and its limits, for any number of sockets, rooms and    *)
(* events and any limits.                                                  *)
(***************************************************************************)
EXTENDS ConnectionManager, SequenceTheorems, FiniteSetTheorems, TLAPS

Stages == {"new", "refused", "ready", "history", "activate", "live", "cleanup", "done"}
TaskKinds == {"send", "direct", "activate", "close", "notify"}
Tasks == [kind : TaskKinds, event : 0..MaxEvents]
Frames == [kind : FrameKinds, event : 0..MaxEvents]

\* The types of what the proofs need; Books has the byte counters.
Types ==
    /\ attached \subseteq Sockets
    /\ ready \in [Sockets -> BOOLEAN]
    /\ pending \in [Sockets -> Seq(Events)]
    /\ inflight \in [Sockets -> 0..MaxEvents]
    /\ opq \in [Sockets -> Seq(Tasks)]
    /\ io \in [Sockets -> {"none", "send", "close"}]
    /\ sched \in [Sockets -> SUBSET Tasks]
    /\ stage \in [Sockets -> Stages]
    /\ busy \in [Sockets -> BOOLEAN]
    /\ nextEvent \in 1..(MaxEvents + 1)
    /\ wire \in [Sockets -> Seq(Frames)]
    /\ aimed \in [Sockets -> Seq(Events)]

IsCloser(t) == t.kind \in {"close", "notify"}

\* The closer of a socket was created, or it waits for or holds the lock.
CloserCreated(s) == \E t \in sched[s] : IsCloser(t)
CloserWaits(s) == \E i \in 1..Len(opq[s]) : IsCloser(opq[s][i])

\* Nothing but its closer writes to the socket from here on.
Ended(s) == \E i \in 1..Len(wire[s]) : wire[s][i].kind \in {"notice", "close"}

\* A socket that is not registered has left no trace.
Unborn(s) ==
    stage[s] \in {"new", "refused"} =>
       /\ s \notin attached /\ ~ready[s] /\ ~busy[s]
       /\ pending[s] = <<>> /\ inflight[s] = 0 /\ aimed[s] = <<>>
       /\ opq[s] = <<>> /\ sched[s] = {} /\ wire[s] = <<>>

\* At most one closer, and none while the socket is attached or once it is
\* closed.
OneCloser(s) ==
    /\ s \in attached => ~CloserCreated(s) /\ ~CloserWaits(s) /\ ~Ended(s)
    /\ CloserCreated(s) => ~CloserWaits(s) /\ ~Ended(s)
    /\ CloserWaits(s) => ~IsClosed(s)
    /\ \A t, u \in sched[s] : IsCloser(t) /\ IsCloser(u) => t = u
    /\ \A i, j \in 1..Len(opq[s]) : IsCloser(opq[s][i]) /\ IsCloser(opq[s][j]) => i = j

\* What the holder of the operation lock is doing.
LockHeld(s) ==
    /\ io[s] # "none" => opq[s] # <<>>
    /\ io[s] = "close" => IsCloser(Holder(s))
    /\ io[s] = "send" => ~Ended(s)
    /\ Ended(s) => IsClosed(s) \/ io[s] = "close"

\* The request has at most one call of the manager under way, and it is the
\* one of its stage.
OwnTasks(s) ==
    /\ \A t \in sched[s] : ~IsOwn(t)
    /\ \A i, j \in 1..Len(opq[s]) : IsOwn(opq[s][i]) /\ IsOwn(opq[s][j]) => i = j
    /\ \A i \in 1..Len(opq[s]) : IsOwn(opq[s][i]) => busy[s]
    /\ \A i \in 1..Len(opq[s]) : opq[s][i].kind = "direct" => stage[s] \in {"ready", "history"}
    /\ \A i \in 1..Len(opq[s]) : opq[s][i].kind = "activate" => stage[s] = "activate"

\* Live broadcasts are sent to ready sockets only.
LiveTasks(s) ==
    /\ \A t \in sched[s] : t.kind = "send" => ready[s]
    /\ \A i \in 1..Len(opq[s]) : opq[s][i].kind = "send" => ready[s]
    /\ ready[s] => stage[s] \in {"live", "cleanup", "done"}
    /\ stage[s] = "live" => ready[s]

\* The handshake so far, as the client sees it.
Handshake(s) ==
    /\ stage[s] = "ready" /\ ~Ended(s) => wire[s] = <<>>
    /\ stage[s] = "history" /\ ~Ended(s) => Len(wire[s]) = 1 /\ wire[s][1].kind = "ready"
    /\ stage[s] = "activate" \/ ready[s] =>
          Len(wire[s]) >= 2 /\ wire[s][1].kind = "ready" /\ wire[s][2].kind = "history"
    /\ stage[s] = "activate" /\ ~Ended(s) =>
          \A i \in 3..Len(wire[s]) : wire[s][i].kind = "queued"

\* The event an activation is writing is the next one due.
Flushing(s) ==
    /\ io[s] = "send" /\ Holder(s).kind = "activate" => inflight[s] # 0
    /\ inflight[s] # 0 => io[s] = "send" /\ Holder(s).kind = "activate"
    /\ inflight[s] # 0 => Len(wire[s]) - 1 \in 1..Len(aimed[s])
    /\ inflight[s] # 0 => inflight[s] = aimed[s][Len(wire[s]) - 1]

\* The broadcasts that selected an initializing socket are the ones written,
\* the one being written and the ones queued, in this order.
Taken(s) == Len(wire[s]) - 2 + (IF inflight[s] # 0 THEN 1 ELSE 0)
Line(s) ==
    /\ s \in attached /\ stage[s] \in {"ready", "history"} => pending[s] = aimed[s]
    /\ s \in attached /\ stage[s] = "activate" =>
          /\ Taken(s) + Len(pending[s]) = Len(aimed[s])
          /\ \A k \in 1..Len(pending[s]) : pending[s][k] = aimed[s][Taken(s) + k]

Queue(s) == Flushing(s) /\ Line(s)

\* HandshakeOrder and CloseIsLast for one socket.
RanksRise(s) ==
    \A i, j \in 1..Len(wire[s]) : i < j => Rank[wire[s][i].kind] <= Rank[wire[s][j].kind]
Begins(s) ==
    \A i \in 1..Len(wire[s]) :
       wire[s][i].kind \in {"queued", "live"} =>
          i > 2 /\ wire[s][1].kind = "ready" /\ wire[s][2].kind = "history"
InOrder(s) ==
    \A i \in 1..Len(wire[s]) :
       wire[s][i].kind = "queued" =>
          i - 2 \in DOMAIN aimed[s] /\ wire[s][i].event = aimed[s][i - 2]
LastClose(s) ==
    \A i \in 1..Len(wire[s]) : wire[s][i].kind = "close" => i = Len(wire[s])

Seen(s) == RanksRise(s) /\ Begins(s) /\ InOrder(s) /\ LastClose(s)

SocketInv(s) ==
    /\ Unborn(s) /\ OneCloser(s) /\ LockHeld(s) /\ OwnTasks(s) /\ LiveTasks(s)
    /\ Handshake(s) /\ Queue(s) /\ Seen(s)

Inv == Types /\ \A s \in Sockets : SocketInv(s)

-----------------------------------------------------------------------------
(* Sockets a step leaves alone.                                            *)

Same(s) ==
    /\ s \in attached' <=> s \in attached
    /\ ready'[s] = ready[s] /\ pending'[s] = pending[s] /\ inflight'[s] = inflight[s]
    /\ opq'[s] = opq[s] /\ io'[s] = io[s] /\ sched'[s] = sched[s]
    /\ stage'[s] = stage[s] /\ busy'[s] = busy[s]
    /\ wire'[s] = wire[s] /\ aimed'[s] = aimed[s]

LEMMA Untouched ==
    ASSUME NEW s \in Sockets, SocketInv(s), Same(s)
    PROVE  SocketInv(s)'
<1> USE DEF Same
<1>1. (Ended(s)' <=> Ended(s)) /\ (IsClosed(s)' <=> IsClosed(s))
  BY DEF Ended, IsClosed
<1>2. (CloserCreated(s)' <=> CloserCreated(s)) /\ (CloserWaits(s)' <=> CloserWaits(s))
  BY DEF CloserCreated, CloserWaits
<1>3. Unborn(s)'
  BY DEF SocketInv, Unborn
<1>4. OneCloser(s)'
  BY <1>1, <1>2 DEF SocketInv, OneCloser
<1>5. LockHeld(s)'
  BY <1>1 DEF SocketInv, LockHeld, Holder
<1>6. OwnTasks(s)'
  BY DEF SocketInv, OwnTasks
<1>7. LiveTasks(s)'
  BY DEF SocketInv, LiveTasks
<1>8. Handshake(s)'
  BY <1>1 DEF SocketInv, Handshake
<1>9. Queue(s)'
  BY DEF SocketInv, Queue, Flushing, Line, Taken, Holder
<1>10. Seen(s)'
  BY DEF SocketInv, Seen, RanksRise, Begins, InOrder, LastClose
<1> QED
  BY <1>3, <1>4, <1>5, <1>6, <1>7, <1>8, <1>9, <1>10 DEF SocketInv

-----------------------------------------------------------------------------
(* What the pieces of an action do to one socket.                          *)

\* A detached socket loses its queue and gets its closer.
Detached(s, kind) ==
    /\ s \in attached /\ s \notin attached'
    /\ pending'[s] = <<>>
    /\ sched'[s] = sched[s] \cup {[kind |-> kind, event |-> 0]}

KeptAttached(s) ==
    /\ s \in attached' <=> s \in attached
    /\ pending'[s] = pending[s] /\ sched'[s] = sched[s]

LEMMA DetachEffect ==
    ASSUME Types, NEW s \in Sockets, NEW S, NEW kind, DetachAll(S, kind)
    PROVE  IF s \in S /\ s \in attached THEN Detached(s, kind) ELSE KeptAttached(s)
<1>1. attached' = attached \ (S \cap attached)
  BY DEF DetachAll, DetachAndSend, Winners
<1>2. pending'[s] = IF s \in S \cap attached THEN <<>> ELSE pending[s]
  BY DEF DetachAll, DiscardPending, Winners
<1>3. sched'[s] = sched[s] \cup (IF s \in S \cap attached THEN {[kind |-> kind, event |-> 0]} ELSE {})
  BY DEF DetachAll, DetachAndSend, Winners, Closer, Task
<1> QED
  BY <1>1, <1>2, <1>3 DEF Detached, KeptAttached

\* The wire of a socket gains the frame f.
Gains(s, f) ==
    /\ f \in Frames
    /\ wire'[s] \in Seq(Frames) /\ Len(wire'[s]) = Len(wire[s]) + 1
    /\ \A i \in 1..Len(wire[s]) : wire'[s][i] = wire[s][i]
    /\ wire'[s][Len(wire[s]) + 1] = f

LEMMA GainEffect ==
    ASSUME Types, NEW s \in Sockets, NEW f \in Frames, wire'[s] = Append(wire[s], f)
    PROVE  Gains(s, f)
<1>1. wire[s] \in Seq(Frames)
  BY DEF Types
<1> QED
  BY <1>1 DEF Gains

LEMMA EndGain ==
    ASSUME Types, NEW s \in Sockets, NEW f, Gains(s, f)
    PROVE  /\ Ended(s)' <=> Ended(s) \/ f.kind \in {"notice", "close"}
           /\ IsClosed(s)' <=> IsClosed(s) \/ f.kind = "close"
<1>1. Len(wire[s]) \in Nat
  BY DEF Types
<1>2. 1..Len(wire'[s]) = (1..Len(wire[s])) \cup {Len(wire[s]) + 1}
  BY <1>1 DEF Gains
<1> QED
  BY <1>2 DEF Gains, Ended, IsClosed

\* The first two frames stay what they are.
LEMMA StartStays ==
    ASSUME Types, NEW s \in Sockets, NEW f, wire'[s] = wire[s] \/ Gains(s, f),
           Len(wire[s]) >= 2 /\ wire[s][1].kind = "ready" /\ wire[s][2].kind = "history"
    PROVE  Len(wire'[s]) >= 2 /\ wire'[s][1].kind = "ready" /\ wire'[s][2].kind = "history"
<1>1. CASE wire'[s] = wire[s]
  BY <1>1
<1>2. CASE Gains(s, f)
  <2>1. Len(wire[s]) \in Nat
    BY DEF Types
  <2>2. 1 \in 1..Len(wire[s]) /\ 2 \in 1..Len(wire[s])
    BY <2>1
  <2>3. wire'[s][1] = wire[s][1] /\ wire'[s][2] = wire[s][2]
    BY <1>2, <2>2 DEF Gains
  <2>4. Len(wire'[s]) = Len(wire[s]) + 1
    BY <1>2 DEF Gains
  <2>5. Len(wire'[s]) >= 2
    BY <2>1, <2>4
  <2> QED
    BY <2>3, <2>5
<1> QED
  BY <1>1, <1>2

\* What the client has seen stays in order when the new frame is not of an
\* earlier kind and carries the event that is due.
LEMMA SeenGain ==
    ASSUME Types, NEW s \in Sockets, Seen(s), NEW f, Gains(s, f), ~IsClosed(s),
           aimed'[s] = aimed[s],
           \A i \in 1..Len(wire[s]) : Rank[wire[s][i].kind] <= Rank[f.kind],
           f.kind \in {"queued", "live"} =>
              Len(wire[s]) >= 2 /\ wire[s][1].kind = "ready" /\ wire[s][2].kind = "history",
           f.kind = "queued" =>
              Len(wire[s]) - 1 \in DOMAIN aimed[s] /\ f.event = aimed[s][Len(wire[s]) - 1]
    PROVE  Seen(s)'
<1>1. Len(wire[s]) \in Nat
  BY DEF Types
<1>2. 1..Len(wire'[s]) = (1..Len(wire[s])) \cup {Len(wire[s]) + 1}
  BY <1>1 DEF Gains
<1>3. RanksRise(s)'
  <2> SUFFICES ASSUME NEW i \in 1..Len(wire'[s]), NEW j \in 1..Len(wire'[s]), i < j
               PROVE  Rank[wire'[s][i].kind] <= Rank[wire'[s][j].kind]
    BY DEF RanksRise, Rank
  <2>1. i \in 1..Len(wire[s])
    BY <1>1 DEF Gains
  <2>2. CASE j \in 1..Len(wire[s])
    BY <2>1, <2>2 DEF Gains, Seen, RanksRise
  <2>3. CASE j = Len(wire[s]) + 1
    BY <2>1, <2>3 DEF Gains
  <2> QED
    BY <1>2, <2>2, <2>3
<1>4. Begins(s)'
  <2> SUFFICES ASSUME NEW i \in 1..Len(wire'[s]), wire'[s][i].kind \in {"queued", "live"}
               PROVE  i > 2 /\ wire'[s][1].kind = "ready" /\ wire'[s][2].kind = "history"
    BY DEF Begins
  <2>1. i > 2 /\ i <= Len(wire[s]) + 1
        /\ wire[s][1].kind = "ready" /\ wire[s][2].kind = "history"
    <3>1. CASE i \in 1..Len(wire[s])
      BY <3>1 DEF Gains, Seen, Begins
    <3>2. CASE i = Len(wire[s]) + 1
      BY <3>2, <1>1 DEF Gains
    <3> QED
      BY <1>2, <3>1, <3>2
  <2>2. 1 \in 1..Len(wire[s]) /\ 2 \in 1..Len(wire[s])
    BY <2>1, <1>1
  <2> QED
    BY <2>1, <2>2 DEF Gains
<1>5. InOrder(s)'
  <2> SUFFICES ASSUME NEW i \in 1..Len(wire'[s]), wire'[s][i].kind = "queued"
               PROVE  i - 2 \in DOMAIN aimed[s] /\ wire'[s][i].event = aimed[s][i - 2]
    BY DEF InOrder
  <2>1. CASE i \in 1..Len(wire[s])
    BY <2>1 DEF Gains, Seen, InOrder
  <2>2. CASE i = Len(wire[s]) + 1
    <3>1. i - 2 = Len(wire[s]) - 1
      BY <2>2, <1>1
    <3> QED
      BY <2>2, <3>1 DEF Gains
  <2> QED
    BY <1>2, <2>1, <2>2
<1>6. LastClose(s)'
  BY <1>1, <1>2 DEF Gains, LastClose, IsClosed
<1> QED
  BY <1>3, <1>4, <1>5, <1>6 DEF Seen

LEMMA RankBelow ==
    ASSUME Types, NEW s \in Sockets, ~Ended(s), NEW i \in 1..Len(wire[s])
    PROVE  Rank[wire[s][i].kind] \in 1..4
<1>1. wire[s][i] \in Frames
  BY DEF Types
<1>2. wire[s][i].kind \in {"ready", "history", "queued", "live"}
  BY <1>1 DEF Ended, Frames, FrameKinds
<1> QED
  BY <1>2 DEF Rank, FrameKinds

\* The holder of the operation lock releases it.
LEMMA LeaveEffect ==
    ASSUME Types, NEW s \in Sockets, opq[s] # <<>>, opq'[s] = Tail(opq[s])
    PROVE  /\ Holder(s) = opq[s][1] /\ Holder(s) \in Tasks /\ 1 \in 1..Len(opq[s])
           /\ Len(opq'[s]) = Len(opq[s]) - 1 /\ Len(opq[s]) \in Nat
           /\ \A i \in 1..Len(opq'[s]) : i + 1 \in 2..Len(opq[s]) /\ opq'[s][i] = opq[s][i + 1]
<1>1. opq[s] \in Seq(Tasks)
  BY DEF Types
<1> QED
  BY <1>1 DEF Holder

-----------------------------------------------------------------------------
LEMMA WireSame ==
    ASSUME NEW s \in Sockets, wire'[s] = wire[s], aimed'[s] = aimed[s]
    PROVE  /\ Ended(s)' <=> Ended(s)
           /\ IsClosed(s)' <=> IsClosed(s)
           /\ Seen(s) => Seen(s)'
BY DEF Ended, IsClosed, Seen, RanksRise, Begins, InOrder, LastClose

LEMMA LineSame ==
    ASSUME NEW s \in Sockets, Line(s), s \in attached' => s \in attached,
           stage'[s] = stage[s], pending'[s] = pending[s], inflight'[s] = inflight[s],
           wire'[s] = wire[s], aimed'[s] = aimed[s]
    PROVE  Line(s)'
<1>1. Taken(s)' = Taken(s)
  BY DEF Taken
<1> QED
  BY <1>1 DEF Line

\* A task comes to wait for the operation lock.
LEMMA WaitEffect ==
    ASSUME Types, NEW s \in Sockets, NEW t \in Tasks, opq'[s] = Append(opq[s], t)
    PROVE  /\ Len(opq'[s]) = Len(opq[s]) + 1 /\ Len(opq[s]) \in Nat
           /\ opq'[s] # <<>>
           /\ opq'[s][Len(opq[s]) + 1] = t
           /\ \A i \in 1..Len(opq[s]) : opq'[s][i] = opq[s][i]
           /\ 1..Len(opq'[s]) = (1..Len(opq[s])) \cup {Len(opq[s]) + 1}
           /\ opq[s] # <<>> => Holder(s)' = Holder(s)
<1>1. opq[s] \in Seq(Tasks)
  BY DEF Types
<1>2. Len(opq'[s]) = Len(opq[s]) + 1 /\ Len(opq[s]) \in Nat
  BY <1>1
<1>3. /\ opq'[s][Len(opq[s]) + 1] = t
      /\ \A i \in 1..Len(opq[s]) : opq'[s][i] = opq[s][i]
  BY <1>1
<1>4. 1..Len(opq'[s]) = (1..Len(opq[s])) \cup {Len(opq[s]) + 1}
  BY <1>2
<1>5. opq'[s] \in Seq(Tasks) /\ opq'[s] # <<>>
  BY <1>1
<1>6. ASSUME opq[s] # <<>>
      PROVE  Holder(s)' = Holder(s)
  <2>1. Head(opq[s]) = opq[s][1] /\ 1 \in 1..Len(opq[s])
    BY <1>1, <1>6
  <2>2. Head(opq'[s]) = opq'[s][1]
    BY <1>5
  <2> QED
    BY <1>3, <2>1, <2>2 DEF Holder
<1> QED
  BY <1>2, <1>3, <1>4, <1>5, <1>6

-----------------------------------------------------------------------------
(* register.                                                               *)

LEMMA RegisterKeeps ==
    ASSUME Inv, NEW s \in Sockets, Register(s)
    PROVE  Inv'
<1> USE DEF Inv
<1>1. Types'
  BY DEF Types, Register, Stages, lockVars, histVars
<1>2. ASSUME NEW u \in Sockets, u # s
      PROVE  SocketInv(u)'
  <2>1. Same(u)
    BY <1>2 DEF Types, Register, lockVars, histVars, Same
  <2> QED
    BY <2>1, Untouched
<1>3. SocketInv(s)'
  <2>1. /\ stage[s] = "new" /\ stage'[s] \in {"ready", "refused"}
        /\ s \in attached' <=> stage'[s] = "ready"
        /\ ready'[s] = ready[s] /\ pending'[s] = pending[s] /\ inflight'[s] = inflight[s]
        /\ opq'[s] = opq[s] /\ io'[s] = io[s] /\ sched'[s] = sched[s]
        /\ busy'[s] = busy[s] /\ wire'[s] = wire[s] /\ aimed'[s] = aimed[s]
    <3>1. stage[s] = "new" /\ s \notin attached
      BY DEF Register, SocketInv, Unborn
    <3> QED
      BY <3>1 DEF Register, Types, lockVars, histVars
  <2>2. /\ ~ready[s] /\ ~busy[s] /\ pending[s] = <<>> /\ inflight[s] = 0 /\ aimed[s] = <<>>
        /\ opq[s] = <<>> /\ sched[s] = {} /\ wire[s] = <<>>
    BY <2>1 DEF SocketInv, Unborn
  <2>3. ~Ended(s)' /\ ~IsClosed(s)' /\ ~CloserCreated(s)' /\ ~CloserWaits(s)' /\ io[s] = "none"
    BY <2>1, <2>2 DEF Ended, IsClosed, CloserCreated, CloserWaits, SocketInv, LockHeld
  <2>4. Unborn(s)' /\ OneCloser(s)' /\ LockHeld(s)' /\ OwnTasks(s)' /\ LiveTasks(s)'
    BY <2>1, <2>2, <2>3 DEF Unborn, OneCloser, LockHeld, OwnTasks, LiveTasks
  <2>5. Handshake(s)' /\ Queue(s)'
    BY <2>1, <2>2, <2>3 DEF Handshake, Queue, Flushing, Line
  <2>6. Seen(s)'
    BY <2>1, WireSame DEF SocketInv
  <2> QED
    BY <2>4, <2>5, <2>6 DEF SocketInv
<1> QED
  BY <1>1, <1>2, <1>3

-----------------------------------------------------------------------------
(* The request.                                                            *)

\* The request's own task joins the queue of the lock.
LEMMA OwnWaits ==
    ASSUME Inv, NEW s \in Sockets, NEW t \in Tasks, ~busy[s],
           \/ t.kind = "direct" /\ stage[s] \in {"ready", "history"}
           \/ t.kind = "activate" /\ stage[s] = "activate",
           opq' = [opq EXCEPT ![s] = Append(@, t)],
           busy' = [busy EXCEPT ![s] = TRUE],
           UNCHANGED <<queueVars, stage, io, sched, histVars>>
    PROVE  Inv'
<1> USE DEF Inv
<1>1. Types'
  BY DEF Types, queueVars, histVars
<1>2. ASSUME NEW u \in Sockets, u # s
      PROVE  SocketInv(u)'
  <2>1. Same(u)
    BY <1>2 DEF Types, queueVars, histVars, Same
  <2> QED
    BY <2>1, Untouched
<1>3. SocketInv(s)'
  <2>1. /\ s \in attached' <=> s \in attached
        /\ ready'[s] = ready[s] /\ pending'[s] = pending[s] /\ inflight'[s] = inflight[s]
        /\ opq'[s] = Append(opq[s], t) /\ io'[s] = io[s] /\ sched'[s] = sched[s]
        /\ stage'[s] = stage[s] /\ busy'[s] /\ wire'[s] = wire[s] /\ aimed'[s] = aimed[s]
    BY DEF Types, queueVars, histVars
  <2>2. /\ Len(opq'[s]) = Len(opq[s]) + 1 /\ Len(opq[s]) \in Nat
        /\ opq'[s] # <<>>
        /\ opq'[s][Len(opq[s]) + 1] = t
        /\ \A i \in 1..Len(opq[s]) : opq'[s][i] = opq[s][i]
        /\ 1..Len(opq'[s]) = (1..Len(opq[s])) \cup {Len(opq[s]) + 1}
        /\ opq[s] # <<>> => Holder(s)' = Holder(s)
    BY <2>1, WaitEffect
  <2>3. ~IsCloser(t) /\ IsOwn(t)
    BY DEF IsCloser, IsOwn
  <2>4. /\ Ended(s)' <=> Ended(s)
        /\ IsClosed(s)' <=> IsClosed(s)
        /\ Seen(s)'
    BY <2>1, WireSame DEF SocketInv
  <2>5. /\ CloserCreated(s)' <=> CloserCreated(s)
        /\ CloserWaits(s)' <=> CloserWaits(s)
    BY <2>1, <2>2, <2>3 DEF CloserCreated, CloserWaits
  <2>6. Unborn(s)'
    BY <2>1 DEF Unborn
  <2>7. OneCloser(s)'
    BY <2>1, <2>2, <2>3, <2>4, <2>5 DEF OneCloser, SocketInv
  <2>8. LockHeld(s)'
    BY <2>1, <2>2, <2>4 DEF LockHeld, SocketInv
  <2>9. OwnTasks(s)'
    <3>1. \A i \in 1..Len(opq[s]) : ~IsOwn(opq[s][i])
      BY DEF SocketInv, OwnTasks
    <3> QED
      BY <2>1, <2>2, <2>3, <3>1 DEF OwnTasks, SocketInv, IsOwn
  <2>10. LiveTasks(s)'
    BY <2>1, <2>2 DEF LiveTasks, SocketInv
  <2>11. Handshake(s)'
    BY <2>1, <2>4 DEF Handshake, SocketInv
  <2>12. Flushing(s)'
    <3>1. CASE opq[s] = <<>>
      <4>1. io[s] = "none"
        BY <3>1 DEF SocketInv, LockHeld, Types
      <4>2. inflight[s] = 0
        BY <4>1 DEF SocketInv, Queue, Flushing
      <4> QED
        BY <4>1, <4>2, <2>1 DEF Flushing
    <3>2. CASE opq[s] # <<>>
      <4>1. Holder(s)' = Holder(s)
        BY <3>2, <2>2
      <4> QED
        BY <4>1, <2>1 DEF SocketInv, Queue, Flushing
    <3> QED
      BY <3>1, <3>2
  <2>13. Line(s)'
    BY <2>1, LineSame DEF Queue, SocketInv
  <2> QED
    BY <2>4, <2>6, <2>7, <2>8, <2>9, <2>10, <2>11, <2>12, <2>13 DEF SocketInv, Queue
<1> QED
  BY <1>1, <1>2, <1>3

\* The request gives its socket up, and no task of its own is left.
LEMMA GivesUp ==
    ASSUME Inv, NEW s \in Sockets, ~busy[s],
           stage[s] \in {"ready", "history", "activate", "live"},
           stage' = [stage EXCEPT ![s] = "cleanup"],
           UNCHANGED <<queueVars, lockVars, busy, histVars>>
    PROVE  Inv'
<1> USE DEF Inv
<1>1. Types'
  BY DEF Types, queueVars, lockVars, histVars, Stages
<1>2. ASSUME NEW u \in Sockets, u # s
      PROVE  SocketInv(u)'
  <2>1. Same(u)
    BY <1>2 DEF Types, queueVars, lockVars, histVars, Same
  <2> QED
    BY <2>1, Untouched
<1>3. SocketInv(s)'
  <2>1. /\ s \in attached' <=> s \in attached
        /\ ready'[s] = ready[s] /\ pending'[s] = pending[s] /\ inflight'[s] = inflight[s]
        /\ opq'[s] = opq[s] /\ io'[s] = io[s] /\ sched'[s] = sched[s]
        /\ stage'[s] = "cleanup" /\ busy'[s] = busy[s]
        /\ wire'[s] = wire[s] /\ aimed'[s] = aimed[s]
    BY DEF Types, queueVars, lockVars, histVars
  <2>2. /\ Ended(s)' <=> Ended(s)
        /\ IsClosed(s)' <=> IsClosed(s)
        /\ Seen(s)'
    BY <2>1, WireSame DEF SocketInv
  <2>3. Unborn(s)' /\ LiveTasks(s)' /\ Handshake(s)'
    BY <2>1, <2>2 DEF SocketInv, Unborn, LiveTasks, Handshake
  <2>6. Flushing(s)'
    BY <2>1 DEF SocketInv, Queue, Flushing, Holder
  <2>7. Line(s)'
    BY <2>1 DEF Line
  <2>4. OneCloser(s)' /\ LockHeld(s)'
    BY <2>1, <2>2 DEF SocketInv, OneCloser, LockHeld, Holder, CloserCreated, CloserWaits
  <2>5. OwnTasks(s)'
    <3>1. \A i \in 1..Len(opq[s]) : ~IsOwn(opq[s][i])
      BY DEF SocketInv, OwnTasks
    <3> QED
      BY <2>1, <3>1 DEF SocketInv, OwnTasks, IsOwn
  <2> QED
    BY <2>2, <2>3, <2>4, <2>5, <2>6, <2>7 DEF SocketInv, Queue
<1> QED
  BY <1>1, <1>2, <1>3

LEMMA SendKeeps ==
    ASSUME Inv, NEW s \in Sockets, Send(s)
    PROVE  Inv'
<1>1. CASE s \in attached
  <2>1. Task("direct", 0) \in Tasks /\ Task("direct", 0).kind = "direct"
    BY ConstantsAssumption DEF Task, Tasks, TaskKinds
  <2> QED
    BY <1>1, <2>1, OwnWaits DEF Send
<1>2. CASE s \notin attached
  BY <1>2, GivesUp DEF Send, lockVars
<1> QED
  BY <1>1, <1>2

LEMMA ActivateKeeps ==
    ASSUME Inv, NEW s \in Sockets, Activate(s)
    PROVE  Inv'
<1>1. CASE s \in attached
  <2>1. Task("activate", 0) \in Tasks /\ Task("activate", 0).kind = "activate"
    BY ConstantsAssumption DEF Task, Tasks, TaskKinds
  <2> QED
    BY <1>1, <2>1, OwnWaits DEF Activate
<1>2. CASE s \notin attached
  BY <1>2, GivesUp DEF Activate, lockVars
<1> QED
  BY <1>1, <1>2

LEMMA EndSessionKeeps ==
    ASSUME Inv, NEW s \in Sockets, EndSession(s)
    PROVE  Inv'
BY GivesUp DEF EndSession

-----------------------------------------------------------------------------
(* The closes.                                                             *)

LEMMA DetachTypes ==
    ASSUME Types, NEW S, NEW kind \in {"close", "notify"}, DetachAll(S, kind)
    PROVE  /\ attached' \subseteq Sockets
           /\ pending' \in [Sockets -> Seq(Events)]
           /\ sched' \in [Sockets -> SUBSET Tasks]
<1>1. attached' \subseteq Sockets
  BY DEF DetachAll, DetachAndSend, Types
<1>2. pending' \in [Sockets -> Seq(Events)]
  <2>1. pending' = [s \in Sockets |-> IF s \in Winners(S) THEN <<>> ELSE pending[s]]
    BY DEF DetachAll, DiscardPending
  <2>2. \A s \in Sockets : pending[s] \in Seq(Events)
    BY DEF Types
  <2>3. <<>> \in Seq(Events)
    OBVIOUS
  <2> QED
    BY <2>1, <2>2, <2>3
<1>3. Task(kind, 0) \in Tasks
  BY ConstantsAssumption DEF Task, Tasks, TaskKinds
<1>4. sched' \in [Sockets -> SUBSET Tasks]
  BY <1>3 DEF DetachAll, DetachAndSend, Closer, Types
<1> QED
  BY <1>1, <1>2, <1>4

\* A step that only closes.
LEMMA ClosesOnly ==
    ASSUME Inv, NEW s \in Sockets, NEW kind \in {"close", "notify"},
           KeptAttached(s) \/ Detached(s, kind),
           ready'[s] = ready[s], inflight'[s] = inflight[s],
           opq'[s] = opq[s], io'[s] = io[s], busy'[s] = busy[s],
           wire'[s] = wire[s], aimed'[s] = aimed[s],
           stage'[s] = stage[s] \/ (stage[s] = "cleanup" /\ stage'[s] = "done")
    PROVE  SocketInv(s)'
<1> USE DEF Inv
<1>1. /\ Ended(s)' <=> Ended(s)
      /\ IsClosed(s)' <=> IsClosed(s)
      /\ Seen(s)'
  BY WireSame DEF SocketInv
<1>2. Unborn(s)'
  BY DEF SocketInv, Unborn, KeptAttached, Detached
<1>3. CloserWaits(s)' <=> CloserWaits(s)
  BY DEF CloserWaits
<1>4. OneCloser(s)'
  <2>1. CASE KeptAttached(s)
    <3>1. CloserCreated(s)' <=> CloserCreated(s)
      BY <2>1 DEF KeptAttached, CloserCreated
    <3> QED
      BY <1>1, <1>3, <2>1, <3>1 DEF SocketInv, OneCloser, KeptAttached
  <2>2. CASE Detached(s, kind)
    <3>1. ~CloserWaits(s) /\ ~Ended(s) /\ \A t \in sched[s] : ~IsCloser(t)
      BY <2>2 DEF SocketInv, OneCloser, CloserCreated, Detached
    <3>2. \A t, u \in sched'[s] : IsCloser(t) /\ IsCloser(u) => t = u
      BY <2>2, <3>1 DEF Detached
    <3> QED
      BY <1>1, <1>3, <2>2, <3>1, <3>2 DEF SocketInv, OneCloser, Detached
  <2> QED
    BY <2>1, <2>2
<1>5. LockHeld(s)'
  BY <1>1 DEF SocketInv, LockHeld, Holder
<1>6. OwnTasks(s)'
  BY DEF SocketInv, OwnTasks, IsOwn, KeptAttached, Detached
<1>7. LiveTasks(s)'
  BY DEF SocketInv, LiveTasks, KeptAttached, Detached
<1>8. Handshake(s)'
  BY <1>1 DEF SocketInv, Handshake
<1>9. Flushing(s)'
  BY DEF SocketInv, Queue, Flushing, Holder
<1>10. Line(s)'
  <2>1. CASE s \notin attached' \/ stage'[s] = "done"
    BY <2>1 DEF Line
  <2>2. CASE KeptAttached(s) /\ stage'[s] = stage[s]
    BY <2>2, LineSame DEF SocketInv, Queue, KeptAttached
  <2> QED
    BY <2>1, <2>2 DEF Detached
<1> QED
  BY <1>1, <1>2, <1>4, <1>5, <1>6, <1>7, <1>8, <1>9, <1>10 DEF SocketInv, Queue

\* close_room, close_member, close_all and the lease task.
LEMMA CollectiveClose ==
    ASSUME Inv, NEW S, NEW kind \in {"close", "notify"}, DetachAll(S, kind),
           UNCHANGED <<ready, inflight, opq, io, sessVars, histVars>>
    PROVE  Inv'
<1> USE DEF Inv
<1>1. Types'
  BY DetachTypes DEF Types, sessVars, histVars
<1>2. ASSUME NEW s \in Sockets
      PROVE  SocketInv(s)'
  <2>1. KeptAttached(s) \/ Detached(s, kind)
    BY DetachEffect
  <2> QED
    BY <2>1, ClosesOnly DEF sessVars, histVars
<1> QED
  BY <1>1, <1>2

LEMMA CloseRoomKeeps ==
    ASSUME Inv, NEW r, NEW subjects, CloseRoom(r, subjects)
    PROVE  Inv'
BY CollectiveClose DEF CloseRoom

LEMMA CloseAllKeeps ==
    ASSUME Inv, CloseAll
    PROVE  Inv'
BY CollectiveClose DEF CloseAll

LEMMA LeaseCloseKeeps ==
    ASSUME Inv, NEW s \in Sockets, LeaseClose(s)
    PROVE  Inv'
BY CollectiveClose DEF LeaseClose

LEMMA CleanupKeeps ==
    ASSUME Inv, NEW s \in Sockets, Cleanup(s)
    PROVE  Inv'
<1> USE DEF Inv
<1>1. Types'
  BY DetachTypes DEF Types, Cleanup, histVars, Stages
<1>2. ASSUME NEW u \in Sockets
      PROVE  SocketInv(u)'
  <2>1. KeptAttached(u) \/ Detached(u, "close")
    BY DetachEffect DEF Cleanup
  <2>2. stage'[u] = stage[u] \/ (stage[u] = "cleanup" /\ stage'[u] = "done")
    BY DEF Cleanup, Types
  <2> QED
    BY <2>1, <2>2, ClosesOnly DEF Cleanup, histVars
<1> QED
  BY <1>1, <1>2

-----------------------------------------------------------------------------
(* The operation lock.                                                     *)

LEMMA StartKeeps ==
    ASSUME Inv, NEW s \in Sockets, Start(s)
    PROVE  Inv'
<1> USE DEF Inv
<1> PICK t \in sched[s] : /\ opq' = [opq EXCEPT ![s] = Append(@, t)]
                          /\ sched' = [sched EXCEPT ![s] = @ \ {t}]
  BY DEF Start
<1>t. t \in Tasks
  BY DEF Types
<1>1. Types'
  BY <1>t DEF Types, Start, queueVars, sessVars, histVars
<1>2. ASSUME NEW u \in Sockets, u # s
      PROVE  SocketInv(u)'
  <2>1. Same(u)
    BY <1>2 DEF Types, Start, queueVars, sessVars, histVars, Same
  <2> QED
    BY <2>1, Untouched
<1>3. SocketInv(s)'
  <2>1. /\ s \in attached' <=> s \in attached
        /\ ready'[s] = ready[s] /\ pending'[s] = pending[s] /\ inflight'[s] = inflight[s]
        /\ opq'[s] = Append(opq[s], t) /\ io'[s] = io[s] /\ sched'[s] = sched[s] \ {t}
        /\ stage'[s] = stage[s] /\ busy'[s] = busy[s]
        /\ wire'[s] = wire[s] /\ aimed'[s] = aimed[s]
    BY DEF Types, Start, queueVars, sessVars, histVars
  <2>2. /\ Len(opq'[s]) = Len(opq[s]) + 1 /\ Len(opq[s]) \in Nat
        /\ opq'[s] # <<>>
        /\ opq'[s][Len(opq[s]) + 1] = t
        /\ \A i \in 1..Len(opq[s]) : opq'[s][i] = opq[s][i]
        /\ 1..Len(opq'[s]) = (1..Len(opq[s])) \cup {Len(opq[s]) + 1}
        /\ opq[s] # <<>> => Holder(s)' = Holder(s)
    BY <2>1, <1>t, WaitEffect
  <2>4. /\ Ended(s)' <=> Ended(s)
        /\ IsClosed(s)' <=> IsClosed(s)
        /\ Seen(s)'
    BY <2>1, WireSame DEF SocketInv
  <2>6. Unborn(s)'
    BY <2>1 DEF SocketInv, Unborn
  <2>7. OneCloser(s)'
    <3>1. CASE IsCloser(t)
      <4>1. CloserCreated(s)
        BY <3>1 DEF CloserCreated
      <4>2. ~CloserCreated(s)' /\ s \notin attached
        BY <2>1, <3>1, <4>1 DEF CloserCreated, SocketInv, OneCloser
      <4>3. ~IsClosed(s)
        BY <4>1 DEF SocketInv, OneCloser, IsClosed, Ended
      <4>4. \A i \in 1..Len(opq[s]) : ~IsCloser(opq[s][i])
        BY <4>1 DEF SocketInv, OneCloser, CloserWaits
      <4>5. \A i, j \in 1..Len(opq'[s]) : IsCloser(opq'[s][i]) /\ IsCloser(opq'[s][j]) => i = j
        BY <2>2, <4>4
      <4>6. \A a, b \in sched'[s] : IsCloser(a) /\ IsCloser(b) => a = b
        BY <2>1 DEF SocketInv, OneCloser
      <4> QED
        BY <2>1, <2>4, <4>2, <4>3, <4>5, <4>6 DEF OneCloser
    <3>2. CASE ~IsCloser(t)
      <4>1. CloserCreated(s)' <=> CloserCreated(s)
        BY <2>1, <3>2 DEF CloserCreated
      <4>2. CloserWaits(s)' <=> CloserWaits(s)
        BY <2>2, <3>2 DEF CloserWaits
      <4> QED
        BY <2>1, <2>2, <2>4, <3>2, <4>1, <4>2 DEF SocketInv, OneCloser
    <3> QED
      BY <3>1, <3>2
  <2>8. LockHeld(s)'
    BY <2>1, <2>2, <2>4 DEF LockHeld, SocketInv
  <2>9. OwnTasks(s)'
    <3>1. ~IsOwn(t)
      BY DEF SocketInv, OwnTasks
    <3> QED
      BY <2>1, <2>2, <3>1 DEF OwnTasks, SocketInv, IsOwn
  <2>10. LiveTasks(s)'
    BY <2>1, <2>2 DEF LiveTasks, SocketInv
  <2>11. Handshake(s)'
    BY <2>1, <2>4 DEF Handshake, SocketInv
  <2>12. Flushing(s)'
    <3>1. CASE opq[s] = <<>>
      <4>1. io[s] = "none"
        BY <3>1 DEF SocketInv, LockHeld, Types
      <4>2. inflight[s] = 0
        BY <4>1 DEF SocketInv, Queue, Flushing
      <4> QED
        BY <4>1, <4>2, <2>1 DEF Flushing
    <3>2. CASE opq[s] # <<>>
      <4>1. Holder(s)' = Holder(s)
        BY <3>2, <2>2
      <4> QED
        BY <4>1, <2>1 DEF SocketInv, Queue, Flushing
    <3> QED
      BY <3>1, <3>2
  <2>13. Line(s)'
    BY <2>1, LineSame DEF Queue, SocketInv
  <2> QED
    BY <2>4, <2>6, <2>7, <2>8, <2>9, <2>10, <2>11, <2>12, <2>13 DEF SocketInv, Queue
<1> QED
  BY <1>1, <1>2, <1>3

\* The holder of the lock finds nothing to write and releases it.
LEMMA ReleaseKeeps ==
    ASSUME Inv, NEW s \in Sockets, opq[s] # <<>>, io[s] = "none",
           opq'[s] = Tail(opq[s]), io'[s] = "none",
           s \in attached' <=> s \in attached,
           pending'[s] = pending[s], inflight'[s] = inflight[s], sched'[s] = sched[s],
           wire'[s] = wire[s], aimed'[s] = aimed[s],
           \/ /\ Holder(s).kind = "send"
              /\ ready'[s] = ready[s] /\ stage'[s] = stage[s] /\ busy'[s] = busy[s]
           \/ /\ IsOwn(Holder(s))
              /\ ready'[s] = ready[s] /\ stage'[s] = "cleanup" /\ ~busy'[s]
           \/ /\ Holder(s).kind = "activate"
              /\ ready'[s] = TRUE /\ stage'[s] = "live" /\ ~busy'[s]
    PROVE  SocketInv(s)'
<1> USE DEF Inv
<1>1. /\ Holder(s) = opq[s][1] /\ Holder(s) \in Tasks /\ 1 \in 1..Len(opq[s])
      /\ Len(opq'[s]) = Len(opq[s]) - 1 /\ Len(opq[s]) \in Nat
      /\ \A i \in 1..Len(opq'[s]) : i + 1 \in 2..Len(opq[s]) /\ opq'[s][i] = opq[s][i + 1]
  BY LeaveEffect
<1>2. ~IsCloser(Holder(s))
  BY DEF IsCloser, IsOwn
<1>3. /\ Ended(s)' <=> Ended(s)
      /\ IsClosed(s)' <=> IsClosed(s)
      /\ Seen(s)'
  BY WireSame DEF SocketInv
<1>4. Unborn(s)'
  BY DEF SocketInv, Unborn
<1>5. OneCloser(s)'
  <2>1. (CloserCreated(s)' <=> CloserCreated(s)) /\ (CloserWaits(s)' => CloserWaits(s))
    BY <1>1 DEF CloserCreated, CloserWaits
  <2>2. \A i, j \in 1..Len(opq'[s]) : IsCloser(opq'[s][i]) /\ IsCloser(opq'[s][j]) => i = j
    BY <1>1 DEF SocketInv, OneCloser
  <2> QED
    BY <1>3, <2>1, <2>2 DEF SocketInv, OneCloser
<1>6. LockHeld(s)'
  BY <1>3 DEF SocketInv, LockHeld
<1>7. OwnTasks(s)'
  <2>1. CASE Holder(s).kind = "send"
    BY <1>1, <2>1 DEF SocketInv, OwnTasks, IsOwn
  <2>2. CASE IsOwn(Holder(s))
    <3>1. \A i \in 1..Len(opq'[s]) : ~IsOwn(opq'[s][i])
      BY <1>1, <2>2 DEF SocketInv, OwnTasks
    <3> QED
      BY <3>1 DEF SocketInv, OwnTasks, IsOwn
  <2> QED
    BY <2>1, <2>2 DEF IsOwn
<1>8. LiveTasks(s)'
  BY <1>1 DEF SocketInv, LiveTasks
<1>9. Handshake(s)'
  <2>1. Holder(s).kind = "activate" => stage[s] = "activate"
    BY <1>1 DEF SocketInv, OwnTasks
  <2> QED
    BY <1>3, <2>1 DEF SocketInv, Handshake
<1>10. Flushing(s)'
  BY DEF SocketInv, Queue, Flushing
<1>11. Line(s)'
  <2>1. CASE stage'[s] \in {"cleanup", "live"}
    BY <2>1 DEF Line
  <2>2. CASE stage'[s] = stage[s]
    BY <2>2, LineSame DEF SocketInv, Queue
  <2> QED
    BY <2>1, <2>2
<1> QED
  BY <1>3, <1>4, <1>5, <1>6, <1>7, <1>8, <1>9, <1>10, <1>11 DEF SocketInv, Queue

\* The holder of the lock begins a write, or a close.
LEMMA BeginKeeps ==
    ASSUME Inv, NEW s \in Sockets, opq[s] # <<>>, io[s] = "none", io'[s] \in {"send", "close"},
           \/ s \in attached /\ io'[s] = "send"
           \/ IsCloser(Holder(s)),
           Holder(s).kind # "activate",
           s \in attached' <=> s \in attached,
           ready'[s] = ready[s], pending'[s] = pending[s], inflight'[s] = inflight[s],
           opq'[s] = opq[s], sched'[s] = sched[s], stage'[s] = stage[s], busy'[s] = busy[s],
           wire'[s] = wire[s], aimed'[s] = aimed[s]
    PROVE  SocketInv(s)'
<1> USE DEF Inv
<1>1. 1 \in 1..Len(opq[s]) /\ Holder(s) = opq[s][1] /\ Holder(s)' = Holder(s)
  <2>1. opq[s] \in Seq(Tasks)
    BY DEF Types
  <2> QED
    BY <2>1 DEF Holder
<1>2. /\ Ended(s)' <=> Ended(s)
      /\ IsClosed(s)' <=> IsClosed(s)
      /\ Seen(s)'
  BY WireSame DEF SocketInv
<1>3. ~Ended(s)
  <2>1. CASE s \in attached
    BY <2>1 DEF SocketInv, OneCloser
  <2>2. CASE IsCloser(Holder(s))
    <3>1. ~IsClosed(s)
      BY <1>1, <2>2 DEF SocketInv, OneCloser, CloserWaits
    <3> QED
      BY <3>1 DEF SocketInv, LockHeld
  <2> QED
    BY <2>1, <2>2
<1>4. IsCloser(Holder(s)) \/ io'[s] = "send"
  OBVIOUS
<1>5. Unborn(s)' /\ OwnTasks(s)' /\ LiveTasks(s)'
  BY DEF SocketInv, Unborn, OwnTasks, LiveTasks
<1>6. OneCloser(s)'
  BY <1>2 DEF SocketInv, OneCloser, CloserCreated, CloserWaits
<1>7. LockHeld(s)'
  BY <1>1, <1>2, <1>3, <1>4 DEF LockHeld
<1>8. Handshake(s)'
  BY <1>2 DEF SocketInv, Handshake
<1>9. Flushing(s)'
  BY <1>1 DEF SocketInv, Queue, Flushing
<1>10. Line(s)'
  BY LineSame DEF SocketInv, Queue
<1> QED
  BY <1>2, <1>5, <1>6, <1>7, <1>8, <1>9, <1>10 DEF SocketInv, Queue

LEMMA LeaveTypes ==
    ASSUME Types, NEW s \in Sockets, opq[s] # <<>>, Leave(s)
    PROVE  opq' \in [Sockets -> Seq(Tasks)] /\ opq'[s] = Tail(opq[s])
           /\ \A u \in Sockets : u # s => opq'[u] = opq[u]
<1>1. opq[s] \in Seq(Tasks)
  BY DEF Types
<1>2. Tail(opq[s]) \in Seq(Tasks)
  BY <1>1
<1> QED
  BY <1>2 DEF Leave, Types

LEMMA GrantSendKeeps ==
    ASSUME Inv, NEW s \in Sockets, GrantSend(s)
    PROVE  Inv'
<1> USE DEF Inv
<1>1. io[s] = "none" /\ opq[s] # <<>> /\ Holder(s).kind \in {"send", "direct"}
  BY DEF GrantSend, Granted
<1>2. CASE StillAttached(s) /\ io' = [io EXCEPT ![s] = "send"] /\ UNCHANGED <<opq, sessVars>>
  <2>1. Types'
    BY <1>2 DEF Types, GrantSend, queueVars, sessVars, histVars
  <2>2. ASSUME NEW u \in Sockets, u # s
        PROVE  SocketInv(u)'
    <3>1. Same(u)
      BY <1>2, <2>2 DEF Types, GrantSend, queueVars, sessVars, histVars, Same
    <3> QED
      BY <3>1, Untouched
  <2>3. SocketInv(s)'
    <3>1. s \in attached /\ io'[s] = "send"
      BY <1>2 DEF StillAttached, Types
    <3> QED
      BY <1>1, <1>2, <3>1, BeginKeeps DEF GrantSend, queueVars, sessVars, histVars
  <2> QED
    BY <2>1, <2>2, <2>3
<1>3. CASE /\ Leave(s)
           /\ IF Holder(s).kind = "direct"
                THEN /\ stage' = [stage EXCEPT ![s] = "cleanup"]
                     /\ busy' = [busy EXCEPT ![s] = FALSE]
                ELSE UNCHANGED sessVars
           /\ UNCHANGED io
  <2>0. opq' \in [Sockets -> Seq(Tasks)] /\ opq'[s] = Tail(opq[s])
        /\ \A u \in Sockets : u # s => opq'[u] = opq[u]
    BY <1>1, <1>3, LeaveTypes
  <2>1. Types'
    BY <1>3, <2>0 DEF Types, GrantSend, queueVars, sessVars, histVars, Stages
  <2>2. ASSUME NEW u \in Sockets, u # s
        PROVE  SocketInv(u)'
    <3>1. Same(u)
      BY <1>3, <2>0, <2>2 DEF Types, GrantSend, queueVars, sessVars, histVars, Same
    <3> QED
      BY <3>1, Untouched
  <2>3. SocketInv(s)'
    <3>1. \/ /\ Holder(s).kind = "send"
             /\ ready'[s] = ready[s] /\ stage'[s] = stage[s] /\ busy'[s] = busy[s]
          \/ /\ IsOwn(Holder(s))
             /\ ready'[s] = ready[s] /\ stage'[s] = "cleanup" /\ ~busy'[s]
      BY <1>1, <1>3 DEF Types, GrantSend, queueVars, sessVars, IsOwn
    <3> QED
      BY <1>1, <1>3, <2>0, <3>1, ReleaseKeeps DEF GrantSend, queueVars, histVars
  <2> QED
    BY <2>1, <2>2, <2>3
<1> QED
  BY <1>2, <1>3 DEF GrantSend

LEMMA GrantCloseKeeps ==
    ASSUME Inv, NEW s \in Sockets, GrantClose(s)
    PROVE  Inv'
<1> USE DEF Inv
<1>1. io[s] = "none" /\ opq[s] # <<>> /\ Holder(s).kind \in {"close", "notify"}
  BY DEF GrantClose, Granted
<1>2. io'[s] \in {"send", "close"} /\ io' \in [Sockets -> {"none", "send", "close"}]
      /\ \A u \in Sockets : u # s => io'[u] = io[u]
  BY DEF GrantClose, Types
<1>3. Types'
  BY <1>2 DEF Types, GrantClose, queueVars, sessVars, histVars
<1>4. ASSUME NEW u \in Sockets, u # s
      PROVE  SocketInv(u)'
  <2>1. Same(u)
    BY <1>2, <1>4 DEF Types, GrantClose, queueVars, sessVars, histVars, Same
  <2> QED
    BY <2>1, Untouched
<1>5. SocketInv(s)'
  BY <1>1, <1>2, BeginKeeps DEF GrantClose, IsCloser, queueVars, sessVars, histVars
<1> QED
  BY <1>3, <1>4, <1>5

LEMMA TakeArithmetic ==
    ASSUME NEW w \in Nat, w >= 2, NEW n \in Nat, n > 0, NEW a \in Nat, w - 2 + n = a
    PROVE  /\ w - 1 + (n - 1) = a /\ w - 2 + 1 = w - 1 /\ w - 1 \in 1..a
           /\ \A k \in 1..(n - 1) : w - 2 + (k + 1) = w - 1 + k
OBVIOUS

\* Activation takes the oldest event of the queue.
LEMMA TakeKeeps ==
    ASSUME Inv, NEW s \in Sockets, opq[s] # <<>>, io[s] = "none", io'[s] = "send",
           s \in attached, s \in attached', Holder(s).kind = "activate", pending[s] # <<>>,
           inflight'[s] = Head(pending[s]), pending'[s] = Tail(pending[s]),
           ready'[s] = ready[s], opq'[s] = opq[s], sched'[s] = sched[s],
           stage'[s] = stage[s], busy'[s] = busy[s],
           wire'[s] = wire[s], aimed'[s] = aimed[s]
    PROVE  SocketInv(s)'
<1> USE DEF Inv
<1>1. 1 \in 1..Len(opq[s]) /\ Holder(s) = opq[s][1] /\ Holder(s)' = Holder(s)
  <2>1. opq[s] \in Seq(Tasks)
    BY DEF Types
  <2> QED
    BY <2>1 DEF Holder
<1>2. stage[s] = "activate"
  BY <1>1 DEF SocketInv, OwnTasks
<1>3. /\ Ended(s)' <=> Ended(s)
      /\ IsClosed(s)' <=> IsClosed(s)
      /\ Seen(s)'
  BY WireSame DEF SocketInv
<1>4. ~Ended(s)
  BY DEF SocketInv, OneCloser
<1>5. inflight[s] = 0
  BY DEF SocketInv, Queue, Flushing
<1>6. /\ inflight'[s] = pending[s][1] /\ inflight'[s] # 0 /\ 1 \in 1..Len(pending[s])
      /\ Len(pending[s]) \in Nat /\ Len(pending[s]) > 0
      /\ Len(pending'[s]) = Len(pending[s]) - 1
      /\ \A k \in 1..Len(pending'[s]) :
            k + 1 \in 1..Len(pending[s]) /\ pending'[s][k] = pending[s][k + 1]
  <2>1. pending[s] \in Seq(Events)
    BY DEF Types
  <2>2. inflight'[s] = pending[s][1] /\ pending[s][1] \in Events /\ Len(pending[s]) > 0
    BY <2>1
  <2>3. inflight'[s] # 0
    BY <2>2, ConstantsAssumption DEF Events
  <2>4. /\ Len(pending[s]) \in Nat /\ Len(pending'[s]) = Len(pending[s]) - 1
        /\ 1 \in 1..Len(pending[s])
    BY <2>1
  <2>5. \A k \in 1..Len(pending'[s]) :
            k + 1 \in 1..Len(pending[s]) /\ pending'[s][k] = pending[s][k + 1]
    BY <2>1
  <2> QED
    BY <2>2, <2>3, <2>4, <2>5
<1>7. Len(wire[s]) \in Nat /\ Len(wire[s]) >= 2 /\ Len(aimed[s]) \in Nat
  BY <1>2 DEF Types, SocketInv, Handshake
<1>8. Taken(s) = Len(wire[s]) - 2 /\ Taken(s)' = Len(wire[s]) - 1
  BY <1>5, <1>6, <1>7 DEF Taken
<1>9. /\ Len(wire[s]) - 2 + Len(pending[s]) = Len(aimed[s])
      /\ \A k \in 1..Len(pending[s]) : pending[s][k] = aimed[s][Len(wire[s]) - 2 + k]
  BY <1>2, <1>8 DEF SocketInv, Queue, Line
<1>a. /\ Len(wire[s]) - 1 + Len(pending'[s]) = Len(aimed[s])
      /\ Len(wire[s]) - 2 + 1 = Len(wire[s]) - 1 /\ Len(wire[s]) - 1 \in 1..Len(aimed[s])
      /\ \A k \in 1..Len(pending'[s]) : Len(wire[s]) - 2 + (k + 1) = Len(wire[s]) - 1 + k
  <2>1. Len(wire[s]) - 2 + Len(pending[s]) = Len(aimed[s])
    BY <1>9
  <2>2. /\ Len(wire[s]) - 1 + (Len(pending[s]) - 1) = Len(aimed[s])
        /\ Len(wire[s]) - 2 + 1 = Len(wire[s]) - 1 /\ Len(wire[s]) - 1 \in 1..Len(aimed[s])
        /\ \A k \in 1..(Len(pending[s]) - 1) : Len(wire[s]) - 2 + (k + 1) = Len(wire[s]) - 1 + k
    <3> HIDE DEF Inv
    <3> QED
      BY <1>6, <1>7, <2>1, TakeArithmetic, Zenon
  <2> QED
    BY <1>6, <2>2
<1>10. Line(s)'
  <2>2. ASSUME NEW k \in 1..Len(pending'[s])
        PROVE  pending'[s][k] = aimed[s][Len(wire[s]) - 1 + k]
    <3>1. pending'[s][k] = aimed[s][Len(wire[s]) - 2 + (k + 1)]
      BY <1>6, <1>9
    <3> QED
      BY <3>1, <1>a
  <2> QED
    BY <1>2, <1>8, <1>a, <2>2 DEF Line
<1>11. Flushing(s)'
  <2>1. inflight'[s] = aimed[s][Len(wire[s]) - 2 + 1]
    BY <1>6, <1>9
  <2> QED
    BY <1>1, <1>6, <2>1, <1>a DEF Flushing
<1>12. Unborn(s)' /\ OwnTasks(s)' /\ LiveTasks(s)'
  BY <1>2 DEF SocketInv, Unborn, OwnTasks, LiveTasks
<1>13. OneCloser(s)'
  BY <1>3 DEF SocketInv, OneCloser, CloserCreated, CloserWaits
<1>14. LockHeld(s)'
  BY <1>3, <1>4 DEF LockHeld
<1>15. Handshake(s)'
  BY <1>3 DEF SocketInv, Handshake
<1> QED
  BY <1>3, <1>10, <1>11, <1>12, <1>13, <1>14, <1>15 DEF SocketInv, Queue

LEMMA GrantActivateKeeps ==
    ASSUME Inv, NEW s \in Sockets, GrantActivate(s)
    PROVE  Inv'
<1> USE DEF Inv
<1>1. io[s] = "none" /\ opq[s] # <<>> /\ Holder(s).kind = "activate"
  BY DEF GrantActivate, Granted
<1>2. CASE /\ Leave(s)
           /\ busy' = [busy EXCEPT ![s] = FALSE]
           /\ \/ /\ stage' = [stage EXCEPT ![s] = "cleanup"]
                 /\ UNCHANGED ready
              \/ /\ stage' = [stage EXCEPT ![s] = "live"]
                 /\ ready' = [ready EXCEPT ![s] = TRUE]
           /\ UNCHANGED <<pending, inflight, io>>
  <2>0. opq' \in [Sockets -> Seq(Tasks)] /\ opq'[s] = Tail(opq[s])
        /\ \A u \in Sockets : u # s => opq'[u] = opq[u]
    BY <1>1, <1>2, LeaveTypes
  <2>1. Types'
    BY <1>2, <2>0 DEF Types, GrantActivate, histVars, Stages
  <2>2. ASSUME NEW u \in Sockets, u # s
        PROVE  SocketInv(u)'
    <3>1. Same(u)
      BY <1>2, <2>0, <2>2 DEF Types, GrantActivate, histVars, Same
    <3> QED
      BY <3>1, Untouched
  <2>3. SocketInv(s)'
    <3>1. \/ /\ IsOwn(Holder(s))
             /\ ready'[s] = ready[s] /\ stage'[s] = "cleanup" /\ ~busy'[s]
          \/ /\ Holder(s).kind = "activate"
             /\ ready'[s] = TRUE /\ stage'[s] = "live" /\ ~busy'[s]
      BY <1>1, <1>2 DEF Types, IsOwn
    <3> QED
      BY <1>1, <1>2, <2>0, <3>1, ReleaseKeeps DEF GrantActivate, histVars
  <2> QED
    BY <2>1, <2>2, <2>3
<1>3. CASE /\ StillAttached(s) /\ ~Drained(s)
           /\ inflight' = [inflight EXCEPT ![s] = PopLeft(pending[s])[1]]
           /\ pending' = [pending EXCEPT ![s] = PopLeft(pending[s])[2]]
           /\ io' = [io EXCEPT ![s] = "send"]
           /\ UNCHANGED <<ready, opq, sessVars>>
  <2>0. /\ pending[s] # <<>> /\ s \in attached
        /\ PopLeft(pending[s])[1] = Head(pending[s]) /\ PopLeft(pending[s])[2] = Tail(pending[s])
    BY <1>3 DEF StillAttached, Drained, PopLeft
  <2>1. pending[s] \in Seq(Events)
    BY DEF Types
  <2>2. Head(pending[s]) \in 0..MaxEvents /\ Tail(pending[s]) \in Seq(Events)
    <3>1. Head(pending[s]) \in Events /\ Tail(pending[s]) \in Seq(Events)
      BY <2>0, <2>1
    <3> QED
      BY <3>1, ConstantsAssumption DEF Events
  <2>3. Types'
    BY <1>3, <2>0, <2>2 DEF Types, GrantActivate, sessVars, histVars
  <2>4. ASSUME NEW u \in Sockets, u # s
        PROVE  SocketInv(u)'
    <3>1. Same(u)
      BY <1>3, <2>4 DEF Types, GrantActivate, sessVars, histVars, Same
    <3> QED
      BY <3>1, Untouched
  <2>5. SocketInv(s)'
    <3>1. /\ inflight'[s] = Head(pending[s]) /\ pending'[s] = Tail(pending[s]) /\ io'[s] = "send"
      BY <1>3, <2>0 DEF Types
    <3> QED
      BY <1>1, <1>3, <2>0, <3>1, TakeKeeps DEF GrantActivate, sessVars, histVars
  <2> QED
    BY <2>3, <2>4, <2>5
<1> QED
  BY <1>2, <1>3 DEF GrantActivate

-----------------------------------------------------------------------------
(* Writes.                                                                 *)

LEMMA HolderFirst ==
    ASSUME Types, NEW s \in Sockets, opq[s] # <<>>
    PROVE  1 \in 1..Len(opq[s]) /\ Holder(s) = opq[s][1] /\ Holder(s) \in Tasks
<1>1. opq[s] \in Seq(Tasks)
  BY DEF Types
<1> QED
  BY <1>1 DEF Holder

\* The frame being written, for each kind of holder.
LEMMA FrameKind ==
    ASSUME Inv, NEW s \in Sockets, io[s] = "send",
           Holder(s).kind \in {"send", "direct", "activate", "notify"}
    PROVE  /\ Frame(s) \in Frames
           /\ Holder(s).kind = "send" => Frame(s).kind = "live" /\ Frame(s).event = Holder(s).event
           /\ Holder(s).kind = "direct" => Frame(s).kind = stage[s]
           /\ Holder(s).kind = "activate" =>
                 Frame(s).kind = "queued" /\ Frame(s).event = inflight[s]
           /\ Holder(s).kind = "notify" => Frame(s).kind = "notice"
<1> USE DEF Inv
<1>1. opq[s] # <<>>
  BY DEF SocketInv, LockHeld
<1>2. 1 \in 1..Len(opq[s]) /\ Holder(s) = opq[s][1] /\ Holder(s) \in Tasks
  BY <1>1, HolderFirst
<1>3. inflight[s] \in 0..MaxEvents /\ 0 \in 0..MaxEvents /\ Holder(s).event \in 0..MaxEvents
  BY <1>2, ConstantsAssumption DEF Types, Tasks
<1>4. CASE Holder(s).kind = "send"
  <2>1. Frame(s) = [kind |-> "live", event |-> Holder(s).event]
    BY <1>4 DEF Frame
  <2> QED
    BY <1>3, <1>4, <2>1 DEF Frames, FrameKinds
<1>5. CASE Holder(s).kind = "direct"
  <2>1. Frame(s) = [kind |-> stage[s], event |-> 0]
    BY <1>5 DEF Frame
  <2>2. stage[s] \in {"ready", "history"}
    BY <1>2, <1>5 DEF SocketInv, OwnTasks
  <2> QED
    BY <1>3, <1>5, <2>1, <2>2 DEF Frames, FrameKinds
<1>6. CASE Holder(s).kind = "activate"
  <2>1. Frame(s) = [kind |-> "queued", event |-> inflight[s]]
    BY <1>6 DEF Frame
  <2> QED
    BY <1>3, <1>6, <2>1 DEF Frames, FrameKinds
<1>7. CASE Holder(s).kind = "notify"
  <2>1. Frame(s) = [kind |-> "notice", event |-> 0]
    BY <1>7 DEF Frame
  <2> QED
    BY <1>3, <1>7, <2>1 DEF Frames, FrameKinds
<1> QED
  BY <1>4, <1>5, <1>6, <1>7

\* Whatever the holder of the lock writes, it is the frame due.
LEMMA WroteSeen ==
    ASSUME Inv, NEW s \in Sockets, io[s] = "send",
           Holder(s).kind \in {"send", "direct", "activate", "notify"},
           NEW reached \in BOOLEAN, Wrote(s, reached)
    PROVE  /\ wire' \in [Sockets -> Seq(Frames)]
           /\ \A u \in Sockets : aimed'[u] = aimed[u] /\ (u # s => wire'[u] = wire[u])
           /\ wire'[s] = wire[s] \/ Gains(s, Frame(s))
           /\ reached => Gains(s, Frame(s))
           /\ ~Ended(s) /\ ~IsClosed(s)'
           /\ Holder(s).kind # "notify" => ~Ended(s)'
           /\ Seen(s)'
<1> USE DEF Inv
<1>1. /\ Frame(s) \in Frames
      /\ Holder(s).kind = "send" => Frame(s).kind = "live" /\ Frame(s).event = Holder(s).event
      /\ Holder(s).kind = "direct" => Frame(s).kind = stage[s]
      /\ Holder(s).kind = "activate" =>
            Frame(s).kind = "queued" /\ Frame(s).event = inflight[s]
      /\ Holder(s).kind = "notify" => Frame(s).kind = "notice"
  BY FrameKind
<1>2. opq[s] # <<>>
  BY DEF SocketInv, LockHeld
<1>3. 1 \in 1..Len(opq[s]) /\ Holder(s) = opq[s][1] /\ Holder(s) \in Tasks
  BY <1>2, HolderFirst
<1>4. \A u \in Sockets : aimed'[u] = aimed[u] /\ (u # s => wire'[u] = wire[u])
  BY DEF Wrote, Types
<1>5. /\ wire' \in [Sockets -> Seq(Frames)]
      /\ wire'[s] = IF reached THEN Append(wire[s], Frame(s)) ELSE wire[s]
  BY <1>1 DEF Wrote, Types
<1>6. IF reached THEN Gains(s, Frame(s)) ELSE wire'[s] = wire[s]
  BY <1>1, <1>5, GainEffect
<1>7. ~Ended(s) /\ ~IsClosed(s)
  BY DEF SocketInv, LockHeld, Ended, IsClosed
<1>8. CASE ~reached
  <2>1. /\ Ended(s)' <=> Ended(s)
        /\ IsClosed(s)' <=> IsClosed(s)
        /\ Seen(s)'
    BY <1>4, <1>6, <1>8, WireSame DEF SocketInv
  <2> QED
    BY <1>4, <1>5, <1>6, <1>7, <1>8, <2>1
<1>9. CASE reached
  <2>1. Holder(s).kind = "direct" => stage[s] \in {"ready", "history"}
    BY <1>3 DEF SocketInv, OwnTasks
  <2>2. /\ Ended(s)' <=> Frame(s).kind \in {"notice", "close"}
        /\ ~IsClosed(s)'
    BY <1>1, <1>6, <1>7, <1>9, <2>1, EndGain
  <2>3. \A i \in 1..Len(wire[s]) : Rank[wire[s][i].kind] <= Rank[Frame(s).kind]
    <3> SUFFICES ASSUME NEW i \in 1..Len(wire[s])
                 PROVE  Rank[wire[s][i].kind] <= Rank[Frame(s).kind]
      OBVIOUS
    <3>1. CASE Holder(s).kind \in {"send", "notify"}
      <4>1. Rank[wire[s][i].kind] \in 1..4
        BY <1>7, RankBelow
      <4>2. Rank[Frame(s).kind] \in {4, 5}
        BY <1>1, <3>1 DEF Rank, FrameKinds
      <4> QED
        BY <4>1, <4>2
    <3>2. CASE Holder(s).kind = "direct"
      <4>1. stage[s] = "history" /\ wire[s][i].kind = "ready"
        BY <1>7, <2>1, <3>2 DEF SocketInv, Handshake
      <4> QED
        BY <1>1, <3>2, <4>1 DEF Rank, FrameKinds
    <3>3. CASE Holder(s).kind = "activate"
      <4>1. stage[s] = "activate" /\ Len(wire[s]) \in Nat
        BY <1>3, <3>3 DEF SocketInv, OwnTasks, Types
      <4>2. wire[s][i].kind \in {"ready", "history", "queued"}
        BY <1>7, <4>1 DEF SocketInv, Handshake
      <4> QED
        BY <1>1, <3>3, <4>2 DEF Rank, FrameKinds
    <3> QED
      BY <3>1, <3>2, <3>3
  <2>4. Frame(s).kind \in {"queued", "live"} =>
           Len(wire[s]) >= 2 /\ wire[s][1].kind = "ready" /\ wire[s][2].kind = "history"
    <3>1. Frame(s).kind \in {"queued", "live"} => Holder(s).kind \in {"send", "activate"}
      BY <1>1, <2>1
    <3> QED
      BY <1>3, <3>1 DEF SocketInv, OwnTasks, LiveTasks, Handshake
  <2>5. Frame(s).kind = "queued" =>
           Len(wire[s]) - 1 \in DOMAIN aimed[s] /\ Frame(s).event = aimed[s][Len(wire[s]) - 1]
    <3>1. Frame(s).kind = "queued" => Holder(s).kind = "activate"
      BY <1>1, <2>1
    <3>2. DOMAIN aimed[s] = 1..Len(aimed[s])
      BY DEF Types
    <3> QED
      BY <1>1, <3>1, <3>2 DEF SocketInv, Queue, Flushing
  <2>6. Seen(s)'
    BY <1>4, <1>6, <1>7, <1>9, <2>3, <2>4, <2>5, SeenGain DEF SocketInv
  <2> QED
    BY <1>1, <1>4, <1>5, <1>6, <1>7, <1>9, <2>1, <2>2, <2>6
<1> QED
  BY <1>8, <1>9

\* The write of a live or of an initial frame is over for its socket.
LEMMA WriteOver ==
    ASSUME Inv, NEW s \in Sockets, opq[s] # <<>>, io[s] = "send", io'[s] = "none",
           opq'[s] = Tail(opq[s]), KeptAttached(s) \/ Detached(s, "close"),
           ready'[s] = ready[s], inflight'[s] = inflight[s], aimed'[s] = aimed[s],
           wire'[s] = wire[s] \/ Gains(s, Frame(s)),
           ~Ended(s), ~Ended(s)', ~IsClosed(s)', Seen(s)',
           \/ Holder(s).kind = "send" /\ stage'[s] = stage[s] /\ busy'[s] = busy[s]
           \/ /\ Holder(s).kind = "direct" /\ ~busy'[s]
              /\ \/ stage'[s] = "cleanup"
                 \/ /\ Gains(s, Frame(s))
                    /\ stage'[s] = IF stage[s] = "ready" THEN "history" ELSE "activate"
    PROVE  SocketInv(s)'
<1> USE DEF Inv
<1>1. /\ Holder(s) = opq[s][1] /\ Holder(s) \in Tasks /\ 1 \in 1..Len(opq[s])
      /\ Len(opq'[s]) = Len(opq[s]) - 1 /\ Len(opq[s]) \in Nat
      /\ \A i \in 1..Len(opq'[s]) : i + 1 \in 2..Len(opq[s]) /\ opq'[s][i] = opq[s][i + 1]
  BY LeaveEffect
<1>2. /\ Holder(s).kind = "direct" => Frame(s).kind = stage[s] /\ stage[s] \in {"ready", "history"}
      /\ Holder(s).kind = "send" => ready[s] /\ stage[s] \in {"live", "cleanup", "done"}
  BY <1>1, FrameKind DEF SocketInv, OwnTasks, LiveTasks
<1>3. Unborn(s)'
  BY <1>2 DEF Unborn
<1>4. OneCloser(s)'
  <2>1. CloserWaits(s)' => CloserWaits(s)
    BY <1>1 DEF CloserWaits
  <2>2. \A i, j \in 1..Len(opq'[s]) : IsCloser(opq'[s][i]) /\ IsCloser(opq'[s][j]) => i = j
    <3>1. \A i, j \in 1..Len(opq[s]) : IsCloser(opq[s][i]) /\ IsCloser(opq[s][j]) => i = j
      BY DEF SocketInv, OneCloser
    <3> SUFFICES ASSUME NEW i \in 1..Len(opq'[s]), NEW j \in 1..Len(opq'[s]),
                        IsCloser(opq'[s][i]), IsCloser(opq'[s][j])
                 PROVE  i = j
      OBVIOUS
    <3>2. /\ i + 1 \in 1..Len(opq[s]) /\ opq'[s][i] = opq[s][i + 1]
          /\ j + 1 \in 1..Len(opq[s]) /\ opq'[s][j] = opq[s][j + 1]
      BY <1>1
    <3>3. i + 1 = j + 1
      BY <3>1, <3>2
    <3> QED
      BY <1>1, <3>3
  <2>3. CASE KeptAttached(s)
    <3>1. CloserCreated(s)' <=> CloserCreated(s)
      BY <2>3 DEF KeptAttached, CloserCreated
    <3> QED
      BY <2>1, <2>2, <2>3, <3>1 DEF SocketInv, OneCloser, KeptAttached
  <2>4. CASE Detached(s, "close")
    <3>1. ~CloserWaits(s) /\ \A t \in sched[s] : ~IsCloser(t)
      BY <2>4 DEF SocketInv, OneCloser, CloserCreated, Detached
    <3>2. \A t, u \in sched'[s] : IsCloser(t) /\ IsCloser(u) => t = u
      BY <2>4, <3>1 DEF Detached
    <3> QED
      BY <2>1, <2>2, <2>4, <3>1, <3>2 DEF OneCloser, Detached
  <2> QED
    BY <2>3, <2>4
<1>5. LockHeld(s)'
  BY DEF LockHeld
<1>6. OwnTasks(s)'
  <2>1. \A t \in sched'[s] : ~IsOwn(t)
    BY DEF KeptAttached, Detached, SocketInv, OwnTasks, IsOwn
  <2>2. CASE Holder(s).kind = "send"
    BY <1>1, <2>1, <2>2 DEF SocketInv, OwnTasks, IsOwn
  <2>3. CASE Holder(s).kind = "direct"
    <3>1. \A i \in 1..Len(opq'[s]) : ~IsOwn(opq'[s][i])
      BY <1>1, <2>3 DEF SocketInv, OwnTasks, IsOwn
    <3> QED
      BY <2>1, <3>1 DEF OwnTasks, IsOwn
  <2> QED
    BY <2>2, <2>3
<1>7. LiveTasks(s)'
  <2>1. \A t \in sched'[s] : t.kind = "send" => t \in sched[s]
    BY DEF KeptAttached, Detached
  <2> QED
    BY <1>1, <1>2, <2>1 DEF SocketInv, LiveTasks
<1>8. Len(wire[s]) \in Nat
  BY DEF Types
<1>9. Handshake(s)'
  <2>1. CASE Holder(s).kind = "send"
    <3>1. Len(wire[s]) >= 2 /\ wire[s][1].kind = "ready" /\ wire[s][2].kind = "history"
      BY <1>2, <2>1 DEF SocketInv, Handshake
    <3>3. Len(wire'[s]) >= 2 /\ wire'[s][1].kind = "ready" /\ wire'[s][2].kind = "history"
      BY <3>1, StartStays
    <3> QED
      BY <1>2, <2>1, <3>3 DEF Handshake
  <2>2. CASE Holder(s).kind = "direct" /\ stage'[s] = "cleanup"
    <3>1. ~ready[s]
      BY <1>2, <2>2 DEF SocketInv, LiveTasks
    <3> QED
      BY <2>2, <3>1 DEF Handshake
  <2>3. CASE Holder(s).kind = "direct" /\ Gains(s, Frame(s)) /\ stage[s] = "ready" /\ stage'[s] = "history"
    <3>1. wire[s] = <<>> /\ ~ready[s]
      BY <1>2, <2>3 DEF SocketInv, Handshake, LiveTasks
    <3>2. Len(wire[s]) = 0
      BY <3>1
    <3>3. Len(wire'[s]) = 1 /\ wire'[s][1].kind = "ready"
      BY <1>2, <2>3, <3>2 DEF Gains
    <3> QED
      BY <2>3, <3>1, <3>3 DEF Handshake
  <2>4. CASE Holder(s).kind = "direct" /\ Gains(s, Frame(s)) /\ stage[s] = "history" /\ stage'[s] = "activate"
    <3>1. Len(wire[s]) = 1 /\ wire[s][1].kind = "ready" /\ 1 \in 1..Len(wire[s])
      BY <1>2, <2>4 DEF SocketInv, Handshake
    <3>2. Len(wire'[s]) = 2 /\ wire'[s][1].kind = "ready" /\ wire'[s][2].kind = "history"
      BY <1>2, <2>4, <3>1 DEF Gains
    <3> QED
      BY <2>4, <3>2 DEF Handshake
  <2> QED
    BY <1>2, <2>1, <2>2, <2>3, <2>4
<1>10. Flushing(s)'
  BY DEF SocketInv, Queue, Flushing
<1>11. Line(s)'
  <2>1. CASE s \notin attached' \/ stage'[s] \in {"live", "cleanup", "done"}
    BY <2>1 DEF Line
  <2>2. CASE KeptAttached(s) /\ s \in attached /\ Holder(s).kind = "direct" /\ stage[s] = "ready" /\ stage'[s] = "history"
    BY <2>2 DEF SocketInv, Queue, Line, KeptAttached
  <2>3. CASE KeptAttached(s) /\ s \in attached /\ Holder(s).kind = "direct" /\ stage[s] = "history"
             /\ stage'[s] = "activate" /\ Gains(s, Frame(s))
    <3>1. pending'[s] = aimed[s] /\ inflight'[s] = 0
      BY <2>3 DEF SocketInv, Queue, Line, Flushing, KeptAttached
    <3>2. Len(wire'[s]) = 2
      BY <2>3 DEF SocketInv, Handshake, Gains
    <3>3. Taken(s)' = 0
      BY <3>1, <3>2 DEF Taken
    <3>4. aimed[s] \in Seq(Events)
      BY DEF Types
    <3>5. 0 + Len(aimed[s]) = Len(aimed[s]) /\ \A k \in 1..Len(aimed[s]) : aimed[s][k] = aimed[s][0 + k]
      BY <3>4
    <3> QED
      BY <2>3, <3>1, <3>3, <3>5 DEF Line
  <2> QED
    BY <1>2, <2>1, <2>2, <2>3 DEF KeptAttached, Detached
<1> QED
  BY <1>3, <1>4, <1>5, <1>6, <1>7, <1>9, <1>10, <1>11 DEF SocketInv, Queue

LEMMA SendEndsKeeps ==
    ASSUME Inv, NEW s \in Sockets, NEW ok \in BOOLEAN, NEW reached \in BOOLEAN,
           SendEnds(s, ok, reached)
    PROVE  Inv'
<1> USE DEF Inv
<1>1. io[s] = "send" /\ Holder(s).kind = "send" /\ opq[s] # <<>>
  BY DEF SendEnds, Writing, SocketInv, LockHeld
<1>2. opq' \in [Sockets -> Seq(Tasks)] /\ opq'[s] = Tail(opq[s])
      /\ \A u \in Sockets : u # s => opq'[u] = opq[u]
  BY <1>1, LeaveTypes DEF SendEnds
<1>3. /\ attached' \subseteq Sockets
      /\ pending' \in [Sockets -> Seq(Events)]
      /\ sched' \in [Sockets -> SUBSET Tasks]
  BY DetachTypes DEF SendEnds
<1>4. /\ wire' \in [Sockets -> Seq(Frames)]
      /\ \A u \in Sockets : aimed'[u] = aimed[u] /\ (u # s => wire'[u] = wire[u])
      /\ wire'[s] = wire[s] \/ Gains(s, Frame(s))
      /\ ~Ended(s) /\ ~IsClosed(s)' /\ ~Ended(s)' /\ Seen(s)'
  BY <1>1, WroteSeen DEF SendEnds
<1>5. Types'
  BY <1>2, <1>3, <1>4 DEF Types, SendEnds, Wrote, sessVars
<1>6. ASSUME NEW u \in Sockets, u # s
      PROVE  SocketInv(u)'
  <2>1. KeptAttached(u)
    BY <1>6, DetachEffect DEF SendEnds
  <2>2. Same(u)
    BY <1>2, <1>4, <1>6, <2>1 DEF SendEnds, Same, KeptAttached, sessVars, Types
  <2> QED
    BY <2>2, Untouched
<1>7. SocketInv(s)'
  <2>1. KeptAttached(s) \/ Detached(s, "close")
    BY DetachEffect DEF SendEnds
  <2>2. io'[s] = "none" /\ ready'[s] = ready[s] /\ inflight'[s] = inflight[s]
        /\ stage'[s] = stage[s] /\ busy'[s] = busy[s]
    BY DEF SendEnds, sessVars, Types
  <2> QED
    BY <1>1, <1>2, <1>4, <2>1, <2>2, WriteOver
<1> QED
  BY <1>5, <1>6, <1>7

LEMMA DirectEndsKeeps ==
    ASSUME Inv, NEW s \in Sockets, NEW ok \in BOOLEAN, NEW reached \in BOOLEAN,
           DirectEnds(s, ok, reached)
    PROVE  Inv'
<1> USE DEF Inv
<1>1. io[s] = "send" /\ Holder(s).kind = "direct" /\ opq[s] # <<>>
  BY DEF DirectEnds, Writing, SocketInv, LockHeld
<1>2. opq' \in [Sockets -> Seq(Tasks)] /\ opq'[s] = Tail(opq[s])
      /\ \A u \in Sockets : u # s => opq'[u] = opq[u]
  BY <1>1, LeaveTypes DEF DirectEnds
<1>3. /\ attached' \subseteq Sockets
      /\ pending' \in [Sockets -> Seq(Events)]
      /\ sched' \in [Sockets -> SUBSET Tasks]
  BY DetachTypes DEF DirectEnds
<1>4. /\ wire' \in [Sockets -> Seq(Frames)]
      /\ \A u \in Sockets : aimed'[u] = aimed[u] /\ (u # s => wire'[u] = wire[u])
      /\ wire'[s] = wire[s] \/ Gains(s, Frame(s))
      /\ reached => Gains(s, Frame(s))
      /\ ~Ended(s) /\ ~IsClosed(s)' /\ ~Ended(s)' /\ Seen(s)'
  BY <1>1, WroteSeen DEF DirectEnds
<1>5. stage' \in [Sockets -> Stages]
  BY DEF DirectEnds, Types, Stages
<1>6. Types'
  BY <1>2, <1>3, <1>4, <1>5 DEF Types, DirectEnds, Wrote
<1>7. ASSUME NEW u \in Sockets, u # s
      PROVE  SocketInv(u)'
  <2>1. KeptAttached(u)
    BY <1>7, DetachEffect DEF DirectEnds
  <2>2. Same(u)
    BY <1>2, <1>4, <1>7, <2>1 DEF DirectEnds, Same, KeptAttached, Types
  <2> QED
    BY <2>2, Untouched
<1>8. SocketInv(s)'
  <2>1. KeptAttached(s) \/ Detached(s, "close")
    BY DetachEffect DEF DirectEnds
  <2>2. io'[s] = "none" /\ ready'[s] = ready[s] /\ inflight'[s] = inflight[s] /\ ~busy'[s]
    BY DEF DirectEnds, Types
  <2>3. \/ stage'[s] = "cleanup"
        \/ reached /\ stage'[s] = IF stage[s] = "ready" THEN "history" ELSE "activate"
    BY DEF DirectEnds, Types
  <2> QED
    BY <1>1, <1>2, <1>4, <2>1, <2>2, <2>3, WriteOver
<1> QED
  BY <1>6, <1>7, <1>8

\* The write of a queued event succeeded: the loop of _activate goes on.
LEMMA FlushOver ==
    ASSUME Inv, NEW s \in Sockets, opq[s] # <<>>, Holder(s).kind = "activate",
           io[s] = "send", io'[s] = "none", opq'[s] = opq[s],
           s \in attached' <=> s \in attached,
           pending'[s] = pending[s], sched'[s] = sched[s],
           ready'[s] = ready[s], inflight'[s] = 0, aimed'[s] = aimed[s],
           stage'[s] = stage[s], busy'[s] = busy[s],
           Gains(s, Frame(s)), ~Ended(s), ~Ended(s)', ~IsClosed(s)', Seen(s)'
    PROVE  SocketInv(s)'
<1> USE DEF Inv
<1>1. 1 \in 1..Len(opq[s]) /\ Holder(s) = opq[s][1] /\ Holder(s) \in Tasks
  BY HolderFirst
<1>2. stage[s] = "activate" /\ inflight[s] # 0 /\ Frame(s).kind = "queued"
  BY <1>1, FrameKind DEF SocketInv, OwnTasks, Queue, Flushing
<1>3. Len(wire[s]) \in Nat /\ Len(wire[s]) >= 2 /\ Len(wire'[s]) = Len(wire[s]) + 1
  BY <1>2 DEF Types, SocketInv, Handshake, Gains
<1>4. Unborn(s)' /\ OwnTasks(s)' /\ LiveTasks(s)'
  BY <1>2 DEF SocketInv, Unborn, OwnTasks, LiveTasks
<1>5. OneCloser(s)'
  BY DEF SocketInv, OneCloser, CloserCreated, CloserWaits
<1>6. LockHeld(s)'
  BY DEF LockHeld
<1>7. Handshake(s)'
  <2>1. Len(wire'[s]) >= 2 /\ wire'[s][1].kind = "ready" /\ wire'[s][2].kind = "history"
    BY <1>2, StartStays DEF SocketInv, Handshake
  <2>2. ASSUME NEW i \in 3..Len(wire'[s])
        PROVE  wire'[s][i].kind = "queued"
    <3>1. CASE i = Len(wire[s]) + 1
      BY <1>2, <3>1 DEF Gains
    <3>2. CASE i # Len(wire[s]) + 1
      <4>1. i \in 3..Len(wire[s]) /\ i \in 1..Len(wire[s])
        BY <1>3, <3>2
      <4>2. wire[s][i].kind = "queued"
        BY <1>2, <4>1 DEF SocketInv, Handshake
      <4> QED
        BY <4>1, <4>2 DEF Gains
    <3> QED
      BY <3>1, <3>2
  <2> QED
    BY <1>2, <2>1, <2>2 DEF Handshake
<1>8. Flushing(s)'
  BY DEF Flushing
<1>9. Line(s)'
  <2>1. Taken(s)' = Taken(s)
    BY <1>2, <1>3 DEF Taken
  <2> QED
    BY <1>2, <2>1 DEF SocketInv, Queue, Line
<1> QED
  BY <1>4, <1>5, <1>6, <1>7, <1>8, <1>9 DEF SocketInv, Queue

\* The task at place i leaves the queue of the lock.
Without(s, i) ==
    /\ opq'[s] \in Seq(Tasks)
    /\ Len(opq[s]) \in Nat /\ Len(opq'[s]) = Len(opq[s]) - 1
    /\ \A j \in 1..Len(opq'[s]) : opq'[s][j] = opq[s][IF j < i THEN j ELSE j + 1]

LEMMA RemoveEffect ==
    ASSUME Types, NEW s \in Sockets, NEW i \in 1..Len(opq[s]), opq'[s] = RemoveAt(opq[s], i)
    PROVE  Without(s, i)
<1> DEFINE q == opq[s]
           a == SubSeq(q, 1, i - 1)
           b == SubSeq(q, i + 1, Len(q))
<1>1. q \in Seq(Tasks) /\ Len(q) \in Nat /\ i \in 1..Len(q)
  BY DEF Types
<1> HIDE DEF q
<1>2. /\ a \in Seq(Tasks) /\ Len(a) = i - 1
      /\ \A j \in 1..Len(a) : a[j] = q[j]
  BY <1>1
<1>3. /\ b \in Seq(Tasks) /\ Len(b) = Len(q) - i
      /\ \A j \in 1..Len(b) : b[j] = q[i + j]
  BY <1>1
<1>4. opq'[s] = a \o b
  BY DEF RemoveAt, q
<1> HIDE DEF a, b
<1>5. /\ a \o b \in Seq(Tasks) /\ Len(a \o b) = Len(q) - 1
  <2>1. a \o b \in Seq(Tasks) /\ Len(a \o b) = Len(a) + Len(b)
    <3>1. a \in Seq(Tasks) /\ b \in Seq(Tasks)
      BY <1>2, <1>3
    <3> QED
      BY <3>1, ConcatProperties
  <2>2. Len(a) + Len(b) = Len(q) - 1
    BY <1>1, <1>2, <1>3
  <2> QED
    BY <2>1, <2>2
<1>6. ASSUME NEW j \in 1..(Len(q) - 1)
      PROVE  (a \o b)[j] = q[IF j < i THEN j ELSE j + 1]
  <2>1. CASE j < i
    BY <1>1, <1>2, <1>3, <2>1
  <2>2. CASE ~(j < i)
    <3>1. j - (i - 1) \in 1..Len(b) /\ i + (j - (i - 1)) = j + 1 /\ j > Len(a) /\ j <= Len(a) + Len(b)
      BY <1>1, <1>2, <1>3, <2>2
    <3>2. (a \o b)[j] = b[j - Len(a)]
      BY <1>1, <1>2, <1>3, <3>1
    <3> QED
      BY <1>2, <1>3, <2>2, <3>1, <3>2
  <2> QED
    BY <2>1, <2>2
<1> QED
  BY <1>1, <1>4, <1>5, <1>6 DEF q, Without

\* The request loses its call of the manager: the write failed, or it was
\* thrown out of it.
LEMMA RequestOut ==
    ASSUME Inv, NEW s \in Sockets, NEW i \in 1..Len(opq[s]), IsOwn(opq[s][i]),
           Without(s, i),
           io'[s] = IF i = 1 THEN "none" ELSE io[s],
           s \in attached' <=> s \in attached,
           pending'[s] = pending[s], sched'[s] = sched[s],
           ready'[s] = ready[s], inflight'[s] = 0, aimed'[s] = aimed[s],
           stage'[s] = "cleanup", ~busy'[s],
           \/ wire'[s] = wire[s]
           \/ i = 1 /\ Gains(s, Frame(s)) /\ ~Ended(s) /\ ~Ended(s)' /\ ~IsClosed(s)' /\ Seen(s)'
    PROVE  SocketInv(s)'
<1> USE DEF Inv
<1>1. /\ opq'[s] \in Seq(Tasks)
      /\ Len(opq[s]) \in Nat /\ Len(opq'[s]) = Len(opq[s]) - 1
      /\ \A j \in 1..Len(opq'[s]) : opq'[s][j] = opq[s][IF j < i THEN j ELSE j + 1]
  BY DEF Without
<1> DEFINE p(j) == IF j < i THEN j ELSE j + 1
<1>2. \A j \in 1..Len(opq'[s]) : p(j) \in 1..Len(opq[s]) /\ p(j) # i /\ opq'[s][j] = opq[s][p(j)]
  BY <1>1
<1>3. \A j, k \in 1..Len(opq'[s]) : p(j) = p(k) => j = k
  BY <1>1
<1> HIDE DEF p
<1>4. opq[s] # <<>>
  BY <1>1
<1>5. 1 \in 1..Len(opq[s]) /\ Holder(s) = opq[s][1] /\ Holder(s) \in Tasks
  BY <1>4, HolderFirst
<1>6. \A j \in 1..Len(opq'[s]) : ~IsOwn(opq'[s][j])
  BY <1>2 DEF SocketInv, OwnTasks
<1>7. ~IsCloser(opq[s][i])
  BY DEF IsOwn, IsCloser
<1>8. Seen(s)' /\ (Ended(s)' <=> Ended(s)) /\ (IsClosed(s)' <=> IsClosed(s))
  <2>1. CASE wire'[s] = wire[s]
    BY <2>1, WireSame DEF SocketInv
  <2>2. CASE ~Ended(s) /\ ~Ended(s)' /\ ~IsClosed(s)' /\ Seen(s)'
    BY <2>2 DEF Ended, IsClosed
  <2> QED
    BY <2>1, <2>2
<1>9. Unborn(s)'
  BY DEF Unborn
<1>10. OneCloser(s)'
  <2>1. (CloserCreated(s)' <=> CloserCreated(s)) /\ (CloserWaits(s)' => CloserWaits(s))
    BY <1>2 DEF CloserCreated, CloserWaits
  <2>2. \A j, k \in 1..Len(opq'[s]) : IsCloser(opq'[s][j]) /\ IsCloser(opq'[s][k]) => j = k
    <3> SUFFICES ASSUME NEW j \in 1..Len(opq'[s]), NEW k \in 1..Len(opq'[s]),
                        IsCloser(opq'[s][j]), IsCloser(opq'[s][k])
                 PROVE  p(j) = p(k)
      BY <1>3
    <3>1. /\ p(j) \in 1..Len(opq[s]) /\ opq'[s][j] = opq[s][p(j)]
          /\ p(k) \in 1..Len(opq[s]) /\ opq'[s][k] = opq[s][p(k)]
      BY <1>2
    <3> QED
      BY <3>1 DEF SocketInv, OneCloser
  <2> QED
    BY <1>8, <2>1, <2>2 DEF SocketInv, OneCloser
<1>11. i # 1 => opq'[s] # <<>> /\ Holder(s)' = Holder(s)
  <2> SUFFICES ASSUME i # 1
               PROVE  opq'[s] # <<>> /\ Holder(s)' = Holder(s)
    OBVIOUS
  <2>1. Len(opq'[s]) > 0 /\ 1 \in 1..Len(opq'[s])
    BY <1>1
  <2>2. opq'[s][1] = opq[s][1]
    BY <1>1, <2>1
  <2> QED
    BY <1>1, <1>5, <2>1, <2>2 DEF Holder
<1>12. LockHeld(s)'
  <2>1. CASE i = 1
    <3>1. io[s] # "close"
      BY <1>5, <1>7, <2>1 DEF SocketInv, LockHeld
    <3> QED
      BY <1>8, <2>1, <3>1 DEF SocketInv, LockHeld
  <2>2. CASE i # 1
    BY <1>8, <1>11, <2>2 DEF SocketInv, LockHeld
  <2> QED
    BY <2>1, <2>2
<1>13. OwnTasks(s)'
  BY <1>6 DEF SocketInv, OwnTasks, IsOwn
<1>14. LiveTasks(s)'
  BY <1>2 DEF SocketInv, LiveTasks
<1>15. Handshake(s)'
  <2>1. ready[s] => Len(wire'[s]) >= 2 /\ wire'[s][1].kind = "ready" /\ wire'[s][2].kind = "history"
    BY StartStays DEF SocketInv, Handshake
  <2> QED
    BY <2>1 DEF Handshake
<1>16. Flushing(s)'
  <2>1. CASE i = 1
    BY <2>1 DEF Flushing
  <2>2. CASE i # 1
    <3>1. ~IsOwn(Holder(s))
      BY <1>5, <2>2 DEF SocketInv, OwnTasks
    <3>2. Holder(s)'.kind # "activate"
      BY <1>11, <2>2, <3>1 DEF IsOwn
    <3> QED
      BY <3>2 DEF Flushing
  <2> QED
    BY <2>1, <2>2
<1>17. Line(s)'
  BY DEF Line
<1> QED
  BY <1>8, <1>9, <1>10, <1>12, <1>13, <1>14, <1>15, <1>16, <1>17 DEF SocketInv, Queue

LEMMA FlushEndsKeeps ==
    ASSUME Inv, NEW s \in Sockets, NEW ok \in BOOLEAN, NEW reached \in BOOLEAN,
           FlushEnds(s, ok, reached)
    PROVE  Inv'
<1> USE DEF Inv
<1>1. io[s] = "send" /\ Holder(s).kind = "activate" /\ opq[s] # <<>>
  BY DEF FlushEnds, Writing, SocketInv, LockHeld
<1>2. /\ wire' \in [Sockets -> Seq(Frames)]
      /\ \A u \in Sockets : aimed'[u] = aimed[u] /\ (u # s => wire'[u] = wire[u])
      /\ wire'[s] = wire[s] \/ Gains(s, Frame(s))
      /\ reached => Gains(s, Frame(s))
      /\ ~Ended(s) /\ ~IsClosed(s)' /\ ~Ended(s)' /\ Seen(s)'
  BY <1>1, WroteSeen DEF FlushEnds
<1>3. inflight' \in [Sockets -> 0..MaxEvents] /\ inflight'[s] = 0
      /\ \A u \in Sockets : u # s => inflight'[u] = inflight[u]
  BY ConstantsAssumption DEF FlushEnds, Refund, Types
<1>4. CASE ok
  <2>0. reached /\ UNCHANGED <<opq, sessVars>>
    BY <1>4 DEF FlushEnds
  <2>1. Types'
    BY <1>2, <1>3, <2>0 DEF Types, FlushEnds, Wrote, sessVars
  <2>2. ASSUME NEW u \in Sockets, u # s
        PROVE  SocketInv(u)'
    <3>1. Same(u)
      BY <1>2, <1>3, <2>0, <2>2 DEF FlushEnds, Same, sessVars, Types
    <3> QED
      BY <3>1, Untouched
  <2>3. SocketInv(s)'
    <3>1. io'[s] = "none" /\ stage'[s] = stage[s] /\ busy'[s] = busy[s]
      BY <2>0 DEF FlushEnds, sessVars, Types
    <3> QED
      BY <1>1, <1>2, <1>3, <2>0, <3>1, FlushOver DEF FlushEnds
  <2> QED
    BY <2>1, <2>2, <2>3
<1>5. CASE ~ok
  <2>0. /\ Leave(s)
        /\ stage' = [stage EXCEPT ![s] = "cleanup"]
        /\ busy' = [busy EXCEPT ![s] = FALSE]
    BY <1>5 DEF FlushEnds
  <2>1. opq' \in [Sockets -> Seq(Tasks)] /\ opq'[s] = Tail(opq[s])
        /\ \A u \in Sockets : u # s => opq'[u] = opq[u]
    BY <1>1, <2>0, LeaveTypes
  <2>2. Types'
    BY <1>2, <1>3, <2>0, <2>1 DEF Types, FlushEnds, Wrote, Stages
  <2>3. ASSUME NEW u \in Sockets, u # s
        PROVE  SocketInv(u)'
    <3>1. Same(u)
      BY <1>2, <1>3, <2>0, <2>1, <2>3 DEF FlushEnds, Same, Types
    <3> QED
      BY <3>1, Untouched
  <2>4. SocketInv(s)'
    <3>1. io'[s] = "none" /\ stage'[s] = "cleanup" /\ ~busy'[s]
      BY <2>0 DEF FlushEnds, Types
    <3>2. 1 \in 1..Len(opq[s]) /\ IsOwn(opq[s][1])
      BY <1>1, HolderFirst DEF IsOwn
    <3>3. Without(s, 1)
      <4>1. opq[s] \in Seq(Tasks)
        BY DEF Types
      <4> QED
        BY <1>1, <2>1, <4>1 DEF Without
    <3> QED
      BY <1>2, <1>3, <3>1, <3>2, <3>3, RequestOut DEF FlushEnds
  <2> QED
    BY <2>2, <2>3, <2>4
<1> QED
  BY <1>4, <1>5

LEMMA WithdrawKeeps ==
    ASSUME Inv, NEW s \in Sockets, NEW reached \in BOOLEAN, Withdraw(s, reached)
    PROVE  Inv'
<1> USE DEF Inv
<1> PICK i \in 1..Len(opq[s]) : IsOwn(opq[s][i]) /\ opq' = [opq EXCEPT ![s] = RemoveAt(@, i)]
  BY DEF Withdraw
<1>1. opq'[s] = RemoveAt(opq[s], i) /\ \A u \in Sockets : u # s => opq'[u] = opq[u]
  BY DEF Types
<1>2. Without(s, i)
  BY <1>1, RemoveEffect
<1>3. opq' \in [Sockets -> Seq(Tasks)]
  BY <1>1, <1>2 DEF Types, Without
<1>4. opq[s] # <<>>
  BY <1>2 DEF Without
<1>5. 1 \in 1..Len(opq[s]) /\ Holder(s) = opq[s][1] /\ Holder(s) \in Tasks
  BY <1>4, HolderFirst
<1>6. IsOwn(Holder(s)) <=> i = 1
  BY <1>5 DEF SocketInv, OwnTasks
<1>7. reached => io[s] = "send" /\ i = 1
  BY <1>6 DEF Withdraw
<1>8. /\ wire' \in [Sockets -> Seq(Frames)]
      /\ \A u \in Sockets : aimed'[u] = aimed[u] /\ (u # s => wire'[u] = wire[u])
      /\ \/ wire'[s] = wire[s]
         \/ i = 1 /\ Gains(s, Frame(s)) /\ ~Ended(s) /\ ~Ended(s)' /\ ~IsClosed(s)' /\ Seen(s)'
  <2>1. CASE reached
    <3>1. Holder(s).kind \in {"direct", "activate"}
      BY <1>6, <1>7, <2>1 DEF IsOwn
    <3> QED
      BY <1>7, <2>1, <3>1, WroteSeen DEF Withdraw
  <2>2. CASE ~reached
    BY <2>2 DEF Withdraw, Wrote, Types
  <2> QED
    BY <2>1, <2>2
<1>9. inflight' \in [Sockets -> 0..MaxEvents] /\ inflight'[s] = 0
      /\ \A u \in Sockets : u # s => inflight'[u] = inflight[u]
  BY ConstantsAssumption DEF Withdraw, Refund, Types
<1>10. /\ io' \in [Sockets -> {"none", "send", "close"}]
       /\ io'[s] = IF i = 1 THEN "none" ELSE io[s]
       /\ \A u \in Sockets : u # s => io'[u] = io[u]
  BY <1>6 DEF Withdraw, Types
<1>11. stage' = [stage EXCEPT ![s] = "cleanup"] /\ busy' = [busy EXCEPT ![s] = FALSE]
       /\ UNCHANGED <<attached, ready, pending, sched>>
  BY DEF Withdraw
<1>12. Types'
  <2>1. UNCHANGED <<nextEvent, aimed>>
    BY DEF Withdraw, Wrote
  <2> QED
    BY <1>3, <1>8, <1>9, <1>10, <1>11, <2>1 DEF Types, Stages
<1>13. ASSUME NEW u \in Sockets, u # s
       PROVE  SocketInv(u)'
  <2>1. Same(u)
    BY <1>1, <1>8, <1>9, <1>10, <1>11, <1>13 DEF Same, Types
  <2> QED
    BY <2>1, Untouched
<1>14. SocketInv(s)'
  <2>1. stage'[s] = "cleanup" /\ ~busy'[s]
    BY <1>11 DEF Types
  <2> QED
    BY <1>2, <1>8, <1>9, <1>10, <1>11, <2>1, RequestOut
<1> QED
  BY <1>12, <1>13, <1>14

\* A cancelled send leaves the queue of the lock.
LEMMA SendOut ==
    ASSUME Inv, NEW s \in Sockets, NEW i \in 1..Len(opq[s]), opq[s][i].kind = "send",
           Without(s, i),
           io'[s] = IF i = 1 THEN "none" ELSE io[s],
           s \in attached' <=> s \in attached,
           pending'[s] = pending[s], sched'[s] = sched[s],
           ready'[s] = ready[s], inflight'[s] = inflight[s], aimed'[s] = aimed[s],
           stage'[s] = stage[s], busy'[s] = busy[s],
           \/ wire'[s] = wire[s]
           \/ i = 1 /\ Gains(s, Frame(s)) /\ ~Ended(s) /\ ~Ended(s)' /\ ~IsClosed(s)' /\ Seen(s)'
    PROVE  SocketInv(s)'
<1> USE DEF Inv
<1>1. /\ opq'[s] \in Seq(Tasks)
      /\ Len(opq[s]) \in Nat /\ Len(opq'[s]) = Len(opq[s]) - 1
      /\ \A j \in 1..Len(opq'[s]) : opq'[s][j] = opq[s][IF j < i THEN j ELSE j + 1]
  BY DEF Without
<1> DEFINE p(j) == IF j < i THEN j ELSE j + 1
<1>2. \A j \in 1..Len(opq'[s]) : p(j) \in 1..Len(opq[s]) /\ opq'[s][j] = opq[s][p(j)]
  BY <1>1
<1>3. \A j, k \in 1..Len(opq'[s]) : p(j) = p(k) => j = k
  BY <1>1
<1> HIDE DEF p
<1>4. opq[s] # <<>>
  BY <1>1
<1>5. 1 \in 1..Len(opq[s]) /\ Holder(s) = opq[s][1] /\ Holder(s) \in Tasks
  BY <1>4, HolderFirst
<1>6. ready[s] /\ stage[s] \in {"live", "cleanup", "done"}
  BY DEF SocketInv, LiveTasks
<1>7. Seen(s)' /\ (Ended(s)' <=> Ended(s)) /\ (IsClosed(s)' <=> IsClosed(s))
  <2>1. CASE wire'[s] = wire[s]
    BY <2>1, WireSame DEF SocketInv
  <2>2. CASE ~Ended(s) /\ ~Ended(s)' /\ ~IsClosed(s)' /\ Seen(s)'
    BY <2>2 DEF Ended, IsClosed
  <2> QED
    BY <2>1, <2>2
<1>8. Unborn(s)'
  BY <1>6 DEF Unborn
<1>9. OneCloser(s)'
  <2>1. (CloserCreated(s)' <=> CloserCreated(s)) /\ (CloserWaits(s)' => CloserWaits(s))
    BY <1>2 DEF CloserCreated, CloserWaits
  <2>2. \A j, k \in 1..Len(opq'[s]) : IsCloser(opq'[s][j]) /\ IsCloser(opq'[s][k]) => j = k
    <3> SUFFICES ASSUME NEW j \in 1..Len(opq'[s]), NEW k \in 1..Len(opq'[s]),
                        IsCloser(opq'[s][j]), IsCloser(opq'[s][k])
                 PROVE  p(j) = p(k)
      BY <1>3
    <3>1. /\ p(j) \in 1..Len(opq[s]) /\ opq'[s][j] = opq[s][p(j)]
          /\ p(k) \in 1..Len(opq[s]) /\ opq'[s][k] = opq[s][p(k)]
      BY <1>2
    <3> QED
      BY <3>1 DEF SocketInv, OneCloser
  <2> QED
    BY <1>7, <2>1, <2>2 DEF SocketInv, OneCloser
<1>10. i # 1 => opq'[s] # <<>> /\ Holder(s)' = Holder(s)
  <2> SUFFICES ASSUME i # 1
               PROVE  opq'[s] # <<>> /\ Holder(s)' = Holder(s)
    OBVIOUS
  <2>1. Len(opq'[s]) > 0 /\ 1 \in 1..Len(opq'[s])
    BY <1>1
  <2>2. opq'[s][1] = opq[s][1]
    BY <1>1, <2>1
  <2> QED
    BY <1>1, <1>5, <2>1, <2>2 DEF Holder
<1>11. LockHeld(s)'
  <2>1. CASE i = 1
    <3>1. io[s] # "close"
      BY <1>5, <2>1 DEF SocketInv, LockHeld, IsCloser
    <3> QED
      BY <1>7, <2>1, <3>1 DEF SocketInv, LockHeld
  <2>2. CASE i # 1
    BY <1>7, <1>10, <2>2 DEF SocketInv, LockHeld
  <2> QED
    BY <2>1, <2>2
<1>12. OwnTasks(s)'
  <2>1. \A j, k \in 1..Len(opq'[s]) : IsOwn(opq'[s][j]) /\ IsOwn(opq'[s][k]) => j = k
    <3> SUFFICES ASSUME NEW j \in 1..Len(opq'[s]), NEW k \in 1..Len(opq'[s]),
                        IsOwn(opq'[s][j]), IsOwn(opq'[s][k])
                 PROVE  p(j) = p(k)
      BY <1>3
    <3>1. /\ p(j) \in 1..Len(opq[s]) /\ opq'[s][j] = opq[s][p(j)]
          /\ p(k) \in 1..Len(opq[s]) /\ opq'[s][k] = opq[s][p(k)]
      BY <1>2
    <3> QED
      BY <3>1 DEF SocketInv, OwnTasks
  <2> QED
    BY <1>2, <2>1 DEF SocketInv, OwnTasks
<1>13. LiveTasks(s)'
  BY <1>2 DEF SocketInv, LiveTasks
<1>14. Handshake(s)'
  <2>1. Len(wire'[s]) >= 2 /\ wire'[s][1].kind = "ready" /\ wire'[s][2].kind = "history"
    BY <1>6, StartStays DEF SocketInv, Handshake
  <2> QED
    BY <1>6, <2>1 DEF Handshake
<1>15. Flushing(s)'
  <2>1. CASE i = 1
    <3>1. inflight[s] = 0
      BY <1>5, <2>1 DEF SocketInv, Queue, Flushing
    <3> QED
      BY <2>1, <3>1 DEF Flushing
  <2>2. CASE i # 1
    <3>1. wire'[s] = wire[s]
      BY <2>2
    <3> QED
      BY <1>10, <2>2, <3>1 DEF SocketInv, Queue, Flushing
  <2> QED
    BY <2>1, <2>2
<1>16. Line(s)'
  BY <1>6 DEF Line
<1> QED
  BY <1>7, <1>8, <1>9, <1>11, <1>12, <1>13, <1>14, <1>15, <1>16 DEF SocketInv, Queue

\* A cancelled task that had not run is gone.
LEMMA SendGone ==
    ASSUME Inv, NEW s \in Sockets, NEW t \in sched[s], t.kind = "send",
           sched'[s] = sched[s] \ {t},
           s \in attached' <=> s \in attached,
           ready'[s] = ready[s], pending'[s] = pending[s], inflight'[s] = inflight[s],
           opq'[s] = opq[s], io'[s] = io[s], stage'[s] = stage[s], busy'[s] = busy[s],
           wire'[s] = wire[s], aimed'[s] = aimed[s]
    PROVE  SocketInv(s)'
<1> USE DEF Inv
<1>1. /\ Ended(s)' <=> Ended(s)
      /\ IsClosed(s)' <=> IsClosed(s)
      /\ Seen(s)'
  BY WireSame DEF SocketInv
<1>2. (CloserCreated(s)' <=> CloserCreated(s)) /\ (CloserWaits(s)' <=> CloserWaits(s))
  BY DEF CloserCreated, CloserWaits, IsCloser
<1>3. Unborn(s)'
  BY DEF SocketInv, Unborn
<1>4. OneCloser(s)'
  BY <1>1, <1>2 DEF SocketInv, OneCloser
<1>5. LockHeld(s)'
  BY <1>1 DEF SocketInv, LockHeld, Holder
<1>6. OwnTasks(s)' /\ LiveTasks(s)'
  BY DEF SocketInv, OwnTasks, LiveTasks
<1>7. Handshake(s)'
  BY <1>1 DEF SocketInv, Handshake
<1>8. Flushing(s)'
  BY DEF SocketInv, Queue, Flushing, Holder
<1>9. Line(s)'
  BY DEF SocketInv, Queue, Line, Taken
<1> QED
  BY <1>1, <1>3, <1>4, <1>5, <1>6, <1>7, <1>8, <1>9 DEF SocketInv, Queue

\* The two ways in which a cancelled send ends.
EndsWaiting(s, i, reached) ==
    /\ Cancelled(opq[s][i]) /\ (reached => i = 1 /\ io[s] = "send")
    /\ opq' = [opq EXCEPT ![s] = RemoveAt(@, i)]
    /\ io' = [io EXCEPT ![s] = IF i = 1 THEN "none" ELSE @]
    /\ cut' = [cut EXCEPT ![s] = @ \cup {opq[s][i].event}]
    /\ sched' = sched
EndsUnrun(s, t) ==
    /\ Cancelled(t)
    /\ sched' = [sched EXCEPT ![s] = @ \ {t}]
    /\ cut' = [cut EXCEPT ![s] = @ \cup {t.event}]
    /\ opq' = opq /\ io' = io

LEMMA CancelledCases ==
    ASSUME NEW s \in Sockets, NEW reached \in BOOLEAN, SendCancelled(s, reached)
    PROVE  /\ UNCHANGED <<attached, ready, pending, inflight, stage, busy, nextEvent, aimed>>
           /\ Wrote(s, reached)
           /\ \/ ~reached /\ \E t \in sched[s] : EndsUnrun(s, t)
              \/ \E i \in 1..Len(opq[s]) : EndsWaiting(s, i, reached)
BY DEF SendCancelled, Wrote, queueVars, sessVars, EndsUnrun, EndsWaiting

\* What the write of a cancelled send leaves on the wire.
LEMMA CancelledWire ==
    ASSUME Inv, NEW s \in Sockets, NEW i \in 1..Len(opq[s]), NEW reached \in BOOLEAN,
           EndsWaiting(s, i, reached), Wrote(s, reached)
    PROVE  /\ wire' \in [Sockets -> Seq(Frames)]
           /\ \A u \in Sockets : aimed'[u] = aimed[u] /\ (u # s => wire'[u] = wire[u])
           /\ \/ ~reached /\ wire'[s] = wire[s]
              \/ /\ i = 1 /\ io[s] = "send" /\ Holder(s).kind = "send" /\ Gains(s, Frame(s))
                 /\ ~Ended(s) /\ ~Ended(s)' /\ ~IsClosed(s)' /\ Seen(s)'
<1> USE DEF Inv
<1>1. CASE ~reached
  BY <1>1 DEF Wrote, Types
<1>2. CASE reached
  <2>1. i = 1 /\ io[s] = "send" /\ opq[s] # <<>>
    BY <1>2 DEF EndsWaiting, SocketInv, LockHeld
  <2>2. Holder(s).kind = "send"
    BY <2>1, HolderFirst DEF EndsWaiting, Cancelled
  <2> QED
    BY <1>2, <2>1, <2>2, WroteSeen
<1> QED
  BY <1>1, <1>2

LEMMA SendCancelledKeeps ==
    ASSUME Inv, NEW s \in Sockets, NEW reached \in BOOLEAN, SendCancelled(s, reached)
    PROVE  Inv'
<1> USE DEF Inv
<1>1. /\ UNCHANGED <<attached, ready, pending, inflight, stage, busy, nextEvent, aimed>>
      /\ Wrote(s, reached)
      /\ \/ ~reached /\ \E t \in sched[s] : EndsUnrun(s, t)
         \/ \E i \in 1..Len(opq[s]) : EndsWaiting(s, i, reached)
  BY CancelledCases
<1>2. ASSUME ~reached, NEW t \in sched[s], EndsUnrun(s, t)
      PROVE  Inv'
  <2>1. wire' = wire /\ opq' = opq /\ io' = io /\ sched' = [sched EXCEPT ![s] = @ \ {t}]
    BY <1>1, <1>2 DEF Wrote, EndsUnrun
  <2>2. Types'
    BY <1>1, <2>1 DEF Types
  <2>3. ASSUME NEW u \in Sockets, u # s
        PROVE  SocketInv(u)'
    <3>1. Same(u)
      BY <1>1, <2>1, <2>3 DEF Same, Types
    <3> QED
      BY <3>1, Untouched
  <2>4. SocketInv(s)'
    <3>1. t.kind = "send" /\ sched'[s] = sched[s] \ {t}
      BY <1>2, <2>1 DEF EndsUnrun, Cancelled, Types
    <3> QED
      BY <1>1, <2>1, <3>1, SendGone
  <2> QED
    BY <2>2, <2>3, <2>4
<1>3. ASSUME NEW i \in 1..Len(opq[s]), EndsWaiting(s, i, reached)
      PROVE  Inv'
  <2>1. opq'[s] = RemoveAt(opq[s], i) /\ \A u \in Sockets : u # s => opq'[u] = opq[u]
    BY <1>3 DEF EndsWaiting, Types
  <2>2. Without(s, i)
    BY <2>1, RemoveEffect
  <2>3. opq' \in [Sockets -> Seq(Tasks)]
    BY <1>3, <2>1, <2>2 DEF Types, Without, EndsWaiting
  <2>4. /\ io' \in [Sockets -> {"none", "send", "close"}]
        /\ io'[s] = IF i = 1 THEN "none" ELSE io[s]
        /\ \A u \in Sockets : u # s => io'[u] = io[u]
    BY <1>3 DEF EndsWaiting, Types
  <2>5. /\ wire' \in [Sockets -> Seq(Frames)]
        /\ \A u \in Sockets : aimed'[u] = aimed[u] /\ (u # s => wire'[u] = wire[u])
        /\ \/ wire'[s] = wire[s]
           \/ i = 1 /\ Gains(s, Frame(s)) /\ ~Ended(s) /\ ~Ended(s)' /\ ~IsClosed(s)' /\ Seen(s)'
    BY <1>1, <1>3, CancelledWire
  <2>6. sched' = sched /\ opq[s][i].kind = "send"
    BY <1>3 DEF EndsWaiting, Cancelled
  <2>7. Types'
    BY <1>1, <2>3, <2>4, <2>5, <2>6 DEF Types
  <2>8. ASSUME NEW u \in Sockets, u # s
        PROVE  SocketInv(u)'
    <3>1. Same(u)
      BY <1>1, <2>1, <2>4, <2>5, <2>6, <2>8 DEF Same
    <3> QED
      BY <3>1, Untouched
  <2>9. SocketInv(s)'
    BY <1>1, <2>2, <2>4, <2>5, <2>6, SendOut
  <2> QED
    BY <2>7, <2>8, <2>9
<1> QED
  BY <1>1, <1>2, <1>3

\* The cancellation of a broadcaster reaches its sends later.
LEMMA CancelCallerKeeps ==
    ASSUME Inv, NEW e, CancelCaller(e)
    PROVE  Inv'
<1> USE DEF CancelCaller, queueVars, lockVars, sessVars
<1>1. Types'
  BY DEF Inv, Types
<1>2. ASSUME NEW s \in Sockets
      PROVE  SocketInv(s)'
  <2>1. Same(s)
    BY DEF Same
  <2> QED
    BY <2>1, Untouched DEF Inv
<1> QED
  BY <1>1, <1>2 DEF Inv

LEMMA NoticeEndsKeeps ==
    ASSUME Inv, NEW s \in Sockets, NEW reached \in BOOLEAN, NoticeEnds(s, reached)
    PROVE  Inv'
<1> USE DEF Inv
<1>1. io[s] = "send" /\ Holder(s).kind = "notify" /\ opq[s] # <<>> /\ IsCloser(Holder(s))
  BY DEF NoticeEnds, Writing, SocketInv, LockHeld, IsCloser
<1>2. /\ wire' \in [Sockets -> Seq(Frames)]
      /\ \A u \in Sockets : aimed'[u] = aimed[u] /\ (u # s => wire'[u] = wire[u])
      /\ wire'[s] = wire[s] \/ Gains(s, Frame(s))
      /\ ~Ended(s) /\ ~IsClosed(s)' /\ Seen(s)'
  BY <1>1, WroteSeen DEF NoticeEnds
<1>3. Types'
  BY <1>2 DEF Types, NoticeEnds, Wrote, queueVars, sessVars
<1>4. ASSUME NEW u \in Sockets, u # s
      PROVE  SocketInv(u)'
  <2>1. Same(u)
    BY <1>2, <1>4 DEF NoticeEnds, Same, queueVars, sessVars, Types
  <2> QED
    BY <2>1, Untouched
<1>5. SocketInv(s)'
  <2>1. /\ io'[s] = "close" /\ opq'[s] = opq[s] /\ sched'[s] = sched[s]
        /\ s \in attached' <=> s \in attached
        /\ ready'[s] = ready[s] /\ pending'[s] = pending[s] /\ inflight'[s] = inflight[s]
        /\ stage'[s] = stage[s] /\ busy'[s] = busy[s]
    BY DEF NoticeEnds, queueVars, sessVars, Types
  <2>2. 1 \in 1..Len(opq[s]) /\ Holder(s) = opq[s][1] /\ Holder(s) \in Tasks
    BY <1>1, HolderFirst
  <2>3. CloserWaits(s) /\ CloserWaits(s)' /\ s \notin attached /\ ~CloserCreated(s)'
    BY <1>1, <2>1, <2>2 DEF CloserWaits, CloserCreated, SocketInv, OneCloser
  <2>4. Holder(s)' = Holder(s)
    BY <2>1 DEF Holder
  <2>5. inflight[s] = 0
    BY <1>1 DEF SocketInv, Queue, Flushing
  <2>6. Ended(s)' \/ wire'[s] = wire[s]
    BY <1>1, <1>2, FrameKind, EndGain
  <2>7. Unborn(s)'
    <3>1. stage[s] \notin {"new", "refused"}
      BY <1>1 DEF SocketInv, Unborn
    <3> QED
      BY <2>1, <3>1 DEF Unborn
  <2>8. OneCloser(s)'
    BY <1>2, <2>1, <2>3 DEF SocketInv, OneCloser
  <2>9. LockHeld(s)'
    BY <1>1, <2>1, <2>4 DEF LockHeld
  <2>10. OwnTasks(s)' /\ LiveTasks(s)'
    BY <2>1 DEF SocketInv, OwnTasks, LiveTasks
  <2>11. Handshake(s)'
    <3>1. stage[s] = "activate" \/ ready[s] =>
             Len(wire'[s]) >= 2 /\ wire'[s][1].kind = "ready" /\ wire'[s][2].kind = "history"
      BY <1>2, StartStays DEF SocketInv, Handshake
    <3>2. CASE Ended(s)'
      BY <2>1, <3>1, <3>2 DEF Handshake
    <3>3. CASE wire'[s] = wire[s]
      BY <1>2, <2>1, <3>3 DEF SocketInv, Handshake
    <3> QED
      BY <2>6, <3>2, <3>3
  <2>12. Flushing(s)' /\ Line(s)'
    BY <2>1, <2>3, <2>5 DEF Flushing, Line
  <2> QED
    BY <1>2, <2>7, <2>8, <2>9, <2>10, <2>11, <2>12 DEF SocketInv, Queue
<1> QED
  BY <1>3, <1>4, <1>5

LEMMA CloseEndsKeeps ==
    ASSUME Inv, NEW s \in Sockets, CloseEnds(s)
    PROVE  Inv'
<1> USE DEF Inv
<1> DEFINE f == [kind |-> "close", event |-> 0]
<1>1. io[s] = "close" /\ opq[s] # <<>> /\ IsCloser(Holder(s))
  BY DEF CloseEnds, SocketInv, LockHeld
<1>2. f \in Frames /\ f.kind = "close"
  BY ConstantsAssumption DEF Frames, FrameKinds
<1>3. wire' = [wire EXCEPT ![s] = Append(@, f)]
  BY DEF CloseEnds
<1> HIDE DEF f
<1>4. wire' \in [Sockets -> Seq(Frames)] /\ wire'[s] = Append(wire[s], f)
      /\ \A u \in Sockets : u # s => wire'[u] = wire[u]
  BY <1>2, <1>3 DEF Types
<1>5. opq' \in [Sockets -> Seq(Tasks)] /\ opq'[s] = Tail(opq[s])
      /\ \A u \in Sockets : u # s => opq'[u] = opq[u]
  BY <1>1, LeaveTypes DEF CloseEnds
<1>6. Types'
  BY <1>4, <1>5 DEF Types, CloseEnds, queueVars, sessVars
<1>7. ASSUME NEW u \in Sockets, u # s
      PROVE  SocketInv(u)'
  <2>1. Same(u)
    BY <1>4, <1>5, <1>7 DEF CloseEnds, Same, queueVars, sessVars, Types
  <2> QED
    BY <2>1, Untouched
<1>8. SocketInv(s)'
  <2>1. /\ io'[s] = "none" /\ sched'[s] = sched[s] /\ aimed'[s] = aimed[s]
        /\ s \in attached' <=> s \in attached
        /\ ready'[s] = ready[s] /\ pending'[s] = pending[s] /\ inflight'[s] = inflight[s]
        /\ stage'[s] = stage[s] /\ busy'[s] = busy[s]
    BY DEF CloseEnds, queueVars, sessVars, Types
  <2>2. /\ Holder(s) = opq[s][1] /\ Holder(s) \in Tasks /\ 1 \in 1..Len(opq[s])
        /\ Len(opq'[s]) = Len(opq[s]) - 1 /\ Len(opq[s]) \in Nat
        /\ \A i \in 1..Len(opq'[s]) : i + 1 \in 2..Len(opq[s]) /\ opq'[s][i] = opq[s][i + 1]
    BY <1>1, <1>5, LeaveEffect
  <2>3. Gains(s, f)
    BY <1>2, <1>4, GainEffect
  <2>4. Ended(s)' /\ IsClosed(s)'
    BY <1>2, <2>3, EndGain
  <2>5. CloserWaits(s)
    BY <1>1, <2>2 DEF CloserWaits
  <2>6. s \notin attached /\ ~CloserCreated(s) /\ ~IsClosed(s)
    BY <2>5 DEF SocketInv, OneCloser
  <2>7. ASSUME NEW i \in 1..Len(opq'[s]), IsCloser(opq'[s][i])
        PROVE  FALSE
    <3>1. i + 1 \in 1..Len(opq[s]) /\ i + 1 # 1 /\ IsCloser(opq[s][i + 1]) /\ IsCloser(opq[s][1])
      BY <1>1, <2>2, <2>7
    <3> QED
      BY <2>2, <3>1 DEF SocketInv, OneCloser
  <2>8. Unborn(s)'
    <3>1. stage[s] \notin {"new", "refused"}
      BY <1>1 DEF SocketInv, Unborn
    <3> QED
      BY <2>1, <3>1 DEF Unborn
  <2>9. OneCloser(s)'
    <3>1. ~CloserWaits(s)' /\ ~CloserCreated(s)'
      BY <2>1, <2>6, <2>7 DEF CloserWaits, CloserCreated
    <3>2. \A t, u \in sched'[s] : IsCloser(t) /\ IsCloser(u) => t = u
      BY <2>1 DEF SocketInv, OneCloser
    <3> QED
      BY <2>1, <2>6, <2>7, <3>1, <3>2 DEF OneCloser
  <2>10. LockHeld(s)'
    BY <2>1, <2>4 DEF LockHeld
  <2>11. OwnTasks(s)'
    <3>1. \A t \in sched'[s] : ~IsOwn(t)
      BY <2>1 DEF SocketInv, OwnTasks
    <3>2. \A i, j \in 1..Len(opq'[s]) : IsOwn(opq'[s][i]) /\ IsOwn(opq'[s][j]) => i = j
      BY <2>2 DEF SocketInv, OwnTasks
    <3>3. \A i \in 1..Len(opq'[s]) :
             /\ IsOwn(opq'[s][i]) => busy'[s]
             /\ opq'[s][i].kind = "direct" => stage'[s] \in {"ready", "history"}
             /\ opq'[s][i].kind = "activate" => stage'[s] = "activate"
      BY <2>1, <2>2 DEF SocketInv, OwnTasks
    <3> QED
      BY <3>1, <3>2, <3>3 DEF OwnTasks
  <2>12. LiveTasks(s)'
    BY <2>1, <2>2 DEF SocketInv, LiveTasks
  <2>13. Handshake(s)'
    <3>1. stage[s] = "activate" \/ ready[s] =>
             Len(wire'[s]) >= 2 /\ wire'[s][1].kind = "ready" /\ wire'[s][2].kind = "history"
      BY <2>3, StartStays DEF SocketInv, Handshake
    <3> QED
      BY <2>1, <2>4, <3>1 DEF Handshake
  <2>14. Flushing(s)'
    <3>1. inflight[s] = 0
      BY <1>1 DEF SocketInv, Queue, Flushing
    <3> QED
      BY <2>1, <3>1 DEF Flushing
  <2>15. Line(s)'
    BY <2>1, <2>6 DEF Line
  <2>16. Seen(s)'
    <3>1. \A i \in 1..Len(wire[s]) : Rank[wire[s][i].kind] <= Rank[f.kind]
      <4> SUFFICES ASSUME NEW i \in 1..Len(wire[s])
                   PROVE  Rank[wire[s][i].kind] <= 6
        BY <1>2 DEF Rank, FrameKinds
      <4>1. wire[s][i] \in Frames
        BY DEF Types
      <4> QED
        BY <4>1 DEF Frames, FrameKinds, Rank
    <3> QED
      BY <1>2, <2>1, <2>3, <2>6, <3>1, SeenGain DEF SocketInv
  <2> QED
    BY <2>8, <2>9, <2>10, <2>11, <2>12, <2>13, <2>14, <2>15, <2>16 DEF SocketInv, Queue
<1> QED
  BY <1>6, <1>7, <1>8

-----------------------------------------------------------------------------
(* broadcast.                                                              *)

\* The socket is selected by the broadcast of event e.
Aimed(s, e) ==
    /\ e \in Events
    /\ Len(aimed[s]) \in Nat /\ Len(aimed'[s]) = Len(aimed[s]) + 1
    /\ DOMAIN aimed[s] = 1..Len(aimed[s]) /\ DOMAIN aimed'[s] = 1..Len(aimed'[s])
    /\ \A i \in 1..Len(aimed[s]) : aimed'[s][i] = aimed[s][i]
    /\ aimed'[s][Len(aimed[s]) + 1] = e

LEMMA AimEffect ==
    ASSUME Types, NEW s \in Sockets, NEW e \in Events, aimed'[s] = Append(aimed[s], e)
    PROVE  Aimed(s, e)
<1>1. aimed[s] \in Seq(Events)
  BY DEF Types
<1> QED
  BY <1>1 DEF Aimed

LEMMA AimSeen ==
    ASSUME Types, NEW s \in Sockets, NEW e, Aimed(s, e), wire'[s] = wire[s], SocketInv(s)
    PROVE  /\ Ended(s)' <=> Ended(s)
           /\ IsClosed(s)' <=> IsClosed(s)
           /\ Seen(s)'
<1>1. (Ended(s)' <=> Ended(s)) /\ (IsClosed(s)' <=> IsClosed(s))
  BY DEF Ended, IsClosed
<1>2. RanksRise(s)' /\ Begins(s)' /\ LastClose(s)'
  BY DEF SocketInv, Seen, RanksRise, Begins, LastClose
<1>3. InOrder(s)'
  <2>1. ASSUME NEW i \in 1..Len(wire[s]), wire[s][i].kind = "queued"
        PROVE  i - 2 \in DOMAIN aimed'[s] /\ wire[s][i].event = aimed'[s][i - 2]
    <3>1. i - 2 \in 1..Len(aimed[s]) /\ wire[s][i].event = aimed[s][i - 2]
      BY <2>1 DEF SocketInv, Seen, InOrder, Aimed
    <3> QED
      BY <3>1 DEF Aimed
  <2> QED
    BY <2>1 DEF InOrder
<1> QED
  BY <1>1, <1>2, <1>3 DEF Seen

LEMMA NextPlace ==
    ASSUME NEW w \in Nat, NEW n \in Nat, NEW a, w + n = a
    PROVE  w + (n + 1) = a + 1
OBVIOUS

\* A selected socket that is live, overflows, or queues the event.
LEMMA SelectedKeeps ==
    ASSUME Inv, NEW s \in Sockets, NEW e, Aimed(s, e), s \in attached,
           ready'[s] = ready[s], inflight'[s] = inflight[s],
           opq'[s] = opq[s], io'[s] = io[s], busy'[s] = busy[s],
           stage'[s] = stage[s], wire'[s] = wire[s],
           \/ /\ ready[s] /\ s \in attached' /\ pending'[s] = pending[s]
              /\ sched'[s] = sched[s] \cup {[kind |-> "send", event |-> e]}
           \/ Detached(s, "close")
           \/ /\ s \in attached' /\ sched'[s] = sched[s]
              /\ aimed'[s] = Append(aimed[s], e)
              /\ pending'[s] = Append(pending[s], e)
    PROVE  SocketInv(s)'
<1> USE DEF Inv
<1>1. /\ Ended(s)' <=> Ended(s)
      /\ IsClosed(s)' <=> IsClosed(s)
      /\ Seen(s)'
  BY AimSeen
<1>2. ~CloserWaits(s) /\ ~Ended(s) /\ (\A t \in sched[s] : ~IsCloser(t)) /\ stage[s] \notin {"new", "refused"}
  BY DEF SocketInv, OneCloser, CloserCreated, Unborn
<1>3. Unborn(s)'
  BY <1>2 DEF Unborn
<1>4. OneCloser(s)'
  <2>1. ~CloserWaits(s)'
    BY <1>2 DEF CloserWaits
  <2>2. \A i, j \in 1..Len(opq'[s]) : IsCloser(opq'[s][i]) /\ IsCloser(opq'[s][j]) => i = j
    BY DEF SocketInv, OneCloser
  <2>3. CASE Detached(s, "close")
    <3>1. \A t, u \in sched'[s] : IsCloser(t) /\ IsCloser(u) => t = u
      BY <1>2, <2>3 DEF Detached
    <3> QED
      BY <1>1, <1>2, <2>1, <2>2, <2>3, <3>1 DEF OneCloser, Detached
  <2>4. CASE ~Detached(s, "close")
    <3>1. \A t \in sched'[s] : ~IsCloser(t)
      BY <1>2, <2>4 DEF IsCloser
    <3>2. ~CloserCreated(s)'
      BY <3>1 DEF CloserCreated
    <3> QED
      BY <1>1, <1>2, <2>1, <2>2, <3>1, <3>2 DEF OneCloser
  <2> QED
    BY <2>3, <2>4
<1>5. LockHeld(s)'
  BY <1>1 DEF SocketInv, LockHeld, Holder
<1>6. OwnTasks(s)'
  <2>1. \A t \in sched'[s] : ~IsOwn(t)
    BY DEF SocketInv, OwnTasks, IsOwn, Detached
  <2> QED
    BY <2>1 DEF SocketInv, OwnTasks, IsOwn
<1>7. LiveTasks(s)'
  <2>1. \A t \in sched'[s] : t.kind = "send" => ready[s]
    BY DEF SocketInv, LiveTasks, Detached
  <2> QED
    BY <2>1 DEF SocketInv, LiveTasks
<1>8. Handshake(s)'
  BY <1>1 DEF SocketInv, Handshake
<1>9. Flushing(s)'
  <2>1. Holder(s)' = Holder(s)
    BY DEF Holder
  <2>2. inflight[s] # 0 => Len(wire[s]) - 1 \in 1..Len(aimed'[s])
                           /\ aimed'[s][Len(wire[s]) - 1] = aimed[s][Len(wire[s]) - 1]
    <3>1. inflight[s] # 0 => Len(wire[s]) - 1 \in 1..Len(aimed[s])
      BY DEF SocketInv, Queue, Flushing
    <3>2. \A k \in 1..Len(aimed[s]) : k \in 1..Len(aimed'[s]) /\ aimed'[s][k] = aimed[s][k]
      BY DEF Aimed
    <3> QED
      BY <3>1, <3>2
  <2> QED
    BY <2>1, <2>2 DEF SocketInv, Queue, Flushing
<1>10. Line(s)'
  <2>1. CASE s \notin attached' \/ stage[s] \in {"live", "cleanup", "done"}
    BY <2>1 DEF Line
  <2>2. CASE /\ s \in attached' /\ stage[s] \in {"ready", "history"}
             /\ aimed'[s] = Append(aimed[s], e) /\ pending'[s] = Append(pending[s], e)
    BY <2>2 DEF SocketInv, Queue, Line
  <2>3. CASE /\ s \in attached' /\ stage[s] = "activate"
             /\ aimed'[s] = Append(aimed[s], e) /\ pending'[s] = Append(pending[s], e)
    <3>1. Taken(s)' = Taken(s) /\ Taken(s) \in Nat
      BY <2>3 DEF Taken, Types, SocketInv, Handshake
    <3>2. /\ Taken(s) + Len(pending[s]) = Len(aimed[s])
          /\ \A k \in 1..Len(pending[s]) : pending[s][k] = aimed[s][Taken(s) + k]
      BY <2>3 DEF SocketInv, Queue, Line
    <3>3. pending[s] \in Seq(Events) /\ aimed[s] \in Seq(Events) /\ e \in Events
      BY DEF Types, Aimed
    <3>4. /\ Len(pending[s]) \in Nat /\ Len(pending'[s]) = Len(pending[s]) + 1
          /\ pending'[s][Len(pending[s]) + 1] = e
          /\ \A k \in 1..Len(pending[s]) : pending'[s][k] = pending[s][k]
      BY <2>3, <3>3
    <3>5. Taken(s) + (Len(pending[s]) + 1) = Len(aimed[s]) + 1
      BY <3>1, <3>2, <3>4, NextPlace, Zenon
    <3>7. Taken(s) + Len(pending'[s]) = Len(aimed'[s])
      BY <3>4, <3>5 DEF Aimed
    <3>6. ASSUME NEW k \in 1..Len(pending'[s])
          PROVE  pending'[s][k] = aimed'[s][Taken(s) + k]
      <4>1. CASE k = Len(pending[s]) + 1
        <5>1. Taken(s) + k = Len(aimed[s]) + 1
          BY <3>5, <4>1
        <5> QED
          BY <3>4, <4>1, <5>1 DEF Aimed
      <4>2. CASE k # Len(pending[s]) + 1
        <5>1. k \in 1..Len(pending[s]) /\ Taken(s) + k \in 1..Len(aimed[s])
          <6>1. k \in 1..Len(pending[s])
            BY <3>4, <4>2
          <6>2. Taken(s) + k \in 1..(Taken(s) + Len(pending[s]))
            BY <3>1, <3>4, <6>1
          <6> QED
            BY <3>2, <6>1, <6>2
        <5> QED
          BY <3>2, <3>4, <5>1 DEF Aimed
      <4> QED
        BY <4>1, <4>2
    <3> QED
      BY <2>3, <3>1, <3>7, <3>6 DEF Line
  <2>4. stage[s] \in {"ready", "history", "activate", "live", "cleanup", "done"}
    BY <1>2 DEF Types, Stages
  <2>5. ready[s] => stage[s] \in {"live", "cleanup", "done"}
    BY DEF SocketInv, LiveTasks
  <2> QED
    BY <2>1, <2>2, <2>3, <2>4, <2>5 DEF Detached
<1> QED
  BY <1>1, <1>3, <1>4, <1>5, <1>6, <1>7, <1>8, <1>9, <1>10 DEF SocketInv, Queue

LEMMA BroadcastKeeps ==
    ASSUME Inv, NEW r, NEW skip, Broadcast(r, skip)
    PROVE  Inv'
<1> USE DEF Inv
<1> DEFINE e == nextEvent
           peers == InRoom(r) \ skip
           live == {s \in peers : IsLive(s)}
<1>1. /\ e <= MaxEvents
      /\ nextEvent' = e + 1
      /\ aimed' = [s \in Sockets |-> IF s \in peers THEN Append(aimed[s], e) ELSE aimed[s]]
      /\ UNCHANGED <<ready, inflight, opq, io, sessVars, wire>>
  BY DEF Broadcast
<1>2. PICK order \in SetToSeqs(peers \ live) :
         LET over == Overflowing(order, e)
             queued == (peers \ live) \ over
         IN  /\ DetachAndSend(over, "close", live, e)
             /\ pending' = [s \in Sockets |->
                   IF s \in over THEN <<>>
                   ELSE IF s \in queued THEN Append(pending[s], e) ELSE pending[s]]
  BY DEF Broadcast
<1> DEFINE over == Overflowing(order, e)
<1>3. over \subseteq peers \ live
  BY DEF Overflowing, SetToSeqs
<1>4. peers \subseteq attached /\ attached \subseteq Sockets
  BY DEF InRoom, Types
<1>5. \A s \in Sockets : s \in live <=> s \in peers /\ ready[s]
  BY DEF IsLive
<1>6. /\ attached' = attached \ over
      /\ sched' = [s \in Sockets |->
                     sched[s] \cup (IF s \in over THEN {Task("close", 0)} ELSE {})
                              \cup (IF s \in live THEN {Task("send", e)} ELSE {})]
      /\ pending' = [s \in Sockets |->
                       IF s \in over THEN <<>>
                       ELSE IF s \in (peers \ live) \ over THEN Append(pending[s], e) ELSE pending[s]]
  <2>1. over \cap attached = over
    BY <1>3, <1>4
  <2> QED
    BY <1>2, <2>1 DEF DetachAndSend, Winners, Closer
<1> HIDE DEF over, live, peers
<1>7. e \in Events /\ e + 1 \in 1..(MaxEvents + 1)
  BY <1>1, ConstantsAssumption DEF Types, Events
<1>8. Task("close", 0) \in Tasks /\ Task("send", e) \in Tasks
  BY <1>7, ConstantsAssumption DEF Task, Tasks, TaskKinds, Events
<1> HIDE DEF e
<1>9. Types'
  <2>1. attached' \subseteq Sockets
    BY <1>4, <1>6
  <2>2. sched' \in [Sockets -> SUBSET Tasks]
    BY <1>6, <1>8 DEF Types
  <2>3. pending' \in [Sockets -> Seq(Events)]
    <3>1. \A s \in Sockets : pending[s] \in Seq(Events) /\ Append(pending[s], e) \in Seq(Events)
      BY <1>7 DEF Types
    <3>2. <<>> \in Seq(Events)
      OBVIOUS
    <3> QED
      BY <1>6, <3>1, <3>2
  <2>4. aimed' \in [Sockets -> Seq(Events)]
    <3>1. \A s \in Sockets : aimed[s] \in Seq(Events) /\ Append(aimed[s], e) \in Seq(Events)
      BY <1>7 DEF Types
    <3> QED
      BY <1>1, <3>1
  <2> QED
    BY <1>1, <1>7, <2>1, <2>2, <2>3, <2>4 DEF Types, sessVars
<1>10. ASSUME NEW s \in Sockets
       PROVE  SocketInv(s)'
  <2>1. CASE s \notin peers
    <3>1. s \notin over /\ s \notin live
      BY <1>3, <1>5, <2>1
    <3>2. Same(s)
      BY <1>1, <1>6, <2>1, <3>1 DEF Same, sessVars
    <3> QED
      BY <3>2, Untouched
  <2>2. CASE s \in peers
    <3>1. aimed'[s] = Append(aimed[s], e)
      BY <1>1, <2>2
    <3>2. Aimed(s, e)
      BY <1>7, <3>1, AimEffect
    <3>3. CASE ready[s]
      <4>1. s \in live /\ s \notin over
        BY <1>3, <1>5, <2>2, <3>3
      <4>2. /\ s \in attached /\ s \in attached' /\ pending'[s] = pending[s]
            /\ sched'[s] = sched[s] \cup {[kind |-> "send", event |-> e]}
        BY <1>4, <1>6, <2>2, <4>1 DEF Task
      <4> QED
        BY <1>1, <3>2, <3>3, <4>2, SelectedKeeps DEF sessVars
    <3>4. CASE s \in over
      <4>1. s \notin live
        BY <1>3, <3>4
      <4>2. Detached(s, "close") /\ s \in attached
        BY <1>4, <1>6, <2>2, <3>4, <4>1 DEF Detached, Task
      <4> QED
        BY <1>1, <3>2, <4>2, SelectedKeeps DEF sessVars
    <3>5. CASE ~ready[s] /\ s \notin over
      <4>1. s \notin live /\ s \in (peers \ live) \ over
        BY <1>5, <2>2, <3>5
      <4>2. /\ s \in attached /\ s \in attached' /\ sched'[s] = sched[s]
            /\ pending'[s] = Append(pending[s], e)
        BY <1>4, <1>6, <2>2, <3>5, <4>1
      <4> QED
        BY <1>1, <3>1, <3>2, <4>2, SelectedKeeps DEF sessVars
    <3> QED
      BY <3>3, <3>4, <3>5
  <2> QED
    BY <2>1, <2>2
<1> QED
  BY <1>9, <1>10

-----------------------------------------------------------------------------
(* The theorems.                                                           *)

LEMMA InitInv ==
    ASSUME Init
    PROVE  Inv
<1>1. Types
  BY ConstantsAssumption DEF Init, Types, Stages
<1>2. ASSUME NEW s \in Sockets
      PROVE  SocketInv(s)
  <2>1. /\ s \notin attached /\ ~ready[s] /\ pending[s] = <<>> /\ inflight[s] = 0
        /\ opq[s] = <<>> /\ io[s] = "none" /\ sched[s] = {} /\ stage[s] = "new" /\ ~busy[s]
        /\ wire[s] = <<>> /\ aimed[s] = <<>>
    BY DEF Init
  <2>2. Unborn(s) /\ OwnTasks(s) /\ LiveTasks(s) /\ Handshake(s)
    BY <2>1 DEF Unborn, OwnTasks, LiveTasks, Handshake
  <2>3. OneCloser(s) /\ LockHeld(s)
    BY <2>1 DEF OneCloser, LockHeld, CloserCreated, CloserWaits, Ended, IsClosed
  <2>4. Flushing(s) /\ Line(s) /\ Seen(s)
    BY <2>1 DEF Flushing, Line, Seen, RanksRise, Begins, InOrder, LastClose
  <2> QED
    BY <2>2, <2>3, <2>4 DEF SocketInv, Queue
<1> QED
  BY <1>1, <1>2 DEF Inv

LEMMA StutterInv ==
    ASSUME Inv, UNCHANGED vars
    PROVE  Inv'
<1>1. Types'
  BY DEF Inv, Types, vars, queueVars, lockVars, sessVars, histVars
<1>2. ASSUME NEW s \in Sockets
      PROVE  SocketInv(s)'
  <2>1. Same(s)
    BY DEF Same, vars, queueVars, lockVars, sessVars, histVars
  <2> QED
    BY <2>1, Untouched DEF Inv
<1> QED
  BY <1>1, <1>2 DEF Inv

LEMMA NextInv ==
    ASSUME Inv, [Next]_vars
    PROVE  Inv'
<1>1. ASSUME NEW s \in Sockets,
             \/ Register(s) \/ Send(s) \/ Activate(s) \/ EndSession(s) \/ Cleanup(s)
             \/ Start(s) \/ GrantSend(s) \/ GrantActivate(s) \/ GrantClose(s)
             \/ CloseEnds(s) \/ LeaseClose(s)
      PROVE  Inv'
  BY <1>1, RegisterKeeps, SendKeeps, ActivateKeeps, EndSessionKeeps, CleanupKeeps, StartKeeps,
     GrantSendKeeps, GrantActivateKeeps, GrantCloseKeeps, CloseEndsKeeps, LeaseCloseKeeps
<1>2. ASSUME NEW s \in Sockets, NEW reached \in BOOLEAN,
             \/ NoticeEnds(s, reached) \/ Deadline(s, reached) \/ Cancel(s, reached)
             \/ SendCancelled(s, reached)
      PROVE  Inv'
  BY <1>2, NoticeEndsKeeps, WithdrawKeeps, SendCancelledKeeps DEF Deadline, Cancel
<1>3. ASSUME NEW s \in Sockets, NEW reached \in BOOLEAN, NEW ok \in BOOLEAN,
             SendEnds(s, ok, reached) \/ DirectEnds(s, ok, reached) \/ FlushEnds(s, ok, reached)
      PROVE  Inv'
  BY <1>3, SendEndsKeeps, DirectEndsKeeps, FlushEndsKeeps
<1>4. ASSUME NEW r, NEW skip, Broadcast(r, skip)
      PROVE  Inv'
  BY <1>4, BroadcastKeeps
<1>5. ASSUME NEW r, NEW who, CloseRoom(r, who)
      PROVE  Inv'
  BY <1>5, CloseRoomKeeps
<1> QED
  BY <1>1, <1>2, <1>3, <1>4, <1>5, CloseAllKeeps, CancelCallerKeeps, StutterInv DEF Next

\* The inductive invariant: for every socket, what its stage, its lock, its
\* tasks, its queue and what its client has seen have to do with one another.
THEOREM ManagerInvariance == Spec => []Inv
<1>1. Init => Inv
  BY InitInv
<1>2. Inv /\ [Next]_vars => Inv'
  BY NextInv
<1> QED
  BY <1>1, <1>2, PTL DEF Spec

\* A client sees ready, history, the queued events from the first one on and in
\* the order of their broadcasts, and then live events, however the
\* activation, the broadcasts and the closers of websocket_manager.py
\* interleave.
THEOREM OrderSeen == Spec => []HandshakeOrder
<1>1. Inv => HandshakeOrder
  BY DEF Inv, SocketInv, Seen, RanksRise, Begins, InOrder, HandshakeOrder
<1> QED
  BY <1>1, ManagerInvariance, PTL

\* Every socket is closed at most once, and nothing is written after it.
THEOREM ClosedOnce == Spec => []CloseIsLast
<1>1. Inv => CloseIsLast
  BY DEF Inv, SocketInv, Seen, LastClose, CloseIsLast
<1> QED
  BY <1>1, ManagerInvariance, PTL

-----------------------------------------------------------------------------
(* Nothing is dropped or doubled.                                          *)

Sender(t) == t.kind = "send"
Carries(f) == f.kind \in {"queued", "live"}

\* The broadcasts that selected a socket, in the order of their numbers.
Ascending(s) ==
    /\ \A i, j \in 1..Len(aimed[s]) : i < j => aimed[s][i] < aimed[s][j]
    /\ \A i \in 1..Len(aimed[s]) : aimed[s][i] < nextEvent

\* Every broadcast is written, or waits to be written, once.
Once(s) ==
    /\ \A i \in 1..Len(wire[s]) : Carries(wire[s][i]) => wire[s][i].event < nextEvent
    /\ \A t \in sched[s] : Sender(t) => t.event < nextEvent
    /\ \A i \in 1..Len(opq[s]) : Sender(opq[s][i]) => opq[s][i].event < nextEvent
    /\ \A i, j \in 1..Len(wire[s]) :
          Carries(wire[s][i]) /\ Carries(wire[s][j]) /\ wire[s][i].event = wire[s][j].event => i = j
    /\ \A i, j \in 1..Len(opq[s]) :
          Sender(opq[s][i]) /\ Sender(opq[s][j]) /\ opq[s][i].event = opq[s][j].event => i = j
    /\ \A t \in sched[s], i \in 1..Len(opq[s]) :
          Sender(t) /\ Sender(opq[s][i]) => opq[s][i].event # t.event
    /\ \A t \in sched[s], i \in 1..Len(wire[s]) :
          Sender(t) /\ Carries(wire[s][i]) => wire[s][i].event # t.event
    /\ \A j \in 1..Len(opq[s]), i \in 1..Len(wire[s]) :
          Sender(opq[s][j]) /\ Carries(wire[s][i]) => wire[s][i].event # opq[s][j].event

\* The request is through with a socket only when that is detached.
Released(s) == stage[s] = "done" => s \notin attached

\* What selected a live socket is written, waits to be, or was cancelled.
LiveCover(s) ==
    ready[s] /\ s \in attached /\ stage[s] # "cleanup" =>
       /\ pending[s] = <<>> /\ inflight[s] = 0
       /\ ToSet(aimed[s]) = Sent(s) \cup Waiting(s) \cup cut[s]

Delivery(s) == Ascending(s) /\ Once(s) /\ Released(s) /\ LiveCover(s)
DeliveryInv == \A s \in Sockets : Delivery(s)

\* Only sends to live sockets are cancelled.
CutInv ==
    /\ cut \in [Sockets -> SUBSET (0..MaxEvents)]
    /\ \A s \in Sockets : cut[s] # {} => ready[s]

LEMMA SentIs ==
    ASSUME NEW s \in Sockets, NEW e
    PROVE  e \in Sent(s) <=> \E i \in 1..Len(wire[s]) : Carries(wire[s][i]) /\ wire[s][i].event = e
BY DEF Sent, Delivered, Carries

LEMMA WaitingIs ==
    ASSUME Types, NEW s \in Sockets, NEW e
    PROVE  e \in Waiting(s) <=>
              \/ \E t \in sched[s] : Sender(t) /\ t.event = e
              \/ \E i \in 1..Len(opq[s]) : Sender(opq[s][i]) /\ opq[s][i].event = e
<1>1. DOMAIN opq[s] = 1..Len(opq[s])
  BY DEF Types
<1> QED
  BY <1>1 DEF Waiting, ToSet, Sender

\* A step that neither selects the socket nor writes one of its broadcasts.
Quiet(s) ==
    /\ aimed'[s] = aimed[s] /\ nextEvent' = nextEvent
    /\ wire'[s] = wire[s] \/ \E f : Gains(s, f) /\ ~Carries(f)
    /\ \A t \in sched'[s] : Sender(t) => t \in sched[s]
    /\ \/ opq'[s] = opq[s]
       \/ \E i \in 1..Len(opq[s]) : Without(s, i)
       \/ \E t \in Tasks : opq'[s] = Append(opq[s], t) /\ ~Sender(t)

LEMMA QuietWire ==
    ASSUME Types, NEW s \in Sockets,
           wire'[s] = wire[s] \/ \E f : Gains(s, f) /\ ~Carries(f)
    PROVE  /\ \A i \in 1..Len(wire'[s]) : Carries(wire'[s][i]) =>
                 i \in 1..Len(wire[s]) /\ wire'[s][i] = wire[s][i]
           /\ \A i \in 1..Len(wire[s]) : i \in 1..Len(wire'[s]) /\ wire'[s][i] = wire[s][i]
<1>1. Len(wire[s]) \in Nat
  BY DEF Types
<1>2. CASE wire'[s] = wire[s]
  BY <1>2
<1>3. CASE \E f : Gains(s, f) /\ ~Carries(f)
  BY <1>1, <1>3 DEF Gains
<1> QED
  BY <1>2, <1>3

\* The senders waiting for the lock are among those that did.
LEMMA QuietLock ==
    ASSUME Types, NEW s \in Sockets,
           \/ opq'[s] = opq[s]
           \/ \E i \in 1..Len(opq[s]) : Without(s, i)
           \/ \E t \in Tasks : opq'[s] = Append(opq[s], t) /\ ~Sender(t)
    PROVE  \E p \in [1..Len(opq'[s]) -> Nat] :
              \A j \in 1..Len(opq'[s]) : Sender(opq'[s][j]) =>
                 /\ p[j] \in 1..Len(opq[s]) /\ opq'[s][j] = opq[s][p[j]]
                 /\ \A k \in 1..Len(opq'[s]) : p[j] = p[k] => j = k
<1>1. opq[s] \in Seq(Tasks) /\ Len(opq[s]) \in Nat
  BY DEF Types
<1>2. CASE opq'[s] = opq[s]
  <2> DEFINE p == [j \in 1..Len(opq'[s]) |-> j]
  <2>1. p \in [1..Len(opq'[s]) -> Nat]
    BY <1>1, <1>2
  <2>2. \A j \in 1..Len(opq'[s]) : p[j] = j
    OBVIOUS
  <2> HIDE DEF p
  <2> WITNESS p \in [1..Len(opq'[s]) -> Nat]
  <2> QED
    BY <1>2, <2>2
<1>3. CASE \E i \in 1..Len(opq[s]) : Without(s, i)
  <2> PICK i \in 1..Len(opq[s]) : Without(s, i)
    BY <1>3
  <2> DEFINE p == [j \in 1..Len(opq'[s]) |-> IF j < i THEN j ELSE j + 1]
  <2>1. p \in [1..Len(opq'[s]) -> Nat]
    BY <1>1
  <2>2. \A j \in 1..Len(opq'[s]) : p[j] = (IF j < i THEN j ELSE j + 1)
    OBVIOUS
  <2> HIDE DEF p
  <2>3. \A j \in 1..Len(opq'[s]) : p[j] \in 1..Len(opq[s]) /\ opq'[s][j] = opq[s][p[j]]
    BY <1>1, <2>2 DEF Without
  <2>4. \A j, k \in 1..Len(opq'[s]) : p[j] = p[k] => j = k
    BY <1>1, <2>2 DEF Without
  <2> WITNESS p \in [1..Len(opq'[s]) -> Nat]
  <2> QED
    BY <2>3, <2>4
<1>4. CASE \E t \in Tasks : opq'[s] = Append(opq[s], t) /\ ~Sender(t)
  <2> PICK t \in Tasks : opq'[s] = Append(opq[s], t) /\ ~Sender(t)
    BY <1>4
  <2>0. /\ opq'[s][Len(opq[s]) + 1] = t
        /\ \A i \in 1..Len(opq[s]) : opq'[s][i] = opq[s][i]
        /\ 1..Len(opq'[s]) = (1..Len(opq[s])) \cup {Len(opq[s]) + 1}
    BY WaitEffect
  <2> DEFINE p == [j \in 1..Len(opq'[s]) |-> j]
  <2>1. p \in [1..Len(opq'[s]) -> Nat]
    BY <1>1, <2>0
  <2>2. \A j \in 1..Len(opq'[s]) : p[j] = j
    OBVIOUS
  <2> HIDE DEF p
  <2> WITNESS p \in [1..Len(opq'[s]) -> Nat]
  <2> QED
    BY <2>0, <2>2
<1> QED
  BY <1>2, <1>3, <1>4

LEMMA QuietOnce ==
    ASSUME Types, NEW s \in Sockets, Quiet(s), Ascending(s), Once(s)
    PROVE  Ascending(s)' /\ Once(s)'
<1>1. Ascending(s)'
  BY DEF Ascending, Quiet
<1>2. /\ \A i \in 1..Len(wire'[s]) : Carries(wire'[s][i]) =>
            i \in 1..Len(wire[s]) /\ wire'[s][i] = wire[s][i]
  BY QuietWire DEF Quiet
<1>3. PICK p \in [1..Len(opq'[s]) -> Nat] :
         \A j \in 1..Len(opq'[s]) : Sender(opq'[s][j]) =>
            /\ p[j] \in 1..Len(opq[s]) /\ opq'[s][j] = opq[s][p[j]]
            /\ \A k \in 1..Len(opq'[s]) : p[j] = p[k] => j = k
  BY QuietLock DEF Quiet
<1>4. \A t \in sched'[s] : Sender(t) => t \in sched[s]
  BY DEF Quiet
<1>5. nextEvent' = nextEvent
  BY DEF Quiet
<1>6. /\ \A i \in 1..Len(wire'[s]) : Carries(wire'[s][i]) => wire'[s][i].event < nextEvent'
      /\ \A i, j \in 1..Len(wire'[s]) :
            Carries(wire'[s][i]) /\ Carries(wire'[s][j]) /\ wire'[s][i].event = wire'[s][j].event => i = j
  BY <1>2, <1>5 DEF Once
<1>7. /\ \A t \in sched'[s] : Sender(t) => t.event < nextEvent'
      /\ \A t \in sched'[s], i \in 1..Len(wire'[s]) :
            Sender(t) /\ Carries(wire'[s][i]) => wire'[s][i].event # t.event
  BY <1>2, <1>4, <1>5 DEF Once
<1>8. /\ \A i \in 1..Len(opq'[s]) : Sender(opq'[s][i]) => opq'[s][i].event < nextEvent'
      /\ \A i, j \in 1..Len(opq'[s]) :
            Sender(opq'[s][i]) /\ Sender(opq'[s][j]) /\ opq'[s][i].event = opq'[s][j].event => i = j
  <2>1. \A i \in 1..Len(opq'[s]) : Sender(opq'[s][i]) => opq'[s][i].event < nextEvent'
    BY <1>3, <1>5 DEF Once
  <2>2. ASSUME NEW i \in 1..Len(opq'[s]), NEW j \in 1..Len(opq'[s]),
               Sender(opq'[s][i]), Sender(opq'[s][j]), opq'[s][i].event = opq'[s][j].event
        PROVE  i = j
    <3>1. /\ p[i] \in 1..Len(opq[s]) /\ opq'[s][i] = opq[s][p[i]]
          /\ p[j] \in 1..Len(opq[s]) /\ opq'[s][j] = opq[s][p[j]]
          /\ p[i] = p[j] => i = j
      BY <1>3, <2>2
    <3>2. p[i] = p[j]
      BY <2>2, <3>1 DEF Once
    <3> QED
      BY <3>1, <3>2
  <2> QED
    BY <2>1, <2>2
<1>9. \A t \in sched'[s], i \in 1..Len(opq'[s]) :
          Sender(t) /\ Sender(opq'[s][i]) => opq'[s][i].event # t.event
  BY <1>3, <1>4 DEF Once
<1>10. \A j \in 1..Len(opq'[s]), i \in 1..Len(wire'[s]) :
          Sender(opq'[s][j]) /\ Carries(wire'[s][i]) => wire'[s][i].event # opq'[s][j].event
  <2> SUFFICES ASSUME NEW j \in 1..Len(opq'[s]), NEW i \in 1..Len(wire'[s]),
                      Sender(opq'[s][j]), Carries(wire'[s][i])
               PROVE  wire'[s][i].event # opq'[s][j].event
    OBVIOUS
  <2>1. i \in 1..Len(wire[s]) /\ wire'[s][i] = wire[s][i]
    BY <1>2
  <2>2. p[j] \in 1..Len(opq[s]) /\ opq'[s][j] = opq[s][p[j]]
    BY <1>3
  <2> QED
    BY <2>1, <2>2 DEF Once
<1> QED
  BY <1>1, <1>6, <1>7, <1>8, <1>9, <1>10 DEF Once

\* The tasks that have a broadcast to write are still there.
SendersStay(s) ==
    /\ \A t \in sched[s] : Sender(t) => t \in sched'[s]
    /\ \A i \in 1..Len(opq[s]) : Sender(opq[s][i]) =>
          \E j \in 1..Len(opq'[s]) : opq'[s][j] = opq[s][i]

LEMMA QuietKeeps ==
    ASSUME Types, Types', NEW s \in Sockets, cut'[s] = cut[s], Delivery(s), Quiet(s),
           stage'[s] = "done" => s \notin attached',
           \/ s \notin attached' \/ stage'[s] = "cleanup" \/ ~ready'[s]
           \/ /\ s \in attached /\ stage[s] # "cleanup" /\ ready[s]
              /\ pending'[s] = pending[s] /\ inflight'[s] = inflight[s]
              /\ SendersStay(s)
    PROVE  Delivery(s)'
<1>1. Ascending(s)' /\ Once(s)'
  BY QuietOnce DEF Delivery
<1>2. Released(s)'
  BY DEF Released
<1>3. LiveCover(s)'
  <2>1. CASE s \notin attached' \/ stage'[s] = "cleanup" \/ ~ready'[s]
    BY <2>1 DEF LiveCover
  <2>2. CASE /\ s \in attached /\ stage[s] # "cleanup" /\ ready[s]
             /\ pending'[s] = pending[s] /\ inflight'[s] = inflight[s]
             /\ SendersStay(s)
    <3>1. /\ pending[s] = <<>> /\ inflight[s] = 0
          /\ ToSet(aimed[s]) = Sent(s) \cup Waiting(s) \cup cut[s]
      BY <2>2 DEF Delivery, LiveCover
    <3>2. \A e : e \in Sent(s)' <=> e \in Sent(s)
      <4> TAKE e
      <4>1. e \in Sent(s) <=> \E i \in 1..Len(wire[s]) : Carries(wire[s][i]) /\ wire[s][i].event = e
        BY SentIs
      <4>2. e \in Sent(s)' <=> \E i \in 1..Len(wire'[s]) : Carries(wire'[s][i]) /\ wire'[s][i].event = e
        BY SentIs DEF Sent, Delivered, Carries
      <4>3. /\ \A i \in 1..Len(wire'[s]) : Carries(wire'[s][i]) =>
                  i \in 1..Len(wire[s]) /\ wire'[s][i] = wire[s][i]
            /\ \A i \in 1..Len(wire[s]) : i \in 1..Len(wire'[s]) /\ wire'[s][i] = wire[s][i]
        BY QuietWire DEF Quiet
      <4> QED
        BY <4>1, <4>2, <4>3
    <3>3. \A e : e \in Waiting(s)' <=> e \in Waiting(s)
      <4> TAKE e
      <4>1. e \in Waiting(s) <=>
              \/ \E t \in sched[s] : Sender(t) /\ t.event = e
              \/ \E i \in 1..Len(opq[s]) : Sender(opq[s][i]) /\ opq[s][i].event = e
        BY WaitingIs
      <4>2. e \in Waiting(s)' <=>
              \/ \E t \in sched'[s] : Sender(t) /\ t.event = e
              \/ \E i \in 1..Len(opq'[s]) : Sender(opq'[s][i]) /\ opq'[s][i].event = e
        <5>1. DOMAIN opq'[s] = 1..Len(opq'[s])
          BY DEF Types
        <5> QED
          BY <5>1 DEF Waiting, ToSet, Sender
      <4>3. PICK p \in [1..Len(opq'[s]) -> Nat] :
               \A j \in 1..Len(opq'[s]) : Sender(opq'[s][j]) =>
                  /\ p[j] \in 1..Len(opq[s]) /\ opq'[s][j] = opq[s][p[j]]
                  /\ \A k \in 1..Len(opq'[s]) : p[j] = p[k] => j = k
        BY QuietLock DEF Quiet
      <4>4. \A t : Sender(t) => (t \in sched'[s] <=> t \in sched[s])
        BY <2>2 DEF Quiet, SendersStay
      <4>5. (\E i \in 1..Len(opq'[s]) : Sender(opq'[s][i]) /\ opq'[s][i].event = e)
            <=> (\E i \in 1..Len(opq[s]) : Sender(opq[s][i]) /\ opq[s][i].event = e)
        BY <2>2, <4>3 DEF SendersStay
      <4> QED
        BY <4>1, <4>2, <4>4, <4>5
    <3>4. ToSet(aimed[s])' = ToSet(aimed[s])
      BY DEF Quiet, ToSet
    <3> QED
      BY <2>2, <3>1, <3>2, <3>3, <3>4 DEF LiveCover
  <2> QED
    BY <2>1, <2>2
<1> QED
  BY <1>1, <1>2, <1>3 DEF Delivery

\* A step that at most closes the socket, or ends its request.
LEMMA BystanderKeeps ==
    ASSUME Types, Types', NEW s \in Sockets, cut'[s] = cut[s], Delivery(s), nextEvent' = nextEvent,
           ready'[s] = ready[s], inflight'[s] = inflight[s], opq'[s] = opq[s],
           wire'[s] = wire[s], aimed'[s] = aimed[s],
           KeptAttached(s) \/ Detached(s, "close") \/ Detached(s, "notify"),
           \/ stage'[s] = stage[s] \/ stage'[s] = "cleanup"
           \/ stage'[s] = "done" /\ s \notin attached'
    PROVE  Delivery(s)'
<1>1. Quiet(s)
  BY DEF Quiet, KeptAttached, Detached, Sender
<1>2. stage'[s] = "done" => s \notin attached'
  BY DEF Delivery, Released, KeptAttached, Detached
<1>3. s \in attached' => KeptAttached(s) /\ SendersStay(s)
  BY DEF KeptAttached, Detached, SendersStay
<1>4. \/ s \notin attached' \/ stage'[s] = "cleanup" \/ ~ready'[s]
      \/ /\ s \in attached /\ stage[s] # "cleanup" /\ ready[s]
         /\ pending'[s] = pending[s] /\ inflight'[s] = inflight[s]
         /\ SendersStay(s)
  BY <1>3 DEF KeptAttached
<1> QED
  BY <1>1, <1>2, <1>4, QuietKeeps

LEMMA SameDelivery ==
    ASSUME Types, Types', NEW s \in Sockets, cut'[s] = cut[s], Delivery(s), nextEvent' = nextEvent, Same(s)
    PROVE  Delivery(s)'
BY BystanderKeeps DEF Same, KeptAttached

LEMMA RegisterDelivers ==
    ASSUME Inv, Inv', DeliveryInv, cut' = cut, NEW s \in Sockets, Register(s)
    PROVE  DeliveryInv'
<1> SUFFICES ASSUME NEW u \in Sockets
             PROVE  Delivery(u)'
  BY DEF DeliveryInv
<1> USE DEF Inv
<1>1. Delivery(u)
  BY DEF DeliveryInv
<1>2. CASE u # s
  <2>1. Same(u) /\ nextEvent' = nextEvent
    BY <1>2 DEF Types, Register, lockVars, histVars, Same
  <2> QED
    BY <1>1, <2>1, SameDelivery
<1>3. CASE u = s
  <2>1. Quiet(s)
    BY DEF Register, lockVars, histVars, Quiet
  <2>2. ~ready'[s] /\ stage'[s] # "done"
    BY DEF Register, SocketInv, Unborn, Types
  <2> QED
    BY <1>1, <1>3, <2>1, <2>2, QuietKeeps
<1> QED
  BY <1>2, <1>3

LEMMA OwnWaitsDelivers ==
    ASSUME Inv, Inv', DeliveryInv, cut' = cut, NEW s \in Sockets, Send(s) \/ Activate(s)
    PROVE  DeliveryInv'
<1> SUFFICES ASSUME NEW u \in Sockets
             PROVE  Delivery(u)'
  BY DEF DeliveryInv
<1> USE DEF Inv
<1>1. Delivery(u)
  BY DEF DeliveryInv
<1>2. CASE u # s
  <2>1. Same(u) /\ nextEvent' = nextEvent
    BY <1>2 DEF Types, Send, Activate, queueVars, lockVars, histVars, Same
  <2> QED
    BY <1>1, <2>1, SameDelivery
<1>3. CASE u = s
  <2>0. Task("direct", 0) \in Tasks /\ Task("activate", 0) \in Tasks
        /\ ~Sender(Task("direct", 0)) /\ ~Sender(Task("activate", 0))
    BY ConstantsAssumption DEF Task, Tasks, TaskKinds, Sender
  <2>1. Quiet(s)
    <3>1. opq'[s] = opq[s] \/ \E t \in Tasks : opq'[s] = Append(opq[s], t) /\ ~Sender(t)
      BY <2>0 DEF Send, Activate, Types
    <3> QED
      BY <3>1 DEF Send, Activate, histVars, Quiet
  <2>2. ~ready'[s] /\ stage'[s] # "done"
    <3>1. stage[s] \in {"ready", "history", "activate"} /\ ready'[s] = ready[s]
      BY DEF Send, Activate, queueVars
    <3>2. ~ready[s]
      BY <3>1 DEF SocketInv, LiveTasks
    <3>3. stage'[s] \in {stage[s], "cleanup"}
      BY DEF Send, Activate, Types
    <3> QED
      BY <3>1, <3>2, <3>3
  <2> QED
    BY <1>1, <1>3, <2>1, <2>2, QuietKeeps
<1> QED
  BY <1>2, <1>3

LEMMA EndSessionDelivers ==
    ASSUME Inv, Inv', DeliveryInv, cut' = cut, NEW s \in Sockets, EndSession(s)
    PROVE  DeliveryInv'
<1> SUFFICES ASSUME NEW u \in Sockets
             PROVE  Delivery(u)'
  BY DEF DeliveryInv
<1>1. Delivery(u)
  BY DEF DeliveryInv
<1>2. stage'[u] = stage[u] \/ stage'[u] = "cleanup"
  BY DEF EndSession, Inv, Types
<1>3. KeptAttached(u)
  BY DEF EndSession, queueVars, lockVars, KeptAttached
<1> QED
  BY <1>1, <1>2, <1>3, BystanderKeeps DEF EndSession, queueVars, lockVars, histVars, Inv

LEMMA CloseDelivers ==
    ASSUME Inv, Inv', DeliveryInv, cut' = cut, NEW S, NEW kind \in {"close", "notify"}, DetachAll(S, kind),
           UNCHANGED <<ready, inflight, opq, io, busy, histVars>>,
           \A s \in Sockets : stage'[s] = stage[s] \/ (stage'[s] = "done" /\ s \in S)
    PROVE  DeliveryInv'
<1> SUFFICES ASSUME NEW u \in Sockets
             PROVE  Delivery(u)'
  BY DEF DeliveryInv
<1>1. Delivery(u)
  BY DEF DeliveryInv
<1>2. IF u \in S /\ u \in attached THEN Detached(u, kind) ELSE KeptAttached(u)
  BY DetachEffect DEF Inv
<1>3. stage'[u] = stage[u] \/ (stage'[u] = "done" /\ u \notin attached')
  BY <1>2 DEF Detached, KeptAttached
<1>4. KeptAttached(u) \/ Detached(u, "close") \/ Detached(u, "notify")
  BY <1>2
<1> QED
  BY <1>1, <1>3, <1>4, BystanderKeeps DEF histVars, Inv

LEMMA ClosesDeliver ==
    ASSUME Inv, Inv', DeliveryInv, cut' = cut,
           \/ CloseAll \/ \E r, who : CloseRoom(r, who)
           \/ \E s \in Sockets : LeaseClose(s) \/ Cleanup(s)
    PROVE  DeliveryInv'
<1>1. ASSUME CloseAll
      PROVE  DeliveryInv'
  BY <1>1, CloseDelivers DEF CloseAll, sessVars
<1>2. ASSUME NEW r, NEW who, CloseRoom(r, who)
      PROVE  DeliveryInv'
  BY <1>2, CloseDelivers DEF CloseRoom, sessVars
<1>3. ASSUME NEW s \in Sockets, LeaseClose(s)
      PROVE  DeliveryInv'
  BY <1>3, CloseDelivers DEF LeaseClose, sessVars
<1>4. ASSUME NEW s \in Sockets, Cleanup(s)
      PROVE  DeliveryInv'
  <2>1. \A u \in Sockets : stage'[u] = stage[u] \/ (stage'[u] = "done" /\ u \in {s})
    BY <1>4 DEF Cleanup, Inv, Types
  <2> QED
    BY <1>4, <2>1, CloseDelivers DEF Cleanup
<1> QED
  BY <1>1, <1>2, <1>3, <1>4

\* The holder leaves the lock.
LEMMA LeaveWithout ==
    ASSUME Types, NEW s \in Sockets, opq[s] # <<>>, opq'[s] = Tail(opq[s])
    PROVE  1 \in 1..Len(opq[s]) /\ Without(s, 1)
<1>1. opq[s] \in Seq(Tasks)
  BY DEF Types
<1> QED
  BY <1>1 DEF Without

LEMMA GrantSendDelivers ==
    ASSUME Inv, Inv', DeliveryInv, cut' = cut, NEW s \in Sockets, GrantSend(s)
    PROVE  DeliveryInv'
<1> SUFFICES ASSUME NEW u \in Sockets
             PROVE  Delivery(u)'
  BY DEF DeliveryInv
<1> USE DEF Inv
<1>1. Delivery(u)
  BY DEF DeliveryInv
<1>2. opq[s] # <<>> /\ nextEvent' = nextEvent
  BY DEF GrantSend, Granted, histVars
<1>3. CASE u # s
  <2>1. Same(u)
    BY <1>3 DEF Types, GrantSend, Leave, queueVars, sessVars, histVars, Same
  <2> QED
    BY <1>1, <1>2, <2>1, SameDelivery
<1>4. CASE u = s /\ s \in attached
  <2>1. UNCHANGED <<opq, sessVars>>
    BY <1>4 DEF GrantSend, StillAttached
  <2>2. KeptAttached(s)
    BY DEF GrantSend, queueVars, KeptAttached
  <2> QED
    BY <1>1, <1>2, <1>4, <2>1, <2>2, BystanderKeeps DEF GrantSend, queueVars, sessVars, histVars
<1>5. CASE u = s /\ s \notin attached
  <2>1. opq'[s] = Tail(opq[s])
    BY <1>5 DEF GrantSend, StillAttached, Leave, Types
  <2>2. \E i \in 1..Len(opq[s]) : Without(s, i)
    BY <1>2, <2>1, LeaveWithout
  <2>3. Quiet(s) /\ s \notin attached'
    BY <1>5, <2>2 DEF GrantSend, queueVars, histVars, Quiet
  <2> QED
    BY <1>1, <1>5, <2>3, QuietKeeps
<1> QED
  BY <1>3, <1>4, <1>5

LEMMA GrantCloseDelivers ==
    ASSUME Inv, Inv', DeliveryInv, cut' = cut, NEW s \in Sockets, GrantClose(s)
    PROVE  DeliveryInv'
<1> SUFFICES ASSUME NEW u \in Sockets
             PROVE  Delivery(u)'
  BY DEF DeliveryInv
<1>1. Delivery(u)
  BY DEF DeliveryInv
<1>2. KeptAttached(u)
  BY DEF GrantClose, queueVars, KeptAttached
<1> QED
  BY <1>1, <1>2, BystanderKeeps DEF GrantClose, queueVars, sessVars, histVars, Inv

\* Nothing is left behind when activation goes live.
LEMMA GoesLive ==
    ASSUME Inv, Inv', CutInv, cut' = cut, NEW s \in Sockets, Delivery(s), opq[s] # <<>>,
           Holder(s).kind = "activate", io[s] = "none",
           s \in attached, pending[s] = <<>>,
           opq'[s] = Tail(opq[s]), pending'[s] = pending[s], inflight'[s] = inflight[s],
           sched'[s] = sched[s], wire'[s] = wire[s], aimed'[s] = aimed[s],
           nextEvent' = nextEvent, stage'[s] = "live"
    PROVE  Delivery(s)'
<1> USE DEF Inv
<1>1. 1 \in 1..Len(opq[s]) /\ Holder(s) = opq[s][1] /\ Without(s, 1)
  BY HolderFirst, LeaveWithout
<1>2. Quiet(s)
  BY <1>1 DEF Quiet
<1>3. Ascending(s)' /\ Once(s)' /\ Released(s)'
  BY <1>2, QuietOnce DEF Delivery, Released
<1>4. stage[s] = "activate" /\ ~ready[s] /\ inflight[s] = 0
  BY <1>1 DEF SocketInv, OwnTasks, LiveTasks, Queue, Flushing
<1>5. \A e : e \notin Waiting(s)'
  <2>1. (\A t \in sched'[s] : ~Sender(t)) /\ \A i \in 1..Len(opq[s]) : ~Sender(opq[s][i])
    BY <1>4 DEF SocketInv, LiveTasks, Sender
  <2>2. \A i \in 1..Len(opq'[s]) : ~Sender(opq'[s][i])
    <3>1. PICK p \in [1..Len(opq'[s]) -> Nat] :
               \A j \in 1..Len(opq'[s]) : Sender(opq'[s][j]) =>
                  /\ p[j] \in 1..Len(opq[s]) /\ opq'[s][j] = opq[s][p[j]]
                  /\ \A k \in 1..Len(opq'[s]) : p[j] = p[k] => j = k
      BY <1>2, QuietLock DEF Quiet
    <3> QED
      BY <2>1, <3>1
  <2>3. DOMAIN opq'[s] = 1..Len(opq'[s])
    BY DEF Types
  <2> QED
    BY <2>1, <2>2, <2>3 DEF Waiting, ToSet, Sender
<1>6. Taken(s) = Len(wire[s]) - 2 /\ Len(wire[s]) \in Nat /\ Len(wire[s]) >= 2
  BY <1>4 DEF Taken, SocketInv, Handshake, Types
<1>7. Len(wire[s]) - 2 = Len(aimed[s]) /\ DOMAIN aimed[s] = 1..Len(aimed[s])
  <2>1. Taken(s) + Len(pending[s]) = Len(aimed[s]) /\ Len(pending[s]) = 0
    BY <1>4 DEF SocketInv, Queue, Line
  <2> QED
    BY <1>6, <2>1 DEF Types
<1>8. \A i \in 3..Len(wire[s]) : wire[s][i].kind = "queued"
  BY <1>4 DEF SocketInv, OneCloser, Handshake
<1>9. \A i \in 1..Len(wire[s]) : Carries(wire[s][i]) =>
         i > 2 /\ i - 2 \in 1..Len(aimed[s]) /\ wire[s][i].event = aimed[s][i - 2]
  <2> SUFFICES ASSUME NEW i \in 1..Len(wire[s]), Carries(wire[s][i])
               PROVE  i > 2 /\ i - 2 \in 1..Len(aimed[s]) /\ wire[s][i].event = aimed[s][i - 2]
    OBVIOUS
  <2>1. i > 2
    BY DEF SocketInv, Seen, Begins, Carries
  <2>2. i \in 3..Len(wire[s])
    BY <1>6, <2>1
  <2>3. wire[s][i].kind = "queued"
    BY <1>8, <2>2
  <2> QED
    BY <1>7, <2>1, <2>3 DEF SocketInv, Seen, InOrder
<1>10. \A k \in 1..Len(aimed[s]) :
          k + 2 \in 1..Len(wire[s]) /\ Carries(wire[s][k + 2]) /\ wire[s][k + 2].event = aimed[s][k]
  <2> SUFFICES ASSUME NEW k \in 1..Len(aimed[s])
               PROVE  k + 2 \in 1..Len(wire[s]) /\ Carries(wire[s][k + 2]) /\ wire[s][k + 2].event = aimed[s][k]
    OBVIOUS
  <2>1. k + 2 \in 3..Len(wire[s]) /\ k + 2 \in 1..Len(wire[s]) /\ (k + 2) - 2 = k
    BY <1>6, <1>7
  <2>2. wire[s][k + 2].kind = "queued"
    BY <1>8, <2>1
  <2>3. wire[s][k + 2].event = aimed[s][(k + 2) - 2]
    BY <2>1, <2>2 DEF SocketInv, Seen, InOrder
  <2> QED
    BY <2>1, <2>2, <2>3 DEF Carries
<1>11. \A e : e \in Sent(s)' <=> e \in ToSet(aimed[s])'
  <2> TAKE e
  <2>1. e \in Sent(s) <=> \E i \in 1..Len(wire[s]) : Carries(wire[s][i]) /\ wire[s][i].event = e
    BY SentIs
  <2>2. Sent(s)' = Sent(s) /\ ToSet(aimed[s])' = ToSet(aimed[s])
    BY DEF Sent, Delivered, ToSet
  <2>3. e \in ToSet(aimed[s]) <=> \E k \in 1..Len(aimed[s]) : aimed[s][k] = e
    BY <1>7 DEF ToSet
  <2>4. (\E i \in 1..Len(wire[s]) : Carries(wire[s][i]) /\ wire[s][i].event = e)
        <=> \E k \in 1..Len(aimed[s]) : aimed[s][k] = e
    BY <1>9, <1>10
  <2> QED
    BY <2>1, <2>2, <2>3, <2>4
<1>12. LiveCover(s)'
  <2>1. cut[s]' = {}
    BY <1>4 DEF CutInv
  <2> QED
    BY <1>4, <1>5, <1>11, <2>1 DEF LiveCover
<1> QED
  BY <1>3, <1>12 DEF Delivery

LEMMA GrantActivateDelivers ==
    ASSUME Inv, Inv', CutInv, DeliveryInv, cut' = cut, NEW s \in Sockets, GrantActivate(s)
    PROVE  DeliveryInv'
<1> SUFFICES ASSUME NEW u \in Sockets
             PROVE  Delivery(u)'
  BY DEF DeliveryInv
<1> USE DEF Inv
<1>1. Delivery(u)
  BY DEF DeliveryInv
<1>2. /\ opq[s] # <<>> /\ nextEvent' = nextEvent /\ io[s] = "none" /\ Holder(s).kind = "activate"
      /\ UNCHANGED <<attached, sched, wire, aimed>>
  BY DEF GrantActivate, Granted, histVars
<1>3. CASE u # s
  <2>1. Same(u)
    <3>1. ready'[u] = ready[u] /\ pending'[u] = pending[u] /\ inflight'[u] = inflight[u]
      BY <1>3 DEF Types, GrantActivate
    <3>2. opq'[u] = opq[u] /\ io'[u] = io[u]
      BY <1>3 DEF Types, GrantActivate, Leave
    <3>3. stage'[u] = stage[u] /\ busy'[u] = busy[u]
      BY <1>3 DEF Types, GrantActivate, sessVars
    <3> QED
      BY <1>2, <3>1, <3>2, <3>3 DEF Same
  <2> QED
    BY <1>1, <1>2, <2>1, SameDelivery
<1>4. CASE u = s /\ stage' = [stage EXCEPT ![s] = "cleanup"] /\ Leave(s)
  <2>1. opq'[s] = Tail(opq[s]) /\ stage'[s] = "cleanup"
    BY <1>4 DEF Leave, Types
  <2>2. \E i \in 1..Len(opq[s]) : Without(s, i)
    BY <1>2, <2>1, LeaveWithout
  <2>3. Quiet(s)
    BY <1>2, <2>2 DEF Quiet
  <2> QED
    BY <1>1, <1>4, <2>1, <2>3, QuietKeeps
<1>5. CASE /\ u = s /\ StillAttached(s) /\ Drained(s)
           /\ Leave(s)
           /\ stage' = [stage EXCEPT ![s] = "live"]
           /\ UNCHANGED <<pending, inflight, io>>
  <2>1. opq'[s] = Tail(opq[s]) /\ stage'[s] = "live" /\ s \in attached /\ pending[s] = <<>>
    BY <1>5 DEF Leave, Types, StillAttached, Drained
  <2> QED
    BY <1>1, <1>2, <1>5, <2>1, GoesLive
<1>6. CASE u = s /\ UNCHANGED <<ready, opq, sessVars>>
  <2>1. 1 \in 1..Len(opq[s]) /\ Holder(s) = opq[s][1]
    BY <1>2, HolderFirst
  <2>2. stage[s] = "activate" /\ ~ready[s]
    BY <1>2, <2>1 DEF SocketInv, OwnTasks, LiveTasks
  <2>3. Quiet(s) /\ ~ready'[s] /\ stage'[s] # "done"
    BY <1>2, <1>6, <2>2 DEF Quiet, sessVars
  <2> QED
    BY <1>1, <1>6, <2>3, QuietKeeps
<1> QED
  BY <1>3, <1>4, <1>5, <1>6 DEF GrantActivate

LEMMA StartDelivers ==
    ASSUME Inv, Inv', DeliveryInv, cut' = cut, NEW s \in Sockets, Start(s)
    PROVE  DeliveryInv'
<1> SUFFICES ASSUME NEW u \in Sockets
             PROVE  Delivery(u)'
  BY DEF DeliveryInv
<1> USE DEF Inv
<1>1. Delivery(u)
  BY DEF DeliveryInv
<1>2. nextEvent' = nextEvent /\ UNCHANGED <<attached, ready, pending, inflight, stage, wire, aimed>>
  BY DEF Start, queueVars, sessVars, histVars
<1>3. CASE u # s
  <2>1. Same(u)
    BY <1>3 DEF Types, Start, queueVars, sessVars, histVars, Same
  <2> QED
    BY <1>1, <1>2, <2>1, SameDelivery
<1>4. CASE u = s
  <2> PICK t \in sched[s] : /\ opq' = [opq EXCEPT ![s] = Append(@, t)]
                            /\ sched' = [sched EXCEPT ![s] = @ \ {t}]
    BY DEF Start
  <2>1. t \in Tasks /\ opq'[s] = Append(opq[s], t) /\ sched'[s] = sched[s] \ {t}
    BY DEF Types
  <2>2. /\ opq'[s][Len(opq[s]) + 1] = t
        /\ \A i \in 1..Len(opq[s]) : opq'[s][i] = opq[s][i]
        /\ 1..Len(opq'[s]) = (1..Len(opq[s])) \cup {Len(opq[s]) + 1}
    BY <2>1, WaitEffect
  <2>3. Ascending(s)' /\ Released(s)'
    BY <1>1, <1>2, <1>4 DEF Delivery, Ascending, Released
  <2>4. Once(s)'
    <3>0. Once(s) /\ nextEvent' = nextEvent /\ wire'[s] = wire[s]
      BY <1>1, <1>2, <1>4 DEF Delivery
    <3>1. /\ \A i \in 1..Len(wire'[s]) : Carries(wire'[s][i]) => wire'[s][i].event < nextEvent'
          /\ \A i, j \in 1..Len(wire'[s]) :
               Carries(wire'[s][i]) /\ Carries(wire'[s][j]) /\ wire'[s][i].event = wire'[s][j].event => i = j
      BY <3>0 DEF Once
    <3>2. /\ \A r \in sched'[s] : Sender(r) => r.event < nextEvent'
          /\ \A r \in sched'[s], i \in 1..Len(wire'[s]) :
               Sender(r) /\ Carries(wire'[s][i]) => wire'[s][i].event # r.event
      BY <2>1, <3>0 DEF Once
    <3>3. /\ \A i \in 1..Len(opq'[s]) : Sender(opq'[s][i]) => opq'[s][i].event < nextEvent'
          /\ \A j \in 1..Len(opq'[s]), i \in 1..Len(wire'[s]) :
               Sender(opq'[s][j]) /\ Carries(wire'[s][i]) => wire'[s][i].event # opq'[s][j].event
      BY <2>1, <2>2, <3>0 DEF Once
    <3>4. \A i, j \in 1..Len(opq'[s]) :
             Sender(opq'[s][i]) /\ Sender(opq'[s][j]) /\ opq'[s][i].event = opq'[s][j].event => i = j
      <4> SUFFICES ASSUME NEW i \in 1..Len(opq'[s]), NEW j \in 1..Len(opq'[s]),
                          Sender(opq'[s][i]), Sender(opq'[s][j]), opq'[s][i].event = opq'[s][j].event
                   PROVE  i = j
        OBVIOUS
      <4>1. CASE i \in 1..Len(opq[s]) /\ j \in 1..Len(opq[s])
        BY <2>2, <3>0, <4>1 DEF Once
      <4>2. CASE i = Len(opq[s]) + 1 /\ j \in 1..Len(opq[s])
        BY <2>2, <3>0, <4>2 DEF Once
      <4>3. CASE i \in 1..Len(opq[s]) /\ j = Len(opq[s]) + 1
        BY <2>2, <3>0, <4>3 DEF Once
      <4> QED
        BY <2>2, <4>1, <4>2, <4>3
    <3>5. \A r \in sched'[s], i \in 1..Len(opq'[s]) :
             Sender(r) /\ Sender(opq'[s][i]) => opq'[s][i].event # r.event
      <4> SUFFICES ASSUME NEW r \in sched'[s], NEW i \in 1..Len(opq'[s]),
                          Sender(r), Sender(opq'[s][i])
                   PROVE  opq'[s][i].event # r.event
        OBVIOUS
      <4>0. r \in sched[s] /\ r # t
        BY <2>1
      <4>1. CASE i \in 1..Len(opq[s])
        BY <2>2, <3>0, <4>0, <4>1 DEF Once
      <4>2. CASE i = Len(opq[s]) + 1
        <5>1. r \in Tasks /\ r.kind = t.kind
          BY <2>2, <4>0, <4>2 DEF Types, Sender
        <5>2. r = [kind |-> r.kind, event |-> r.event] /\ t = [kind |-> t.kind, event |-> t.event]
          BY <2>1, <5>1 DEF Tasks
        <5>3. r.event # t.event
          BY <4>0, <5>1, <5>2
        <5> QED
          BY <2>2, <4>2, <5>3
      <4> QED
        BY <2>2, <4>1, <4>2
    <3> QED
      BY <3>1, <3>2, <3>3, <3>4, <3>5 DEF Once
  <2>5. LiveCover(s)'
    <3>1. \A e : e \in Waiting(s)' <=> e \in Waiting(s)
      <4> TAKE e
      <4>1. e \in Waiting(s) <=>
              \/ \E r \in sched[s] : Sender(r) /\ r.event = e
              \/ \E i \in 1..Len(opq[s]) : Sender(opq[s][i]) /\ opq[s][i].event = e
        BY WaitingIs
      <4>2. e \in Waiting(s)' <=>
              \/ \E r \in sched'[s] : Sender(r) /\ r.event = e
              \/ \E i \in 1..Len(opq'[s]) : Sender(opq'[s][i]) /\ opq'[s][i].event = e
        <5>1. DOMAIN opq'[s] = 1..Len(opq'[s])
          BY DEF Types
        <5> QED
          BY <5>1 DEF Waiting, ToSet, Sender
      <4>3. (\E i \in 1..Len(opq'[s]) : Sender(opq'[s][i]) /\ opq'[s][i].event = e)
            <=> \/ \E i \in 1..Len(opq[s]) : Sender(opq[s][i]) /\ opq[s][i].event = e
                \/ Sender(t) /\ t.event = e
        BY <2>2
      <4>4. (\E r \in sched[s] : Sender(r) /\ r.event = e)
            <=> \/ \E r \in sched'[s] : Sender(r) /\ r.event = e
                \/ Sender(t) /\ t.event = e
        BY <2>1
      <4> QED
        BY <4>1, <4>2, <4>3, <4>4
    <3>2. Sent(s)' = Sent(s) /\ ToSet(aimed[s])' = ToSet(aimed[s])
      BY <1>2 DEF Sent, Delivered, ToSet
    <3> QED
      BY <1>1, <1>2, <1>4, <3>1, <3>2 DEF Delivery, LiveCover
  <2> QED
    BY <1>4, <2>3, <2>4, <2>5 DEF Delivery
<1> QED
  BY <1>3, <1>4

\* The wire gains a frame that carries a broadcast not seen yet.
LEMMA OnceGain ==
    ASSUME Types, NEW s \in Sockets, Once(s), nextEvent' = nextEvent,
           NEW f, Gains(s, f), Carries(f), f.event < nextEvent,
           \A i \in 1..Len(wire[s]) : Carries(wire[s][i]) => wire[s][i].event # f.event,
           \A t \in sched'[s] : Sender(t) => t \in sched[s] /\ t.event # f.event,
           opq'[s] = opq[s] \/ \E i \in 1..Len(opq[s]) : Without(s, i),
           \A j \in 1..Len(opq'[s]) : Sender(opq'[s][j]) => opq'[s][j].event # f.event
    PROVE  Once(s)'
<1>1. Len(wire[s]) \in Nat
  BY DEF Types
<1>2. /\ 1..Len(wire'[s]) = (1..Len(wire[s])) \cup {Len(wire[s]) + 1}
      /\ \A i \in 1..Len(wire[s]) : wire'[s][i] = wire[s][i]
      /\ wire'[s][Len(wire[s]) + 1] = f
  BY <1>1 DEF Gains
<1>3. PICK p \in [1..Len(opq'[s]) -> Nat] :
         \A j \in 1..Len(opq'[s]) : Sender(opq'[s][j]) =>
            /\ p[j] \in 1..Len(opq[s]) /\ opq'[s][j] = opq[s][p[j]]
            /\ \A k \in 1..Len(opq'[s]) : p[j] = p[k] => j = k
  BY QuietLock
<1>4. \A i \in 1..Len(wire'[s]) : Carries(wire'[s][i]) => wire'[s][i].event < nextEvent'
  BY <1>2 DEF Once
<1>5. \A i, j \in 1..Len(wire'[s]) :
         Carries(wire'[s][i]) /\ Carries(wire'[s][j]) /\ wire'[s][i].event = wire'[s][j].event => i = j
  BY <1>2 DEF Once
<1>6. /\ \A t \in sched'[s] : Sender(t) => t.event < nextEvent'
      /\ \A t \in sched'[s], i \in 1..Len(wire'[s]) :
            Sender(t) /\ Carries(wire'[s][i]) => wire'[s][i].event # t.event
  BY <1>2 DEF Once
<1>7. \A i \in 1..Len(opq'[s]) : Sender(opq'[s][i]) => opq'[s][i].event < nextEvent'
  BY <1>3 DEF Once
<1>8. ASSUME NEW i \in 1..Len(opq'[s]), NEW j \in 1..Len(opq'[s]),
             Sender(opq'[s][i]), Sender(opq'[s][j]), opq'[s][i].event = opq'[s][j].event
      PROVE  i = j
  <2>1. /\ p[i] \in 1..Len(opq[s]) /\ opq'[s][i] = opq[s][p[i]]
        /\ p[j] \in 1..Len(opq[s]) /\ opq'[s][j] = opq[s][p[j]]
        /\ p[i] = p[j] => i = j
    BY <1>3, <1>8
  <2>2. p[i] = p[j]
    BY <1>8, <2>1 DEF Once
  <2> QED
    BY <2>1, <2>2
<1>9. \A t \in sched'[s], i \in 1..Len(opq'[s]) :
          Sender(t) /\ Sender(opq'[s][i]) => opq'[s][i].event # t.event
  <2> SUFFICES ASSUME NEW t \in sched'[s], NEW i \in 1..Len(opq'[s]), Sender(t), Sender(opq'[s][i])
               PROVE  opq'[s][i].event # t.event
    OBVIOUS
  <2>1. p[i] \in 1..Len(opq[s]) /\ opq'[s][i] = opq[s][p[i]] /\ t \in sched[s]
    BY <1>3
  <2> QED
    BY <2>1 DEF Once
<1>10. ASSUME NEW j \in 1..Len(opq'[s]), NEW i \in 1..Len(wire'[s]),
              Sender(opq'[s][j]), Carries(wire'[s][i])
       PROVE  wire'[s][i].event # opq'[s][j].event
  <2>1. p[j] \in 1..Len(opq[s]) /\ opq'[s][j] = opq[s][p[j]]
    BY <1>3, <1>10
  <2>2. CASE i \in 1..Len(wire[s])
    <3>1. wire'[s][i] = wire[s][i]
      BY <1>2, <2>2
    <3>2. Sender(opq[s][p[j]]) /\ Carries(wire[s][i])
      BY <1>10, <2>1, <3>1
    <3>3. wire[s][i].event # opq[s][p[j]].event
      BY <2>1, <2>2, <3>2 DEF Once
    <3> QED
      BY <2>1, <3>1, <3>3
  <2>3. CASE i = Len(wire[s]) + 1
    BY <1>2, <1>10, <2>3
  <2> QED
    BY <1>2, <2>2, <2>3
<1> QED
  BY <1>4, <1>5, <1>6, <1>7, <1>8, <1>9, <1>10 DEF Once

\* What a write leaves alone.
LEMMA OthersKeep ==
    ASSUME Inv, Inv', DeliveryInv, NEW s \in Sockets, NEW u \in Sockets, u # s, cut'[u] = cut[u],
           nextEvent' = nextEvent, KeptAttached(u),
           ready'[u] = ready[u], inflight'[u] = inflight[u], opq'[u] = opq[u],
           wire'[u] = wire[u], aimed'[u] = aimed[u], stage'[u] = stage[u]
    PROVE  Delivery(u)'
<1>1. Delivery(u)
  BY DEF DeliveryInv
<1> QED
  BY <1>1, BystanderKeeps DEF Inv

LEMMA DirectEndsDelivers ==
    ASSUME Inv, Inv', DeliveryInv, cut' = cut, NEW s \in Sockets, NEW ok \in BOOLEAN, NEW reached \in BOOLEAN,
           DirectEnds(s, ok, reached)
    PROVE  DeliveryInv'
<1> USE DEF Inv
<1>1. io[s] = "send" /\ Holder(s).kind = "direct" /\ opq[s] # <<>> /\ nextEvent' = nextEvent
  BY DEF DirectEnds, Writing, SocketInv, LockHeld, Wrote
<1>2. /\ \A u \in Sockets : aimed'[u] = aimed[u] /\ (u # s => wire'[u] = wire[u])
      /\ wire'[s] = wire[s] \/ Gains(s, Frame(s))
  BY <1>1, WroteSeen DEF DirectEnds
<1>3. ASSUME NEW u \in Sockets, u # s
      PROVE  Delivery(u)'
  <2>1. KeptAttached(u)
    BY <1>3, DetachEffect DEF DirectEnds
  <2> QED
    BY <1>1, <1>2, <1>3, <2>1, OthersKeep DEF DirectEnds, Leave, Types
<1>4. Delivery(s)'
  <2>1. 1 \in 1..Len(opq[s]) /\ Holder(s) = opq[s][1]
    BY <1>1, HolderFirst
  <2>2. stage[s] \in {"ready", "history"} /\ ~ready[s] /\ Frame(s).kind = stage[s]
    BY <1>1, <2>1, FrameKind DEF SocketInv, OwnTasks, LiveTasks
  <2>3. wire'[s] = wire[s] \/ \E f : Gains(s, f) /\ ~Carries(f)
    BY <1>2, <2>2 DEF Carries
  <2>4. Without(s, 1)
    BY <1>1, LeaveWithout DEF DirectEnds, Leave, Types
  <2>5. KeptAttached(s) \/ Detached(s, "close")
    BY DetachEffect DEF DirectEnds
  <2>6. Quiet(s)
    BY <1>1, <1>2, <2>1, <2>3, <2>4, <2>5 DEF Quiet, KeptAttached, Detached, Sender
  <2>7. ~ready'[s] /\ stage'[s] # "done"
    BY <2>2 DEF DirectEnds, Types
  <2> QED
    BY <2>6, <2>7, QuietKeeps DEF DeliveryInv
<1> QED
  BY <1>3, <1>4 DEF DeliveryInv

LEMMA NoticeEndsDelivers ==
    ASSUME Inv, Inv', DeliveryInv, cut' = cut, NEW s \in Sockets, NEW reached \in BOOLEAN, NoticeEnds(s, reached)
    PROVE  DeliveryInv'
<1> USE DEF Inv
<1>1. io[s] = "send" /\ Holder(s).kind = "notify" /\ opq[s] # <<>> /\ nextEvent' = nextEvent
  BY DEF NoticeEnds, Writing, SocketInv, LockHeld, Wrote
<1>2. /\ \A u \in Sockets : aimed'[u] = aimed[u] /\ (u # s => wire'[u] = wire[u])
      /\ wire'[s] = wire[s] \/ Gains(s, Frame(s))
  BY <1>1, WroteSeen DEF NoticeEnds
<1>3. ASSUME NEW u \in Sockets, u # s
      PROVE  Delivery(u)'
  <2>1. KeptAttached(u)
    BY DEF NoticeEnds, queueVars, KeptAttached
  <2> QED
    BY <1>1, <1>2, <1>3, <2>1, OthersKeep DEF NoticeEnds, queueVars, sessVars
<1>4. Delivery(s)'
  <2>1. 1 \in 1..Len(opq[s]) /\ Holder(s) = opq[s][1] /\ Frame(s).kind = "notice"
    BY <1>1, HolderFirst, FrameKind
  <2>2. wire'[s] = wire[s] \/ \E f : Gains(s, f) /\ ~Carries(f)
    BY <1>2, <2>1 DEF Carries
  <2>3. Quiet(s)
    BY <1>1, <1>2, <2>2 DEF Quiet, NoticeEnds
  <2>4. s \notin attached
    BY <1>1, <2>1 DEF SocketInv, OneCloser, CloserWaits, IsCloser
  <2> QED
    BY <2>3, <2>4, QuietKeeps DEF DeliveryInv, NoticeEnds, queueVars
<1> QED
  BY <1>3, <1>4 DEF DeliveryInv

LEMMA CloseEndsDelivers ==
    ASSUME Inv, Inv', DeliveryInv, cut' = cut, NEW s \in Sockets, CloseEnds(s)
    PROVE  DeliveryInv'
<1> USE DEF Inv
<1> DEFINE f == [kind |-> "close", event |-> 0]
<1>1. io[s] = "close" /\ opq[s] # <<>> /\ IsCloser(Holder(s)) /\ nextEvent' = nextEvent
  BY DEF CloseEnds, SocketInv, LockHeld
<1>2. f \in Frames /\ ~Carries(f)
  BY ConstantsAssumption DEF Frames, FrameKinds, Carries
<1>3. wire' = [wire EXCEPT ![s] = Append(@, f)]
  BY DEF CloseEnds
<1> HIDE DEF f
<1>4. Gains(s, f) /\ \A u \in Sockets : u # s => wire'[u] = wire[u]
  BY <1>2, <1>3, GainEffect DEF Types
<1>5. ASSUME NEW u \in Sockets, u # s
      PROVE  Delivery(u)'
  <2>1. KeptAttached(u)
    BY DEF CloseEnds, queueVars, KeptAttached
  <2> QED
    BY <1>1, <1>4, <1>5, <2>1, OthersKeep DEF CloseEnds, Leave, queueVars, sessVars, Types
<1>6. Delivery(s)'
  <2>1. 1 \in 1..Len(opq[s]) /\ Holder(s) = opq[s][1]
    BY <1>1, HolderFirst
  <2>2. Without(s, 1)
    BY <1>1, LeaveWithout DEF CloseEnds, Leave, Types
  <2>3. Quiet(s)
    BY <1>1, <1>2, <1>4, <2>1, <2>2 DEF Quiet, CloseEnds
  <2>4. s \notin attached
    BY <1>1, <2>1 DEF SocketInv, OneCloser, CloserWaits
  <2> QED
    BY <2>3, <2>4, QuietKeeps DEF DeliveryInv, CloseEnds, queueVars
<1> QED
  BY <1>5, <1>6 DEF DeliveryInv

\* A queued event reaches the wire: it is the next one after those there.
LEMMA QueuedReaches ==
    ASSUME Inv, NEW s \in Sockets, Delivery(s), io[s] = "send", opq[s] # <<>>,
           Holder(s).kind = "activate", Gains(s, Frame(s)),
           nextEvent' = nextEvent, aimed'[s] = aimed[s], sched'[s] = sched[s],
           opq'[s] = opq[s] \/ \E i \in 1..Len(opq[s]) : Without(s, i)
    PROVE  Ascending(s)' /\ Once(s)'
<1> USE DEF Inv
<1>1. 1 \in 1..Len(opq[s]) /\ Holder(s) = opq[s][1]
  BY HolderFirst
<1>2. stage[s] = "activate" /\ ~ready[s] /\ inflight[s] # 0
  BY <1>1 DEF SocketInv, OwnTasks, LiveTasks, Queue, Flushing
<1>3. Frame(s).kind = "queued" /\ Frame(s).event = inflight[s]
  BY FrameKind
<1>4. /\ Len(wire[s]) \in Nat /\ Len(wire[s]) - 1 \in 1..Len(aimed[s])
      /\ inflight[s] = aimed[s][Len(wire[s]) - 1]
      /\ DOMAIN aimed[s] = 1..Len(aimed[s])
      /\ \A i \in 1..Len(aimed[s]) : aimed[s][i] \in Nat
  <2>1. wire[s] \in Seq(Frames) /\ aimed[s] \in Seq(Events)
    BY DEF Types
  <2>2. Len(wire[s]) - 1 \in 1..Len(aimed[s]) /\ inflight[s] = aimed[s][Len(wire[s]) - 1]
    BY <1>2 DEF SocketInv, Queue, Flushing
  <2>3. \A i \in 1..Len(aimed[s]) : aimed[s][i] \in Events
    BY <2>1
  <2>4. Events \subseteq Nat
    BY ConstantsAssumption DEF Events
  <2>5. \A i \in 1..Len(aimed[s]) : aimed[s][i] \in Nat
    BY <2>3, <2>4, Zenon
  <2>6. Len(wire[s]) \in Nat /\ DOMAIN aimed[s] = 1..Len(aimed[s])
    BY <2>1
  <2> QED
    BY <2>2, <2>5, <2>6, Zenon
<1>5. (\A t \in sched[s] : ~Sender(t)) /\ \A i \in 1..Len(opq[s]) : ~Sender(opq[s][i])
  BY <1>2 DEF SocketInv, LiveTasks, Sender
<1>6. \A j \in 1..Len(opq'[s]) : ~Sender(opq'[s][j])
  <2>1. PICK p \in [1..Len(opq'[s]) -> Nat] :
           \A j \in 1..Len(opq'[s]) : Sender(opq'[s][j]) =>
              /\ p[j] \in 1..Len(opq[s]) /\ opq'[s][j] = opq[s][p[j]]
              /\ \A k \in 1..Len(opq'[s]) : p[j] = p[k] => j = k
    BY QuietLock
  <2> QED
    BY <1>5, <2>1
<1>7. ASSUME NEW i \in 1..Len(wire[s]), Carries(wire[s][i])
      PROVE  wire[s][i].event # Frame(s).event
  <2>1. ~Ended(s)
    BY DEF SocketInv, LockHeld
  <2>2. i > 2
    BY <1>7 DEF SocketInv, Seen, Begins, Carries
  <2>3. i \in 3..Len(wire[s]) /\ i - 2 < Len(wire[s]) - 1
    BY <1>4, <2>2
  <2>4. wire[s][i].kind = "queued"
    BY <1>2, <2>1, <2>3 DEF SocketInv, Handshake
  <2>5. i - 2 \in 1..Len(aimed[s]) /\ wire[s][i].event = aimed[s][i - 2]
    BY <1>4, <2>4 DEF SocketInv, Seen, InOrder
  <2>6. aimed[s][i - 2] < aimed[s][Len(wire[s]) - 1]
    BY <1>4, <2>3, <2>5 DEF Delivery, Ascending
  <2>7. aimed[s][i - 2] \in Nat /\ aimed[s][Len(wire[s]) - 1] \in Nat
    BY <1>4, <2>5
  <2>8. aimed[s][i - 2] # aimed[s][Len(wire[s]) - 1]
    BY <2>6, <2>7
  <2> QED
    BY <1>3, <1>4, <2>5, <2>8
<1>8. Frame(s).event < nextEvent
  BY <1>3, <1>4 DEF Delivery, Ascending
<1>9. Carries(Frame(s))
  BY <1>3 DEF Carries
<1>10. Once(s)'
  BY <1>5, <1>6, <1>7, <1>8, <1>9, OnceGain DEF Delivery
<1>11. Ascending(s)'
  BY DEF Delivery, Ascending
<1> QED
  BY <1>10, <1>11

LEMMA FlushEndsDelivers ==
    ASSUME Inv, Inv', DeliveryInv, cut' = cut, NEW s \in Sockets, NEW ok \in BOOLEAN, NEW reached \in BOOLEAN,
           FlushEnds(s, ok, reached)
    PROVE  DeliveryInv'
<1> USE DEF Inv
<1>1. /\ io[s] = "send" /\ Holder(s).kind = "activate" /\ opq[s] # <<>> /\ nextEvent' = nextEvent
      /\ UNCHANGED <<attached, ready, pending, sched>>
  BY DEF FlushEnds, Writing, SocketInv, LockHeld, Wrote
<1>2. /\ \A u \in Sockets : aimed'[u] = aimed[u] /\ (u # s => wire'[u] = wire[u])
      /\ wire'[s] = wire[s] \/ Gains(s, Frame(s))
  BY <1>1, WroteSeen DEF FlushEnds
<1>3. ASSUME NEW u \in Sockets, u # s
      PROVE  Delivery(u)'
  <2>1. KeptAttached(u)
    BY <1>1 DEF KeptAttached
  <2>2. inflight'[u] = inflight[u] /\ opq'[u] = opq[u] /\ stage'[u] = stage[u]
    <3>1. inflight'[u] = inflight[u]
      BY <1>3 DEF FlushEnds, Refund, Types
    <3>2. opq'[u] = opq[u]
      BY <1>3 DEF FlushEnds, Leave, Types
    <3>3. stage'[u] = stage[u]
      BY <1>3 DEF FlushEnds, sessVars, Types
    <3> QED
      BY <3>1, <3>2, <3>3
  <2> QED
    BY <1>1, <1>2, <1>3, <2>1, <2>2, OthersKeep
<1>4. Delivery(s)'
  <2>1. 1 \in 1..Len(opq[s]) /\ Holder(s) = opq[s][1]
    BY <1>1, HolderFirst
  <2>2. stage[s] = "activate" /\ ~ready'[s]
    BY <1>1, <2>1 DEF SocketInv, OwnTasks, LiveTasks
  <2>3. stage'[s] # "done"
    BY <2>2 DEF FlushEnds, sessVars, Types
  <2>4. opq'[s] = opq[s] \/ \E i \in 1..Len(opq[s]) : Without(s, i)
    <3>1. opq'[s] = opq[s] \/ opq'[s] = Tail(opq[s])
      BY DEF FlushEnds, Leave, Types
    <3> QED
      BY <1>1, <3>1, LeaveWithout
  <2>5. Ascending(s)' /\ Once(s)'
    <3>1. CASE wire'[s] = wire[s]
      <4>1. Quiet(s)
        BY <1>1, <1>2, <2>4, <3>1 DEF Quiet
      <4> QED
        BY <4>1, QuietOnce DEF DeliveryInv, Delivery
    <3>2. CASE Gains(s, Frame(s))
      BY <1>1, <1>2, <2>4, <3>2, QueuedReaches DEF DeliveryInv
    <3> QED
      BY <1>2, <3>1, <3>2
  <2> QED
    BY <2>2, <2>3, <2>5 DEF Delivery, Released, LiveCover
<1> QED
  BY <1>3, <1>4 DEF DeliveryInv

LEMMA WithdrawDelivers ==
    ASSUME Inv, Inv', DeliveryInv, cut' = cut, NEW s \in Sockets, NEW reached \in BOOLEAN, Withdraw(s, reached)
    PROVE  DeliveryInv'
<1> USE DEF Inv
<1> PICK i \in 1..Len(opq[s]) : IsOwn(opq[s][i]) /\ opq' = [opq EXCEPT ![s] = RemoveAt(@, i)]
  BY DEF Withdraw
<1>1. /\ nextEvent' = nextEvent /\ UNCHANGED <<attached, ready, pending, sched>>
      /\ stage' = [stage EXCEPT ![s] = "cleanup"]
  BY DEF Withdraw, Wrote
<1>2. Without(s, i) /\ opq[s] # <<>>
  <2>1. opq'[s] = RemoveAt(opq[s], i)
    BY DEF Types
  <2>2. Without(s, i)
    BY <2>1, RemoveEffect
  <2> QED
    BY <2>2 DEF Without
<1>3. 1 \in 1..Len(opq[s]) /\ Holder(s) = opq[s][1]
  BY <1>2, HolderFirst
<1>4. reached => io[s] = "send" /\ IsOwn(Holder(s))
  BY DEF Withdraw
<1>5. /\ \A u \in Sockets : aimed'[u] = aimed[u] /\ (u # s => wire'[u] = wire[u])
      /\ \/ wire'[s] = wire[s]
         \/ io[s] = "send" /\ IsOwn(Holder(s)) /\ Gains(s, Frame(s))
  <2>1. CASE reached
    <3>1. Holder(s).kind \in {"direct", "activate"}
      BY <1>4, <2>1 DEF IsOwn
    <3> QED
      BY <1>4, <2>1, <3>1, WroteSeen DEF Withdraw
  <2>2. CASE ~reached
    BY <2>2 DEF Withdraw, Wrote, Types
  <2> QED
    BY <2>1, <2>2
<1>6. ASSUME NEW u \in Sockets, u # s
      PROVE  Delivery(u)'
  <2>1. KeptAttached(u)
    BY <1>1 DEF KeptAttached
  <2>2. inflight'[u] = inflight[u] /\ opq'[u] = opq[u] /\ stage'[u] = stage[u]
    BY <1>1, <1>6 DEF Withdraw, Refund, Types
  <2> QED
    BY <1>1, <1>5, <1>6, <2>1, <2>2, OthersKeep
<1>7. Delivery(s)'
  <2>1. stage'[s] = "cleanup"
    BY <1>1 DEF Types
  <2>2. Ascending(s)' /\ Once(s)'
    <3>1. CASE wire'[s] = wire[s] \/ (Gains(s, Frame(s)) /\ ~Carries(Frame(s)))
      <4>1. Quiet(s)
        BY <1>1, <1>2, <1>5, <3>1 DEF Quiet
      <4> QED
        BY <4>1, QuietOnce DEF DeliveryInv, Delivery
    <3>2. CASE io[s] = "send" /\ IsOwn(Holder(s)) /\ Gains(s, Frame(s)) /\ Carries(Frame(s))
      <4>1. Holder(s).kind = "activate"
        <5>1. Holder(s).kind = "direct" => Frame(s).kind \in {"ready", "history"}
          BY <1>3, <3>2, FrameKind DEF SocketInv, OwnTasks
        <5> QED
          BY <3>2, <5>1 DEF IsOwn, Carries
      <4> QED
        BY <1>1, <1>2, <1>5, <3>2, <4>1, QueuedReaches DEF DeliveryInv
    <3> QED
      BY <1>5, <3>1, <3>2
  <2> QED
    BY <2>1, <2>2 DEF Delivery, Released, LiveCover
<1> QED
  BY <1>6, <1>7 DEF DeliveryInv

\* A live event was written, or its socket is detached.
LEMMA SendEndsDelivers ==
    ASSUME Inv, Inv', DeliveryInv, cut' = cut, NEW s \in Sockets, NEW ok \in BOOLEAN, NEW reached \in BOOLEAN,
           SendEnds(s, ok, reached)
    PROVE  DeliveryInv'
<1> USE DEF Inv
<1>1. io[s] = "send" /\ Holder(s).kind = "send" /\ opq[s] # <<>> /\ nextEvent' = nextEvent
  BY DEF SendEnds, Writing, SocketInv, LockHeld, Wrote
<1>2. /\ \A u \in Sockets : aimed'[u] = aimed[u] /\ (u # s => wire'[u] = wire[u])
      /\ wire'[s] = wire[s] \/ Gains(s, Frame(s))
      /\ reached => Gains(s, Frame(s))
  BY <1>1, WroteSeen DEF SendEnds
<1>3. ASSUME NEW u \in Sockets, u # s
      PROVE  Delivery(u)'
  <2>1. KeptAttached(u)
    BY <1>3, DetachEffect DEF SendEnds
  <2> QED
    BY <1>1, <1>2, <1>3, <2>1, OthersKeep DEF SendEnds, Leave, sessVars, Types
<1>4. 1 \in 1..Len(opq[s]) /\ Holder(s) = opq[s][1] /\ Sender(opq[s][1])
  BY <1>1, HolderFirst DEF Sender
<1>5. Carries(Frame(s)) /\ Frame(s).event = opq[s][1].event
  BY <1>1, <1>4, FrameKind DEF Carries
<1>6. Without(s, 1)
  BY <1>1, LeaveWithout DEF SendEnds, Leave, Types
<1>7. /\ Len(opq[s]) \in Nat /\ Len(opq'[s]) = Len(opq[s]) - 1
      /\ \A j \in 1..Len(opq'[s]) : j + 1 \in 2..Len(opq[s]) /\ opq'[s][j] = opq[s][j + 1]
  BY <1>1, LeaveEffect DEF SendEnds, Leave, Types
<1>8. KeptAttached(s) \/ Detached(s, "close")
  BY DetachEffect DEF SendEnds
<1>9. \A t : Sender(t) => (t \in sched'[s] <=> t \in sched[s])
  BY <1>8 DEF KeptAttached, Detached, Sender
<1>10. Ascending(s) /\ Once(s) /\ Released(s) /\ LiveCover(s)
  BY DEF DeliveryInv, Delivery
<1>11. Once(s)'
  <2>1. CASE wire'[s] = wire[s]
    <3>1. Quiet(s)
      BY <1>1, <1>2, <1>4, <1>6, <1>9, <2>1 DEF Quiet
    <3> QED
      BY <1>10, <3>1, QuietOnce
  <2>2. CASE Gains(s, Frame(s))
    <3>1. Frame(s).event < nextEvent
      BY <1>4, <1>5, <1>10 DEF Once
    <3>2. \A i \in 1..Len(wire[s]) : Carries(wire[s][i]) => wire[s][i].event # Frame(s).event
      BY <1>4, <1>5, <1>10 DEF Once
    <3>3. \A t \in sched'[s] : Sender(t) => t \in sched[s] /\ t.event # Frame(s).event
      BY <1>4, <1>5, <1>9, <1>10 DEF Once
    <3>4. ASSUME NEW j \in 1..Len(opq'[s]), Sender(opq'[s][j])
          PROVE  opq'[s][j].event # Frame(s).event
      <4>1. j + 1 \in 1..Len(opq[s]) /\ j + 1 # 1 /\ opq'[s][j] = opq[s][j + 1]
        BY <1>7
      <4> QED
        BY <1>4, <1>5, <1>10, <3>4, <4>1 DEF Once
    <3> QED
      BY <1>1, <1>4, <1>5, <1>6, <1>10, <2>2, <3>1, <3>2, <3>3, <3>4, OnceGain
  <2> QED
    BY <1>2, <2>1, <2>2
<1>12. Ascending(s)' /\ Released(s)'
  <2>1. stage'[s] = stage[s] /\ (s \in attached' => s \in attached)
    BY <1>8 DEF SendEnds, sessVars, KeptAttached, Detached
  <2> QED
    BY <1>1, <1>2, <1>10, <2>1 DEF Ascending, Released
<1>13. LiveCover(s)'
  <2> SUFFICES ASSUME s \in attached', ready'[s], stage'[s] # "cleanup"
               PROVE  /\ pending'[s] = <<>> /\ inflight'[s] = 0
                      /\ ToSet(aimed[s])' = Sent(s)' \cup Waiting(s)' \cup cut[s]'
    BY DEF LiveCover
  <2>1. s \in attached /\ ready[s] /\ stage[s] # "cleanup" /\ pending'[s] = pending[s]
        /\ inflight'[s] = inflight[s]
    BY <1>8 DEF SendEnds, sessVars, KeptAttached, Detached
  <2>2. ok
    BY <2>1, DetachEffect DEF SendEnds, Detached
  <2>3. Gains(s, Frame(s))
    BY <1>2, <2>2 DEF SendEnds
  <2>4. \A e : e \in Sent(s)' <=> e \in Sent(s) \/ e = opq[s][1].event
    <3> TAKE e
    <3>1. e \in Sent(s) <=> \E i \in 1..Len(wire[s]) : Carries(wire[s][i]) /\ wire[s][i].event = e
      BY SentIs
    <3>2. e \in Sent(s)' <=> \E i \in 1..Len(wire'[s]) : Carries(wire'[s][i]) /\ wire'[s][i].event = e
      BY DEF Sent, Delivered, Carries
    <3>3. Len(wire[s]) \in Nat
      BY DEF Types
    <3>4. /\ 1..Len(wire'[s]) = (1..Len(wire[s])) \cup {Len(wire[s]) + 1}
          /\ \A i \in 1..Len(wire[s]) : wire'[s][i] = wire[s][i]
          /\ wire'[s][Len(wire[s]) + 1] = Frame(s)
      BY <2>3, <3>3 DEF Gains
    <3> QED
      BY <1>5, <3>1, <3>2, <3>4
  <2>5. \A e : e \in Waiting(s) <=> e \in Waiting(s)' \/ e = opq[s][1].event
    <3> TAKE e
    <3>1. e \in Waiting(s) <=>
              \/ \E r \in sched[s] : Sender(r) /\ r.event = e
              \/ \E i \in 1..Len(opq[s]) : Sender(opq[s][i]) /\ opq[s][i].event = e
      BY WaitingIs
    <3>2. e \in Waiting(s)' <=>
              \/ \E r \in sched'[s] : Sender(r) /\ r.event = e
              \/ \E i \in 1..Len(opq'[s]) : Sender(opq'[s][i]) /\ opq'[s][i].event = e
      <4>1. DOMAIN opq'[s] = 1..Len(opq'[s])
        BY DEF Types
      <4> QED
        BY <4>1 DEF Waiting, ToSet, Sender
    <3>3. (\E i \in 1..Len(opq[s]) : Sender(opq[s][i]) /\ opq[s][i].event = e)
          <=> \/ \E i \in 1..Len(opq'[s]) : Sender(opq'[s][i]) /\ opq'[s][i].event = e
              \/ e = opq[s][1].event
      <4>1. ASSUME NEW i \in 1..Len(opq[s]), Sender(opq[s][i]), opq[s][i].event = e
            PROVE  \/ \E j \in 1..Len(opq'[s]) : Sender(opq'[s][j]) /\ opq'[s][j].event = e
                   \/ e = opq[s][1].event
        <5>1. CASE i = 1
          BY <4>1, <5>1
        <5>2. CASE i # 1
          <6>1. i - 1 \in 1..Len(opq'[s]) /\ (i - 1) + 1 = i
            BY <1>7, <5>2
          <6>2. opq'[s][i - 1] = opq[s][i]
            BY <1>7, <6>1
          <6> QED
            BY <4>1, <6>1, <6>2
        <5> QED
          BY <5>1, <5>2
      <4>2. ASSUME NEW j \in 1..Len(opq'[s]), Sender(opq'[s][j]), opq'[s][j].event = e
            PROVE  \E i \in 1..Len(opq[s]) : Sender(opq[s][i]) /\ opq[s][i].event = e
        <5>1. j + 1 \in 1..Len(opq[s]) /\ opq'[s][j] = opq[s][j + 1]
          BY <1>7
        <5> QED
          BY <4>2, <5>1
      <4> QED
        BY <1>4, <4>1, <4>2
    <3>4. (\E r \in sched[s] : Sender(r) /\ r.event = e)
          <=> (\E r \in sched'[s] : Sender(r) /\ r.event = e)
      BY <1>9
    <3> QED
      BY <3>1, <3>2, <3>3, <3>4
  <2>6. ToSet(aimed[s])' = ToSet(aimed[s])
    BY <1>2 DEF ToSet
  <2>7. /\ pending[s] = <<>> /\ inflight[s] = 0
        /\ ToSet(aimed[s]) = Sent(s) \cup Waiting(s) \cup cut[s]
    BY <1>10, <2>1 DEF LiveCover
  <2>8. Sent(s)' \cup Waiting(s)' = Sent(s) \cup Waiting(s)
    BY <2>4, <2>5
  <2> QED
    BY <2>1, <2>6, <2>7, <2>8
<1> QED
  BY <1>3, <1>10, <1>11, <1>12, <1>13 DEF DeliveryInv, Delivery

\* A broadcast that selects the socket, or leaves it alone.
LEMMA NewerEvent ==
    ASSUME Types, NEW s \in Sockets, Once(s), nextEvent' = nextEvent + 1,
           wire'[s] = wire[s], opq'[s] = opq[s],
           \A t \in sched'[s] : Sender(t) => t \in sched[s] \/ t.event = nextEvent
    PROVE  Once(s)'
<1>0. nextEvent \in Nat
  BY ConstantsAssumption DEF Types
<1>1. /\ \A i \in 1..Len(wire[s]) : Carries(wire[s][i]) => wire[s][i].event \in Nat
      /\ \A t \in sched[s] : t.event \in Nat
      /\ \A i \in 1..Len(opq[s]) : opq[s][i].event \in Nat
  <2>1. /\ \A i \in 1..Len(wire[s]) : wire[s][i] \in Frames
        /\ \A t \in sched[s] : t \in Tasks
        /\ \A i \in 1..Len(opq[s]) : opq[s][i] \in Tasks
    BY DEF Types
  <2>2. \A x \in 0..MaxEvents : x \in Nat
    BY ConstantsAssumption
  <2> QED
    BY <2>1, <2>2 DEF Frames, Tasks
<1>2. /\ \A i \in 1..Len(wire[s]) : Carries(wire[s][i]) =>
            wire[s][i].event < nextEvent' /\ wire[s][i].event # nextEvent
      /\ \A t \in sched[s] : Sender(t) => t.event < nextEvent'
      /\ \A i \in 1..Len(opq[s]) : Sender(opq[s][i]) =>
            opq[s][i].event < nextEvent' /\ opq[s][i].event # nextEvent
  BY <1>0, <1>1 DEF Once
<1>3. nextEvent < nextEvent'
  BY <1>0
<1>4. \A t \in sched'[s] : Sender(t) => t.event < nextEvent'
  BY <1>2, <1>3
<1>5. \A t \in sched'[s], i \in 1..Len(opq'[s]) :
          Sender(t) /\ Sender(opq'[s][i]) => opq'[s][i].event # t.event
  BY <1>2 DEF Once
<1>6. \A t \in sched'[s], i \in 1..Len(wire'[s]) :
          Sender(t) /\ Carries(wire'[s][i]) => wire'[s][i].event # t.event
  BY <1>2 DEF Once
<1> QED
  BY <1>2, <1>4, <1>5, <1>6 DEF Once

LEMMA SelectedDelivers ==
    ASSUME Types, Types', cut' = cut, NEW s \in Sockets, Delivery(s), nextEvent' = nextEvent + 1,
           Aimed(s, nextEvent), s \in attached,
           ready'[s] = ready[s], inflight'[s] = inflight[s], opq'[s] = opq[s],
           stage'[s] = stage[s], wire'[s] = wire[s],
           \/ /\ ready[s] /\ s \in attached' /\ pending'[s] = pending[s]
              /\ sched'[s] = sched[s] \cup {[kind |-> "send", event |-> nextEvent]}
           \/ Detached(s, "close")
           \/ ~ready[s] /\ s \in attached' /\ sched'[s] = sched[s]
    PROVE  Delivery(s)'
<1>1. \A t \in sched'[s] : Sender(t) => t \in sched[s] \/ t.event = nextEvent
  BY DEF Detached, Sender
<1>2. Once(s)'
  BY <1>1, NewerEvent DEF Delivery
<1>3. Released(s)'
  BY DEF Delivery, Released, Detached
<1>4. Ascending(s)'
  <2>1. nextEvent \in Nat
    BY ConstantsAssumption DEF Types
  <2>2. \A i \in 1..Len(aimed[s]) : aimed[s][i] \in Nat /\ aimed[s][i] < nextEvent
    <3>1. \A i \in 1..Len(aimed[s]) : aimed[s][i] \in Events
      BY DEF Types
    <3>2. \A x \in Events : x \in Nat
      BY ConstantsAssumption DEF Events
    <3> QED
      BY <3>1, <3>2 DEF Delivery, Ascending
  <2>3. 1..Len(aimed'[s]) = (1..Len(aimed[s])) \cup {Len(aimed[s]) + 1}
    BY DEF Aimed
  <2>4. \A i \in 1..Len(aimed'[s]) : aimed'[s][i] < nextEvent'
    <3>1. \A i \in 1..Len(aimed[s]) : aimed[s][i] < nextEvent'
      BY <2>1, <2>2
    <3>2. nextEvent < nextEvent'
      BY <2>1
    <3> QED
      BY <2>3, <3>1, <3>2 DEF Aimed
  <2>5. ASSUME NEW i \in 1..Len(aimed'[s]), NEW j \in 1..Len(aimed'[s]), i < j
        PROVE  aimed'[s][i] < aimed'[s][j]
    <3>1. i \in 1..Len(aimed[s])
      BY <2>5 DEF Aimed
    <3>2. CASE j \in 1..Len(aimed[s])
      BY <2>5, <3>1, <3>2 DEF Aimed, Delivery, Ascending
    <3>3. CASE j = Len(aimed[s]) + 1
      BY <2>2, <3>1, <3>3 DEF Aimed
    <3> QED
      BY <2>3, <3>2, <3>3
  <2> QED
    BY <2>4, <2>5 DEF Ascending
<1>5. LiveCover(s)'
  <2> SUFFICES ASSUME s \in attached', ready'[s], stage'[s] # "cleanup"
               PROVE  /\ pending'[s] = <<>> /\ inflight'[s] = 0
                      /\ ToSet(aimed[s])' = Sent(s)' \cup Waiting(s)' \cup cut[s]'
    BY DEF LiveCover
  <2>1. /\ ready[s] /\ pending'[s] = pending[s]
        /\ sched'[s] = sched[s] \cup {[kind |-> "send", event |-> nextEvent]}
    BY DEF Detached
  <2>2. /\ pending[s] = <<>> /\ inflight[s] = 0
        /\ ToSet(aimed[s]) = Sent(s) \cup Waiting(s) \cup cut[s]
    BY <2>1 DEF Delivery, LiveCover
  <2>3. Sent(s)' = Sent(s)
    BY DEF Sent, Delivered
  <2>4. \A e : e \in Waiting(s)' <=> e \in Waiting(s) \/ e = nextEvent
    <3> TAKE e
    <3>1. e \in Waiting(s) <=>
              \/ \E r \in sched[s] : Sender(r) /\ r.event = e
              \/ \E i \in 1..Len(opq[s]) : Sender(opq[s][i]) /\ opq[s][i].event = e
      BY WaitingIs
    <3>2. e \in Waiting(s)' <=>
              \/ \E r \in sched'[s] : Sender(r) /\ r.event = e
              \/ \E i \in 1..Len(opq'[s]) : Sender(opq'[s][i]) /\ opq'[s][i].event = e
      <4>1. DOMAIN opq'[s] = 1..Len(opq'[s])
        BY DEF Types
      <4> QED
        BY <4>1 DEF Waiting, ToSet, Sender
    <3>3. (\E r \in sched'[s] : Sender(r) /\ r.event = e)
          <=> (\E r \in sched[s] : Sender(r) /\ r.event = e) \/ e = nextEvent
      <4> DEFINE t == [kind |-> "send", event |-> nextEvent]
      <4>1. Sender(t) /\ t.event = nextEvent
        BY DEF Sender
      <4>2. sched'[s] = sched[s] \cup {t}
        BY <2>1
      <4> HIDE DEF t
      <4> QED
        BY <4>1, <4>2
    <3> QED
      BY <3>1, <3>2, <3>3
  <2>5. \A e : e \in ToSet(aimed[s])' <=> e \in ToSet(aimed[s]) \/ e = nextEvent
    <3>1. 1..Len(aimed'[s]) = (1..Len(aimed[s])) \cup {Len(aimed[s]) + 1}
      BY DEF Aimed
    <3> QED
      BY <3>1 DEF Aimed, ToSet
  <2> QED
    BY <2>1, <2>2, <2>3, <2>4, <2>5
<1> QED
  BY <1>2, <1>3, <1>4, <1>5 DEF Delivery

LEMMA PassedOverDelivers ==
    ASSUME Types, Types', cut' = cut, NEW s \in Sockets, Delivery(s), nextEvent' = nextEvent + 1, Same(s)
    PROVE  Delivery(s)'
<1> USE DEF Same
<1>1. Once(s)'
  BY NewerEvent DEF Delivery
<1>2. Released(s)'
  BY DEF Delivery, Released
<1>3. Ascending(s)'
  <2>1. nextEvent \in Nat
    BY ConstantsAssumption DEF Types
  <2>2. \A i \in 1..Len(aimed[s]) : aimed[s][i] \in Nat
    <3>1. \A i \in 1..Len(aimed[s]) : aimed[s][i] \in Events
      BY DEF Types
    <3>2. \A x \in Events : x \in Nat
      BY ConstantsAssumption DEF Events
    <3> QED
      BY <3>1, <3>2
  <2> QED
    BY <2>1, <2>2 DEF Delivery, Ascending
<1>4. LiveCover(s)'
  <2>1. Sent(s)' = Sent(s) /\ Waiting(s)' = Waiting(s) /\ ToSet(aimed[s])' = ToSet(aimed[s])
    BY DEF Sent, Delivered, Waiting, ToSet
  <2> QED
    BY <2>1 DEF Delivery, LiveCover
<1> QED
  BY <1>1, <1>2, <1>3, <1>4 DEF Delivery

LEMMA BroadcastDelivers ==
    ASSUME Inv, Inv', DeliveryInv, cut' = cut, NEW r, NEW skip, Broadcast(r, skip)
    PROVE  DeliveryInv'
<1> SUFFICES ASSUME NEW s \in Sockets
             PROVE  Delivery(s)'
  BY DEF DeliveryInv
<1> USE DEF Inv
<1> DEFINE e == nextEvent
           peers == InRoom(r) \ skip
           live == {u \in peers : IsLive(u)}
<1>0. Delivery(s)
  BY DEF DeliveryInv
<1>1. /\ e <= MaxEvents
      /\ nextEvent' = nextEvent + 1
      /\ aimed' = [u \in Sockets |-> IF u \in peers THEN Append(aimed[u], e) ELSE aimed[u]]
      /\ UNCHANGED <<ready, inflight, opq, io, sessVars, wire>>
  BY DEF Broadcast
<1>2. PICK order \in SetToSeqs(peers \ live) :
         LET over == Overflowing(order, e)
             queued == (peers \ live) \ over
         IN  /\ DetachAndSend(over, "close", live, e)
             /\ pending' = [u \in Sockets |->
                   IF u \in over THEN <<>>
                   ELSE IF u \in queued THEN Append(pending[u], e) ELSE pending[u]]
  BY DEF Broadcast
<1> DEFINE over == Overflowing(order, e)
<1>3. over \subseteq peers \ live
  BY DEF Overflowing, SetToSeqs
<1>4. peers \subseteq attached
  BY DEF InRoom
<1>5. s \in live <=> s \in peers /\ ready[s]
  BY DEF IsLive
<1>6. /\ attached' = attached \ over
      /\ sched'[s] = sched[s] \cup (IF s \in over THEN {Task("close", 0)} ELSE {})
                              \cup (IF s \in live THEN {Task("send", e)} ELSE {})
      /\ pending'[s] = IF s \in over THEN <<>>
                       ELSE IF s \in (peers \ live) \ over THEN Append(pending[s], e) ELSE pending[s]
  <2>1. over \cap attached = over
    BY <1>3, <1>4
  <2> QED
    BY <1>2, <2>1 DEF DetachAndSend, Winners, Closer
<1> HIDE DEF over, live, peers
<1>7. e \in Events
  BY <1>1, ConstantsAssumption DEF Types, Events
<1>8. CASE s \notin peers
  <2>1. s \notin over /\ s \notin live
    BY <1>3, <1>5, <1>8
  <2>2. Same(s)
    BY <1>1, <1>6, <1>8, <2>1 DEF Same, sessVars
  <2> QED
    BY <1>0, <1>1, <2>2, PassedOverDelivers
<1>9. CASE s \in peers
  <2>1. aimed'[s] = Append(aimed[s], e)
    BY <1>1, <1>9
  <2>2. Aimed(s, nextEvent)
    BY <1>7, <2>1, AimEffect
  <2>3. \/ /\ ready[s] /\ s \in attached' /\ pending'[s] = pending[s]
           /\ sched'[s] = sched[s] \cup {[kind |-> "send", event |-> nextEvent]}
        \/ Detached(s, "close")
        \/ ~ready[s] /\ s \in attached' /\ sched'[s] = sched[s]
    <3>1. CASE ready[s]
      <4>1. s \in live /\ s \notin over
        BY <1>3, <1>5, <1>9, <3>1
      <4> QED
        BY <1>4, <1>6, <1>9, <3>1, <4>1 DEF Task
    <3>2. CASE s \in over
      <4>1. s \notin live
        BY <1>3, <3>2
      <4> QED
        BY <1>4, <1>6, <1>9, <3>2, <4>1 DEF Detached, Task
    <3>3. CASE ~ready[s] /\ s \notin over
      <4>1. s \notin live
        BY <1>5, <3>3
      <4> QED
        BY <1>4, <1>6, <1>9, <3>3, <4>1
    <3> QED
      BY <3>1, <3>2, <3>3
  <2>4. s \in attached
    BY <1>4, <1>9
  <2> QED
    BY <1>0, <1>1, <2>2, <2>3, <2>4, SelectedDelivers DEF sessVars
<1> QED
  BY <1>8, <1>9

LEMMA InitDelivers ==
    ASSUME Init
    PROVE  DeliveryInv
<1> SUFFICES ASSUME NEW s \in Sockets
             PROVE  Delivery(s)
  BY DEF DeliveryInv
<1>1. /\ ~ready[s] /\ opq[s] = <<>> /\ sched[s] = {} /\ stage[s] = "new"
      /\ wire[s] = <<>> /\ aimed[s] = <<>>
  BY DEF Init
<1>2. Len(wire[s]) = 0 /\ Len(opq[s]) = 0 /\ Len(aimed[s]) = 0
  BY <1>1
<1>3. Once(s)
  BY <1>1, <1>2 DEF Once
<1> QED
  BY <1>1, <1>2, <1>3 DEF Delivery, Ascending, Released, LiveCover

\* The steps of a request and of the tasks of its socket cancel no send.
LEMMA RequestCuts ==
    ASSUME NEW s \in Sockets,
           \/ Register(s) \/ Send(s) \/ Activate(s) \/ EndSession(s) \/ Cleanup(s)
           \/ Start(s) \/ GrantSend(s) \/ GrantActivate(s) \/ GrantClose(s)
           \/ CloseEnds(s) \/ LeaseClose(s)
    PROVE  cut' = cut
<1> USE DEF histVars, callVars
<1>1. CASE Register(s) \/ Send(s) \/ Activate(s) \/ EndSession(s) \/ Cleanup(s)
  BY <1>1 DEF Register, Send, Activate, EndSession, Cleanup
<1>2. CASE Start(s) \/ GrantSend(s) \/ GrantActivate(s) \/ GrantClose(s)
  BY <1>2 DEF Start, GrantSend, GrantActivate, GrantClose
<1>3. CASE CloseEnds(s) \/ LeaseClose(s)
  BY <1>3 DEF CloseEnds, LeaseClose
<1> QED
  BY <1>1, <1>2, <1>3

\* A socket that has gone live stays so.
LEMMA RequestReady ==
    ASSUME Types, NEW s \in Sockets,
           \/ Register(s) \/ Send(s) \/ Activate(s) \/ EndSession(s) \/ Cleanup(s)
           \/ Start(s) \/ GrantSend(s) \/ GrantActivate(s) \/ GrantClose(s)
           \/ CloseEnds(s) \/ LeaseClose(s)
    PROVE  \A u \in Sockets : ready[u] => ready'[u]
<1> USE DEF queueVars
<1>1. CASE Register(s) \/ Send(s) \/ Activate(s) \/ EndSession(s) \/ Cleanup(s)
  BY <1>1 DEF Register, Send, Activate, EndSession, Cleanup
<1>2. CASE Start(s) \/ GrantSend(s) \/ GrantClose(s)
  BY <1>2 DEF Start, GrantSend, GrantClose
<1>3. CASE CloseEnds(s) \/ LeaseClose(s)
  BY <1>3 DEF CloseEnds, LeaseClose
<1>4. CASE GrantActivate(s)
  BY <1>4 DEF GrantActivate, Types
<1> QED
  BY <1>1, <1>2, <1>3, <1>4

LEMMA InitCut ==
    ASSUME Init
    PROVE  CutInv
BY DEF Init, CutInv

\* The socket of a cancelled send is live.
LEMMA SendCancelledCuts ==
    ASSUME Inv, CutInv, NEW s \in Sockets, NEW reached \in BOOLEAN, SendCancelled(s, reached)
    PROVE  CutInv'
<1> USE DEF Inv
<1>1. /\ ready' = ready
      /\ \/ \E t \in sched[s] : EndsUnrun(s, t)
         \/ \E i \in 1..Len(opq[s]) : EndsWaiting(s, i, reached)
  BY CancelledCases
<1>2. \E t \in Tasks : ready[s] /\ cut' = [cut EXCEPT ![s] = @ \cup {t.event}]
  <2>1. CASE \E t \in sched[s] : EndsUnrun(s, t)
    BY <2>1 DEF EndsUnrun, Cancelled, SocketInv, LiveTasks, Types
  <2>2. CASE \E i \in 1..Len(opq[s]) : EndsWaiting(s, i, reached)
    <3>1. PICK i \in 1..Len(opq[s]) : EndsWaiting(s, i, reached)
      BY <2>2
    <3>2. opq[s][i] \in Tasks
      BY DEF Types
    <3> QED
      BY <3>1, <3>2 DEF EndsWaiting, Cancelled, SocketInv, LiveTasks
  <2> QED
    BY <1>1, <2>1, <2>2
<1> QED
  BY <1>1, <1>2 DEF CutInv, Tasks

LEMMA NextCut ==
    ASSUME Inv, CutInv, [Next]_vars
    PROVE  CutInv'
<1> USE DEF Inv
<1>0. SUFFICES \/ CutInv'
               \/ cut' = cut /\ \A u \in Sockets : ready[u] => ready'[u]
  BY DEF CutInv
<1>1. ASSUME NEW s \in Sockets,
             \/ Register(s) \/ Send(s) \/ Activate(s) \/ EndSession(s) \/ Cleanup(s)
             \/ Start(s) \/ GrantSend(s) \/ GrantActivate(s) \/ GrantClose(s)
             \/ CloseEnds(s) \/ LeaseClose(s)
      PROVE  cut' = cut /\ \A u \in Sockets : ready[u] => ready'[u]
  BY <1>1, RequestCuts, RequestReady
<1>2. ASSUME NEW s \in Sockets, NEW reached \in BOOLEAN,
             NoticeEnds(s, reached) \/ Deadline(s, reached) \/ Cancel(s, reached)
      PROVE  cut' = cut /\ ready' = ready
  BY <1>2 DEF NoticeEnds, Deadline, Cancel, Withdraw, callVars, queueVars
<1>3. ASSUME NEW s \in Sockets, NEW reached \in BOOLEAN, NEW ok \in BOOLEAN,
             SendEnds(s, ok, reached) \/ DirectEnds(s, ok, reached) \/ FlushEnds(s, ok, reached)
      PROVE  cut' = cut /\ ready' = ready
  BY <1>3 DEF SendEnds, DirectEnds, FlushEnds, callVars
<1>4. ASSUME NEW s \in Sockets, NEW reached \in BOOLEAN, SendCancelled(s, reached)
      PROVE  CutInv'
  BY <1>4, SendCancelledCuts
<1>5. ASSUME NEW r, NEW skip, Broadcast(r, skip)
      PROVE  cut' = cut /\ ready' = ready
  BY <1>5 DEF Broadcast
<1>6. ASSUME NEW r, NEW who, CloseRoom(r, who) \/ CloseAll
      PROVE  cut' = cut /\ ready' = ready
  BY <1>6 DEF CloseRoom, CloseAll, histVars, callVars
<1>7. ASSUME NEW e \in Events, CancelCaller(e)
      PROVE  cut' = cut /\ ready' = ready
  BY <1>7 DEF CancelCaller, queueVars
<1>8. CASE UNCHANGED vars
  BY <1>8 DEF vars, queueVars, histVars, callVars
<1> QED
  BY <1>1, <1>2, <1>3, <1>4, <1>5, <1>6, <1>7, <1>8 DEF Next

\* An event leaves the tasks that wait and joins those that were cut off.
LEMMA CutCovers ==
    ASSUME Types, NEW s \in Sockets, Delivery(s), NEW e, e \in Waiting(s),
           s \in attached' <=> s \in attached,
           ready'[s] = ready[s], pending'[s] = pending[s], inflight'[s] = inflight[s],
           stage'[s] = stage[s], aimed'[s] = aimed[s],
           cut'[s] = cut[s] \cup {e},
           \A d : d \in Waiting(s) <=> d \in Waiting(s)' \/ d = e,
           \A d : d \in Sent(s) => d \in Sent(s)',
           \A d : d \in Sent(s)' => d \in Sent(s) \/ d = e
    PROVE  LiveCover(s)'
<1> SUFFICES ASSUME s \in attached', ready'[s], stage'[s] # "cleanup"
             PROVE  /\ pending'[s] = <<>> /\ inflight'[s] = 0
                    /\ ToSet(aimed[s])' = Sent(s)' \cup Waiting(s)' \cup cut[s]'
  BY DEF LiveCover
<1>1. /\ pending[s] = <<>> /\ inflight[s] = 0
      /\ ToSet(aimed[s]) = Sent(s) \cup Waiting(s) \cup cut[s]
  BY DEF Delivery, LiveCover
<1>2. ToSet(aimed[s])' = ToSet(aimed[s])
  BY DEF ToSet
<1>3. \A d : d \in Sent(s) \cup Waiting(s) \cup cut[s]
             <=> d \in Sent(s)' \cup Waiting(s)' \cup cut'[s]
  OBVIOUS
<1> QED
  BY <1>1, <1>2, <1>3

\* The waiting events of a socket before and after one sender leaves the lock.
LEMMA WithoutWaiting ==
    ASSUME Types, Types', NEW s \in Sockets, NEW i \in 1..Len(opq[s]), Without(s, i),
           Sender(opq[s][i]), sched'[s] = sched[s]
    PROVE  \A d : d \in Waiting(s) <=> d \in Waiting(s)' \/ d = opq[s][i].event
<1> TAKE d
<1>1. d \in Waiting(s) <=>
          \/ \E r \in sched[s] : Sender(r) /\ r.event = d
          \/ \E j \in 1..Len(opq[s]) : Sender(opq[s][j]) /\ opq[s][j].event = d
  BY WaitingIs
<1>2. d \in Waiting(s)' <=>
          \/ \E r \in sched'[s] : Sender(r) /\ r.event = d
          \/ \E j \in 1..Len(opq'[s]) : Sender(opq'[s][j]) /\ opq'[s][j].event = d
  <2>1. DOMAIN opq'[s] = 1..Len(opq'[s])
    BY DEF Types
  <2> QED
    BY <2>1 DEF Waiting, ToSet, Sender
<1>3. /\ Len(opq[s]) \in Nat /\ Len(opq'[s]) = Len(opq[s]) - 1
      /\ \A j \in 1..Len(opq'[s]) : opq'[s][j] = opq[s][IF j < i THEN j ELSE j + 1]
  BY DEF Without
<1>4. ASSUME NEW j \in 1..Len(opq[s]), Sender(opq[s][j]), opq[s][j].event = d, j # i
      PROVE  \E k \in 1..Len(opq'[s]) : Sender(opq'[s][k]) /\ opq'[s][k].event = d
  <2>1. CASE j < i
    <3>1. j \in 1..Len(opq'[s]) /\ opq'[s][j] = opq[s][j]
      BY <1>3, <2>1
    <3> QED
      BY <1>4, <3>1
  <2>2. CASE j > i
    <3>1. j - 1 \in 1..Len(opq'[s]) /\ ~(j - 1 < i) /\ (j - 1) + 1 = j
      BY <1>3, <2>2
    <3>2. opq'[s][j - 1] = opq[s][j]
      BY <1>3, <3>1
    <3> QED
      BY <1>4, <3>1, <3>2
  <2> QED
    BY <1>3, <1>4, <2>1, <2>2
<1>5. ASSUME NEW k \in 1..Len(opq'[s]), Sender(opq'[s][k]), opq'[s][k].event = d
      PROVE  \E j \in 1..Len(opq[s]) : Sender(opq[s][j]) /\ opq[s][j].event = d
  <2>1. (IF k < i THEN k ELSE k + 1) \in 1..Len(opq[s])
    BY <1>3
  <2> QED
    BY <1>3, <1>5, <2>1
<1> QED
  BY <1>1, <1>2, <1>4, <1>5

\* A cancelled send is accounted for: what selected its socket is still written,
\* waits to be, or was cut off.
LEMMA SendCancelledDelivers ==
    ASSUME Inv, Inv', CutInv, DeliveryInv, NEW s \in Sockets, NEW reached \in BOOLEAN,
           SendCancelled(s, reached)
    PROVE  DeliveryInv'
<1> USE DEF Inv
<1>1. /\ UNCHANGED <<attached, ready, pending, inflight, stage, busy, nextEvent, aimed>>
      /\ Wrote(s, reached)
      /\ \/ ~reached /\ \E t \in sched[s] : EndsUnrun(s, t)
         \/ \E i \in 1..Len(opq[s]) : EndsWaiting(s, i, reached)
  BY CancelledCases
<1>2. Delivery(s) /\ Released(s)'
  BY <1>1 DEF DeliveryInv, Delivery, Released
<1>3. ASSUME ~reached, NEW t \in sched[s], EndsUnrun(s, t)
      PROVE  DeliveryInv'
  <2>1. /\ wire' = wire /\ opq' = opq /\ Sender(t)
        /\ sched'[s] = sched[s] \ {t} /\ cut'[s] = cut[s] \cup {t.event}
        /\ \A u \in Sockets : u # s => sched'[u] = sched[u] /\ cut'[u] = cut[u]
    BY <1>1, <1>3 DEF Wrote, EndsUnrun, Cancelled, Sender, Types, CutInv
  <2>2. ASSUME NEW u \in Sockets, u # s
        PROVE  Delivery(u)'
    <3>1. KeptAttached(u)
      BY <1>1, <2>1, <2>2 DEF KeptAttached
    <3> QED
      BY <1>1, <2>1, <2>2, <3>1, OthersKeep
  <2>3. Quiet(s)
    BY <1>1, <2>1 DEF Quiet
  <2>4. Ascending(s)' /\ Once(s)'
    BY <1>2, <2>3, QuietOnce DEF Delivery
  <2>5. t.event \in Waiting(s)
    BY <2>1, WaitingIs
  <2>6. \A d : d \in Waiting(s) <=> d \in Waiting(s)' \/ d = t.event
    <3> TAKE d
    <3>1. d \in Waiting(s) <=>
              \/ \E r \in sched[s] : Sender(r) /\ r.event = d
              \/ \E j \in 1..Len(opq[s]) : Sender(opq[s][j]) /\ opq[s][j].event = d
      BY WaitingIs
    <3>2. d \in Waiting(s)' <=>
              \/ \E r \in sched'[s] : Sender(r) /\ r.event = d
              \/ \E j \in 1..Len(opq'[s]) : Sender(opq'[s][j]) /\ opq'[s][j].event = d
      <4>1. DOMAIN opq'[s] = 1..Len(opq'[s])
        BY DEF Types
      <4> QED
        BY <4>1 DEF Waiting, ToSet, Sender
    <3> QED
      BY <2>1, <3>1, <3>2
  <2>7. Sent(s)' = Sent(s)
    BY <2>1 DEF Sent, Delivered
  <2>8. LiveCover(s)'
    BY <1>1, <1>2, <2>1, <2>5, <2>6, <2>7, CutCovers
  <2> QED
    BY <1>2, <2>2, <2>4, <2>8 DEF DeliveryInv, Delivery
<1>4. ASSUME NEW i \in 1..Len(opq[s]), EndsWaiting(s, i, reached)
      PROVE  DeliveryInv'
  <2>1. /\ sched' = sched /\ opq' = [opq EXCEPT ![s] = RemoveAt(@, i)] /\ Sender(opq[s][i])
        /\ cut' = [cut EXCEPT ![s] = @ \cup {opq[s][i].event}]
    BY <1>4 DEF EndsWaiting, Cancelled, Sender
  <2>2. /\ opq'[s] = RemoveAt(opq[s], i) /\ cut'[s] = cut[s] \cup {opq[s][i].event}
        /\ \A u \in Sockets : u # s => opq'[u] = opq[u] /\ cut'[u] = cut[u]
    BY <2>1 DEF Types, CutInv
  <2>3. Without(s, i)
    BY <2>2, RemoveEffect
  <2>4. /\ \A u \in Sockets : aimed'[u] = aimed[u] /\ (u # s => wire'[u] = wire[u])
        /\ \/ wire'[s] = wire[s]
           \/ i = 1 /\ io[s] = "send" /\ Holder(s).kind = "send" /\ Gains(s, Frame(s))
    BY <1>1, <1>4, CancelledWire
  <2>5. ASSUME NEW u \in Sockets, u # s
        PROVE  Delivery(u)'
    <3>1. KeptAttached(u)
      BY <1>1, <2>1, <2>5 DEF KeptAttached
    <3> QED
      BY <1>1, <2>2, <2>4, <2>5, <3>1, OthersKeep
  <2>6. \A d : d \in Waiting(s) <=> d \in Waiting(s)' \/ d = opq[s][i].event
    BY <2>1, <2>3, WithoutWaiting
  <2>7. opq[s][i].event \in Waiting(s)
    BY <2>6
  <2>8. CASE wire'[s] = wire[s]
    <3>1. Quiet(s)
      BY <1>1, <2>1, <2>3, <2>8 DEF Quiet
    <3>2. Ascending(s)' /\ Once(s)'
      BY <1>2, <3>1, QuietOnce DEF Delivery
    <3>3. Sent(s)' = Sent(s)
      BY <2>8 DEF Sent, Delivered
    <3>4. LiveCover(s)'
      BY <1>1, <1>2, <2>2, <2>6, <2>7, <3>3, CutCovers
    <3> QED
      BY <1>2, <2>5, <3>2, <3>4 DEF DeliveryInv, Delivery
  <2>9. CASE i = 1 /\ io[s] = "send" /\ Holder(s).kind = "send" /\ Gains(s, Frame(s))
    <3>1. 1 \in 1..Len(opq[s]) /\ opq[s] # <<>> /\ Holder(s) = opq[s][1]
      BY <2>9, HolderFirst DEF SocketInv, LockHeld
    <3>2. Carries(Frame(s)) /\ Frame(s).event = opq[s][1].event
      BY <2>9, <3>1, FrameKind DEF Carries
    <3>3. /\ opq[s][1].event < nextEvent
          /\ \A k \in 1..Len(wire[s]) : Carries(wire[s][k]) => wire[s][k].event # Frame(s).event
          /\ \A t \in sched'[s] : Sender(t) => t \in sched[s] /\ t.event # Frame(s).event
      BY <1>2, <2>1, <2>9, <3>1, <3>2 DEF Delivery, Once
    <3>4. \A j \in 1..Len(opq'[s]) : Sender(opq'[s][j]) => opq'[s][j].event # Frame(s).event
      <4> SUFFICES ASSUME NEW j \in 1..Len(opq'[s]), Sender(opq'[s][j])
                   PROVE  opq'[s][j].event # opq[s][1].event
        BY <3>2
      <4>1. j + 1 \in 1..Len(opq[s]) /\ j + 1 # 1 /\ opq'[s][j] = opq[s][j + 1]
        BY <2>3, <2>9 DEF Without
      <4> QED
        BY <1>2, <2>1, <2>9, <3>1, <4>1 DEF Delivery, Once
    <3>5. Once(s)'
      BY <1>1, <1>2, <2>3, <2>9, <3>2, <3>3, <3>4, OnceGain DEF Delivery
    <3>6. Ascending(s)'
      BY <1>1, <1>2 DEF Delivery, Ascending
    <3>7. \A d : d \in Sent(s)' <=> d \in Sent(s) \/ d = opq[s][1].event
      <4> TAKE d
      <4>1. d \in Sent(s) <=> \E k \in 1..Len(wire[s]) : Carries(wire[s][k]) /\ wire[s][k].event = d
        BY SentIs
      <4>2. d \in Sent(s)' <=> \E k \in 1..Len(wire'[s]) : Carries(wire'[s][k]) /\ wire'[s][k].event = d
        BY DEF Sent, Delivered, Carries
      <4>3. Len(wire[s]) \in Nat
        BY DEF Types
      <4>4. /\ 1..Len(wire'[s]) = (1..Len(wire[s])) \cup {Len(wire[s]) + 1}
            /\ \A k \in 1..Len(wire[s]) : wire'[s][k] = wire[s][k]
            /\ wire'[s][Len(wire[s]) + 1] = Frame(s)
        BY <2>9, <4>3 DEF Gains
      <4> QED
        BY <3>2, <4>1, <4>2, <4>4
    <3>8. LiveCover(s)'
      BY <1>1, <1>2, <2>2, <2>6, <2>7, <2>9, <3>7, CutCovers
    <3> QED
      BY <1>2, <2>5, <3>5, <3>6, <3>8 DEF DeliveryInv, Delivery
  <2> QED
    BY <2>4, <2>8, <2>9
<1> QED
  BY <1>1, <1>3, <1>4

LEMMA NextDelivers ==
    ASSUME Inv, Inv', CutInv, DeliveryInv, [Next]_vars
    PROVE  DeliveryInv'
<1>1. ASSUME NEW s \in Sockets,
             \/ Register(s) \/ Send(s) \/ Activate(s) \/ EndSession(s) \/ Cleanup(s)
             \/ Start(s) \/ GrantSend(s) \/ GrantActivate(s) \/ GrantClose(s)
             \/ CloseEnds(s) \/ LeaseClose(s)
      PROVE  DeliveryInv'
  <2>1. cut' = cut
    BY <1>1, RequestCuts
  <2> QED
    BY <1>1, <2>1, RegisterDelivers, OwnWaitsDelivers, EndSessionDelivers, ClosesDeliver, StartDelivers,
     GrantSendDelivers, GrantActivateDelivers, GrantCloseDelivers, CloseEndsDelivers
<1>2. ASSUME NEW s \in Sockets, NEW reached \in BOOLEAN,
             \/ NoticeEnds(s, reached) \/ Deadline(s, reached) \/ Cancel(s, reached)
             \/ SendCancelled(s, reached)
      PROVE  DeliveryInv'
  <2>1. CASE NoticeEnds(s, reached)
    BY <2>1, NoticeEndsDelivers DEF NoticeEnds, callVars
  <2>2. CASE Deadline(s, reached) \/ Cancel(s, reached)
    BY <2>2, WithdrawDelivers DEF Deadline, Cancel, Withdraw, callVars
  <2>3. CASE SendCancelled(s, reached)
    BY <2>3, SendCancelledDelivers
  <2> QED
    BY <1>2, <2>1, <2>2, <2>3
<1>3. ASSUME NEW s \in Sockets, NEW reached \in BOOLEAN, NEW ok \in BOOLEAN,
             SendEnds(s, ok, reached) \/ DirectEnds(s, ok, reached) \/ FlushEnds(s, ok, reached)
      PROVE  DeliveryInv'
  BY <1>3, SendEndsDelivers, DirectEndsDelivers, FlushEndsDelivers
     DEF SendEnds, DirectEnds, FlushEnds, callVars
<1>4. ASSUME NEW r, NEW skip, Broadcast(r, skip)
      PROVE  DeliveryInv'
  <2>1. cut' = cut
    BY <1>4 DEF Broadcast
  <2> QED
    BY <1>4, <2>1, BroadcastDelivers
<1>5. ASSUME NEW r, NEW who, CloseRoom(r, who)
      PROVE  DeliveryInv'
  BY <1>5, ClosesDeliver DEF CloseRoom, histVars, callVars
<1>6. ASSUME UNCHANGED vars
      PROVE  DeliveryInv'
  <2> SUFFICES ASSUME NEW s \in Sockets
               PROVE  Delivery(s)'
    BY DEF DeliveryInv
  <2>1. Same(s) /\ nextEvent' = nextEvent /\ Delivery(s) /\ cut' = cut
    BY <1>6 DEF Same, DeliveryInv, vars, queueVars, lockVars, sessVars, histVars, callVars
  <2> QED
    BY <2>1, SameDelivery DEF Inv
<1>7. ASSUME NEW e \in Events, CancelCaller(e)
      PROVE  DeliveryInv'
  <2> SUFFICES ASSUME NEW s \in Sockets
               PROVE  Delivery(s)'
    BY DEF DeliveryInv
  <2>1. Same(s) /\ nextEvent' = nextEvent /\ Delivery(s) /\ cut' = cut
    BY <1>7 DEF CancelCaller, Same, DeliveryInv, queueVars, lockVars, sessVars
  <2> QED
    BY <2>1, SameDelivery DEF Inv
<1>8. CASE CloseAll
  BY <1>8, ClosesDeliver DEF CloseAll, histVars, callVars
<1> QED
  BY <1>1, <1>2, <1>3, <1>4, <1>5, <1>6, <1>7, <1>8 DEF Next

\* What a socket that is not live yet has got and will get.
LEMMA InitializingCover ==
    ASSUME Inv, NEW s \in Sockets, s \in attached, ~ready[s],
           stage[s] \in {"ready", "history", "activate"}
    PROVE  /\ Waiting(s) = {}
           /\ ToSet(aimed[s]) = Sent(s) \cup ToSet(pending[s]) \cup ({inflight[s]} \ {0})
<1> USE DEF Inv
<1>1. Waiting(s) = {}
  <2>1. \A e : e \notin Waiting(s)
    <3> TAKE e
    <3>1. (\A t \in sched[s] : ~Sender(t)) /\ \A i \in 1..Len(opq[s]) : ~Sender(opq[s][i])
      BY DEF SocketInv, LiveTasks, Sender
    <3> QED
      BY <3>1, WaitingIs
  <2> QED
    BY <2>1
<1>2. /\ aimed[s] \in Seq(Events) /\ pending[s] \in Seq(Events)
      /\ wire[s] \in Seq(Frames) /\ ~Ended(s)
      /\ Len(wire[s]) \in Nat /\ Len(pending[s]) \in Nat /\ Len(aimed[s]) \in Nat
      /\ DOMAIN aimed[s] = 1..Len(aimed[s]) /\ DOMAIN pending[s] = 1..Len(pending[s])
  <2>1. aimed[s] \in Seq(Events) /\ pending[s] \in Seq(Events) /\ wire[s] \in Seq(Frames)
    BY DEF Types
  <2>2. ~Ended(s)
    BY DEF SocketInv, OneCloser
  <2> QED
    BY <2>1, <2>2
<1>3. CASE stage[s] \in {"ready", "history"}
  <2>1. pending[s] = aimed[s]
    BY <1>3 DEF SocketInv, Queue, Line
  <2>2. inflight[s] = 0
    <3>1. opq[s] # <<>> => 1 \in 1..Len(opq[s]) /\ Holder(s) = opq[s][1]
      BY HolderFirst
    <3> QED
      BY <1>3, <3>1 DEF SocketInv, Queue, Flushing, LockHeld, OwnTasks
  <2>3. \A e : e \notin Sent(s)
    <3>1. ASSUME NEW i \in 1..Len(wire[s]), Carries(wire[s][i])
          PROVE  FALSE
      <4>1. wire[s] = <<>> \/ Len(wire[s]) = 1
        BY <1>2, <1>3 DEF SocketInv, Handshake
      <4>2. i > 2
        BY <3>1 DEF SocketInv, Seen, Begins, Carries
      <4> QED
        BY <3>1, <4>1, <4>2
    <3> QED
      BY <3>1, SentIs
  <2> QED
    BY <1>1, <2>1, <2>2, <2>3
<1>4. CASE stage[s] = "activate"
  <2>1. /\ Len(wire[s]) >= 2
        /\ \A i \in 3..Len(wire[s]) : wire[s][i].kind = "queued"
    BY <1>2, <1>4 DEF SocketInv, Handshake
  <2>2. /\ Taken(s) + Len(pending[s]) = Len(aimed[s])
        /\ \A k \in 1..Len(pending[s]) : pending[s][k] = aimed[s][Taken(s) + k]
    BY <1>4 DEF SocketInv, Queue, Line
  <2>3. Taken(s) \in Nat
    <3>1. Len(wire[s]) - 2 \in Nat /\ Len(wire[s]) - 2 + 0 \in Nat /\ Len(wire[s]) - 2 + 1 \in Nat
      BY <1>2, <2>1
    <3> QED
      BY <3>1 DEF Taken
  <2>4. inflight[s] # 0 => /\ Taken(s) = Len(wire[s]) - 1 /\ Taken(s) \in 1..Len(aimed[s])
                           /\ inflight[s] = aimed[s][Taken(s)]
    <3>1. inflight[s] # 0 => Len(wire[s]) - 1 \in 1..Len(aimed[s])
                             /\ inflight[s] = aimed[s][Len(wire[s]) - 1]
      BY DEF SocketInv, Queue, Flushing
    <3>2. inflight[s] # 0 => Taken(s) = Len(wire[s]) - 1
      BY <1>2, <2>1 DEF Taken
    <3> QED
      BY <3>1, <3>2
  <2>5. inflight[s] = 0 => Taken(s) = Len(wire[s]) - 2
    BY <1>2, <2>1 DEF Taken
  <2>6. \A i \in 1..Len(wire[s]) : Carries(wire[s][i]) =>
           i - 2 \in 1..Len(aimed[s]) /\ wire[s][i].event = aimed[s][i - 2]
    <3> SUFFICES ASSUME NEW i \in 1..Len(wire[s]), Carries(wire[s][i])
                 PROVE  i - 2 \in 1..Len(aimed[s]) /\ wire[s][i].event = aimed[s][i - 2]
      OBVIOUS
    <3>1. i > 2
      BY DEF SocketInv, Seen, Begins, Carries
    <3>2. i \in 3..Len(wire[s])
      BY <1>2, <3>1
    <3>3. wire[s][i].kind = "queued"
      BY <2>1, <3>2
    <3> QED
      BY <1>2, <3>3 DEF SocketInv, Seen, InOrder
  <2>7. ASSUME NEW k \in 1..Len(aimed[s]), k <= Len(wire[s]) - 2
        PROVE  k + 2 \in 1..Len(wire[s]) /\ Carries(wire[s][k + 2]) /\ wire[s][k + 2].event = aimed[s][k]
    <3>1. k + 2 \in 3..Len(wire[s]) /\ k + 2 \in 1..Len(wire[s]) /\ (k + 2) - 2 = k
      BY <1>2, <2>1, <2>7
    <3>2. wire[s][k + 2].kind = "queued"
      BY <2>1, <3>1
    <3>3. wire[s][k + 2].event = aimed[s][(k + 2) - 2]
      BY <3>1, <3>2 DEF SocketInv, Seen, InOrder
    <3> QED
      BY <3>1, <3>2, <3>3 DEF Carries
  <2>8. ASSUME NEW e, e \in ToSet(aimed[s])
        PROVE  e \in Sent(s) \cup ToSet(pending[s]) \cup ({inflight[s]} \ {0})
    <3>1. PICK k \in 1..Len(aimed[s]) : aimed[s][k] = e
      BY <1>2, <2>8 DEF ToSet
    <3>2. CASE k <= Len(wire[s]) - 2
      BY <2>7, <3>1, <3>2, SentIs
    <3>3. CASE k > Taken(s)
      <4>1. k - Taken(s) \in 1..Len(pending[s]) /\ Taken(s) + (k - Taken(s)) = k
        BY <1>2, <2>2, <2>3, <3>3
      <4>2. pending[s][k - Taken(s)] = e
        BY <2>2, <3>1, <4>1
      <4> QED
        BY <1>2, <4>1, <4>2 DEF ToSet
    <3>4. CASE k > Len(wire[s]) - 2 /\ k <= Taken(s)
      <4>1. inflight[s] # 0
        BY <1>2, <2>1, <2>5, <3>4
      <4>2. k = Taken(s)
        BY <1>2, <2>1, <2>4, <3>4, <4>1
      <4> QED
        BY <2>4, <3>1, <4>1, <4>2
    <3> QED
      BY <1>2, <2>3, <3>2, <3>3, <3>4
  <2>9. ASSUME NEW e, e \in Sent(s) \cup ToSet(pending[s]) \cup ({inflight[s]} \ {0})
        PROVE  e \in ToSet(aimed[s])
    <3>1. CASE e \in Sent(s)
      <4>1. PICK i \in 1..Len(wire[s]) : Carries(wire[s][i]) /\ wire[s][i].event = e
        BY <3>1, SentIs
      <4> QED
        BY <1>2, <2>6, <4>1 DEF ToSet
    <3>2. CASE e \in ToSet(pending[s])
      <4>1. PICK k \in 1..Len(pending[s]) : pending[s][k] = e
        BY <1>2, <3>2 DEF ToSet
      <4>2. Taken(s) + k \in 1..Len(aimed[s])
        BY <1>2, <2>2, <2>3
      <4> QED
        BY <1>2, <2>2, <4>1, <4>2 DEF ToSet
    <3>3. CASE e = inflight[s] /\ inflight[s] # 0
      BY <1>2, <2>4, <3>3 DEF ToSet
    <3> QED
      BY <2>9, <3>1, <3>2, <3>3
  <2> QED
    BY <1>1, <2>8, <2>9
<1> QED
  BY <1>3, <1>4

LEMMA DropsNothing ==
    ASSUME Inv, CutInv, DeliveryInv
    PROVE  NothingDropped
<1> SUFFICES ASSUME NEW s \in attached, stage[s] # "cleanup"
             PROVE  /\ \A i, j \in Delivered(s) : wire[s][i].event = wire[s][j].event => i = j
                    /\ Sent(s) \cap Waiting(s) = {}
                    /\ ToSet(aimed[s]) = Sent(s) \cup Waiting(s) \cup ToSet(pending[s])
                                           \cup ({inflight[s]} \ {0}) \cup cut[s]
                    /\ ~ready[s] => cut[s] = {}
                    /\ ready[s] => pending[s] = <<>> /\ inflight[s] = 0
  BY DEF NothingDropped
<1> USE DEF Inv
<1>1. s \in Sockets
  BY DEF Types
<1>2. Delivery(s)
  BY <1>1 DEF DeliveryInv
<1>3. \A i, j \in Delivered(s) : wire[s][i].event = wire[s][j].event => i = j
  BY <1>2 DEF Delivered, Delivery, Once, Carries
<1>4. \A e : ~(e \in Sent(s) /\ e \in Waiting(s))
  <2> TAKE e
  <2>1. e \in Sent(s) <=> \E i \in 1..Len(wire[s]) : Carries(wire[s][i]) /\ wire[s][i].event = e
    BY <1>1, SentIs
  <2>2. e \in Waiting(s) <=>
              \/ \E t \in sched[s] : Sender(t) /\ t.event = e
              \/ \E i \in 1..Len(opq[s]) : Sender(opq[s][i]) /\ opq[s][i].event = e
    BY <1>1, WaitingIs
  <2> QED
    BY <1>2, <2>1, <2>2 DEF Delivery, Once
<1>7. ~ready[s] => cut[s] = {}
  BY <1>1 DEF CutInv
<1>5. CASE ready[s]
  <2>1. /\ pending[s] = <<>> /\ inflight[s] = 0
        /\ ToSet(aimed[s]) = Sent(s) \cup Waiting(s) \cup cut[s]
    BY <1>2, <1>5 DEF Delivery, LiveCover
  <2>2. ToSet(pending[s]) = {}
    BY <2>1 DEF ToSet
  <2> QED
    BY <1>3, <1>4, <1>5, <2>1, <2>2
<1>6. CASE ~ready[s]
  <2>1. stage[s] \in {"ready", "history", "activate"}
    <3>1. stage[s] \in Stages /\ stage[s] \notin {"new", "refused"} /\ stage[s] # "live"
      BY <1>1, <1>6 DEF Types, SocketInv, Unborn, LiveTasks
    <3>2. stage[s] # "done"
      BY <1>2 DEF Delivery, Released
    <3> QED
      BY <3>1, <3>2 DEF Stages
  <2>2. /\ Waiting(s) = {}
        /\ ToSet(aimed[s]) = Sent(s) \cup ToSet(pending[s]) \cup ({inflight[s]} \ {0})
    BY <1>1, <1>6, <2>1, InitializingCover
  <2> QED
    BY <1>3, <1>4, <1>6, <1>7, <2>2
<1> QED
  BY <1>5, <1>6

\* Until its request gives a socket up, every broadcast that selected it is on
\* the wire once, queued, being written, the work of one task, or was cut off
\* when the unshielded task that broadcast it was cancelled: broadcast, activate
\* and the senders of websocket_manager.py repeat none and lose no other, and
\* none of a handshake queue, for any number of sockets, rooms, events and
\* cancellations and any limits.
THEOREM NothingLost == Spec => []NothingDropped
<1>1. Init => DeliveryInv /\ CutInv
  BY InitDelivers, InitCut
<1>2. Inv /\ Inv' /\ CutInv /\ DeliveryInv /\ [Next]_vars => DeliveryInv' /\ CutInv'
  BY NextDelivers, NextCut
<1>3. Inv /\ CutInv /\ DeliveryInv => NothingDropped
  BY DropsNothing
<1> QED
  BY <1>1, <1>2, <1>3, ManagerInvariance, PTL DEF Spec

-----------------------------------------------------------------------------
(* The byte budget.  Sums over finite sets come first.  The provers cannot *)
(* instantiate the induction theorems of the library, which take an        *)
(* operator: induction over a finite set is stated with a set instead, as  *)
(* the choice of a smallest counterexample (Minimal).                      *)

\* The sum of f[x] for the x of S.
SumOver(f, S) == MapThenSumSet(LAMBDA x : f[x], S)

\* A nonempty family of subsets of a finite set has a smallest member.
LEMMA Minimal ==
    ASSUME NEW S, IsFiniteSet(S), NEW Out \in SUBSET SUBSET S, Out # {}
    PROVE  \E T \in Out : \A V \in Out : V \subseteq T => V = T
<1>1. Out \subseteq FiniteSubsetsOf(S)
  BY FS_Subset DEF FiniteSubsetsOf
<1>2. PICK T \in Out : \A V \in Out : <<V, T>> \notin StrictSubsetOrdering(S)
  BY <1>1, WFMin, FS_StrictSubsetOrderingWellFounded
<1>3. \A V \in Out : V \subseteq T => V = T
  BY <1>2 DEF StrictSubsetOrdering
<1> QED BY <1>3

\* it is a solution of the recursion with which a fold sums f over S.
Iterates(it, f, S) ==
    it = [s \in SUBSET S |->
            IF s = {} THEN 0
            ELSE f[CHOOSE x \in s : TRUE] + it[s \ {CHOOSE x \in s : TRUE}]]

\* The sum is the value at S of the recursion of MapThenFoldSet.
LEMMA SumIterates ==
    ASSUME NEW f, NEW S
    PROVE  SumOver(f, S) = (CHOOSE it : Iterates(it, f, S))[S]
BY DEF SumOver, MapThenSumSet, MapThenFoldSet, Iterates

\* Two solutions agree wherever both are defined.
LEMMA IteratesAgree ==
    ASSUME NEW f, NEW S, NEW T, NEW a, NEW b, IsFiniteSet(S),
           Iterates(a, f, S), Iterates(b, f, T)
    PROVE  \A s \in (SUBSET S) \cap SUBSET T : a[s] = b[s]
<1> DEFINE Out == {s \in (SUBSET S) \cap SUBSET T : a[s] # b[s]}
<1> SUFFICES ASSUME Out # {} PROVE FALSE
  OBVIOUS
<1>1. PICK s \in Out : \A v \in Out : v \subseteq s => v = s
  <2>1. Out \in SUBSET SUBSET S
    OBVIOUS
  <2> HIDE DEF Out
  <2> QED BY <2>1, Minimal
<1> DEFINE c == CHOOSE x \in s : TRUE
<1>2. s # {}
  BY DEF Iterates
<1>3. c \in s
  BY <1>2
<1> HIDE DEF c
<1>4. s \ {c} \in (SUBSET S) \cap SUBSET T /\ s \ {c} \notin Out
  BY <1>1, <1>3
<1>5. a[s \ {c}] = b[s \ {c}]
  BY <1>4
<1>6. a[s] = f[c] + a[s \ {c}] /\ b[s] = f[c] + b[s \ {c}]
  <2>1. s \in SUBSET S /\ s \in SUBSET T
    BY <1>1
  <2> HIDE DEF Out
  <2>2. a[s] = f[c] + a[s \ {c}]
    BY <1>2, <2>1 DEF Iterates, c
  <2>3. b[s] = f[c] + b[s \ {c}]
    BY <1>2, <2>1 DEF Iterates, c
  <2> QED BY <2>2, <2>3
<1> QED BY <1>1, <1>5, <1>6

\* The recursion has a solution over any finite set.
LEMMA IteratesExist ==
    ASSUME NEW f, NEW S, IsFiniteSet(S)
    PROVE  \E it : Iterates(it, f, S)
<1> DEFINE Out == {T \in SUBSET S : ~ \E it : Iterates(it, f, T)}
<1> SUFFICES ASSUME Out # {} PROVE FALSE
  OBVIOUS
<1>1. PICK T \in Out : \A V \in Out : V \subseteq T => V = T
  <2>1. Out \in SUBSET SUBSET S
    OBVIOUS
  <2> HIDE DEF Out
  <2> QED BY <2>1, Minimal
<1> DEFINE c(s) == CHOOSE x \in s : TRUE
           g(V) == CHOOSE it : Iterates(it, f, V)
           it == [s \in SUBSET T |-> IF s = {} THEN 0
                                     ELSE f[c(s)] + g(s \ {c(s)})[s \ {c(s)}]]
<1>2. \A s : s # {} => c(s) \in s
  OBVIOUS
<1> HIDE DEF c
<1>3. ASSUME NEW V \in SUBSET T, V # T PROVE Iterates(g(V), f, V)
  BY <1>1, <1>3
<1> HIDE DEF g
<1>4. ASSUME NEW V \in SUBSET T, V # T PROVE it[V] = g(V)[V]
  <2>1. CASE V = {}
    BY <1>3, <1>4, <2>1 DEF Iterates
  <2>2. CASE V # {}
    <3> DEFINE U == V \ {c(V)}
    <3>1. U \in SUBSET T /\ U # T /\ U \in SUBSET V /\ IsFiniteSet(U)
      BY <1>2, <2>2, FS_Subset
    <3>2. Iterates(g(U), f, U) /\ Iterates(g(V), f, V)
      BY <1>3, <1>4, <3>1
    <3>3. g(U)[U] = g(V)[U]
      <4>1. U \in (SUBSET U) \cap SUBSET V
        BY <3>1
      <4> HIDE DEF U
      <4> QED BY <3>1, <3>2, <4>1, IteratesAgree
    <3>4. g(V)[V] = f[c(V)] + g(V)[U]
      BY <3>2, <2>2 DEF Iterates, c
    <3>5. it[V] = f[c(V)] + g(U)[U]
      BY <2>2
    <3> QED BY <3>3, <3>4, <3>5
  <2> QED BY <2>1, <2>2
<1>5. ASSUME NEW s \in SUBSET T, s # {} PROVE it[s] = f[c(s)] + it[s \ {c(s)}]
  <2>1. s \ {c(s)} \in SUBSET T /\ s \ {c(s)} # T
    BY <1>2, <1>5
  <2>2. it[s \ {c(s)}] = g(s \ {c(s)})[s \ {c(s)}]
    BY <1>4, <2>1
  <2>3. it[s] = f[c(s)] + g(s \ {c(s)})[s \ {c(s)}]
    BY <1>5
  <2> QED BY <2>2, <2>3
<1>6. it[{}] = 0 /\ DOMAIN it = SUBSET T /\ it = [s \in SUBSET T |-> it[s]]
  OBVIOUS
<1> HIDE DEF it
<1>7. Iterates(it, f, T)
  BY <1>5, <1>6 DEF Iterates, c
<1> QED BY <1>1, <1>7

\* One turn of the fold.
LEMMA SumChosen ==
    ASSUME NEW f, NEW S, IsFiniteSet(S)
    PROVE  /\ S = {} => SumOver(f, S) = 0
           /\ S # {} => \E x \in S : SumOver(f, S) = f[x] + SumOver(f, S \ {x})
<1> DEFINE g(V) == CHOOSE it : Iterates(it, f, V)
<1>1. \A V \in SUBSET S : Iterates(g(V), f, V)
  BY IteratesExist, FS_Subset
<1>2. \A V \in SUBSET S : SumOver(f, V) = g(V)[V]
  BY SumIterates
<1> HIDE DEF g
<1>3. CASE S = {}
  BY <1>1, <1>2, <1>3 DEF Iterates
<1>4. CASE S # {}
  <2> DEFINE c == CHOOSE x \in S : TRUE
  <2>1. c \in S
    BY <1>4
  <2>2. g(S)[S] = f[c] + g(S)[S \ {c}]
    BY <1>1, <1>4 DEF Iterates
  <2> HIDE DEF c
  <2>3. g(S)[S \ {c}] = g(S \ {c})[S \ {c}]
    <3>1. Iterates(g(S), f, S) /\ Iterates(g(S \ {c}), f, S \ {c})
      BY <1>1
    <3>2. S \ {c} \in (SUBSET S) \cap SUBSET (S \ {c})
      OBVIOUS
    <3> QED BY <3>1, <3>2, IteratesAgree
  <2> QED BY <1>2, <1>4, <2>1, <2>2, <2>3
<1> QED BY <1>3, <1>4

\* A sum of integers is an integer.
LEMMA SumType ==
    ASSUME NEW f, NEW S, IsFiniteSet(S), \A x \in S : f[x] \in Int
    PROVE  SumOver(f, S) \in Int
<1> DEFINE Out == {T \in SUBSET S : SumOver(f, T) \notin Int}
<1> SUFFICES ASSUME Out # {} PROVE FALSE
  OBVIOUS
<1>1. PICK T \in Out : \A V \in Out : V \subseteq T => V = T
  <2>1. Out \in SUBSET SUBSET S
    OBVIOUS
  <2> HIDE DEF Out
  <2> QED BY <2>1, Minimal
<1>2. T \in SUBSET S /\ IsFiniteSet(T)
  BY <1>1, FS_Subset
<1>3. CASE T = {}
  BY <1>1, <1>2, <1>3, SumChosen
<1>4. CASE T # {}
  <2>1. PICK x \in T : SumOver(f, T) = f[x] + SumOver(f, T \ {x})
    BY <1>2, <1>4, SumChosen
  <2>2. SumOver(f, T \ {x}) \in Int
    BY <1>1, <1>2, <2>1
  <2> QED BY <1>1, <1>2, <2>1, <2>2
<1> QED BY <1>3, <1>4

\* Any element may be taken out of a sum, whichever the fold takes first.
LEMMA SumStep ==
    ASSUME NEW f, NEW S, IsFiniteSet(S), \A x \in S : f[x] \in Int, NEW x \in S
    PROVE  SumOver(f, S) = f[x] + SumOver(f, S \ {x})
<1> DEFINE Out == {T \in SUBSET S : \E y \in T : SumOver(f, T) # f[y] + SumOver(f, T \ {y})}
<1> SUFFICES ASSUME Out # {} PROVE FALSE
  OBVIOUS
<1>1. PICK T \in Out : \A V \in Out : V \subseteq T => V = T
  <2>1. Out \in SUBSET SUBSET S
    OBVIOUS
  <2> HIDE DEF Out
  <2> QED BY <2>1, Minimal
<1>2. T \in SUBSET S /\ IsFiniteSet(T)
  BY <1>1, FS_Subset
<1>3. PICK y \in T : SumOver(f, T) # f[y] + SumOver(f, T \ {y})
  BY <1>1
<1>4. PICK z \in T : SumOver(f, T) = f[z] + SumOver(f, T \ {z})
  BY <1>2, <1>3, SumChosen
<1>5. y # z
  BY <1>3, <1>4
<1>6. SumOver(f, T \ {z}) = f[y] + SumOver(f, (T \ {z}) \ {y})
  <2>1. T \ {z} \in SUBSET S /\ T \ {z} \notin Out /\ y \in T \ {z}
    BY <1>1, <1>2, <1>4, <1>5
  <2> QED BY <2>1
<1>7. SumOver(f, T \ {y}) = f[z] + SumOver(f, (T \ {y}) \ {z})
  <2>1. T \ {y} \in SUBSET S /\ T \ {y} \notin Out /\ z \in T \ {y}
    BY <1>1, <1>2, <1>4, <1>5
  <2> QED BY <2>1
<1>8. (T \ {z}) \ {y} = (T \ {y}) \ {z}
  OBVIOUS
<1>9. SumOver(f, (T \ {y}) \ {z}) \in Int /\ f[y] \in Int /\ f[z] \in Int
  <2>1. IsFiniteSet((T \ {y}) \ {z})
    BY <1>2, FS_Subset
  <2>2. \A u \in (T \ {y}) \ {z} : f[u] \in Int
    BY <1>2
  <2> HIDE DEF Out
  <2> QED BY <1>2, <2>1, <2>2, SumType
<1> HIDE DEF Out
<1>10. SumOver(f, T) = f[y] + SumOver(f, T \ {y})
  <2> DEFINE u == SumOver(f, (T \ {y}) \ {z})
             a == f[y]
             b == f[z]
  <2>1. u \in Int /\ a \in Int /\ b \in Int
    BY <1>9
  <2>2. SumOver(f, T) = b + (a + u) /\ a + SumOver(f, T \ {y}) = a + (b + u)
    BY <1>4, <1>6, <1>7, <1>8
  <2> HIDE DEF u, a, b
  <2>3. b + (a + u) = a + (b + u)
    BY <2>1
  <2> QED BY <2>2, <2>3 DEF a
<1> QED BY <1>3, <1>10

\* The empty sum is 0.
LEMMA SumEmpty ==
    ASSUME NEW f
    PROVE  SumOver(f, {}) = 0
BY SumChosen, FS_EmptySet

\* Equal terms have equal sums.
LEMMA SumAgree ==
    ASSUME NEW f, NEW g, NEW S, IsFiniteSet(S), \A x \in S : f[x] \in Int /\ f[x] = g[x]
    PROVE  SumOver(f, S) = SumOver(g, S)
<1> DEFINE Out == {T \in SUBSET S : SumOver(f, T) # SumOver(g, T)}
<1> SUFFICES ASSUME Out # {} PROVE FALSE
  OBVIOUS
<1>1. PICK T \in Out : \A V \in Out : V \subseteq T => V = T
  <2>1. Out \in SUBSET SUBSET S
    OBVIOUS
  <2> HIDE DEF Out
  <2> QED BY <2>1, Minimal
<1>2. T \in SUBSET S /\ IsFiniteSet(T)
  BY <1>1, FS_Subset
<1>3. T # {}
  BY <1>1, SumEmpty
<1>4. PICK x \in T : TRUE
  BY <1>3
<1>5. SumOver(f, T \ {x}) = SumOver(g, T \ {x})
  BY <1>1, <1>2, <1>4
<1>6. SumOver(f, T) = f[x] + SumOver(f, T \ {x}) /\ SumOver(g, T) = g[x] + SumOver(g, T \ {x})
  <2>1. \A y \in T : f[y] \in Int /\ g[y] \in Int
    BY <1>2
  <2> HIDE DEF Out
  <2> QED BY <1>2, <1>4, <2>1, SumStep
<1> QED BY <1>1, <1>2, <1>5, <1>6

\* A sum of natural numbers is one.
LEMMA SumNatural ==
    ASSUME NEW f, NEW S, IsFiniteSet(S), \A x \in S : f[x] \in Nat
    PROVE  SumOver(f, S) \in Nat
<1> DEFINE Out == {T \in SUBSET S : SumOver(f, T) \notin Nat}
<1> SUFFICES ASSUME Out # {} PROVE FALSE
  OBVIOUS
<1>1. PICK T \in Out : \A V \in Out : V \subseteq T => V = T
  <2>1. Out \in SUBSET SUBSET S
    OBVIOUS
  <2> HIDE DEF Out
  <2> QED BY <2>1, Minimal
<1>2. T \in SUBSET S /\ IsFiniteSet(T)
  BY <1>1, FS_Subset
<1>3. CASE T = {}
  BY <1>1, <1>2, <1>3, SumChosen
<1>4. CASE T # {}
  <2>1. PICK x \in T : SumOver(f, T) = f[x] + SumOver(f, T \ {x})
    BY <1>2, <1>4, SumChosen
  <2>2. SumOver(f, T \ {x}) \in Nat
    BY <1>1, <1>2, <2>1
  <2> QED BY <1>1, <1>2, <2>1, <2>2
<1> QED BY <1>3, <1>4

\* One term of a sum changes.
LEMMA SumChange ==
    ASSUME NEW f, NEW g, NEW S, IsFiniteSet(S), NEW s \in S,
           \A x \in S : f[x] \in Int /\ g[x] \in Int,
           \A x \in S \ {s} : f[x] = g[x]
    PROVE  SumOver(g, S) = SumOver(f, S) - f[s] + g[s]
<1>1. IsFiniteSet(S \ {s})
  BY FS_Subset
<1>2. SumOver(f, S \ {s}) = SumOver(g, S \ {s}) /\ SumOver(f, S \ {s}) \in Int
  BY <1>1, SumAgree, SumType
<1>3. SumOver(f, S) = f[s] + SumOver(f, S \ {s}) /\ SumOver(g, S) = g[s] + SumOver(g, S \ {s})
  BY SumStep
<1> QED BY <1>2, <1>3

\* The terms of W change, by h.
LEMMA SumLess ==
    ASSUME NEW f, NEW g, NEW h, NEW S, NEW W \in SUBSET S, IsFiniteSet(S),
           \A x \in S : f[x] \in Int /\ g[x] \in Int,
           \A x \in W : h[x] = f[x] - g[x],
           \A x \in S \ W : g[x] = f[x]
    PROVE  SumOver(g, S) = SumOver(f, S) - SumOver(h, W)
<1> DEFINE m(V) == [x \in S |-> IF x \in V THEN g[x] ELSE f[x]]
           Out == {V \in SUBSET W : SumOver(m(V), S) # SumOver(f, S) - SumOver(h, V)}
<1>1. \A V : \A x \in S : m(V)[x] \in Int
  OBVIOUS
<1>2. SumOver(m(W), S) = SumOver(f, S) - SumOver(h, W)
  <2> SUFFICES ASSUME Out # {} PROVE FALSE
    OBVIOUS
  <2>1. PICK V \in Out : \A U \in Out : U \subseteq V => U = V
    <3>1. Out \in SUBSET SUBSET S
      OBVIOUS
    <3> HIDE DEF Out
    <3> QED BY <3>1, Minimal
  <2>2. V \in SUBSET W /\ IsFiniteSet(V) /\ SumOver(m(V), S) # SumOver(f, S) - SumOver(h, V)
    BY <2>1, FS_Subset
  <2>3. \A x \in W : h[x] \in Int
    OBVIOUS
  <2>4. SumOver(f, S) \in Int
    BY SumType
  <2>5. V # {}
    <3>1. SumOver(m({}), S) = SumOver(f, S)
      <4>1. \A x \in S : f[x] = m({})[x]
        OBVIOUS
      <4> HIDE DEF m
      <4> QED BY <1>1, <4>1, SumAgree
    <3> QED BY <2>2, <2>4, <3>1, SumEmpty
  <2>6. PICK x \in V : TRUE
    BY <2>5
  <2>7. SumOver(m(V \ {x}), S) = SumOver(f, S) - SumOver(h, V \ {x})
    BY <2>1, <2>2, <2>6
  <2>8. SumOver(m(V), S) = SumOver(m(V \ {x}), S) - f[x] + g[x]
    <3>1. \A y \in S \ {x} : m(V \ {x})[y] = m(V)[y]
      OBVIOUS
    <3>2. m(V \ {x})[x] = f[x] /\ m(V)[x] = g[x] /\ x \in S
      BY <2>2, <2>6
    <3>3. \A y \in S : m(V \ {x})[y] \in Int /\ m(V)[y] \in Int
      BY <1>1
    <3>4. SumOver(m(V), S) = SumOver(m(V \ {x}), S) - m(V \ {x})[x] + m(V)[x]
      <4> DEFINE before == m(V \ {x})
                 after == m(V)
      <4>1. \A y \in S : before[y] \in Int /\ after[y] \in Int
        BY <3>3
      <4>2. \A y \in S \ {x} : before[y] = after[y]
        BY <3>1
      <4> HIDE DEF before, after
      <4>3. SumOver(after, S) = SumOver(before, S) - before[x] + after[x]
        BY <3>2, <4>1, <4>2, SumChange
      <4> QED BY <4>3 DEF before, after
    <3> QED BY <3>2, <3>4
  <2>9. SumOver(h, V) = h[x] + SumOver(h, V \ {x}) /\ SumOver(h, V \ {x}) \in Int
    <3>1. IsFiniteSet(V \ {x}) /\ \A y \in V : h[y] \in Int
      BY <2>2, <2>3, FS_Subset
    <3> HIDE DEF m
    <3> QED BY <2>2, <3>1, SumStep, SumType
  <2>10. h[x] = f[x] - g[x] /\ f[x] \in Int /\ g[x] \in Int
    BY <2>2, <2>6
  <2> HIDE DEF m, Out
  <2> QED BY <2>2, <2>4, <2>7, <2>8, <2>9, <2>10
<1>3. SumOver(m(W), S) = SumOver(g, S)
  <2>1. \A x \in S : m(W)[x] = g[x]
    OBVIOUS
  <2> HIDE DEF m
  <2> QED BY <1>1, <2>1, SumAgree
<1> QED BY <1>2, <1>3

\* A sum over positions does not change when the positions move by one.
LEMMA SumShift ==
    ASSUME NEW f, NEW g, NEW n \in Nat,
           \A i \in 1..n : g[i] \in Int /\ g[i] = f[i + 1]
    PROVE  SumOver(g, 1..n) = SumOver(f, 2..(n + 1))
<1> DEFINE up(T) == {i + 1 : i \in T}
           Out == {T \in SUBSET (1..n) : SumOver(g, T) # SumOver(f, up(T))}
<1>1. up(1..n) = 2..(n + 1)
  <2>1. \A j \in 2..(n + 1) : j - 1 \in 1..n /\ j = (j - 1) + 1
    OBVIOUS
  <2> QED BY <2>1
<1>2. IsFiniteSet(1..n) /\ IsFiniteSet(2..(n + 1))
  BY FS_Interval
<1> SUFFICES ASSUME Out # {} PROVE FALSE
  BY <1>1
<1>3. PICK T \in Out : \A V \in Out : V \subseteq T => V = T
  <2> DEFINE D == 1..n
  <2>1. Out \in SUBSET SUBSET D /\ IsFiniteSet(D)
    BY <1>2
  <2> HIDE DEF Out, D
  <2> QED BY <2>1, Minimal
<1>4. T \in SUBSET (1..n) /\ IsFiniteSet(T) /\ SumOver(g, T) # SumOver(f, up(T))
  BY <1>2, <1>3, FS_Subset
<1>5. IsFiniteSet(up(T)) /\ \A j \in up(T) : f[j] \in Int
  <2>1. up(T) \in SUBSET (2..(n + 1))
    BY <1>4
  <2>2. IsFiniteSet(up(T))
    <3> HIDE DEF up
    <3> QED BY <1>2, <2>1, FS_Subset
  <2> QED BY <1>4, <2>2
<1>6. T # {}
  <2>1. up({}) = {}
    OBVIOUS
  <2> HIDE DEF up
  <2> QED BY <1>4, <2>1, SumEmpty
<1>7. PICK x \in T : TRUE
  BY <1>6
<1>8. SumOver(g, T \ {x}) = SumOver(f, up(T \ {x}))
  <2>1. T \ {x} \in SUBSET (1..n) /\ T \ {x} \notin Out
    BY <1>3, <1>4, <1>7
  <2> QED BY <2>1
<1>9. up(T) \ {x + 1} = up(T \ {x}) /\ x + 1 \in up(T)
  BY <1>4, <1>7
<1>10. SumOver(g, T) = g[x] + SumOver(g, T \ {x})
  <2>1. \A i \in T : g[i] \in Int
    BY <1>4
  <2>2. IsFiniteSet(T) /\ x \in T
    BY <1>4, <1>7
  <2> HIDE DEF up, Out
  <2> QED BY <2>1, <2>2, SumStep
<1>11. SumOver(f, up(T)) = f[x + 1] + SumOver(f, up(T) \ {x + 1})
  <2> HIDE DEF up, Out
  <2> QED BY <1>5, <1>9, SumStep
<1>12. g[x] = f[x + 1]
  BY <1>4, <1>7
<1> HIDE DEF up, Out
<1> QED BY <1>4, <1>8, <1>9, <1>10, <1>11, <1>12

\* The sizes of the events of a queue.
Weights(q) == [i \in DOMAIN q |-> SizeOf[q[i]]]

\* QueueBytes is the sum of the sizes over the positions of the queue.
LEMMA BytesAreSum ==
    ASSUME NEW q
    PROVE  QueueBytes(q) = SumOver(Weights(q), DOMAIN q)
BY DEF Weights, SumOver, MapThenSumSet, MapThenFoldSet, QueueBytes, FoldSeq, FoldFunction, FoldFunctionOnSet

\* The sizes of a queue are natural numbers.
LEMMA WeightsType ==
    ASSUME NEW q \in Seq(Events)
    PROVE  /\ DOMAIN q = 1..Len(q) /\ IsFiniteSet(1..Len(q)) /\ Len(q) \in Nat
           /\ \A i \in 1..Len(q) : Weights(q)[i] = SizeOf[q[i]] /\ Weights(q)[i] \in Nat
<1>1. DOMAIN q = 1..Len(q) /\ Len(q) \in Nat /\ \A i \in 1..Len(q) : q[i] \in Events
  OBVIOUS
<1> QED BY <1>1, FS_Interval, ConstantsAssumption DEF Weights

\* An empty queue holds no byte.
LEMMA BytesEmpty == QueueBytes(<<>>) = 0
<1>1. DOMAIN <<>> = {}
  OBVIOUS
<1> QED BY <1>1, BytesAreSum, SumEmpty

\* A queue holds a natural number of bytes.
LEMMA BytesNatural ==
    ASSUME NEW q \in Seq(Events)
    PROVE  QueueBytes(q) \in Nat
BY BytesAreSum, WeightsType, SumNatural

\* pending.append adds the size of the event.
LEMMA BytesAppend ==
    ASSUME NEW q \in Seq(Events), NEW e \in Events
    PROVE  QueueBytes(Append(q, e)) = QueueBytes(q) + SizeOf[e]
<1> DEFINE r == Append(q, e)
           n == Len(q)
<1>1. r \in Seq(Events) /\ Len(r) = n + 1 /\ r[n + 1] = e /\ \A i \in 1..n : r[i] = q[i]
  OBVIOUS
<1>2. n \in Nat /\ (1..(n + 1)) \ {n + 1} = 1..n /\ n + 1 \in 1..(n + 1)
  OBVIOUS
<1> HIDE DEF r, n
<1>3. SumOver(Weights(r), 1..(n + 1)) = Weights(r)[n + 1] + SumOver(Weights(r), 1..n)
  <2> DEFINE D == 1..(n + 1)
             w == Weights(r)
             k == n + 1
  <2>1. IsFiniteSet(D) /\ k \in D /\ D \ {k} = 1..n /\ \A i \in D : w[i] \in Int
    BY <1>1, <1>2, WeightsType
  <2> HIDE DEF D, w, k
  <2>2. SumOver(w, D) = w[k] + SumOver(w, D \ {k})
    BY <2>1, SumStep
  <2> QED BY <2>1, <2>2 DEF D, w, k
<1>4. SumOver(Weights(r), 1..n) = SumOver(Weights(q), 1..n)
  <2>1. IsFiniteSet(1..n) /\ \A i \in 1..n : Weights(r)[i] \in Int /\ Weights(r)[i] = Weights(q)[i]
    BY <1>1, <1>2, WeightsType DEF n
  <2> QED BY <2>1, SumAgree
<1>5. Weights(r)[n + 1] = SizeOf[e] /\ SizeOf[e] \in Nat
  BY <1>1, <1>2, WeightsType, ConstantsAssumption
<1>6. QueueBytes(r) = SumOver(Weights(r), 1..(n + 1)) /\ QueueBytes(q) = SumOver(Weights(q), 1..n)
  BY <1>1, BytesAreSum, WeightsType DEF n
<1>7. QueueBytes(q) \in Nat
  BY BytesNatural
<1> QED BY <1>3, <1>4, <1>5, <1>6, <1>7 DEF r

\* pending.popleft takes the size of the oldest event away.
LEMMA BytesTake ==
    ASSUME NEW q \in Seq(Events), q # <<>>
    PROVE  /\ QueueBytes(q) = SizeOf[Head(q)] + QueueBytes(Tail(q))
           /\ QueueBytes(Tail(q)) \in Nat /\ SizeOf[Head(q)] \in Nat
<1> DEFINE t == Tail(q)
           n == Len(t)
<1>1. /\ t \in Seq(Events) /\ n \in Nat /\ Len(q) = n + 1 /\ Head(q) = q[1] /\ q[1] \in Events
      /\ \A i \in 1..n : t[i] = q[i + 1]
  OBVIOUS
<1>2. (1..(n + 1)) \ {1} = 2..(n + 1) /\ 1 \in 1..(n + 1)
  BY <1>1
<1> HIDE DEF t, n
<1>3. SumOver(Weights(q), 1..(n + 1)) = Weights(q)[1] + SumOver(Weights(q), 2..(n + 1))
  <2> DEFINE D == 1..(n + 1)
             w == Weights(q)
  <2>1. IsFiniteSet(D) /\ 1 \in D /\ D \ {1} = 2..(n + 1) /\ \A i \in D : w[i] \in Int
    BY <1>1, <1>2, WeightsType
  <2> HIDE DEF D, w
  <2>2. SumOver(w, D) = w[1] + SumOver(w, D \ {1})
    BY <2>1, SumStep
  <2> QED BY <2>1, <2>2 DEF D, w
<1>4. SumOver(Weights(t), 1..n) = SumOver(Weights(q), 2..(n + 1))
  <2>1. \A i \in 1..n : Weights(t)[i] \in Int /\ Weights(t)[i] = SizeOf[t[i]]
    BY <1>1, WeightsType DEF n
  <2>2. ASSUME NEW i \in 1..n
        PROVE  Weights(q)[i + 1] = SizeOf[q[i + 1]]
    <3>1. i + 1 \in 1..Len(q)
      BY <1>1
    <3> QED BY <3>1, WeightsType
  <2>3. \A i \in 1..n : Weights(t)[i] \in Int /\ Weights(t)[i] = Weights(q)[i + 1]
    BY <1>1, <2>1, <2>2
  <2> DEFINE w == Weights(q)
             v == Weights(t)
  <2>4. \A i \in 1..n : v[i] \in Int /\ v[i] = w[i + 1]
    BY <2>3
  <2> HIDE DEF w, v
  <2>5. SumOver(v, 1..n) = SumOver(w, 2..(n + 1))
    BY <1>1, <2>4, SumShift
  <2> QED BY <2>5 DEF w, v
<1>5. Weights(q)[1] = SizeOf[Head(q)] /\ SizeOf[Head(q)] \in Nat
  <2>1. 1 \in 1..Len(q) /\ SizeOf[q[1]] \in Nat
    BY <1>1, ConstantsAssumption
  <2>2. Weights(q)[1] = SizeOf[q[1]]
    BY <2>1, WeightsType
  <2> QED BY <1>1, <2>1, <2>2
<1>6. QueueBytes(q) = SumOver(Weights(q), 1..(n + 1)) /\ QueueBytes(t) = SumOver(Weights(t), 1..n)
  BY <1>1, BytesAreSum, WeightsType DEF n
<1>7. QueueBytes(t) \in Nat
  BY <1>1, BytesNatural
<1> QED BY <1>3, <1>4, <1>5, <1>6, <1>7 DEF t

\* Induction over 0..N, for a set of numbers.
LEMMA Counting ==
    ASSUME NEW N \in Nat, NEW U \in SUBSET (0..N), 0 \in U,
           \A k \in U : k < N => k + 1 \in U
    PROVE  U = 0..N
<1> DEFINE D == 1..N
           Out == {1..k : k \in (0..N) \ U}
<1> SUFFICES ASSUME Out # {} PROVE FALSE
  OBVIOUS
<1>1. Out \in SUBSET SUBSET D /\ IsFiniteSet(D)
  <2>1. \A k \in 0..N : 1..k \in SUBSET (1..N)
    OBVIOUS
  <2>2. \A V \in Out : V \in SUBSET (1..N)
    BY <2>1
  <2>3. IsFiniteSet(1..N)
    BY FS_Interval
  <2> HIDE DEF Out
  <2> QED BY <2>2, <2>3
<1>2. PICK T \in Out : \A V \in Out : V \subseteq T => V = T
  <2> HIDE DEF Out, D
  <2> QED BY <1>1, Minimal
<1>3. PICK k \in (0..N) \ U : T = 1..k
  OBVIOUS
<1>4. k - 1 \in 0..N /\ k - 1 < N /\ (k - 1) + 1 = k
  BY <1>3
<1>5. k - 1 \notin U
  BY <1>3, <1>4
<1>6. 1..(k - 1) \in Out
  BY <1>4, <1>5
<1>7. 1..(k - 1) \subseteq T /\ k \in T /\ k \notin 1..(k - 1)
  BY <1>3, <1>4
<1> QED BY <1>2, <1>6, <1>7

\* One turn of the loop of broadcast, from the shared budget b.
Spent(s, e, b) ==
    IF Overflows(s, e, b) THEN b - (bytes[s] - Retained(s)) ELSE b + SizeOf[e]

\* tot is the shared budget after each of the first n turns.
Runs(tot, order, e, n) ==
    tot = [k \in 0..n |-> IF k = 0 THEN total ELSE Spent(order[k], e, tot[k - 1])]

\* The loop has a result, however many turns it takes.
LEMMA BudgetExists ==
    ASSUME NEW order, NEW e, NEW N \in Nat
    PROVE  \E tot : Runs(tot, order, e, N)
<1> DEFINE run(n, tot) == Runs(tot, order, e, n)
           U == {n \in 0..N : \E tot : run(n, tot)}
<1>1. 0 \in U
  <2> DEFINE t == [k \in 0..0 |-> total]
  <2>1. t = [k \in 0..0 |-> t[k]] /\ \A k \in 0..0 : k = 0 /\ t[k] = total
    OBVIOUS
  <2> HIDE DEF t
  <2>2. run(0, t)
    BY <2>1 DEF Runs
  <2> QED BY <2>2
<1>2. ASSUME NEW n \in U, n < N PROVE n + 1 \in U
  <2>1. PICK tot : run(n, tot)
    OBVIOUS
  <2> DEFINE t == [k \in 0..(n + 1) |-> IF k = n + 1 THEN Spent(order[k], e, tot[n]) ELSE tot[k]]
  <2>2. n \in Nat /\ n + 1 \in 0..N
    BY <1>2
  <2>3. ASSUME NEW k \in 0..(n + 1)
        PROVE  t[k] = IF k = 0 THEN total ELSE Spent(order[k], e, t[k - 1])
    <3>1. CASE k = n + 1
      <4>1. t[k] = Spent(order[k], e, tot[n]) /\ k # 0 /\ k - 1 = n /\ n # n + 1 /\ n \in 0..(n + 1)
        BY <2>2, <3>1
      <4>2. t[k - 1] = tot[n]
        BY <4>1
      <4> QED BY <4>1, <4>2
    <3>2. CASE k # n + 1
      <4>1. k \in 0..n /\ t[k] = tot[k]
        BY <2>2, <3>2
      <4>2. tot[k] = IF k = 0 THEN total ELSE Spent(order[k], e, tot[k - 1])
        BY <2>1, <4>1 DEF Runs
      <4>3. k # 0 => k - 1 \in 0..(n + 1) /\ k - 1 # n + 1
        BY <2>2, <4>1
      <4>4. k # 0 => t[k - 1] = tot[k - 1]
        BY <4>3
      <4> QED BY <4>1, <4>2, <4>4
    <3> QED BY <3>1, <3>2
  <2>4. t = [k \in 0..(n + 1) |-> t[k]]
    OBVIOUS
  <2> HIDE DEF t
  <2>5. run(n + 1, t)
    BY <2>3, <2>4 DEF Runs
  <2> QED BY <2>2, <2>5
<1>3. U = 0..N
  <2>1. U \in SUBSET (0..N) /\ \A n \in U : n < N => n + 1 \in U
    BY <1>2
  <2> HIDE DEF U
  <2> QED BY <1>1, <2>1, Counting
<1>4. N \in U
  <2>1. N \in 0..N
    OBVIOUS
  <2> HIDE DEF U
  <2> QED BY <1>3, <2>1
<1> QED BY <1>4

\* Budget is the loop of broadcast, turn by turn.
LEMMA BudgetRuns ==
    ASSUME NEW order, NEW e, Len(order) \in Nat
    PROVE  /\ Budget(order, e)[0] = total
           /\ \A k \in 1..Len(order) :
                 Budget(order, e)[k] = Spent(order[k], e, Budget(order, e)[k - 1])
<1> DEFINE N == Len(order)
           is(tot) == Runs(tot, order, e, N)
<1>1. Budget(order, e) = CHOOSE tot : is(tot)
  BY DEF Budget, Spent, Runs
<1>2. \E tot : is(tot)
  BY BudgetExists
<1> HIDE DEF N
<1>3. is(Budget(order, e))
  <2> HIDE DEF is
  <2> QED BY <1>1, <1>2
<1>4. N \in Nat
  BY DEF N
<1> DEFINE b == Budget(order, e)
<1>5. b = [k \in 0..N |-> IF k = 0 THEN total ELSE Spent(order[k], e, b[k - 1])]
  BY <1>3 DEF Runs
<1> HIDE DEF b, is
<1>6. b[0] = total
  BY <1>4, <1>5
<1>7. \A k \in 1..N : b[k] = Spent(order[k], e, b[k - 1])
  BY <1>4, <1>5
<1> QED BY <1>6, <1>7 DEF b, N

\* BudgetExact and LimitsHold for one socket.
Book(s) ==
    /\ bytes[s] = QueueBytes(pending[s]) + Charge(inflight[s])
    /\ bytes[s] <= MaxPendingBytes
    /\ Len(pending[s]) + (IF inflight[s] # 0 THEN 1 ELSE 0) <= MaxPendingEvents

\* The budget: what each socket is charged, and their sum.
Books ==
    /\ bytes \in [Sockets -> Nat]
    /\ total = SumOver(bytes, Sockets) /\ total <= MaxTotalBytes
    /\ \A s \in Sockets : Book(s)

\* Books says what the two properties say.
LEMMA BooksExact == Books => BudgetExact /\ LimitsHold
BY DEF Books, Book, BudgetExact, LimitsHold, SumOver

\* A step that touches no queue and no counter keeps the books.
LEMMA BooksSame ==
    ASSUME Books, UNCHANGED <<pending, inflight, bytes, total>>
    PROVE  Books'
BY DEF Books, Book

\* The types of what a socket is charged for.
LEMMA ChargeNatural ==
    ASSUME Inv, NEW s \in Sockets
    PROVE  /\ Charge(inflight[s]) \in Nat /\ Retained(s) = Charge(inflight[s])
           /\ QueueBytes(pending[s]) \in Nat /\ pending[s] \in Seq(Events)
           /\ Len(pending[s]) \in Nat
<1>1. pending[s] \in Seq(Events) /\ inflight[s] \in 0..MaxEvents
  BY DEF Inv, Types
<1> QED BY <1>1, BytesNatural, ConstantsAssumption DEF Charge, Retained, Events

\* The refund of _discard_pending as a sum of the differences.
LEMMA RefundSum ==
    ASSUME NEW W
    PROVE  MapThenSumSet(LAMBDA s : bytes[s] - Retained(s), W)
             = SumOver([s \in W |-> bytes[s] - Retained(s)], W)
BY DEF SumOver, MapThenSumSet, MapThenFoldSet

\* Detaching drops the queues and refunds all but the payloads being written.
LEMMA DetachBooks ==
    ASSUME Inv, Books, NEW S, NEW kind, DetachAll(S, kind), UNCHANGED inflight
    PROVE  Books'
<1> DEFINE W == Winners(S)
           h == [s \in W |-> bytes[s] - Retained(s)]
<1>1. /\ pending' = [s \in Sockets |-> IF s \in W THEN <<>> ELSE pending[s]]
      /\ bytes' = [s \in Sockets |-> IF s \in W THEN Retained(s) ELSE bytes[s]]
      /\ total' = total - SumOver(h, W)
  BY RefundSum DEF DetachAll, DiscardPending
<1>2. W \in SUBSET Sockets /\ IsFiniteSet(W) /\ IsFiniteSet(Sockets)
  BY FS_Subset, ConstantsAssumption DEF Winners, Inv, Types
<1> HIDE DEF W
<1>3. ASSUME NEW s \in Sockets
      PROVE  /\ bytes[s] \in Nat /\ Retained(s) \in Nat /\ bytes[s] - Retained(s) \in Nat
             /\ Book(s)'
  <2>1. Book(s) /\ bytes[s] \in Nat
    BY DEF Books
  <2>2. /\ Charge(inflight[s]) \in Nat /\ Retained(s) = Charge(inflight[s])
        /\ QueueBytes(pending[s]) \in Nat /\ Len(pending[s]) \in Nat
    BY ChargeNatural
  <2>3. Charge(inflight'[s]) = Charge(inflight[s])
    BY DEF Charge
  <2>4. ASSUME s \in W PROVE Book(s)'
    <3>1. pending'[s] = <<>> /\ bytes'[s] = Charge(inflight[s]) /\ Len(<<>>) = 0
      BY <1>1, <2>2, <2>4
    <3> QED BY <2>1, <2>2, <2>3, <3>1, BytesEmpty, ConstantsAssumption DEF Book, Charge
  <2>5. ASSUME s \notin W PROVE Book(s)'
    <3>1. pending'[s] = pending[s] /\ bytes'[s] = bytes[s] /\ inflight'[s] = inflight[s]
      BY <1>1, <2>5
    <3> QED BY <2>1, <3>1 DEF Book
  <2>6. bytes[s] - Retained(s) \in Nat
    BY <2>1, <2>2 DEF Book
  <2> QED BY <2>1, <2>2, <2>4, <2>5, <2>6
<1>4. bytes' \in [Sockets -> Nat]
  BY <1>1, <1>3
<1>5. SumOver(bytes', Sockets) = SumOver(bytes, Sockets) - SumOver(h, W)
  <2>1. \A s \in Sockets : bytes[s] \in Int /\ bytes'[s] \in Int
    BY <1>3, <1>4
  <2>2. \A s \in W : h[s] = bytes[s] - bytes'[s]
    BY <1>1, <1>2
  <2>3. \A s \in Sockets \ W : bytes'[s] = bytes[s]
    BY <1>1
  <2> HIDE DEF h
  <2> QED BY <1>2, <2>1, <2>2, <2>3, SumLess
<1>6. SumOver(h, W) \in Nat /\ SumOver(bytes, Sockets) \in Nat
  <2>1. \A s \in W : h[s] \in Nat
    BY <1>2, <1>3
  <2> HIDE DEF h
  <2> QED BY <1>2, <1>3, <2>1, SumNatural
<1>7. total' = SumOver(bytes', Sockets) /\ total' <= MaxTotalBytes
  BY <1>1, <1>5, <1>6, ConstantsAssumption DEF Books
<1> QED BY <1>3, <1>4, <1>7 DEF Books

\* The finally block of _activate gives back exactly what was being written.
LEMMA RefundBooks ==
    ASSUME Inv, Books, NEW s \in Sockets, NEW ok, Refund(s, ok), UNCHANGED pending
    PROVE  Books'
<1> DEFINE c == Charge(inflight[s])
<1>1. /\ inflight' = [inflight EXCEPT ![s] = 0]
      /\ bytes' = [bytes EXCEPT ![s] = @ - c]
      /\ total' = total - c
  BY DEF Refund
<1>2. /\ Book(s) /\ bytes[s] \in Nat /\ QueueBytes(pending[s]) \in Nat /\ c \in Nat
      /\ Len(pending[s]) \in Nat
  BY ChargeNatural DEF Books
<1> HIDE DEF c
<1>3. bytes[s] - c \in Nat /\ bytes[s] - c = QueueBytes(pending[s])
  BY <1>2 DEF Book, c
<1>4. bytes' \in [Sockets -> Nat]
  BY <1>1, <1>3 DEF Books
<1>5. ASSUME NEW t \in Sockets PROVE Book(t)'
  <2>1. CASE t = s
    <3>1. bytes'[t] = bytes[s] - c /\ inflight'[t] = 0 /\ pending'[t] = pending[s]
      BY <1>1, <2>1 DEF Books, Inv, Types
    <3>2. Charge(0) = 0
      BY DEF Charge
    <3>3. bytes'[t] = QueueBytes(pending'[t]) + Charge(inflight'[t])
      BY <1>2, <1>3, <3>1, <3>2
    <3>4. bytes'[t] <= MaxPendingBytes
      BY <1>2, <1>3, <3>1, ConstantsAssumption DEF Book
    <3>5. Len(pending'[t]) + (IF inflight'[t] # 0 THEN 1 ELSE 0) <= MaxPendingEvents
      <4>1. Len(pending[s]) <= MaxPendingEvents
        <5>1. Len(pending[s]) + (IF inflight[s] # 0 THEN 1 ELSE 0) <= MaxPendingEvents
          BY <1>2 DEF Book
        <5>2. CASE inflight[s] = 0
          <6>1. Len(pending[s]) + 0 <= MaxPendingEvents
            BY <5>1, <5>2
          <6> QED BY <1>2, <6>1
        <5>3. CASE inflight[s] # 0
          <6>1. Len(pending[s]) + 1 <= MaxPendingEvents
            BY <5>1, <5>3
          <6> QED BY <1>2, <6>1, ConstantsAssumption
        <5> QED BY <5>2, <5>3
      <4>2. Len(pending'[t]) + 0 <= MaxPendingEvents
        BY <1>2, <3>1, <4>1
      <4> QED BY <3>1, <4>2
    <3> QED BY <3>3, <3>4, <3>5 DEF Book
  <2>2. CASE t # s
    <3>1. bytes'[t] = bytes[t] /\ inflight'[t] = inflight[t] /\ Book(t)
      BY <1>1, <2>2 DEF Books, Inv, Types
    <3> QED BY <3>1 DEF Book, Charge
  <2> QED BY <2>1, <2>2
<1>6. SumOver(bytes', Sockets) = SumOver(bytes, Sockets) - bytes[s] + bytes'[s]
  <2>1. \A t \in Sockets : bytes[t] \in Int /\ bytes'[t] \in Int
    BY <1>4 DEF Books
  <2>2. \A t \in Sockets \ {s} : bytes[t] = bytes'[t]
    BY <1>1 DEF Books
  <2> QED BY <2>1, <2>2, SumChange, ConstantsAssumption
<1>7. SumOver(bytes, Sockets) \in Nat
  BY SumNatural, ConstantsAssumption DEF Books
<1>8. bytes'[s] = bytes[s] - c
  BY <1>1 DEF Books
<1>9. total' = SumOver(bytes', Sockets) /\ total' <= MaxTotalBytes
  BY <1>1, <1>2, <1>6, <1>7, <1>8, ConstantsAssumption DEF Books
<1> QED BY <1>4, <1>5, <1>9 DEF Books

\* pending.popleft moves a payload from the queue to inflight, and its charge
\* stays.
LEMMA TakeBooks ==
    ASSUME Inv, Books, NEW s \in Sockets, inflight[s] = 0, pending[s] # <<>>,
           inflight' = [inflight EXCEPT ![s] = PopLeft(pending[s])[1]],
           pending' = [pending EXCEPT ![s] = PopLeft(pending[s])[2]],
           UNCHANGED <<bytes, total>>
    PROVE  Books'
<1> DEFINE q == pending[s]
<1>1. q \in Seq(Events) /\ q # <<>> /\ PopLeft(q)[1] = Head(q) /\ PopLeft(q)[2] = Tail(q)
  BY ChargeNatural DEF PopLeft
<1>2. Head(q) \in Events /\ Len(Tail(q)) = Len(q) - 1 /\ Len(q) \in Nat /\ Len(q) # 0
  BY <1>1
<1>3. Book(s)'
  <2>1. Book(s) /\ bytes[s] \in Nat
    BY DEF Books
  <2>2. inflight'[s] = Head(q) /\ pending'[s] = Tail(q)
    BY <1>1 DEF Inv, Types
  <2>3. Head(q) # 0 /\ Charge(Head(q)) = SizeOf[Head(q)] /\ Charge(0) = 0
    BY <1>2, ConstantsAssumption DEF Events, Charge
  <2>4. /\ QueueBytes(q) = SizeOf[Head(q)] + QueueBytes(Tail(q))
        /\ QueueBytes(Tail(q)) \in Nat /\ SizeOf[Head(q)] \in Nat
    BY <1>1, BytesTake
  <2> HIDE DEF q
  <2>5. bytes[s] = QueueBytes(q) + Charge(0) /\ Len(q) + 0 <= MaxPendingEvents
    BY <2>1 DEF Book, q
  <2>6. bytes'[s] = QueueBytes(pending'[s]) + Charge(inflight'[s])
    <3>1. bytes'[s] = (SizeOf[Head(q)] + QueueBytes(Tail(q))) + 0
      BY <2>3, <2>4, <2>5
    <3>2. QueueBytes(pending'[s]) = QueueBytes(Tail(q)) /\ Charge(inflight'[s]) = SizeOf[Head(q)]
      BY <2>2, <2>3
    <3> HIDE DEF q
    <3> QED BY <2>4, <3>1, <3>2
  <2>7. Len(pending'[s]) + (IF inflight'[s] # 0 THEN 1 ELSE 0) <= MaxPendingEvents
    <3>1. Len(pending'[s]) = Len(q) - 1 /\ (IF inflight'[s] # 0 THEN 1 ELSE 0) = 1
      BY <1>2, <2>2, <2>3 DEF q
    <3>2. Len(q) \in Nat
      BY <1>2 DEF q
    <3>3. Len(q) <= MaxPendingEvents
      BY <2>5, <3>2
    <3>4. (Len(q) - 1) + 1 <= MaxPendingEvents
      BY <3>2, <3>3
    <3> QED BY <3>1, <3>4
  <2> QED BY <2>1, <2>6, <2>7 DEF Book, Charge
<1>4. ASSUME NEW t \in Sockets, t # s PROVE Book(t)'
  <2>1. inflight'[t] = inflight[t] /\ pending'[t] = pending[t] /\ Book(t)
    BY <1>4 DEF Inv, Types, Books
  <2> QED BY <2>1 DEF Book, Charge
<1> QED BY <1>3, <1>4 DEF Books

\* An iteration order visits each socket of the set once.
LEMMA OrderCovers ==
    ASSUME NEW Q, IsFiniteSet(Q), NEW order \in SetToSeqs(Q)
    PROVE  /\ Len(order) \in Nat /\ Len(order) = Cardinality(Q) /\ DOMAIN order = 1..Len(order)
           /\ \A j \in 1..Len(order) : order[j] \in Q
           /\ \A i, j \in 1..Len(order) : order[i] = order[j] => i = j
           /\ \A s \in Q : \E j \in 1..Len(order) : order[j] = s
<1> DEFINE n == Cardinality(Q)
           D == 1..n
<1>1. n \in Nat
  BY FS_CardinalityType
<1>2. order \in [D -> Q] /\ \A i, j \in D : i # j => order[i] # order[j]
  BY DEF SetToSeqs
<1>3. IsFiniteSet(D) /\ Cardinality(D) = Cardinality(Q)
  BY <1>1, FS_Interval
<1>4. order \in Seq(Q) /\ Len(order) = n
  BY <1>1, <1>2
<1>5. order \in Injection(D, Q)
  BY <1>2 DEF Injection, IsInjective
<1>6. order \in Surjection(D, Q)
  <2> HIDE DEF D
  <2> QED BY <1>3, <1>5, FS_Injection
<1>7. \A s \in Q : \E j \in D : order[j] = s
  BY <1>6 DEF Surjection
<1> QED BY <1>1, <1>2, <1>4, <1>7

\* After k turns of the loop of broadcast the shared budget is the sum of the
\* charges, of which the first k sockets have their new ones, and it is within
\* its limit.
LEMMA BroadcastTotal ==
    ASSUME Inv, Books, NEW Q \in SUBSET Sockets, NEW order \in SetToSeqs(Q),
           NEW e \in Events,
           bytes' = [s \in Sockets |->
                       IF s \in Overflowing(order, e) THEN Retained(s)
                       ELSE IF s \in Q \ Overflowing(order, e) THEN bytes[s] + SizeOf[e]
                       ELSE bytes[s]]
    PROVE  /\ Budget(order, e)[Len(order)] = SumOver(bytes', Sockets)
           /\ Budget(order, e)[Len(order)] <= MaxTotalBytes
<1> DEFINE N == Len(order)
           b == Budget(order, e)
           over == Overflowing(order, e)
           new(s) == IF s \in over THEN Retained(s) ELSE bytes[s] + SizeOf[e]
           m(k) == [s \in Sockets |-> IF \E j \in 1..k : order[j] = s THEN new(s) ELSE bytes[s]]
           U == {k \in 0..N : b[k] = SumOver(m(k), Sockets) /\ b[k] <= MaxTotalBytes}
<1>1. IsFiniteSet(Sockets) /\ IsFiniteSet(Q)
  BY FS_Subset, ConstantsAssumption
<1>2. /\ N \in Nat /\ DOMAIN order = 1..N
      /\ \A j \in 1..N : order[j] \in Q
      /\ \A i, j \in 1..N : order[i] = order[j] => i = j
      /\ \A s \in Q : \E j \in 1..N : order[j] = s
  BY <1>1, OrderCovers
<1>3. b[0] = total /\ \A k \in 1..N : b[k] = Spent(order[k], e, b[k - 1])
  BY <1>2, BudgetRuns
<1>4. \A j \in 1..N : order[j] \in over <=> Overflows(order[j], e, b[j - 1])
  <2>1. over = {order[k] : k \in {j \in 1..N : Overflows(order[j], e, b[j - 1])}}
    BY <1>2 DEF Overflowing
  <2> HIDE DEF over, b, N
  <2> QED BY <1>2, <2>1
<1>5. \A s \in Sockets : /\ bytes[s] \in Nat /\ Retained(s) \in Nat /\ SizeOf[e] \in Nat
                         /\ bytes[s] - Retained(s) \in Nat
  <2> TAKE s \in Sockets
  <2>1. /\ bytes[s] \in Nat /\ Charge(inflight[s]) \in Nat /\ Retained(s) = Charge(inflight[s])
        /\ QueueBytes(pending[s]) \in Nat /\ Book(s)
    BY ChargeNatural DEF Books
  <2> QED BY <2>1, ConstantsAssumption DEF Book
<1> HIDE DEF over, b, N
<1>6. \A k \in 0..N : \A s \in Sockets : m(k)[s] \in Int
  BY <1>5
<1>7. 0 \in U
  <2>1. \A s \in Sockets : bytes[s] = m(0)[s] /\ bytes[s] \in Int
    BY <1>5
  <2> HIDE DEF m
  <2>2. SumOver(bytes, Sockets) = SumOver(m(0), Sockets)
    BY <1>1, <2>1, SumAgree
  <2> QED BY <1>2, <1>3, <2>2 DEF Books
<1>8. ASSUME NEW k \in U, k < N PROVE k + 1 \in U
  <2> DEFINE s == order[k + 1]
             before == m(k)
             after == m(k + 1)
  <2>1. k \in 0..N /\ k \in Nat /\ k + 1 \in 1..N /\ (k + 1) - 1 = k /\ s \in Sockets
    BY <1>2, <1>8
  <2>2. before[s] = bytes[s] /\ after[s] = new(s)
    <3>1. ~ \E j \in 1..k : order[j] = s
      BY <1>2, <2>1
    <3>2. \E j \in 1..(k + 1) : order[j] = s
      BY <2>1
    <3> HIDE DEF s, new
    <3> QED BY <2>1, <3>1, <3>2
  <2>3. \A t \in Sockets \ {s} : before[t] = after[t]
    <3> TAKE t \in Sockets \ {s}
    <3>1. (\E j \in 1..k : order[j] = t) <=> (\E j \in 1..(k + 1) : order[j] = t)
      BY <2>1
    <3> HIDE DEF s, new
    <3> QED BY <3>1
  <2>4. \A t \in Sockets : before[t] \in Int /\ after[t] \in Int
    BY <1>6, <2>1
  <2>5. SumOver(after, Sockets) = SumOver(before, Sockets) - bytes[s] + new(s)
    <3> HIDE DEF before, after, s, new, m
    <3> QED BY <1>1, <2>1, <2>2, <2>3, <2>4, SumChange
  <2>6. b[k] = SumOver(before, Sockets) /\ b[k] <= MaxTotalBytes /\ b[k] \in Int
    <3>1. b[k] = SumOver(before, Sockets) /\ b[k] <= MaxTotalBytes
      OBVIOUS
    <3> HIDE DEF before
    <3> QED BY <1>1, <2>4, <3>1, SumType
  <2>7. b[k + 1] = Spent(s, e, b[k])
    BY <1>3, <2>1
  <2>8. s \in over <=> Overflows(s, e, b[k])
    BY <1>4, <2>1
  <2>9. /\ bytes[s] \in Nat /\ Retained(s) \in Nat /\ SizeOf[e] \in Nat
        /\ bytes[s] - Retained(s) \in Nat
    BY <1>5, <2>1
  <2>10. b[k + 1] = SumOver(after, Sockets) /\ b[k + 1] <= MaxTotalBytes
    <3>1. CASE s \in over
      <4>1. b[k + 1] = b[k] - (bytes[s] - Retained(s)) /\ new(s) = Retained(s)
        BY <2>7, <2>8, <3>1 DEF Spent
      <4> HIDE DEF s, new, before, after
      <4> QED BY <2>5, <2>6, <2>9, <4>1, ConstantsAssumption
    <3>2. CASE s \notin over
      <4>1. b[k + 1] = b[k] + SizeOf[e] /\ new(s) = bytes[s] + SizeOf[e]
        BY <2>7, <2>8, <3>2 DEF Spent
      <4>2. b[k] + SizeOf[e] <= MaxTotalBytes
        <5>1. ~ (b[k] + SizeOf[e] > MaxTotalBytes)
          BY <2>8, <3>2 DEF Overflows
        <5> HIDE DEF s, before
        <5> QED BY <2>6, <2>9, <5>1, ConstantsAssumption
      <4> HIDE DEF s, new, before, after
      <4> QED BY <2>5, <2>6, <2>9, <4>1, <4>2
    <3> QED BY <3>1, <3>2
  <2> HIDE DEF m, new, s
  <2> QED BY <2>1, <2>10
<1>9. U = 0..N
  <2>1. U \in SUBSET (0..N) /\ \A k \in U : k < N => k + 1 \in U
    BY <1>8
  <2> HIDE DEF U
  <2> QED BY <1>2, <1>7, <2>1, Counting
<1>10. b[N] = SumOver(m(N), Sockets) /\ b[N] <= MaxTotalBytes
  <2>1. N \in U
    <3> HIDE DEF U
    <3> QED BY <1>2, <1>9
  <2> HIDE DEF m
  <2> QED BY <2>1
<1>11. \A s \in Sockets : m(N)[s] = bytes'[s]
  <2> TAKE s \in Sockets
  <2>1. (\E j \in 1..N : order[j] = s) <=> s \in Q
    BY <1>2
  <2>2. s \in over => s \in Q
    <3>1. over \subseteq Q
      BY <1>2 DEF over, Overflowing, N
    <3> QED BY <3>1
  <2>3. bytes'[s] = IF s \in over THEN Retained(s)
                    ELSE IF s \in Q \ over THEN bytes[s] + SizeOf[e] ELSE bytes[s]
    BY DEF over
  <2> QED BY <2>1, <2>2, <2>3
<1>12. SumOver(m(N), Sockets) = SumOver(bytes', Sockets)
  <2>1. \A s \in Sockets : m(N)[s] \in Int
    BY <1>2, <1>6
  <2> HIDE DEF m
  <2> QED BY <1>1, <1>11, <2>1, SumAgree
<1> HIDE DEF m
<1> QED BY <1>10, <1>12 DEF b, N

\* broadcast charges each queued copy once and keeps within the three limits.
LEMMA BroadcastBooks ==
    ASSUME Inv, Books, NEW r, NEW skip, Broadcast(r, skip)
    PROVE  Books'
<1> DEFINE e == nextEvent
           peers == InRoom(r) \ skip
           Q == peers \ {s \in peers : IsLive(s)}
<1>1. e <= MaxEvents /\ inflight' = inflight
  BY DEF Broadcast
<1>2. PICK order \in SetToSeqs(Q) :
         /\ pending' = [s \in Sockets |->
                          IF s \in Overflowing(order, e) THEN <<>>
                          ELSE IF s \in Q \ Overflowing(order, e) THEN Append(pending[s], e)
                          ELSE pending[s]]
         /\ bytes' = [s \in Sockets |->
                        IF s \in Overflowing(order, e) THEN Retained(s)
                        ELSE IF s \in Q \ Overflowing(order, e) THEN bytes[s] + SizeOf[e]
                        ELSE bytes[s]]
         /\ total' = Budget(order, e)[Len(order)]
  BY DEF Broadcast
<1>3. Q \in SUBSET Sockets /\ IsFiniteSet(Q)
  <2>1. Q \in SUBSET Sockets
    BY DEF InRoom, Inv, Types
  <2> HIDE DEF Q
  <2> QED BY <2>1, FS_Subset, ConstantsAssumption
<1>4. e \in Events
  BY <1>1, ConstantsAssumption DEF Inv, Types, Events
<1> HIDE DEF Q, e
<1> DEFINE over == Overflowing(order, e)
<1>5. total' = SumOver(bytes', Sockets) /\ total' <= MaxTotalBytes
  BY <1>2, <1>3, <1>4, BroadcastTotal
<1>6. ASSUME NEW s \in Sockets PROVE bytes'[s] \in Nat /\ Book(s)'
  <2>1. /\ Book(s) /\ bytes[s] \in Nat /\ SizeOf[e] \in Nat
        /\ Charge(inflight[s]) \in Nat /\ Retained(s) = Charge(inflight[s])
        /\ QueueBytes(pending[s]) \in Nat /\ pending[s] \in Seq(Events)
        /\ Len(pending[s]) \in Nat
    BY <1>4, ChargeNatural, ConstantsAssumption DEF Books
  <2>2. inflight'[s] = inflight[s]
    BY <1>1
  <2>3. ASSUME s \in over PROVE bytes'[s] \in Nat /\ Book(s)'
    <3>1. pending'[s] = <<>> /\ bytes'[s] = Charge(inflight[s]) /\ Len(<<>>) = 0
      BY <1>2, <2>1, <2>3
    <3>2. bytes'[s] \in Nat
      BY <2>1, <3>1
    <3> QED BY <2>1, <2>2, <3>1, <3>2, BytesEmpty, ConstantsAssumption DEF Book
  <2>4. ASSUME s \notin over, s \notin Q PROVE bytes'[s] \in Nat /\ Book(s)'
    <3>1. pending'[s] = pending[s] /\ bytes'[s] = bytes[s]
      BY <1>2, <2>4
    <3>2. Book(s)'
      BY <2>1, <2>2, <3>1 DEF Book
    <3> QED BY <2>1, <3>1, <3>2
  <2>5. ASSUME s \in Q, s \notin over PROVE bytes'[s] \in Nat /\ Book(s)'
    <3>1. pending'[s] = Append(pending[s], e) /\ bytes'[s] = bytes[s] + SizeOf[e]
      BY <1>2, <2>5
    <3>2. PICK j \in 1..Len(order) : order[j] = s
      BY <1>2, <1>3, <2>5, OrderCovers
    <3>3. ~ Overflows(s, e, Budget(order, e)[j - 1])
      <4>1. DOMAIN order = 1..Len(order)
        BY <1>2, <1>3, OrderCovers
      <4> QED BY <2>5, <3>2, <4>1 DEF Overflowing
    <3>4. /\ ~ (Len(pending[s]) + (IF inflight[s] # 0 THEN 1 ELSE 0) >= MaxPendingEvents)
          /\ ~ (bytes[s] + SizeOf[e] > MaxPendingBytes)
      BY <3>3 DEF Overflows
    <3>5. bytes'[s] \in Nat /\ bytes'[s] <= MaxPendingBytes
      BY <2>1, <3>1, <3>4, ConstantsAssumption
    <3>6. Len(pending'[s]) + (IF inflight'[s] # 0 THEN 1 ELSE 0) <= MaxPendingEvents
      <4>1. Len(pending'[s]) = Len(pending[s]) + 1
        BY <1>4, <2>1, <3>1
      <4>2. CASE inflight[s] # 0
        <5>1. ~ (Len(pending[s]) + 1 >= MaxPendingEvents)
          BY <3>4, <4>2
        <5>2. (Len(pending[s]) + 1) + 1 <= MaxPendingEvents
          BY <2>1, <5>1, ConstantsAssumption
        <5> QED BY <2>2, <4>1, <4>2, <5>2
      <4>3. CASE inflight[s] = 0
        <5>1. ~ (Len(pending[s]) + 0 >= MaxPendingEvents)
          BY <3>4, <4>3
        <5>2. (Len(pending[s]) + 1) + 0 <= MaxPendingEvents
          BY <2>1, <5>1, ConstantsAssumption
        <5> QED BY <2>2, <4>1, <4>3, <5>2
      <4> QED BY <4>2, <4>3
    <3>7. bytes'[s] = QueueBytes(pending'[s]) + Charge(inflight'[s])
      <4>1. QueueBytes(pending'[s]) = QueueBytes(pending[s]) + SizeOf[e]
        BY <1>4, <2>1, <3>1, BytesAppend
      <4>2. bytes[s] = QueueBytes(pending[s]) + Charge(inflight[s])
        BY <2>1 DEF Book
      <4>3. Charge(inflight'[s]) = Charge(inflight[s])
        BY <2>2
      <4> QED BY <2>1, <3>1, <4>1, <4>2, <4>3
    <3> QED BY <3>5, <3>6, <3>7 DEF Book
  <2> QED BY <2>3, <2>4, <2>5
<1>7. bytes' \in [Sockets -> Nat]
  <2>1. DOMAIN bytes' = Sockets /\ bytes' = [s \in Sockets |-> bytes'[s]]
    BY <1>2
  <2> QED BY <1>6, <2>1
<1> QED BY <1>5, <1>6, <1>7 DEF Books

\* Nothing is charged at first.
LEMMA InitBooks ==
    ASSUME Init
    PROVE  Books
<1>1. bytes = [s \in Sockets |-> 0] /\ total = 0 /\ IsFiniteSet(Sockets)
  BY ConstantsAssumption DEF Init
<1>2. SumOver(bytes, Sockets) = 0
  <2>1. \A s \in Sockets : bytes[s] \in Int /\ bytes[s] = bytes[s] - bytes[s]
    BY <1>1
  <2>2. SumOver(bytes, Sockets) = SumOver(bytes, Sockets) - SumOver(bytes, Sockets)
    BY <1>1, <2>1, SumLess
  <2>3. SumOver(bytes, Sockets) \in Int
    BY <1>1, <2>1, SumType
  <2> QED BY <2>2, <2>3
<1>3. ASSUME NEW s \in Sockets PROVE Book(s)
  <2>1. pending[s] = <<>> /\ inflight[s] = 0 /\ bytes[s] = 0 /\ Charge(0) = 0 /\ Len(<<>>) = 0
    BY DEF Init, Charge
  <2> QED BY <2>1, BytesEmpty, ConstantsAssumption DEF Book
<1> QED BY <1>1, <1>2, <1>3, ConstantsAssumption DEF Books

\* A turn of _activate: nothing was being written when the lock was granted, so
\* the payload it takes is the only one.
LEMMA GrantActivateBooks ==
    ASSUME Inv, Books, NEW s \in Sockets, GrantActivate(s)
    PROVE  Books'
<1>1. CASE UNCHANGED <<pending, inflight>>
  BY <1>1, BooksSame DEF GrantActivate
<1>2. CASE /\ StillAttached(s) /\ ~Drained(s)
           /\ inflight' = [inflight EXCEPT ![s] = PopLeft(pending[s])[1]]
           /\ pending' = [pending EXCEPT ![s] = PopLeft(pending[s])[2]]
  <2>1. inflight[s] = 0
    BY DEF GrantActivate, Granted, Inv, SocketInv, Queue, Flushing
  <2>2. pending[s] # <<>> /\ UNCHANGED <<bytes, total>>
    BY <1>2 DEF Drained, GrantActivate
  <2> QED BY <1>2, <2>1, <2>2, TakeBooks
<1> QED BY <1>1, <1>2 DEF GrantActivate

\* The steps of one request and of the tasks of its socket.
LEMMA RequestBooks ==
    ASSUME Inv, Books, NEW s \in Sockets,
           \/ Register(s) \/ Send(s) \/ Activate(s) \/ EndSession(s) \/ Cleanup(s)
           \/ Start(s) \/ GrantSend(s) \/ GrantActivate(s) \/ GrantClose(s)
           \/ CloseEnds(s) \/ LeaseClose(s)
    PROVE  Books'
<1>1. CASE Cleanup(s)
  BY <1>1, DetachBooks DEF Cleanup
<1>2. CASE LeaseClose(s)
  BY <1>2, DetachBooks DEF LeaseClose
<1>3. CASE GrantActivate(s)
  BY <1>3, GrantActivateBooks
<1>4. CASE Register(s)
  BY <1>4, BooksSame DEF Register
<1>5. CASE Send(s) \/ Activate(s) \/ EndSession(s)
  BY <1>5, BooksSame DEF Send, Activate, EndSession, queueVars
<1>6. CASE Start(s) \/ GrantSend(s) \/ GrantClose(s) \/ CloseEnds(s)
  BY <1>6, BooksSame DEF Start, GrantSend, GrantClose, CloseEnds, queueVars
<1> QED BY <1>1, <1>2, <1>3, <1>4, <1>5, <1>6

\* Every step keeps the books.
LEMMA NextBooks ==
    ASSUME Inv, Books, [Next]_vars
    PROVE  Books'
<1>1. ASSUME NEW s \in Sockets,
             \/ Register(s) \/ Send(s) \/ Activate(s) \/ EndSession(s) \/ Cleanup(s)
             \/ Start(s) \/ GrantSend(s) \/ GrantActivate(s) \/ GrantClose(s)
             \/ CloseEnds(s) \/ LeaseClose(s)
      PROVE  Books'
  BY <1>1, RequestBooks
<1>2. ASSUME NEW s \in Sockets, NEW reached \in BOOLEAN,
             \/ NoticeEnds(s, reached) \/ Deadline(s, reached) \/ Cancel(s, reached)
             \/ SendCancelled(s, reached)
      PROVE  Books'
  <2>1. CASE NoticeEnds(s, reached)
    BY <2>1, BooksSame DEF NoticeEnds, queueVars
  <2>2. CASE Deadline(s, reached) \/ Cancel(s, reached)
    BY <2>2, RefundBooks DEF Deadline, Cancel, Withdraw
  <2>3. CASE SendCancelled(s, reached)
    BY <2>3, BooksSame DEF SendCancelled, queueVars
  <2> QED BY <1>2, <2>1, <2>2, <2>3
<1>3. ASSUME NEW s \in Sockets, NEW reached \in BOOLEAN, NEW ok \in BOOLEAN,
             SendEnds(s, ok, reached) \/ DirectEnds(s, ok, reached) \/ FlushEnds(s, ok, reached)
      PROVE  Books'
  <2>1. CASE SendEnds(s, ok, reached)
    BY <2>1, DetachBooks DEF SendEnds
  <2>2. CASE DirectEnds(s, ok, reached)
    BY <2>2, DetachBooks DEF DirectEnds
  <2>3. CASE FlushEnds(s, ok, reached)
    BY <2>3, RefundBooks DEF FlushEnds
  <2> QED BY <1>3, <2>1, <2>2, <2>3
<1>4. ASSUME NEW r, NEW skip, Broadcast(r, skip)
      PROVE  Books'
  BY <1>4, BroadcastBooks
<1>5. ASSUME NEW r, NEW who, CloseRoom(r, who)
      PROVE  Books'
  BY <1>5, DetachBooks DEF CloseRoom
<1>6. CASE CloseAll
  BY <1>6, DetachBooks DEF CloseAll
<1>7. CASE UNCHANGED vars
  BY <1>7, BooksSame DEF vars, queueVars
<1>8. ASSUME NEW e \in Events, CancelCaller(e)
      PROVE  Books'
  BY <1>8, BooksSame DEF CancelCaller, queueVars
<1> QED
  BY <1>1, <1>2, <1>3, <1>4, <1>5, <1>6, <1>7, <1>8 DEF Next

\* _pending_bytes is exactly the size of the payloads retained by the handshake
\* queues and by the writes of activations, whatever order broadcasts,
\* activations, failures, cancellations and detachments come in: the finally
\* block of _activate and _discard_pending refund every byte, and none twice.
THEOREM BudgetIsExact == Spec => []BudgetExact
<1>1. Init => Books
  BY InitBooks
<1>2. Inv /\ Books /\ [Next]_vars => Books'
  BY NextBooks
<1>3. Books => BudgetExact
  BY BooksExact
<1> QED
  BY <1>1, <1>2, <1>3, ManagerInvariance, PTL DEF Spec

\* No handshake queue grows past max_pending_events or max_pending_bytes, and
\* all of them together never past max_total_pending_bytes, although broadcast
\* charges the sockets of a room one after the other and a payload being
\* written stays charged after its socket is detached.
THEOREM LimitsAreKept == Spec => []LimitsHold
<1>1. Init => Books
  BY InitBooks
<1>2. Inv /\ Books /\ [Next]_vars => Books'
  BY NextBooks
<1>3. Books => LimitsHold
  BY BooksExact
<1> QED
  BY <1>1, <1>2, <1>3, ManagerInvariance, PTL DEF Spec
=============================================================================
