------------------------- MODULE RoomSessionProofs -------------------------
(***************************************************************************)
(* A session that is closed stays quiet, one that says it is connected is  *)
(* synchronized, and it retries within its budget, however the             *)
(* application and its listeners call into it, as long as no listener      *)
(* closes while failAttempt publishes the timeline.                        *)
(***************************************************************************)
EXTENDS RoomSession, TLAPS

Kinds == {"handshake", "reconnect", "stable"}

Frame ==
  [do : {"listen", "opened", "close", "fail", "activate", "activated", "events"}, arg : Nat]

Session ==
  [state : {"idle", "connecting", "connected", "reconnecting", "closed"}, generation : Nat,
   manuallyClosed : BOOLEAN, phase : {"opening", "ready", "history", "active"}, attempts : Nat,
   pending : BOOLEAN, socket : Nat, timers : SUBSET (Kinds \X Nat), handle : [Kinds -> Nat],
   status : {"empty", "stale", "synchronizing", "synchronized"}, items : BOOLEAN,
   synced : BOOLEAN, stack : Seq(Frame)]

-----------------------------------------------------------------------------
(* Stacks.                                                                 *)

\* A frame of this kind is on the stack, or one with this argument.
Has(s, do) == \E i \in 1 .. Len(s) : s[i].do = do
On(s, do, g) == \E i \in 1 .. Len(s) : s[i].do = do /\ s[i].arg = g

\* Only callbacks fail an attempt or activate one, and they start at rest.
Bottom(s) == \A i \in 1 .. Len(s) : s[i].do \in {"fail", "activated"} => i = Len(s)

LEMMA EmptyStack ==
  /\ <<>> \in Seq(Frame) /\ Bottom(<<>>)
  /\ \A do : ~Has(<<>>, do) /\ \A g : ~On(<<>>, do, g)
BY DEF Has, On, Bottom

LEMMA Pushed ==
  ASSUME NEW s \in Seq(Frame), NEW f \in Frame
  PROVE  /\ <<f>> \o s \in Seq(Frame) /\ <<f>> \o s # <<>>
         /\ \A do : Has(<<f>> \o s, do) <=> f.do = do \/ Has(s, do)
         /\ \A do, g : On(<<f>> \o s, do, g) <=> (f.do = do /\ f.arg = g) \/ On(s, do, g)
         /\ Bottom(s) /\ (s = <<>> \/ f.do \notin {"fail", "activated"}) => Bottom(<<f>> \o s)
<1> DEFINE t == <<f>> \o s
<1>1. t \in Seq(Frame) /\ Len(t) = Len(s) + 1 /\ t[1] = f OBVIOUS
<1>2. \A i \in 1 .. Len(s) : i + 1 \in 1 .. Len(t) /\ t[i + 1] = s[i] OBVIOUS
<1>3. \A i \in 1 .. Len(t) : i = 1 \/ (i - 1 \in 1 .. Len(s) /\ t[i] = s[i - 1]) OBVIOUS
<1>4. 1 \in 1 .. Len(t) /\ t # <<>> BY <1>1
<1> HIDE DEF t
<1>5. \A do : Has(t, do) <=> f.do = do \/ Has(s, do) BY <1>1, <1>2, <1>3, <1>4 DEF Has
<1>6. \A do, g : On(t, do, g) <=> (f.do = do /\ f.arg = g) \/ On(s, do, g)
  BY <1>1, <1>2, <1>3, <1>4, ZenonT(30) DEF On
<1>7. Bottom(s) /\ (s = <<>> \/ f.do \notin {"fail", "activated"}) => Bottom(t)
  <2>1. CASE s = <<>> BY <2>1, <1>1, <1>3 DEF Bottom
  <2>2. CASE f.do \notin {"fail", "activated"} BY <2>2, <1>1, <1>3 DEF Bottom
  <2> QED BY <2>1, <2>2
<1> QED BY <1>1, <1>4, <1>5, <1>6, <1>7 DEF t

LEMMA Popping ==
  ASSUME NEW s \in Seq(Frame), s # <<>>
  PROVE  /\ Tail(s) \in Seq(Frame) /\ Head(s) \in Frame
         /\ \A do : Has(s, do) <=> Head(s).do = do \/ Has(Tail(s), do)
         /\ \A do, g : On(s, do, g) <=> (Head(s).do = do /\ Head(s).arg = g) \/ On(Tail(s), do, g)
         /\ Bottom(s) => Bottom(Tail(s))
         /\ Bottom(s) /\ Head(s).do \in {"fail", "activated"} => Tail(s) = <<>>
<1> DEFINE t == Tail(s)
<1>1. t \in Seq(Frame) /\ Len(s) = Len(t) + 1 /\ Head(s) = s[1] /\ Head(s) \in Frame OBVIOUS
<1>2. \A i \in 1 .. Len(t) : i + 1 \in 1 .. Len(s) /\ s[i + 1] = t[i] OBVIOUS
<1>3. \A i \in 1 .. Len(s) : i = 1 \/ (i - 1 \in 1 .. Len(t) /\ s[i] = t[i - 1]) OBVIOUS
<1>4. 1 \in 1 .. Len(s) /\ (Len(s) = 1 => t = <<>>) BY <1>1
<1> HIDE DEF t
<1>5. \A do : Has(s, do) <=> Head(s).do = do \/ Has(t, do) BY <1>1, <1>2, <1>3, <1>4 DEF Has
<1>6. \A do, g : On(s, do, g) <=> (Head(s).do = do /\ Head(s).arg = g) \/ On(t, do, g)
  BY <1>1, <1>2, <1>3, <1>4 DEF On
<1>7. Bottom(s) => Bottom(t) BY <1>1, <1>2 DEF Bottom
<1>8. Bottom(s) /\ Head(s).do \in {"fail", "activated"} => t = <<>> BY <1>1, <1>4 DEF Bottom
<1> QED BY <1>1, <1>5, <1>6, <1>7, <1>8 DEF t

LEMMA ArgNat ==
  ASSUME NEW x \in Session, NEW do, NEW g, On(x.stack, do, g)
  PROVE  g \in Nat
<1>1. x.stack \in Seq(Frame) BY DEF Session
<1>2. PICK i \in 1 .. Len(x.stack) : x.stack[i].arg = g BY DEF On
<1>3. x.stack[i] \in Frame BY <1>1
<1> QED BY <1>2, <1>3 DEF Frame

-----------------------------------------------------------------------------
(* What the methods do to the fields of the object.                        *)

\* y differs from x at most in the fields F.
Fields ==
  {"state", "generation", "manuallyClosed", "phase", "attempts", "pending", "socket", "timers",
   "handle", "status", "items", "synced", "stack"}
Agree(x, y, F) == \A f \in Fields \ F : y[f] = x[f]

LEMMA ListenShape ==
  ASSUME NEW x \in Session
  PROVE  /\ Listen(x) \in Session /\ Agree(x, Listen(x), {"stack"})
         /\ Listen(x).stack = <<[do |-> "listen", arg |-> 0]>> \o x.stack
BY Pushed DEF Listen, Then, Session, Frame, Agree, Fields

LEMMA StartShape ==
  ASSUME NEW x \in Session, NEW k \in Kinds
  PROVE  /\ Start(x, k) \in Session /\ Agree(x, Start(x, k), {"timers", "handle"})
         /\ Start(x, k).timers = x.timers \cup {<<k, x.generation>>}
         /\ \A j \in Kinds : Start(x, k).handle[j] = IF j = k THEN x.generation ELSE x.handle[j]
<1> DEFINE h == [x.handle EXCEPT ![k] = x.generation]
           ts == x.timers \cup {<<k, x.generation>>}
<1>1. x.generation \in Nat /\ x.handle \in [Kinds -> Nat] /\ x.timers \in SUBSET (Kinds \X Nat)
  BY DEF Session
<1>2. h \in [Kinds -> Nat] /\ \A j \in Kinds : h[j] = IF j = k THEN x.generation ELSE x.handle[j]
  BY <1>1
<1>3. ts \in SUBSET (Kinds \X Nat) BY <1>1
<1>4. Start(x, k) = [x EXCEPT !.timers = ts, !.handle = h] BY DEF Start
<1> HIDE DEF h, ts
<1>5. Start(x, k) \in Session BY <1>2, <1>3, <1>4 DEF Session
<1>6. Start(x, k).timers = ts /\ Start(x, k).handle = h BY <1>4 DEF Session
<1>7. Agree(x, Start(x, k), {"timers", "handle"}) BY <1>4 DEF Session, Agree, Fields
<1> QED BY <1>2, <1>5, <1>6, <1>7 DEF ts


LEMMA ThenShape ==
  ASSUME NEW x \in Session, NEW do, NEW arg, [do |-> do, arg |-> arg] \in Frame
  PROVE  /\ Then(x, do, arg) \in Session /\ Agree(x, Then(x, do, arg), {"stack"})
         /\ \A d : Has(Then(x, do, arg).stack, d) <=> d = do \/ Has(x.stack, d)
         /\ \A d, g : On(Then(x, do, arg).stack, d, g) <=> (d = do /\ g = arg) \/ On(x.stack, d, g)
         /\ Bottom(x.stack) /\ (x.stack = <<>> \/ do \notin {"fail", "activated"}) =>
               Bottom(Then(x, do, arg).stack)
<1> DEFINE f == [do |-> do, arg |-> arg]
           s == <<f>> \o x.stack
<1>1. x.stack \in Seq(Frame) /\ f \in Frame BY DEF Session
<1>2. f.do = do /\ f.arg = arg OBVIOUS
<1>3. Then(x, do, arg) = [x EXCEPT !.stack = s] BY DEF Then
<1>4. s \in Seq(Frame) BY <1>1, Pushed
<1>5. /\ \A d : Has(s, d) <=> f.do = d \/ Has(x.stack, d)
      /\ \A d, g : On(s, d, g) <=> (f.do = d /\ f.arg = g) \/ On(x.stack, d, g)
      /\ Bottom(x.stack) /\ (x.stack = <<>> \/ f.do \notin {"fail", "activated"}) => Bottom(s)
  BY <1>1, Pushed
<1> HIDE DEF f, s
<1>6. Then(x, do, arg) \in Session /\ Agree(x, Then(x, do, arg), {"stack"})
      /\ Then(x, do, arg).stack = s
  BY <1>3, <1>4 DEF Session, Agree, Fields
<1> QED BY <1>2, <1>5, <1>6

LEMMA ClearShape ==
  ASSUME NEW x \in Session, NEW kinds
  PROVE  /\ Clear(x, kinds) \in Session /\ Agree(x, Clear(x, kinds), {"timers", "handle"})
         /\ Clear(x, kinds).timers = {t \in x.timers : t[1] \notin kinds \/ t[2] # x.handle[t[1]]}
         /\ \A j \in Kinds : Clear(x, kinds).handle[j] = IF j \in kinds THEN 0 ELSE x.handle[j]
<1> DEFINE h == Cleared(x, kinds)
           ts == Without(x, kinds)
<1>1. x.handle \in [Kinds -> Nat] /\ x.timers \in SUBSET (Kinds \X Nat) BY DEF Session
<1>2. h \in [Kinds -> Nat] /\ \A j \in Kinds : h[j] = IF j \in kinds THEN 0 ELSE x.handle[j]
  BY <1>1 DEF Cleared
<1>3. ts \in SUBSET (Kinds \X Nat) BY <1>1 DEF Without
<1>4. Clear(x, kinds) = [x EXCEPT !.timers = ts, !.handle = h] BY DEF Clear
<1> HIDE DEF h, ts
<1>5. Clear(x, kinds) \in Session BY <1>2, <1>3, <1>4 DEF Session
<1>6. Clear(x, kinds).timers = ts /\ Clear(x, kinds).handle = h BY <1>4 DEF Session
<1>7. Agree(x, Clear(x, kinds), {"timers", "handle"}) BY <1>4 DEF Session, Agree, Fields
<1> QED BY <1>2, <1>5, <1>6, <1>7 DEF ts, Without

\* After a detachment only the reconnect timer can run.
LEMMA DetachShape ==
  ASSUME NEW x \in Session
  PROVE  /\ DetachAttempt(x) \in Session
         /\ Agree(x, DetachAttempt(x), {"generation", "socket", "timers", "handle"})
         /\ DetachAttempt(x).generation = x.generation + 1 /\ DetachAttempt(x).socket = 0
         /\ DetachAttempt(x).timers =
              {t \in x.timers : t[1] \notin {"handshake", "stable"} \/ t[2] # x.handle[t[1]]}
<1> DEFINE g == x.generation + 1
           y == [x EXCEPT !.generation = g, !.socket = 0]
<1>0. g \in Nat BY DEF Session
<1> HIDE DEF g
<1>1. /\ y \in Session /\ Agree(x, y, {"generation", "socket"})
      /\ y.generation = g /\ y.socket = 0
  BY <1>0 DEF Session, Agree, Fields
<1>2. DetachAttempt(x) = Clear(y, {"handshake", "stable"}) BY DEF DetachAttempt, g
<1> HIDE DEF y
<1>3. DetachAttempt(x) \in Session BY <1>1, <1>2, ClearShape
<1>4. Agree(y, DetachAttempt(x), {"timers", "handle"}) BY <1>1, <1>2, ClearShape
<1>5. DetachAttempt(x).timers =
        {t \in y.timers : t[1] \notin {"handshake", "stable"} \/ t[2] # y.handle[t[1]]}
  BY <1>1, <1>2, ClearShape
<1> QED BY <1>1, <1>3, <1>4, <1>5 DEF Agree, Fields, g

LEMMA SetStateShape ==
  ASSUME NEW x \in Session,
         NEW s \in {"idle", "connecting", "connected", "reconnecting", "closed"}
  PROVE  \E y \in Session :
            /\ Agree(x, y, {"state"}) /\ y.state = s
            /\ SetState(x, s) = y \/ SetState(x, s) = Listen(y)
<1> DEFINE y == [x EXCEPT !.state = s]
<1>1. y \in Session /\ Agree(x, y, {"state"}) /\ y.state = s /\ (x.state = s => y = x)
  BY DEF Session, Agree, Fields
<1> QED BY <1>1 DEF SetState

LEMMA MarkStaleShape ==
  ASSUME NEW x \in Session
  PROVE  \E y \in Session :
            Agree(x, y, {"status"}) /\ (MarkStale(x) = y \/ MarkStale(x) = Listen(y))
<1> DEFINE s == IF x.items \/ x.synced THEN "stale" ELSE "empty"
           y == [x EXCEPT !.status = s]
<1>1. s \in {"stale", "empty"} OBVIOUS
<1>2. MarkStale(x) = IF x.status = s THEN x ELSE Listen(y) BY DEF MarkStale
<1> HIDE DEF s
<1>3. y \in Session /\ Agree(x, y, {"status"}) BY <1>1 DEF Session, Agree, Fields
<1>4. x \in Session /\ Agree(x, x, {"status"}) BY DEF Agree
<1> QED BY <1>2, <1>3, <1>4

-----------------------------------------------------------------------------
(* The invariant, of a session x, the generations cs that await a          *)
(* credential and the count r of retries.                                  *)

\* No attempt of the session's generation is under way.
Dormant(x, cs) == x.socket = 0 /\ x.generation \notin cs /\ ~On(x.stack, "opened", x.generation)

Live(x) ==
  /\ x.phase = "active" /\ x.socket = x.generation
  /\ x.status = "synchronized" /\ x.handle["handshake"] = 0

Interrupted(x) == Has(x.stack, "close") \/ Has(x.stack, "fail")

\* Attempts belong to generations that have begun.
Aged(x, cs) ==
  /\ \A g \in cs : g <= x.generation
  /\ \A g : On(x.stack, "opened", g) \/ On(x.stack, "activated", g) => g <= x.generation
  /\ x.socket \in {0, x.generation}

\* An attempt starts without a socket and has read nothing.
Opening(x, cs) ==
  x.generation \in cs \/ On(x.stack, "opened", x.generation) => x.phase = "opening" /\ x.socket = 0

\* Every timer that runs is the generation's own and can still be cleared.
Timed(x) ==
  \A t \in x.timers : t[2] = x.generation /\ x.handle[t[1]] = x.generation /\ x.generation # 0

\* What a session that is closed, or not yet opened, cannot have.
Resting(x, cs) ==
  x.state \in {"idle", "closed"} => x.timers = {} /\ Dormant(x, cs) /\ ~x.pending

\* close() is carried out or still on the stack.
Closing(x) == x.manuallyClosed => x.state = "closed" \/ Has(x.stack, "close")

\* The reconnect timer runs alone, and pays for the retry it will make.
Waiting(x, cs, r) ==
  (\E t \in x.timers : t[1] = "reconnect") =>
     /\ x.state = "reconnecting" /\ Dormant(x, cs) /\ ~Has(x.stack, "fail") /\ r < x.attempts
     /\ \A t \in x.timers : t[1] = "reconnect"

\* While failAttempt publishes the timeline nothing is under way.
Failing(x, cs) ==
  Has(x.stack, "fail") =>
     /\ ~x.manuallyClosed /\ ~Has(x.stack, "close") /\ x.timers = {} /\ Dormant(x, cs)
     /\ x.state \in {"connecting", "reconnecting", "connected"} /\ x.generation # 0

\* The rest of an activation finds the attempt live, or a close() above it.
Activating(x) ==
  On(x.stack, "activated", x.generation) =>
     Has(x.stack, "close") \/ (Live(x) /\ x.state \in {"connecting", "reconnecting"})

Connected(x) == x.state = "connected" => Live(x) \/ Interrupted(x)

Reading(x) == x.phase = "history" /\ x.socket # 0 => x.status = "synchronizing" \/ Interrupted(x)

Budget(x, r) == r \in Nat /\ r <= x.attempts /\ x.attempts <= MaxAttempts

Sound(x, cs, r) ==
  /\ x \in Session /\ cs \in SUBSET Nat /\ Bottom(x.stack)
  /\ Aged(x, cs) /\ Opening(x, cs) /\ Timed(x) /\ Resting(x, cs) /\ Closing(x) /\ Waiting(x, cs, r)
  /\ Failing(x, cs) /\ Activating(x) /\ Connected(x) /\ Reading(x) /\ Budget(x, r)
  /\ x.state = "connecting" => x.pending

Inv == overrun \in BOOLEAN /\ (overrun \/ Sound(self, creds, retries))

-----------------------------------------------------------------------------
\* A frame without consequences changes nothing that matters.
LEMMA InertKeeps ==
  ASSUME NEW x, NEW cs, NEW r, Sound(x, cs, r),
         NEW do \in {"listen", "activate", "events"}, NEW arg \in Nat
  PROVE  Sound(Then(x, do, arg), cs, r)
<1> DEFINE y == Then(x, do, arg)
<1>1. x \in Session BY DEF Sound
<1>2. [do |-> do, arg |-> arg] \in Frame BY DEF Frame
<1>3. /\ y \in Session /\ Agree(x, y, {"stack"}) /\ Bottom(y.stack)
      /\ \A d : Has(y.stack, d) <=> d = do \/ Has(x.stack, d)
      /\ \A d, g : On(y.stack, d, g) <=> (d = do /\ g = arg) \/ On(x.stack, d, g)
  BY <1>1, <1>2, ThenShape DEF Sound
<1> HIDE DEF y
<1>4. /\ y.state = x.state /\ y.generation = x.generation /\ y.manuallyClosed = x.manuallyClosed
      /\ y.phase = x.phase /\ y.attempts = x.attempts /\ y.pending = x.pending
      /\ y.socket = x.socket /\ y.timers = x.timers /\ y.handle = x.handle /\ y.status = x.status
  BY <1>3 DEF Agree, Fields
<1>5. /\ Has(y.stack, "close") <=> Has(x.stack, "close")
      /\ Has(y.stack, "fail") <=> Has(x.stack, "fail")
      /\ \A g : On(y.stack, "opened", g) <=> On(x.stack, "opened", g)
      /\ \A g : On(y.stack, "activated", g) <=> On(x.stack, "activated", g)
  BY <1>3
<1>6. Dormant(y, cs) <=> Dormant(x, cs) BY <1>4, <1>5 DEF Dormant
<1>7. Live(y) <=> Live(x) BY <1>4 DEF Live
<1>8. Interrupted(y) <=> Interrupted(x) BY <1>5 DEF Interrupted
<1>9. Aged(y, cs) /\ Timed(y) /\ Budget(y, r) /\ Closing(y)
  BY <1>4, <1>5 DEF Sound, Aged, Timed, Budget, Closing
<1>10. Resting(y, cs) /\ Waiting(y, cs, r) /\ Failing(y, cs) /\ Opening(y, cs)
  BY <1>4, <1>5, <1>6 DEF Sound, Resting, Waiting, Failing, Opening
<1>11. Activating(y) /\ Connected(y) /\ Reading(y)
  BY <1>4, <1>5, <1>7, <1>8 DEF Sound, Activating, Connected, Reading
<1>12. cs \in SUBSET Nat /\ (y.state = "connecting" => y.pending) BY <1>4 DEF Sound
<1>13. Sound(y, cs, r) BY <1>3, <1>9, <1>10, <1>11, <1>12 DEF Sound
<1> QED BY <1>13 DEF y

LEMMA ListenKeeps ==
  ASSUME NEW x, NEW cs, NEW r, Sound(x, cs, r)
  PROVE  Sound(Listen(x), cs, r) /\ Listen(x).generation = x.generation
<1>1. Sound(Listen(x), cs, r) BY InertKeeps DEF Listen
<1>2. Agree(x, Listen(x), {"stack"}) BY ListenShape DEF Sound
<1> QED BY <1>1, <1>2 DEF Agree, Fields

\* A new attempt, from the retry timer or a call of connect().
LEMMA OpenKeeps ==
  ASSUME NEW x \in Session, NEW cs \in SUBSET Nat, NEW r \in Nat,
         NEW s \in {"connecting", "reconnecting"},
         Aged(x, cs), Bottom(x.stack), x.timers = {}, ~x.manuallyClosed,
         x.socket = 0, ~Has(x.stack, "fail"), s = "connecting" => x.pending, Budget(x, r)
  PROVE  Sound(OpenSocket(x, s), cs, r) /\ OpenSocket(x, s).generation = x.generation + 1
<1> DEFINE g == x.generation + 1
           a == [x EXCEPT !.generation = g, !.phase = "opening"]
           b == Start(a, "handshake")
           c == Then(b, "opened", g)
<1>1. g \in Nat /\ x.generation \in Nat /\ g # 0 BY DEF Session
<1>2. OpenSocket(x, s) = SetState(c, s) BY DEF OpenSocket
<1>3. [do |-> "opened", arg |-> g] \in Frame BY <1>1 DEF Frame
<1> HIDE DEF g
<1>4. /\ a \in Session /\ Agree(x, a, {"generation", "phase"})
      /\ a.generation = g /\ a.phase = "opening"
  BY <1>1 DEF Session, Agree, Fields
<1> HIDE DEF a
<1>5. /\ b \in Session /\ Agree(a, b, {"timers", "handle"})
      /\ b.timers = a.timers \cup {<<"handshake", g>>} /\ b.handle["handshake"] = g
  BY <1>4, StartShape DEF Kinds
<1> HIDE DEF b
<1>6. /\ c \in Session /\ Agree(b, c, {"stack"})
      /\ \A d : Has(c.stack, d) <=> d = "opened" \/ Has(b.stack, d)
      /\ \A d, h : On(c.stack, d, h) <=> (d = "opened" /\ h = g) \/ On(b.stack, d, h)
      /\ Bottom(b.stack) => Bottom(c.stack)
  <2>1. "opened" \notin {"fail", "activated"} OBVIOUS
  <2>2. b \in Session BY <1>5
  <2> QED BY ONLY <1>3, <2>1, <2>2, ThenShape, SMTT(30)
<1> HIDE DEF c
<1>7. PICK y \in Session :
         /\ Agree(c, y, {"state"}) /\ y.state = s
         /\ SetState(c, s) = y \/ SetState(c, s) = Listen(y)
  <2>1. c \in Session BY <1>6
  <2>2. s \in {"idle", "connecting", "connected", "reconnecting", "closed"} OBVIOUS
  <2> QED BY ONLY <2>1, <2>2, SetStateShape
<1>8. /\ y.state = s /\ y.generation = g /\ y.manuallyClosed = x.manuallyClosed
      /\ y.phase = "opening" /\ y.attempts = x.attempts /\ y.pending = x.pending
      /\ y.socket = 0 /\ y.timers = {<<"handshake", g>>} /\ y.handle["handshake"] = g
  BY <1>4, <1>5, <1>6, <1>7 DEF Agree, Fields
<1>9. a.stack = x.stack /\ b.stack = a.stack /\ y.stack = c.stack
  BY <1>4, <1>5, <1>7 DEF Agree, Fields
<1>10. /\ Bottom(y.stack) /\ ~Has(y.stack, "fail")
       /\ Has(x.stack, "close") => Has(y.stack, "close")
       /\ \A h : On(y.stack, "opened", h) => h = g \/ On(x.stack, "opened", h)
       /\ \A h : On(y.stack, "activated", h) => On(x.stack, "activated", h)
  BY <1>6, <1>9
<1>11. Aged(y, cs) /\ ~On(y.stack, "activated", g)
  <2>1. g = x.generation + 1 BY DEF g
  <2>2. \A h \in cs : h <= g BY <1>1, <2>1 DEF Aged
  <2>3. ASSUME NEW h, On(x.stack, "opened", h) \/ On(x.stack, "activated", h)
        PROVE  h \in Nat /\ h <= x.generation
    <3>1. h \in Nat BY <2>3, ArgNat
    <3> QED BY <2>3, <3>1 DEF Aged
  <2>4. ~On(x.stack, "activated", g)
    <3> SUFFICES ASSUME On(x.stack, "activated", g) PROVE FALSE OBVIOUS
    <3>1. g <= x.generation BY <2>3
    <3> QED BY <1>1, <2>1, <3>1
  <2>5. \A h \in Nat : h <= x.generation => h <= g BY <1>1, <2>1
  <2>6. g <= g BY <1>1
  <2> QED BY <1>8, <1>10, <2>2, <2>3, <2>4, <2>5, <2>6 DEF Aged
<1>12. /\ Timed(y) /\ Resting(y, cs) /\ Closing(y) /\ Waiting(y, cs, r)
       /\ Failing(y, cs) /\ Opening(y, cs)
  BY <1>1, <1>8, <1>10 DEF Timed, Resting, Closing, Waiting, Failing, Opening
<1>13. Activating(y) /\ Connected(y) /\ Reading(y) /\ Budget(y, r)
  BY <1>8, <1>11 DEF Activating, Connected, Reading, Budget
<1>14. Sound(y, cs, r) BY <1>8, <1>10, <1>11, <1>12, <1>13 DEF Sound
<1> QED BY <1>2, <1>7, <1>8, <1>14, ListenKeeps DEF g

LEMMA ConnectKeeps ==
  ASSUME NEW x, NEW cs, NEW r, Sound(x, cs, r)
  PROVE  Sound(Connect(x), cs, IF Connect(x).generation # x.generation THEN 0 ELSE r)
<1>1. x \in Session /\ r \in Nat /\ cs \in SUBSET Nat BY DEF Sound, Budget
<1>2. CASE x.state = "connected" \/ x.pending
  BY <1>2 DEF Connect
<1>3. CASE ~(x.state = "connected" \/ x.pending)
  <2> DEFINE y == [x EXCEPT !.manuallyClosed = FALSE, !.pending = TRUE]
  <2>1. y \in Session /\ Agree(x, y, {"manuallyClosed", "pending"})
        /\ ~y.manuallyClosed /\ y.pending
    BY <1>1 DEF Session, Agree, Fields
  <2>2. Connect(x) = IF x.state = "reconnecting" THEN y
                     ELSE OpenSocket([y EXCEPT !.attempts = 0], "connecting")
    BY <1>3 DEF Connect
  <2> HIDE DEF y
  <2>3. /\ y.state = x.state /\ y.generation = x.generation /\ y.phase = x.phase
        /\ y.attempts = x.attempts /\ y.socket = x.socket /\ y.timers = x.timers
        /\ y.handle = x.handle /\ y.status = x.status /\ y.stack = x.stack
    BY <2>1 DEF Agree, Fields
  <2>4. CASE x.state = "reconnecting"
    <3>1. Dormant(y, cs) <=> Dormant(x, cs) BY <2>3 DEF Dormant
    <3>2. Aged(y, cs) /\ Timed(y) /\ Budget(y, r) /\ Closing(y)
      BY <2>1, <2>3 DEF Sound, Aged, Timed, Budget, Closing
    <3>3. Resting(y, cs) /\ Waiting(y, cs, r) /\ Failing(y, cs) /\ Opening(y, cs)
      BY <2>1, <2>3, <2>4, <3>1 DEF Sound, Resting, Waiting, Failing, Opening
    <3>4. Activating(y) /\ Connected(y) /\ Reading(y)
      BY <2>3, <2>4 DEF Sound, Activating, Connected, Reading, Live, Interrupted
    <3>5. Sound(y, cs, r) BY <2>1, <2>3, <3>2, <3>3, <3>4 DEF Sound
    <3> QED BY <2>2, <2>3, <2>4, <3>5
  <2>5. CASE x.state # "reconnecting"
    <3> DEFINE z == [y EXCEPT !.attempts = 0]
    <3>1. z \in Session /\ Agree(y, z, {"attempts"}) /\ z.attempts = 0
      BY <2>1 DEF Session, Agree, Fields
    <3>2. Connect(x) = OpenSocket(z, "connecting") BY <2>2, <2>5
    <3> HIDE DEF z
    <3>3. /\ z.generation = x.generation /\ z.socket = x.socket /\ z.timers = x.timers
          /\ z.stack = x.stack /\ z.pending /\ ~z.manuallyClosed
      BY <2>1, <2>3, <3>1 DEF Agree, Fields
    <3>4. x.state \in {"idle", "closed"} BY <1>1, <1>3, <2>5 DEF Sound, Session
    <3>5. /\ x.timers = {} /\ x.socket = 0 /\ ~Has(x.stack, "fail") /\ Bottom(x.stack)
          /\ Aged(x, cs)
      BY <3>4 DEF Sound, Resting, Dormant, Failing
    <3>6. Aged(z, cs) BY <3>3, <3>5 DEF Aged
    <3>7. Budget(z, 0) BY <3>1, BoundsAssumption DEF Budget
    <3>8. Sound(Connect(x), cs, 0) /\ Connect(x).generation = x.generation + 1
      BY <1>1, <3>1, <3>2, <3>3, <3>5, <3>6, <3>7, OpenKeeps
    <3>9. x.generation + 1 # x.generation BY <1>1 DEF Session
    <3> QED BY <3>8, <3>9
  <2> QED BY <2>4, <2>5
<1> QED BY <1>2, <1>3

\* The timeline goes stale only where the session is about to be given up.
LEMMA StaleKeeps ==
  ASSUME NEW x, NEW cs, NEW r, Sound(x, cs, r), Interrupted(x),
         On(x.stack, "activated", x.generation) => Has(x.stack, "close")
  PROVE  Sound(MarkStale(x), cs, r)
<1>1. PICK y \in Session :
         Agree(x, y, {"status"}) /\ (MarkStale(x) = y \/ MarkStale(x) = Listen(y))
  BY MarkStaleShape DEF Sound
<1>2. /\ y.state = x.state /\ y.generation = x.generation /\ y.manuallyClosed = x.manuallyClosed
      /\ y.phase = x.phase /\ y.attempts = x.attempts /\ y.pending = x.pending
      /\ y.socket = x.socket /\ y.timers = x.timers /\ y.handle = x.handle /\ y.stack = x.stack
  BY <1>1 DEF Agree, Fields
<1>3. Aged(y, cs) /\ Timed(y) /\ Budget(y, r) /\ Closing(y)
  BY <1>2 DEF Sound, Aged, Timed, Budget, Closing
<1>4. Resting(y, cs) /\ Waiting(y, cs, r) /\ Failing(y, cs) /\ Opening(y, cs)
  BY <1>2 DEF Sound, Resting, Waiting, Failing, Opening, Dormant
<1>5. Activating(y) /\ Connected(y) /\ Reading(y)
  BY <1>2 DEF Activating, Connected, Reading, Interrupted
<1>6. Sound(y, cs, r) BY <1>2, <1>3, <1>4, <1>5 DEF Sound
<1> QED BY <1>1, <1>6, ListenKeeps

LEMMA CloseKeeps ==
  ASSUME NEW x, NEW cs, NEW r, Sound(x, cs, r), ~Has(x.stack, "fail")
  PROVE  Sound(Close(x), cs, r)
<1> DEFINE y == [x EXCEPT !.manuallyClosed = TRUE]
           z == Then(y, "close", 0)
<1>1. y \in Session /\ Agree(x, y, {"manuallyClosed"})
  BY DEF Sound, Session, Agree, Fields
<1>2. Close(x) = MarkStale(z) BY DEF Close
<1>3. [do |-> "close", arg |-> 0] \in Frame BY DEF Frame
<1> HIDE DEF y
<1>4. /\ z \in Session /\ Agree(y, z, {"stack"})
      /\ \A d : Has(z.stack, d) <=> d = "close" \/ Has(y.stack, d)
      /\ \A d, g : On(z.stack, d, g) <=> (d = "close" /\ g = 0) \/ On(y.stack, d, g)
      /\ Bottom(y.stack) => Bottom(z.stack)
  BY <1>1, <1>3, ThenShape
<1> HIDE DEF z
<1>5. /\ z.state = x.state /\ z.generation = x.generation /\ z.phase = x.phase
      /\ z.attempts = x.attempts /\ z.pending = x.pending /\ z.socket = x.socket
      /\ z.timers = x.timers /\ z.handle = x.handle /\ z.status = x.status /\ y.stack = x.stack
  BY <1>1, <1>4 DEF Agree, Fields
<1>6. /\ Bottom(z.stack) /\ Has(z.stack, "close") /\ ~Has(z.stack, "fail")
      /\ \A g : On(z.stack, "opened", g) <=> On(x.stack, "opened", g)
      /\ \A g : On(z.stack, "activated", g) <=> On(x.stack, "activated", g)
  BY <1>4, <1>5 DEF Sound
<1>7. Dormant(z, cs) <=> Dormant(x, cs) BY <1>5, <1>6 DEF Dormant
<1>8. Aged(z, cs) /\ Timed(z) /\ Budget(z, r) /\ Closing(z)
  BY <1>5, <1>6 DEF Sound, Aged, Timed, Budget, Closing
<1>9. Resting(z, cs) /\ Waiting(z, cs, r) /\ Failing(z, cs) /\ Opening(z, cs)
  BY <1>5, <1>6, <1>7 DEF Sound, Resting, Waiting, Failing, Opening
<1>10. Activating(z) /\ Connected(z) /\ Reading(z) /\ Interrupted(z)
  BY <1>6 DEF Activating, Connected, Reading, Interrupted
<1>11. cs \in SUBSET Nat /\ (z.state = "connecting" => z.pending) BY <1>5 DEF Sound
<1>12. Sound(z, cs, r) BY <1>4, <1>6, <1>8, <1>9, <1>10, <1>11 DEF Sound
<1> QED BY <1>2, <1>6, <1>10, <1>12, StaleKeeps

\* An attempt that is under way fails: its timers and its socket go.
LEMMA FailKeeps ==
  ASSUME NEW x \in Session, NEW cs \in SUBSET Nat, NEW r, NEW retry \in BOOLEAN,
         x.stack = <<>>, ~x.manuallyClosed, Aged(x, cs), Budget(x, r),
         x.state \in {"connecting", "reconnecting", "connected"},
         x.state = "connecting" => x.pending,
         \A t \in x.timers : t[1] \in {"handshake", "stable"} /\ t[2] = x.handle[t[1]]
  PROVE  Sound(FailAttempt(x, x.generation, retry), cs, r)
<1> DEFINE d == DetachAttempt(x)
           a == IF retry THEN 1 ELSE 0
           y == Then(d, "fail", a)
<1>1. FailAttempt(x, x.generation, retry) = MarkStale(y) BY DEF FailAttempt, Current
<1>2. [do |-> "fail", arg |-> a] \in Frame BY DEF Frame
<1> HIDE DEF a
<1>3. /\ d \in Session /\ Agree(x, d, {"generation", "socket", "timers", "handle"})
      /\ d.generation = x.generation + 1 /\ d.socket = 0 /\ d.timers = {}
  BY DetachShape
<1> HIDE DEF d
<1>4. d.stack = <<>> BY <1>3 DEF Agree, Fields
<1>5. /\ y \in Session /\ Agree(d, y, {"stack"}) /\ Bottom(y.stack)
      /\ \A k : Has(y.stack, k) <=> k = "fail" \/ Has(d.stack, k)
      /\ \A k, g : On(y.stack, k, g) <=> (k = "fail" /\ g = a) \/ On(d.stack, k, g)
  BY <1>2, <1>3, <1>4, ThenShape, EmptyStack, ZenonT(30)
<1> HIDE DEF y
<1>6. /\ y.state = x.state /\ y.generation = x.generation + 1 /\ ~y.manuallyClosed
      /\ y.attempts = x.attempts /\ y.pending = x.pending /\ y.socket = 0 /\ y.timers = {}
  BY <1>3, <1>5 DEF Agree, Fields
<1>7. /\ Has(y.stack, "fail") /\ ~Has(y.stack, "close")
      /\ \A g : ~On(y.stack, "opened", g) /\ ~On(y.stack, "activated", g)
  <2>1. \A k : ~Has(d.stack, k) /\ \A g : ~On(d.stack, k, g) BY <1>4, EmptyStack
  <2>2. "close" # "fail" /\ "opened" # "fail" /\ "activated" # "fail" OBVIOUS
  <2> QED BY <1>5, <2>1, <2>2
<1>8. x.generation \in Nat /\ y.generation # 0 BY <1>6 DEF Session
<1>9. y.generation \notin cs /\ \A g \in cs : g <= y.generation
  <2>1. \A g \in cs : g \in Nat /\ g <= x.generation BY DEF Aged
  <2> QED BY <1>6, <1>8, <2>1
<1>10. Aged(y, cs) /\ Timed(y) /\ Budget(y, r) /\ Closing(y)
  BY <1>6, <1>7, <1>9 DEF Aged, Timed, Budget, Closing
<1>11. Dormant(y, cs) BY <1>6, <1>7, <1>9 DEF Dormant
<1>12. Resting(y, cs) /\ Waiting(y, cs, r) /\ Failing(y, cs) /\ Opening(y, cs)
  BY <1>6, <1>7, <1>8, <1>11 DEF Resting, Waiting, Failing, Opening, Dormant
<1>13. Activating(y) /\ Connected(y) /\ Reading(y) /\ Interrupted(y)
  BY <1>7 DEF Activating, Connected, Reading, Interrupted
<1>14. Sound(y, cs, r) BY <1>5, <1>6, <1>10, <1>12, <1>13 DEF Sound
<1> QED BY <1>1, <1>7, <1>13, <1>14, StaleKeeps

\* What a callback finds of an attempt that is under way.
LEMMA Busy ==
  ASSUME NEW x, NEW cs, NEW r, Sound(x, cs, r), x.stack = <<>>,
         x.socket # 0 \/ x.generation \in cs \/ \E t \in x.timers : t[1] # "reconnect"
  PROVE  /\ x.state \in {"connecting", "reconnecting", "connected"} /\ ~x.manuallyClosed
         /\ \A t \in x.timers : t[1] \in {"handshake", "stable"} /\ t[2] = x.handle[t[1]]
<1>1. x.state \notin {"idle", "closed"} BY DEF Sound, Resting, Dormant
<1>2. ~Has(x.stack, "close") BY EmptyStack
<1>3. ~x.manuallyClosed BY <1>1, <1>2 DEF Sound, Closing
<1>4. \A t \in x.timers : t[1] # "reconnect" BY DEF Sound, Waiting, Dormant
<1>5. \A t \in x.timers : t[1] \in Kinds BY DEF Sound, Session
<1>6. \A t \in x.timers : t[2] = x.handle[t[1]] BY DEF Sound, Timed
<1>7. x.state \in {"connecting", "reconnecting", "connected"} BY <1>1 DEF Sound, Session
<1> QED BY <1>3, <1>4, <1>5, <1>6, <1>7 DEF Kinds

LEMMA BusyFails ==
  ASSUME NEW x, NEW cs, NEW r, NEW retry \in BOOLEAN, Sound(x, cs, r), x.stack = <<>>,
         x.socket # 0 \/ x.generation \in cs \/ \E t \in x.timers : t[1] # "reconnect",
         NEW y \in Session, Agree(x, y, {"timers"}), y.timers \subseteq x.timers
  PROVE  Sound(FailAttempt(y, x.generation, retry), cs, r)
<1>1. /\ y.state = x.state /\ y.generation = x.generation /\ y.manuallyClosed = x.manuallyClosed
      /\ y.attempts = x.attempts /\ y.pending = x.pending /\ y.socket = x.socket
      /\ y.handle = x.handle /\ y.stack = x.stack
  BY DEF Agree, Fields
<1>2. Aged(y, cs) /\ Budget(y, r) /\ (y.state = "connecting" => y.pending) /\ cs \in SUBSET Nat
  BY <1>1 DEF Sound, Aged, Budget
<1> QED BY <1>1, <1>2, Busy, FailKeeps

\* Fewer credentials are awaited.
LEMMA FewerKeeps ==
  ASSUME NEW x, NEW cs, NEW r, NEW ds \in SUBSET cs, Sound(x, cs, r)
  PROVE  Sound(x, ds, r)
<1>1. ds \in SUBSET Nat /\ Aged(x, ds) BY DEF Sound, Aged
<1>2. Resting(x, ds) /\ Waiting(x, ds, r) /\ Failing(x, ds) /\ Opening(x, ds)
  BY DEF Sound, Resting, Waiting, Failing, Opening, Dormant
<1> QED BY <1>1, <1>2 DEF Sound

-----------------------------------------------------------------------------
(* The function under the listeners goes on.                               *)

\* The object with its first frame taken off.
PopOf(x) == [x EXCEPT !.stack = Tail(@)]

LEMMA PopShape ==
  ASSUME NEW x \in Session, x.stack # <<>>
  PROVE  /\ PopOf(x) \in Session /\ Agree(x, PopOf(x), {"stack"})
         /\ PopOf(x).stack = Tail(x.stack) /\ Head(x.stack) \in Frame
         /\ \A d : Has(x.stack, d) <=> Head(x.stack).do = d \/ Has(PopOf(x).stack, d)
         /\ \A d, g : On(x.stack, d, g) <=>
               (Head(x.stack).do = d /\ Head(x.stack).arg = g) \/ On(PopOf(x).stack, d, g)
         /\ Bottom(x.stack) => Bottom(PopOf(x).stack)
         /\ Bottom(x.stack) /\ Head(x.stack).do \in {"fail", "activated"} => PopOf(x).stack = <<>>
<1> DEFINE t == Tail(x.stack)
<1>1. x.stack \in Seq(Frame) BY DEF Session
<1>2. PopOf(x) = [x EXCEPT !.stack = t] BY DEF PopOf
<1>3. t \in Seq(Frame) BY <1>1, Popping
<1> HIDE DEF t
<1>4. PopOf(x) \in Session /\ Agree(x, PopOf(x), {"stack"}) /\ PopOf(x).stack = t
  BY <1>2, <1>3 DEF Session, Agree, Fields
<1>5. PopOf(x).stack = Tail(x.stack) BY <1>4 DEF t
<1> QED BY <1>1, <1>4, <1>5, Popping

\* A frame that did its work, or whose attempt is over.
LEMMA PopKeeps ==
  ASSUME NEW x, NEW cs, NEW r, Sound(x, cs, r), x.stack # <<>>,
         Head(x.stack).do \notin {"close", "fail"},
         NEW ds \in SUBSET Nat,
         ds = cs \/ /\ Head(x.stack).do = "opened" /\ Head(x.stack).arg = x.generation
                    /\ ds = cs \cup {x.generation}
  PROVE  Sound(PopOf(x), ds, r)
<1> DEFINE y == PopOf(x)
           f == Head(x.stack)
<1>1. /\ y \in Session /\ Agree(x, y, {"stack"}) /\ Bottom(y.stack) /\ f \in Frame
      /\ \A d : Has(x.stack, d) <=> f.do = d \/ Has(y.stack, d)
      /\ \A d, g : On(x.stack, d, g) <=> (f.do = d /\ f.arg = g) \/ On(y.stack, d, g)
  BY PopShape DEF Sound
<1>2. f.do \notin {"close", "fail"} OBVIOUS
<1>3. ds = cs \/ (f.do = "opened" /\ f.arg = x.generation /\ ds = cs \cup {x.generation}) OBVIOUS
<1> HIDE DEF y, f
<1>4. /\ y.state = x.state /\ y.generation = x.generation /\ y.manuallyClosed = x.manuallyClosed
      /\ y.phase = x.phase /\ y.attempts = x.attempts /\ y.pending = x.pending
      /\ y.socket = x.socket /\ y.timers = x.timers /\ y.handle = x.handle /\ y.status = x.status
  BY <1>1 DEF Agree, Fields
<1>5. /\ Has(y.stack, "close") <=> Has(x.stack, "close")
      /\ Has(y.stack, "fail") <=> Has(x.stack, "fail")
  BY <1>1, <1>2
<1>6. /\ \A g : On(y.stack, "opened", g) => On(x.stack, "opened", g)
      /\ \A g : On(y.stack, "activated", g) => On(x.stack, "activated", g)
      /\ ds # cs => On(x.stack, "opened", x.generation) /\ ds = cs \cup {x.generation}
  BY <1>1, <1>3
<1>7. Dormant(x, cs) => Dormant(y, ds) BY <1>4, <1>6 DEF Dormant
<1>8. Aged(y, ds)
  <2>1. x.generation \in Nat BY DEF Sound, Session
  <2> QED BY <1>4, <1>6, <2>1 DEF Sound, Aged
<1>9. Timed(y) /\ Budget(y, r) /\ Closing(y)
  BY <1>4, <1>5 DEF Sound, Timed, Budget, Closing
<1>10. Resting(y, ds) /\ Waiting(y, ds, r) /\ Failing(y, ds) /\ Opening(y, ds)
  <2>1. Resting(y, ds) /\ Waiting(y, ds, r) /\ Failing(y, ds)
    BY <1>4, <1>5, <1>7 DEF Sound, Resting, Waiting, Failing
  <2>2. y.generation \in ds \/ On(y.stack, "opened", y.generation) =>
           x.generation \in cs \/ On(x.stack, "opened", x.generation)
    BY <1>4, <1>6
  <2>3. Opening(y, ds) BY <1>4, <2>2 DEF Sound, Opening
  <2> QED BY <2>1, <2>3
<1>11. Activating(y) /\ Connected(y) /\ Reading(y)
  BY <1>4, <1>5, <1>6 DEF Sound, Activating, Connected, Reading, Live, Interrupted
<1>12. y.state = "connecting" => y.pending BY <1>4 DEF Sound
<1>13. Sound(y, ds, r) BY <1>1, <1>8, <1>9, <1>10, <1>11, <1>12 DEF Sound
<1> QED BY <1>13 DEF y

\* The state changes last, and its listeners are told.
LEMMA StateKeeps ==
  ASSUME NEW x \in Session, NEW cs, NEW r,
         NEW s \in {"idle", "connecting", "connected", "reconnecting", "closed"},
         \A y \in Session : Agree(x, y, {"state"}) /\ y.state = s => Sound(y, cs, r)
  PROVE  Sound(SetState(x, s), cs, r)
<1>1. PICK y \in Session :
         /\ Agree(x, y, {"state"}) /\ y.state = s
         /\ SetState(x, s) = y \/ SetState(x, s) = Listen(y)
  BY SetStateShape
<1>2. Sound(y, cs, r) BY <1>1
<1> QED BY <1>1, <1>2, ListenKeeps

\* close() empties the session before it says so.
LEMMA CloseRestKeeps ==
  ASSUME NEW x, NEW cs, NEW r, Sound(x, cs, r), x.stack # <<>>, Head(x.stack).do = "close"
  PROVE  Sound(CloseRest(PopOf(x)), cs, r)
<1> DEFINE p == PopOf(x)
           c == Clear(p, {"reconnect"})
           d == DetachAttempt(c)
           e == [d EXCEPT !.pending = FALSE]
<1>1. CloseRest(p) = SetState(e, "closed") BY DEF CloseRest
<1>2. /\ p \in Session /\ Agree(x, p, {"stack"}) /\ Bottom(p.stack)
      /\ Has(x.stack, "close") /\ (Has(p.stack, "fail") => Has(x.stack, "fail"))
      /\ \A k, g : On(p.stack, k, g) => On(x.stack, k, g)
  BY PopShape DEF Sound
<1> HIDE DEF p
<1>3. /\ c \in Session /\ Agree(p, c, {"timers", "handle"})
      /\ c.timers = {t \in p.timers : t[1] \notin {"reconnect"} \/ t[2] # p.handle[t[1]]}
      /\ \A j \in Kinds : c.handle[j] = IF j \in {"reconnect"} THEN 0 ELSE p.handle[j]
  BY <1>2, ClearShape
<1> HIDE DEF c
<1>4. /\ d \in Session /\ Agree(c, d, {"generation", "socket", "timers", "handle"})
      /\ d.generation = c.generation + 1 /\ d.socket = 0
      /\ d.timers = {t \in c.timers : t[1] \notin {"handshake", "stable"} \/ t[2] # c.handle[t[1]]}
  BY <1>3, DetachShape
<1> HIDE DEF d
<1>5. /\ e \in Session /\ Agree(d, e, {"pending"}) /\ ~e.pending
  BY <1>4 DEF Session, Agree, Fields
<1> HIDE DEF e
<1>6. /\ e.generation = x.generation + 1 /\ e.attempts = x.attempts /\ e.socket = 0
      /\ e.stack = p.stack /\ e.timers = d.timers
      /\ p.timers = x.timers /\ p.handle = x.handle
  BY <1>2, <1>3, <1>4, <1>5 DEF Agree, Fields
<1>7. e.timers = {}
  <2> SUFFICES ASSUME NEW t \in d.timers PROVE FALSE BY <1>6
  <2>1. t \in c.timers /\ (t[1] \notin {"handshake", "stable"} \/ t[2] # c.handle[t[1]]) BY <1>4
  <2>2. t \in x.timers /\ (t[1] # "reconnect" \/ t[2] # x.handle[t[1]]) BY <1>3, <1>6, <2>1
  <2>3. t[1] \in Kinds /\ t[2] = x.handle[t[1]] BY <2>2 DEF Sound, Timed, Session
  <2>4. t[1] # "reconnect" /\ c.handle[t[1]] = x.handle[t[1]] BY <1>3, <1>6, <2>2, <2>3
  <2> QED BY <2>1, <2>3, <2>4 DEF Kinds
<1>8. ~Has(p.stack, "fail") BY <1>2 DEF Sound, Failing
<1>9. /\ \A g \in cs : g <= e.generation
      /\ \A g : On(p.stack, "opened", g) \/ On(p.stack, "activated", g) => g <= e.generation
      /\ Dormant(e, cs) /\ ~On(p.stack, "activated", e.generation)
  <2>1. x.generation \in Nat BY DEF Sound, Session
  <2>2. \A g \in cs : g \in Nat /\ g <= x.generation BY DEF Sound, Aged
  <2>3. ASSUME NEW g, On(p.stack, "opened", g) \/ On(p.stack, "activated", g)
        PROVE  g \in Nat /\ g <= x.generation
    <3>1. On(x.stack, "opened", g) \/ On(x.stack, "activated", g) BY <1>2, <2>3
    <3>2. g <= x.generation BY <3>1 DEF Sound, Aged
    <3> QED BY <3>1, <3>2, ArgNat DEF Sound
  <2>4. ~(e.generation \in Nat /\ e.generation <= x.generation) BY <1>6, <2>1
  <2>5. \A g \in Nat : g <= x.generation => g <= e.generation BY <1>6, <2>1
  <2> QED BY <1>6, <2>2, <2>3, <2>4, <2>5 DEF Dormant
<1>10. ASSUME NEW y \in Session, Agree(e, y, {"state"}), y.state = "closed"
       PROVE  Sound(y, cs, r)
  <2>1. /\ y.generation = e.generation /\ y.attempts = x.attempts /\ ~y.pending
        /\ y.socket = 0 /\ y.timers = {} /\ y.stack = p.stack
    BY <1>5, <1>6, <1>7, <1>10 DEF Agree, Fields
  <2>2. Aged(y, cs) /\ Timed(y) /\ Budget(y, r) /\ Closing(y)
    BY <1>9, <1>10, <2>1 DEF Sound, Aged, Timed, Budget, Closing
  <2>3. Resting(y, cs) /\ Waiting(y, cs, r) /\ Failing(y, cs) /\ Opening(y, cs)
    BY <1>6, <1>8, <1>9, <2>1 DEF Resting, Waiting, Failing, Opening, Dormant
  <2>4. Activating(y) /\ Connected(y) /\ Reading(y)
    BY <1>9, <1>10, <2>1 DEF Activating, Connected, Reading
  <2>5. cs \in SUBSET Nat /\ Bottom(y.stack) BY <1>2, <2>1 DEF Sound
  <2> QED BY <1>10, <2>2, <2>3, <2>4, <2>5 DEF Sound
<1>11. Sound(SetState(e, "closed"), cs, r) BY <1>5, <1>10, StateKeeps
<1> QED BY <1>1, <1>11 DEF p

\* A failed attempt is retried while the budget lasts.
LEMMA FailRestKeeps ==
  ASSUME NEW x, NEW cs, NEW r, NEW retry \in BOOLEAN,
         Sound(x, cs, r), x.stack # <<>>, Head(x.stack).do = "fail"
  PROVE  Sound(FailRest(PopOf(x), retry), cs, r)
<1> DEFINE p == PopOf(x)
           z == [p EXCEPT !.pending = FALSE]
<1>1. FailRest(p, retry) = ScheduleReconnect(z, retry) BY DEF FailRest
<1>2. p \in Session /\ Agree(x, p, {"stack"}) /\ p.stack = <<>> /\ Has(x.stack, "fail")
  BY PopShape DEF Sound
<1> HIDE DEF p
<1>3. z \in Session /\ Agree(p, z, {"pending"}) /\ ~z.pending
  BY <1>2 DEF Session, Agree, Fields
<1> HIDE DEF z
<1>4. /\ z.generation = x.generation /\ z.attempts = x.attempts /\ z.socket = x.socket
      /\ z.timers = x.timers /\ z.stack = <<>> /\ z.manuallyClosed = x.manuallyClosed
  BY <1>2, <1>3 DEF Agree, Fields
<1>5. ~x.manuallyClosed /\ x.timers = {} /\ Dormant(x, cs) /\ x.generation # 0
  BY <1>2 DEF Sound, Failing
<1>6. x.generation \in Nat /\ x.attempts \in Nat /\ cs \in SUBSET Nat BY DEF Sound, Session
<1>7. /\ ~Has(z.stack, "fail") /\ ~Has(z.stack, "close") /\ Bottom(z.stack)
      /\ \A g : ~On(z.stack, "opened", g) /\ ~On(z.stack, "activated", g)
  BY <1>4, EmptyStack
<1>8. x.socket = 0 /\ x.generation \notin cs /\ \A g \in cs : g <= x.generation
  BY <1>5 DEF Dormant, Sound, Aged
<1>9. Budget(x, r) BY DEF Sound
<1>10. ASSUME NEW y \in Session, Agree(z, y, {"state"}), y.state = "closed"
       PROVE  Sound(y, cs, r)
  <2>1. /\ y.generation = x.generation /\ y.attempts = x.attempts /\ y.socket = 0
        /\ y.timers = {} /\ y.stack = z.stack /\ ~y.pending
    BY <1>3, <1>4, <1>5, <1>8, <1>10 DEF Agree, Fields
  <2>2. Aged(y, cs) /\ Timed(y) /\ Budget(y, r) /\ Closing(y)
    BY <1>7, <1>8, <1>9, <1>10, <2>1 DEF Aged, Timed, Budget, Closing
  <2>3. Resting(y, cs) /\ Waiting(y, cs, r) /\ Failing(y, cs) /\ Opening(y, cs)
    BY <1>7, <1>8, <2>1 DEF Resting, Waiting, Failing, Opening, Dormant
  <2>4. Activating(y) /\ Connected(y) /\ Reading(y)
    BY <1>7, <1>10, <2>1 DEF Activating, Connected, Reading
  <2> QED BY <1>6, <1>7, <1>10, <2>1, <2>2, <2>3, <2>4 DEF Sound
<1>11. CASE ~retry \/ x.attempts >= MaxAttempts
  <2>1. ScheduleReconnect(z, retry) = SetState(z, "closed")
    BY <1>4, <1>11 DEF ScheduleReconnect
  <2>2. Sound(SetState(z, "closed"), cs, r) BY <1>3, <1>10, StateKeeps
  <2> QED BY <1>1, <2>1, <2>2 DEF p
<1>12. CASE ~(~retry \/ x.attempts >= MaxAttempts)
  <2> DEFINE n == z.attempts + 1
             a == [z EXCEPT !.attempts = n]
             b == Start(a, "reconnect")
  <2>1. ScheduleReconnect(z, retry) = SetState(b, "reconnecting")
    BY <1>4, <1>12 DEF ScheduleReconnect
  <2>2. n \in Nat /\ r \in Nat /\ r < n /\ n <= MaxAttempts
    BY <1>4, <1>6, <1>9, <1>12, BoundsAssumption DEF Budget
  <2> HIDE DEF n
  <2>3. a \in Session /\ Agree(z, a, {"attempts"}) /\ a.attempts = n
    BY <1>3, <2>2 DEF Session, Agree, Fields
  <2> HIDE DEF a
  <2>4. /\ b \in Session /\ Agree(a, b, {"timers", "handle"})
        /\ b.timers = a.timers \cup {<<"reconnect", a.generation>>}
        /\ b.handle["reconnect"] = a.generation
    BY <2>3, StartShape DEF Kinds
  <2> HIDE DEF b
  <2>5. ASSUME NEW y \in Session, Agree(b, y, {"state"}), y.state = "reconnecting"
        PROVE  Sound(y, cs, r)
    <3>1. /\ y.generation = x.generation /\ y.attempts = n /\ y.socket = 0
          /\ y.timers = {<<"reconnect", x.generation>>} /\ y.stack = z.stack /\ ~y.manuallyClosed
          /\ y.handle["reconnect"] = x.generation
      BY <1>4, <1>5, <1>8, <2>3, <2>4, <2>5 DEF Agree, Fields
    <3>2. Dormant(y, cs) BY <1>7, <1>8, <3>1 DEF Dormant
    <3>3. Aged(y, cs) /\ Timed(y) /\ Budget(y, r) /\ Closing(y)
      BY <1>5, <1>7, <1>8, <2>2, <3>1 DEF Aged, Timed, Budget, Closing
    <3>4. Resting(y, cs) /\ Waiting(y, cs, r) /\ Failing(y, cs) /\ Opening(y, cs)
      BY <1>7, <2>2, <2>5, <3>1, <3>2 DEF Resting, Waiting, Failing, Opening, Dormant
    <3>5. Activating(y) /\ Connected(y) /\ Reading(y)
      BY <1>7, <2>5, <3>1 DEF Activating, Connected, Reading
    <3> QED BY <1>6, <1>7, <2>5, <3>1, <3>3, <3>4, <3>5 DEF Sound
  <2>6. Sound(SetState(b, "reconnecting"), cs, r) BY <2>4, <2>5, StateKeeps
  <2> QED BY <1>1, <2>1, <2>6 DEF p
<1> QED BY <1>11, <1>12

\* connect() is settled, unless a listener of the timeline closed.
LEMMA ActivatedKeeps ==
  ASSUME NEW x, NEW cs, NEW r, Sound(x, cs, r), x.stack # <<>>, Head(x.stack).do = "activated"
  PROVE  Sound(Activated(PopOf(x), Head(x.stack).arg), cs, r)
<1> DEFINE p == PopOf(x)
           g == Head(x.stack).arg
           z == [p EXCEPT !.pending = FALSE]
           e == Then(z, "events", g)
<1>1. cs \in SUBSET Nat /\ Head(x.stack).do \notin {"close", "fail"} BY DEF Sound
<1>2. Sound(p, cs, r) BY <1>1, PopKeeps
<1>3. /\ p \in Session /\ Agree(x, p, {"stack"}) /\ p.stack = <<>> /\ g \in Nat
      /\ (Has(x.stack, "close") <=> Has(p.stack, "close"))
      /\ On(x.stack, "activated", g)
  BY PopShape DEF Sound, Frame
<1> HIDE DEF p, g
<1>4. CASE ~Current(p, g)
  <2>1. Activated(p, g) = p BY <1>4 DEF Activated
  <2> QED BY <1>2, <2>1 DEF p, g
<1>5. CASE Current(p, g)
  <2>1. Activated(p, g) = SetState(e, "connected") BY <1>5 DEF Activated
  <2>2. z \in Session /\ Agree(p, z, {"pending"}) BY <1>3 DEF Session, Agree, Fields
  <2> HIDE DEF z
  <2>3. [do |-> "events", arg |-> g] \in Frame BY <1>3 DEF Frame
  <2>4. z.stack = <<>> BY <1>3, <2>2 DEF Agree, Fields
  <2>5. /\ e \in Session /\ Agree(z, e, {"stack"}) /\ Bottom(e.stack)
        /\ \A k : Has(e.stack, k) <=> k = "events" \/ Has(z.stack, k)
        /\ \A k, h : On(e.stack, k, h) <=> (k = "events" /\ h = g) \/ On(z.stack, k, h)
    BY <2>2, <2>3, <2>4, ThenShape, EmptyStack, SMTT(30)
  <2> HIDE DEF e
  <2>6. /\ ~Has(e.stack, "close") /\ ~Has(e.stack, "fail") /\ ~Has(p.stack, "close")
        /\ \A h : ~On(e.stack, "opened", h) /\ ~On(e.stack, "activated", h)
    <3>1. \A k : ~Has(<<>>, k) /\ \A h : ~On(<<>>, k, h) BY EmptyStack
    <3>2. "close" # "events" /\ "fail" # "events" /\ "opened" # "events" /\ "activated" # "events"
      OBVIOUS
    <3> QED BY <1>3, <2>4, <2>5, <3>1, <3>2
  <2>7. /\ p.generation = x.generation /\ p.manuallyClosed = x.manuallyClosed
        /\ p.phase = x.phase /\ p.attempts = x.attempts /\ p.socket = x.socket
        /\ p.timers = x.timers /\ p.handle = x.handle /\ p.status = x.status
    BY <1>3 DEF Agree, Fields
  <2>8. g = x.generation /\ ~x.manuallyClosed BY <1>5, <2>7 DEF Current
  <2>9. Live(x) BY <1>3, <2>6, <2>8 DEF Sound, Activating
  <2>10. ASSUME NEW y \in Session, Agree(e, y, {"state"}), y.state = "connected"
         PROVE  Sound(y, cs, r)
    <3>1. /\ y.generation = x.generation /\ y.manuallyClosed = x.manuallyClosed
          /\ y.phase = x.phase /\ y.attempts = x.attempts /\ y.socket = x.socket
          /\ y.timers = x.timers /\ y.handle = x.handle /\ y.status = x.status
          /\ y.stack = e.stack
      BY <2>2, <2>5, <2>7, <2>10 DEF Agree, Fields
    <3>2. \A t \in x.timers : t[1] # "reconnect"
      BY <2>9 DEF Sound, Waiting, Timed, Dormant, Live
    <3>3. Aged(y, cs) /\ Timed(y) /\ Budget(y, r) /\ Closing(y)
      BY <2>6, <2>8, <3>1 DEF Sound, Aged, Timed, Budget, Closing
    <3>4. Resting(y, cs) /\ Waiting(y, cs, r) /\ Failing(y, cs)
      BY <2>6, <2>10, <3>1, <3>2 DEF Resting, Waiting, Failing
    <3>6. x.generation \notin cs BY <2>9 DEF Sound, Opening, Live
    <3>7. Opening(y, cs) BY <2>6, <3>1, <3>6 DEF Opening
    <3>5. Activating(y) /\ Connected(y) /\ Reading(y)
      BY <2>6, <2>9, <3>1 DEF Activating, Connected, Reading, Live
    <3> QED BY <1>1, <2>5, <2>10, <3>1, <3>3, <3>4, <3>5, <3>7 DEF Sound
  <2>11. Sound(SetState(e, "connected"), cs, r) BY <2>5, <2>10, StateKeeps
  <2> QED BY <2>1, <2>11 DEF p, g
<1> QED BY <1>4, <1>5

LEMMA ContinueKeeps ==
  ASSUME Sound(self, creds, retries), Continue
  PROVE  Sound(self', creds', retries')
<1> DEFINE f == Head(self.stack)
<1>1. self.stack # <<>> BY DEF Continue, AtRest
<1>2. self \in Session /\ creds \in SUBSET Nat BY DEF Sound
<1>3. f \in Frame BY <1>1, <1>2, PopShape
<1>4. /\ self' = CASE f.do = "close" -> CloseRest(PopOf(self))
                   [] f.do = "fail" -> FailRest(PopOf(self), f.arg = 1)
                   [] f.do = "activated" -> Activated(PopOf(self), f.arg)
                   [] f.do = "events" -> IF Current(self, f.arg) THEN Listen(PopOf(self))
                                         ELSE PopOf(self)
                   [] OTHER -> PopOf(self)
      /\ creds' = IF f.do = "opened" /\ Current(self, f.arg) THEN creds \cup {f.arg} ELSE creds
      /\ retries' = retries
  BY DEF Continue, Top, Popped, PopOf
<1> HIDE DEF f
<1>5. CASE f.do = "close"
  <2>1. self' = CloseRest(PopOf(self)) /\ creds' = creds BY <1>4, <1>5
  <2> QED BY <1>1, <1>4, <1>5, <2>1, CloseRestKeeps DEF f
<1>6. CASE f.do = "fail"
  <2>1. self' = FailRest(PopOf(self), f.arg = 1) /\ creds' = creds BY <1>4, <1>6
  <2>2. (f.arg = 1) \in BOOLEAN OBVIOUS
  <2>3. Sound(FailRest(PopOf(self), f.arg = 1), creds, retries)
    BY <1>1, <1>6, <2>2, FailRestKeeps DEF f
  <2> QED BY <1>4, <2>1, <2>3
<1>7. CASE f.do = "activated"
  <2>1. self' = Activated(PopOf(self), f.arg) /\ creds' = creds BY <1>4, <1>7
  <2> QED BY <1>1, <1>4, <1>7, <2>1, ActivatedKeeps DEF f
<1>8. CASE f.do = "events"
  <2>1. creds' = creds /\ (self' = Listen(PopOf(self)) \/ self' = PopOf(self)) BY <1>4, <1>8
  <2>2. Sound(PopOf(self), creds, retries) BY <1>1, <1>2, <1>8, PopKeeps DEF f
  <2> QED BY <1>4, <2>1, <2>2, ListenKeeps
<1>9. CASE f.do \in {"listen", "opened", "activate"}
  <2>1. self' = PopOf(self) BY <1>4, <1>9
  <2>2. creds' = creds \/ (f.do = "opened" /\ f.arg = self.generation
                           /\ creds' = creds \cup {self.generation})
    BY <1>4 DEF Current
  <2>3. creds' \in SUBSET Nat BY <1>2, <2>2 DEF Session
  <2> QED BY <1>1, <1>4, <1>9, <2>1, <2>2, <2>3, PopKeeps DEF f
<1> QED BY <1>3, <1>5, <1>6, <1>7, <1>8, <1>9 DEF Frame

-----------------------------------------------------------------------------
(* Callbacks of credentials, sockets and timers start at rest.             *)

\* The credential opens the socket.
LEMMA AttachKeeps ==
  ASSUME NEW x, NEW cs, NEW r, Sound(x, cs, r), x.stack = <<>>, x.generation \in cs
  PROVE  Sound([x EXCEPT !.socket = x.generation], cs \ {x.generation}, r)
<1> DEFINE y == [x EXCEPT !.socket = x.generation]
           ds == cs \ {x.generation}
<1>1. y \in Session /\ Agree(x, y, {"socket"}) /\ y.socket = x.generation
  BY DEF Sound, Session, Agree, Fields
<1> HIDE DEF y
<1>2. /\ y.state = x.state /\ y.generation = x.generation /\ y.manuallyClosed = x.manuallyClosed
      /\ y.phase = x.phase /\ y.attempts = x.attempts /\ y.pending = x.pending
      /\ y.timers = x.timers /\ y.handle = x.handle /\ y.status = x.status /\ y.stack = <<>>
  BY <1>1 DEF Agree, Fields
<1>3. \A d : ~Has(<<>>, d) /\ \A g : ~On(<<>>, d, g) BY EmptyStack
<1>4. x.phase = "opening" /\ ds \in SUBSET Nat BY DEF Sound, Opening
<1>5. x.state \in {"connecting", "reconnecting", "connected"} /\ ~x.manuallyClosed
      /\ \A t \in x.timers : t[1] \in {"handshake", "stable"}
  BY Busy
<1>6. Aged(y, ds) /\ Timed(y) /\ Budget(y, r) /\ Closing(y)
  BY <1>1, <1>2, <1>3, <1>5 DEF Sound, Aged, Timed, Budget, Closing
<1>7. Resting(y, ds) /\ Waiting(y, ds, r) /\ Failing(y, ds) /\ Opening(y, ds)
  BY <1>2, <1>3, <1>5 DEF Resting, Waiting, Failing, Opening
<1>8. x.state # "connected"
  BY <1>3, <1>4 DEF Sound, Connected, Live, Interrupted
<1>9. Activating(y) /\ Connected(y) /\ Reading(y)
  BY <1>2, <1>3, <1>4, <1>8 DEF Activating, Connected, Reading
<1>10. Bottom(y.stack) /\ (y.state = "connecting" => y.pending)
  BY <1>2 DEF Sound
<1>11. Sound(y, ds, r) BY <1>1, <1>4, <1>6, <1>7, <1>9, <1>10 DEF Sound
<1> QED BY <1>11 DEF y

LEMMA CredentialKeeps ==
  ASSUME Sound(self, creds, retries), NEW g \in creds, CredentialSettles(g)
  PROVE  Sound(self', creds', retries')
<1>1. self.stack = <<>> /\ creds' = creds \ {g} /\ retries' = retries
  BY DEF CredentialSettles, AtRest
<1>2. self \in Session BY DEF Sound
<1>3. Sound(self, creds', retries) BY <1>1, FewerKeeps
<1>4. CASE ~Current(self, g)
  <2>1. self' = self BY <1>4 DEF CredentialSettles, FailAttempt
  <2> QED BY <1>1, <1>3, <2>1
<1>5. CASE Current(self, g)
  <2>1. g = self.generation BY <1>5 DEF Current
  <2>2. CASE self' = [self EXCEPT !.socket = g]
    BY <1>1, <2>1, <2>2, AttachKeeps
  <2>3. CASE \E retry \in BOOLEAN : self' = FailAttempt(self, g, retry)
    <3>1. Agree(self, self, {"timers"}) BY DEF Agree
    <3>2. PICK retry \in BOOLEAN : self' = FailAttempt(self, g, retry) BY <2>3
    <3>3. Sound(self', creds, retries) BY <1>1, <1>2, <2>1, <3>1, <3>2, BusyFails
    <3> QED BY <1>1, <3>3, FewerKeeps
  <2> QED BY <1>5, <2>2, <2>3 DEF CredentialSettles
<1> QED BY <1>4, <1>5

\* The attached socket is the generation's, and its attempt is under way.
LEMMA Attached ==
  ASSUME NEW x, NEW cs, NEW r, Sound(x, cs, r), x.stack = <<>>, x.socket # 0
  PROVE  /\ x.socket = x.generation /\ ~x.manuallyClosed /\ x.generation \notin cs
         /\ \A retry \in BOOLEAN : Sound(FailAttempt(x, x.generation, retry), cs, r)
<1>1. x \in Session /\ Agree(x, x, {"timers"}) BY DEF Sound, Agree
<1>2. \A retry \in BOOLEAN : Sound(FailAttempt(x, x.generation, retry), cs, r)
  BY <1>1, BusyFails
<1>3. x.socket = x.generation /\ x.generation \notin cs BY DEF Sound, Aged, Opening
<1> QED BY <1>2, <1>3, Busy

\* Inert frames, in the order in which deliver() leaves them.
LEMMA DeliverKeeps ==
  ASSUME NEW x, NEW cs, NEW r, Sound(x, cs, r), NEW event, NEW published \in BOOLEAN
  PROVE  Sound(Deliver(x, event, published), cs, r)
<1> DEFINE y == IF event = "history" THEN Then(x, "activate", x.generation) ELSE x
           z == Then(y, "events", x.generation)
<1>1. x.generation \in Nat BY DEF Sound, Session
<1>2. Sound(y, cs, r) BY <1>1, InertKeeps
<1> HIDE DEF y
<1>3. Sound(z, cs, r) BY <1>1, <1>2, InertKeeps
<1>4. Deliver(x, event, published) = IF published THEN Listen(z) ELSE z BY DEF Deliver, y
<1> HIDE DEF z
<1> QED BY <1>3, <1>4, ListenKeeps

\* An event changes what was read, not the attempt.
LEMMA ReadKeeps ==
  ASSUME NEW x, NEW cs, NEW r, Sound(x, cs, r), x.stack = <<>>, x.socket # 0,
         NEW y \in Session, Agree(x, y, {"phase", "status", "items", "synced"}),
         Connected(y), Reading(y)
  PROVE  Sound(y, cs, r)
<1>1. /\ y.state = x.state /\ y.generation = x.generation /\ y.manuallyClosed = x.manuallyClosed
      /\ y.attempts = x.attempts /\ y.pending = x.pending /\ y.socket = x.socket
      /\ y.timers = x.timers /\ y.handle = x.handle /\ y.stack = <<>>
  BY DEF Agree, Fields
<1>2. \A d : ~Has(<<>>, d) /\ \A g : ~On(<<>>, d, g) BY EmptyStack
<1>3. x.generation \notin cs BY Attached
<1>4. Aged(y, cs) /\ Timed(y) /\ Budget(y, r) /\ Closing(y)
  BY <1>1, <1>2 DEF Sound, Aged, Timed, Budget, Closing
<1>5. Resting(y, cs) /\ Waiting(y, cs, r) /\ Failing(y, cs) /\ Opening(y, cs) /\ Activating(y)
  BY <1>1, <1>2, <1>3 DEF Sound, Resting, Waiting, Failing, Opening, Activating, Dormant
<1>6. cs \in SUBSET Nat /\ Bottom(y.stack) /\ (y.state = "connecting" => y.pending)
  BY <1>1 DEF Sound
<1> QED BY <1>4, <1>5, <1>6 DEF Sound

\* A synchronization outside the handshake.
LEMMA SynchronizeKeeps ==
  ASSUME NEW x, NEW cs, NEW r, Sound(x, cs, r), x.phase # "history"
  PROVE  Sound(Synchronize(x), cs, r)
<1> DEFINE y == [x EXCEPT !.status = "synchronized", !.synced = TRUE]
<1>1. /\ y \in Session /\ Agree(x, y, {"status", "synced"}) /\ y.status = "synchronized"
  BY DEF Sound, Session, Agree, Fields
<1>2. Synchronize(x) = IF x.status # "synchronizing" THEN x ELSE Listen(y) BY DEF Synchronize
<1> HIDE DEF y
<1>3. /\ y.state = x.state /\ y.generation = x.generation /\ y.manuallyClosed = x.manuallyClosed
      /\ y.phase = x.phase /\ y.attempts = x.attempts /\ y.pending = x.pending
      /\ y.socket = x.socket /\ y.timers = x.timers /\ y.handle = x.handle /\ y.stack = x.stack
  BY <1>1 DEF Agree, Fields
<1>4. Aged(y, cs) /\ Timed(y) /\ Budget(y, r) /\ Closing(y)
  BY <1>3 DEF Sound, Aged, Timed, Budget, Closing
<1>5. Resting(y, cs) /\ Waiting(y, cs, r) /\ Failing(y, cs) /\ Opening(y, cs)
  BY <1>3 DEF Sound, Resting, Waiting, Failing, Opening, Dormant
<1>6. Live(x) => Live(y) BY <1>1, <1>3 DEF Live
<1>7. Activating(y) /\ Connected(y) /\ Reading(y)
  BY <1>3, <1>6 DEF Sound, Activating, Connected, Reading, Interrupted
<1>8. cs \in SUBSET Nat /\ Bottom(y.stack) /\ (y.state = "connecting" => y.pending)
  BY <1>3 DEF Sound
<1>9. Sound(y, cs, r) BY <1>1, <1>4, <1>5, <1>7, <1>8 DEF Sound
<1> QED BY <1>2, <1>9, ListenKeeps

\* The reply to the activation: deadline off, stability timer on, timeline
\* synchronized, and the rest left to do.
LEMMA ActivateKeeps ==
  ASSUME NEW x, NEW cs, NEW r, Sound(x, cs, r), x.stack = <<>>, x.socket # 0, x.phase = "history"
  PROVE  Sound(Activate(x), cs, r)
<1> DEFINE a == [x EXCEPT !.phase = "active"]
           b == Clear(a, {"handshake"})
           c == Start(b, "stable")
           d == Then(c, "activated", x.generation)
           e == [d EXCEPT !.status = "synchronized", !.synced = TRUE]
<1>1. Activate(x) = Synchronize(d) BY DEF Activate
<1>2. /\ x \in Session /\ x.generation \in Nat /\ cs \in SUBSET Nat
      /\ [do |-> "activated", arg |-> x.generation] \in Frame
  BY DEF Sound, Session, Frame
<1>3. a \in Session /\ Agree(x, a, {"phase"}) /\ a.phase = "active"
  BY <1>2 DEF Session, Agree, Fields
<1> HIDE DEF a
<1>4. /\ b \in Session /\ Agree(a, b, {"timers", "handle"})
      /\ b.timers = {t \in a.timers : t[1] \notin {"handshake"} \/ t[2] # a.handle[t[1]]}
      /\ \A j \in Kinds : b.handle[j] = IF j \in {"handshake"} THEN 0 ELSE a.handle[j]
  BY <1>3, ClearShape
<1> HIDE DEF b
<1>5. /\ c \in Session /\ Agree(b, c, {"timers", "handle"})
      /\ c.timers = b.timers \cup {<<"stable", b.generation>>}
      /\ \A j \in Kinds : c.handle[j] = IF j = "stable" THEN b.generation ELSE b.handle[j]
  BY <1>4, StartShape DEF Kinds
<1> HIDE DEF c
<1>6. c.stack = <<>> BY <1>3, <1>4, <1>5 DEF Agree, Fields
<1>7. /\ d \in Session /\ Agree(c, d, {"stack"}) /\ Bottom(d.stack)
      /\ \A k : Has(d.stack, k) <=> k = "activated" \/ Has(c.stack, k)
      /\ \A k, g : On(d.stack, k, g) <=> (k = "activated" /\ g = x.generation) \/ On(c.stack, k, g)
  BY <1>2, <1>5, <1>6, ThenShape, EmptyStack, SMTT(30)
<1> HIDE DEF d
<1>8. e \in Session /\ Agree(d, e, {"status", "synced"}) /\ e.status = "synchronized"
  BY <1>7 DEF Session, Agree, Fields
<1>9. Synchronize(d) = IF d.status # "synchronizing" THEN d ELSE Listen(e) BY DEF Synchronize
<1> HIDE DEF e
<1>10. /\ e.state = x.state /\ e.generation = x.generation /\ e.manuallyClosed = x.manuallyClosed
       /\ e.phase = "active" /\ e.attempts = x.attempts /\ e.pending = x.pending
       /\ e.socket = x.socket /\ e.stack = d.stack /\ d.status = x.status
       /\ e.timers = c.timers /\ e.handle = c.handle
       /\ a.timers = x.timers /\ a.handle = x.handle /\ b.generation = x.generation
  BY <1>3, <1>4, <1>5, <1>7, <1>8 DEF Agree, Fields
<1>11. /\ ~Has(d.stack, "close") /\ ~Has(d.stack, "fail")
       /\ \A g : ~On(d.stack, "opened", g)
       /\ \A g : On(d.stack, "activated", g) => g = x.generation
  <2>1. \A k : ~Has(c.stack, k) /\ \A g : ~On(c.stack, k, g) BY <1>6, EmptyStack
  <2>2. "close" # "activated" /\ "fail" # "activated" /\ "opened" # "activated" OBVIOUS
  <2> QED BY <1>7, <2>1, <2>2
<1>12. /\ x.socket = x.generation /\ ~x.manuallyClosed /\ x.generation \notin cs
       /\ x.state \in {"connecting", "reconnecting", "connected"}
       /\ \A t \in x.timers : t[1] \in {"handshake", "stable"} /\ t[2] = x.handle[t[1]]
  BY Attached, Busy
<1>13. ~Interrupted(x) BY EmptyStack DEF Interrupted
<1>14. x.status = "synchronizing" /\ x.state \in {"connecting", "reconnecting"}
  BY <1>12, <1>13 DEF Sound, Reading, Connected, Live
<1>15. \A t \in e.timers : t[1] = "stable" /\ t[2] = x.generation
  <2> SUFFICES ASSUME NEW t \in c.timers PROVE t[1] = "stable" /\ t[2] = x.generation BY <1>10
  <2>1. CASE t = <<"stable", b.generation>> BY <1>10, <2>1
  <2>2. CASE t \in b.timers
    <3>1. t \in x.timers /\ t[1] # "handshake" BY <1>4, <1>10, <1>12, <2>2
    <3>2. t[2] = x.generation BY <3>1 DEF Sound, Timed
    <3> QED BY <1>12, <3>1, <3>2
  <2> QED BY <1>5, <2>1, <2>2
<1>16. e.handle["stable"] = x.generation /\ e.handle["handshake"] = 0
  BY <1>4, <1>5, <1>10 DEF Kinds
<1>17. Aged(e, cs)
  <2>1. x.generation <= x.generation BY <1>2
  <2> QED BY <1>10, <1>11, <1>12, <2>1 DEF Sound, Aged
<1>18. Timed(e) /\ Closing(e) BY <1>10, <1>12, <1>15, <1>16 DEF Timed, Closing
<1>19. Budget(e, r) BY <1>10 DEF Sound, Budget
<1>20. Resting(e, cs) /\ Waiting(e, cs, r) /\ Failing(e, cs) /\ Opening(e, cs)
  BY <1>10, <1>11, <1>12, <1>14, <1>15 DEF Resting, Waiting, Failing, Opening
<1>21. Activating(e) /\ Connected(e) /\ Reading(e)
  BY <1>8, <1>10, <1>12, <1>14, <1>16 DEF Activating, Connected, Reading, Live
<1>22. Bottom(e.stack) /\ (e.state = "connecting" => e.pending)
  BY <1>7, <1>10 DEF Sound
<1>23. Sound(e, cs, r) BY <1>2, <1>8, <1>17, <1>18, <1>19, <1>20, <1>21, <1>22 DEF Sound
<1>24. Activate(x) = Listen(e) BY <1>1, <1>9, <1>10, <1>14
<1> QED BY <1>23, <1>24, ListenKeeps

LEMMA HandleKeeps ==
  ASSUME NEW x, NEW cs, NEW r, Sound(x, cs, r), x.stack = <<>>, x.socket # 0,
         NEW event \in Events, NEW items \in BOOLEAN
  PROVE  Sound(Handle(x, event, items), cs, r)
<1>1. x \in Session BY DEF Sound
<1>2. Sound(ProtocolError(x), cs, r) BY Attached DEF ProtocolError
<1>3. ~Interrupted(x) BY EmptyStack DEF Interrupted
<1>4. x.state = "connected" => x.phase = "active" BY <1>3 DEF Sound, Connected, Live
<1>5. CASE event = "auth.required"
  <2>1. Sound(Deliver(x, event, FALSE), cs, r) BY DeliverKeeps
  <2>2. Handle(x, event, items) \in {ProtocolError(x), Deliver(x, event, FALSE)}
    BY <1>5 DEF Handle
  <2> QED BY <1>2, <2>1, <2>2
<1>6. CASE event = "ready"
  <2> DEFINE y == [x EXCEPT !.phase = "ready", !.status = "synchronizing"]
  <2>1. CASE x.phase # "opening"
    <3>1. Handle(x, event, items) = ProtocolError(x) BY <1>6, <2>1 DEF Handle
    <3> QED BY <1>2, <3>1
  <2>2. CASE x.phase = "opening"
    <3>1. Handle(x, event, items) = Deliver(y, event, TRUE) BY <1>6, <2>2 DEF Handle
    <3>2. /\ y \in Session /\ Agree(x, y, {"phase", "status", "items", "synced"})
          /\ y.phase = "ready" /\ y.state = x.state
      BY <1>1 DEF Session, Agree, Fields
    <3> HIDE DEF y
    <3>3. Connected(y) /\ Reading(y) BY <1>4, <2>2, <3>2 DEF Connected, Reading
    <3>4. Sound(y, cs, r) BY <3>2, <3>3, ReadKeeps
    <3> QED BY <3>1, <3>4, DeliverKeeps
  <2> QED BY <2>1, <2>2
<1>7. CASE event = "history"
  <2> DEFINE y == [x EXCEPT !.phase = "history", !.status = "synchronizing", !.items = items]
  <2>1. CASE x.phase # "ready"
    <3>1. Handle(x, event, items) = ProtocolError(x) BY <1>7, <2>1 DEF Handle
    <3> QED BY <1>2, <3>1
  <2>2. CASE x.phase = "ready"
    <3>1. Handle(x, event, items) = Deliver(y, event, TRUE) BY <1>7, <2>2 DEF Handle
    <3>2. /\ y \in Session /\ Agree(x, y, {"phase", "status", "items", "synced"})
          /\ y.state = x.state /\ y.status = "synchronizing"
      BY <1>1 DEF Session, Agree, Fields
    <3> HIDE DEF y
    <3>3. Connected(y) /\ Reading(y) BY <1>4, <2>2, <3>2 DEF Connected, Reading
    <3>4. Sound(y, cs, r) BY <3>2, <3>3, ReadKeeps
    <3> QED BY <3>1, <3>4, DeliverKeeps
  <2> QED BY <2>1, <2>2
<1>8. CASE event = "sync.completed"
  <2>1. CASE x.phase = "history"
    <3>1. Handle(x, event, items) = Activate(x) BY <1>8, <2>1 DEF Handle
    <3> QED BY <2>1, <3>1, ActivateKeeps
  <2>2. CASE x.phase # "history"
    <3> DEFINE y == Deliver(x, event, FALSE)
    <3>1. Handle(x, event, items) = Synchronize(y) BY <1>8, <2>2 DEF Handle
    <3>2. Sound(y, cs, r) BY DeliverKeeps
    <3>3. y = Then(x, "events", x.generation) BY <1>8 DEF Deliver
    <3>4. [do |-> "events", arg |-> x.generation] \in Frame BY <1>1 DEF Session, Frame
    <3> HIDE DEF y
    <3>5. Agree(x, Then(x, "events", x.generation), {"stack"}) BY <1>1, <3>4, ThenShape
    <3>6. y.phase # "history" BY <2>2, <3>3, <3>5 DEF Agree, Fields
    <3> QED BY <3>1, <3>2, <3>6, SynchronizeKeeps
  <2> QED BY <2>1, <2>2
<1>9. CASE event = "message"
  <2> DEFINE y == [x EXCEPT !.items = TRUE]
  <2>1. Handle(x, event, items) = Deliver(y, event, TRUE) BY <1>9 DEF Handle
  <2>2. /\ y \in Session /\ Agree(x, y, {"phase", "status", "items", "synced"})
        /\ Agree(x, y, {"items"})
    BY <1>1 DEF Session, Agree, Fields
  <2> HIDE DEF y
  <2>3. /\ y.state = x.state /\ y.phase = x.phase /\ y.socket = x.socket /\ y.status = x.status
        /\ y.generation = x.generation /\ y.handle = x.handle /\ y.stack = x.stack
    BY <2>2 DEF Agree, Fields
  <2>4. Connected(y) /\ Reading(y)
    BY <2>3 DEF Sound, Connected, Reading, Live, Interrupted
  <2>5. Sound(y, cs, r) BY <2>2, <2>4, ReadKeeps
  <2> QED BY <2>1, <2>5, DeliverKeeps
<1>10. CASE event = "invalid"
  <2>1. Handle(x, event, items) = ProtocolError(x) BY <1>10 DEF Handle
  <2> QED BY <1>2, <2>1
<1> QED BY <1>5, <1>6, <1>7, <1>8, <1>9, <1>10 DEF Events

LEMMA ReceiveKeeps ==
  ASSUME Sound(self, creds, retries), NEW event \in Events, SocketReceives(event)
  PROVE  Sound(self', creds', retries')
<1>1. self.stack = <<>> /\ self.socket # 0 /\ creds' = creds /\ retries' = retries
  BY DEF SocketReceives, AtRest
<1>2. PICK items \in BOOLEAN :
         self' = IF Current(self, self.socket) THEN Handle(self, event, items) ELSE self
  BY DEF SocketReceives
<1>3. Sound(Handle(self, event, items), creds, retries) BY <1>1, HandleKeeps
<1> QED BY <1>1, <1>2, <1>3

LEMMA SocketFailKeeps ==
  ASSUME Sound(self, creds, retries), NEW retry \in BOOLEAN, SocketFails(retry)
  PROVE  Sound(self', creds', retries')
<1>1. /\ self.stack = <<>> /\ self.socket # 0 /\ creds' = creds /\ retries' = retries
      /\ self' = FailAttempt(self, self.socket, retry)
  BY DEF SocketFails, AtRest
<1> QED BY <1>1, Attached

\* A timer that is taken off the list before its callback runs.
LEMMA TakeShape ==
  ASSUME NEW x \in Session, NEW t
  PROVE  /\ [x EXCEPT !.timers = @ \ {t}] \in Session
         /\ Agree(x, [x EXCEPT !.timers = @ \ {t}], {"timers"})
         /\ [x EXCEPT !.timers = @ \ {t}].timers = x.timers \ {t}
<1> DEFINE ts == x.timers \ {t}
<1>1. ts \in SUBSET (Kinds \X Nat) BY DEF Session
<1> HIDE DEF ts
<1>2. /\ [x EXCEPT !.timers = ts] \in Session /\ Agree(x, [x EXCEPT !.timers = ts], {"timers"})
      /\ [x EXCEPT !.timers = ts].timers = ts
  BY <1>1 DEF Session, Agree, Fields
<1> QED BY <1>2 DEF ts

LEMMA HandshakeKeeps ==
  ASSUME Sound(self, creds, retries), NEW t, HandshakeExpires(t)
  PROVE  Sound(self', creds', retries')
<1> DEFINE y == [self EXCEPT !.timers = @ \ {t}]
<1>1. /\ self.stack = <<>> /\ t \in self.timers /\ t[1] = "handshake"
      /\ self' = FailAttempt(y, t[2], TRUE) /\ creds' = creds /\ retries' = retries
  BY DEF HandshakeExpires, AtRest
<1>2. y \in Session /\ Agree(self, y, {"timers"}) /\ y.timers \subseteq self.timers
  BY TakeShape DEF Sound
<1> HIDE DEF y
<1>3. t[2] = self.generation /\ t[1] # "reconnect" BY <1>1 DEF Sound, Timed
<1>4. Sound(FailAttempt(y, self.generation, TRUE), creds, retries)
  BY <1>1, <1>2, <1>3, BusyFails
<1> QED BY <1>1, <1>3, <1>4

LEMMA ReconnectKeeps ==
  ASSUME Sound(self, creds, retries), NEW t, ReconnectFires(t)
  PROVE  Sound(self', creds', retries')
<1> DEFINE y == [self EXCEPT !.timers = @ \ {t}]
           h == [y.handle EXCEPT !["reconnect"] = 0]
           z == [y EXCEPT !.handle = h]
<1>1. /\ self.stack = <<>> /\ t \in self.timers /\ t[1] = "reconnect" /\ creds' = creds
      /\ IF Current(y, t[2])
         THEN self' = OpenSocket(z, "reconnecting") /\ retries' = retries + 1
         ELSE self' = y /\ retries' = retries
  BY DEF ReconnectFires, AtRest
<1>2. y \in Session /\ Agree(self, y, {"timers"}) /\ y.timers = self.timers \ {t}
  BY TakeShape DEF Sound
<1> HIDE DEF y
<1>3. h \in [Kinds -> Nat] BY <1>2 DEF Session
<1> HIDE DEF h
<1>4. z \in Session /\ Agree(y, z, {"handle"}) BY <1>2, <1>3 DEF Session, Agree, Fields
<1> HIDE DEF z
<1>5. /\ self.state = "reconnecting" /\ Dormant(self, creds) /\ retries < self.attempts
      /\ \A u \in self.timers : u[1] = "reconnect"
  BY <1>1 DEF Sound, Waiting
<1>6. \A u \in self.timers : u[2] = self.generation BY DEF Sound, Timed
<1>7. y.timers = {}
  <2>1. self.timers \in SUBSET (Kinds \X Nat) BY DEF Sound, Session
  <2>2. \A u \in self.timers : u = t BY <1>1, <1>5, <1>6, <2>1
  <2> QED BY <1>2, <2>2
<1>8. ~self.manuallyClosed BY <1>1, <1>5, EmptyStack DEF Sound, Closing
<1>9. /\ y.generation = self.generation /\ y.manuallyClosed = self.manuallyClosed
      /\ z.generation = self.generation /\ z.manuallyClosed = self.manuallyClosed
      /\ z.timers = {} /\ z.socket = self.socket /\ z.stack = <<>> /\ z.attempts = self.attempts
  BY <1>1, <1>2, <1>4, <1>7 DEF Agree, Fields
<1>10. Current(y, t[2]) BY <1>1, <1>6, <1>8, <1>9 DEF Current
<1>11. Aged(z, creds) BY <1>1, <1>9 DEF Sound, Aged
<1>12. Budget(z, retries + 1) /\ retries + 1 \in Nat
  <2>1. retries \in Nat /\ self.attempts \in Nat /\ self.attempts <= MaxAttempts
    BY DEF Sound, Budget, Session
  <2> QED BY <1>5, <1>9, <2>1 DEF Budget
<1>13. z.socket = 0 /\ ~Has(z.stack, "fail") /\ Bottom(z.stack)
  BY <1>5, <1>9, EmptyStack DEF Dormant
<1>14. creds \in SUBSET Nat BY DEF Sound
<1>15. Sound(OpenSocket(z, "reconnecting"), creds, retries + 1)
  BY <1>4, <1>8, <1>9, <1>11, <1>12, <1>13, <1>14, OpenKeeps
<1> QED BY <1>1, <1>10, <1>15

LEMMA StableKeeps ==
  ASSUME Sound(self, creds, retries), NEW t, StableFires(t)
  PROVE  Sound(self', creds', retries')
<1> DEFINE x == [self EXCEPT !.timers = @ \ {t}]
           h == [x.handle EXCEPT !["stable"] = 0]
<1>1. /\ self.stack = <<>> /\ t \in self.timers /\ t[1] = "stable" /\ creds' = creds
  BY DEF StableFires, AtRest
<1>2. PICK stable \in BOOLEAN :
         /\ stable => Current(x, t[2])
         /\ self' = IF Current(x, t[2])
                    THEN [x EXCEPT !.handle = h, !.attempts = IF stable THEN 0 ELSE @]
                    ELSE x
         /\ retries' = IF stable THEN 0 ELSE retries
  BY DEF StableFires
<1>3. x \in Session /\ Agree(self, x, {"timers"}) /\ x.timers = self.timers \ {t}
  BY TakeShape DEF Sound
<1> HIDE DEF x
<1> DEFINE n == IF stable THEN 0 ELSE x.attempts
           z == [x EXCEPT !.handle = h, !.attempts = n]
           y == IF Current(x, t[2]) THEN z ELSE x
<1>4. h \in [Kinds -> Nat] /\ n \in Nat /\ \A j \in Kinds : j # "stable" => h[j] = x.handle[j]
  BY <1>3 DEF Session
<1>5. self' = y BY <1>2
<1> HIDE DEF h, n
<1>6. z \in Session /\ Agree(x, z, {"handle", "attempts"}) /\ z.handle = h /\ z.attempts = n
  BY <1>3, <1>4 DEF Session, Agree, Fields
<1> HIDE DEF z
<1>7. /\ y \in Session /\ Agree(x, y, {"handle", "attempts"})
      /\ \A j \in Kinds : j # "stable" => y.handle[j] = x.handle[j]
      /\ y.attempts = n
  <2>1. CASE Current(x, t[2]) BY <1>4, <1>6, <2>1
  <2>2. CASE ~Current(x, t[2])
    <3>1. n = x.attempts BY <1>2, <2>2 DEF n
    <3>2. Agree(x, x, {"handle", "attempts"}) BY DEF Agree
    <3> QED BY <1>3, <2>2, <3>1, <3>2
  <2> QED BY <2>1, <2>2
<1> HIDE DEF y
<1>8. /\ y.state = self.state /\ y.generation = self.generation
      /\ y.manuallyClosed = self.manuallyClosed /\ y.phase = self.phase
      /\ y.pending = self.pending /\ y.socket = self.socket /\ y.timers = self.timers \ {t}
      /\ y.status = self.status /\ y.stack = <<>> /\ x.handle = self.handle
      /\ x.attempts = self.attempts
  BY <1>1, <1>3, <1>7 DEF Agree, Fields
<1>9. \A d : ~Has(<<>>, d) /\ \A g : ~On(<<>>, d, g) BY EmptyStack
<1>10. \A u \in self.timers : u[1] # "reconnect" BY <1>1 DEF Sound, Waiting
<1>11. \A u \in y.timers : u \in self.timers /\ u[1] = "handshake"
  <2>1. self.timers \in SUBSET (Kinds \X Nat) BY DEF Sound, Session
  <2>2. \A u \in self.timers : u[2] = t[2] BY <1>1 DEF Sound, Timed
  <2>3. \A u \in self.timers : u[1] = "stable" => u = t BY <1>1, <2>1, <2>2
  <2> QED BY <1>8, <1>10, <2>1, <2>3 DEF Kinds
<1>12. Timed(y) BY <1>7, <1>8, <1>11 DEF Sound, Timed, Kinds
<1>13. Aged(y, creds) /\ Closing(y) BY <1>1, <1>8 DEF Sound, Aged, Closing
<1>14. Budget(y, retries')
  BY <1>2, <1>7, <1>8, BoundsAssumption DEF Sound, Budget, n
<1>15. Resting(y, creds) /\ Failing(y, creds) /\ Opening(y, creds)
  BY <1>1, <1>8 DEF Sound, Resting, Failing, Opening, Dormant
<1>16. Waiting(y, creds, retries') BY <1>11 DEF Waiting
<1>17. Live(self) => Live(y) BY <1>7, <1>8 DEF Live, Kinds
<1>18. Activating(y) /\ Connected(y) /\ Reading(y)
  BY <1>1, <1>8, <1>9, <1>17 DEF Sound, Activating, Connected, Reading, Interrupted
<1>19. creds \in SUBSET Nat /\ Bottom(y.stack) /\ (y.state = "connecting" => y.pending)
  BY <1>1, <1>8 DEF Sound
<1>20. Sound(y, creds, retries')
  BY <1>7, <1>12, <1>13, <1>14, <1>15, <1>16, <1>18, <1>19 DEF Sound
<1> QED BY <1>1, <1>5, <1>20

-----------------------------------------------------------------------------
LEMMA InitSound == Init => Inv
<1> SUFFICES ASSUME Init PROVE Inv OBVIOUS
<1>1. self = [state |-> "idle", generation |-> 0, manuallyClosed |-> FALSE, phase |-> "opening",
              attempts |-> 0, pending |-> FALSE, socket |-> 0, timers |-> {},
              handle |-> [h \in Kinds |-> 0],
              status |-> "empty", items |-> FALSE, synced |-> FALSE, stack |-> <<>>]
      /\ creds = {} /\ retries = 0 /\ overrun = FALSE
  BY DEF Init, Kinds
<1>2. [h \in Kinds |-> 0] \in [Kinds -> Nat] /\ <<>> \in Seq(Frame) OBVIOUS
<1>3. self \in Session BY <1>1, <1>2 DEF Session
<1>4. /\ self.state = "idle" /\ self.generation = 0 /\ ~self.manuallyClosed
      /\ self.phase = "opening" /\ self.attempts = 0 /\ ~self.pending /\ self.socket = 0
      /\ self.timers = {} /\ self.stack = <<>>
  BY <1>1
<1>5. Bottom(self.stack) /\ \A d : ~Has(self.stack, d) /\ \A g : ~On(self.stack, d, g)
  BY <1>4, EmptyStack
<1>6. Aged(self, creds) /\ Opening(self, creds) /\ Timed(self) /\ Resting(self, creds)
  BY <1>1, <1>4, <1>5 DEF Aged, Opening, Timed, Resting, Dormant
<1>7. /\ Closing(self) /\ Waiting(self, creds, retries) /\ Failing(self, creds)
      /\ Activating(self) /\ Connected(self) /\ Reading(self)
  BY <1>4, <1>5 DEF Closing, Waiting, Failing, Activating, Connected, Reading
<1>8. Budget(self, retries) BY <1>1, <1>4, BoundsAssumption DEF Budget
<1>9. Sound(self, creds, retries) BY <1>1, <1>3, <1>4, <1>5, <1>6, <1>7, <1>8 DEF Sound
<1> QED BY <1>1, <1>9 DEF Inv

\* A call of connect() or close(), from outside or by a listener.
LEMMA CallKeeps ==
  ASSUME Inv, CallConnect(self) \/ CallClose(self)
  PROVE  Inv'
<1>1. CASE overrun BY <1>1 DEF Inv, CallConnect, CallClose
<1>2. CASE ~overrun /\ CallConnect(self)
  <2>1. Sound(self, creds, retries) BY <1>2 DEF Inv
  <2>2. /\ self' = Connect(self) /\ creds' = creds /\ overrun' = overrun
        /\ retries' = IF Connect(self).generation # self.generation THEN 0 ELSE retries
    BY <1>2 DEF CallConnect
  <2>3. Sound(self', creds', retries') BY <2>1, <2>2, ConnectKeeps
  <2> QED BY <1>2, <2>2, <2>3 DEF Inv
<1>3. CASE ~overrun /\ CallClose(self)
  <2>1. Sound(self, creds, retries) BY <1>3 DEF Inv
  <2>2. /\ self' = Close(self) /\ creds' = creds /\ retries' = retries /\ overrun' \in BOOLEAN
        /\ ~overrun' => ~\E i \in DOMAIN self.stack : self.stack[i].do = "fail"
    BY <1>3 DEF CallClose, Inv
  <2>3. CASE overrun' BY <2>2, <2>3 DEF Inv
  <2>4. CASE ~overrun'
    <3>1. self.stack \in Seq(Frame) BY <2>1 DEF Sound, Session
    <3>2. ~Has(self.stack, "fail") BY <2>2, <2>4, <3>1 DEF Has
    <3>3. Sound(self', creds', retries') BY <2>1, <2>2, <3>2, CloseKeeps
    <3> QED BY <2>2, <3>3 DEF Inv
  <2> QED BY <2>3, <2>4
<1> QED BY <1>1, <1>2, <1>3 DEF Inv

LEMMA Step == Inv /\ [Next]_vars => Inv'
<1> SUFFICES ASSUME Inv, [Next]_vars PROVE Inv' OBVIOUS
<1>1. CASE ApplicationConnects \/ ApplicationCloses \/ ListenerConnects \/ ListenerCloses
  BY <1>1, CallKeeps
     DEF ApplicationConnects, ApplicationCloses, ListenerConnects, ListenerCloses
<1>2. CASE Continue
  <2>1. overrun' = overrun BY <1>2 DEF Continue
  <2> QED BY <1>2, <2>1, ContinueKeeps DEF Inv
<1>3. ASSUME NEW g \in creds, CredentialSettles(g) PROVE Inv'
  <2>1. overrun' = overrun BY <1>3 DEF CredentialSettles
  <2> QED BY <1>3, <2>1, CredentialKeeps DEF Inv
<1>4. ASSUME NEW event \in Events, SocketReceives(event) PROVE Inv'
  <2>1. overrun' = overrun BY <1>4 DEF SocketReceives
  <2> QED BY <1>4, <2>1, ReceiveKeeps DEF Inv
<1>5. ASSUME NEW retry \in BOOLEAN, SocketFails(retry) PROVE Inv'
  <2>1. overrun' = overrun BY <1>5 DEF SocketFails
  <2> QED BY <1>5, <2>1, SocketFailKeeps DEF Inv
<1>6. ASSUME NEW t \in self.timers, HandshakeExpires(t) PROVE Inv'
  <2>1. overrun' = overrun BY <1>6 DEF HandshakeExpires
  <2> QED BY <1>6, <2>1, HandshakeKeeps DEF Inv
<1>7. ASSUME NEW t \in self.timers, ReconnectFires(t) PROVE Inv'
  <2>1. overrun' = overrun BY <1>7 DEF ReconnectFires
  <2> QED BY <1>7, <2>1, ReconnectKeeps DEF Inv
<1>8. ASSUME NEW t \in self.timers, StableFires(t) PROVE Inv'
  <2>1. overrun' = overrun BY <1>8 DEF StableFires
  <2> QED BY <1>8, <2>1, StableKeeps DEF Inv
<1>9. CASE UNCHANGED vars BY <1>9 DEF Inv, vars
<1> QED BY <1>1, <1>2, <1>3, <1>4, <1>5, <1>6, <1>7, <1>8, <1>9 DEF Next, Timer

\* What a session's timers, sockets, credentials and interrupted functions
\* have to do with its state, until a listener closes inside failAttempt.
THEOREM SessionInvariance == Spec => []Inv
BY InitSound, Step, PTL DEF Spec

\* close() and the last failure are final: whatever the listeners call on the
\* way, no timer, socket or promise outlives them (close and failAttempt).
THEOREM ClosedStaysQuiet == Spec => []ClosedIsQuiet
<1>1. Inv => ClosedIsQuiet
  <2> SUFFICES ASSUME Inv, self.stack = <<>>, ~overrun, self.manuallyClosed \/ self.state = "closed"
               PROVE  self.state = "closed" /\ self.timers = {} /\ self.socket = 0 /\ ~self.pending
    BY DEF ClosedIsQuiet, AtRest
  <2>1. Sound(self, creds, retries) BY DEF Inv
  <2>2. self.state = "closed" BY <2>1, EmptyStack DEF Sound, Closing
  <2> QED BY <2>1, <2>2 DEF Sound, Resting, Dormant
<1> QED BY <1>1, SessionInvariance, PTL

\* The application never reads "connected" of an attempt that handleMessage
\* has not activated or whose timeline is not synchronized.
THEOREM ConnectedMeansSynchronized == Spec => []ConnectedIsSynchronized
<1>1. Inv => ConnectedIsSynchronized
  <2> SUFFICES ASSUME Inv, self.stack = <<>>, ~overrun, self.state = "connected"
               PROVE  /\ self.phase = "active" /\ self.socket = self.generation
                      /\ self.status = "synchronized" /\ self.handle["handshake"] = 0
    BY DEF ConnectedIsSynchronized, AtRest
  <2>1. Sound(self, creds, retries) BY DEF Inv
  <2>2. ~Interrupted(self) BY EmptyStack DEF Interrupted
  <2> QED BY <2>1, <2>2 DEF Sound, Connected, Live
<1> QED BY <1>1, SessionInvariance, PTL

\* scheduleReconnect reopens at most maxAttempts times, however the attempts end.
THEOREM RetriesStayBounded == Spec => []RetriesBounded
<1>1. Inv => RetriesBounded
  <2> SUFFICES ASSUME Inv, ~overrun PROVE retries <= MaxAttempts BY DEF RetriesBounded
  <2>1. Sound(self, creds, retries) BY DEF Inv
  <2>2. retries \in Nat /\ self.attempts \in Nat BY <2>1 DEF Sound, Budget, Session
  <2> QED BY <2>1, <2>2, BoundsAssumption DEF Sound, Budget
<1> QED BY <1>1, SessionInvariance, PTL
=============================================================================
