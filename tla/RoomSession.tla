---------------------------- MODULE RoomSession ----------------------------
(***************************************************************************)
(* clients/typescript/src/room-session.ts with the status of its           *)
(* room-timeline.ts: one session of the TypeScript client through          *)
(* attempts, deadlines, retries and calls of the application.              *)
(*                                                                         *)
(* JavaScript runs one callback at a time, but a callback notifies         *)
(* listeners in the middle of its work and a listener may call connect()   *)
(* or close() there.  self.stack holds what is left to do: a frame         *)
(* "listen" while listeners run, below it the rest of the function that    *)
(* notified them.  Timers, sockets, credentials and the application act    *)
(* when the stack is empty.  Several listeners are modelled as one that    *)
(* may call several times.                                                 *)
(***************************************************************************)
EXTENDS Naturals, Sequences

CONSTANTS
    MaxAttempts,    \* reconnect.maxAttempts
    MaxCalls,       \* bound: calls of connect() and close()
    MaxLosses       \* bound: failures of a connection that was activated

ASSUME BoundsAssumption == {MaxAttempts, MaxCalls, MaxLosses} \subseteq Nat

VARIABLES
    self,       \* the RoomSession object, its timeline and its live timers
    creds,      \* attempts that await client.credential()
    calls,      \* calls made by the application and its listeners so far
    losses,     \* activated connections lost so far
    retries,    \* attempts opened by the reconnect timer since a call of
                \* connect() that opened one or a stable connection
    overrun     \* close() was called while failAttempt published the timeline

vars == <<self, creds, calls, losses, retries, overrun>>

-----------------------------------------------------------------------------
(* The methods, as functions of the object.                                *)

\* What is to be done before the rest of the stack.
Then(x, do, arg) == [x EXCEPT !.stack = <<[do |-> do, arg |-> arg]>> \o @]
Listen(x) == Then(x, "listen", 0)

Current(x, g) == g = x.generation /\ ~x.manuallyClosed

SetState(x, state) ==
    IF x.state = state THEN x ELSE Listen([x EXCEPT !.state = state])

\* RoomTimeline.markStale
MarkStale(x) ==
    LET status == IF x.items \/ x.synced THEN "stale" ELSE "empty"
    IN  IF x.status = status THEN x ELSE Listen([x EXCEPT !.status = status])

Without(x, kinds) == {t \in x.timers : t[1] \notin kinds \/ t[2] # x.handle[t[1]]}
Cleared(x, kinds) == [h \in DOMAIN x.handle |-> IF h \in kinds THEN 0 ELSE x.handle[h]]
Clear(x, kinds) == [x EXCEPT !.timers = Without(x, kinds), !.handle = Cleared(x, kinds)]
Start(x, kind) ==
    [x EXCEPT !.timers = @ \cup {<<kind, x.generation>>},
              !.handle = [@ EXCEPT ![kind] = x.generation]]

\* mutant: the handshake deadline of a detached attempt keeps running
DetachKeepsDeadline(x) == Clear([x EXCEPT !.generation = @ + 1, !.socket = 0], {"stable"})

DetachAttempt(x) == Clear([x EXCEPT !.generation = @ + 1, !.socket = 0], {"handshake", "stable"})

\* mutant: an attempt gets no handshake deadline
OpenUndated(x, state) ==
    LET g == x.generation + 1
    IN  SetState(Then([x EXCEPT !.generation = g, !.phase = "opening"], "opened", g), state)

OpenSocket(x, state) ==
    LET g == x.generation + 1
    IN  SetState(Then(Start([x EXCEPT !.generation = g, !.phase = "opening"], "handshake"),
                      "opened", g), state)

Connect(x) ==
    IF x.state = "connected" \/ x.pending THEN x
    ELSE LET y == [x EXCEPT !.manuallyClosed = FALSE, !.pending = TRUE]
         IN  IF x.state = "reconnecting" THEN y
             ELSE OpenSocket([y EXCEPT !.attempts = 0], "connecting")

Close(x) == MarkStale(Then([x EXCEPT !.manuallyClosed = TRUE], "close", 0))

\* The rest of close().
CloseRest(x) ==
    SetState([DetachAttempt(Clear(x, {"reconnect"})) EXCEPT !.pending = FALSE], "closed")

FailAttempt(x, g, retry) ==
    IF ~Current(x, g) THEN x
    ELSE MarkStale(Then(DetachAttempt(x), "fail", IF retry THEN 1 ELSE 0))

\* mutant: a retry is scheduled although the budget is used up
ScheduleAnyway(x, retry) ==
    IF ~retry \/ x.attempts > MaxAttempts THEN SetState(x, "closed")
    ELSE SetState(Start([x EXCEPT !.attempts = @ + 1], "reconnect"), "reconnecting")

ScheduleReconnect(x, retry) ==
    IF ~retry \/ x.attempts >= MaxAttempts THEN SetState(x, "closed")
    ELSE SetState(Start([x EXCEPT !.attempts = @ + 1], "reconnect"), "reconnecting")

\* The rest of failAttempt.
FailRest(x, retry) == ScheduleReconnect([x EXCEPT !.pending = FALSE], retry)

-----------------------------------------------------------------------------
(* handleMessage, for an attempt that is current.                          *)

ProtocolError(x) == FailAttempt(x, x.generation, FALSE)

\* Events other than the activation reply: the timeline, then the listeners,
\* then the activation request that answers history.
Deliver(x, event, published) ==
    LET y == IF event = "history" THEN Then(x, "activate", x.generation) ELSE x
        z == Then(y, "events", x.generation)
    IN  IF published THEN Listen(z) ELSE z

\* RoomTimeline.apply of sync.completed or of a pong.
Synchronize(x) ==
    IF x.status # "synchronizing" THEN x
    ELSE Listen([x EXCEPT !.status = "synchronized", !.synced = TRUE])

\* mutant: activation leaves the timeline as it was
ActivateOnly(x) ==
    Then(Start(Clear([x EXCEPT !.phase = "active"], {"handshake"}), "stable"),
         "activated", x.generation)

\* sync.completed, or the pong of an older server, after history.
Activate(x) ==
    Synchronize(Then(Start(Clear([x EXCEPT !.phase = "active"], {"handshake"}), "stable"),
                     "activated", x.generation))

\* The rest of the activation: a listener of the timeline may have closed.
Activated(x, g) ==
    IF ~Current(x, g) THEN x
    ELSE SetState(Then([x EXCEPT !.pending = FALSE], "events", g), "connected")

Handle(x, event, items) ==
    CASE event = "auth.required" ->
            IF x.phase # "opening" THEN ProtocolError(x) ELSE Deliver(x, event, FALSE)
      [] event = "ready" ->
            IF x.phase # "opening" THEN ProtocolError(x)
            ELSE Deliver([x EXCEPT !.phase = "ready", !.status = "synchronizing"], event, TRUE)
      [] event = "history" ->
            IF x.phase # "ready" THEN ProtocolError(x)
            ELSE Deliver([x EXCEPT !.phase = "history", !.status = "synchronizing", !.items = items],
                         event, TRUE)
      [] event = "sync.completed" ->
            IF x.phase = "history" THEN Activate(x) ELSE Synchronize(Deliver(x, event, FALSE))
      [] event = "message" -> Deliver([x EXCEPT !.items = TRUE], event, TRUE)
      [] event = "invalid" -> ProtocolError(x)

Events == {"auth.required", "ready", "history", "sync.completed", "message", "invalid"}

-----------------------------------------------------------------------------
Init ==
    /\ self = [state |-> "idle", generation |-> 0, manuallyClosed |-> FALSE, phase |-> "opening",
               attempts |-> 0, pending |-> FALSE, socket |-> 0, timers |-> {},
               handle |-> [h \in {"handshake", "reconnect", "stable"} |-> 0],
               status |-> "empty", items |-> FALSE, synced |-> FALSE, stack |-> <<>>]
    /\ creds = {} /\ calls = 0 /\ losses = 0 /\ retries = 0 /\ overrun = FALSE

AtRest == self.stack = <<>>
Top == Head(self.stack)
Popped == [self EXCEPT !.stack = Tail(@)]

CallConnect(x) == /\ calls < MaxCalls /\ calls' = calls + 1
                  /\ self' = Connect(x)
                  /\ retries' = IF Connect(x).generation # x.generation THEN 0 ELSE retries
                  /\ UNCHANGED <<creds, losses, overrun>>
CallClose(x) == /\ calls < MaxCalls /\ calls' = calls + 1
                /\ self' = Close(x)
                /\ overrun' = (overrun \/ \E i \in DOMAIN x.stack : x.stack[i].do = "fail")
                /\ UNCHANGED <<creds, losses, retries>>

\* The application calls from outside.
ApplicationConnects == AtRest /\ CallConnect(self)
ApplicationCloses == AtRest /\ CallClose(self)

\* A listener calls, and may call again before it returns.
ListenerConnects == ~AtRest /\ Top.do = "listen" /\ CallConnect(self)
ListenerCloses == ~AtRest /\ Top.do = "listen" /\ CallClose(self)

\* The listeners return, or the function under them goes on.
Continue ==
    /\ ~AtRest
    /\ LET g == Top.arg
       IN  /\ self' = CASE Top.do = "close" -> CloseRest(Popped)
                        [] Top.do = "fail" -> FailRest(Popped, g = 1)
                        [] Top.do = "activated" -> Activated(Popped, g)
                        [] Top.do = "events" -> IF Current(self, g) THEN Listen(Popped) ELSE Popped
                        [] OTHER -> Popped
           /\ creds' = IF Top.do = "opened" /\ Current(self, g) THEN creds \cup {g} ELSE creds
    /\ UNCHANGED <<calls, losses, retries, overrun>>

\* client.credential() settles, in time or late; the factory, the URL or the
\* credential itself may fail.
CredentialSettles(g) ==
    /\ AtRest /\ g \in creds
    /\ creds' = creds \ {g}
    /\ \/ self' = IF Current(self, g) THEN [self EXCEPT !.socket = g] ELSE self
       \/ \E retry \in BOOLEAN : self' = FailAttempt(self, g, retry)
    /\ UNCHANGED <<calls, losses, retries, overrun>>

\* The callbacks of the attached socket; a detached one has none.
MayFail == self.phase = "active" => losses < MaxLosses
Lost == losses' = IF self.phase = "active" THEN losses + 1 ELSE losses

SocketReceives(event) ==
    /\ AtRest /\ self.socket # 0
    /\ event \in {"auth.required", "ready", "history", "invalid"} => MayFail
    /\ \E items \in IF event = "history" THEN BOOLEAN ELSE {TRUE} :
          self' = IF Current(self, self.socket) THEN Handle(self, event, items) ELSE self
    /\ IF event \in {"auth.required", "ready", "history", "invalid"} THEN Lost ELSE UNCHANGED losses
    /\ UNCHANGED <<creds, calls, retries, overrun>>

\* onerror, onclose with a terminal code or another one, a send that throws.
SocketFails(retry) ==
    /\ AtRest /\ self.socket # 0 /\ MayFail
    /\ self' = FailAttempt(self, self.socket, retry)
    /\ Lost
    /\ UNCHANGED <<creds, calls, retries, overrun>>

HandshakeExpires(t) ==
    /\ AtRest /\ t \in self.timers /\ t[1] = "handshake"
    /\ self' = FailAttempt([self EXCEPT !.timers = @ \ {t}], t[2], TRUE)
    /\ UNCHANGED <<creds, calls, losses, retries, overrun>>

ReconnectFires(t) ==
    /\ AtRest /\ t \in self.timers /\ t[1] = "reconnect"
    /\ LET x == [self EXCEPT !.timers = @ \ {t}]
       IN  IF Current(x, t[2])
           THEN /\ self' = OpenSocket([x EXCEPT !.handle = [@ EXCEPT !["reconnect"] = 0]], "reconnecting")
                /\ retries' = retries + 1
           ELSE self' = x /\ UNCHANGED retries
    /\ UNCHANGED <<creds, calls, losses, overrun>>

\* The socket may be closing already: open is socket.readyState.
StableFires(t) ==
    /\ AtRest /\ t \in self.timers /\ t[1] = "stable"
    /\ LET x == [self EXCEPT !.timers = @ \ {t}]
       IN  \E open \in BOOLEAN :
              LET stable == open /\ Current(x, t[2]) /\ x.phase = "active"
              IN  /\ self' = IF Current(x, t[2])
                             THEN [x EXCEPT !.handle = [@ EXCEPT !["stable"] = 0],
                                            !.attempts = IF stable THEN 0 ELSE @]
                             ELSE x
                  /\ retries' = IF stable THEN 0 ELSE retries
    /\ UNCHANGED <<creds, calls, losses, overrun>>

Timer == \E t \in self.timers : HandshakeExpires(t) \/ ReconnectFires(t) \/ StableFires(t)

Next ==
    \/ ApplicationConnects \/ ApplicationCloses \/ ListenerConnects \/ ListenerCloses
    \/ Continue
    \/ \E g \in creds : CredentialSettles(g)
    \/ \E event \in Events : SocketReceives(event)
    \/ \E retry \in BOOLEAN : SocketFails(retry)
    \/ Timer

Spec == Init /\ [][Next]_vars

\* Callbacks run to their end, and a timer that is due gets its turn in the
\* event loop however busy the socket is.  Nothing is assumed of the
\* server, of the credential provider or of the application.
FairSpec ==
    /\ Spec
    /\ WF_vars(Continue)
    /\ SF_vars(\E t \in self.timers : HandshakeExpires(t))
    /\ SF_vars(\E t \in self.timers : ReconnectFires(t))

-----------------------------------------------------------------------------
(* Properties.  They are about sessions whose listeners never called       *)
(* close() while failAttempt published the timeline (overrun): failAttempt *)
(* goes on after such a call, schedules a retry and leaves the closed      *)
(* session "reconnecting" with a timer.                                    *)

\* close() is final: between callbacks a session that was closed, by the
\* application or after its last retry, has no timer, no socket and no
\* pending promise, whichever listener interfered on the way.
ClosedIsQuiet ==
    AtRest /\ ~overrun /\ (self.manuallyClosed \/ self.state = "closed") =>
        self.state = "closed" /\ self.timers = {} /\ self.socket = 0 /\ ~self.pending

\* Between callbacks the application reads "connected" only of an activated
\* attempt whose timeline is synchronized, and then no deadline is running.
ConnectedIsSynchronized ==
    AtRest /\ ~overrun /\ self.state = "connected" =>
        /\ self.phase = "active" /\ self.socket = self.generation
        /\ self.status = "synchronized" /\ self.handle["handshake"] = 0

\* Repeated failures, however the attempts end, reopen the connection at
\* most maxAttempts times before the session closes.
RetriesBounded == overrun \/ retries <= MaxAttempts

\* A promise returned by connect() settles, and a session that is trying to
\* connect ends up connected or closed.
ConnectSettles ==
    /\ self.pending ~> ~self.pending \/ overrun
    /\ self.state \in {"connecting", "reconnecting"} ~> self.state \in {"connected", "closed"} \/ overrun
=============================================================================
