-------------------------- MODULE NewtonRadioProofs --------------------------
(***************************************************************************)
(* Proofs about NewtonRadio, for every number of strips, taps, requests    *)
(* and failures.                                                           *)
(*                                                                         *)
(* A method of the window is called by several others, so there is one     *)
(* lemma per method: from a sound frame it leaves a sound frame.  An       *)
(* action of Next then follows from the lemma of the method it calls.      *)
(* Keeps(f, p) adds what a method leaves as in the frame p that the action *)
(* began with: the hold on the radio, which only RadioExpired and          *)
(* ViewQuitScript end, the count of notes, which SendInk raises, and the   *)
(* chain of the tools watchdog, which ToolConnected starts and ToolWatch   *)
(* goes on with or ends.                                                   *)
(***************************************************************************)
EXTENDS NewtonRadio, SequenceTheorems, FiniteSetTheorems, TLAPS

Linked(f) == f.ep["tool"] # "none" \/ f.ep["pkg"] # "none" => f.link
Granted(f) == f.link => f.held > 0
Stopped(f) == f.stopping => f.ep["chat"] = "none" /\ f.ep["pkg"] = "none"

\* A current idle timer was armed after the last hold.
Armed(f) ==
    \A i \in DOMAIN f.calls :
        f.calls[i].run = "RadioExpired" /\ f.calls[i].current => f.armed

\* A current ink watchdog was armed for the note being sent.
Fresh(f) ==
    \A i \in DOMAIN f.calls :
        f.calls[i].run = "InkExpired" /\ f.calls[i].current => f.calls[i].send = f.asks

Watch(f, i) == f.calls[i].run = "ToolWatch"
OneChain(f) == \A i, j \in DOMAIN f.calls : Watch(f, i) /\ Watch(f, j) => i = j
Ticks(f) == \E i \in DOMAIN f.calls : Watch(f, i)

Loose(f) ==
    f \in Frame /\ Linked(f) /\ Granted(f) /\ Stopped(f) /\ Armed(f) /\ OneChain(f)

\* A connected tools channel is watched, has missed two ticks at most, and was
\* not told to stop.
Tended(f) ==
    f.toolReady => f.toolWatching /\ f.toolMisses <= 2 /\ f.toolStopping = FALSE

Sound(f) == Loose(f) /\ Fresh(f) /\ Tended(f)

Follows(f, p) ==
    /\ f.asks = p.asks
    /\ f.open = p.open
    /\ f.toolWatching = p.toolWatching
    /\ Ticks(f) <=> Ticks(p)
    /\ p.radioHeld => f.radioHeld

Keeps(f, p) == Sound(f) /\ Follows(f, p)

USE DEF Linked, Granted, Stopped

\* What Keeps looks at, but for the endpoints, the link and stopping.
Kept(g, f) ==
    /\ g.calls = f.calls
    /\ g.armed = f.armed
    /\ g.asks = f.asks
    /\ g.radioHeld = f.radioHeld
    /\ g.open = f.open
    /\ g.toolReady = f.toolReady
    /\ g.toolMisses = f.toolMisses
    /\ g.toolWatching = f.toolWatching
    /\ g.toolStopping = f.toolStopping \/ g.toolStopping = FALSE

Alike(g, f) == Kept(g, f) /\ g.link = f.link /\ g.held = f.held

\* What depends on the queue alone.
LEMMA SameCalls ==
    ASSUME NEW f, NEW g, g.calls = f.calls
    PROVE  /\ OneChain(g) <=> OneChain(f)
           /\ Ticks(g) <=> Ticks(f)
           /\ g.armed = f.armed => (Armed(g) <=> Armed(f))
           /\ g.asks = f.asks => (Fresh(g) <=> Fresh(f))
  BY DEF OneChain, Ticks, Watch, Armed, Fresh

\* A method that assigns only other slots keeps what Keeps says, provided it
\* keeps the endpoints and the link in order.
LEMMA KeptLoose ==
    ASSUME NEW f, NEW p, NEW g, Loose(f), Tended(f), Follows(f, p), g \in Frame,
           Kept(g, f), Linked(g), Granted(g), Stopped(g)
    PROVE  Loose(g) /\ Tended(g) /\ Follows(g, p) /\ (Fresh(f) => Fresh(g))
<1>1. /\ OneChain(g) /\ (Ticks(g) <=> Ticks(f)) /\ Armed(g)
      /\ Fresh(f) => Fresh(g)
  BY SameCalls DEF Kept, Loose
<1>2. Loose(g)
  BY <1>1 DEF Loose
<1>3. Tended(g)
  BY DEF Tended, Kept
<1>4. Follows(g, p)
  BY <1>1 DEF Follows, Kept
<1> QED BY <1>1, <1>2, <1>3, <1>4

LEMMA KeptKeeps ==
    ASSUME NEW f, NEW p, NEW g, Keeps(f, p), g \in Frame, Kept(g, f),
           Linked(g), Granted(g), Stopped(g)
    PROVE  Keeps(g, p)
<1>1. Loose(g) /\ Tended(g) /\ Follows(g, p) /\ Fresh(g)
  BY KeptLoose DEF Keeps, Sound
<1> QED BY <1>1 DEF Keeps, Sound

LEMMA AlikeKeeps ==
    ASSUME NEW f, NEW p, NEW g, Keeps(f, p), g \in Frame, Alike(g, f),
           (g.ep = f.ep /\ g.stopping = f.stopping) \/ (Linked(g) /\ Stopped(g))
    PROVE  Keeps(g, p)
<1>1. Linked(g) /\ Granted(g) /\ Stopped(g)
  BY DEF Alike, Keeps, Sound, Loose
<1> QED BY <1>1, KeptKeeps DEF Alike, Kept

LEMMA KeepsFrame ==
    ASSUME NEW f, NEW p, Keeps(f, p)
    PROVE  f \in Frame
  BY DEF Keeps, Sound, Loose

-----------------------------------------------------------------------------
(* The link, the queue and the hold.                                       *)

LEMMA ReleaseLinkKeeps ==
    ASSUME NEW f, NEW p, Keeps(f, p)
    PROVE  /\ Keeps(ReleaseLink(f), p)
           /\ ReleaseLink(f).ep = f.ep
           /\ ReleaseLink(f).toolReady = f.toolReady
<1>1. CASE f.link /\ \A e \in Endpoints : f.ep[e] = "none"
  <2> DEFINE g == [f EXCEPT !.link = FALSE, !.held = @ - 1]
  <2>1. f.held \in Nat /\ f.held > 0 /\ f.held - 1 \in Nat
    BY <1>1 DEF Keeps, Sound, Loose, Frame
  <2>2. g \in Frame
    BY <2>1 DEF Keeps, Sound, Loose, Frame
  <2>3. /\ g.ep = f.ep /\ g.link = FALSE /\ g.stopping = f.stopping
        /\ g.toolReady = f.toolReady /\ Kept(g, f)
    BY DEF Keeps, Sound, Loose, Frame, Kept
  <2> HIDE DEF g
  <2>5. Linked(g) /\ Granted(g) /\ Stopped(g)
    BY <1>1, <2>3 DEF Keeps, Sound, Loose, Endpoints
  <2>4. Keeps(g, p)
    BY <2>2, <2>3, <2>5, KeptKeeps
  <2> QED BY <1>1, <2>3, <2>4 DEF ReleaseLink, g
<1>2. CASE ~(f.link /\ \A e \in Endpoints : f.ep[e] = "none")
  BY <1>2 DEF ReleaseLink
<1> QED BY <1>1, <1>2

LEMMA AddDelayedCallKeeps ==
    ASSUME NEW f, NEW p, Keeps(f, p), NEW run \in Delayed,
           NEW seconds \in {1, 4, 5, 12, 150},
           run = "RadioExpired" => f.armed, run # "ToolWatch"
    PROVE  Keeps(AddDelayedCall(f, run, seconds), p)
<1> DEFINE c == [run |-> run, current |-> TRUE, after |-> seconds, send |-> f.asks]
           q == Append(f.calls, c)
           g == [f EXCEPT !.calls = q]
<1>1. c \in Call /\ f.calls \in Seq(Call)
  BY DEF Call, Keeps, Sound, Loose, Frame
<1>2. /\ q \in Seq(Call) /\ DOMAIN q = 1..(Len(f.calls) + 1)
      /\ \A i \in DOMAIN q : q[i] = IF i = Len(f.calls) + 1 THEN c ELSE f.calls[i]
  BY <1>1
<1> HIDE DEF q
<1>3. g \in Frame
  BY <1>2 DEF Keeps, Sound, Loose, Frame
<1>4. /\ g.ep = f.ep /\ g.link = f.link /\ g.held = f.held /\ g.calls = q
      /\ g.armed = f.armed /\ g.stopping = f.stopping /\ g.asks = f.asks
      /\ g.radioHeld = f.radioHeld /\ g.open = f.open
      /\ g.toolReady = f.toolReady /\ g.toolMisses = f.toolMisses
      /\ g.toolWatching = f.toolWatching /\ g.toolStopping = f.toolStopping
  BY DEF Keeps, Sound, Loose, Frame
<1>5. c.run = run /\ c.current = TRUE /\ c.send = f.asks
  OBVIOUS
<1>10. AddDelayedCall(f, run, seconds) = g
  BY DEF AddDelayedCall, q
<1> HIDE DEF c, g
<1>13. DOMAIN f.calls = 1..Len(f.calls) /\ Len(f.calls) \in Nat
  BY <1>1
<1>14. /\ \A i \in DOMAIN f.calls : i \in DOMAIN q /\ i # Len(f.calls) + 1
       /\ \A i \in DOMAIN q : i = Len(f.calls) + 1 \/ i \in DOMAIN f.calls
       /\ Len(f.calls) + 1 \in DOMAIN q
  BY <1>2, <1>13
<1>6. /\ DOMAIN f.calls = 1..Len(f.calls) /\ Len(f.calls) \in Nat
      /\ q[Len(f.calls) + 1] = c
      /\ \A i \in DOMAIN f.calls : i \in DOMAIN q /\ q[i] = f.calls[i]
      /\ \A i \in DOMAIN q : i = Len(f.calls) + 1 \/ i \in DOMAIN f.calls
  BY <1>2, <1>13, <1>14
<1>7. Armed(g)
  BY <1>4, <1>5, <1>6 DEF Keeps, Sound, Loose, Armed
<1>8. Fresh(g)
  BY <1>4, <1>5, <1>6 DEF Keeps, Sound, Fresh
<1>9. /\ \A i \in DOMAIN f.calls : Watch(g, i) <=> Watch(f, i)
      /\ \A i \in DOMAIN q : Watch(g, i) => i \in DOMAIN f.calls
  BY <1>4, <1>5, <1>6 DEF Watch
<1>11. OneChain(g)
  BY <1>4, <1>9 DEF Keeps, Sound, Loose, OneChain
<1>12. Ticks(g) <=> Ticks(f)
  BY <1>4, <1>6, <1>9 DEF Ticks
<1> QED BY <1>3, <1>4, <1>7, <1>8, <1>10, <1>11, <1>12
        DEF Keeps, Sound, Loose, Tended, Follows

\* The one call that AddDelayedCallKeeps leaves out: the watchdog's, which starts
\* a chain where there is none.
LEMMA AddWatch ==
    ASSUME NEW f, Sound(f), ~Ticks(f), NEW g, g = AddDelayedCall(f, "ToolWatch", 4)
    PROVE  /\ Sound(g) /\ Ticks(g)
           /\ g.asks = f.asks /\ g.open = f.open /\ g.radioHeld = f.radioHeld
           /\ g.toolWatching = f.toolWatching
<1> DEFINE c == [run |-> "ToolWatch", current |-> TRUE, after |-> 4, send |-> f.asks]
           q == Append(f.calls, c)
<1>1. c \in Call /\ f.calls \in Seq(Call)
  BY DEF Call, Sound, Loose, Frame, Delayed
<1>2. /\ q \in Seq(Call)
      /\ DOMAIN f.calls = 1..Len(f.calls) /\ Len(f.calls) \in Nat
      /\ Len(f.calls) + 1 \in DOMAIN q
      /\ q[Len(f.calls) + 1] = c
      /\ \A i \in DOMAIN f.calls : i \in DOMAIN q /\ q[i] = f.calls[i]
      /\ \A i \in DOMAIN q : i = Len(f.calls) + 1 \/ i \in DOMAIN f.calls
  BY <1>1
<1>3. c.run = "ToolWatch"
  OBVIOUS
<1>4. g = [f EXCEPT !.calls = q]
  BY DEF AddDelayedCall
<1> HIDE DEF c, q
<1>5. g \in Frame
  <2>1. q \in Seq(Call) /\ f \in Frame
    BY <1>2 DEF Sound, Loose
  <2>2. [f EXCEPT !.calls = q] \in Frame
    BY <2>1 DEF Frame
  <2> QED BY <1>4, <2>2
<1>6. /\ g.ep = f.ep /\ g.link = f.link /\ g.held = f.held /\ g.calls = q
      /\ g.armed = f.armed /\ g.stopping = f.stopping /\ g.asks = f.asks
      /\ g.radioHeld = f.radioHeld /\ g.open = f.open
      /\ g.toolReady = f.toolReady /\ g.toolMisses = f.toolMisses
      /\ g.toolWatching = f.toolWatching /\ g.toolStopping = f.toolStopping
  BY <1>4 DEF Sound, Loose, Frame
<1>7. Armed(g)
  BY <1>2, <1>3, <1>6 DEF Sound, Loose, Armed
<1>8. Fresh(g)
  BY <1>2, <1>3, <1>6 DEF Sound, Fresh
<1>9. \A i \in DOMAIN q : Watch(g, i) <=> i = Len(f.calls) + 1
  BY <1>2, <1>3, <1>6 DEF Watch, Ticks
<1>10. OneChain(g) /\ Ticks(g)
  BY <1>2, <1>6, <1>9 DEF OneChain, Ticks
<1> QED BY <1>5, <1>6, <1>7, <1>8, <1>10 DEF Sound, Loose, Tended

\* A new ticket for the ink watchdog makes up for a watchdog of an earlier note.
LEMMA OutdateFreshens ==
    ASSUME NEW f, NEW p, Loose(f), Tended(f), Follows(f, p), NEW runs,
           Fresh(f) \/ "InkExpired" \in runs
    PROVE  /\ Keeps(Outdate(f, runs), p)
           /\ \A i \in DOMAIN Outdate(f, runs).calls :
                 Outdate(f, runs).calls[i].run \in runs =>
                     ~Outdate(f, runs).calls[i].current
           /\ Outdate(f, runs) = [f EXCEPT !.calls = Outdate(f, runs).calls]
           /\ Outdate(f, runs).calls \in Seq(Call)
<1> DEFINE q == [i \in DOMAIN f.calls |->
                    IF f.calls[i].run \in runs THEN [f.calls[i] EXCEPT !.current = FALSE]
                    ELSE f.calls[i]]
           g == [f EXCEPT !.calls = q]
<1>1. f.calls \in Seq(Call) /\ DOMAIN f.calls = 1..Len(f.calls) /\ Len(f.calls) \in Nat
  BY DEF Loose, Frame
<1>2. ASSUME NEW i \in DOMAIN f.calls
      PROVE  /\ q[i] \in Call
             /\ q[i].run = f.calls[i].run
             /\ q[i].send = f.calls[i].send
             /\ q[i].current => f.calls[i].current
             /\ f.calls[i].run \in runs => ~q[i].current
  <2> DEFINE c == f.calls[i]
             d == [c EXCEPT !.current = FALSE]
  <2>1. c \in Call
    BY <1>1
  <2> HIDE DEF c
  <2>2. d \in Call /\ d.run = c.run /\ d.send = c.send /\ d.current = FALSE
    BY <2>1 DEF Call
  <2>3. q[i] = IF c.run \in runs THEN d ELSE c
    BY DEF c
  <2> HIDE DEF d, q
  <2>4. /\ q[i] \in Call
        /\ q[i].run = c.run
        /\ q[i].send = c.send
        /\ q[i].current => c.current
        /\ c.run \in runs => ~q[i].current
    BY <2>1, <2>2, <2>3
  <2> QED BY <2>4 DEF c
<1>3. q \in Seq(Call)
  <2>1. q \in [1..Len(f.calls) -> Call]
    <3>1. q = [i \in 1..Len(f.calls) |-> q[i]]
      BY <1>1
    <3> HIDE DEF q
    <3> QED BY <1>1, <1>2, <3>1
  <2> QED BY <1>1, <2>1, SeqDef
<1>4. \A i \in DOMAIN f.calls :
         /\ q[i].run = f.calls[i].run
         /\ q[i].current => f.calls[i].current
         /\ f.calls[i].run \in runs => ~q[i].current
  BY <1>2
<1>5. DOMAIN q = DOMAIN f.calls
  OBVIOUS
<1> HIDE DEF q
<1>6. g \in Frame
  BY <1>3 DEF Loose, Frame
<1>7. /\ g.ep = f.ep /\ g.link = f.link /\ g.held = f.held /\ g.calls = q
      /\ g.armed = f.armed /\ g.stopping = f.stopping /\ g.asks = f.asks
      /\ g.radioHeld = f.radioHeld /\ g.open = f.open
      /\ g.toolReady = f.toolReady /\ g.toolMisses = f.toolMisses
      /\ g.toolWatching = f.toolWatching /\ g.toolStopping = f.toolStopping
  BY DEF Loose, Frame
<1>9. Outdate(f, runs) = g
  BY DEF Outdate, q
<1> HIDE DEF g
<1>8. Armed(g)
  BY <1>4, <1>5, <1>7 DEF Loose, Armed
<1>11. Fresh(g)
  <2>1. \A i \in DOMAIN f.calls : q[i].send = f.calls[i].send
    BY <1>2
  <2> QED BY <1>4, <1>5, <1>7, <2>1 DEF Fresh
<1>12. \A i \in DOMAIN f.calls : Watch(g, i) <=> Watch(f, i)
  BY <1>4, <1>5, <1>7 DEF Watch
<1>13. OneChain(g) /\ (Ticks(g) <=> Ticks(f))
  BY <1>5, <1>7, <1>12 DEF Loose, OneChain, Ticks
<1>10. Keeps(g, p)
  BY <1>6, <1>7, <1>8, <1>11, <1>13 DEF Keeps, Sound, Loose, Tended, Follows
<1>14. g = [f EXCEPT !.calls = q]
  BY DEF g
<1> QED BY <1>3, <1>4, <1>5, <1>7, <1>9, <1>10, <1>14

LEMMA OutdateKeeps ==
    ASSUME NEW f, NEW p, Keeps(f, p), NEW runs
    PROVE  /\ Keeps(Outdate(f, runs), p)
           /\ \A i \in DOMAIN Outdate(f, runs).calls :
                 Outdate(f, runs).calls[i].run \in runs =>
                     ~Outdate(f, runs).calls[i].current
           /\ Outdate(f, runs) = [f EXCEPT !.calls = Outdate(f, runs).calls]
           /\ Outdate(f, runs).calls \in Seq(Call)
  BY OutdateFreshens DEF Keeps, Sound

LEMMA NewTicketKeeps ==
    ASSUME NEW f, NEW p, Keeps(f, p), NEW run
    PROVE  /\ Keeps(NewTicket(f, run), p)
           /\ NewTicket(f, run).ep = f.ep
           /\ NewTicket(f, run).stopping = f.stopping
           /\ NewTicket(f, run).link = f.link
<1>1. f \in Frame
  BY KeepsFrame
<1>2. \A q : /\ [f EXCEPT !.calls = q].ep = f.ep
             /\ [f EXCEPT !.calls = q].stopping = f.stopping
             /\ [f EXCEPT !.calls = q].link = f.link
  BY <1>1 DEF Frame
<1>3. Keeps(NewTicket(f, run), p)
  BY OutdateKeeps DEF NewTicket
<1> QED BY <1>2, <1>3 DEF NewTicket, Outdate

LEMMA RadioHoldKeeps ==
    ASSUME NEW f, NEW p, Keeps(f, p)
    PROVE  /\ Keeps(RadioHold(f), p)
           /\ RadioHold(f).stopping = FALSE
           /\ RadioHold(f).ep = f.ep
           /\ RadioHold(f).link = f.link
           /\ RadioHold(f).asks = f.asks
<1> DEFINE g == Outdate(f, {"RadioExpired", "Stop"})
           h == [g EXCEPT !.radioHeld = TRUE, !.stopping = FALSE, !.armed = FALSE]
<1>1. /\ Keeps(g, p)
      /\ \A i \in DOMAIN g.calls : g.calls[i].run = "RadioExpired" => ~g.calls[i].current
      /\ g.ep = f.ep /\ g.link = f.link /\ g.asks = f.asks
  BY OutdateKeeps DEF Keeps, Sound, Loose, Frame
<1> HIDE DEF g
<1>0. g \in Frame
  BY <1>1, KeepsFrame
<1>2. h \in Frame
  BY <1>0 DEF Frame
<1>3. /\ h.ep = g.ep /\ h.link = g.link /\ h.held = g.held /\ h.calls = g.calls
      /\ h.stopping = FALSE /\ h.asks = g.asks /\ h.radioHeld = TRUE /\ h.open = g.open
      /\ h.toolReady = g.toolReady /\ h.toolMisses = g.toolMisses
      /\ h.toolWatching = g.toolWatching /\ h.toolStopping = g.toolStopping
  BY <1>0 DEF Frame
<1> HIDE DEF h
<1>6. /\ OneChain(h) <=> OneChain(g)
      /\ Ticks(h) <=> Ticks(g)
      /\ Fresh(h) <=> Fresh(g)
  BY <1>3, SameCalls
<1>7. Armed(h)
  BY <1>1, <1>3 DEF Armed
<1>4. Keeps(h, p)
  BY <1>1, <1>2, <1>3, <1>6, <1>7 DEF Keeps, Sound, Loose, Tended, Follows
<1>5. RadioHold(f) = h
  BY DEF RadioHold, g, h
<1> QED BY <1>1, <1>3, <1>4, <1>5

LEMMA ArmRadioIdleKeeps ==
    ASSUME NEW f, NEW p, Keeps(f, p)
    PROVE  Keeps(ArmRadioIdle(f), p)
<1> DEFINE g == NewTicket(f, "RadioExpired")
           h == [g EXCEPT !.armed = TRUE]
<1>1. Keeps(g, p)
  BY NewTicketKeeps
<1> HIDE DEF g
<1>2. Keeps(h, p) /\ h.armed = TRUE
  <2>1. g \in Frame
    BY <1>1, KeepsFrame
  <2>2. /\ h \in Frame /\ h.ep = g.ep /\ h.link = g.link /\ h.held = g.held
        /\ h.calls = g.calls /\ h.stopping = g.stopping /\ h.asks = g.asks
        /\ h.radioHeld = g.radioHeld /\ h.open = g.open /\ h.armed = TRUE
        /\ h.toolReady = g.toolReady /\ h.toolMisses = g.toolMisses
        /\ h.toolWatching = g.toolWatching /\ h.toolStopping = g.toolStopping
    BY <2>1 DEF Frame
  <2> HIDE DEF h
  <2>3. /\ OneChain(h) <=> OneChain(g)
        /\ Ticks(h) <=> Ticks(g)
        /\ Fresh(h) <=> Fresh(g)
    BY <2>2, SameCalls
  <2>4. Armed(h)
    BY <2>2 DEF Armed
  <2> QED BY <1>1, <2>2, <2>3, <2>4 DEF Keeps, Sound, Loose, Tended, Follows
<1> HIDE DEF h
<1>3. Keeps(AddDelayedCall(h, "RadioExpired", 5), p)
  BY <1>2, AddDelayedCallKeeps DEF Delayed
<1> QED BY <1>3 DEF ArmRadioIdle, g, h

LEMMA StopKeeps ==
    ASSUME NEW f, NEW p, Keeps(f, p)
    PROVE  /\ Keeps(Stop(f), p)
           /\ Stop(f).ep["chat"] = "none"
           /\ Stop(f).ep["ink"] = "none"
           /\ Stop(f).ep["pkg"] = "none"
           /\ Stop(f).ep["tool"] = f.ep["tool"]
           /\ f.ep["tool"] = "none" => ~Stop(f).link
<1> DEFINE n == NewTicket(f, "HandshakeExpired")
           e == [n.ep EXCEPT !["chat"] = "none", !["ink"] = "none", !["pkg"] = "none"]
           g == [n EXCEPT !.stopping = TRUE, !.handshakeActive = FALSE, !.ep = e]
           h == ReleaseLink(g)
           k == [h EXCEPT !.ready = FALSE, !.inFlight = FALSE, !.pending = FALSE]
<1>1. Keeps(n, p) /\ n.ep = f.ep /\ n \in Frame
  BY NewTicketKeeps, KeepsFrame DEF Frame
<1> HIDE DEF n
<1>2. /\ e \in [Endpoints -> Stages]
      /\ e["chat"] = "none" /\ e["ink"] = "none" /\ e["pkg"] = "none"
      /\ e["tool"] = n.ep["tool"]
  BY <1>1 DEF Frame, Endpoints, Stages
<1> HIDE DEF e
<1>5. g \in Frame /\ g.ep = e /\ Alike(g, n)
  BY <1>1, <1>2 DEF Frame, Alike, Kept
<1>6. Keeps(g, p)
  <2>1. Linked(n) /\ n.link = g.link
    BY <1>1, <1>5 DEF Keeps, Sound, Loose, Alike
  <2> HIDE DEF g
  <2>2. Linked(g) /\ Stopped(g)
    BY <2>1, <1>2, <1>5
  <2> QED BY <1>1, <1>5, <2>2, AlikeKeeps
<1>3. /\ Keeps(h, p) /\ h.ep = g.ep
      /\ g.ep["tool"] = "none" => ~h.link
  <2>1. Keeps(h, p) /\ h.ep = g.ep
    BY <1>6, ReleaseLinkKeeps
  <2>2. g \in Frame /\ (g.ep["tool"] = "none" => \A x \in Endpoints : g.ep[x] = "none")
    BY <1>2, <1>5 DEF Endpoints
  <2> HIDE DEF g
  <2> QED BY <2>1, <2>2 DEF ReleaseLink, Frame
<1> HIDE DEF g, h
<1>4. Keeps(k, p) /\ k.ep = h.ep /\ k.link = h.link
  <2>1. h \in Frame
    BY <1>3, KeepsFrame
  <2>2. k \in Frame /\ Alike(k, h) /\ k.ep = h.ep /\ k.stopping = h.stopping
    BY <2>1 DEF Frame, Alike, Kept
  <2> HIDE DEF k
  <2>3. Keeps(k, p)
    BY <1>3, <2>2, AlikeKeeps
  <2> QED BY <2>2, <2>3 DEF Alike, Kept
<1> HIDE DEF k
<1>7. Stop(f) = k
  BY DEF Stop, n, e, g, h, k
<1> QED BY <1>1, <1>2, <1>3, <1>4, <1>5, <1>7

-----------------------------------------------------------------------------
(* The tools channel.                                                      *)

\* It disconnects: missed ticks do not matter any more.
LEMMA ToolStopKeeps ==
    ASSUME NEW f, NEW p, Loose(f), Fresh(f), Follows(f, p)
    PROVE  /\ Keeps(ToolStop(f), p)
           /\ ToolStop(f).ep = [f.ep EXCEPT !["tool"] = "none"]
<1> DEFINE g == [f EXCEPT !.toolReady = FALSE, !.ep["tool"] = "none"]
<1>1. Keeps(g, p) /\ g.ep = [f.ep EXCEPT !["tool"] = "none"]
  <2> DEFINE e == [f.ep EXCEPT !["tool"] = "none"]
  <2>1. e \in [Endpoints -> Stages] /\ \A x \in Endpoints : e[x] = f.ep[x] \/ e[x] = "none"
    BY DEF Loose, Frame, Endpoints, Stages
  <2> HIDE DEF e
  <2>2. /\ g \in Frame /\ g.ep = e /\ g.link = f.link /\ g.held = f.held
        /\ g.calls = f.calls /\ g.stopping = f.stopping /\ g.asks = f.asks
        /\ g.radioHeld = f.radioHeld /\ g.open = f.open /\ g.armed = f.armed
        /\ g.toolReady = FALSE /\ g.toolWatching = f.toolWatching
    BY <2>1 DEF Loose, Frame, e
  <2> HIDE DEF g
  <2>3. /\ OneChain(g) /\ Armed(g) /\ Fresh(g) /\ Tended(g)
        /\ Ticks(g) <=> Ticks(f)
    BY <2>2, SameCalls DEF Loose, Tended
  <2>4. Linked(g) /\ Granted(g) /\ Stopped(g)
    BY <2>1, <2>2 DEF Loose, Endpoints
  <2> QED BY <2>2, <2>3, <2>4 DEF Keeps, Sound, Loose, Follows, e
<1> HIDE DEF g
<1>2. Keeps(ReleaseLink(g), p) /\ ReleaseLink(g).ep = g.ep
  BY <1>1, ReleaseLinkKeeps
<1> QED BY <1>1, <1>2 DEF ToolStop, g

LEMMA StoppingLoose ==
    ASSUME NEW f, NEW p, Loose(f), Fresh(f), Follows(f, p),
           NEW g, g = [f EXCEPT !.toolStopping = TRUE]
    PROVE  Loose(g) /\ Fresh(g) /\ Follows(g, p)
<1>1. /\ g \in Frame /\ g.ep = f.ep /\ g.link = f.link /\ g.held = f.held
      /\ g.calls = f.calls /\ g.stopping = f.stopping /\ g.asks = f.asks
      /\ g.radioHeld = f.radioHeld /\ g.open = f.open /\ g.armed = f.armed
      /\ g.toolWatching = f.toolWatching
  BY DEF Loose, Frame
<1>2. /\ OneChain(g) /\ Armed(g) /\ Fresh(g)
      /\ Ticks(g) <=> Ticks(f)
  BY <1>1, SameCalls DEF Loose
<1> QED BY <1>1, <1>2 DEF Loose, Follows

LEMMA ToolRetryKeeps ==
    ASSUME NEW f, NEW p, Loose(f), Fresh(f), Follows(f, p),
           f.toolStopping => Sound(f)
    PROVE  Keeps(ToolRetry(f), p)
<1> DEFINE g == [f EXCEPT !.toolStopping = TRUE]
<1>1. Loose(g) /\ Fresh(g) /\ Follows(g, p)
  BY StoppingLoose
<1> HIDE DEF g
<1>3. Keeps(ToolStop(g), p)
  BY <1>1, ToolStopKeeps
<1>2. Keeps(AddDelayedCall(ToolStop(g), "ToolResume", 1), p)
  BY <1>3, AddDelayedCallKeeps DEF Delayed
<1> QED BY <1>2 DEF ToolRetry, Keeps, g

LEMMA ToolOpenKeeps ==
    ASSUME NEW f, NEW p, Keeps(f, p), f.link
    PROVE  /\ Keeps(ToolOpen(f), p)
           /\ ToolOpen(f).stopping = f.stopping
           /\ ToolOpen(f).asks = f.asks
<1> DEFINE g == [f EXCEPT !.ep["tool"] = "binding"]
<1>1. f \in Frame
  BY KeepsFrame
<1>2. g \in Frame
  BY <1>1 DEF Frame, Endpoints, Stages
<1>3. /\ g.ep["chat"] = f.ep["chat"] /\ g.ep["pkg"] = f.ep["pkg"]
      /\ Alike(g, f) /\ g.stopping = f.stopping
  BY <1>1 DEF Frame, Alike, Kept, Endpoints
<1>4. Stopped(f)
  BY DEF Keeps, Sound, Loose
<1> HIDE DEF g
<1>5. Linked(g) /\ Stopped(g)
  BY <1>3, <1>4 DEF Alike, Kept
<1>6. Keeps(g, p)
  BY <1>2, <1>3, <1>5, AlikeKeeps
<1> QED BY <1>3, <1>6 DEF ToolOpen, Alike, g

LEMMA InetGrabLinkKeeps ==
    ASSUME NEW f, NEW p, Keeps(f, p), NEW who \in Grabbers
    PROVE  /\ Keeps(InetGrabLink(f, who), p)
           /\ InetGrabLink(f, who).stopping = f.stopping
           /\ InetGrabLink(f, who).asks = f.asks
<1> DEFINE k == [f.grabs EXCEPT ![who] = @ + 1]
           g == [f EXCEPT !.grabs = k]
<1>1. f \in Frame
  BY KeepsFrame
<1>2. k \in [Grabbers -> Nat]
  BY <1>1 DEF Frame
<1> HIDE DEF k
<1>3. g \in Frame /\ Alike(g, f) /\ g.ep = f.ep /\ g.stopping = f.stopping
  BY <1>1, <1>2 DEF Frame, Alike, Kept
<1> HIDE DEF g
<1>4. Keeps(g, p)
  BY <1>3, AlikeKeeps
<1> QED BY <1>3, <1>4 DEF InetGrabLink, Alike, g, k

LEMMA ToolStartKeeps ==
    ASSUME NEW f, NEW p, Keeps(f, p)
    PROVE  /\ Keeps(ToolStart(f), p)
           /\ ToolStart(f).stopping = f.stopping
           /\ ToolStart(f).asks = f.asks
<1> DEFINE g == [f EXCEPT !.toolStopping = FALSE]
<1>1. Keeps(g, p) /\ g.stopping = f.stopping /\ g.asks = f.asks /\ g.link \in BOOLEAN
  <2>1. f \in Frame
    BY KeepsFrame
  <2>2. g \in Frame /\ Alike(g, f) /\ g.ep = f.ep /\ g.stopping = f.stopping /\ g.link \in BOOLEAN
    BY <2>1 DEF Frame, Alike, Kept
  <2> HIDE DEF g
  <2>3. Keeps(g, p)
    BY <2>2, AlikeKeeps
  <2> QED BY <2>2, <2>3 DEF Alike, Kept
<1> HIDE DEF g
<1>2. g.link => /\ Keeps(ToolOpen(g), p)
                /\ ToolOpen(g).stopping = g.stopping
                /\ ToolOpen(g).asks = g.asks
  BY <1>1, ToolOpenKeeps
<1>3. /\ Keeps(InetGrabLink(g, "tool"), p)
      /\ InetGrabLink(g, "tool").stopping = g.stopping
      /\ InetGrabLink(g, "tool").asks = g.asks
  BY <1>1, InetGrabLinkKeeps DEF Grabbers
<1> QED BY <1>1, <1>2, <1>3 DEF ToolStart, g

LEMMA EndpointKeeps ==
    ASSUME NEW f, NEW p, Keeps(f, p), NEW e \in Endpoints, NEW s \in Stages,
           \/ s = "none" \/ f.ep[e] # "none" \/ e = "ink"
           \/ e = "tool" /\ f.link
           \/ e = "chat" /\ ~f.stopping
           \/ e = "pkg" /\ f.link /\ ~f.stopping
    PROVE  /\ Keeps([f EXCEPT !.ep[e] = s], p)
           /\ Alike([f EXCEPT !.ep[e] = s], f)
           /\ [f EXCEPT !.ep[e] = s].ep = [f.ep EXCEPT ![e] = s]
           /\ [f EXCEPT !.ep[e] = s].stopping = f.stopping
<1> DEFINE g == [f EXCEPT !.ep[e] = s]
<1>1. f \in Frame
  BY KeepsFrame
<1>2. /\ g \in Frame /\ Alike(g, f) /\ g.stopping = f.stopping
      /\ g.ep = [f.ep EXCEPT ![e] = s]
  BY <1>1 DEF Frame, Alike, Kept
<1>3. f.ep \in [Endpoints -> Stages]
  BY <1>1 DEF Frame
<1>4. Linked(f) /\ Stopped(f)
  BY DEF Keeps, Sound, Loose
<1> HIDE DEF g
<1>5. Linked(g) /\ Stopped(g)
  BY <1>2, <1>3, <1>4 DEF Alike, Endpoints
<1>6. Keeps(g, p)
  BY <1>2, <1>5, AlikeKeeps
<1> QED BY <1>2, <1>6 DEF g

LEMMA ToolResumeKeeps ==
    ASSUME NEW f, NEW p, Keeps(f, p)
    PROVE  Keeps(ToolResume(f), p)
  BY ToolStartKeeps DEF ToolResume

LEMMA ToolReplyKeeps ==
    ASSUME NEW f, NEW p, Keeps(f, p)
    PROVE  Keeps(ToolReply(f), p)
<1>1. Keeps(ToolRetry(f), p)
  BY ToolRetryKeeps DEF Keeps, Sound
<1>2. f.ep["tool"] # "none" => Keeps([f EXCEPT !.ep["tool"] = "replying"], p)
  BY EndpointKeeps DEF Endpoints, Stages
<1> QED BY <1>1, <1>2 DEF ToolReply

LEMMA ToolReplySentKeeps ==
    ASSUME NEW f, NEW p, Keeps(f, p), f.ep["tool"] # "none"
    PROVE  Keeps(ToolReplySent(f), p)
<1> DEFINE g == [f EXCEPT !.toolID = 0]
           h == [g EXCEPT !.ep["tool"] = "listening"]
<1>1. Keeps(g, p) /\ g.ep = f.ep
  <2>1. f \in Frame
    BY KeepsFrame
  <2>2. g \in Frame /\ Alike(g, f) /\ g.ep = f.ep /\ g.stopping = f.stopping /\ g.ep = f.ep
    BY <2>1 DEF Frame, Alike, Kept, Ids
  <2> HIDE DEF g
  <2> QED BY <2>2, AlikeKeeps
<1> HIDE DEF g
<1>2. Keeps(h, p)
  <2>1. g.ep["tool"] # "none"
    BY <1>1
  <2> QED BY <1>1, <2>1, EndpointKeeps DEF Endpoints, Stages
<1> HIDE DEF h
<1>3. Keeps(ArmRadioIdle(h), p)
  BY <1>2, ArmRadioIdleKeeps
<1> QED BY <1>2, <1>3 DEF ToolReplySent, g, h

LEMMA ToolBindFailedKeeps ==
    ASSUME NEW f, NEW p, Keeps(f, p)
    PROVE  Keeps(ToolBindFailed(f), p)
<1> DEFINE n == [f EXCEPT !.toolBindRetried = TRUE]
           g == [n EXCEPT !.toolStopping = TRUE]
<1>1. Keeps(n, p)
  <2>1. f \in Frame
    BY KeepsFrame
  <2>2. n \in Frame /\ Alike(n, f) /\ n.ep = f.ep /\ n.stopping = f.stopping
    BY <2>1 DEF Frame, Alike, Kept
  <2> HIDE DEF n
  <2> QED BY <2>2, AlikeKeeps
<1> HIDE DEF n
<1>2. Keeps(AddDelayedCall(ToolStop(g), "ToolResume", 5), p)
  <2>1. Loose(g) /\ Fresh(g) /\ Follows(g, p)
    BY <1>1, StoppingLoose DEF Keeps, Sound
  <2> HIDE DEF g
  <2>2. Keeps(ToolStop(g), p)
    BY <2>1, ToolStopKeeps
  <2> QED BY <2>2, AddDelayedCallKeeps DEF Delayed
<1>3. Keeps(ToolRetry(f), p)
  BY ToolRetryKeeps DEF Keeps, Sound
<1> QED BY <1>2, <1>3 DEF ToolBindFailed, g, n

LEMMA ToolBoundKeeps ==
    ASSUME NEW f, NEW p, Keeps(f, p), f.ep["tool"] # "none"
    PROVE  Keeps(ToolBound(f), p)
<1> DEFINE g == [f EXCEPT !.toolBindRetried = FALSE]
<1>1. Keeps(g, p) /\ g.ep = f.ep
  <2>1. f \in Frame
    BY KeepsFrame
  <2>2. g \in Frame /\ Alike(g, f) /\ g.ep = f.ep /\ g.stopping = f.stopping /\ g.ep = f.ep
    BY <2>1 DEF Frame, Alike, Kept
  <2> HIDE DEF g
  <2> QED BY <2>2, AlikeKeeps
<1> HIDE DEF g
<1>2. Keeps([g EXCEPT !.ep["tool"] = "connecting"], p)
  <2>1. g.ep["tool"] # "none"
    BY <1>1
  <2> QED BY <1>1, <2>1, EndpointKeeps DEF Endpoints, Stages
<1> QED BY <1>2 DEF ToolBound, g

\* The two methods that start a chain of the watchdog or end it.
Watched(f) == Ticks(f) <=> f.toolWatching
Same(g, f) == g.asks = f.asks /\ g.open = f.open /\ (f.radioHeld => g.radioHeld)

LEMMA ToolConnectedSound ==
    ASSUME NEW f, Sound(f), Watched(f), f.ep["tool"] # "none"
    PROVE  LET g == ToolConnected(f) IN Sound(g) /\ Watched(g) /\ Same(g, f)
<1> DEFINE e == [f.ep EXCEPT !["tool"] = "listening"]
           j == [f EXCEPT !.toolReady = TRUE]
           k == [j EXCEPT !.toolMisses = 0]
           g == [k EXCEPT !.ep = e]
           h == [g EXCEPT !.toolWatching = TRUE]
<1>1. f \in Frame /\ f.toolStopping \in BOOLEAN /\ f.toolWatching \in BOOLEAN
  BY DEF Sound, Loose, Frame
<1>2. CASE f.toolStopping
  BY <1>2 DEF ToolConnected, Same
<1>3. CASE f.toolStopping = FALSE
  <2>1. /\ e \in [Endpoints -> Stages] /\ e["tool"] # "none"
        /\ \A x \in Endpoints : e[x] = f.ep[x] \/ x = "tool"
    BY <1>1 DEF Frame, Endpoints, Stages
  <2>0. ToolConnected(f) = IF g.toolWatching THEN g ELSE AddDelayedCall(h, "ToolWatch", 4)
    <3>1. k.ep = f.ep
      BY <1>1 DEF Frame
    <3>2. g = [k EXCEPT !.ep["tool"] = "listening"]
      BY <3>1
    <3> DEFINE c == [f EXCEPT !.toolReady = TRUE, !.toolMisses = 0, !.ep["tool"] = "listening"]
    <3>3. g = c
      BY <3>2
    <3>4. ToolConnected(f) =
              IF c.toolWatching THEN c
              ELSE AddDelayedCall([c EXCEPT !.toolWatching = TRUE], "ToolWatch", 4)
      BY <1>3 DEF ToolConnected
    <3> HIDE DEF g, c
    <3> QED BY <3>3, <3>4
  <2> HIDE DEF e
  <2>2. j \in Frame
    BY <1>1 DEF Frame
  <2>13. 0 \in 0..3
    OBVIOUS
  <2>3. k \in Frame
    <3> HIDE DEF j
    <3> QED BY <2>2, <2>13, Zenon DEF Frame
  <2>4. /\ k.toolReady = TRUE /\ k.toolMisses = 0 /\ k.ep = f.ep /\ k.link = f.link
        /\ k.held = f.held /\ k.calls = f.calls /\ k.armed = f.armed
        /\ k.stopping = f.stopping /\ k.asks = f.asks /\ k.radioHeld = f.radioHeld
        /\ k.open = f.open /\ k.toolStopping = FALSE /\ k.toolWatching = f.toolWatching
    <3>1. /\ j.toolReady = TRUE /\ j.ep = f.ep /\ j.link = f.link
          /\ j.held = f.held /\ j.calls = f.calls /\ j.armed = f.armed
          /\ j.stopping = f.stopping /\ j.asks = f.asks /\ j.radioHeld = f.radioHeld
          /\ j.open = f.open /\ j.toolStopping = FALSE /\ j.toolWatching = f.toolWatching
      BY <1>1, <1>3 DEF Frame
    <3> HIDE DEF j
    <3>2. /\ k.toolReady = j.toolReady /\ k.toolMisses = 0 /\ k.ep = j.ep
          /\ k.link = j.link /\ k.held = j.held /\ k.calls = j.calls /\ k.armed = j.armed
          /\ k.stopping = j.stopping /\ k.asks = j.asks /\ k.radioHeld = j.radioHeld
          /\ k.open = j.open /\ k.toolStopping = j.toolStopping
          /\ k.toolWatching = j.toolWatching
      BY <2>2 DEF Frame
    <3> HIDE DEF k
    <3> QED BY <3>1, <3>2
  <2> HIDE DEF k
  <2>5. /\ g \in Frame
        /\ g.toolReady = TRUE /\ g.toolMisses = 0 /\ g.ep = e /\ g.link = f.link
        /\ g.held = f.held /\ g.calls = f.calls /\ g.armed = f.armed
        /\ g.stopping = f.stopping /\ g.asks = f.asks /\ g.radioHeld = f.radioHeld
        /\ g.open = f.open /\ g.toolStopping = FALSE /\ g.toolWatching = f.toolWatching
    <3>1. g \in Frame
      BY <2>1, <2>3 DEF Frame
    <3>2. /\ g.toolReady = k.toolReady /\ g.toolMisses = k.toolMisses /\ g.ep = e
          /\ g.link = k.link /\ g.held = k.held /\ g.calls = k.calls /\ g.armed = k.armed
          /\ g.stopping = k.stopping /\ g.asks = k.asks /\ g.radioHeld = k.radioHeld
          /\ g.open = k.open /\ g.toolStopping = k.toolStopping
          /\ g.toolWatching = k.toolWatching
      BY <2>3 DEF Frame
    <3> HIDE DEF g
    <3> QED BY <2>4, <3>1, <3>2
  <2> HIDE DEF g
  <2>6. /\ h \in Frame
        /\ h.toolReady = TRUE /\ h.toolMisses = 0 /\ h.ep = e /\ h.link = f.link
        /\ h.held = f.held /\ h.calls = f.calls /\ h.armed = f.armed
        /\ h.stopping = f.stopping /\ h.asks = f.asks /\ h.radioHeld = f.radioHeld
        /\ h.open = f.open /\ h.toolStopping = FALSE /\ h.toolWatching = TRUE
    <3>1. /\ h \in Frame
          /\ h.toolReady = g.toolReady /\ h.toolMisses = g.toolMisses /\ h.ep = g.ep
          /\ h.link = g.link /\ h.held = g.held /\ h.calls = g.calls /\ h.armed = g.armed
          /\ h.stopping = g.stopping /\ h.asks = g.asks /\ h.radioHeld = g.radioHeld
          /\ h.open = g.open /\ h.toolStopping = g.toolStopping /\ h.toolWatching = TRUE
      <4>1. g \in Frame
        BY <2>5
      <4> QED BY <4>1 DEF Frame
    <3> HIDE DEF h
    <3> QED BY <2>5, <3>1
  <2> HIDE DEF h
  <2>7. /\ OneChain(g) /\ Armed(g) /\ Fresh(g) /\ (Ticks(g) <=> Ticks(f))
        /\ OneChain(h) /\ Armed(h) /\ Fresh(h) /\ (Ticks(h) <=> Ticks(f))
    BY <2>5, <2>6, SameCalls DEF Sound, Loose
  <2>8. /\ Linked(g) /\ Granted(g) /\ Stopped(g)
        /\ Linked(h) /\ Granted(h) /\ Stopped(h)
    BY <2>1, <2>5, <2>6 DEF Sound, Loose, Endpoints
  <2>9. Loose(g) /\ Loose(h)
    BY <2>5, <2>6, <2>7, <2>8 DEF Loose
  <2>10. Sound(h)
    BY <2>6, <2>7, <2>9 DEF Sound, Tended
  <2>11. CASE f.toolWatching
    <3>1. Sound(g)
      BY <2>5, <2>7, <2>9, <2>11 DEF Sound, Tended
    <3>2. ToolConnected(f) = g
      BY <2>0, <2>5, <2>11
    <3> QED BY <2>5, <2>7, <3>1, <3>2 DEF Watched, Same
  <2>12. CASE ~f.toolWatching
    <3>1. ToolConnected(f) = AddDelayedCall(h, "ToolWatch", 4)
      BY <2>0, <2>5, <2>12
    <3>2. ~Ticks(h)
      BY <2>7, <2>12 DEF Watched
    <3> QED BY <2>6, <2>10, <3>1, <3>2, AddWatch DEF Watched, Same
  <2> QED BY <2>11, <2>12
<1> QED BY <1>1, <1>2, <1>3

LEMMA ToolWatchSound ==
    ASSUME NEW f, Sound(f), ~Ticks(f), f.toolWatching = TRUE
    PROVE  LET g == ToolWatch(f) IN Sound(g) /\ Watched(g) /\ Same(g, f)
<1> DEFINE h == [f EXCEPT !.toolWatching = FALSE]
           misses == f.toolMisses + (IF f.toolReady THEN 1 ELSE 0)
           g == [f EXCEPT !.toolMisses = misses]
           again == IF f.toolReady /\ misses > 2 THEN ToolRetry(g) ELSE g
<1>0. f \in Frame /\ f.toolStopping \in BOOLEAN
  BY DEF Sound, Loose, Frame
<1>1. CASE f.toolStopping
  <2>1. /\ h \in Frame /\ h.ep = f.ep /\ h.link = f.link /\ h.held = f.held
        /\ h.calls = f.calls /\ h.armed = f.armed /\ h.stopping = f.stopping
        /\ h.asks = f.asks /\ h.radioHeld = f.radioHeld /\ h.open = f.open
        /\ h.toolReady = f.toolReady /\ h.toolWatching = FALSE
    BY <1>0 DEF Frame
  <2> HIDE DEF h
  <2>2. OneChain(h) /\ Armed(h) /\ Fresh(h) /\ ~Ticks(h)
    BY <2>1, SameCalls DEF Sound, Loose
  <2>3. Tended(h)
    BY <1>1, <2>1 DEF Sound, Tended
  <2>4. ToolWatch(f) = h
    BY <1>1 DEF ToolWatch, h
  <2> QED BY <2>1, <2>2, <2>3, <2>4 DEF Sound, Loose, Watched, Same
<1>2. f.toolMisses \in 0..3 /\ (f.toolReady => f.toolMisses <= 2)
  BY <1>0 DEF Frame, Sound, Tended
<1>3. misses \in 0..3
  BY <1>2
<1> HIDE DEF misses
<1>4. /\ g \in Frame /\ g.toolMisses = misses /\ g.toolReady = f.toolReady
      /\ g.ep = f.ep /\ g.link = f.link /\ g.held = f.held /\ g.calls = f.calls
      /\ g.armed = f.armed /\ g.stopping = f.stopping /\ g.asks = f.asks
      /\ g.radioHeld = f.radioHeld /\ g.open = f.open /\ g.toolStopping = f.toolStopping
      /\ g.toolWatching = f.toolWatching
  BY <1>0, <1>3 DEF Frame
<1> HIDE DEF g
<1>5. Loose(g) /\ Fresh(g) /\ Follows(g, f)
  <2>1. OneChain(g) /\ Armed(g) /\ Fresh(g) /\ (Ticks(g) <=> Ticks(f))
    BY <1>4, SameCalls DEF Sound, Loose
  <2> QED BY <1>4, <2>1 DEF Sound, Loose, Follows
<1>6. ASSUME ~f.toolStopping
      PROVE  Keeps(again, f)
  <2>1. Keeps(ToolRetry(g), f)
    BY <1>4, <1>5, <1>6, ToolRetryKeeps
  <2>2. ~(f.toolReady /\ misses > 2) => Keeps(g, f)
    BY <1>3, <1>4, <1>5, <1>6 DEF Keeps, Sound, Tended
  <2> QED BY <2>1, <2>2
<1> HIDE DEF again
<1>7. CASE ~f.toolStopping
  <2>1. Sound(again) /\ ~Ticks(again) /\ again.toolWatching = TRUE /\ Same(again, f)
    BY <1>6, <1>7 DEF Keeps, Follows, Same
  <2>2. ToolWatch(f) = AddDelayedCall(again, "ToolWatch", 4)
    BY <1>7 DEF ToolWatch, again, g, misses
  <2> QED BY <2>1, <2>2, AddWatch DEF Watched, Same
<1> QED BY <1>0, <1>1, <1>7

-----------------------------------------------------------------------------
(* Package installs.                                                       *)

LEMMA PkgFinishKeeps ==
    ASSUME NEW f, NEW p, Keeps(f, p)
    PROVE  Keeps(PkgFinish(f), p)
<1> DEFINE g == [f EXCEPT !.ep["pkg"] = "none"]
<1>1. Keeps(g, p)
  BY EndpointKeeps DEF Endpoints, Stages
<1> HIDE DEF g
<1> QED BY <1>1, ToolReplyKeeps DEF PkgFinish, g

LEMMA PkgInstallStartKeeps ==
    ASSUME NEW f, NEW p, Keeps(f, p), ~f.stopping
    PROVE  Keeps(PkgInstallStart(f), p)
<1> DEFINE g == [f EXCEPT !.ep["pkg"] = "loading"]
           h == [g EXCEPT !.pkgQueued = FALSE]
           k == [h EXCEPT !.ep["tool"] = "serving"]
<1>1. CASE f.ep["pkg"] # "none" \/ ~f.link
  BY <1>1, PkgFinishKeeps DEF PkgInstallStart
<1>2. CASE ~(f.ep["pkg"] # "none" \/ ~f.link)
  <2>1. Keeps(g, p) /\ Alike(g, f)
    BY <1>2, EndpointKeeps DEF Endpoints, Stages
  <2>2. g.link
    BY <1>2, <2>1 DEF Alike, Kept
  <2> HIDE DEF g
  <2>3. Keeps(h, p) /\ h.link
    <3>1. g \in Frame
      BY <2>1, KeepsFrame
    <3>2. h \in Frame /\ Alike(h, g) /\ h.ep = g.ep /\ h.stopping = g.stopping /\ h.link = g.link
      BY <3>1 DEF Frame, Alike, Kept
    <3> HIDE DEF h
    <3> QED BY <2>1, <2>2, <3>2, AlikeKeeps
  <2> HIDE DEF h
  <2>4. Keeps(k, p)
    BY <2>3, EndpointKeeps DEF Endpoints, Stages
  <2> HIDE DEF k
  <2>5. PkgInstallStart(f) = k
    BY <1>2 DEF PkgInstallStart, g, h, k
  <2> QED BY <2>4, <2>5
<1> QED BY <1>1, <1>2

LEMMA PkgBodyReceivedKeeps ==
    ASSUME NEW f, NEW p, Keeps(f, p), f.ep["pkg"] # "none"
    PROVE  Keeps(PkgBodyReceived(f), p)
<1> DEFINE g == [f EXCEPT !.ep["pkg"] = "received"]
           h == [g EXCEPT !.pkgQueued = TRUE]
<1>1. Keeps(g, p)
  BY EndpointKeeps DEF Endpoints, Stages
<1> HIDE DEF g
<1>2. Keeps(h, p)
  <2>1. g \in Frame
    BY <1>1, KeepsFrame
  <2>2. h \in Frame /\ Alike(h, g) /\ h.ep = g.ep /\ h.stopping = g.stopping
    BY <1>1, <2>1 DEF Frame, Alike, Kept
  <2> HIDE DEF h
  <2> QED BY <1>1, <2>2, AlikeKeeps
<1> HIDE DEF h
<1>3. Keeps(AddDelayedCall(h, "PkgInstallNow", 1), p)
  BY <1>2, AddDelayedCallKeeps DEF Delayed
<1> QED BY <1>3 DEF PkgBodyReceived, g, h

LEMMA ToolDispatchKeeps ==
    ASSUME NEW f, NEW p, Keeps(f, p), NEW id \in Ids, NEW install \in BOOLEAN,
           install => id # HeartBeat
    PROVE  Keeps(ToolDispatch(f, id, install), p)
<1> DEFINE g == [f EXCEPT !.toolMisses = 0]
           r == IF id = HeartBeat THEN g ELSE RadioHold(g)
           h == [r EXCEPT !.toolID = id]
<1>1. Keeps(g, p)
  <2>1. f \in Frame
    BY KeepsFrame
  <2>2. 0 \in 0..3
    OBVIOUS
  <2>3. g \in Frame
    BY <2>1, <2>2, Zenon DEF Frame
  <2>4. /\ g.toolMisses = 0 /\ g.ep = f.ep /\ g.link = f.link
        /\ g.held = f.held /\ g.calls = f.calls /\ g.armed = f.armed
        /\ g.stopping = f.stopping /\ g.asks = f.asks /\ g.radioHeld = f.radioHeld
        /\ g.open = f.open /\ g.toolReady = f.toolReady
        /\ g.toolWatching = f.toolWatching /\ g.toolStopping = f.toolStopping
    BY <2>1 DEF Frame
  <2> HIDE DEF g
  <2>5. OneChain(g) /\ Armed(g) /\ Fresh(g) /\ (Ticks(g) <=> Ticks(f))
    BY <2>4, SameCalls DEF Keeps, Sound, Loose
  <2> QED BY <2>3, <2>4, <2>5 DEF Keeps, Sound, Loose, Tended, Follows
<1> HIDE DEF g
<1>2. Keeps(r, p) /\ (id # HeartBeat => r.stopping = FALSE)
  BY <1>1, RadioHoldKeeps
<1> HIDE DEF r
<1>3. Keeps(h, p) /\ h.stopping = r.stopping
  <2>1. r \in Frame
    BY <1>2, KeepsFrame
  <2>2. h \in Frame /\ Alike(h, r) /\ h.ep = r.ep /\ h.stopping = r.stopping /\ h.stopping = r.stopping
    BY <1>2, <2>1 DEF Frame, Alike, Kept
  <2> HIDE DEF h
  <2> QED BY <1>2, <2>2, AlikeKeeps
<1> HIDE DEF h
<1>4. install => Keeps(PkgInstallStart(h), p)
  BY <1>2, <1>3, PkgInstallStartKeeps
<1>5. Keeps(ToolReply(h), p)
  BY <1>3, ToolReplyKeeps
<1> QED BY <1>4, <1>5 DEF ToolDispatch, g, r, h

-----------------------------------------------------------------------------
(* The chat connection.                                                    *)

LEMMA OpenSessionKeeps ==
    ASSUME NEW f, NEW p, Keeps(f, p), ~f.stopping
    PROVE  Keeps(OpenSession(f), p)
<1> DEFINE g == [f EXCEPT !.handshakeActive = TRUE]
<1>1. Keeps(g, p) /\ g.stopping = f.stopping
  <2>1. f \in Frame
    BY KeepsFrame
  <2>2. g \in Frame /\ Alike(g, f) /\ g.ep = f.ep /\ g.stopping = f.stopping /\ g.stopping = f.stopping
    BY <2>1 DEF Frame, Alike, Kept
  <2> HIDE DEF g
  <2> QED BY <2>2, AlikeKeeps
<1> HIDE DEF g
<1>2. Keeps([g EXCEPT !.ep["chat"] = "binding"], p)
  BY <1>1, EndpointKeeps DEF Endpoints, Stages
<1> QED BY <1>2 DEF OpenSession, g

LEMMA FailedKeeps ==
    ASSUME NEW f, NEW p, Keeps(f, p)
    PROVE  Keeps(Failed(f), p)
<1> DEFINE n == NewTicket(f, "HandshakeExpired")
           g == [n EXCEPT !.handshakeActive = FALSE, !.pending = FALSE]
<1>1. Keeps(n, p)
  BY NewTicketKeeps
<1> HIDE DEF n
<1>2. Keeps(g, p)
  <2>1. n \in Frame
    BY <1>1, KeepsFrame
  <2>2. g \in Frame /\ Alike(g, n) /\ g.ep = n.ep /\ g.stopping = n.stopping
    BY <1>1, <2>1 DEF Frame, Alike, Kept
  <2> HIDE DEF g
  <2> QED BY <1>1, <2>2, AlikeKeeps
<1> HIDE DEF g
<1>3. Keeps(AddDelayedCall(g, "Stop", 1), p)
  BY <1>2, AddDelayedCallKeeps DEF Delayed
<1>4. Keeps(ArmRadioIdle(AddDelayedCall(g, "Stop", 1)), p)
  BY <1>3, ArmRadioIdleKeeps
<1> QED BY <1>4 DEF Failed, n, g

LEMMA HandshakeFailedKeeps ==
    ASSUME NEW f, NEW p, Keeps(f, p)
    PROVE  Keeps(HandshakeFailed(f), p)
<1> DEFINE n == NewTicket(f, "HandshakeExpired")
           g == [n EXCEPT !.handshakeActive = FALSE]
<1>1. Keeps(n, p)
  BY NewTicketKeeps
<1> HIDE DEF n
<1>2. Keeps(g, p)
  <2>1. n \in Frame
    BY <1>1, KeepsFrame
  <2>2. g \in Frame /\ Alike(g, n) /\ g.ep = n.ep /\ g.stopping = n.stopping
    BY <1>1, <2>1 DEF Frame, Alike, Kept
  <2> HIDE DEF g
  <2> QED BY <1>1, <2>2, AlikeKeeps
<1> HIDE DEF g
<1>3. Keeps(Failed(g), p)
  BY <1>2, FailedKeeps
<1> QED BY <1>3 DEF HandshakeFailed, n, g

LEMMA DroppedKeeps ==
    ASSUME NEW f, NEW p, Keeps(f, p)
    PROVE  Keeps(Dropped(f), p)
<1>1. Keeps(Stop(ArmRadioIdle(f)), p)
  BY ArmRadioIdleKeeps, StopKeeps
<1> QED BY <1>1, HandshakeFailedKeeps DEF Dropped

LEMMA ConnectKeeps ==
    ASSUME NEW f, NEW p, Keeps(f, p)
    PROVE  Keeps(Connect(f), p)
<1> DEFINE s == Stop(f)
           g == [s EXCEPT !.pending = f.pending]
           h == RadioHold(g)
<1>1. Keeps(s, p) /\ f.pending \in BOOLEAN
  BY StopKeeps, KeepsFrame DEF Frame
<1> HIDE DEF s
<1>2. Keeps(g, p)
  <2>1. s \in Frame
    BY <1>1, KeepsFrame
  <2>2. g \in Frame /\ Alike(g, s) /\ g.ep = s.ep /\ g.stopping = s.stopping
    BY <1>1, <2>1 DEF Frame, Alike, Kept
  <2> HIDE DEF g
  <2> QED BY <1>1, <2>2, AlikeKeeps
<1> HIDE DEF g
<1>3. Keeps(h, p) /\ h.stopping = FALSE
  BY <1>2, RadioHoldKeeps
<1> HIDE DEF h
<1>4. Keeps(OpenSession(h), p) /\ Keeps(InetGrabLink(h, "chat"), p)
  BY <1>3, OpenSessionKeeps, InetGrabLinkKeeps DEF Grabbers
<1> QED BY <1>4 DEF Connect, s, g, h

LEMMA BindFailedKeeps ==
    ASSUME NEW f, NEW p, Keeps(f, p)
    PROVE  Keeps(BindFailed(f), p)
<1> DEFINE g == [f EXCEPT !.bindRetried = TRUE]
<1>1. Keeps(g, p)
  <2>1. f \in Frame
    BY KeepsFrame
  <2>2. g \in Frame /\ Alike(g, f) /\ g.ep = f.ep /\ g.stopping = f.stopping
    BY <2>1 DEF Frame, Alike, Kept
  <2> HIDE DEF g
  <2> QED BY <2>2, AlikeKeeps
<1> HIDE DEF g
<1>2. Keeps(AddDelayedCall(g, "RetryBind", 5), p)
  BY <1>1, AddDelayedCallKeeps DEF Delayed
<1> QED BY <1>2, FailedKeeps DEF BindFailed, g

LEMMA RetryBindKeeps ==
    ASSUME NEW f, NEW p, Keeps(f, p)
    PROVE  Keeps(RetryBind(f), p)
  BY OpenSessionKeeps DEF RetryBind

LEMMA BoundKeeps ==
    ASSUME NEW f, NEW p, Keeps(f, p)
    PROVE  Keeps(Bound(f), p)
<1> DEFINE g == [f EXCEPT !.bindRetried = FALSE]
<1>1. Keeps(g, p) /\ g.stopping = f.stopping
  <2>1. f \in Frame
    BY KeepsFrame
  <2>2. g \in Frame /\ Alike(g, f) /\ g.ep = f.ep /\ g.stopping = f.stopping /\ g.stopping = f.stopping
    BY <2>1 DEF Frame, Alike, Kept
  <2> HIDE DEF g
  <2> QED BY <2>2, AlikeKeeps
<1> HIDE DEF g
<1>2. ~f.stopping => Keeps([g EXCEPT !.ep["chat"] = "connecting"], p)
  BY <1>1, EndpointKeeps DEF Endpoints, Stages
<1> QED BY <1>2 DEF Bound, g

LEMMA ConnectedKeeps ==
    ASSUME NEW f, NEW p, Keeps(f, p)
    PROVE  Keeps(Connected(f), p)
<1> DEFINE n == NewTicket(f, "HandshakeExpired")
           g == [n EXCEPT !.ready = FALSE]
           h == [g EXCEPT !.ep["chat"] = "hello"]
<1>1. Keeps(n, p) /\ n.stopping = f.stopping
  BY NewTicketKeeps
<1> HIDE DEF n
<1>2. Keeps(g, p) /\ g.stopping = f.stopping
  <2>1. n \in Frame
    BY <1>1, KeepsFrame
  <2>2. g \in Frame /\ Alike(g, n) /\ g.ep = n.ep /\ g.stopping = n.stopping /\ g.stopping = f.stopping
    BY <1>1, <2>1 DEF Frame, Alike, Kept
  <2> HIDE DEF g
  <2> QED BY <1>1, <2>2, AlikeKeeps
<1> HIDE DEF g
<1>3. ~f.stopping => Keeps(h, p)
  BY <1>2, EndpointKeeps DEF Endpoints, Stages
<1> HIDE DEF h
<1>4. ~f.stopping => Keeps(AddDelayedCall(h, "HandshakeExpired", 12), p)
  BY <1>3, AddDelayedCallKeeps DEF Delayed
<1> QED BY <1>4 DEF Connected, n, g, h

LEMMA HandshakeSucceededKeeps ==
    ASSUME NEW f, NEW p, Keeps(f, p)
    PROVE  /\ Keeps(HandshakeSucceeded(f), p)
           /\ HandshakeSucceeded(f).stopping = f.stopping
<1> DEFINE n == NewTicket(f, "HandshakeExpired")
           g == [n EXCEPT !.handshakeActive = FALSE]
<1>1. Keeps(n, p) /\ n.stopping = f.stopping
  BY NewTicketKeeps
<1> HIDE DEF n
<1>2. Keeps(g, p) /\ g.stopping = f.stopping
  <2>1. n \in Frame
    BY <1>1, KeepsFrame
  <2>2. g \in Frame /\ Alike(g, n) /\ g.ep = n.ep /\ g.stopping = n.stopping /\ g.stopping = f.stopping
    BY <1>1, <2>1 DEF Frame, Alike, Kept
  <2> HIDE DEF g
  <2> QED BY <1>1, <2>2, AlikeKeeps
<1> HIDE DEF g
<1> QED BY <1>2, ToolStartKeeps DEF HandshakeSucceeded, n, g

LEMMA SendKeeps ==
    ASSUME NEW f, NEW p, Keeps(f, p)
    PROVE  Keeps(Send(f), p)
<1> DEFINE r == ToolStart(RadioHold(f))
           g == [r EXCEPT !.ready = FALSE, !.inFlight = TRUE]
<1>1. Keeps(r, p)
  BY RadioHoldKeeps, ToolStartKeeps
<1> HIDE DEF r
<1>2. Keeps(g, p)
  <2>1. r \in Frame
    BY <1>1, KeepsFrame
  <2>2. g \in Frame /\ Alike(g, r) /\ g.ep = r.ep /\ g.stopping = r.stopping
    BY <1>1, <2>1 DEF Frame, Alike, Kept
  <2> HIDE DEF g
  <2> QED BY <1>1, <2>2, AlikeKeeps
<1> HIDE DEF g
<1>3. Keeps(Failed(g), p)
  BY <1>2, FailedKeeps
<1> QED BY <1>2, <1>3 DEF Send, r, g

LEMMA HearReadyKeeps ==
    ASSUME NEW f, NEW p, Keeps(f, p), f.ep["chat"] # "none"
    PROVE  Keeps(HearReady(f), p)
<1> DEFINE s == HandshakeSucceeded(f)
           k == [s EXCEPT !.ready = TRUE]
           g == [k EXCEPT !.ep["chat"] = "open"]
           h == [g EXCEPT !.pending = FALSE]
<1>1. Keeps(s, p) /\ ~s.stopping
  BY HandshakeSucceededKeeps DEF Keeps, Sound, Loose
<1> HIDE DEF s
<1>2. Keeps(k, p) /\ k.stopping = s.stopping
  <2>1. s \in Frame
    BY <1>1, KeepsFrame
  <2>2. k \in Frame /\ Alike(k, s) /\ k.ep = s.ep /\ k.stopping = s.stopping /\ k.stopping = s.stopping
    BY <1>1, <2>1 DEF Frame, Alike, Kept
  <2> HIDE DEF k
  <2> QED BY <1>1, <2>2, AlikeKeeps
<1> HIDE DEF k
<1>3. Keeps(g, p)
  BY <1>1, <1>2, EndpointKeeps DEF Endpoints, Stages
<1> HIDE DEF g
<1>4. Keeps(h, p)
  <2>1. g \in Frame
    BY <1>3, KeepsFrame
  <2>2. h \in Frame /\ Alike(h, g) /\ h.ep = g.ep /\ h.stopping = g.stopping
    BY <1>3, <2>1 DEF Frame, Alike, Kept
  <2> HIDE DEF h
  <2> QED BY <1>3, <2>2, AlikeKeeps
<1> HIDE DEF h
<1>5. Keeps(ArmRadioIdle(g), p) /\ Keeps(Send(h), p)
  BY <1>3, <1>4, ArmRadioIdleKeeps, SendKeeps
<1> QED BY <1>4, <1>5 DEF HearReady, s, k, g, h

LEMMA HearTurnEndKeeps ==
    ASSUME NEW f, NEW p, Keeps(f, p)
    PROVE  Keeps(HearTurnEnd(f), p)
<1> DEFINE g == [f EXCEPT !.ready = TRUE, !.inFlight = FALSE]
<1>1. Keeps(g, p)
  <2>1. f \in Frame
    BY KeepsFrame
  <2>2. g \in Frame /\ Alike(g, f) /\ g.ep = f.ep /\ g.stopping = f.stopping
    BY <2>1 DEF Frame, Alike, Kept
  <2> HIDE DEF g
  <2> QED BY <2>2, AlikeKeeps
<1> HIDE DEF g
<1> QED BY <1>1, ArmRadioIdleKeeps DEF HearTurnEnd, g

\* NIE granted the link, so there is a grant to release.
LEMMA LinkKeeps ==
    ASSUME NEW f, NEW p, Keeps(f, p), f.held > 0
    PROVE  /\ Keeps([f EXCEPT !.link = TRUE], p)
           /\ [f EXCEPT !.link = TRUE].link = TRUE
           /\ [f EXCEPT !.link = TRUE].stopping = f.stopping
<1> DEFINE g == [f EXCEPT !.link = TRUE]
<1>1. f \in Frame
  BY KeepsFrame
<1>2. /\ g \in Frame /\ g.link = TRUE /\ g.ep = f.ep /\ g.stopping = f.stopping
      /\ g.held = f.held /\ Kept(g, f)
  BY <1>1 DEF Frame, Kept
<1> HIDE DEF g
<1>4. Linked(g) /\ Granted(g) /\ Stopped(g)
  BY <1>2 DEF Keeps, Sound, Loose
<1>3. Keeps(g, p)
  BY <1>2, <1>4, KeptKeeps
<1> QED BY <1>2, <1>3 DEF g

LEMMA GrabbedKeeps ==
    ASSUME NEW f, NEW p, Keeps(f, p), NEW ok \in BOOLEAN, ok => f.held > 0
    PROVE  Keeps(Grabbed(f, ok), p)
<1> DEFINE g == [f EXCEPT !.link = TRUE]
<1>1. ok => Keeps(g, p) /\ g.stopping = f.stopping
  BY LinkKeeps
<1> HIDE DEF g
<1>2. ok /\ ~f.stopping => Keeps(OpenSession(g), p)
  BY <1>1, OpenSessionKeeps
<1>3. Keeps(Failed(f), p)
  BY FailedKeeps
<1> QED BY <1>2, <1>3 DEF Grabbed, g

-----------------------------------------------------------------------------
(* The ink POST.                                                           *)

LEMMA InkDoneKeeps ==
    ASSUME NEW f, NEW p, Keeps(f, p)
    PROVE  Keeps(InkDone(f), p)
  BY AddDelayedCallKeeps DEF InkDone, Delayed

LEMMA InkFailedKeeps ==
    ASSUME NEW f, NEW p, Keeps(f, p)
    PROVE  Keeps(InkFailed(f), p)
<1> DEFINE g == [f EXCEPT !.inkBusy = FALSE, !.inkBody = FALSE]
<1>1. Keeps(g, p)
  <2>1. f \in Frame
    BY KeepsFrame
  <2>2. g \in Frame /\ Alike(g, f) /\ g.ep = f.ep /\ g.stopping = f.stopping
    BY <2>1 DEF Frame, Alike, Kept
  <2> HIDE DEF g
  <2> QED BY <2>2, AlikeKeeps
<1> HIDE DEF g
<1> QED BY <1>1, InkDoneKeeps DEF InkFailed, g

LEMMA InkStopKeeps ==
    ASSUME NEW f, NEW p, Keeps(f, p)
    PROVE  Keeps(InkStop(f), p)
<1> DEFINE g == [f EXCEPT !.ep["ink"] = "none"]
           h == [g EXCEPT !.inkBody = FALSE]
<1>1. Keeps(g, p)
  BY EndpointKeeps DEF Endpoints, Stages
<1> HIDE DEF g
<1>2. Keeps(h, p)
  <2>1. g \in Frame
    BY <1>1, KeepsFrame
  <2>2. h \in Frame /\ Alike(h, g) /\ h.ep = g.ep /\ h.stopping = g.stopping
    BY <1>1, <2>1 DEF Frame, Alike, Kept
  <2> HIDE DEF h
  <2> QED BY <1>1, <2>2, AlikeKeeps
<1> HIDE DEF h
<1>3. Keeps(ReleaseLink(ArmRadioIdle(h)), p)
  BY <1>2, ArmRadioIdleKeeps, ReleaseLinkKeeps
<1> QED BY <1>3 DEF InkStop, g, h

LEMMA ArmInkWatchKeeps ==
    ASSUME NEW f, NEW p, Keeps(f, p)
    PROVE  Keeps(ArmInkWatch(f), p)
<1>1. Keeps(NewTicket(f, "InkExpired"), p)
  BY NewTicketKeeps
<1>2. Keeps(AddDelayedCall(NewTicket(f, "InkExpired"), "InkExpired", 150), p)
  BY <1>1, AddDelayedCallKeeps DEF Delayed
<1> QED BY <1>2 DEF ArmInkWatch

LEMMA InkExpiredKeeps ==
    ASSUME NEW f, NEW p, Keeps(f, p), NEW current
    PROVE  Keeps(InkExpired(f, current), p)
<1> DEFINE g == [f EXCEPT !.inkBusy = FALSE]
<1>1. Keeps(g, p)
  <2>1. f \in Frame
    BY KeepsFrame
  <2>2. g \in Frame /\ Alike(g, f) /\ g.ep = f.ep /\ g.stopping = f.stopping
    BY <2>1 DEF Frame, Alike, Kept
  <2> HIDE DEF g
  <2> QED BY <2>2, AlikeKeeps
<1> HIDE DEF g
<1> QED BY <1>1, InkDoneKeeps DEF InkExpired, g

LEMMA InkOpenKeeps ==
    ASSUME NEW f, NEW p, Keeps(f, p)
    PROVE  Keeps(InkOpen(f), p)
<1> DEFINE g == ToolStart(f)
<1>1. Keeps(g, p)
  BY ToolStartKeeps
<1> HIDE DEF g
<1>2. Keeps([g EXCEPT !.ep["ink"] = "binding"], p)
  BY <1>1, EndpointKeeps DEF Endpoints, Stages
<1> QED BY <1>1, <1>2 DEF InkOpen, g

\* It counts the note before it takes a new ticket for the watchdog.
LEMMA SendInkKeeps ==
    ASSUME NEW f, NEW p, Keeps(f, p), f.asks < MaxWork,
           NEW q, q = [asks |-> f.asks + 1, open |-> f.open, radioHeld |-> TRUE,
                       toolWatching |-> f.toolWatching, calls |-> f.calls]
    PROVE  Keeps(SendInk(f), q)
<1> DEFINE r == RadioHold(f)
           asks == r.asks + 1
           n == [r EXCEPT !.asks = asks]
           n1 == [n EXCEPT !.inkPart = 0]
           n2 == [n1 EXCEPT !.inkAck = FALSE, !.inkBody = TRUE]
           n3 == [n2 EXCEPT !.inkBusy = TRUE, !.inkBindRetried = FALSE]
           t == NewTicket(n3, "InkExpired")
           g == AddDelayedCall(t, "InkExpired", 150)
<1>1. Keeps(r, f) /\ r.radioHeld = TRUE /\ r.asks = f.asks
  <2>1. Keeps(f, f)
    BY DEF Keeps, Follows
  <2>2. Keeps(RadioHold(f), f) /\ RadioHold(f).asks = f.asks
    BY <2>1, RadioHoldKeeps
  <2>3. Outdate(f, {"RadioExpired", "Stop"}) \in Frame
    BY OutdateKeeps, KeepsFrame
  <2>4. RadioHold(f).radioHeld = TRUE
    BY <2>3 DEF RadioHold, Frame
  <2> QED BY <2>2, <2>4
<1>2. r \in Frame /\ asks \in 0..MaxWork
  <2>1. r \in Frame
    BY <1>1, KeepsFrame
  <2>2. r.asks \in 0..MaxWork
    BY <2>1 DEF Frame
  <2> QED BY <1>1, <2>1, <2>2, RadioAssumption
<1>9. ArmInkWatch([RadioHold(f) EXCEPT !.asks = @ + 1, !.inkPart = 0, !.inkAck = FALSE,
                                    !.inkBody = TRUE, !.inkBusy = TRUE,
                                    !.inkBindRetried = FALSE]) = ArmInkWatch(n3)
  OBVIOUS
<1> HIDE DEF r
<1>3. asks = f.asks + 1
  BY <1>1
<1> HIDE DEF asks
<1>4. /\ n \in Frame /\ n.asks = asks /\ n.ep = r.ep /\ n.link = r.link
      /\ n.held = r.held /\ n.calls = r.calls /\ n.armed = r.armed
      /\ n.stopping = r.stopping /\ n.radioHeld = r.radioHeld /\ n.open = r.open
      /\ n.toolReady = r.toolReady /\ n.toolMisses = r.toolMisses
      /\ n.toolWatching = r.toolWatching /\ n.toolStopping = r.toolStopping
  BY <1>2 DEF Frame
<1> HIDE DEF n
<1>5. Loose(n) /\ Tended(n) /\ Follows(n, q)
  <2>1. OneChain(n) /\ Armed(n) /\ (Ticks(n) <=> Ticks(r)) /\ (Ticks(q) <=> Ticks(f))
    BY <1>1, <1>4, SameCalls DEF Keeps, Sound, Loose
  <2>2. Loose(n)
    BY <1>1, <1>4, <2>1 DEF Keeps, Sound, Loose
  <2>3. Tended(n)
    BY <1>1, <1>4 DEF Keeps, Sound, Tended
  <2>4. Follows(n, q)
    BY <1>1, <1>3, <1>4, <2>1 DEF Keeps, Follows
  <2> QED BY <2>2, <2>3, <2>4
<1>6. /\ n3 \in Frame /\ Alike(n3, n) /\ n3.ep = n.ep /\ n3.stopping = n.stopping
      /\ n3.inkBusy = TRUE
  <2>1. n \in Frame /\ 0 \in 0..(Strips - 1)
    BY <1>4, RadioAssumption
  <2>2. n1 \in Frame
    BY <2>1, Zenon DEF Frame
  <2>3. Alike(n1, n) /\ n1.ep = n.ep /\ n1.stopping = n.stopping
    BY <2>1 DEF Frame, Alike, Kept
  <2> HIDE DEF n1
  <2>4. n2 \in Frame /\ Alike(n2, n1) /\ n2.ep = n1.ep /\ n2.stopping = n1.stopping
    BY <2>2 DEF Frame, Alike, Kept
  <2> HIDE DEF n2
  <2>5. /\ n3 \in Frame /\ Alike(n3, n2) /\ n3.ep = n2.ep /\ n3.stopping = n2.stopping
        /\ n3.inkBusy = TRUE
    BY <2>4 DEF Frame, Alike, Kept
  <2> HIDE DEF n3
  <2> QED BY <2>3, <2>4, <2>5 DEF Alike, Kept
<1> HIDE DEF n3
<1>7. Loose(n3) /\ Tended(n3) /\ Follows(n3, q)
  <2>1. Linked(n3) /\ Granted(n3) /\ Stopped(n3)
    BY <1>5, <1>6 DEF Alike, Loose
  <2> QED BY <1>5, <1>6, <2>1, KeptLoose DEF Alike
<1>8. Keeps(t, q)
  BY <1>7, OutdateFreshens DEF NewTicket
<1> HIDE DEF t
<1>10. Keeps(g, q)
  BY <1>8, AddDelayedCallKeeps DEF Delayed
<1>11. ArmInkWatch(n3) = g
  BY <1>6 DEF ArmInkWatch, t
<1> HIDE DEF g
<1>12. Keeps(InkOpen(g), q) /\ Keeps(InetGrabLink(g, "ink"), q)
  BY <1>10, InkOpenKeeps, InetGrabLinkKeeps DEF Grabbers
<1> QED BY <1>9, <1>11, <1>12 DEF SendInk

LEMMA InkGrabbedKeeps ==
    ASSUME NEW f, NEW p, Keeps(f, p), NEW ok \in BOOLEAN, ok => f.held > 0
    PROVE  Keeps(InkGrabbed(f, ok), p)
<1> DEFINE g == [f EXCEPT !.link = TRUE]
<1>1. ok => Keeps(g, p)
  BY LinkKeeps
<1> HIDE DEF g
<1>2. ok => Keeps(InkOpen(g), p)
  BY <1>1, InkOpenKeeps
<1>3. Keeps(InkFailed(f), p)
  BY InkFailedKeeps
<1> QED BY <1>2, <1>3 DEF InkGrabbed, g

LEMMA InkBindFailedKeeps ==
    ASSUME NEW f, NEW p, Keeps(f, p)
    PROVE  Keeps(InkBindFailed(f), p)
<1> DEFINE g == [f EXCEPT !.inkBindRetried = TRUE]
<1>1. Keeps(g, p)
  <2>1. f \in Frame
    BY KeepsFrame
  <2>2. g \in Frame /\ Alike(g, f) /\ g.ep = f.ep /\ g.stopping = f.stopping
    BY <2>1 DEF Frame, Alike, Kept
  <2> HIDE DEF g
  <2> QED BY <2>2, AlikeKeeps
<1> HIDE DEF g
<1>2. Keeps(AddDelayedCall(g, "InkRebind", 5), p)
  BY <1>1, AddDelayedCallKeeps DEF Delayed
<1> QED BY <1>2, InkFailedKeeps DEF InkBindFailed, g

LEMMA InkRebindKeeps ==
    ASSUME NEW f, NEW p, Keeps(f, p)
    PROVE  Keeps(InkRebind(f), p)
<1> DEFINE g == [f EXCEPT !.ep["ink"] = "none"]
<1>1. Keeps(g, p)
  BY EndpointKeeps DEF Endpoints, Stages
<1> HIDE DEF g
<1> QED BY <1>1, InkOpenKeeps DEF InkRebind, g

LEMMA InkBoundKeeps ==
    ASSUME NEW f, NEW p, Keeps(f, p)
    PROVE  Keeps(InkBound(f), p)
<1> DEFINE g == [f EXCEPT !.inkBindRetried = FALSE]
<1>1. Keeps(g, p)
  <2>1. f \in Frame
    BY KeepsFrame
  <2>2. g \in Frame /\ Alike(g, f) /\ g.ep = f.ep /\ g.stopping = f.stopping
    BY <2>1 DEF Frame, Alike, Kept
  <2> HIDE DEF g
  <2> QED BY <2>2, AlikeKeeps
<1> HIDE DEF g
<1>2. Keeps([g EXCEPT !.ep["ink"] = "connecting"], p)
  BY <1>1, EndpointKeeps DEF Endpoints, Stages
<1> QED BY <1>2 DEF InkBound, g

LEMMA InkPostKeeps ==
    ASSUME NEW f, NEW p, Keeps(f, p)
    PROVE  Keeps(InkPost(f), p)
<1> DEFINE g == [f EXCEPT !.inkBody = FALSE]
           s == IF f.inkBody THEN "sent" ELSE "idle"
<1>1. Keeps(g, p)
  <2>1. f \in Frame
    BY KeepsFrame
  <2>2. g \in Frame /\ Alike(g, f) /\ g.ep = f.ep /\ g.stopping = f.stopping
    BY <2>1 DEF Frame, Alike, Kept
  <2> HIDE DEF g
  <2> QED BY <2>2, AlikeKeeps
<1> HIDE DEF g
<1>2. Keeps([g EXCEPT !.ep["ink"] = s], p)
  BY <1>1, EndpointKeeps DEF Endpoints, Stages
<1> QED BY <1>2 DEF InkPost, g

LEMMA InkDroppedKeeps ==
    ASSUME NEW f, NEW p, Keeps(f, p)
    PROVE  Keeps(InkDropped(f), p)
<1> DEFINE part == f.inkPart + 1
           g == [f EXCEPT !.inkPart = part, !.inkAck = FALSE]
           h == [f EXCEPT !.inkBusy = FALSE]
<1>1. ASSUME part < Strips
      PROVE  Keeps(g, p)
  <2>1. f \in Frame
    BY KeepsFrame
  <2>2. f.inkPart \in 0..(Strips - 1)
    BY <2>1 DEF Frame
  <2>3. part \in 0..(Strips - 1)
    BY <1>1, <2>2, RadioAssumption
  <2> HIDE DEF part
  <2>4. g \in Frame /\ Alike(g, f) /\ g.ep = f.ep /\ g.stopping = f.stopping
    BY <2>1, <2>3 DEF Frame, Alike, Kept
  <2> HIDE DEF g
  <2> QED BY <2>4, AlikeKeeps
<1> HIDE DEF g
<1>2. Keeps(h, p)
  <2>1. f \in Frame
    BY KeepsFrame
  <2>2. h \in Frame /\ Alike(h, f) /\ h.ep = f.ep /\ h.stopping = f.stopping
    BY <2>1 DEF Frame, Alike, Kept
  <2> HIDE DEF h
  <2> QED BY <2>2, AlikeKeeps
<1> HIDE DEF h
<1>3. part < Strips => Keeps(AddDelayedCall(g, "InkNext", 1), p)
  BY <1>1, AddDelayedCallKeeps DEF Delayed
<1>4. Keeps(InkDone(h), p)
  BY <1>2, InkDoneKeeps
<1> QED BY <1>3, <1>4 DEF InkDropped, g, h

LEMMA InkNextKeeps ==
    ASSUME NEW f, NEW p, Keeps(f, p), NEW encoded \in BOOLEAN
    PROVE  Keeps(InkNext(f, encoded), p)
<1> DEFINE g == [f EXCEPT !.ep["ink"] = "none"]
           h == [g EXCEPT !.inkBody = encoded]
<1>1. Keeps(g, p)
  BY EndpointKeeps DEF Endpoints, Stages
<1> HIDE DEF g
<1>2. Keeps(h, p)
  <2>1. g \in Frame
    BY <1>1, KeepsFrame
  <2>2. h \in Frame /\ Alike(h, g) /\ h.ep = g.ep /\ h.stopping = g.stopping
    BY <1>1, <2>1 DEF Frame, Alike, Kept
  <2> HIDE DEF h
  <2> QED BY <1>1, <2>2, AlikeKeeps
<1> HIDE DEF h
<1>3. Keeps(InkOpen(h), p) /\ Keeps(InkFailed(h), p)
  BY <1>2, InkOpenKeeps, InkFailedKeeps
<1> QED BY <1>3 DEF InkNext, g, h

LEMMA ToolGrabbedKeeps ==
    ASSUME NEW f, NEW p, Keeps(f, p), NEW ok \in BOOLEAN, ok => f.held > 0
    PROVE  Keeps(ToolGrabbed(f, ok), p)
<1> DEFINE g == [f EXCEPT !.link = TRUE]
<1>1. ok => Keeps(g, p) /\ g.link
  BY LinkKeeps
<1> HIDE DEF g
<1>2. ok => Keeps(ToolOpen(g), p)
  BY <1>1, ToolOpenKeeps
<1>3. Keeps(ToolRetry(f), p)
  BY ToolRetryKeeps DEF Keeps, Sound
<1> QED BY <1>2, <1>3 DEF ToolGrabbed, g

-----------------------------------------------------------------------------
(* The two methods that let go of the radio.                               *)

LEMMA SwitchOffKeeps ==
    ASSUME NEW f, NEW p, Keeps(f, p),
           NEW g, g = [f EXCEPT !.radioHeld = FALSE, !.toolStopping = TRUE],
           NEW q, q = [asks |-> f.asks, open |-> f.open, radioHeld |-> FALSE,
                       toolWatching |-> f.toolWatching, calls |-> f.calls]
    PROVE  /\ Keeps(ToolStop(g), q)
           /\ Keeps(Stop(ToolStop(g)), q)
           /\ ~Stop(ToolStop(g)).link
           /\ \A e \in Endpoints : Stop(ToolStop(g)).ep[e] = "none"
<1>1. f \in Frame
  BY KeepsFrame
<1>2. g \in Frame
  BY <1>1 DEF Frame
<1>3. /\ g.ep = f.ep /\ g.link = f.link /\ g.held = f.held /\ g.calls = f.calls
      /\ g.armed = f.armed /\ g.stopping = f.stopping /\ g.asks = f.asks /\ g.open = f.open
      /\ g.toolWatching = f.toolWatching
  BY <1>1 DEF Frame
<1>8. /\ OneChain(g) /\ Armed(g) /\ Fresh(g)
      /\ (Ticks(g) <=> Ticks(f)) /\ (Ticks(q) <=> Ticks(f))
  BY <1>3, SameCalls DEF Keeps, Sound, Loose
<1>4. Loose(g) /\ Fresh(g)
  BY <1>2, <1>3, <1>8 DEF Keeps, Sound, Loose
<1>5. Follows(g, q)
  BY <1>3, <1>8 DEF Follows
<1>6. Keeps(ToolStop(g), q) /\ ToolStop(g).ep = [g.ep EXCEPT !["tool"] = "none"]
  BY <1>4, <1>5, ToolStopKeeps
<1>7. ToolStop(g).ep["tool"] = "none"
  BY <1>2, <1>6 DEF Frame, Endpoints
<1> QED BY <1>6, <1>7, StopKeeps DEF Endpoints

\* It does so only on a current ticket, and not during a turn, a note or a request.
LEMMA RadioExpiredKeeps ==
    ASSUME NEW f, NEW p, Keeps(f, p), NEW current \in BOOLEAN, current => f.armed,
           NEW q, q = [asks |-> f.asks, open |-> f.open, radioHeld |-> FALSE,
                       toolWatching |-> f.toolWatching, calls |-> f.calls]
    PROVE  /\ Keeps(RadioExpired(f, current), q)
           /\ \/ Keeps(RadioExpired(f, current), p)
              \/ f.armed /\ ~f.inFlight /\ ~f.inkBusy /\ f.toolID = 0
<1> DEFINE again == AddDelayedCall(f, "RadioExpired", 1)
           g == [f EXCEPT !.radioHeld = FALSE, !.toolStopping = TRUE]
<1>1. Keeps(f, q)
  BY SameCalls DEF Keeps, Follows
<1>2. current => Keeps(again, p) /\ Keeps(again, q)
  BY <1>1, AddDelayedCallKeeps DEF Delayed
<1>3. Keeps(Stop(ToolStop(g)), q)
  BY SwitchOffKeeps
<1> HIDE DEF again, g
<1>4. CASE ~current \/ ~f.radioHeld \/ f.inFlight \/ f.inkBusy
  BY <1>1, <1>4 DEF RadioExpired
<1>5. CASE /\ ~(~current \/ ~f.radioHeld \/ f.inFlight \/ f.inkBusy)
           /\ f.toolID = HeartBeat
  BY <1>2, <1>5 DEF RadioExpired, again
<1>6. CASE /\ ~(~current \/ ~f.radioHeld \/ f.inFlight \/ f.inkBusy)
           /\ f.toolID # HeartBeat /\ f.toolID # 0
  BY <1>1, <1>6 DEF RadioExpired
<1>7. CASE /\ ~(~current \/ ~f.radioHeld \/ f.inFlight \/ f.inkBusy)
           /\ f.toolID # HeartBeat /\ f.toolID = 0
  BY <1>3, <1>7 DEF RadioExpired, g
<1> QED BY <1>4, <1>5, <1>6, <1>7

LEMMA ViewQuitScriptSound ==
    ASSUME NEW f, NEW p, Keeps(f, p)
    PROVE  /\ Sound(ViewQuitScript(f))
           /\ ViewQuitScript(f).asks = f.asks
           /\ ~ViewQuitScript(f).open
           /\ ~ViewQuitScript(f).link
           /\ \A e \in Endpoints : ViewQuitScript(f).ep[e] = "none"
<1> DEFINE g == [f EXCEPT !.radioHeld = FALSE, !.toolStopping = TRUE]
           q == [asks |-> f.asks, open |-> f.open, radioHeld |-> FALSE,
                 toolWatching |-> f.toolWatching, calls |-> f.calls]
           s == Stop(ToolStop(g))
           h == [s EXCEPT !.open = FALSE, !.calls = << >>]
<1>1. Keeps(s, q) /\ ~s.link /\ \A e \in Endpoints : s.ep[e] = "none"
  BY SwitchOffKeeps
<1>2. s \in Frame /\ s.asks = f.asks
  BY <1>1, KeepsFrame DEF Keeps, Follows
<1> HIDE DEF s
<1>3. << >> \in Seq(Call) /\ DOMAIN << >> = {}
  OBVIOUS
<1>4. h \in Frame
  BY <1>2, <1>3 DEF Frame
<1>5. /\ h.ep = s.ep /\ h.link = s.link /\ h.held = s.held /\ h.calls = << >>
      /\ h.stopping = s.stopping /\ h.asks = s.asks /\ h.open = FALSE
      /\ h.toolReady = s.toolReady /\ h.toolMisses = s.toolMisses
      /\ h.toolWatching = s.toolWatching /\ h.toolStopping = s.toolStopping
  BY <1>2 DEF Frame
<1> HIDE DEF h
<1>6. Armed(h) /\ OneChain(h) /\ Fresh(h)
  BY <1>3, <1>5 DEF Armed, OneChain, Fresh
<1>7. Sound(h)
  BY <1>1, <1>4, <1>5, <1>6 DEF Keeps, Sound, Loose, Tended
<1>8. ViewQuitScript(f) = h
  BY DEF ViewQuitScript, g, s, h
<1> QED BY <1>1, <1>2, <1>5, <1>7, <1>8

-----------------------------------------------------------------------------
(* What the ROM does to the frame before it calls a method.                *)

LEMMA AnsweredKeeps ==
    ASSUME NEW p, Keeps(app, p), NEW who \in Grabbers, NEW ok \in BOOLEAN,
           app.grabs[who] > 0
    PROVE  /\ Keeps(Answered(who, ok), p)
           /\ ok => Answered(who, ok).held > 0
<1> DEFINE k == [app.grabs EXCEPT ![who] = @ - 1]
           n == IF ok THEN app.held + 1 ELSE app.held
           g == [app EXCEPT !.grabs = k, !.held = n]
<1>1. app \in Frame
  BY KeepsFrame
<1>2. k \in [Grabbers -> Nat]
  BY <1>1 DEF Frame
<1>3. app.held \in Nat
  BY <1>1 DEF Frame
<1>4. n \in Nat /\ (ok => n > 0) /\ (app.held > 0 => n > 0)
  BY <1>3
<1>5. Answered(who, ok) = g
  BY DEF Answered
<1> HIDE DEF k, n
<1>6. g \in Frame
  BY <1>1, <1>2, <1>4 DEF Frame
<1>7. /\ g.held = n /\ g.ep = app.ep /\ g.link = app.link /\ g.calls = app.calls
      /\ g.stopping = app.stopping /\ Kept(g, app)
  BY <1>1 DEF Frame, Kept
<1> HIDE DEF g
<1>9. Linked(g) /\ Granted(g) /\ Stopped(g)
  BY <1>4, <1>7 DEF Keeps, Sound, Loose
<1>8. Keeps(g, p)
  BY <1>6, <1>7, <1>9, KeptKeeps
<1> QED BY <1>4, <1>5, <1>7, <1>8

LEMMA ClosedKeeps ==
    ASSUME NEW p, Keeps(app, p), NEW e \in Endpoints, app.ep[e] # "none"
    PROVE  Keeps(Closed(e), p) /\ Keeps(Unbound(e), p)
  BY EndpointKeeps DEF Closed, Unbound, Stages

\* Where the calls stood that are left of n when the i-th is taken out.
Stood(n, i) == [j \in 1..(n - 1) |-> IF j <= i - 1 THEN j ELSE j + 1]

LEMMA Removal ==
    ASSUME NEW s \in Seq(Call), NEW i \in DOMAIN s
    PROVE  LET q == RemoveAt(s, i)
               from == Stood(Len(s), i)
           IN
           /\ q \in Seq(Call)
           /\ \A j \in DOMAIN q : from[j] \in DOMAIN s \ {i} /\ q[j] = s[from[j]]
           /\ \A j, k \in DOMAIN q : from[j] = from[k] => j = k
           /\ \A j, k \in DOMAIN q : from[j] < from[k] => j < k
           /\ \A k \in DOMAIN s \ {i} : \E j \in DOMAIN q : from[j] = k
<1>1. DOMAIN s = 1..Len(s) /\ Len(s) \in Nat /\ i \in 1..Len(s)
  OBVIOUS
<1> DEFINE q == RemoveAt(s, i)
           from == Stood(Len(s), i)
           a == SubSeq(s, 1, i - 1)
           b == SubSeq(s, i + 1, Len(s))
<1>2. /\ a \in Seq(Call) /\ Len(a) = i - 1
      /\ \A j \in 1..(i - 1) : a[j] = s[j]
  BY <1>1
<1>3. /\ b \in Seq(Call) /\ Len(b) = Len(s) - i
      /\ \A j \in 1..(Len(s) - i) : b[j] = s[i + j]
  BY <1>1
<1>4. q = a \o b
  BY DEF RemoveAt
<1>10. from = [j \in 1..(Len(s) - 1) |-> IF j <= i - 1 THEN j ELSE j + 1]
  BY DEF Stood
<1> HIDE DEF a, b, q, from
<1>5. /\ q \in Seq(Call) /\ Len(q) = Len(a) + Len(b)
      /\ \A j \in 1..(Len(a) + Len(b)) : q[j] = IF j <= Len(a) THEN a[j] ELSE b[j - Len(a)]
  BY <1>2, <1>3, <1>4, ConcatProperties
<1>6. /\ Len(q) = Len(s) - 1 /\ DOMAIN q = 1..(Len(s) - 1)
      /\ \A j \in 1..(Len(s) - 1) : q[j] = IF j <= i - 1 THEN a[j] ELSE b[j - (i - 1)]
  BY <1>1, <1>2, <1>3, <1>5
<1>7. ASSUME NEW j \in DOMAIN q
      PROVE  from[j] \in DOMAIN s \ {i} /\ q[j] = s[from[j]]
  <2>1. j \in 1..(Len(s) - 1)
    BY <1>6
  <2>2. CASE j <= i - 1
    <3>1. j \in 1..(i - 1) /\ j \in 1..Len(s) /\ from[j] = j /\ j # i
      BY <1>1, <1>10, <2>1, <2>2
    <3>2. q[j] = s[j]
      BY <1>2, <1>6, <2>1, <2>2, <3>1
    <3> QED BY <1>1, <3>1, <3>2
  <2>3. CASE j > i - 1
    <3>1. /\ j - (i - 1) \in 1..(Len(s) - i) /\ i + (j - (i - 1)) = j + 1
          /\ j + 1 \in 1..Len(s) /\ from[j] = j + 1 /\ j + 1 # i
      BY <1>1, <1>10, <2>1, <2>3
    <3>2. q[j] = s[j + 1]
      BY <1>1, <1>3, <1>6, <2>1, <2>3, <3>1
    <3> QED BY <1>1, <3>1, <3>2
  <2> QED BY <1>1, <2>1, <2>2, <2>3
<1>8. ASSUME NEW j \in DOMAIN q, NEW k \in DOMAIN q
      PROVE  /\ from[j] = from[k] => j = k
             /\ from[j] < from[k] => j < k
  BY <1>1, <1>6, <1>10
<1>9. ASSUME NEW k \in DOMAIN s \ {i}
      PROVE  \E j \in DOMAIN q : from[j] = k
  <2>1. CASE k < i
    <3>1. k \in DOMAIN q /\ from[k] = k
      BY <1>1, <1>10, <1>6, <2>1
    <3> QED BY <3>1
  <2>2. CASE k > i
    <3>1. k - 1 \in DOMAIN q /\ from[k - 1] = k
      BY <1>1, <1>10, <1>6, <2>2
    <3> QED BY <3>1
  <2> QED BY <1>1, <2>1, <2>2
<1> QED BY <1>5, <1>7, <1>8, <1>9 DEF q, from

LEMMA WithoutKeeps ==
    ASSUME NEW p, Keeps(app, p), NEW i \in DOMAIN app.calls
    PROVE  /\ Sound(Without(i))
           /\ app.calls[i].run # "ToolWatch" => Keeps(Without(i), p)
           /\ app.calls[i].run = "ToolWatch" => ~Ticks(Without(i))
           /\ app.calls[i].run = "InkExpired" /\ Current(i) => app.calls[i].send = app.asks
           /\ Current(i) \in BOOLEAN
           /\ app.calls[i].run = "RadioExpired" /\ Current(i) => app.armed
           /\ Without(i).armed = app.armed
           /\ Without(i).asks = app.asks
           /\ Without(i).open = app.open
           /\ Without(i).inFlight = app.inFlight
           /\ Without(i).inkBusy = app.inkBusy
           /\ Without(i).toolID = app.toolID
           /\ Without(i).lost = app.lost
           /\ Without(i).radioHeld = app.radioHeld
           /\ Without(i).toolWatching = app.toolWatching
           /\ InkSlots(Without(i)) = InkSlots(app)
<1> DEFINE s == app.calls
           q == RemoveAt(s, i)
           g == [app EXCEPT !.calls = q]
           from == Stood(Len(s), i)
<1>1. app \in Frame /\ Armed(app)
  BY KeepsFrame DEF Keeps, Sound, Loose
<1>2. s \in Seq(Call) /\ DOMAIN s = 1..Len(s) /\ Len(s) \in Nat
  BY <1>1 DEF Frame
<1>3. s[i] \in Call
  BY <1>2
<1>4. Current(i) \in BOOLEAN /\ (app.calls[i].run = "RadioExpired" /\ Current(i) => app.armed)
  BY <1>1, <1>3 DEF Current, Call, Armed
<1> HIDE DEF s
<1>5. /\ q \in Seq(Call)
      /\ \A j \in DOMAIN q : from[j] \in DOMAIN s \ {i} /\ q[j] = s[from[j]]
      /\ \A j, k \in DOMAIN q : from[j] = from[k] => j = k
      /\ \A k \in DOMAIN s \ {i} : \E j \in DOMAIN q : from[j] = k
  <2>1. i \in DOMAIN s
    BY DEF s
  <2> QED BY <1>2, <2>1, Removal
<1>6. Without(i) = g
  BY DEF Without, s
<1> HIDE DEF q, from
<1>7. g \in Frame
  BY <1>1, <1>5 DEF Frame
<1>8. /\ g.calls = q /\ g.ep = app.ep /\ g.link = app.link /\ g.held = app.held
      /\ g.armed = app.armed /\ g.stopping = app.stopping /\ g.asks = app.asks
      /\ g.radioHeld = app.radioHeld /\ g.open = app.open
      /\ g.toolReady = app.toolReady /\ g.toolMisses = app.toolMisses
      /\ g.toolWatching = app.toolWatching /\ g.toolStopping = app.toolStopping
      /\ g.inFlight = app.inFlight /\ g.inkBusy = app.inkBusy /\ g.toolID = app.toolID
      /\ g.lost = app.lost
  BY <1>1 DEF Frame
<1>9. InkSlots(g) = InkSlots(app)
  BY <1>1 DEF Frame, InkSlots
<1> HIDE DEF g
<1>10. Armed(g)
  BY <1>1, <1>5, <1>8 DEF Armed, s
<1>11. Fresh(app) /\ OneChain(app)
  BY DEF Keeps, Sound, Loose
<1>12. Fresh(g)
  BY <1>5, <1>8, <1>11 DEF Fresh, s
<1>13. \A j \in DOMAIN q : Watch(g, j) <=> Watch(app, from[j])
  BY <1>5, <1>8 DEF Watch, s
<1>14. OneChain(g)
  BY <1>5, <1>8, <1>11, <1>13 DEF OneChain, s
<1>15. Sound(g)
  BY <1>7, <1>8, <1>10, <1>12, <1>14 DEF Keeps, Sound, Loose, Tended
<1>16. app.calls[i].run # "ToolWatch" => (Ticks(g) <=> Ticks(app))
  BY <1>5, <1>8, <1>13 DEF Ticks, Watch, s
<1>17. app.calls[i].run = "ToolWatch" => ~Ticks(g)
  BY <1>5, <1>8, <1>11, <1>13 DEF OneChain, Ticks, Watch, s
<1>18. app.calls[i].run # "ToolWatch" => Keeps(g, p)
  BY <1>8, <1>15, <1>16 DEF Keeps, Follows
<1>19. app.calls[i].run = "InkExpired" /\ Current(i) => app.calls[i].send = app.asks
  BY <1>11 DEF Fresh, Current
<1> QED BY <1>4, <1>6, <1>8, <1>9, <1>15, <1>17, <1>18, <1>19

-----------------------------------------------------------------------------
(* The actions.  All but five do what Keeps says of the frame they began    *)
(* with.                                                                   *)

Budget == Fine \/ Spend("work") \/ Spend("faults")
Ordinary == app.open /\ Budget /\ Keeps(app', app)

USE DEF Fine, Fault

LEMMA TapsKeep ==
    ASSUME Sound(app), TapSend \/ TapNew \/ TapTooLong
    PROVE  Ordinary
<1>1. Keeps(app, app)
  BY DEF Keeps, Follows
<1>2. Keeps([app EXCEPT !.pending = TRUE], app)
  <2> DEFINE g == [app EXCEPT !.pending = TRUE]
  <2>1. app \in Frame
    BY <1>1, KeepsFrame
  <2>2. g \in Frame /\ Alike(g, app) /\ g.ep = app.ep /\ g.stopping = app.stopping
    BY <2>1 DEF Frame, Alike, Kept
  <2> HIDE DEF g
  <2>3. Keeps(g, app)
    BY <1>1, <2>2, AlikeKeeps
  <2> QED BY <2>3 DEF g
<1>3. /\ Keeps(Send(app), app)
      /\ Keeps(Connect([app EXCEPT !.pending = TRUE]), app)
      /\ Keeps(ArmRadioIdle(app), app)
  BY <1>1, <1>2, SendKeeps, ConnectKeeps, ArmRadioIdleKeeps
<1> QED BY <1>3 DEF Ordinary, Budget, TapSend, TapNew, TapTooLong

LEMMA GrabsKeep ==
    ASSUME Sound(app), Grabs
    PROVE  Ordinary
<1>1. Keeps(app, app)
  BY DEF Keeps, Follows
<1>2. CASE ChatGrab
  BY <1>1, <1>2, AnsweredKeeps, GrabbedKeeps
  DEF ChatGrab, GrabReports, Grabbers, Ordinary, Budget
<1>3. CASE InkGrab
  BY <1>1, <1>3, AnsweredKeeps, InkGrabbedKeeps
  DEF InkGrab, GrabReports, Grabbers, Ordinary, Budget
<1>4. CASE ToolGrab
  BY <1>1, <1>4, AnsweredKeeps, ToolGrabbedKeeps
  DEF ToolGrab, GrabReports, Grabbers, Ordinary, Budget
<1> QED BY <1>2, <1>3, <1>4 DEF Grabs

USE DEF Ordinary, Budget, Completes

LEMMA ChatStepsKeep ==
    ASSUME Sound(app), ChatSteps
    PROVE  Ordinary
<1>1. Keeps(app, app)
  BY DEF Keeps, Follows
<1>2. app.ep["chat"] # "none" => Keeps(Closed("chat"), app) /\ Keeps(Unbound("chat"), app)
  BY <1>1, ClosedKeeps DEF Endpoints
<1>3. CASE ChatBind
  BY <1>1, <1>2, <1>3, BoundKeeps, BindFailedKeeps, FailedKeeps DEF ChatBind
<1>4. CASE ChatConnect
  BY <1>1, <1>2, <1>4, ConnectedKeeps, HandshakeFailedKeeps DEF ChatConnect
<1>5. CASE ChatHello
  BY <1>1, <1>2, <1>5, HearReadyKeeps, HandshakeFailedKeeps DEF ChatHello
<1>6. CASE ChatTurnEnds
  BY <1>1, <1>6, HearTurnEndKeeps DEF ChatTurnEnds
<1>7. CASE ChatReadyAgain
  BY <1>1, <1>7, HearReadyKeeps DEF ChatReadyAgain
<1>8. CASE ChatOutputFails
  BY <1>1, <1>2, <1>8, FailedKeeps DEF ChatOutputFails
<1>9. CASE ChatDrops
  BY <1>1, <1>2, <1>9, DroppedKeeps DEF ChatDrops
<1> QED BY <1>3, <1>4, <1>5, <1>6, <1>7, <1>8, <1>9 DEF ChatSteps

LEMMA InkStepsKeep ==
    ASSUME Sound(app), InkSteps
    PROVE  Ordinary
<1>1. Keeps(app, app)
  BY DEF Keeps, Follows
<1>2. app.ep["ink"] # "none" => Keeps(Closed("ink"), app) /\ Keeps(Unbound("ink"), app)
  BY <1>1, ClosedKeeps DEF Endpoints
<1>3. CASE InkBind
  BY <1>1, <1>2, <1>3, InkBoundKeeps, InkBindFailedKeeps, InkFailedKeeps DEF InkBind
<1>4. CASE InkConnect
  BY <1>1, <1>2, <1>4, InkPostKeeps, InkFailedKeeps DEF InkConnect
<1>5. CASE InkOutputFails
  BY <1>1, <1>2, <1>5, InkFailedKeeps DEF InkOutputFails
<1>6. CASE InkStatus
  BY <1>1, <1>6, ArmInkWatchKeeps DEF InkStatus
<1>7. CASE InkAcknowledged
  <2> DEFINE g == [app EXCEPT !.inkAck = TRUE]
  <2>1. app \in Frame
    BY <1>1, KeepsFrame
  <2>2. g \in Frame /\ Alike(g, app) /\ g.ep = app.ep /\ g.stopping = app.stopping
    BY <2>1 DEF Frame, Alike, Kept
  <2> HIDE DEF g
  <2>3. Keeps(g, app)
    BY <1>1, <2>2, AlikeKeeps
  <2>4. Keeps(ArmInkWatch(g), app)
    BY <2>3, ArmInkWatchKeeps
  <2> QED BY <1>7, <2>4 DEF InkAcknowledged, g
<1>8. CASE InkCloses
  BY <1>1, <1>2, <1>8, InkDroppedKeeps DEF InkCloses
<1>9. CASE InkDrops
  BY <1>1, <1>2, <1>9, InkDroppedKeeps DEF InkDrops
<1> QED BY <1>3, <1>4, <1>5, <1>6, <1>7, <1>8, <1>9 DEF InkSteps

LEMMA ToolStepsKeep ==
    ASSUME Sound(app), left.work \in 0..MaxWork, ToolSteps, ~ToolConnect
    PROVE  Ordinary
<1>1. Keeps(app, app)
  BY DEF Keeps, Follows
<1>2. HeartBeat \in Ids /\ HeartBeat \notin Requests /\ Requests \subseteq Ids
  BY RadioAssumption DEF Ids, Requests
<1>3. CASE ToolBind
  BY <1>1, <1>3, ToolBoundKeeps, ToolBindFailedKeeps DEF ToolBind
<1>5. CASE ToolPing
  <2> DEFINE g == [app EXCEPT !.lost = @ \/ app.toolID \in Requests]
  <2>1. app \in Frame
    BY <1>1, KeepsFrame
  <2>2. (app.lost \/ app.toolID \in Requests) \in BOOLEAN
    OBVIOUS
  <2>3. g \in Frame /\ Alike(g, app) /\ g.ep = app.ep /\ g.stopping = app.stopping
    BY <2>1, <2>2 DEF Frame, Alike, Kept
  <2> HIDE DEF g
  <2>4. Keeps(g, app)
    BY <1>1, <2>3, AlikeKeeps
  <2>5. Keeps(ToolDispatch(g, HeartBeat, FALSE), app)
    BY <1>2, <2>4, ToolDispatchKeeps
  <2> QED BY <1>5, <2>5 DEF ToolPing, g
<1>6. CASE ToolRequest
  <2>1. \A id \in Requests, install \in BOOLEAN : Keeps(ToolDispatch(app, id, install), app)
    BY <1>1, <1>2, ToolDispatchKeeps
  <2>2. PICK install \in BOOLEAN :
           \/ Spend("work") /\ app' = ToolDispatch(app, left.work, install)
           \/ app.toolID \in Requests /\ Fine /\ app' = ToolDispatch(app, app.toolID, install)
    BY <1>6 DEF ToolRequest
  <2>3. Spend("work") => left.work \in Requests
    BY RadioAssumption DEF Spend, Requests
  <2>4. app.open
    BY <1>6 DEF ToolRequest
  <2> QED BY <2>1, <2>2, <2>3, <2>4
<1>7. CASE ToolAnswered
  BY <1>1, <1>7, ToolReplySentKeeps DEF ToolAnswered
<1>8. CASE ToolDrops
  BY <1>1, <1>8, ToolRetryKeeps DEF ToolDrops, Keeps, Sound
<1> QED BY <1>3, <1>5, <1>6, <1>7, <1>8 DEF ToolSteps

LEMMA PkgStepsKeep ==
    ASSUME Sound(app), PkgSteps
    PROVE  Ordinary
<1>1. Keeps(app, app)
  BY DEF Keeps, Follows
<1>2. CASE PkgLoaded
  BY <1>1, <1>2, PkgBodyReceivedKeeps DEF PkgLoaded
<1>3. CASE PkgFails
  BY <1>1, <1>3, PkgFinishKeeps DEF PkgFails, PkgException
<1> QED BY <1>2, <1>3 DEF PkgSteps

LEMMA DelayedKeep ==
    ASSUME Sound(app), NEW i \in DOMAIN app.calls, RunDelayed(i), ~RunRadioExpired(i),
           ~RunToolWatch(i)
    PROVE  Ordinary
<1>1. Keeps(Without(i), app)
  <2>1. Keeps(app, app)
    BY DEF Keeps, Follows
  <2>2. app.calls[i].run # "ToolWatch"
    BY DEF RunDelayed, RunHandshakeExpired, RunStop, RunRetryBind, RunInkExpired, RunInkRebind,
           RunInkNext, RunInkStop, RunToolResume, RunPkgInstallNow, Fires
  <2> QED BY <2>1, <2>2, WithoutKeeps
<1>2. CASE RunHandshakeExpired(i)
  BY <1>1, <1>2, HandshakeFailedKeeps DEF RunHandshakeExpired, Fires, HandshakeExpired
<1>3. CASE RunStop(i)
  <2> DEFINE w == Without(i)
             late == w.lost \/ ~Current(i)
             g == [w EXCEPT !.lost = late]
  <2>1. w \in Frame
    BY <1>1, KeepsFrame
  <2>2. late \in BOOLEAN
    OBVIOUS
  <2> HIDE DEF late, w
  <2>3. g \in Frame /\ Alike(g, w) /\ g.ep = w.ep /\ g.stopping = w.stopping
    BY <2>1, <2>2 DEF Frame, Alike, Kept
  <2> HIDE DEF g
  <2>4. Keeps(g, app)
    BY <1>1, <2>3, AlikeKeeps DEF w
  <2>5. Keeps(Stop(g), app)
    BY <2>4, StopKeeps
  <2> QED BY <1>3, <2>5 DEF RunStop, Fires, g, late, w
<1>4. CASE RunRetryBind(i)
  BY <1>1, <1>4, RetryBindKeeps DEF RunRetryBind, Fires
<1>5. CASE RunInkExpired(i)
  BY <1>1, <1>5, InkExpiredKeeps DEF RunInkExpired, Fires
<1>6. CASE RunInkRebind(i)
  BY <1>1, <1>6, InkRebindKeeps DEF RunInkRebind, Fires
<1>7. CASE RunInkNext(i)
  BY <1>1, <1>7, InkNextKeeps DEF RunInkNext, Fires
<1>8. CASE RunInkStop(i)
  BY <1>1, <1>8, InkStopKeeps DEF RunInkStop, Fires
<1>9. CASE RunToolResume(i)
  BY <1>1, <1>9, ToolResumeKeeps DEF RunToolResume, Fires
<1>11. CASE RunPkgInstallNow(i)
  BY <1>1, <1>11, PkgFinishKeeps DEF RunPkgInstallNow, Fires
<1> QED BY <1>2, <1>3, <1>4, <1>5, <1>6, <1>7, <1>8, <1>9, <1>11 DEF RunDelayed

-----------------------------------------------------------------------------
(* The inductive invariant, and the theorems.                              *)

Counted ==
    /\ left \in [work : 0..MaxWork, faults : 0..MaxFaults]
    /\ app.asks + left.work <= MaxWork

Chained == app.open => Watched(app)

IInv == Sound(app) /\ Counted /\ QuitDropsAll /\ Chained

\* What IdleAfterLastHold says of a step.
SwitchesOffIdle ==
    app.radioHeld /\ ~app'.radioHeld /\ app'.open =>
        app.armed /\ ~app.inFlight /\ ~app.inkBusy /\ app.toolID \notin Requests

LEMMA BudgetCounts ==
    ASSUME Counted, Budget
    PROVE  /\ left' \in [work : 0..MaxWork, faults : 0..MaxFaults]
           /\ left'.work <= left.work
           /\ Spend("work") => left'.work = left.work - 1
<1>1. MaxWork \in Nat /\ MaxFaults \in Nat
  BY RadioAssumption
<1>2. CASE Fine
  BY <1>2 DEF Counted, Spend
<1>3. CASE Spend("work")
  BY <1>1, <1>3 DEF Counted, Spend
<1>4. CASE Spend("faults")
  BY <1>1, <1>4 DEF Counted, Spend
<1> QED BY <1>2, <1>3, <1>4 DEF Budget

\* What is left of Ordinary when a chain starts or ends.
Rewatched == app.open /\ Budget /\ Sound(app') /\ Watched(app') /\ Same(app', app)

LEMMA OrdinaryStep ==
    ASSUME IInv, Ordinary \/ Rewatched
    PROVE  IInv' /\ SwitchesOffIdle
<1>1. /\ left' \in [work : 0..MaxWork, faults : 0..MaxFaults]
      /\ left'.work <= left.work
  <2>1. Budget
    BY DEF Rewatched
  <2> QED BY <2>1, BudgetCounts DEF IInv
<1>2. Sound(app') /\ app'.asks = app.asks /\ app'.open /\ (app.radioHeld => app'.radioHeld)
  BY DEF Keeps, Follows, Rewatched, Same
<1>5. Watched(app')
  BY DEF IInv, Chained, Watched, Keeps, Follows, Rewatched
<1>3. app.asks \in 0..MaxWork /\ MaxWork \in Nat
  BY RadioAssumption DEF IInv, Sound, Loose, Frame
<1>4. Counted'
  BY <1>1, <1>2, <1>3 DEF IInv, Counted
<1>6. Chained'
  BY <1>5 DEF Chained, Watched, Ticks, Watch
<1>7. QuitDropsAll'
  BY <1>2 DEF QuitDropsAll
<1>8. Sound(app)'
  BY <1>2 DEF Sound, Loose, Fresh, Tended, OneChain, Watch, Armed
<1> QED BY <1>2, <1>4, <1>6, <1>7, <1>8 DEF IInv, SwitchesOffIdle

LEMMA ToolConnectStep ==
    ASSUME IInv, ToolConnect
    PROVE  Rewatched
<1>1. Sound(app) /\ Watched(app) /\ app.ep["tool"] # "none"
  BY DEF IInv, Chained, ToolConnect
<1>2. Sound(ToolConnected(app)) /\ Watched(ToolConnected(app)) /\ Same(ToolConnected(app), app)
  BY <1>1, ToolConnectedSound
<1> QED BY <1>2 DEF ToolConnect, Rewatched

LEMMA ToolWatchStep ==
    ASSUME IInv, NEW i \in DOMAIN app.calls, RunToolWatch(i)
    PROVE  Rewatched
<1> DEFINE w == Without(i)
<1>1. Keeps(app, app)
  BY DEF IInv, Keeps, Follows
<1>2. app.calls[i].run = "ToolWatch" /\ app.open /\ app' = ToolWatch(w) /\ Fine
  BY DEF RunToolWatch, Fires
<1>3. /\ Sound(w) /\ ~Ticks(w) /\ w.asks = app.asks /\ w.open = app.open
      /\ w.radioHeld = app.radioHeld /\ w.toolWatching = app.toolWatching
  BY <1>1, <1>2, WithoutKeeps
<1> HIDE DEF w
<1>4. app.toolWatching = TRUE
  <2>1. app.toolWatching \in BOOLEAN
    BY DEF IInv, Sound, Loose, Frame
  <2>2. Ticks(app)
    BY <1>2 DEF Ticks, Watch
  <2> QED BY <1>2, <2>1, <2>2 DEF IInv, Chained, Watched
<1>5. Sound(app') /\ Watched(app') /\ Same(app', w)
  BY <1>2, <1>3, <1>4, ToolWatchSound
<1> QED BY <1>2, <1>3, <1>5 DEF Rewatched, Same

LEMMA TapAskStep ==
    ASSUME IInv, TapAsk
    PROVE  IInv' /\ SwitchesOffIdle
<1> DEFINE q == [asks |-> app.asks + 1, open |-> app.open, radioHeld |-> TRUE,
                 toolWatching |-> app.toolWatching, calls |-> app.calls]
<1>1. app.asks \in 0..MaxWork /\ MaxWork \in Nat /\ app.asks + left.work <= MaxWork
  BY RadioAssumption DEF IInv, Sound, Loose, Frame, Counted
<1>2. /\ left' \in [work : 0..MaxWork, faults : 0..MaxFaults]
      /\ left'.work = left.work - 1 /\ left.work > 0 /\ left.work \in 0..MaxWork
  BY BudgetCounts DEF IInv, TapAsk, Spend, Counted
<1>3. app.asks < MaxWork
  BY <1>1, <1>2
<1>4. Keeps(app, app)
  BY DEF IInv, Keeps, Follows
<1>5. Keeps(SendInk(app), q)
  BY <1>3, <1>4, SendInkKeeps
<1>6. Sound(app') /\ app'.asks = app.asks + 1 /\ app'.open /\ app'.radioHeld
  BY <1>5 DEF TapAsk, Keeps, Follows
<1>7. Counted'
  BY <1>1, <1>2, <1>6 DEF Counted
<1>8. Chained'
  <2>1. Ticks(q) <=> Ticks(app)
    BY SameCalls
  <2>2. app.open /\ (Ticks(app) <=> app.toolWatching)
    BY DEF IInv, Chained, Watched, TapAsk
  <2>3. app' = SendInk(app)
    BY DEF TapAsk
  <2>4. app'.toolWatching = q.toolWatching /\ (Ticks(app') <=> Ticks(q))
    BY <1>5, <2>3 DEF Keeps, Follows
  <2>5. Watched(app')
    BY <2>1, <2>2, <2>4 DEF Watched
  <2> QED BY <2>5 DEF Chained, Watched, Ticks, Watch
<1> QED BY <1>6, <1>7, <1>8 DEF IInv, QuitDropsAll, SwitchesOffIdle

LEMMA CloseWindowStep ==
    ASSUME IInv, CloseWindow
    PROVE  IInv' /\ SwitchesOffIdle
<1>1. Keeps(app, app)
  BY DEF IInv, Keeps, Follows
<1>2. /\ Sound(app') /\ app'.asks = app.asks /\ ~app'.open /\ ~app'.link
      /\ \A e \in Endpoints : app'.ep[e] = "none"
  BY <1>1, ViewQuitScriptSound DEF CloseWindow
<1>3. Counted'
  BY <1>2 DEF IInv, CloseWindow, Counted
<1> QED BY <1>2, <1>3 DEF IInv, QuitDropsAll, Chained, SwitchesOffIdle

LEMMA RadioExpiredStep ==
    ASSUME IInv, NEW i \in DOMAIN app.calls, RunRadioExpired(i)
    PROVE  IInv' /\ SwitchesOffIdle
<1> DEFINE w == Without(i)
           q == [asks |-> w.asks, open |-> w.open, radioHeld |-> FALSE,
                 toolWatching |-> w.toolWatching, calls |-> w.calls]
<1>1. Keeps(app, app)
  BY DEF IInv, Keeps, Follows
<1>2. /\ Keeps(w, app) /\ Current(i) \in BOOLEAN /\ (Current(i) => w.armed)
      /\ w.armed = app.armed /\ w.asks = app.asks /\ w.open = app.open
      /\ w.inFlight = app.inFlight /\ w.inkBusy = app.inkBusy /\ w.toolID = app.toolID
  <2>1. app.calls[i].run = "RadioExpired"
    BY DEF RunRadioExpired, Fires
  <2> QED BY <1>1, <2>1, WithoutKeeps
<1> HIDE DEF w
<1>3. /\ Keeps(RadioExpired(w, Current(i)), q)
      /\ \/ Keeps(RadioExpired(w, Current(i)), app)
         \/ w.armed /\ ~w.inFlight /\ ~w.inkBusy /\ w.toolID = 0
  BY <1>2, RadioExpiredKeeps
<1>4. app' = RadioExpired(w, Current(i)) /\ left' = left /\ app.open
  BY DEF RunRadioExpired, Fires, w
<1>5. Sound(app') /\ app'.asks = app.asks /\ app'.open
  BY <1>2, <1>3, <1>4 DEF Keeps, Follows
<1>6. 0 \notin Requests
  BY DEF Requests
<1>7. SwitchesOffIdle
  BY <1>2, <1>3, <1>4, <1>6 DEF SwitchesOffIdle, Keeps, Follows
<1>8. Counted'
  BY <1>4, <1>5 DEF IInv, Counted
<1>9. Chained'
  <2>1. (Ticks(q) <=> Ticks(w)) /\ q.toolWatching = w.toolWatching
    BY SameCalls
  <2>2. /\ app'.toolWatching = q.toolWatching /\ (Ticks(app') <=> Ticks(q))
        /\ w.toolWatching = app.toolWatching /\ (Ticks(w) <=> Ticks(app))
    BY <1>2, <1>3, <1>4 DEF Keeps, Follows
  <2>3. Watched(app')
    BY <1>4, <2>1, <2>2 DEF IInv, Chained, Watched
  <2> QED BY <2>3 DEF Chained, Watched, Ticks, Watch
<1> QED BY <1>5, <1>7, <1>8, <1>9 DEF IInv, QuitDropsAll

LEMMA NextStep ==
    ASSUME IInv, [Next]_vars
    PROVE  IInv' /\ (SwitchesOffIdle \/ UNCHANGED vars)
<1>1. Sound(app) /\ left.work \in 0..MaxWork
  BY DEF IInv, Counted
<1>2. CASE Taps
  BY <1>1, <1>2, TapsKeep, OrdinaryStep, TapAskStep, CloseWindowStep DEF Taps
<1>3. CASE Grabs
  BY <1>1, <1>3, GrabsKeep, OrdinaryStep
<1>4. CASE ChatSteps
  BY <1>1, <1>4, ChatStepsKeep, OrdinaryStep
<1>5. CASE InkSteps
  BY <1>1, <1>5, InkStepsKeep, OrdinaryStep
<1>6. CASE ToolSteps
  BY <1>1, <1>6, ToolStepsKeep, ToolConnectStep, OrdinaryStep
<1>7. CASE PkgSteps
  BY <1>1, <1>7, PkgStepsKeep, OrdinaryStep
<1>8. CASE \E i \in DOMAIN app.calls : RunDelayed(i)
  <2>1. PICK i \in DOMAIN app.calls : RunDelayed(i)
    BY <1>8
  <2>2. CASE RunRadioExpired(i)
    BY <2>2, RadioExpiredStep
  <2>3. CASE RunToolWatch(i)
    BY <2>3, ToolWatchStep, OrdinaryStep
  <2>4. CASE ~RunRadioExpired(i) /\ ~RunToolWatch(i)
    BY <1>1, <2>1, <2>4, DelayedKeep, OrdinaryStep
  <2> QED BY <2>2, <2>3, <2>4
<1>9. CASE UNCHANGED vars
  BY <1>9 DEF vars, IInv, Counted, QuitDropsAll, Chained, Watched, Ticks, Watch, Sound, Loose,
              Fresh, Tended, OneChain, Armed
<1> QED BY <1>2, <1>3, <1>4, <1>5, <1>6, <1>7, <1>8, <1>9 DEF Next

LEMMA InitSound == ASSUME Init PROVE IInv
<1>1. MaxWork \in Nat /\ MaxFaults \in Nat /\ 0 \in 0..(Strips - 1) /\ 0 \in 0..MaxWork
  BY RadioAssumption
<1>2. << >> \in Seq(Call) /\ DOMAIN << >> = {}
  OBVIOUS
<1>3. 0 \in 0..3 /\ 0 \in Nat /\ 0 \in Ids
  BY DEF Ids
<1>4. app \in Frame
  BY <1>1, <1>2, <1>3, Zenon DEF Init, Frame, Stages
<1>5. Sound(app)
  <2>1. app.calls = << >> /\ app.toolReady = FALSE
    BY DEF Init
  <2>2. Armed(app) /\ Fresh(app) /\ OneChain(app) /\ Tended(app)
    BY <1>2, <2>1 DEF Armed, Fresh, OneChain, Tended
  <2> QED BY <1>4, <2>2 DEF Init, Sound, Loose, Endpoints
<1>6. Counted /\ QuitDropsAll
  BY <1>1 DEF Init, Counted, QuitDropsAll
<1>7. Chained
  BY <1>2 DEF Init, Chained, Watched, Ticks
<1> QED BY <1>5, <1>6, <1>7 DEF IInv

LEMMA AlwaysIInv == Spec => []IInv
<1>1. Init => IInv
  BY InitSound
<1>2. IInv /\ [Next]_vars => IInv'
  BY NextStep
<1> QED BY <1>1, <1>2, PTL DEF Spec

\* Every slot, endpoint and delayed call keeps its type; in particular the watchdog
\* never counts past its third tick (Main.newt:3193).
THEOREM TypeCorrect == Spec => []TypeOK
<1>1. IInv => TypeOK
  BY DEF IInv, Sound, Loose, Counted, TypeOK
<1> QED BY <1>1, AlwaysIInv, PTL

\* The link is never released under the tools or the package endpoint, nor more
\* often than it was granted (Main.newt:1301-1330).
THEOREM LinkOutlivesTools == Spec => []LinkUnderTools
<1>1. IInv => LinkUnderTools
  BY DEF IInv, Sound, Loose, LinkUnderTools
<1> QED BY <1>1, AlwaysIInv, PTL

\* Closing the window drops every endpoint and the link (Main.newt:791).
THEOREM QuitDrops == Spec => []QuitDropsAll
<1>1. IInv => QuitDropsAll
  BY DEF IInv
<1> QED BY <1>1, AlwaysIInv, PTL

\* The idle timer switches the radio off only when armed after the last hold, and
\* during no turn, note or request (Main.newt:1234).
THEOREM OffWhenIdle == Spec => IdleAfterLastHold
<1>1. IInv /\ [Next]_vars =>
        [app.radioHeld /\ ~app'.radioHeld /\ app'.open =>
            app.armed /\ ~app.inFlight /\ ~app.inkBusy /\ app.toolID \notin Requests]_vars
  BY NextStep DEF SwitchesOffIdle
<1> QED BY <1>1, AlwaysIInv, PTL DEF Spec, IdleAfterLastHold

\* However often the tools channel reconnects, one chain of its watchdog is alive
\* and watches it (Main.newt:3110).
THEOREM WatchedOnce == Spec => []OneWatchdog
<1> DEFINE ticks == {i \in DOMAIN app.calls : app.calls[i].run = "ToolWatch"}
<1>1. ASSUME IInv, app.open
      PROVE  /\ Cardinality(ticks) = IF app.toolWatching THEN 1 ELSE 0
             /\ app.toolReady => app.toolWatching
  <2>1. /\ OneChain(app) /\ (app.toolReady => app.toolWatching)
        /\ Ticks(app) <=> app.toolWatching
    BY <1>1 DEF IInv, Sound, Loose, Tended, Chained, Watched
  <2>2. CASE app.toolWatching
    <3>1. PICK i \in DOMAIN app.calls : Watch(app, i)
      BY <2>1, <2>2 DEF Ticks
    <3>2. ticks = {i}
      BY <2>1, <3>1 DEF OneChain, Watch
    <3>3. Cardinality({i}) = 1
      BY FS_Singleton
    <3> QED BY <2>1, <2>2, <3>2, <3>3
  <2>3. CASE ~app.toolWatching
    <3>1. ticks = {}
      BY <2>1, <2>3 DEF Ticks, Watch
    <3> QED BY <2>1, <2>3, <3>1, FS_EmptySet
  <2> QED BY <2>2, <2>3
<1>2. IInv => OneWatchdog
  BY <1>1 DEF OneWatchdog
<1> QED BY <1>2, AlwaysIInv, PTL

\* A watchdog that was armed for an earlier note leaves the note being sent alone:
\* its ticket is out of date (Main.newt:2626).
THEOREM WatchdogOfItsNote == Spec => EarlierWatchdogsHarmless
<1>1. ASSUME IInv, NEW i \in DOMAIN app.calls,
             Earlier(i), app.calls[i].run = "InkExpired", RunDelayed(i)
      PROVE  InkSlots(app') = InkSlots(app)
  <2>1. Keeps(app, app)
    BY <1>1 DEF IInv, Keeps, Follows
  <2>2. /\ InkSlots(Without(i)) = InkSlots(app) /\ Current(i) \in BOOLEAN
        /\ Current(i) => app.calls[i].send = app.asks
    BY <1>1, <2>1, WithoutKeeps
  <2>3. ~Current(i)
    BY <1>1, <2>2 DEF Earlier
  <2>4. RunInkExpired(i)
    BY <1>1 DEF RunDelayed, RunHandshakeExpired, RunRadioExpired, RunStop, RunRetryBind,
                RunInkRebind, RunInkNext, RunInkStop, RunToolResume, RunToolWatch,
                RunPkgInstallNow, Fires
  <2>5. app' = Without(i)
    BY <2>3, <2>4 DEF RunInkExpired, InkExpired
  <2> QED BY <2>2, <2>5
<1>2. ASSUME IInv
      PROVE  \A i \in DOMAIN app.calls :
                Earlier(i) /\ app.calls[i].run = "InkExpired" => Spares(i)
  BY <1>1, <1>2 DEF Spares
<1>3. IInv /\ [Next]_vars =>
        [\A i \in DOMAIN app.calls :
            Earlier(i) /\ app.calls[i].run = "InkExpired" => Spares(i)]_vars
  BY <1>2
<1> QED BY <1>3, AlwaysIInv, PTL DEF Spec, EarlierWatchdogsHarmless
-----------------------------------------------------------------------------
(* What ends the hold on the radio.  While it is held, the idle timer is   *)
(* posted or something is under way that posts it when it ends.            *)

Posted(f, run) ==
    \E i \in DOMAIN f.calls : f.calls[i].run = run /\ f.calls[i].current

\* Stops are due within a second, and no idle timer is due sooner than that.
StopsSoon(f) == \A i \in DOMAIN f.calls : f.calls[i].run = "Stop" => f.calls[i].after = 1

\* Behind the Stop of a failed connection the idle timer is posted, so the Stop
\* comes first.
TimerBehindStop(f) ==
    \A i \in DOMAIN f.calls :
        f.radioHeld /\ f.calls[i].run = "Stop" /\ f.calls[i].current =>
            \E j \in DOMAIN f.calls :
                j > i /\ f.calls[j].run = "RadioExpired" /\ f.calls[j].current

Talks(f) == f.ready \/ f.inFlight => f.ep["chat"] # "none"
NoteWatched(f) == f.inkBusy => Posted(f, "InkExpired")
Calm(f) == StopsSoon(f) /\ TimerBehindStop(f) /\ NoteWatched(f)

Expires(f) ==
    \/ Posted(f, "RadioExpired")
    \/ f.inkBusy
    \/ Posted(f, "InkStop")
    \/ f.toolID \in Requests

Dials(f) ==
    \/ f.inFlight
    \/ f.ep["chat"] \in {"binding", "connecting"} /\ f.handshakeActive
    \/ f.ep["chat"] = "unbound" /\ Posted(f, "RetryBind")
    \/ f.ep["chat"] = "hello" /\ f.handshakeActive /\ Posted(f, "HandshakeExpired")
    \/ f.ep["chat"] = "none" /\ ~f.stopping /\ f.grabs["chat"] > 0

Awaits(f) == f.radioHeld /\ ~f.lost => Expires(f) \/ Dials(f)

Ending(f) == Calm(f) /\ Talks(f) /\ Awaits(f)

\* The slots these look at, and the calls.
Still(g, f) ==
    /\ g.radioHeld = f.radioHeld
    /\ g.lost = f.lost
    /\ g.ready = f.ready
    /\ g.inFlight = f.inFlight
    /\ g.handshakeActive = f.handshakeActive
    /\ g.stopping = f.stopping
    /\ g.inkBusy = f.inkBusy
    /\ g.toolID = f.toolID
    /\ g.ep["chat"] = f.ep["chat"]
    /\ g.grabs["chat"] = f.grabs["chat"]

Posts(g, f) ==
    /\ \A run : Posted(f, run) => Posted(g, run)
    /\ StopsSoon(f) => StopsSoon(g)
    /\ TimerBehindStop(f) => TimerBehindStop(g)

\* A method that changes none of them.
Quiet(g, f) == Still(g, f) /\ Posts(g, f)

LEMMA SamePosts ==
    ASSUME NEW f, NEW g, g.calls = f.calls
    PROVE  /\ \A run : Posted(g, run) <=> Posted(f, run)
           /\ StopsSoon(g) <=> StopsSoon(f)
           /\ g.radioHeld = f.radioHeld => (TimerBehindStop(g) <=> TimerBehindStop(f))
  BY DEF Posted, StopsSoon, TimerBehindStop

LEMMA StillQuiet ==
    ASSUME NEW f, NEW g, Still(g, f), g.calls = f.calls
    PROVE  Quiet(g, f)
<1>1. g.radioHeld = f.radioHeld
  BY DEF Still
<1> QED BY <1>1, SamePosts DEF Quiet, Posts

LEMMA QuietOften ==
    ASSUME NEW f, NEW g, NEW h, Quiet(g, f), Quiet(h, g)
    PROVE  Quiet(h, f)
<1>1. Still(h, f)
  BY DEF Quiet, Still
<1>2. Posts(h, f)
  BY DEF Quiet, Posts
<1> QED BY <1>1, <1>2 DEF Quiet

LEMMA QuietSelf ==
    ASSUME NEW f
    PROVE  Quiet(f, f)
  BY DEF Quiet, Still, Posts

LEMMA QuietEnding ==
    ASSUME NEW f, NEW g, Quiet(g, f)
    PROVE  /\ Ending(f) => Ending(g)
           /\ Calm(f) => Calm(g)
           /\ Talks(f) => Talks(g)
           /\ StopsSoon(f) => StopsSoon(g)
           /\ NoteWatched(f) => NoteWatched(g)
<1>1. Still(g, f) /\ Posts(g, f)
  BY DEF Quiet
<1>2. StopsSoon(f) => StopsSoon(g)
  BY <1>1 DEF Posts
<1>3. TimerBehindStop(f) => TimerBehindStop(g)
  BY <1>1 DEF Posts
<1>4. NoteWatched(f) => NoteWatched(g)
  BY <1>1 DEF NoteWatched, Posts, Still
<1>5. Talks(f) => Talks(g)
  BY <1>1 DEF Talks, Still
<1>6. Expires(f) => Expires(g)
  BY <1>1 DEF Expires, Posts, Still
<1>7. Dials(f) => Dials(g)
  BY <1>1 DEF Dials, Posts, Still
<1>8. Awaits(f) => Awaits(g)
  BY <1>1, <1>6, <1>7 DEF Awaits, Still
<1> QED BY <1>2, <1>3, <1>4, <1>5, <1>8 DEF Ending, Calm

-----------------------------------------------------------------------------
(* The queue, the link and the hold.                                       *)

LEMMA AddPosts ==
    ASSUME NEW f \in Frame, NEW run \in Delayed, NEW seconds \in {1, 4, 5, 12, 150},
           NEW g, g = AddDelayedCall(f, run, seconds)
    PROVE  /\ Still(g, f) /\ g.ep = f.ep /\ g.link = f.link
           /\ \A r : Posted(f, r) => Posted(g, r)
           /\ Posted(g, run)
           /\ StopsSoon(f) /\ (run = "Stop" => seconds = 1) => StopsSoon(g)
           /\ TimerBehindStop(f) /\ run # "Stop" => TimerBehindStop(g)
           /\ run = "RadioExpired" => TimerBehindStop(g)
<1> DEFINE c == [run |-> run, current |-> TRUE, after |-> seconds, send |-> f.asks]
           q == Append(f.calls, c)
           n == Len(f.calls) + 1
<1>1. c \in Call /\ f.calls \in Seq(Call)
  BY DEF Call, Frame
<1>2. /\ DOMAIN f.calls = 1..Len(f.calls) /\ Len(f.calls) \in Nat
      /\ DOMAIN q = 1..n
      /\ \A i \in DOMAIN q : q[i] = IF i = n THEN c ELSE f.calls[i]
  BY <1>1
<1>3. c.run = run /\ c.current = TRUE /\ c.after = seconds
  OBVIOUS
<1>4. g = [f EXCEPT !.calls = q]
  BY DEF AddDelayedCall
<1> HIDE DEF c
<1> HIDE DEF q
<1>5. g.calls = q /\ g.ep = f.ep /\ g.link = f.link /\ g.radioHeld = f.radioHeld /\ Still(g, f)
  BY <1>4 DEF Frame, Still
<1>6. /\ n \in DOMAIN q /\ q[n] = c
      /\ \A i \in DOMAIN f.calls : i \in DOMAIN q /\ q[i] = f.calls[i] /\ n > i
      /\ \A i \in DOMAIN q : i = n \/ i \in DOMAIN f.calls
  BY <1>2
<1> HIDE DEF n
<1>7. \A r : Posted(f, r) => Posted(g, r)
  BY <1>5, <1>6 DEF Posted
<1>8. Posted(g, run)
  BY <1>3, <1>5, <1>6 DEF Posted
<1>9. StopsSoon(f) /\ (run = "Stop" => seconds = 1) => StopsSoon(g)
  BY <1>3, <1>5, <1>6 DEF StopsSoon
<1>10. TimerBehindStop(f) /\ run # "Stop" => TimerBehindStop(g)
  BY <1>3, <1>5, <1>6 DEF TimerBehindStop
<1>11. run = "RadioExpired" => TimerBehindStop(g)
  BY <1>3, <1>5, <1>6 DEF TimerBehindStop
<1> QED BY <1>5, <1>7, <1>8, <1>9, <1>10, <1>11

LEMMA AddFrame ==
    ASSUME NEW f \in Frame, NEW run \in Delayed, NEW seconds \in {1, 4, 5, 12, 150}
    PROVE  AddDelayedCall(f, run, seconds) \in Frame
<1> DEFINE c == [run |-> run, current |-> TRUE, after |-> seconds, send |-> f.asks]
           q == Append(f.calls, c)
<1>1. c \in Call /\ f.calls \in Seq(Call)
  BY DEF Call, Frame
<1> HIDE DEF c
<1>2. q \in Seq(Call)
  BY <1>1
<1> HIDE DEF q
<1>3. [f EXCEPT !.calls = q] \in Frame
  BY <1>2 DEF Frame
<1> QED BY <1>3 DEF AddDelayedCall, q, c

LEMMA AddQuiet ==
    ASSUME NEW f \in Frame, NEW run \in Delayed, NEW seconds \in {1, 4, 5, 12, 150},
           run # "Stop"
    PROVE  /\ Quiet(AddDelayedCall(f, run, seconds), f)
           /\ Posted(AddDelayedCall(f, run, seconds), run)
           /\ AddDelayedCall(f, run, seconds) \in Frame
<1>1. /\ Quiet(AddDelayedCall(f, run, seconds), f)
      /\ Posted(AddDelayedCall(f, run, seconds), run)
  BY AddPosts DEF Quiet, Posts
<1> QED BY <1>1, AddFrame

LEMMA OutdatePosts ==
    ASSUME NEW f \in Frame, NEW runs, NEW g, g = Outdate(f, runs)
    PROVE  /\ g \in Frame /\ Still(g, f) /\ g.ep = f.ep /\ g.link = f.link
           /\ \A r : r \notin runs /\ Posted(f, r) => Posted(g, r)
           /\ StopsSoon(f) => StopsSoon(g)
           /\ "RadioExpired" \notin runs /\ TimerBehindStop(f) => TimerBehindStop(g)
           /\ "Stop" \in runs => \A i \in DOMAIN g.calls :
                                    g.calls[i].run = "Stop" => ~g.calls[i].current
<1> DEFINE q == [i \in DOMAIN f.calls |->
                    IF f.calls[i].run \in runs THEN [f.calls[i] EXCEPT !.current = FALSE]
                    ELSE f.calls[i]]
<1>1. f.calls \in Seq(Call) /\ DOMAIN f.calls = 1..Len(f.calls) /\ Len(f.calls) \in Nat
  BY DEF Frame
<1>2. ASSUME NEW i \in DOMAIN f.calls
      PROVE  /\ q[i] \in Call
             /\ q[i].run = f.calls[i].run
             /\ q[i].after = f.calls[i].after
             /\ q[i].current => f.calls[i].current
             /\ f.calls[i].run \notin runs => q[i].current = f.calls[i].current
             /\ f.calls[i].run \in runs => ~q[i].current
  <2> DEFINE c == f.calls[i]
             d == [c EXCEPT !.current = FALSE]
  <2>1. c \in Call
    BY <1>1
  <2> HIDE DEF c
  <2>2. d \in Call /\ d.run = c.run /\ d.after = c.after /\ d.current = FALSE
    BY <2>1 DEF Call
  <2>3. q[i] = IF c.run \in runs THEN d ELSE c
    BY DEF c
  <2> HIDE DEF d, q
  <2>4. /\ q[i] \in Call
        /\ q[i].run = c.run
        /\ q[i].after = c.after
        /\ q[i].current => c.current
        /\ c.run \notin runs => q[i].current = c.current
        /\ c.run \in runs => ~q[i].current
    BY <2>1, <2>2, <2>3
  <2> QED BY <2>4 DEF c
<1>3. q \in Seq(Call)
  <2>1. q \in [1..Len(f.calls) -> Call]
    <3>1. q = [i \in 1..Len(f.calls) |-> q[i]]
      BY <1>1
    <3> HIDE DEF q
    <3> QED BY <1>1, <1>2, <3>1
  <2> QED BY <1>1, <2>1, SeqDef
<1>4. \A i \in DOMAIN f.calls :
         /\ q[i].run = f.calls[i].run
         /\ q[i].after = f.calls[i].after
         /\ q[i].current => f.calls[i].current
         /\ f.calls[i].run \notin runs => q[i].current = f.calls[i].current
         /\ f.calls[i].run \in runs => ~q[i].current
  BY <1>2
<1>5. DOMAIN q = DOMAIN f.calls
  OBVIOUS
<1>6. g = [f EXCEPT !.calls = q]
  BY DEF Outdate
<1> HIDE DEF q
<1>7. [f EXCEPT !.calls = q] \in Frame
  BY <1>3 DEF Frame
<1>8. g.calls = q /\ g.ep = f.ep /\ g.link = f.link /\ g.radioHeld = f.radioHeld /\ Still(g, f)
  BY <1>6 DEF Frame, Still
<1>9. \A r : r \notin runs /\ Posted(f, r) => Posted(g, r)
  BY <1>4, <1>5, <1>8 DEF Posted
<1>10. StopsSoon(f) => StopsSoon(g)
  BY <1>4, <1>5, <1>8 DEF StopsSoon
<1>11. "RadioExpired" \notin runs /\ TimerBehindStop(f) => TimerBehindStop(g)
  BY <1>4, <1>5, <1>8 DEF TimerBehindStop
<1>12. "Stop" \in runs => \A i \in DOMAIN g.calls :
                             g.calls[i].run = "Stop" => ~g.calls[i].current
  BY <1>4, <1>5, <1>8
<1> QED BY <1>6, <1>7, <1>8, <1>9, <1>10, <1>11, <1>12

LEMMA ReleaseLinkQuiet ==
    ASSUME NEW f \in Frame
    PROVE  /\ Quiet(ReleaseLink(f), f) /\ ReleaseLink(f).ep = f.ep
           /\ (f.link => f.held > 0) => ReleaseLink(f) \in Frame
<1> DEFINE g == [f EXCEPT !.link = FALSE, !.held = @ - 1]
<1>1. Still(g, f) /\ g.calls = f.calls /\ g.ep = f.ep
  BY DEF Frame, Still
<1>3. f.held > 0 => g \in Frame
  <2>1. f.held \in Nat
    BY DEF Frame
  <2>2. f.held > 0 => f.held - 1 \in Nat
    BY <2>1
  <2> QED BY <2>2 DEF Frame
<1> HIDE DEF g
<1>2. Quiet(g, f) /\ Quiet(f, f)
  BY <1>1, StillQuiet, QuietSelf
<1> QED BY <1>1, <1>2, <1>3 DEF ReleaseLink, g

\* The idle timer is posted behind every call there is.
LEMMA ArmQuiet ==
    ASSUME NEW f \in Frame
    PROVE  /\ Quiet(ArmRadioIdle(f), f)
           /\ f.radioHeld => Posted(ArmRadioIdle(f), "RadioExpired")
           /\ TimerBehindStop(ArmRadioIdle(f))
           /\ ArmRadioIdle(f).ep = f.ep
<1> DEFINE n == NewTicket(f, "RadioExpired")
           h == [n EXCEPT !.armed = TRUE]
           g == AddDelayedCall(h, "RadioExpired", 5)
<1>1. CASE ~f.radioHeld
  <2>1. ArmRadioIdle(f) = f
    BY <1>1 DEF ArmRadioIdle
  <2>2. TimerBehindStop(f)
    BY <1>1 DEF TimerBehindStop
  <2> QED BY <1>1, <2>1, <2>2, QuietSelf
<1>2. CASE f.radioHeld
  <2>1. /\ n \in Frame /\ Still(n, f) /\ n.ep = f.ep
        /\ \A r : r # "RadioExpired" /\ Posted(f, r) => Posted(n, r)
        /\ StopsSoon(f) => StopsSoon(n)
    BY OutdatePosts DEF NewTicket
  <2> HIDE DEF n
  <2>2. h \in Frame /\ Still(h, n) /\ h.calls = n.calls /\ h.ep = n.ep
    BY <2>1 DEF Frame, Still
  <2> HIDE DEF h
  <2>3. Quiet(h, n)
    BY <2>2, StillQuiet
  <2>4. /\ Still(g, h) /\ g.ep = h.ep
        /\ \A r : Posted(h, r) => Posted(g, r)
        /\ Posted(g, "RadioExpired")
        /\ StopsSoon(h) => StopsSoon(g)
        /\ TimerBehindStop(g)
    BY <2>2, AddPosts DEF Delayed
  <2>5. ArmRadioIdle(f) = g
    BY <1>2 DEF ArmRadioIdle, g, h, n
  <2> HIDE DEF g
  <2>6. Still(g, f)
    BY <2>1, <2>2, <2>4 DEF Still
  <2>7. Posts(g, f)
    BY <2>1, <2>3, <2>4 DEF Quiet, Posts
  <2> QED BY <2>1, <2>2, <2>4, <2>5, <2>6, <2>7 DEF Quiet
<1> QED BY <1>1, <1>2 DEF Frame

LEMMA ArmEnding ==
    ASSUME NEW f \in Frame, StopsSoon(f), NoteWatched(f), Talks(f)
    PROVE  Ending(ArmRadioIdle(f))
<1> DEFINE g == ArmRadioIdle(f)
<1>1. /\ Quiet(g, f) /\ TimerBehindStop(g)
      /\ f.radioHeld => Posted(g, "RadioExpired")
  BY ArmQuiet
<1> HIDE DEF g
<1>2. StopsSoon(g) /\ NoteWatched(g) /\ Talks(g)
  BY <1>1, QuietEnding
<1>3. g.radioHeld = f.radioHeld
  BY <1>1 DEF Quiet, Still
<1>4. Awaits(g)
  BY <1>1, <1>3 DEF Awaits, Expires
<1> QED BY <1>1, <1>2, <1>4 DEF Ending, Calm, g

LEMMA RadioHoldPosts ==
    ASSUME NEW f \in Frame, NEW g, g = RadioHold(f)
    PROVE  /\ g \in Frame /\ g.radioHeld = TRUE /\ g.stopping = FALSE
           /\ Still(g, [f EXCEPT !.radioHeld = TRUE, !.stopping = FALSE])
           /\ g.ep = f.ep /\ g.link = f.link
           /\ \A r : r \notin {"RadioExpired", "Stop"} /\ Posted(f, r) => Posted(g, r)
           /\ StopsSoon(f) => StopsSoon(g)
           /\ TimerBehindStop(g)
<1> DEFINE o == Outdate(f, {"RadioExpired", "Stop"})
           h == [o EXCEPT !.radioHeld = TRUE, !.stopping = FALSE, !.armed = FALSE]
<1>1. /\ o \in Frame /\ Still(o, f) /\ o.ep = f.ep /\ o.link = f.link
      /\ \A r : r \notin {"RadioExpired", "Stop"} /\ Posted(f, r) => Posted(o, r)
      /\ StopsSoon(f) => StopsSoon(o)
      /\ \A i \in DOMAIN o.calls : o.calls[i].run = "Stop" => ~o.calls[i].current
  BY OutdatePosts
<1>2. g = h
  BY DEF RadioHold
<1> HIDE DEF o
<1>3. /\ h \in Frame /\ h.radioHeld = TRUE /\ h.stopping = FALSE
      /\ Still(h, [o EXCEPT !.radioHeld = TRUE, !.stopping = FALSE])
      /\ h.calls = o.calls /\ h.ep = o.ep /\ h.link = o.link
  BY <1>1 DEF Frame, Still
<1>4. Still(h, [f EXCEPT !.radioHeld = TRUE, !.stopping = FALSE])
  <2>1. f.ep = o.ep
    BY <1>1
  <2> QED BY <1>1, <1>3 DEF Still, Frame
<1> HIDE DEF h
<1>5. /\ \A r : Posted(h, r) <=> Posted(o, r)
      /\ StopsSoon(h) <=> StopsSoon(o)
  BY <1>3, SamePosts
<1>6. TimerBehindStop(h)
  BY <1>1, <1>3 DEF TimerBehindStop
<1> QED BY <1>1, <1>2, <1>3, <1>4, <1>5, <1>6

LEMMA StopPosts ==
    ASSUME NEW f, NEW p, Keeps(f, p), NEW g, g = Stop(f)
    PROVE  /\ g \in Frame
           /\ g.ready = FALSE /\ g.inFlight = FALSE
           /\ g.ep["chat"] = "none"
           /\ g.radioHeld = f.radioHeld /\ g.lost = f.lost /\ g.inkBusy = f.inkBusy
           /\ g.toolID = f.toolID
           /\ \A r : r # "HandshakeExpired" /\ Posted(f, r) => Posted(g, r)
           /\ StopsSoon(f) => StopsSoon(g)
           /\ TimerBehindStop(f) => TimerBehindStop(g)
<1> DEFINE n == NewTicket(f, "HandshakeExpired")
           e == [n.ep EXCEPT !["chat"] = "none", !["ink"] = "none", !["pkg"] = "none"]
           j == [n EXCEPT !.stopping = TRUE, !.handshakeActive = FALSE, !.ep = e]
           h == ReleaseLink(j)
           k == [h EXCEPT !.ready = FALSE, !.inFlight = FALSE, !.pending = FALSE]
<1>1. f \in Frame /\ g \in Frame /\ g.ep["chat"] = "none"
  BY StopKeeps, KeepsFrame
<1>2. g = k
  BY DEF Stop
<1>3. /\ n \in Frame /\ Still(n, f)
      /\ \A r : r # "HandshakeExpired" /\ Posted(f, r) => Posted(n, r)
      /\ StopsSoon(f) => StopsSoon(n)
      /\ TimerBehindStop(f) => TimerBehindStop(n)
  BY <1>1, OutdatePosts DEF NewTicket
<1> HIDE DEF n
<1>4. e \in [Endpoints -> Stages]
  BY <1>3 DEF Frame, Endpoints, Stages
<1> HIDE DEF e
<1>5. /\ j \in Frame /\ j.calls = n.calls /\ j.radioHeld = n.radioHeld /\ j.lost = n.lost
      /\ j.inkBusy = n.inkBusy /\ j.toolID = n.toolID
      /\ j.link = n.link /\ j.held = n.held
  BY <1>3, <1>4 DEF Frame
<1>6. n.link => n.held > 0
  BY NewTicketKeeps DEF n, Keeps, Sound, Loose
<1> HIDE DEF j
<1>7. h \in Frame /\ Quiet(h, j)
  BY <1>5, <1>6, ReleaseLinkQuiet
<1> HIDE DEF h
<1>8. /\ k.ready = FALSE /\ k.inFlight = FALSE /\ k.calls = h.calls
      /\ k.radioHeld = h.radioHeld /\ k.lost = h.lost /\ k.inkBusy = h.inkBusy
      /\ k.toolID = h.toolID
  BY <1>7 DEF Frame
<1> HIDE DEF k
<1>9. /\ \A r : Posted(j, r) <=> Posted(n, r)
      /\ StopsSoon(j) <=> StopsSoon(n)
      /\ TimerBehindStop(j) <=> TimerBehindStop(n)
  BY <1>5, SamePosts
<1>10. /\ \A r : Posted(k, r) <=> Posted(h, r)
       /\ StopsSoon(k) <=> StopsSoon(h)
       /\ TimerBehindStop(k) <=> TimerBehindStop(h)
  BY <1>8, SamePosts
<1>11. /\ \A r : r # "HandshakeExpired" /\ Posted(f, r) => Posted(k, r)
       /\ StopsSoon(f) => StopsSoon(k)
       /\ TimerBehindStop(f) => TimerBehindStop(k)
  BY <1>3, <1>7, <1>9, <1>10 DEF Quiet, Posts
<1>12. /\ k.radioHeld = f.radioHeld /\ k.lost = f.lost /\ k.inkBusy = f.inkBusy
       /\ k.toolID = f.toolID
  BY <1>3, <1>5, <1>7, <1>8 DEF Quiet, Still
<1> QED BY <1>1, <1>2, <1>8, <1>11, <1>12

-----------------------------------------------------------------------------
(* What is quiet: the tools channel, installs and the link.                *)

LEMMA EpQuiet ==
    ASSUME NEW f \in Frame, NEW e \in Endpoints \ {"chat"}, NEW s \in Stages
    PROVE  /\ Quiet([f EXCEPT !.ep[e] = s], f)
           /\ [f EXCEPT !.ep[e] = s] \in Frame
           /\ [f EXCEPT !.ep[e] = s].ep["chat"] = f.ep["chat"]
<1> DEFINE x == [f.ep EXCEPT ![e] = s]
           g == [f EXCEPT !.ep = x]
<1>1. x \in [Endpoints -> Stages] /\ x["chat"] = f.ep["chat"]
  BY DEF Frame, Endpoints
<1>2. [f EXCEPT !.ep[e] = s] = g
  OBVIOUS
<1> HIDE DEF x
<1>3. g \in Frame
  BY <1>1 DEF Frame
<1>4. Still(g, f) /\ g.calls = f.calls /\ g.ep = x
  BY <1>1 DEF Frame, Still
<1> HIDE DEF g
<1>5. Quiet(g, f)
  BY <1>4, StillQuiet
<1> QED BY <1>1, <1>2, <1>3, <1>4, <1>5

LEMMA LinkQuiet ==
    ASSUME NEW f \in Frame
    PROVE  /\ Quiet([f EXCEPT !.link = TRUE], f)
           /\ [f EXCEPT !.link = TRUE] \in Frame
<1> DEFINE g == [f EXCEPT !.link = TRUE]
<1>1. g \in Frame /\ Still(g, f) /\ g.calls = f.calls
  BY DEF Frame, Still
<1> HIDE DEF g
<1>2. Quiet(g, f)
  BY <1>1, StillQuiet
<1> QED BY <1>1, <1>2 DEF g

LEMMA InetGrabLinkQuiet ==
    ASSUME NEW f \in Frame, NEW who \in {"ink", "tool"}
    PROVE  Quiet(InetGrabLink(f, who), f)
<1> DEFINE k == [f.grabs EXCEPT ![who] = @ + 1]
           g == [f EXCEPT !.grabs = k]
<1>1. k["chat"] = f.grabs["chat"]
  BY DEF Frame, Grabbers
<1>2. InetGrabLink(f, who) = g
  BY DEF InetGrabLink
<1> HIDE DEF k
<1>3. Still(g, f) /\ g.calls = f.calls
  BY <1>1 DEF Frame, Still
<1> HIDE DEF g
<1> QED BY <1>2, <1>3, StillQuiet

LEMMA ToolStopQuiet ==
    ASSUME NEW f \in Frame
    PROVE  Quiet(ToolStop(f), f)
<1> DEFINE n == [f EXCEPT !.toolReady = FALSE]
           g == [n EXCEPT !.ep["tool"] = "none"]
<1>1. n \in Frame /\ Still(n, f) /\ n.calls = f.calls
  BY DEF Frame, Still
<1> HIDE DEF n
<1>2. Quiet(n, f)
  BY <1>1, StillQuiet
<1>3. g \in Frame /\ Quiet(g, n)
  BY <1>1, EpQuiet DEF Endpoints, Stages
<1> HIDE DEF g
<1>4. Quiet(ReleaseLink(g), g)
  BY <1>3, ReleaseLinkQuiet
<1>5. ToolStop(f) = ReleaseLink(g)
  BY DEF ToolStop, g, n
<1> QED BY <1>2, <1>3, <1>4, <1>5, QuietOften

LEMMA ToolRetryQuiet ==
    ASSUME NEW f, NEW p, Loose(f), Fresh(f), Follows(f, p)
    PROVE  Quiet(ToolRetry(f), f)
<1> DEFINE g == [f EXCEPT !.toolStopping = TRUE]
<1>1. Loose(g) /\ Fresh(g) /\ Follows(g, p)
  BY StoppingLoose
<1>2. g \in Frame /\ Still(g, f) /\ g.calls = f.calls
  BY DEF Loose, Frame, Still
<1> HIDE DEF g
<1>3. Quiet(g, f) /\ Quiet(ToolStop(g), g)
  BY <1>2, StillQuiet, ToolStopQuiet
<1>4. ToolStop(g) \in Frame
  BY <1>1, ToolStopKeeps, KeepsFrame
<1>5. Quiet(AddDelayedCall(ToolStop(g), "ToolResume", 1), ToolStop(g))
  BY <1>4, AddQuiet DEF Delayed
<1>6. Quiet(AddDelayedCall(ToolStop(g), "ToolResume", 1), f)
  BY <1>3, <1>5, QuietOften
<1>7. Quiet(f, f)
  BY QuietSelf
<1> QED BY <1>6, <1>7 DEF ToolRetry, g

LEMMA ToolOpenQuiet ==
    ASSUME NEW f \in Frame
    PROVE  Quiet(ToolOpen(f), f)
<1>1. Quiet([f EXCEPT !.ep["tool"] = "binding"], f) /\ Quiet(f, f)
  BY EpQuiet, QuietSelf DEF Endpoints, Stages
<1> QED BY <1>1 DEF ToolOpen

LEMMA ToolStartQuiet ==
    ASSUME NEW f \in Frame
    PROVE  Quiet(ToolStart(f), f)
<1> DEFINE g == [f EXCEPT !.toolStopping = FALSE]
<1>1. g \in Frame /\ Still(g, f) /\ g.calls = f.calls
  BY DEF Frame, Still
<1> HIDE DEF g
<1>2. Quiet(g, f) /\ Quiet(f, f)
  BY <1>1, StillQuiet, QuietSelf
<1>3. Quiet(ToolOpen(g), g) /\ Quiet(InetGrabLink(g, "tool"), g)
  BY <1>1, ToolOpenQuiet, InetGrabLinkQuiet
<1>4. Quiet(ToolOpen(g), f) /\ Quiet(InetGrabLink(g, "tool"), f)
  BY <1>2, <1>3, QuietOften
<1> QED BY <1>2, <1>4 DEF ToolStart, g

LEMMA ToolResumeQuiet ==
    ASSUME NEW f \in Frame
    PROVE  Quiet(ToolResume(f), f)
  BY ToolStartQuiet, QuietSelf DEF ToolResume

LEMMA ToolReplyQuiet ==
    ASSUME NEW f, NEW p, Keeps(f, p)
    PROVE  Quiet(ToolReply(f), f)
<1>1. Quiet(ToolRetry(f), f) /\ Quiet(f, f)
  BY ToolRetryQuiet, QuietSelf DEF Keeps, Sound
<1>2. Quiet([f EXCEPT !.ep["tool"] = "replying"], f)
  BY KeepsFrame, EpQuiet DEF Endpoints, Stages
<1> QED BY <1>1, <1>2 DEF ToolReply

LEMMA ToolBindFailedQuiet ==
    ASSUME NEW f, NEW p, Keeps(f, p)
    PROVE  Quiet(ToolBindFailed(f), f)
<1> DEFINE n == [f EXCEPT !.toolBindRetried = TRUE]
           g == [n EXCEPT !.toolStopping = TRUE]
<1>1. f \in Frame
  BY KeepsFrame
<1>2. n \in Frame /\ Alike(n, f) /\ n.ep = f.ep /\ n.stopping = f.stopping
  BY <1>1 DEF Frame, Alike, Kept
<1>3. Still(n, f) /\ n.calls = f.calls
  BY <1>1 DEF Frame, Still
<1> HIDE DEF n
<1>4. Keeps(n, p) /\ Quiet(n, f)
  BY <1>2, <1>3, AlikeKeeps, StillQuiet
<1>5. Loose(g) /\ Fresh(g) /\ Follows(g, p)
  BY <1>4, StoppingLoose DEF Keeps, Sound
<1>6. g \in Frame /\ Still(g, n) /\ g.calls = n.calls
  BY <1>2 DEF Frame, Still
<1> HIDE DEF g
<1>7. Quiet(g, n) /\ Quiet(ToolStop(g), g) /\ ToolStop(g) \in Frame
  BY <1>5, <1>6, StillQuiet, ToolStopQuiet, ToolStopKeeps, KeepsFrame
<1>8. Quiet(AddDelayedCall(ToolStop(g), "ToolResume", 5), ToolStop(g))
  BY <1>7, AddQuiet DEF Delayed
<1>9. Quiet(AddDelayedCall(ToolStop(g), "ToolResume", 5), f)
  <2>1. Quiet(g, f)
    BY <1>4, <1>7, QuietOften
  <2>2. Quiet(ToolStop(g), f)
    BY <1>7, <2>1, QuietOften
  <2> QED BY <1>8, <2>2, QuietOften
<1>10. Quiet(ToolRetry(f), f)
  BY ToolRetryQuiet DEF Keeps, Sound
<1> QED BY <1>9, <1>10 DEF ToolBindFailed, g, n

LEMMA ToolBoundQuiet ==
    ASSUME NEW f \in Frame
    PROVE  Quiet(ToolBound(f), f)
<1> DEFINE g == [f EXCEPT !.toolBindRetried = FALSE]
<1>1. g \in Frame /\ Still(g, f) /\ g.calls = f.calls
  BY DEF Frame, Still
<1> HIDE DEF g
<1>2. Quiet(g, f) /\ Quiet(f, f)
  BY <1>1, StillQuiet, QuietSelf
<1>3. Quiet([g EXCEPT !.ep["tool"] = "connecting"], g)
  BY <1>1, EpQuiet DEF Endpoints, Stages
<1>4. Quiet([g EXCEPT !.ep["tool"] = "connecting"], f)
  BY <1>2, <1>3, QuietOften
<1> QED BY <1>2, <1>4 DEF ToolBound, g

LEMMA ToolConnectedQuiet ==
    ASSUME NEW f \in Frame
    PROVE  Quiet(ToolConnected(f), f)
<1> DEFINE j == [f EXCEPT !.toolReady = TRUE]
           k == [j EXCEPT !.toolMisses = 0]
           g == [k EXCEPT !.ep["tool"] = "listening"]
           h == [g EXCEPT !.toolWatching = TRUE]
<1>1. j \in Frame /\ Still(j, f) /\ j.calls = f.calls
  BY DEF Frame, Still
<1> HIDE DEF j
<1>2. k \in Frame
  <2>1. 0 \in 0..3
    OBVIOUS
  <2> QED BY <1>1, <2>1, Zenon DEF Frame
<1>3. Still(k, j) /\ k.calls = j.calls
  BY <1>1 DEF Frame, Still
<1> HIDE DEF k
<1>4. g \in Frame /\ Quiet(g, k)
  BY <1>2, EpQuiet DEF Endpoints, Stages
<1> HIDE DEF g
<1>5. h \in Frame /\ Still(h, g) /\ h.calls = g.calls
  BY <1>4 DEF Frame, Still
<1> HIDE DEF h
<1>6. Quiet(AddDelayedCall(h, "ToolWatch", 4), h)
  BY <1>5, AddQuiet DEF Delayed
<1>7. Quiet(j, f) /\ Quiet(k, j) /\ Quiet(h, g) /\ Quiet(f, f)
  BY <1>1, <1>3, <1>5, StillQuiet, QuietSelf
<1>8. Quiet(k, f)
  BY <1>7, QuietOften
<1>9. Quiet(g, f)
  BY <1>4, <1>8, QuietOften
<1>10. Quiet(h, f)
  BY <1>7, <1>9, QuietOften
<1>11. Quiet(AddDelayedCall(h, "ToolWatch", 4), f)
  BY <1>6, <1>10, QuietOften
<1> DEFINE c == [f EXCEPT !.toolReady = TRUE, !.toolMisses = 0, !.ep["tool"] = "listening"]
<1>12. ToolConnected(f) =
           IF f.toolStopping THEN f
           ELSE IF c.toolWatching THEN c
           ELSE AddDelayedCall([c EXCEPT !.toolWatching = TRUE], "ToolWatch", 4)
  BY DEF ToolConnected
<1>13. c = g
  BY DEF g, k, j
<1> HIDE DEF c
<1>14. ToolConnected(f) \in {f, g, AddDelayedCall(h, "ToolWatch", 4)}
  BY <1>12, <1>13 DEF h
<1> QED BY <1>7, <1>9, <1>11, <1>14

LEMMA ToolWatchQuiet ==
    ASSUME NEW f, Sound(f)
    PROVE  Quiet(ToolWatch(f), f)
<1> DEFINE h == [f EXCEPT !.toolWatching = FALSE]
           misses == f.toolMisses + (IF f.toolReady THEN 1 ELSE 0)
           g == [f EXCEPT !.toolMisses = misses]
           again == IF f.toolReady /\ misses > 2 THEN ToolRetry(g) ELSE g
<1>0. f \in Frame
  BY DEF Sound, Loose
<1>1. Still(h, f) /\ h.calls = f.calls
  BY <1>0 DEF Frame, Still
<1> HIDE DEF h
<1>2. f.toolMisses \in 0..3 /\ (f.toolReady => f.toolMisses <= 2)
  BY <1>0 DEF Frame, Sound, Tended
<1>3. misses \in 0..3
  BY <1>2
<1> HIDE DEF misses
<1>4. /\ g \in Frame /\ g.toolMisses = misses /\ g.toolReady = f.toolReady
      /\ g.ep = f.ep /\ g.link = f.link /\ g.held = f.held /\ g.calls = f.calls
      /\ g.armed = f.armed /\ g.stopping = f.stopping /\ g.asks = f.asks
      /\ g.radioHeld = f.radioHeld /\ g.open = f.open /\ g.toolStopping = f.toolStopping
      /\ g.toolWatching = f.toolWatching
  BY <1>0, <1>3 DEF Frame
<1>5. Still(g, f)
  BY <1>0 DEF Frame, Still
<1> HIDE DEF g
<1>6. Loose(g) /\ Fresh(g) /\ Follows(g, f)
  <2>1. OneChain(g) /\ Armed(g) /\ Fresh(g) /\ (Ticks(g) <=> Ticks(f))
    BY <1>4, SameCalls DEF Sound, Loose
  <2> QED BY <1>4, <2>1 DEF Sound, Loose, Follows
<1>7. Quiet(g, f) /\ Quiet(h, f) /\ Quiet(ToolRetry(g), g)
  BY <1>1, <1>4, <1>5, <1>6, StillQuiet, ToolRetryQuiet
<1>8. Quiet(again, f)
  BY <1>7, QuietOften
<1>9. ~f.toolStopping => again \in Frame
  <2>1. f.toolStopping = FALSE => ToolRetry(g) \in Frame
    BY <1>4, <1>6, ToolRetryKeeps, KeepsFrame
  <2> QED BY <1>0, <1>4, <2>1 DEF Frame
<1> HIDE DEF again
<1>10. ~f.toolStopping => Quiet(AddDelayedCall(again, "ToolWatch", 4), again)
  BY <1>9, AddQuiet DEF Delayed
<1>11. ~f.toolStopping => Quiet(AddDelayedCall(again, "ToolWatch", 4), f)
  BY <1>8, <1>10, QuietOften
<1> QED BY <1>7, <1>11 DEF ToolWatch, again, g, misses, h

LEMMA PkgFinishQuiet ==
    ASSUME NEW f, NEW p, Keeps(f, p)
    PROVE  Quiet(PkgFinish(f), f)
<1> DEFINE g == [f EXCEPT !.ep["pkg"] = "none"]
<1>1. Keeps(g, p)
  BY EndpointKeeps DEF Endpoints, Stages
<1>2. Quiet(g, f)
  BY KeepsFrame, EpQuiet DEF Endpoints, Stages
<1> HIDE DEF g
<1>3. Quiet(ToolReply(g), g)
  BY <1>1, ToolReplyQuiet
<1>4. Quiet(ToolReply(g), f)
  BY <1>2, <1>3, QuietOften
<1> QED BY <1>4 DEF PkgFinish, g

LEMMA PkgInstallStartQuiet ==
    ASSUME NEW f, NEW p, Keeps(f, p)
    PROVE  Quiet(PkgInstallStart(f), f)
<1> DEFINE g == [f EXCEPT !.ep["pkg"] = "loading"]
           h == [g EXCEPT !.pkgQueued = FALSE]
           k == [h EXCEPT !.ep["tool"] = "serving"]
<1>1. f \in Frame
  BY KeepsFrame
<1>2. g \in Frame /\ Quiet(g, f)
  BY <1>1, EpQuiet DEF Endpoints, Stages
<1> HIDE DEF g
<1>3. h \in Frame /\ Still(h, g) /\ h.calls = g.calls
  BY <1>2 DEF Frame, Still
<1> HIDE DEF h
<1>4. Quiet(h, g) /\ Quiet(k, h)
  BY <1>3, StillQuiet, EpQuiet DEF Endpoints, Stages
<1> HIDE DEF k
<1>5. Quiet(h, f)
  BY <1>2, <1>4, QuietOften
<1>6. Quiet(k, f)
  BY <1>4, <1>5, QuietOften
<1>7. Quiet(PkgFinish(f), f)
  BY PkgFinishQuiet
<1>8. PkgInstallStart(f) = IF f.ep["pkg"] # "none" \/ ~f.link THEN PkgFinish(f) ELSE k
  BY DEF PkgInstallStart, g, h, k
<1> QED BY <1>6, <1>7, <1>8

LEMMA PkgBodyReceivedQuiet ==
    ASSUME NEW f \in Frame
    PROVE  Quiet(PkgBodyReceived(f), f)
<1> DEFINE g == [f EXCEPT !.ep["pkg"] = "received"]
           h == [g EXCEPT !.pkgQueued = TRUE]
<1>1. g \in Frame /\ Quiet(g, f)
  BY EpQuiet DEF Endpoints, Stages
<1> HIDE DEF g
<1>2. h \in Frame /\ Still(h, g) /\ h.calls = g.calls
  BY <1>1 DEF Frame, Still
<1> HIDE DEF h
<1>3. Quiet(h, g) /\ Quiet(AddDelayedCall(h, "PkgInstallNow", 1), h)
  BY <1>2, StillQuiet, AddQuiet DEF Delayed
<1>4. Quiet(h, f)
  BY <1>1, <1>3, QuietOften
<1>5. Quiet(AddDelayedCall(h, "PkgInstallNow", 1), f)
  BY <1>3, <1>4, QuietOften
<1> QED BY <1>5 DEF PkgBodyReceived, g, h

-----------------------------------------------------------------------------
(* What arms the idle timer, or leaves something behind that will.         *)

MayArm(f) == StopsSoon(f) /\ NoteWatched(f) /\ Talks(f)

LEMMA SameCalm ==
    ASSUME NEW f, NEW g, g.calls = f.calls, g.inkBusy = f.inkBusy
    PROVE  /\ StopsSoon(g) <=> StopsSoon(f)
           /\ NoteWatched(g) <=> NoteWatched(f)
           /\ g.radioHeld = f.radioHeld => (Calm(g) <=> Calm(f))
           /\ \A r : Posted(g, r) <=> Posted(f, r)
<1>1. /\ \A r : Posted(g, r) <=> Posted(f, r)
      /\ StopsSoon(g) <=> StopsSoon(f)
      /\ g.radioHeld = f.radioHeld => (TimerBehindStop(g) <=> TimerBehindStop(f))
  BY SamePosts
<1> QED BY <1>1 DEF Calm, NoteWatched

LEMMA ArmsEnding ==
    ASSUME NEW f \in Frame, MayArm(f)
    PROVE  Ending(ArmRadioIdle(f))
  BY ArmEnding DEF MayArm

LEMMA EndingMayArm ==
    ASSUME NEW f, Ending(f)
    PROVE  MayArm(f)
  BY DEF Ending, Calm, MayArm

LEMMA CalmMayArm ==
    ASSUME NEW f, Calm(f), Talks(f)
    PROVE  MayArm(f)
  BY DEF Calm, MayArm

\* The chat endpoint goes on to another stage.
ChatAt(f, s) == [f EXCEPT !.ep["chat"] = s]

LEMMA ChatFrame ==
    ASSUME NEW f \in Frame, NEW s \in Stages
    PROVE  ChatAt(f, s) \in Frame
<1> DEFINE x == [f.ep EXCEPT !["chat"] = s]
<1>1. x \in [Endpoints -> Stages]
  BY DEF Frame, Endpoints
<1> HIDE DEF x
<1>2. [f EXCEPT !.ep = x] \in Frame
  BY <1>1 DEF Frame
<1> QED BY <1>2 DEF ChatAt, x

LEMMA ChatStage ==
    ASSUME NEW f \in Frame, NEW s
    PROVE  LET g == ChatAt(f, s) IN
           /\ g.ep["chat"] = s /\ g.calls = f.calls
           /\ g.radioHeld = f.radioHeld /\ g.lost = f.lost
           /\ g.ready = f.ready /\ g.inFlight = f.inFlight
           /\ g.handshakeActive = f.handshakeActive /\ g.stopping = f.stopping
           /\ g.inkBusy = f.inkBusy /\ g.toolID = f.toolID
           /\ g.grabs = f.grabs /\ g.pending = f.pending
<1> DEFINE g == ChatAt(f, s)
           x == [f.ep EXCEPT !["chat"] = s]
<1>1. x["chat"] = s
  BY DEF Frame, Endpoints
<1>2. g = [f EXCEPT !.ep = x]
  BY DEF ChatAt
<1> HIDE DEF x, g
<1>3. /\ g.ep = x /\ g.calls = f.calls
      /\ g.radioHeld = f.radioHeld /\ g.lost = f.lost
      /\ g.ready = f.ready /\ g.inFlight = f.inFlight
      /\ g.handshakeActive = f.handshakeActive /\ g.stopping = f.stopping
      /\ g.inkBusy = f.inkBusy /\ g.toolID = f.toolID
      /\ g.grabs = f.grabs /\ g.pending = f.pending
  BY <1>2 DEF Frame
<1> QED BY <1>1, <1>3 DEF g

-----------------------------------------------------------------------------
(* Requests of the host.                                                   *)

LEMMA ToolReplySentEnding ==
    ASSUME NEW f \in Frame, Ending(f)
    PROVE  Ending(ToolReplySent(f))
<1> DEFINE n == [f EXCEPT !.toolID = 0]
           g == [n EXCEPT !.ep["tool"] = "listening"]
<1>1. /\ n \in Frame /\ n.calls = f.calls /\ n.inkBusy = f.inkBusy
      /\ n.radioHeld = f.radioHeld /\ n.lost = f.lost
      /\ n.ready = f.ready /\ n.inFlight = f.inFlight /\ n.ep = f.ep
      /\ n.handshakeActive = f.handshakeActive /\ n.stopping = f.stopping
      /\ n.grabs = f.grabs
  BY DEF Frame, Ids
<1> HIDE DEF n
<1>2. Calm(n) /\ (\A r : Posted(n, r) <=> Posted(f, r))
  BY <1>1, SameCalm DEF Ending
<1>3. Talks(n)
  BY <1>1 DEF Ending, Talks
<1>4. g \in Frame /\ Quiet(g, n)
  BY <1>1, EpQuiet DEF Endpoints, Stages
<1> HIDE DEF g
<1>5. MayArm(g)
  BY <1>2, <1>3, <1>4, QuietEnding, CalmMayArm
<1>6. Ending(ArmRadioIdle(g))
  BY <1>4, <1>5, ArmsEnding
<1>7. f.toolID = HeartBeat => Ending(g)
  <2>1. HeartBeat \notin Requests
    BY RadioAssumption DEF Requests
  <2>2. f.toolID = HeartBeat /\ Expires(f) => Expires(n)
    BY <1>1, <1>2, <2>1 DEF Expires
  <2>3. Dials(f) => Dials(n)
    BY <1>1, <1>2 DEF Dials
  <2>4. f.toolID = HeartBeat => Awaits(n)
    BY <1>1, <2>2, <2>3 DEF Ending, Awaits
  <2>5. f.toolID = HeartBeat => Ending(n)
    BY <1>2, <1>3, <2>4 DEF Ending
  <2> QED BY <1>4, <2>5, QuietEnding
<1>8. ToolReplySent(f) = IF f.toolStopping THEN f
                         ELSE IF f.toolID = HeartBeat THEN g ELSE ArmRadioIdle(g)
  BY DEF ToolReplySent, g, n
<1> QED BY <1>6, <1>7, <1>8

\* A heartbeat leaves no request of the host waiting, unless the host gave it up.
LEMMA ToolDispatchEnding ==
    ASSUME NEW f, NEW p, Keeps(f, p), Ending(f),
           NEW id \in Requests \union {HeartBeat}, NEW install \in BOOLEAN,
           id = HeartBeat => f.lost \/ f.toolID \notin Requests
    PROVE  Ending(ToolDispatch(f, id, install))
<1> DEFINE g == [f EXCEPT !.toolMisses = 0]
           r == IF id = HeartBeat THEN g ELSE RadioHold(g)
           h == [r EXCEPT !.toolID = id]
<1>1. Keeps(g, p)
  <2>1. f \in Frame
    BY KeepsFrame
  <2>2. 0 \in 0..3
    OBVIOUS
  <2>3. g \in Frame
    BY <2>1, <2>2, Zenon DEF Frame
  <2>4. /\ g.toolMisses = 0 /\ g.ep = f.ep /\ g.link = f.link
        /\ g.held = f.held /\ g.calls = f.calls /\ g.armed = f.armed
        /\ g.stopping = f.stopping /\ g.asks = f.asks /\ g.radioHeld = f.radioHeld
        /\ g.open = f.open /\ g.toolReady = f.toolReady
        /\ g.toolWatching = f.toolWatching /\ g.toolStopping = f.toolStopping
    BY <2>1 DEF Frame
  <2> HIDE DEF g
  <2>5. OneChain(g) /\ Armed(g) /\ Fresh(g) /\ (Ticks(g) <=> Ticks(f))
    BY <2>4, SameCalls DEF Keeps, Sound, Loose
  <2> QED BY <2>3, <2>4, <2>5 DEF Keeps, Sound, Loose, Tended, Follows
<1>2. f \in Frame /\ g \in Frame
  BY <1>1, KeepsFrame
<1>3. Still(g, f) /\ g.calls = f.calls
  BY <1>2 DEF Frame, Still
<1> HIDE DEF g
<1>4. Ending(g) /\ g.lost = f.lost /\ g.toolID = f.toolID
  BY <1>3, StillQuiet, QuietEnding DEF Still
<1>5. Keeps(r, p)
  BY <1>1, RadioHoldKeeps
<1>6. Calm(r) /\ Talks(r)
  <2>1. id = HeartBeat => Calm(r) /\ Talks(r)
    BY <1>4 DEF Ending
  <2> DEFINE k == RadioHold(g)
  <2>2. /\ Still(k, [g EXCEPT !.radioHeld = TRUE, !.stopping = FALSE])
        /\ k.ep = g.ep
        /\ \A run : run \notin {"RadioExpired", "Stop"} /\ Posted(g, run) => Posted(k, run)
        /\ StopsSoon(g) => StopsSoon(k)
        /\ TimerBehindStop(k)
    BY <1>2, RadioHoldPosts
  <2>3. k.ready = g.ready /\ k.inFlight = g.inFlight /\ k.inkBusy = g.inkBusy
    BY <1>2, <2>2 DEF Still, Frame
  <2> HIDE DEF k
  <2>4. NoteWatched(k)
    BY <1>4, <2>2, <2>3 DEF Ending, Calm, NoteWatched
  <2>5. Calm(k) /\ Talks(k)
    BY <1>4, <2>2, <2>3, <2>4 DEF Ending, Calm, Talks
  <2> QED BY <2>1, <2>5 DEF k
<1>7. r \in Frame /\ id \in Ids
  BY <1>5, KeepsFrame DEF Ids
<1>12. id = HeartBeat => r = g
  OBVIOUS
<1> HIDE DEF r
<1>8. /\ h \in Frame /\ Alike(h, r) /\ h.ep = r.ep /\ h.stopping = r.stopping
      /\ h.calls = r.calls /\ h.inkBusy = r.inkBusy /\ h.toolID = id
      /\ h.radioHeld = r.radioHeld /\ h.lost = r.lost /\ h.ready = r.ready
      /\ h.inFlight = r.inFlight /\ h.handshakeActive = r.handshakeActive
      /\ h.grabs = r.grabs
  BY <1>7 DEF Frame, Alike, Kept
<1> HIDE DEF h
<1>9. Keeps(h, p)
  BY <1>5, <1>8, AlikeKeeps
<1>10. Calm(h) /\ Talks(h) /\ (\A run : Posted(h, run) <=> Posted(r, run))
  <2>1. Calm(h) /\ (\A run : Posted(h, run) <=> Posted(r, run))
    BY <1>6, <1>8, SameCalm
  <2>2. Talks(h)
    BY <1>6, <1>8 DEF Talks
  <2> QED BY <2>1, <2>2
<1>11. Awaits(h)
  <2>1. CASE id = HeartBeat
    <3>1. g.lost \/ g.toolID \notin Requests
      BY <1>4, <2>1
    <3>2. r = g
      BY <1>12, <2>1
    <3>3. Dials(g) => Dials(h)
      BY <1>8, <1>10, <3>2 DEF Dials
    <3>4. Expires(g) /\ g.toolID \notin Requests => Expires(h)
      BY <1>8, <1>10, <3>2 DEF Expires
    <3> QED BY <1>4, <1>8, <3>1, <3>2, <3>3, <3>4 DEF Ending, Awaits
  <2>2. CASE id \in Requests
    BY <1>8, <2>2 DEF Awaits, Expires
  <2> QED BY <2>1, <2>2
<1>13. Ending(h)
  BY <1>10, <1>11 DEF Ending
<1>14. Ending(PkgInstallStart(h)) /\ Ending(ToolReply(h))
  BY <1>9, <1>13, PkgInstallStartQuiet, ToolReplyQuiet, QuietEnding
<1> QED BY <1>14 DEF ToolDispatch, g, r, h

-----------------------------------------------------------------------------
(* The chat connection.                                                    *)

LEMMA OpenSessionEnding ==
    ASSUME NEW f \in Frame, Calm(f)
    PROVE  Ending(OpenSession(f))
<1> DEFINE g == [f EXCEPT !.handshakeActive = TRUE]
           h == ChatAt(g, "binding")
<1>1. /\ g \in Frame /\ g.handshakeActive = TRUE /\ g.calls = f.calls
      /\ g.radioHeld = f.radioHeld /\ g.inkBusy = f.inkBusy
  BY DEF Frame
<1> HIDE DEF g
<1>5. /\ h.ep["chat"] = "binding" /\ h.handshakeActive = g.handshakeActive
      /\ h.calls = g.calls /\ h.radioHeld = g.radioHeld /\ h.inkBusy = g.inkBusy
  BY <1>1, ChatStage
<1> HIDE DEF h
<1>2. /\ h.ep["chat"] = "binding" /\ h.handshakeActive = TRUE /\ h.calls = f.calls
      /\ h.radioHeld = f.radioHeld /\ h.inkBusy = f.inkBusy
  BY <1>1, <1>5
<1>3. Calm(h)
  BY <1>2, SameCalm
<1>4. Talks(h) /\ Awaits(h)
  BY <1>2 DEF Talks, Awaits, Dials
<1> QED BY <1>3, <1>4 DEF Ending, OpenSession, ChatAt, g, h

\* Stop comes first, and behind it the idle timer.
LEMMA FailedEnding ==
    ASSUME NEW f \in Frame, MayArm(f), f.stopping => Ending(f)
    PROVE  Ending(Failed(f))
<1> DEFINE n == NewTicket(f, "HandshakeExpired")
           g == [n EXCEPT !.handshakeActive = FALSE, !.pending = FALSE]
           k == AddDelayedCall(g, "Stop", 1)
<1>1. /\ n \in Frame /\ Still(n, f) /\ n.ep = f.ep
      /\ \A r : r # "HandshakeExpired" /\ Posted(f, r) => Posted(n, r)
      /\ StopsSoon(f) => StopsSoon(n)
  BY OutdatePosts DEF NewTicket
<1> HIDE DEF n
<1>2. /\ g \in Frame /\ g.calls = n.calls /\ g.inkBusy = n.inkBusy /\ g.ep = n.ep
      /\ g.ready = n.ready /\ g.inFlight = n.inFlight
  BY <1>1 DEF Frame
<1> HIDE DEF g
<1>3. MayArm(g)
  <2>1. NoteWatched(n)
    BY <1>1 DEF MayArm, NoteWatched, Still
  <2>2. StopsSoon(g) /\ NoteWatched(g)
    BY <1>1, <1>2, <2>1, SameCalm DEF MayArm
  <2>3. Talks(g)
    BY <1>1, <1>2 DEF MayArm, Talks, Still
  <2> QED BY <2>2, <2>3 DEF MayArm
<1>4. /\ Still(k, g) /\ (\A r : Posted(g, r) => Posted(k, r))
      /\ StopsSoon(g) => StopsSoon(k)
  BY <1>2, AddPosts DEF Delayed
<1>5. k \in Frame
  BY <1>2, AddFrame DEF Delayed
<1> HIDE DEF k
<1>6. MayArm(k)
  BY <1>3, <1>4 DEF MayArm, NoteWatched, Talks, Still
<1>7. Ending(ArmRadioIdle(k))
  BY <1>5, <1>6, ArmsEnding
<1> QED BY <1>7 DEF Failed, n, g, k

LEMMA HandshakeFailedEnding ==
    ASSUME NEW f \in Frame, MayArm(f), f.stopping \/ ~f.handshakeActive => Ending(f)
    PROVE  Ending(HandshakeFailed(f))
<1> DEFINE n == NewTicket(f, "HandshakeExpired")
           g == [n EXCEPT !.handshakeActive = FALSE]
<1>1. /\ n \in Frame /\ Still(n, f) /\ n.ep = f.ep
      /\ \A r : r # "HandshakeExpired" /\ Posted(f, r) => Posted(n, r)
      /\ StopsSoon(f) => StopsSoon(n)
  BY OutdatePosts DEF NewTicket
<1> HIDE DEF n
<1>2. /\ g \in Frame /\ g.calls = n.calls /\ g.inkBusy = n.inkBusy /\ g.ep = n.ep
      /\ g.ready = n.ready /\ g.inFlight = n.inFlight /\ g.stopping = n.stopping
  BY <1>1 DEF Frame
<1> HIDE DEF g
<1>3. MayArm(g)
  <2>1. NoteWatched(n)
    BY <1>1 DEF MayArm, NoteWatched, Still
  <2>2. StopsSoon(g) /\ NoteWatched(g)
    BY <1>1, <1>2, <2>1, SameCalm DEF MayArm
  <2>3. Talks(g)
    BY <1>1, <1>2 DEF MayArm, Talks, Still
  <2> QED BY <2>2, <2>3 DEF MayArm
<1>4. ~f.stopping => Ending(Failed(g))
  BY <1>1, <1>2, <1>3, FailedEnding DEF Still
<1> QED BY <1>4 DEF HandshakeFailed, n, g

LEMMA StopEnding ==
    ASSUME NEW f, NEW p, Keeps(f, p), Calm(f), f.radioHeld /\ ~f.lost => Expires(f)
    PROVE  Ending(Stop(f))
<1> DEFINE g == Stop(f)
<1>1. /\ g.ready = FALSE /\ g.inFlight = FALSE
      /\ g.radioHeld = f.radioHeld /\ g.lost = f.lost /\ g.inkBusy = f.inkBusy
      /\ g.toolID = f.toolID
      /\ \A r : r # "HandshakeExpired" /\ Posted(f, r) => Posted(g, r)
      /\ StopsSoon(f) => StopsSoon(g)
      /\ TimerBehindStop(f) => TimerBehindStop(g)
  BY StopPosts
<1> HIDE DEF g
<1>2. Calm(g)
  BY <1>1 DEF Calm, NoteWatched
<1>3. Awaits(g)
  BY <1>1 DEF Awaits, Expires
<1>4. Talks(g)
  BY <1>1 DEF Talks
<1> QED BY <1>2, <1>3, <1>4 DEF Ending, g

LEMMA DroppedEnding ==
    ASSUME NEW f, NEW p, Keeps(f, p), MayArm(f), ~f.stopping
    PROVE  Ending(Dropped(f))
<1> DEFINE g == ArmRadioIdle(f)
<1>1. f \in Frame /\ Keeps(g, p)
  BY KeepsFrame, ArmRadioIdleKeeps
<1>2. Ending(g)
  BY <1>1, ArmsEnding
<1>3. g.radioHeld => Expires(g)
  <2>1. Quiet(g, f) /\ (f.radioHeld => Posted(g, "RadioExpired"))
    BY <1>1, ArmQuiet
  <2> QED BY <2>1 DEF Quiet, Still, Expires
<1> HIDE DEF g
<1>4. Ending(Stop(g))
  BY <1>1, <1>2, <1>3, StopEnding DEF Ending
<1>5. f.handshakeActive => Ending(HandshakeFailed(f))
  BY <1>1, HandshakeFailedEnding
<1> QED BY <1>4, <1>5 DEF Dropped, g

\* A new connection takes hold of the radio: earlier timers are void.
LEMMA ConnectEnding ==
    ASSUME NEW f, NEW p, Keeps(f, p), StopsSoon(f), NoteWatched(f)
    PROVE  Ending(Connect(f))
<1> DEFINE s == Stop(f)
           g == [s EXCEPT !.pending = f.pending]
           h == RadioHold(g)
<1>1. /\ s \in Frame /\ s.ready = FALSE /\ s.inFlight = FALSE /\ s.ep["chat"] = "none"
      /\ s.inkBusy = f.inkBusy
      /\ \A r : r # "HandshakeExpired" /\ Posted(f, r) => Posted(s, r)
      /\ StopsSoon(f) => StopsSoon(s)
  BY StopPosts
<1>2. f.pending \in BOOLEAN
  BY KeepsFrame DEF Frame
<1> HIDE DEF s
<1>3. /\ g \in Frame /\ g.calls = s.calls /\ g.inkBusy = s.inkBusy /\ g.ep = s.ep
      /\ g.ready = s.ready /\ g.inFlight = s.inFlight
  BY <1>1, <1>2 DEF Frame
<1> HIDE DEF g
<1>4. StopsSoon(g) /\ NoteWatched(g)
  <2>1. NoteWatched(s)
    BY <1>1 DEF NoteWatched
  <2> QED BY <1>1, <1>3, <2>1, SameCalm
<1>5. /\ h \in Frame /\ h.stopping = FALSE
      /\ Still(h, [g EXCEPT !.radioHeld = TRUE, !.stopping = FALSE])
      /\ h.ep = g.ep
      /\ \A r : r \notin {"RadioExpired", "Stop"} /\ Posted(g, r) => Posted(h, r)
      /\ StopsSoon(g) => StopsSoon(h)
      /\ TimerBehindStop(h)
  BY <1>3, RadioHoldPosts
<1>6. h.ready = FALSE /\ h.inFlight = FALSE /\ h.inkBusy = g.inkBusy
  BY <1>1, <1>3, <1>5 DEF Still, Frame
<1> HIDE DEF h
<1>7. Calm(h)
  BY <1>4, <1>5, <1>6 DEF Calm, NoteWatched
<1>8. Ending(OpenSession(h))
  BY <1>5, <1>7, OpenSessionEnding
<1> DEFINE k == [h.grabs EXCEPT !["chat"] = @ + 1]
           m == [h EXCEPT !.grabs = k]
<1>9. k["chat"] > 0
  <2>1. h.grabs["chat"] \in Nat /\ h.grabs \in [Grabbers -> Nat]
    BY <1>5 DEF Frame, Grabbers
  <2>2. k["chat"] = h.grabs["chat"] + 1
    BY <2>1 DEF Grabbers
  <2> HIDE DEF k
  <2> QED BY <2>1, <2>2
<1>10. InetGrabLink(h, "chat") = m
  BY DEF InetGrabLink
<1> HIDE DEF k
<1>11. /\ m.grabs = k /\ m.calls = h.calls /\ m.inkBusy = h.inkBusy
       /\ m.radioHeld = h.radioHeld /\ m.ep = h.ep /\ m.stopping = h.stopping
       /\ m.ready = h.ready /\ m.inFlight = h.inFlight
  BY <1>5 DEF Frame
<1> HIDE DEF m
<1>12. Calm(m)
  BY <1>7, <1>11, SameCalm
<1>13. Talks(m)
  BY <1>6, <1>11 DEF Talks
<1>14. Awaits(m)
  BY <1>1, <1>3, <1>5, <1>9, <1>11 DEF Awaits, Dials
<1>15. Ending(InetGrabLink(h, "chat"))
  BY <1>10, <1>12, <1>13, <1>14 DEF Ending
<1> QED BY <1>8, <1>15 DEF Connect, s, g, h

LEMMA BindFailedEnding ==
    ASSUME NEW f \in Frame, Calm(f), f.ep["chat"] = "unbound", ~f.stopping
    PROVE  Ending(BindFailed(f))
<1> DEFINE g == [f EXCEPT !.bindRetried = TRUE]
           h == AddDelayedCall(g, "RetryBind", 5)
<1>1. Talks(f)
  BY DEF Talks
<1>2. Ending(Failed(f))
  BY <1>1, CalmMayArm, FailedEnding
<1>3. g \in Frame /\ Still(g, f) /\ g.calls = f.calls
  BY DEF Frame, Still
<1> HIDE DEF g
<1>4. Calm(g) /\ Talks(g) /\ g.ep["chat"] = "unbound"
  BY <1>1, <1>3, StillQuiet, QuietEnding DEF Still
<1>5. Quiet(h, g) /\ Posted(h, "RetryBind")
  BY <1>3, AddQuiet DEF Delayed
<1> HIDE DEF h
<1>6. Calm(h) /\ Talks(h) /\ h.ep["chat"] = "unbound"
  BY <1>4, <1>5, QuietEnding DEF Quiet, Still
<1>7. Ending(h)
  BY <1>5, <1>6 DEF Ending, Awaits, Dials
<1> QED BY <1>2, <1>7 DEF BindFailed, g, h

LEMMA RetryBindEnding ==
    ASSUME NEW f \in Frame, Calm(f), f.stopping => Ending(f)
    PROVE  Ending(RetryBind(f))
  BY OpenSessionEnding DEF RetryBind

LEMMA BoundEnding ==
    ASSUME NEW f \in Frame, Ending(f), f.ep["chat"] = "binding"
    PROVE  Ending(Bound(f))
<1> DEFINE g == [f EXCEPT !.bindRetried = FALSE]
           h == ChatAt(g, "connecting")
<1>1. g \in Frame /\ Still(g, f) /\ g.calls = f.calls
  BY DEF Frame, Still
<1> HIDE DEF g
<1>2. Ending(g) /\ g.ep["chat"] = "binding"
  BY <1>1, StillQuiet, QuietEnding DEF Still
<1>3. /\ h.ep["chat"] = "connecting" /\ h.calls = g.calls
      /\ h.radioHeld = g.radioHeld /\ h.lost = g.lost /\ h.inFlight = g.inFlight
      /\ h.handshakeActive = g.handshakeActive /\ h.inkBusy = g.inkBusy
      /\ h.toolID = g.toolID
  BY <1>1, ChatStage
<1> HIDE DEF h
<1>4. Calm(h) /\ (\A r : Posted(h, r) <=> Posted(g, r))
  BY <1>2, <1>3, SameCalm DEF Ending
<1>5. Talks(h)
  BY <1>3 DEF Talks
<1>6. Expires(g) => Expires(h)
  BY <1>3, <1>4 DEF Expires
<1>7. Dials(g) => Dials(h)
  BY <1>2, <1>3 DEF Dials
<1>8. Ending(h)
  BY <1>2, <1>3, <1>4, <1>5, <1>6, <1>7 DEF Ending, Awaits
<1> QED BY <1>8 DEF Bound, ChatAt, g, h

LEMMA ConnectedEnding ==
    ASSUME NEW f \in Frame, Ending(f), f.ep["chat"] = "connecting"
    PROVE  Ending(Connected(f))
<1> DEFINE n == NewTicket(f, "HandshakeExpired")
           g == [n EXCEPT !.ready = FALSE]
           h == ChatAt(g, "hello")
           k == AddDelayedCall(h, "HandshakeExpired", 12)
<1>1. /\ n \in Frame /\ Still(n, f) /\ n.ep = f.ep
      /\ \A r : r # "HandshakeExpired" /\ Posted(f, r) => Posted(n, r)
      /\ StopsSoon(f) => StopsSoon(n)
      /\ TimerBehindStop(f) => TimerBehindStop(n)
  BY OutdatePosts DEF NewTicket
<1> HIDE DEF n
<1>2. Calm(n)
  BY <1>1 DEF Ending, Calm, NoteWatched, Still
<1>3. /\ g \in Frame /\ g.calls = n.calls /\ g.radioHeld = n.radioHeld /\ g.lost = n.lost
      /\ g.inFlight = n.inFlight /\ g.handshakeActive = n.handshakeActive
      /\ g.inkBusy = n.inkBusy /\ g.toolID = n.toolID
  BY <1>1 DEF Frame
<1> HIDE DEF g
<1>14. h \in Frame
  BY <1>3, ChatFrame DEF Stages
<1>4. /\ h.ep["chat"] = "hello" /\ h.calls = g.calls
      /\ h.radioHeld = g.radioHeld /\ h.lost = g.lost /\ h.inFlight = g.inFlight
      /\ h.handshakeActive = g.handshakeActive /\ h.inkBusy = g.inkBusy
      /\ h.toolID = g.toolID
  BY <1>3, ChatStage
<1> HIDE DEF h
<1>5. h.calls = n.calls /\ h.inkBusy = n.inkBusy /\ h.radioHeld = n.radioHeld
  BY <1>3, <1>4
<1>6. Calm(h) /\ (\A r : Posted(h, r) <=> Posted(n, r))
  BY <1>2, <1>5, SameCalm
<1>7. Quiet(k, h) /\ Posted(k, "HandshakeExpired")
  BY <1>14, AddQuiet DEF Delayed
<1> HIDE DEF k
<1>8. /\ k.ep["chat"] = "hello" /\ k.radioHeld = f.radioHeld /\ k.lost = f.lost
      /\ k.inFlight = f.inFlight /\ k.handshakeActive = f.handshakeActive
      /\ k.inkBusy = f.inkBusy /\ k.toolID = f.toolID
  BY <1>1, <1>3, <1>4, <1>7 DEF Quiet, Still
<1>9. Calm(k) /\ Talks(k)
  BY <1>6, <1>7, <1>8, QuietEnding DEF Talks
<1>10. \A r : r # "HandshakeExpired" /\ Posted(f, r) => Posted(k, r)
  BY <1>1, <1>6, <1>7 DEF Quiet, Posts
<1>11. Expires(f) => Expires(k)
  BY <1>8, <1>10 DEF Expires
<1>12. Dials(f) => Dials(k)
  BY <1>7, <1>8 DEF Dials
<1>13. Ending(k)
  BY <1>8, <1>9, <1>11, <1>12 DEF Ending, Awaits
<1> QED BY <1>13 DEF Connected, ChatAt, n, g, h, k

LEMMA SendEnding ==
    ASSUME NEW f, NEW p, Keeps(f, p), MayArm(f), f.ep["chat"] # "none"
    PROVE  Ending(Send(f))
<1> DEFINE h == RadioHold(f)
           r == ToolStart(h)
           g == [r EXCEPT !.ready = FALSE, !.inFlight = TRUE]
<1>1. f \in Frame /\ r \in Frame
  BY RadioHoldKeeps, ToolStartKeeps, KeepsFrame
<1>2. /\ h \in Frame /\ h.stopping = FALSE
      /\ Still(h, [f EXCEPT !.radioHeld = TRUE, !.stopping = FALSE])
      /\ h.ep = f.ep
      /\ \A run : run \notin {"RadioExpired", "Stop"} /\ Posted(f, run) => Posted(h, run)
      /\ StopsSoon(f) => StopsSoon(h)
      /\ TimerBehindStop(h)
  BY <1>1, RadioHoldPosts
<1>3. h.inkBusy = f.inkBusy
  BY <1>1, <1>2 DEF Still, Frame
<1>4. Quiet(r, h)
  BY <1>2, ToolStartQuiet
<1> HIDE DEF h
<1>5. Calm(h)
  BY <1>2, <1>3 DEF MayArm, Calm, NoteWatched
<1> HIDE DEF r
<1>6. Calm(r) /\ r.stopping = FALSE /\ r.ep["chat"] = f.ep["chat"]
  BY <1>2, <1>4, <1>5, QuietEnding DEF Quiet, Still
<1>7. /\ g \in Frame /\ g.calls = r.calls /\ g.inkBusy = r.inkBusy /\ g.ep = r.ep
      /\ g.radioHeld = r.radioHeld /\ g.inFlight = TRUE /\ g.stopping = r.stopping
  BY <1>1 DEF Frame
<1> HIDE DEF g
<1>8. Calm(g)
  BY <1>6, <1>7, SameCalm
<1>9. Talks(g) /\ Awaits(g)
  BY <1>6, <1>7 DEF Talks, Awaits, Dials
<1>10. Ending(g)
  BY <1>8, <1>9 DEF Ending
<1>11. Ending(Failed(g))
  BY <1>7, <1>10, EndingMayArm, FailedEnding
<1> QED BY <1>10, <1>11 DEF Send, g, r, h

LEMMA HearReadyEnding ==
    ASSUME NEW f, NEW p, Keeps(f, p), Calm(f), f.ep["chat"] # "none"
    PROVE  Ending(HearReady(f))
<1> DEFINE n == NewTicket(f, "HandshakeExpired")
           m == [n EXCEPT !.handshakeActive = FALSE]
           s == ToolStart(m)
           k == [s EXCEPT !.ready = TRUE]
           g == ChatAt(k, "open")
           h == [g EXCEPT !.pending = FALSE]
<1>1. s = HandshakeSucceeded(f)
  BY DEF HandshakeSucceeded
<1>2. Keeps(s, p) /\ ~s.stopping
  BY <1>1, HandshakeSucceededKeeps DEF Keeps, Sound, Loose
<1>3. /\ n \in Frame /\ Still(n, f)
      /\ \A r : r # "HandshakeExpired" /\ Posted(f, r) => Posted(n, r)
      /\ StopsSoon(f) => StopsSoon(n)
      /\ TimerBehindStop(f) => TimerBehindStop(n)
  BY KeepsFrame, OutdatePosts DEF NewTicket
<1> HIDE DEF n
<1>4. Calm(n)
  BY <1>3 DEF Calm, NoteWatched, Still
<1>5. m \in Frame /\ m.calls = n.calls /\ m.inkBusy = n.inkBusy /\ m.radioHeld = n.radioHeld
  BY <1>3 DEF Frame
<1> HIDE DEF m
<1>6. Calm(m)
  BY <1>4, <1>5, SameCalm
<1>7. Calm(s) /\ s \in Frame
  BY <1>2, <1>5, <1>6, ToolStartQuiet, QuietEnding, KeepsFrame
<1> HIDE DEF s
<1>8. /\ k \in Frame /\ Alike(k, s) /\ k.ep = s.ep /\ k.stopping = s.stopping
      /\ k.inkBusy = s.inkBusy
  BY <1>7 DEF Frame, Alike, Kept
<1> HIDE DEF k
<1>9. Keeps(k, p) /\ ~k.stopping /\ Calm(k)
  BY <1>2, <1>7, <1>8, AlikeKeeps, SameCalm DEF Alike, Kept
<1>10. Keeps(g, p)
  BY <1>9, EndpointKeeps DEF ChatAt, Endpoints, Stages
<1>20. g \in Frame
  BY <1>8, ChatFrame DEF Stages
<1>11. /\ g.ep["chat"] = "open" /\ g.calls = k.calls
       /\ g.radioHeld = k.radioHeld /\ g.inkBusy = k.inkBusy
  BY <1>8, ChatStage
<1> HIDE DEF g
<1>12. Calm(g) /\ Talks(g)
  BY <1>9, <1>11, SameCalm DEF Talks
<1>13. /\ h \in Frame /\ Alike(h, g) /\ h.ep = g.ep /\ h.stopping = g.stopping
       /\ h.inkBusy = g.inkBusy
  BY <1>20 DEF Frame, Alike, Kept
<1> HIDE DEF h
<1>14. Keeps(h, p) /\ Calm(h) /\ h.ep["chat"] = "open"
  BY <1>10, <1>11, <1>12, <1>13, AlikeKeeps, SameCalm DEF Alike, Kept
<1>15. Talks(h)
  BY <1>14 DEF Talks
<1>16. Ending(ArmRadioIdle(g))
  BY <1>12, <1>20, CalmMayArm, ArmsEnding
<1>17. Ending(Send(h))
  BY <1>14, <1>15, CalmMayArm, SendEnding
<1>18. h.inFlight => Ending(h)
  BY <1>14, <1>15 DEF Ending, Awaits, Dials
<1>19. HearReady(f) = IF ~g.pending THEN ArmRadioIdle(g)
                      ELSE IF h.inFlight THEN h ELSE Send(h)
  <2>1. g = [HandshakeSucceeded(f) EXCEPT !.ready = TRUE, !.ep.chat = "open"]
    BY <1>1 DEF ChatAt, g, k
  <2>2. h = [g EXCEPT !.pending = FALSE]
    BY DEF h
  <2> QED BY <2>1, <2>2 DEF HearReady
<1> QED BY <1>16, <1>17, <1>18, <1>19

LEMMA HearTurnEndEnding ==
    ASSUME NEW f \in Frame, MayArm(f), f.ep["chat"] # "none"
    PROVE  Ending(HearTurnEnd(f))
<1> DEFINE g == [f EXCEPT !.ready = TRUE, !.inFlight = FALSE]
<1>1. g \in Frame /\ g.calls = f.calls /\ g.inkBusy = f.inkBusy /\ g.ep = f.ep
  BY DEF Frame
<1> HIDE DEF g
<1>2. MayArm(g)
  <2>1. StopsSoon(g) /\ NoteWatched(g)
    BY <1>1, SameCalm DEF MayArm
  <2> QED BY <1>1, <2>1 DEF MayArm, Talks
<1> QED BY <1>1, <1>2, ArmsEnding DEF HearTurnEnd, g

LEMMA GrabbedEnding ==
    ASSUME NEW f \in Frame, Calm(f), Talks(f), NEW ok \in BOOLEAN,
           f.stopping \/ f.ep["chat"] # "none" => Ending(f)
    PROVE  Ending(Grabbed(f, ok))
<1> DEFINE g == [f EXCEPT !.link = TRUE]
<1>1. g \in Frame /\ Calm(g)
  BY LinkQuiet, QuietEnding
<1> HIDE DEF g
<1>2. Ending(OpenSession(g))
  BY <1>1, OpenSessionEnding
<1>3. Ending(Failed(f))
  BY CalmMayArm, FailedEnding
<1> QED BY <1>2, <1>3 DEF Grabbed, g

-----------------------------------------------------------------------------
(* The ink POST.                                                           *)

LEMMA InkDoneEnding ==
    ASSUME NEW f \in Frame, Calm(f), Talks(f)
    PROVE  Ending(InkDone(f))
<1> DEFINE g == AddDelayedCall(f, "InkStop", 1)
<1>1. Quiet(g, f) /\ Posted(g, "InkStop")
  BY AddQuiet DEF Delayed
<1> HIDE DEF g
<1>2. Calm(g) /\ Talks(g)
  BY <1>1, QuietEnding
<1> QED BY <1>1, <1>2 DEF Ending, Awaits, Expires, InkDone, g

\* The note is over: its watchdog need not be posted any more.
LEMMA NotBusyCalm ==
    ASSUME NEW f \in Frame, StopsSoon(f), TimerBehindStop(f), Talks(f),
           NEW g, g.calls = f.calls, g.radioHeld = f.radioHeld, g.ep = f.ep,
           g.ready = f.ready, g.inFlight = f.inFlight, ~g.inkBusy
    PROVE  Calm(g) /\ Talks(g)
<1>1. StopsSoon(g) /\ TimerBehindStop(g)
  BY SamePosts
<1>2. Talks(g)
  BY DEF Talks
<1> QED BY <1>1, <1>2 DEF Calm, NoteWatched

LEMMA InkFailedEnding ==
    ASSUME NEW f \in Frame, Calm(f), Talks(f)
    PROVE  Ending(InkFailed(f))
<1> DEFINE g == [f EXCEPT !.inkBusy = FALSE, !.inkBody = FALSE]
<1>1. /\ g \in Frame /\ g.calls = f.calls /\ g.radioHeld = f.radioHeld /\ g.ep = f.ep
      /\ g.ready = f.ready /\ g.inFlight = f.inFlight /\ g.inkBusy = FALSE
  BY DEF Frame
<1> HIDE DEF g
<1>2. Calm(g) /\ Talks(g)
  BY <1>1, NotBusyCalm DEF Calm
<1> QED BY <1>1, <1>2, InkDoneEnding DEF InkFailed, g

LEMMA InkBodyQuiet ==
    ASSUME NEW f \in Frame, NEW b \in BOOLEAN
    PROVE  Quiet([f EXCEPT !.inkBody = b], f) /\ [f EXCEPT !.inkBody = b] \in Frame
<1> DEFINE g == [f EXCEPT !.inkBody = b]
<1>1. g \in Frame /\ Still(g, f) /\ g.calls = f.calls
  BY DEF Frame, Still
<1> HIDE DEF g
<1> QED BY <1>1, StillQuiet DEF g

LEMMA ArmFrame ==
    ASSUME NEW f \in Frame
    PROVE  ArmRadioIdle(f) \in Frame
<1> DEFINE n == NewTicket(f, "RadioExpired")
           h == [n EXCEPT !.armed = TRUE]
<1>1. n \in Frame
  BY OutdatePosts DEF NewTicket
<1> HIDE DEF n
<1>2. h \in Frame
  BY <1>1 DEF Frame
<1> HIDE DEF h
<1>3. AddDelayedCall(h, "RadioExpired", 5) \in Frame
  BY <1>2, AddFrame DEF Delayed
<1> QED BY <1>3 DEF ArmRadioIdle, h, n

LEMMA InkStopEnding ==
    ASSUME NEW f \in Frame, MayArm(f)
    PROVE  Ending(InkStop(f))
<1> DEFINE g == [f EXCEPT !.ep["ink"] = "none"]
           h == [g EXCEPT !.inkBody = FALSE]
           k == ArmRadioIdle(h)
<1>1. g \in Frame /\ Quiet(g, f)
  BY EpQuiet DEF Endpoints, Stages
<1> HIDE DEF g
<1>2. h \in Frame /\ Quiet(h, g)
  BY <1>1, InkBodyQuiet
<1> HIDE DEF h
<1>3. MayArm(g)
  BY <1>1, QuietEnding DEF MayArm
<1>4. MayArm(h)
  BY <1>2, <1>3, QuietEnding DEF MayArm
<1>5. Ending(k) /\ k \in Frame
  BY <1>2, <1>4, ArmsEnding, ArmFrame
<1> HIDE DEF k
<1>6. Ending(ReleaseLink(k))
  BY <1>5, ReleaseLinkQuiet, QuietEnding
<1> QED BY <1>6 DEF InkStop, g, h, k

\* A new watchdog, also where none was posted.
LEMMA ArmInkWatchEnding ==
    ASSUME NEW f \in Frame, StopsSoon(f), TimerBehindStop(f), Talks(f), Awaits(f)
    PROVE  Ending(ArmInkWatch(f)) /\ ArmInkWatch(f) \in Frame
<1> DEFINE n == NewTicket(f, "InkExpired")
           g == AddDelayedCall(n, "InkExpired", 150)
<1>1. ~f.inkBusy => Ending(f)
  BY DEF Ending, Calm, NoteWatched
<1>2. /\ n \in Frame /\ Still(n, f)
      /\ \A r : r # "InkExpired" /\ Posted(f, r) => Posted(n, r)
      /\ StopsSoon(n) /\ TimerBehindStop(n)
  BY OutdatePosts DEF NewTicket
<1> HIDE DEF n
<1>3. Quiet(g, n) /\ Posted(g, "InkExpired")
  BY <1>2, AddQuiet DEF Delayed
<1>7. g \in Frame
  BY <1>2, AddFrame DEF Delayed
<1> HIDE DEF g
<1>4. Still(g, f) /\ StopsSoon(g) /\ TimerBehindStop(g)
  BY <1>2, <1>3 DEF Quiet, Posts, Still
<1>5. \A r : r # "InkExpired" /\ Posted(f, r) => Posted(g, r)
  BY <1>2, <1>3 DEF Quiet, Posts
<1>6. Ending(g)
  <2>1. Calm(g) /\ Talks(g)
    BY <1>3, <1>4 DEF Calm, NoteWatched, Talks, Still
  <2>2. Expires(f) => Expires(g)
    BY <1>4, <1>5 DEF Expires, Still
  <2>3. Dials(f) => Dials(g)
    BY <1>4, <1>5 DEF Dials, Still
  <2> QED BY <1>4, <2>1, <2>2, <2>3 DEF Ending, Awaits, Still
<1> QED BY <1>1, <1>6, <1>7 DEF ArmInkWatch, g, n

LEMMA InkExpiredEnding ==
    ASSUME NEW f \in Frame, StopsSoon(f), TimerBehindStop(f), Talks(f), NEW current,
           ~current \/ ~f.inkBusy => Ending(f)
    PROVE  Ending(InkExpired(f, current))
<1> DEFINE g == [f EXCEPT !.inkBusy = FALSE]
<1>1. /\ g \in Frame /\ g.calls = f.calls /\ g.radioHeld = f.radioHeld /\ g.ep = f.ep
      /\ g.ready = f.ready /\ g.inFlight = f.inFlight /\ g.inkBusy = FALSE
  BY DEF Frame
<1> HIDE DEF g
<1>2. Calm(g) /\ Talks(g)
  BY <1>1, NotBusyCalm
<1>3. Ending(InkDone(g))
  BY <1>1, <1>2, InkDoneEnding
<1> QED BY <1>3 DEF InkExpired, g

LEMMA ToolStartFrame ==
    ASSUME NEW f \in Frame
    PROVE  ToolStart(f) \in Frame
<1> DEFINE g == [f EXCEPT !.toolStopping = FALSE]
           k == [g.grabs EXCEPT !["tool"] = @ + 1]
<1>1. g \in Frame
  BY DEF Frame
<1> HIDE DEF g
<1>2. [g EXCEPT !.ep["tool"] = "binding"] \in Frame
  BY <1>1, EpQuiet DEF Endpoints, Stages
<1>3. k \in [Grabbers -> Nat]
  <2>1. g.grabs \in [Grabbers -> Nat] /\ g.grabs["tool"] \in Nat
    BY <1>1 DEF Frame, Grabbers
  <2> QED BY <2>1 DEF Grabbers
<1> HIDE DEF k
<1>4. [g EXCEPT !.grabs = k] \in Frame
  BY <1>1, <1>3 DEF Frame
<1>5. ToolOpen(g) \in Frame /\ InetGrabLink(g, "tool") \in Frame
  BY <1>1, <1>2, <1>4 DEF ToolOpen, InetGrabLink, k
<1> QED BY <1>1, <1>5 DEF ToolStart, g

LEMMA InkOpenQuiet ==
    ASSUME NEW f \in Frame
    PROVE  Quiet(InkOpen(f), f)
<1> DEFINE g == ToolStart(f)
<1>1. g \in Frame /\ Quiet(g, f)
  BY ToolStartFrame, ToolStartQuiet
<1> HIDE DEF g
<1>2. Quiet([g EXCEPT !.ep["ink"] = "binding"], g)
  BY <1>1, EpQuiet DEF Endpoints, Stages
<1>3. Quiet([g EXCEPT !.ep["ink"] = "binding"], f)
  BY <1>1, <1>2, QuietOften
<1> QED BY <1>1, <1>3 DEF InkOpen, g

LEMMA InkGrabbedEnding ==
    ASSUME NEW f \in Frame, Ending(f), NEW ok \in BOOLEAN
    PROVE  Ending(InkGrabbed(f, ok))
<1> DEFINE g == [f EXCEPT !.link = TRUE]
<1>1. g \in Frame /\ Ending(g)
  BY LinkQuiet, QuietEnding
<1> HIDE DEF g
<1>2. Ending(InkOpen(g))
  BY <1>1, InkOpenQuiet, QuietEnding
<1>3. Ending(InkFailed(f))
  BY InkFailedEnding DEF Ending
<1> QED BY <1>2, <1>3 DEF InkGrabbed, g

LEMMA InkBindFailedEnding ==
    ASSUME NEW f \in Frame, Ending(f)
    PROVE  Ending(InkBindFailed(f))
<1> DEFINE g == [f EXCEPT !.inkBindRetried = TRUE]
<1>1. g \in Frame /\ Still(g, f) /\ g.calls = f.calls
  BY DEF Frame, Still
<1> HIDE DEF g
<1>2. Ending(g)
  BY <1>1, StillQuiet, QuietEnding
<1>3. Quiet(AddDelayedCall(g, "InkRebind", 5), g)
  BY <1>1, AddQuiet DEF Delayed
<1>4. Ending(AddDelayedCall(g, "InkRebind", 5))
  BY <1>2, <1>3, QuietEnding
<1>5. Ending(InkFailed(f))
  BY InkFailedEnding DEF Ending
<1> QED BY <1>4, <1>5 DEF InkBindFailed, g

LEMMA InkRebindEnding ==
    ASSUME NEW f \in Frame, Ending(f)
    PROVE  Ending(InkRebind(f))
<1> DEFINE g == [f EXCEPT !.ep["ink"] = "none"]
<1>1. g \in Frame /\ Quiet(g, f)
  BY EpQuiet DEF Endpoints, Stages
<1> HIDE DEF g
<1>2. Ending(g)
  BY <1>1, QuietEnding
<1>3. Ending(InkOpen(g))
  BY <1>1, <1>2, InkOpenQuiet, QuietEnding
<1> QED BY <1>3 DEF InkRebind, g

LEMMA InkBoundQuiet ==
    ASSUME NEW f \in Frame
    PROVE  Quiet(InkBound(f), f)
<1> DEFINE g == [f EXCEPT !.inkBindRetried = FALSE]
           h == [g EXCEPT !.ep["ink"] = "connecting"]
<1>1. g \in Frame /\ Still(g, f) /\ g.calls = f.calls
  BY DEF Frame, Still
<1> HIDE DEF g
<1>2. Quiet(g, f) /\ Quiet(h, g)
  BY <1>1, StillQuiet, EpQuiet DEF Endpoints, Stages
<1> HIDE DEF h
<1>3. Quiet(h, f)
  BY <1>2, QuietOften
<1> QED BY <1>3 DEF InkBound, g, h

LEMMA InkPostQuiet ==
    ASSUME NEW f \in Frame
    PROVE  Quiet(InkPost(f), f)
<1> DEFINE g == [f EXCEPT !.inkBody = FALSE]
           s == IF f.inkBody THEN "sent" ELSE "idle"
           h == [g EXCEPT !.ep["ink"] = s]
<1>1. g \in Frame /\ Quiet(g, f)
  BY InkBodyQuiet
<1> HIDE DEF g
<1>2. Quiet(h, g)
  BY <1>1, EpQuiet DEF Endpoints, Stages
<1>3. Quiet(h, f)
  BY <1>1, <1>2, QuietOften
<1> QED BY <1>3 DEF InkPost, g, h

LEMMA InkDroppedEnding ==
    ASSUME NEW f \in Frame, Ending(f)
    PROVE  Ending(InkDropped(f))
<1> DEFINE part == f.inkPart + 1
           g == [f EXCEPT !.inkPart = part, !.inkAck = FALSE]
           h == [f EXCEPT !.inkBusy = FALSE]
<1>1. ASSUME part < Strips
      PROVE  Ending(AddDelayedCall(g, "InkNext", 1))
  <2>1. f.inkPart \in 0..(Strips - 1)
    BY DEF Frame
  <2>2. part \in 0..(Strips - 1)
    BY <1>1, <2>1, RadioAssumption
  <2> HIDE DEF part
  <2>3. g \in Frame /\ Still(g, f) /\ g.calls = f.calls
    BY <2>2 DEF Frame, Still
  <2> HIDE DEF g
  <2>4. Ending(g)
    BY <2>3, StillQuiet, QuietEnding
  <2>5. Quiet(AddDelayedCall(g, "InkNext", 1), g)
    BY <2>3, AddQuiet DEF Delayed
  <2> QED BY <2>4, <2>5, QuietEnding
<1>2. /\ h \in Frame /\ h.calls = f.calls /\ h.radioHeld = f.radioHeld /\ h.ep = f.ep
      /\ h.ready = f.ready /\ h.inFlight = f.inFlight /\ h.inkBusy = FALSE
  BY DEF Frame
<1> HIDE DEF g, h
<1>3. Calm(h) /\ Talks(h)
  BY <1>2, NotBusyCalm DEF Ending, Calm
<1>4. Ending(InkDone(h))
  BY <1>2, <1>3, InkDoneEnding
<1> QED BY <1>1, <1>4 DEF InkDropped, g, h

LEMMA InkNextEnding ==
    ASSUME NEW f \in Frame, Ending(f), NEW encoded \in BOOLEAN
    PROVE  Ending(InkNext(f, encoded))
<1> DEFINE g == [f EXCEPT !.ep["ink"] = "none"]
           h == [g EXCEPT !.inkBody = encoded]
<1>1. g \in Frame /\ Quiet(g, f)
  BY EpQuiet DEF Endpoints, Stages
<1> HIDE DEF g
<1>2. h \in Frame /\ Quiet(h, g)
  BY <1>1, InkBodyQuiet
<1> HIDE DEF h
<1>3. Ending(g)
  BY <1>1, QuietEnding
<1>4. Ending(h)
  BY <1>2, <1>3, QuietEnding
<1>5. Ending(InkOpen(h))
  BY <1>2, <1>4, InkOpenQuiet, QuietEnding
<1>6. Ending(InkFailed(h))
  BY <1>2, <1>4, InkFailedEnding DEF Ending
<1> QED BY <1>5, <1>6 DEF InkNext, g, h

LEMMA SendInkEnding ==
    ASSUME NEW f, NEW p, Keeps(f, p), f.asks < MaxWork, MayArm(f)
    PROVE  Ending(SendInk(f))
<1> DEFINE r == RadioHold(f)
           asks == r.asks + 1
           n == [r EXCEPT !.asks = asks]
           n1 == [n EXCEPT !.inkPart = 0]
           n2 == [n1 EXCEPT !.inkAck = FALSE, !.inkBody = TRUE]
           n3 == [n2 EXCEPT !.inkBusy = TRUE, !.inkBindRetried = FALSE]
           g == ArmInkWatch(n3)
<1>1. f \in Frame /\ Keeps(r, p) /\ r.asks = f.asks
  BY RadioHoldKeeps, KeepsFrame
<1>2. /\ r \in Frame
      /\ Still(r, [f EXCEPT !.radioHeld = TRUE, !.stopping = FALSE])
      /\ r.ep = f.ep
      /\ StopsSoon(f) => StopsSoon(r)
      /\ TimerBehindStop(r)
  BY <1>1, RadioHoldPosts
<1>3. asks \in 0..MaxWork
  <2>1. r.asks \in 0..MaxWork
    BY <1>2 DEF Frame
  <2> QED BY <1>1, <2>1, RadioAssumption
<1>4. Talks(r)
  BY <1>1, <1>2 DEF MayArm, Talks, Still, Frame
<1>5. SendInk(f) = IF g.link THEN InkOpen(g) ELSE InetGrabLink(g, "ink")
  BY DEF SendInk
<1> HIDE DEF r, asks
<1>7. n \in Frame /\ n.calls = r.calls /\ Still(n, r)
  BY <1>2, <1>3 DEF Frame, Still
<1> HIDE DEF n
<1>8. n1 \in Frame /\ n1.calls = n.calls /\ Still(n1, n)
  <2>1. 0 \in 0..(Strips - 1)
    BY RadioAssumption
  <2>2. n1 \in Frame
    BY <1>7, <2>1, Zenon DEF Frame
  <2> QED BY <1>7, <2>2 DEF Frame, Still
<1> HIDE DEF n1
<1>9. n2 \in Frame /\ n2.calls = n1.calls /\ Still(n2, n1)
  BY <1>8 DEF Frame, Still
<1> HIDE DEF n2
<1>10. /\ n3 \in Frame /\ n3.calls = n2.calls /\ n3.inkBusy = TRUE
       /\ n3.ep = n2.ep /\ n3.ready = n2.ready /\ n3.inFlight = n2.inFlight
       /\ n3.radioHeld = n2.radioHeld
  BY <1>9 DEF Frame
<1> HIDE DEF n3
<1>11. /\ n3.calls = r.calls /\ n3.ep["chat"] = r.ep["chat"] /\ n3.ready = r.ready
       /\ n3.inFlight = r.inFlight /\ n3.radioHeld = r.radioHeld
  BY <1>7, <1>8, <1>9, <1>10 DEF Still
<1>12. StopsSoon(n3) /\ TimerBehindStop(n3)
  BY <1>2, <1>11, SamePosts DEF MayArm
<1>13. Talks(n3) /\ Awaits(n3)
  BY <1>4, <1>10, <1>11 DEF Talks, Awaits, Expires
<1>14. Ending(g) /\ g \in Frame
  BY <1>10, <1>12, <1>13, ArmInkWatchEnding
<1> HIDE DEF g
<1>15. Ending(InetGrabLink(g, "ink"))
  BY <1>14, InetGrabLinkQuiet, QuietEnding
<1>16. Ending(InkOpen(g))
  BY <1>14, InkOpenQuiet, QuietEnding
<1> QED BY <1>5, <1>15, <1>16

-----------------------------------------------------------------------------
(* The idle timer, and what the ROM does before it calls a method.         *)

LEMMA RadioExpiredEnding ==
    ASSUME NEW f, NEW p, Keeps(f, p), Calm(f), Talks(f), NEW current,
           ~current => Ending(f)
    PROVE  Ending(RadioExpired(f, current))
<1> DEFINE g == [f EXCEPT !.radioHeld = FALSE, !.toolStopping = TRUE]
           h == ToolStop(g)
           again == AddDelayedCall(f, "RadioExpired", 1)
           q == [asks |-> f.asks, open |-> f.open, radioHeld |-> FALSE,
                 toolWatching |-> f.toolWatching, calls |-> f.calls]
<1>1. f \in Frame /\ Keeps(h, q)
  BY KeepsFrame, SwitchOffKeeps
<1>2. /\ g \in Frame /\ g.calls = f.calls /\ g.inkBusy = f.inkBusy /\ g.ep = f.ep
      /\ g.radioHeld = FALSE /\ g.ready = f.ready /\ g.inFlight = f.inFlight
  BY <1>1 DEF Frame
<1> HIDE DEF g
<1>3. Quiet(h, g)
  BY <1>2, ToolStopQuiet
<1> HIDE DEF h, q
<1>4. Calm(g)
  <2>1. StopsSoon(g) /\ NoteWatched(g)
    BY <1>2, SameCalm DEF Calm
  <2>2. TimerBehindStop(g)
    BY <1>2 DEF TimerBehindStop
  <2> QED BY <2>1, <2>2 DEF Calm
<1>5. Calm(h) /\ h.radioHeld = FALSE
  BY <1>2, <1>3, <1>4, QuietEnding DEF Quiet, Still
<1>6. Ending(Stop(h))
  BY <1>1, <1>5, StopEnding
<1>7. Ending(again)
  <2>1. Quiet(again, f) /\ Posted(again, "RadioExpired")
    BY <1>1, AddQuiet DEF Delayed
  <2> HIDE DEF again
  <2>2. Calm(again) /\ Talks(again)
    BY <2>1, QuietEnding
  <2> QED BY <2>1, <2>2 DEF Ending, Awaits, Expires
<1>8. f.toolID \in Requests \union {0, HeartBeat}
  BY <1>1 DEF Frame, Ids
<1>9. ~f.radioHeld \/ f.inFlight \/ f.inkBusy \/ f.toolID \in Requests => Ending(f)
  BY DEF Ending, Awaits, Expires, Dials
<1>10. RadioExpired(f, current) =
          IF ~current \/ ~f.radioHeld \/ f.inFlight \/ f.inkBusy THEN f
          ELSE IF f.toolID = HeartBeat THEN again
          ELSE IF f.toolID # 0 THEN f
          ELSE Stop(h)
  BY DEF RadioExpired, again, g, h
<1> HIDE DEF again
<1> QED BY <1>6, <1>7, <1>8, <1>9, <1>10

\* A due call is taken out.  No Stop stands before an idle timer that is due, so
\* a Stop that is left keeps the timer behind it.
LEMMA WithoutCall ==
    ASSUME app \in Frame, NEW i \in DOMAIN app.calls, Due(i)
    PROVE  LET w == Without(i) IN
           /\ w \in Frame /\ Still(w, app) /\ w.ep = app.ep
           /\ \A r : Posted(app, r) /\ (r # app.calls[i].run \/ ~Current(i)) => Posted(w, r)
           /\ StopsSoon(app) => StopsSoon(w)
           /\ StopsSoon(app) /\ TimerBehindStop(app) => TimerBehindStop(w)
<1> DEFINE s == app.calls
           q == RemoveAt(s, i)
           from == Stood(Len(s), i)
           w == [app EXCEPT !.calls = q]
<1>1. s \in Seq(Call) /\ DOMAIN s = 1..Len(s) /\ Len(s) \in Nat
  BY DEF Frame
<1>2. s[i] \in Call /\ \A j \in 1..(i - 1) : s[j].after > s[i].after
  BY <1>1 DEF Due
<1>3. /\ q \in Seq(Call)
      /\ \A j \in DOMAIN q : from[j] \in DOMAIN s \ {i} /\ q[j] = s[from[j]]
      /\ \A j, k \in DOMAIN q : from[j] < from[k] => j < k
      /\ \A k \in DOMAIN s \ {i} : \E j \in DOMAIN q : from[j] = k
  <2>1. i \in DOMAIN s
    BY DEF s
  <2> HIDE DEF s
  <2> QED BY <1>1, <2>1, Removal
<1>4. Without(i) = w
  BY DEF Without
<1> HIDE DEF q, from
<1>5. w \in Frame
  BY <1>3 DEF Frame
<1>6. Still(w, app) /\ w.ep = app.ep /\ w.calls = q /\ w.radioHeld = app.radioHeld
  BY DEF Frame, Still
<1> HIDE DEF w
<1>7. \A r : Posted(app, r) /\ (r # s[i].run \/ ~s[i].current) => Posted(w, r)
  BY <1>3, <1>6 DEF Posted
<1>8. StopsSoon(app) => StopsSoon(w)
  BY <1>3, <1>6 DEF StopsSoon
<1>9. ASSUME StopsSoon(app), TimerBehindStop(app)
      PROVE  TimerBehindStop(w)
  <2> SUFFICES ASSUME NEW k \in DOMAIN q,
                      app.radioHeld, q[k].run = "Stop", q[k].current
               PROVE  \E j \in DOMAIN q : j > k /\ q[j].run = "RadioExpired" /\ q[j].current
    BY <1>6 DEF TimerBehindStop
  <2>1. /\ from[k] \in DOMAIN s /\ from[k] # i
        /\ s[from[k]].run = "Stop" /\ s[from[k]].current
    BY <1>3
  <2>2. s[from[k]].after = 1
    BY <1>9, <2>1 DEF StopsSoon
  <2>3. PICK j \in DOMAIN s : j > from[k] /\ s[j].run = "RadioExpired" /\ s[j].current
    BY <1>9, <2>1 DEF TimerBehindStop
  <2>4. j # i
    <3>1. s[i].after \in {1, 4, 5, 12, 150}
      BY <1>2 DEF Call
    <3>2. SUFFICES ASSUME j = i
                   PROVE  FALSE
      OBVIOUS
    <3>3. from[k] \in 1..(i - 1)
      BY <1>1, <2>1, <2>3, <3>2
    <3>4. 1 > s[i].after
      BY <1>2, <2>2, <3>3
    <3> QED BY <3>1, <3>4
  <2>5. PICK m \in DOMAIN q : from[m] = j
    BY <1>3, <2>4
  <2>6. q[m] = s[j] /\ k < m
    BY <1>3, <2>3, <2>5
  <2>7. k \in Int /\ m \in Int
    BY <1>3
  <2> QED BY <2>3, <2>6, <2>7
<1> QED BY <1>4, <1>5, <1>6, <1>7, <1>8, <1>9 DEF Current

\* The ROM closes the chat endpoint, or its binding failed.
LEMMA ChatLostEnding ==
    ASSUME NEW p, Keeps(app, p), Ending(app), app.ep["chat"] # "none",
           NEW s \in {"closed", "unbound"}, NEW g, g = ChatAt(app, s)
    PROVE  /\ g \in Frame /\ Calm(g) /\ MayArm(g) /\ ~g.stopping /\ g.ep["chat"] = s
           /\ app.ep["chat"] \in {"connecting", "hello"} /\ ~g.handshakeActive => Ending(g)
<1>1. app \in Frame /\ ~app.stopping
  BY KeepsFrame DEF Keeps, Sound, Loose
<1>2. g \in Frame
  BY <1>1, ChatFrame DEF Stages
<1>3. /\ g.ep["chat"] = s /\ g.calls = app.calls
      /\ g.radioHeld = app.radioHeld /\ g.lost = app.lost
      /\ g.inFlight = app.inFlight
      /\ g.handshakeActive = app.handshakeActive /\ g.stopping = app.stopping
      /\ g.inkBusy = app.inkBusy /\ g.toolID = app.toolID
  BY <1>1, ChatStage
<1>4. Calm(g) /\ (\A r : Posted(g, r) <=> Posted(app, r))
  BY <1>3, SameCalm DEF Ending
<1>5. Talks(g)
  BY <1>3 DEF Talks
<1>6. ASSUME app.ep["chat"] \in {"connecting", "hello"}, ~g.handshakeActive
      PROVE  Ending(g)
  <2>1. Dials(app) => Dials(g)
    BY <1>3, <1>6 DEF Dials
  <2>2. Expires(app) => Expires(g)
    BY <1>3, <1>4 DEF Expires
  <2> QED BY <1>3, <1>4, <1>5, <2>1, <2>2 DEF Ending, Awaits
<1> QED BY <1>1, <1>2, <1>3, <1>4, <1>5, <1>6, CalmMayArm

\* Another endpoint of the ROM.
LEMMA OtherLostQuiet ==
    ASSUME app \in Frame, NEW e \in Endpoints \ {"chat"}
    PROVE  /\ Quiet(Closed(e), app) /\ Closed(e) \in Frame
           /\ Quiet(Unbound(e), app) /\ Unbound(e) \in Frame
  BY EpQuiet DEF Closed, Unbound, Stages

LEMMA AnsweredFrame ==
    ASSUME app \in Frame, NEW who \in Grabbers, NEW ok \in BOOLEAN, app.grabs[who] > 0
    PROVE  LET f == Answered(who, ok) IN
           /\ f \in Frame
           /\ who # "chat" => Quiet(f, app)
           /\ f.calls = app.calls /\ f.radioHeld = app.radioHeld /\ f.lost = app.lost
           /\ f.ready = app.ready /\ f.inFlight = app.inFlight
           /\ f.handshakeActive = app.handshakeActive /\ f.stopping = app.stopping
           /\ f.inkBusy = app.inkBusy /\ f.toolID = app.toolID /\ f.ep = app.ep
<1> DEFINE k == [app.grabs EXCEPT ![who] = @ - 1]
           n == IF ok THEN app.held + 1 ELSE app.held
           f == [app EXCEPT !.grabs = k, !.held = n]
<1>1. app.grabs[who] \in Nat /\ app.grabs \in [Grabbers -> Nat]
  BY DEF Frame
<1>2. k \in [Grabbers -> Nat] /\ (who # "chat" => k["chat"] = app.grabs["chat"])
  <2>1. app.grabs[who] - 1 \in Nat
    BY <1>1
  <2> QED BY <1>1, <2>1 DEF Grabbers
<1>3. n \in Nat
  BY DEF Frame
<1>4. Answered(who, ok) = f
  BY DEF Answered
<1> HIDE DEF k, n
<1>5. f \in Frame
  BY <1>2, <1>3 DEF Frame
<1>6. /\ f.calls = app.calls /\ f.radioHeld = app.radioHeld /\ f.lost = app.lost
      /\ f.ready = app.ready /\ f.inFlight = app.inFlight
      /\ f.handshakeActive = app.handshakeActive /\ f.stopping = app.stopping
      /\ f.inkBusy = app.inkBusy /\ f.toolID = app.toolID /\ f.ep = app.ep
      /\ f.grabs = k
  BY DEF Frame
<1> HIDE DEF f
<1>7. who # "chat" => Quiet(f, app)
  <2>1. who # "chat" => Still(f, app)
    BY <1>2, <1>6 DEF Still
  <2> QED BY <1>6, <2>1, StillQuiet
<1> QED BY <1>4, <1>5, <1>6, <1>7

-----------------------------------------------------------------------------
(* The actions again, and the theorem.                                     *)

LEMMA TapsEnding ==
    ASSUME IInv, Ending(app), Taps, app'.open
    PROVE  Ending(app')
<1> DEFINE g == [app EXCEPT !.pending = TRUE]
<1>1. app \in Frame /\ Keeps(app, app) /\ MayArm(app)
  BY EndingMayArm DEF IInv, Sound, Loose, Keeps, Follows
<1>2. Keeps(g, app) /\ StopsSoon(g) /\ NoteWatched(g)
  <2>1. /\ g \in Frame /\ Alike(g, app) /\ g.ep = app.ep /\ g.stopping = app.stopping
        /\ g.calls = app.calls /\ g.inkBusy = app.inkBusy
    BY <1>1 DEF Frame, Alike, Kept
  <2> HIDE DEF g
  <2> QED BY <1>1, <2>1, AlikeKeeps, SameCalm DEF MayArm
<1>3. Ending(Connect(g))
  BY <1>2, ConnectEnding
<1>4. app.ready => Ending(Send(app))
  BY <1>1, SendEnding DEF MayArm, Talks
<1>5. CASE TapSend
  BY <1>3, <1>4, <1>5 DEF TapSend
<1>6. CASE TapNew
  BY <1>3, <1>4, <1>6 DEF TapNew
<1>7. CASE TapTooLong
  BY <1>1, <1>7, ArmsEnding DEF TapTooLong
<1>8. CASE TapAsk
  <2>1. app.asks \in 0..MaxWork /\ MaxWork \in Nat /\ app.asks + left.work <= MaxWork
    BY <1>1, RadioAssumption DEF IInv, Frame, Counted
  <2>2. left.work > 0 /\ left.work \in 0..MaxWork
    BY <1>8 DEF IInv, TapAsk, Spend, Counted
  <2>3. app.asks < MaxWork
    BY <2>1, <2>2
  <2> QED BY <1>1, <1>8, <2>3, SendInkEnding DEF TapAsk
<1>9. CASE CloseWindow
  <2>1. ~app'.open
    BY <1>1, <1>9, ViewQuitScriptSound DEF CloseWindow
  <2> QED BY <2>1
<1> QED BY <1>5, <1>6, <1>7, <1>8, <1>9 DEF Taps

LEMMA ToolGrabbedQuiet ==
    ASSUME NEW f, NEW p, Keeps(f, p), NEW ok \in BOOLEAN
    PROVE  Quiet(ToolGrabbed(f, ok), f)
<1> DEFINE g == [f EXCEPT !.link = TRUE]
<1>1. f \in Frame
  BY KeepsFrame
<1>2. g \in Frame /\ Quiet(g, f)
  BY <1>1, LinkQuiet
<1> HIDE DEF g
<1>3. Quiet(ToolOpen(g), g)
  BY <1>2, ToolOpenQuiet
<1>4. Quiet(ToolOpen(g), f)
  BY <1>2, <1>3, QuietOften
<1>5. Quiet(ToolRetry(f), f) /\ Quiet(f, f)
  BY ToolRetryQuiet, QuietSelf DEF Keeps, Sound
<1> QED BY <1>4, <1>5 DEF ToolGrabbed, g

LEMMA GrabsEnding ==
    ASSUME IInv, Ending(app), Grabs
    PROVE  Ending(app')
<1>1. app \in Frame /\ Keeps(app, app)
  BY DEF IInv, Sound, Loose, Keeps, Follows
<1>2. CASE ChatGrab
  <2>1. PICK ok \in BOOLEAN : app' = Grabbed(Answered("chat", ok), ok)
    BY <1>2 DEF ChatGrab, GrabReports
  <2> DEFINE f == Answered("chat", ok)
  <2>2. /\ f \in Frame
        /\ f.calls = app.calls /\ f.radioHeld = app.radioHeld /\ f.lost = app.lost
        /\ f.ready = app.ready /\ f.inFlight = app.inFlight
        /\ f.handshakeActive = app.handshakeActive /\ f.stopping = app.stopping
        /\ f.inkBusy = app.inkBusy /\ f.toolID = app.toolID /\ f.ep = app.ep
    BY <1>1, <1>2, AnsweredFrame DEF ChatGrab, GrabReports, Grabbers
  <2> HIDE DEF f
  <2>3. Calm(f) /\ (\A r : Posted(f, r) <=> Posted(app, r))
    BY <2>2, SameCalm DEF Ending
  <2>4. Talks(f)
    BY <2>2 DEF Ending, Talks
  <2>5. ASSUME f.stopping \/ f.ep["chat"] # "none"
        PROVE  Ending(f)
    <3>1. Dials(app) => Dials(f)
      BY <2>2, <2>3, <2>5 DEF Dials
    <3>2. Expires(app) => Expires(f)
      BY <2>2, <2>3 DEF Expires
    <3> QED BY <2>2, <2>3, <2>4, <3>1, <3>2 DEF Ending, Awaits
  <2>6. Ending(Grabbed(f, ok))
    BY <2>2, <2>3, <2>4, <2>5, GrabbedEnding
  <2> QED BY <2>1, <2>6 DEF f
<1>3. CASE InkGrab
  <2>1. PICK ok \in BOOLEAN : app' = InkGrabbed(Answered("ink", ok), ok)
    BY <1>3 DEF InkGrab, GrabReports
  <2>2. Answered("ink", ok) \in Frame /\ Quiet(Answered("ink", ok), app)
    BY <1>1, <1>3, AnsweredFrame DEF InkGrab, GrabReports, Grabbers
  <2>3. Ending(Answered("ink", ok))
    BY <2>2, QuietEnding
  <2> QED BY <2>1, <2>2, <2>3, InkGrabbedEnding
<1>4. CASE ToolGrab
  <2>1. PICK ok \in BOOLEAN : app' = ToolGrabbed(Answered("tool", ok), ok)
    BY <1>4 DEF ToolGrab, GrabReports
  <2>2. Quiet(Answered("tool", ok), app) /\ Keeps(Answered("tool", ok), app)
    BY <1>1, <1>4, AnsweredFrame, AnsweredKeeps DEF ToolGrab, GrabReports, Grabbers
  <2>3. Ending(Answered("tool", ok))
    BY <2>2, QuietEnding
  <2>4. Ending(ToolGrabbed(Answered("tool", ok), ok))
    BY <2>2, <2>3, ToolGrabbedQuiet, QuietEnding
  <2> QED BY <2>1, <2>4
<1> QED BY <1>2, <1>3, <1>4 DEF Grabs

LEMMA ChatStepsEnding ==
    ASSUME IInv, Ending(app), ChatSteps
    PROVE  Ending(app')
<1>1. app \in Frame /\ Keeps(app, app) /\ MayArm(app) /\ Calm(app)
  BY EndingMayArm DEF IInv, Sound, Loose, Keeps, Follows, Ending
<1> DEFINE closed == Closed("chat")
           unbound == Unbound("chat")
<1>2. closed = ChatAt(app, "closed") /\ unbound = ChatAt(app, "unbound")
  BY DEF Closed, Unbound, ChatAt
<1>3. app.ep["chat"] # "none" =>
         /\ closed \in Frame /\ MayArm(closed) /\ ~closed.stopping
         /\ app.ep["chat"] \in {"connecting", "hello"} /\ ~closed.handshakeActive =>
               Ending(closed)
         /\ Keeps(closed, app)
  BY <1>1, <1>2, ChatLostEnding, ClosedKeeps DEF Endpoints
<1>4. app.ep["chat"] # "none" =>
         /\ unbound \in Frame /\ Calm(unbound) /\ MayArm(unbound) /\ ~unbound.stopping
         /\ unbound.ep["chat"] = "unbound"
  BY <1>1, <1>2, ChatLostEnding
<1>5. CASE ChatBind
  <2>1. app.ep["chat"] = "binding"
    BY <1>5 DEF ChatBind
  <2>2. Ending(Bound(app))
    BY <1>1, <2>1, BoundEnding
  <2>3. Ending(BindFailed(unbound))
    BY <1>4, <2>1, BindFailedEnding
  <2>4. Ending(Failed(unbound))
    BY <1>4, <2>1, FailedEnding
  <2> QED BY <1>5, <2>2, <2>3, <2>4 DEF ChatBind
<1>6. CASE ChatConnect
  <2>1. app.ep["chat"] = "connecting"
    BY <1>6 DEF ChatConnect
  <2>2. Ending(Connected(app))
    BY <1>1, <2>1, ConnectedEnding
  <2>3. Ending(HandshakeFailed(closed))
    BY <1>3, <2>1, HandshakeFailedEnding
  <2> QED BY <1>6, <2>2, <2>3 DEF ChatConnect
<1>7. CASE ChatHello
  <2>1. app.ep["chat"] = "hello"
    BY <1>7 DEF ChatHello
  <2>2. Ending(HearReady(app))
    BY <1>1, <2>1, HearReadyEnding
  <2>3. Ending(HandshakeFailed(closed))
    BY <1>3, <2>1, HandshakeFailedEnding
  <2> QED BY <1>7, <2>2, <2>3 DEF ChatHello
<1>8. CASE ChatTurnEnds
  BY <1>1, <1>8, HearTurnEndEnding DEF ChatTurnEnds
<1>9. CASE ChatReadyAgain
  BY <1>1, <1>9, HearReadyEnding DEF ChatReadyAgain
<1>10. CASE ChatOutputFails
  <2>1. app.ep["chat"] = "open"
    BY <1>10 DEF ChatOutputFails
  <2>2. Ending(Failed(closed))
    BY <1>3, <2>1, FailedEnding
  <2> QED BY <1>10, <2>2 DEF ChatOutputFails
<1>11. CASE ChatDrops
  <2>1. app.ep["chat"] # "none"
    BY <1>11 DEF ChatDrops
  <2>2. Ending(Dropped(closed))
    BY <1>3, <2>1, DroppedEnding
  <2> QED BY <1>11, <2>2 DEF ChatDrops
<1> QED BY <1>5, <1>6, <1>7, <1>8, <1>9, <1>10, <1>11 DEF ChatSteps

LEMMA InkStepsEnding ==
    ASSUME IInv, Ending(app), InkSteps
    PROVE  Ending(app')
<1>1. app \in Frame
  BY DEF IInv, Sound, Loose
<1>2. /\ Ending(Closed("ink")) /\ Closed("ink") \in Frame
      /\ Ending(Unbound("ink")) /\ Unbound("ink") \in Frame
  BY <1>1, OtherLostQuiet, QuietEnding DEF Endpoints
<1>3. Ending(InkFailed(Closed("ink"))) /\ Ending(InkFailed(Unbound("ink")))
  BY <1>2, InkFailedEnding DEF Ending
<1>4. Ending(InkBindFailed(Unbound("ink"))) /\ Ending(InkDropped(Closed("ink")))
  BY <1>2, InkBindFailedEnding, InkDroppedEnding
<1>5. Ending(InkBound(app)) /\ Ending(InkPost(app))
  BY <1>1, InkBoundQuiet, InkPostQuiet, QuietEnding
<1>6. Ending(ArmInkWatch(app))
  BY <1>1, ArmInkWatchEnding DEF Ending, Calm
<1>7. Ending(ArmInkWatch([app EXCEPT !.inkAck = TRUE]))
  <2> DEFINE g == [app EXCEPT !.inkAck = TRUE]
  <2>1. g \in Frame /\ Still(g, app) /\ g.calls = app.calls
    BY <1>1 DEF Frame, Still
  <2> HIDE DEF g
  <2>2. Ending(g)
    BY <2>1, StillQuiet, QuietEnding
  <2>3. Ending(ArmInkWatch(g))
    BY <2>1, <2>2, ArmInkWatchEnding DEF Ending, Calm
  <2> QED BY <2>3 DEF g
<1>8. CASE InkBind
  BY <1>3, <1>4, <1>5, <1>8 DEF InkBind
<1>9. CASE InkConnect
  BY <1>3, <1>5, <1>9 DEF InkConnect
<1>10. CASE InkOutputFails
  BY <1>3, <1>10 DEF InkOutputFails
<1>11. CASE InkStatus
  BY <1>6, <1>11 DEF InkStatus
<1>12. CASE InkAcknowledged
  BY <1>7, <1>12 DEF InkAcknowledged
<1>13. CASE InkCloses
  BY <1>4, <1>13 DEF InkCloses
<1>14. CASE InkDrops
  BY <1>4, <1>14 DEF InkDrops
<1> QED BY <1>8, <1>9, <1>10, <1>11, <1>12, <1>13, <1>14 DEF InkSteps

LEMMA ToolStepsEnding ==
    ASSUME IInv, Ending(app), ToolSteps
    PROVE  Ending(app')
<1>1. app \in Frame /\ Keeps(app, app)
  BY DEF IInv, Sound, Loose, Keeps, Follows
<1>2. CASE ToolBind
  <2>1. Ending(ToolBound(app)) /\ Ending(ToolBindFailed(app))
    BY <1>1, ToolBoundQuiet, ToolBindFailedQuiet, QuietEnding
  <2> QED BY <1>2, <2>1 DEF ToolBind
<1>3. CASE ToolConnect
  <2>1. Ending(ToolConnected(app))
    BY <1>1, ToolConnectedQuiet, QuietEnding
  <2> QED BY <1>3, <2>1 DEF ToolConnect
<1>4. CASE ToolPing
  <2> DEFINE lost == app.lost \/ app.toolID \in Requests
             g == [app EXCEPT !.lost = lost]
  <2>1. lost \in BOOLEAN
    OBVIOUS
  <2>2. lost \/ app.toolID \notin Requests
    OBVIOUS
  <2>3. ~lost => ~app.lost
    OBVIOUS
  <2>4. app' = ToolDispatch(g, HeartBeat, FALSE)
    BY <1>4 DEF ToolPing
  <2> HIDE DEF lost
  <2>5. /\ g \in Frame /\ Alike(g, app) /\ g.ep = app.ep /\ g.stopping = app.stopping
        /\ g.calls = app.calls /\ g.inkBusy = app.inkBusy /\ g.radioHeld = app.radioHeld
        /\ g.ready = app.ready /\ g.inFlight = app.inFlight /\ g.toolID = app.toolID
        /\ g.handshakeActive = app.handshakeActive /\ g.grabs = app.grabs
        /\ g.lost = lost
    BY <1>1, <2>1 DEF Frame, Alike, Kept
  <2> HIDE DEF g
  <2>6. Keeps(g, app)
    BY <1>1, <2>5, AlikeKeeps
  <2>7. Calm(g) /\ (\A r : Posted(g, r) <=> Posted(app, r))
    BY <2>5, SameCalm DEF Ending
  <2>8. Talks(g)
    BY <2>5 DEF Ending, Talks
  <2>9. Awaits(g)
    <3>1. Expires(app) => Expires(g)
      BY <2>5, <2>7 DEF Expires
    <3>2. Dials(app) => Dials(g)
      BY <2>5, <2>7 DEF Dials
    <3> QED BY <2>3, <2>5, <3>1, <3>2 DEF Ending, Awaits
  <2>10. Ending(g)
    BY <2>7, <2>8, <2>9 DEF Ending
  <2>11. g.lost \/ g.toolID \notin Requests
    BY <2>2, <2>5
  <2>12. Ending(ToolDispatch(g, HeartBeat, FALSE))
    BY <2>6, <2>10, <2>11, ToolDispatchEnding
  <2> QED BY <2>4, <2>12
<1>5. CASE ToolRequest
  <2>1. HeartBeat \notin Requests
    BY RadioAssumption DEF Requests
  <2>2. \A id \in Requests, install \in BOOLEAN : Ending(ToolDispatch(app, id, install))
    BY <1>1, <2>1, ToolDispatchEnding
  <2>3. PICK install \in BOOLEAN :
           \/ Spend("work") /\ app' = ToolDispatch(app, left.work, install)
           \/ app.toolID \in Requests /\ app' = ToolDispatch(app, app.toolID, install)
    BY <1>5 DEF ToolRequest
  <2>4. Spend("work") => left.work \in Requests
    BY RadioAssumption DEF IInv, Counted, Spend, Requests
  <2> QED BY <2>2, <2>3, <2>4
<1>6. CASE ToolAnswered
  BY <1>1, <1>6, ToolReplySentEnding DEF ToolAnswered
<1>7. CASE ToolDrops
  <2>1. Ending(ToolRetry(app))
    BY <1>1, ToolRetryQuiet, QuietEnding DEF Keeps, Sound
  <2> QED BY <1>7, <2>1 DEF ToolDrops
<1> QED BY <1>2, <1>3, <1>4, <1>5, <1>6, <1>7 DEF ToolSteps

LEMMA PkgStepsEnding ==
    ASSUME IInv, Ending(app), PkgSteps
    PROVE  Ending(app')
<1>1. app \in Frame /\ Keeps(app, app)
  BY DEF IInv, Sound, Loose, Keeps, Follows
<1>2. Ending(PkgBodyReceived(app)) /\ Ending(PkgFinish(app))
  BY <1>1, PkgBodyReceivedQuiet, PkgFinishQuiet, QuietEnding
<1> QED BY <1>2 DEF PkgSteps, PkgLoaded, PkgFails, PkgException

LEMMA WithoutEnding ==
    ASSUME IInv, Ending(app), NEW i \in DOMAIN app.calls, Due(i),
           NEW run, run = app.calls[i].run
    PROVE  LET w == Without(i) IN
           /\ w \in Frame /\ Sound(w) /\ (run # "ToolWatch" => Keeps(w, app))
           /\ Still(w, app) /\ StopsSoon(w) /\ TimerBehindStop(w) /\ Talks(w)
           /\ run # "InkExpired" \/ ~Current(i) \/ ~w.inkBusy => Calm(w)
           /\ run \notin {"RadioExpired", "InkExpired", "InkStop", "RetryBind",
                          "HandshakeExpired"} \/ ~Current(i) => Ending(w)
           /\ run \in {"RetryBind", "HandshakeExpired"} /\ w.stopping => Ending(w)
           /\ run = "HandshakeExpired" /\ ~w.handshakeActive => Ending(w)
           /\ run = "InkExpired" /\ ~w.inkBusy => Ending(w)
           /\ run = "Stop" /\ Current(i) /\ app.radioHeld => Posted(w, "RadioExpired")
<1> DEFINE w == Without(i)
<1>1. app \in Frame /\ Keeps(app, app)
  BY DEF IInv, Sound, Loose, Keeps, Follows
<1>2. Sound(w) /\ (run # "ToolWatch" => Keeps(w, app))
  BY <1>1, WithoutKeeps
<1>3. /\ w \in Frame /\ Still(w, app)
      /\ \A r : Posted(app, r) /\ (r # run \/ ~Current(i)) => Posted(w, r)
      /\ StopsSoon(w) /\ TimerBehindStop(w)
  BY <1>1, WithoutCall DEF Ending, Calm
<1>4. run = "Stop" /\ Current(i) /\ app.radioHeld => Posted(app, "RadioExpired")
  BY DEF Ending, Calm, TimerBehindStop, Posted, Current
<1> HIDE DEF w
<1>5. Talks(w)
  BY <1>3 DEF Ending, Talks, Still
<1>6. run # "InkExpired" \/ ~Current(i) \/ ~w.inkBusy => Calm(w)
  BY <1>3 DEF Ending, Calm, NoteWatched, Still
<1>7. run \notin {"RadioExpired", "InkStop"} \/ ~Current(i) =>
         (Expires(app) => Expires(w))
  BY <1>3 DEF Expires, Still
<1>8. run \notin {"RetryBind", "HandshakeExpired"} \/ ~Current(i) =>
         (Dials(app) => Dials(w))
  BY <1>3 DEF Dials, Still
<1>9. w.stopping => (Dials(app) => Dials(w))
  <2>1. app.stopping => app.ep["chat"] = "none"
    BY DEF IInv, Sound, Loose
  <2> QED BY <1>3, <2>1 DEF Dials, Still
<1>10. run = "HandshakeExpired" /\ ~w.handshakeActive => (Dials(app) => Dials(w))
  BY <1>3 DEF Dials, Still
<1>11. ASSUME Expires(app) => Expires(w), Dials(app) => Dials(w), Calm(w)
       PROVE  Ending(w)
  BY <1>3, <1>5, <1>11 DEF Ending, Awaits, Still
<1>12. run \notin {"RadioExpired", "InkExpired", "InkStop", "RetryBind",
                   "HandshakeExpired"} \/ ~Current(i) => Ending(w)
  BY <1>6, <1>7, <1>8, <1>11
<1>13. run \in {"RetryBind", "HandshakeExpired"} /\ w.stopping => Ending(w)
  BY <1>6, <1>7, <1>9, <1>11
<1>14. run = "HandshakeExpired" /\ ~w.handshakeActive => Ending(w)
  BY <1>6, <1>7, <1>10, <1>11
<1>15. run = "InkExpired" /\ ~w.inkBusy => Ending(w)
  BY <1>6, <1>7, <1>8, <1>11
<1>16. run = "Stop" /\ Current(i) /\ app.radioHeld => Posted(w, "RadioExpired")
  BY <1>3, <1>4
<1> QED BY <1>2, <1>3, <1>5, <1>6, <1>12, <1>13, <1>14, <1>15, <1>16 DEF w

LEMMA RunStopEnding ==
    ASSUME IInv, Ending(app), NEW i \in DOMAIN app.calls, RunStop(i)
    PROVE  Ending(app')
<1> DEFINE w == Without(i)
           late == w.lost \/ ~Current(i)
           g == [w EXCEPT !.lost = late]
<1>1. app.calls[i].run = "Stop" /\ Due(i) /\ app' = Stop(g)
  BY DEF RunStop, Fires
<1>2. /\ w \in Frame /\ Keeps(w, app) /\ Still(w, app) /\ Calm(w)
      /\ Current(i) /\ app.radioHeld => Posted(w, "RadioExpired")
  BY <1>1, WithoutEnding
<1>3. late \in BOOLEAN /\ (~late => Current(i))
  OBVIOUS
<1> HIDE DEF late, w
<1>4. /\ g \in Frame /\ Alike(g, w) /\ g.ep = w.ep /\ g.stopping = w.stopping
      /\ g.calls = w.calls /\ g.inkBusy = w.inkBusy /\ g.radioHeld = w.radioHeld
      /\ g.lost = late
  BY <1>2, <1>3 DEF Frame, Alike, Kept
<1> HIDE DEF g
<1>5. Keeps(g, app)
  BY <1>2, <1>4, AlikeKeeps
<1>6. Calm(g) /\ (Posted(w, "RadioExpired") => Posted(g, "RadioExpired"))
  BY <1>2, <1>4, SameCalm
<1>7. g.radioHeld /\ ~g.lost => Expires(g)
  BY <1>2, <1>3, <1>4, <1>6 DEF Expires, Still
<1> QED BY <1>1, <1>5, <1>6, <1>7, StopEnding

LEMMA DelayedEnding ==
    ASSUME IInv, Ending(app), NEW i \in DOMAIN app.calls, RunDelayed(i)
    PROVE  Ending(app')
<1> DEFINE w == Without(i)
           run == app.calls[i].run
<1>1. Due(i)
  BY DEF RunDelayed, RunHandshakeExpired, RunRadioExpired, RunStop, RunRetryBind,
         RunInkExpired, RunInkRebind, RunInkNext, RunInkStop, RunToolResume, RunToolWatch,
         RunPkgInstallNow, Fires
<1>2. /\ w \in Frame /\ Sound(w) /\ (run # "ToolWatch" => Keeps(w, app))
      /\ StopsSoon(w) /\ TimerBehindStop(w) /\ Talks(w)
      /\ run # "InkExpired" \/ ~Current(i) \/ ~w.inkBusy => Calm(w)
      /\ run \notin {"RadioExpired", "InkExpired", "InkStop", "RetryBind",
                     "HandshakeExpired"} \/ ~Current(i) => Ending(w)
      /\ run \in {"RetryBind", "HandshakeExpired"} /\ w.stopping => Ending(w)
      /\ run = "HandshakeExpired" /\ ~w.handshakeActive => Ending(w)
      /\ run = "InkExpired" /\ ~w.inkBusy => Ending(w)
  BY <1>1, WithoutEnding
<1> HIDE DEF w
<1>3. run # "InkExpired" => MayArm(w)
  BY <1>2, CalmMayArm
<1>4. CASE RunHandshakeExpired(i)
  <2>1. run = "HandshakeExpired" /\ app' = HandshakeExpired(w, Current(i))
    BY <1>4 DEF RunHandshakeExpired, Fires, w
  <2>2. w.handshakeActive => Ending(HandshakeFailed(w))
    BY <1>2, <1>3, <2>1, HandshakeFailedEnding
  <2> QED BY <1>2, <2>1, <2>2 DEF HandshakeExpired
<1>5. CASE RunRadioExpired(i)
  <2>1. run = "RadioExpired" /\ app' = RadioExpired(w, Current(i))
    BY <1>5 DEF RunRadioExpired, Fires, w
  <2> QED BY <1>2, <2>1, RadioExpiredEnding
<1>6. CASE RunStop(i)
  BY <1>6, RunStopEnding
<1>7. CASE RunRetryBind(i)
  <2>1. run = "RetryBind" /\ app' = RetryBind(w)
    BY <1>7 DEF RunRetryBind, Fires, w
  <2> QED BY <1>2, <2>1, RetryBindEnding
<1>8. CASE RunInkExpired(i)
  <2>1. run = "InkExpired" /\ app' = InkExpired(w, Current(i))
    BY <1>8 DEF RunInkExpired, Fires, w
  <2> QED BY <1>2, <2>1, InkExpiredEnding
<1>9. CASE RunInkRebind(i)
  <2>1. run = "InkRebind" /\ app' = InkRebind(w)
    BY <1>9 DEF RunInkRebind, Fires, w
  <2> QED BY <1>2, <2>1, InkRebindEnding
<1>10. CASE RunInkNext(i)
  <2>1. run = "InkNext"
    BY <1>10 DEF RunInkNext, Fires
  <2>2. PICK encoded \in BOOLEAN : app' = InkNext(w, encoded)
    BY <1>10 DEF RunInkNext, w
  <2> QED BY <1>2, <2>1, <2>2, InkNextEnding
<1>11. CASE RunInkStop(i)
  <2>1. run = "InkStop" /\ app' = InkStop(w)
    BY <1>11 DEF RunInkStop, Fires, w
  <2> QED BY <1>2, <1>3, <2>1, InkStopEnding
<1>12. CASE RunToolResume(i)
  <2>1. run = "ToolResume" /\ app' = ToolResume(w)
    BY <1>12 DEF RunToolResume, Fires, w
  <2> QED BY <1>2, <2>1, ToolResumeQuiet, QuietEnding
<1>13. CASE RunToolWatch(i)
  <2>1. run = "ToolWatch" /\ app' = ToolWatch(w)
    BY <1>13 DEF RunToolWatch, Fires, w
  <2> QED BY <1>2, <2>1, ToolWatchQuiet, QuietEnding
<1>14. CASE RunPkgInstallNow(i)
  <2>1. run = "PkgInstallNow" /\ app' = PkgFinish(w)
    BY <1>14 DEF RunPkgInstallNow, Fires, w
  <2> QED BY <1>2, <2>1, PkgFinishQuiet, QuietEnding
<1> QED BY <1>4, <1>5, <1>6, <1>7, <1>8, <1>9, <1>10, <1>11, <1>12, <1>13, <1>14
        DEF RunDelayed

Ends == app.open => Ending(app)

LEMMA EndsStep ==
    ASSUME IInv, Ends, [Next]_vars
    PROVE  Ends'
<1>1. ASSUME Ending(app'), app'.open
      PROVE  Ends'
  BY <1>1 DEF Ends, Ending, Calm, StopsSoon, TimerBehindStop, NoteWatched, Talks, Awaits,
              Expires, Dials, Posted
<1>2. ~app'.open => Ends'
  BY DEF Ends
<1>3. CASE Taps
  <2>1. app.open
    BY <1>3 DEF Taps, TapSend, TapNew, TapTooLong, TapAsk, CloseWindow
  <2> QED BY <1>1, <1>2, <1>3, <2>1, TapsEnding DEF Ends
<1>4. CASE Grabs
  <2>1. app.open
    BY <1>4 DEF Grabs, ChatGrab, InkGrab, ToolGrab, GrabReports
  <2> QED BY <1>1, <1>2, <1>4, <2>1, GrabsEnding DEF Ends
<1>5. CASE ChatSteps
  <2>1. app.open
    BY <1>5 DEF ChatSteps, ChatBind, ChatConnect, ChatHello, ChatTurnEnds, ChatReadyAgain,
                ChatOutputFails, ChatDrops
  <2> QED BY <1>1, <1>2, <1>5, <2>1, ChatStepsEnding DEF Ends
<1>6. CASE InkSteps
  <2>1. app.open
    BY <1>6 DEF InkSteps, InkBind, InkConnect, InkOutputFails, InkStatus, InkAcknowledged,
                InkCloses, InkDrops
  <2> QED BY <1>1, <1>2, <1>6, <2>1, InkStepsEnding DEF Ends
<1>7. CASE ToolSteps
  <2>1. app.open
    BY <1>7 DEF ToolSteps, ToolBind, ToolConnect, ToolPing, ToolRequest, ToolAnswered, ToolDrops
  <2> QED BY <1>1, <1>2, <1>7, <2>1, ToolStepsEnding DEF Ends
<1>8. CASE PkgSteps
  <2>1. app.open
    BY <1>8 DEF PkgSteps, PkgLoaded, PkgFails
  <2> QED BY <1>1, <1>2, <1>8, <2>1, PkgStepsEnding DEF Ends
<1>9. CASE \E i \in DOMAIN app.calls : RunDelayed(i)
  <2>1. PICK i \in DOMAIN app.calls : RunDelayed(i)
    BY <1>9
  <2>2. app.open
    BY <2>1 DEF RunDelayed, RunHandshakeExpired, RunRadioExpired, RunStop, RunRetryBind,
                RunInkExpired, RunInkRebind, RunInkNext, RunInkStop, RunToolResume,
                RunToolWatch, RunPkgInstallNow, Fires
  <2> QED BY <1>1, <1>2, <2>1, <2>2, DelayedEnding DEF Ends
<1>10. CASE UNCHANGED vars
  BY <1>10 DEF vars, Ends, Ending, Calm, StopsSoon, TimerBehindStop, NoteWatched, Talks,
               Awaits, Expires, Dials, Posted
<1> QED BY <1>3, <1>4, <1>5, <1>6, <1>7, <1>8, <1>9, <1>10 DEF Next

LEMMA AlwaysEnds == Spec => []Ends
<1>1. Init => Ends
  <2>1. Init => app.radioHeld = FALSE /\ app.ready = FALSE /\ app.inFlight = FALSE
                /\ app.inkBusy = FALSE /\ app.calls = << >>
    BY DEF Init
  <2>2. DOMAIN << >> = {}
    OBVIOUS
  <2> QED BY <2>1, <2>2 DEF Ends, Ending, Calm, StopsSoon, TimerBehindStop, NoteWatched,
                            Talks, Awaits
<1>2. IInv /\ Ends /\ [Next]_vars => Ends'
  BY EndsStep
<1> QED BY <1>1, <1>2, AlwaysIInv, PTL DEF Spec

\* While the radio is held, the idle timer runs or something is under way that
\* ends by starting it (Main.newt:2991).
THEOREM HeldRadioEnds == Spec => []HeldRadioWillExpire
<1>1. Ends => HeldRadioWillExpire
  BY DEF Ends, Ending, Calm, NoteWatched, Talks, Awaits, Expires, Dials, Posted,
         HeldRadioWillExpire, Queued
<1> QED BY <1>1, AlwaysEnds, PTL
=============================================================================
