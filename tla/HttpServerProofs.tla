-------------------------- MODULE HttpServerProofs --------------------------
(***************************************************************************)
(* What holds of the HTTP server for every pool of workers, every table,   *)
(* every bound of the buffers and every number of peers, whatever they     *)
(* send.                                                                   *)
(***************************************************************************)
EXTENDS HttpServer, SequenceTheorems, FiniteSetTheorems, WellFoundedInduction, TLAPS

-----------------------------------------------------------------------------
(* The inductive invariant *)

Conn == [who : Peers \cup {Nobody}, read : Nat, used : Nat, owed : Seq(Nat), closing : BOOLEAN,
         peerClosed : BOOLEAN, upgraded : BOOLEAN, aged : BOOLEAN]
Slot == [state : {"idle", "queued", "running", "done"}, who : Peers \cup {Nobody}, request : Nat,
         keep : BOOLEAN, to : {"worker", "main", "upgrade"}, trailing : Nat,
         answer : {"write", "upgraded"}, closeAfter : BOOLEAN, response : Nat]
PeerEnd == [script : Scripts, state : {"away", "waiting", "open", "reset", "ended"}, sent : Nat,
            shut : BOOLEAN, unread : 0..Window, got : Seq(Nat)]

ServerType == [signalled : BOOLEAN, draining : BOOLEAN, stopping : BOOLEAN,
               memory : {"held", "freed", "leaked"}]
QueuesType == [worker : Seq(Places), main : Seq(Places), work : Nat]
PassType == [at : {"rest", "accept", "turns", "push", "finished"}, place : Places \cup {0},
             left : 0..RequestBudget, draining : BOOLEAN]
WorkerType == [at : {"wait", "inside", "stuck", "gone"}, place : Places \cup {0}]
MainType == [at : {"idle", "pass", "drain", "serve", "flag", "sockets", "listener", "workers",
                   "down"}, place : Places \cup {0}, left : 0..RequestBudget, late : BOOLEAN]

Types ==
    /\ server \in ServerType /\ pool \in Pools /\ queues \in QueuesType
    /\ conn \in [Places -> Conn] /\ exchange \in [Places -> Slot] /\ peer \in [Peers -> PeerEnd]
    /\ pass \in PassType /\ worker \in [Workers -> WorkerType] /\ main \in MainType

\* Where the threads stand, and what a server without workers never does.
Control ==
    /\ pass.at \in {"turns", "push"} => pass.place \in Places
    /\ main.at \in {"serve", "flag"} => main.place \in Places
    /\ \A w \in Workers : worker[w].at \in {"inside", "stuck"} => worker[w].place \in Places
    /\ \A w \in Workers \ pool : worker[w].at = "gone"
    /\ Threaded => /\ main.at # "pass"
                   /\ main.at \in {"workers", "down"} => pass.at = "finished"
    /\ ~ Threaded => /\ main.at \in {"idle", "pass", "listener", "workers", "down"}
                     /\ main.at = "pass" <=> pass.at # "rest"
                     /\ pass.at \notin {"push", "finished"}
                     /\ queues.worker = <<>> /\ queues.main = <<>>
                     /\ \A i \in Places : exchange[i].state = "idle"
    /\ server.memory = "freed" => main.at = "down" /\ \A w \in pool : worker[w].at = "gone"

\* Where exchange i is, once it left the listener.
Moving(i) == pass.at = "push" /\ pass.place = i
Holds(q, i) == \E a \in DOMAIN q : q[a] = i
InWorkers(i) == Holds(queues.worker, i)
InMain(i) == Holds(queues.main, i)
Within(w, i) == worker[w].at \in {"inside", "stuck"} /\ worker[w].place = i

\* It is in one place only, and its state says in which kind.
PlaceOwned(i) ==
    /\ ~ (InWorkers(i) /\ InMain(i)) /\ ~ (Moving(i) /\ (InWorkers(i) \/ InMain(i)))
    /\ \A v, w \in Workers : Within(v, i) /\ Within(w, i) => v = w
    /\ \A w \in Workers : ~ (Within(w, i) /\ OnMain(i))
    /\ exchange[i].state = "queued" <=> Moving(i) \/ InWorkers(i) \/ InMain(i)
    /\ exchange[i].state = "running" <=> OnMain(i) \/ \E w \in Workers : Within(w, i)
    /\ exchange[i].state \in {"queued", "running"} => exchange[i].answer = "write"
    /\ InWorkers(i) \/ (\E w \in Workers : Within(w, i)) => exchange[i].to = "worker"

Once(q) == \A a, b \in DOMAIN q : q[a] = q[b] => a = b
Owned == Once(queues.worker) /\ Once(queues.main) /\ \A i \in Places : PlaceOwned(i)

\* The requests in a script, by the position of their last piece.
LastOf(script) == {k \in DOMAIN script : script[k] # Part}

\* AnswersInOrder, of a peer with this script that hears these answers.
Heard(script, answers) ==
    \A j \in 1..Len(answers) :
        IF answers[j] = Refusal THEN j = Len(answers)
        ELSE /\ answers[j] \in LastOf(script) /\ \A i \in 1..j - 1 : answers[i] # answers[j]
             /\ IF script[answers[j]].to = "upgrade" THEN Threaded => j = Len(answers)
                ELSE \A l \in LastOf(script) :
                         l < answers[j] => \E i \in 1..j - 1 : answers[i] = l

\* The slot holds a request whose answer has not been queued, and the first request
\* that was not: this one, or the first one unread.
Busy(s) == s.state # "idle" /\ s.answer = "write"
Edge(c, s) == IF Busy(s) THEN s.request ELSE c.used + 1

\* These answers are to every request below the edge, and none is to a handshake.
Told(script, answers, edge) ==
    /\ \A j \in 1..Len(answers) : /\ answers[j] \in LastOf(script) /\ answers[j] < edge
                                  /\ script[answers[j]].to # "upgrade"
    /\ \A l \in LastOf(script) : l < edge => \E j \in 1..Len(answers) : answers[j] = l

\* A connection's buffers are within their caps and hold what its peer sent.
Sound(c, p) ==
    /\ c.used <= c.read /\ c.read <= p.sent /\ c.read - c.used <= ReceiveCap
    /\ Len(c.owed) <= SendCap

\* A slot that is busy has the request its connection parsed last.
SlotFits(c, s, p) ==
    Busy(s) => /\ s.who = c.who /\ s.request = c.used /\ s.request \in LastOf(p.script)
               /\ s.to = p.script[s.request].to
               /\ s.state = "done" => s.response = s.request /\ (s.to = "upgrade" => s.closeAfter)

\* The tick wrote the 101 and has not flagged the connection yet.
Flagging(i) == main.at = "flag" /\ main.place = i

PlaceFits(i) ==
    LET c == conn[i]
        s == exchange[i]
        p == peer[c.who]
    IN  IF Free(i) THEN ~ Busy(s)
        ELSE /\ p.state \in {"open", "reset"} /\ Sound(c, p) /\ SlotFits(c, s, p)
             /\ c.upgraded => ~ Busy(s)
             /\ ~ c.upgraded /\ ~ Flagging(i) => /\ Told(p.script, p.got \o c.owed, Edge(c, s))
                                                 /\ Heard(p.script, p.got \o c.owed)

Tables ==
    /\ main.at # "down" => \A i \in Places : PlaceFits(i)
    /\ main.at = "down" => \A i \in Places : Free(i)
    /\ \A i \in Places : Free(i) => conn[i] = NoConnection
    /\ \A i, j \in Places : ~ Free(i) /\ conn[i].who = conn[j].who => i = j

PeersFit ==
    \A p \in Peers :
        /\ peer[p].sent <= Len(peer[p].script) /\ Heard(peer[p].script, peer[p].got)
        /\ peer[p].state \in {"away", "waiting"} => peer[p].sent = 0 /\ peer[p].got = <<>>

ServerInv == Types /\ Control /\ Owned /\ Tables /\ PeersFit

-----------------------------------------------------------------------------
(* The stream of answers *)

\* The constants, as the proofs use them.
LEMMA Constants ==
    /\ MaxConnections \in Nat \ {0} /\ RequestBudget \in Nat \ {0}
    /\ ReceiveCap \in Nat \ {0} /\ SendCap \in Nat \ {0} /\ Window \in Nat \ {0}
    /\ Nobody \notin Peers
    /\ \A script \in Scripts : script \in Seq(Pieces)
    /\ \A workers \in Pools : IsFiniteSet(workers)
    /\ NoConnection \in Conn /\ IdleSlot \in Slot /\ ~ Busy(IdleSlot)
    /\ NoConnection.who = Nobody
<1>1. NoConnection \in Conn /\ NoConnection.who = Nobody
  BY DEF NoConnection, Conn
<1>2. IdleSlot \in Slot /\ ~ Busy(IdleSlot)
  BY DEF IdleSlot, Slot, Refusal, Busy
<1> QED
  BY <1>1, <1>2, ServerAssumption

\* A request of a script is the position of one of its pieces.
LEMMA LastOfRange ==
    ASSUME NEW script \in Scripts
    PROVE  /\ Len(script) \in Nat /\ LastOf(script) \subseteq 1..Len(script)
           /\ \A k \in LastOf(script) : /\ script[k].to \in {"worker", "main", "upgrade", "nowhere"}
                                        /\ script[k].keep \in BOOLEAN
<1>1. script \in Seq(Pieces)
  BY Constants
<1>2. Len(script) \in Nat /\ DOMAIN script = 1..Len(script)
  BY <1>1, LenProperties
<1>3. \A k \in 1..Len(script) : script[k] \in Pieces
  BY <1>1, <1>2, ElementOfSeq
<1> QED
  BY <1>2, <1>3 DEF LastOf, Pieces

\* Moving a part of what is owed to what was heard leaves the stream as it was.
LEMMA StreamSplit ==
    ASSUME NEW g \in Seq(Nat), NEW o \in Seq(Nat), NEW n \in 0..Len(o)
    PROVE  /\ g \o SubSeq(o, 1, n) \in Seq(Nat) /\ SubSeq(o, n + 1, Len(o)) \in Seq(Nat)
           /\ Len(SubSeq(o, n + 1, Len(o))) = Len(o) - n
           /\ (g \o SubSeq(o, 1, n)) \o SubSeq(o, n + 1, Len(o)) = g \o o
<1>0. Len(o) \in Nat /\ \A i \in 1..Len(o) : o[i] \in Nat
  BY LenProperties, ElementOfSeq
<1>1. SubSeq(o, 1, n) \in Seq(Nat)
  BY <1>0, SubSeqProperties
<1>2. SubSeq(o, n + 1, Len(o)) \in Seq(Nat) /\ Len(SubSeq(o, n + 1, Len(o))) = Len(o) - n
  <2>1. n + 1 \in Int /\ Len(o) \in Int /\ \A i \in n + 1..Len(o) : o[i] \in Nat
    BY <1>0
  <2>2. /\ SubSeq(o, n + 1, Len(o)) \in Seq(Nat)
        /\ Len(SubSeq(o, n + 1, Len(o))) = IF n + 1 <= Len(o) THEN Len(o) - (n + 1) + 1 ELSE 0
    BY <2>1, SubSeqProperties
  <2> QED
    BY <1>0, <2>2
<1>3. g \o SubSeq(o, 1, n) \in Seq(Nat)
  BY <1>1, ConcatProperties
<1>4. (g \o SubSeq(o, 1, n)) \o SubSeq(o, n + 1, Len(o))
        = g \o (SubSeq(o, 1, n) \o SubSeq(o, n + 1, Len(o)))
  <2> DEFINE a == SubSeq(o, 1, n)
             b == SubSeq(o, n + 1, Len(o))
  <2>1. a \in Seq(Nat) /\ b \in Seq(Nat)
    BY <1>1, <1>2
  <2> HIDE DEF a, b
  <2>2. (g \o a) \o b = g \o (a \o b)
    BY <2>1, ConcatAssociative, SMTT(60)
  <2> QED
    BY <2>2 DEF a, b
<1>5. SubSeq(o, 1, n) \o SubSeq(o, n + 1, Len(o)) = SubSeq(o, 1, Len(o))
  <2>1. 1 \in 1..Len(o) + 1 /\ n \in 1 - 1..Len(o) /\ Len(o) \in n..Len(o)
    BY <1>0
  <2> QED
    BY <2>1, ConcatAdjacentSubSeq
<1>6. SubSeq(o, 1, Len(o)) = o
  BY SubSeqFull
<1> QED
  BY <1>2, <1>3, <1>4, <1>5, <1>6

\* An answer appended to what is owed is appended to the stream.
LEMMA StreamAppend ==
    ASSUME NEW g \in Seq(Nat), NEW o \in Seq(Nat), NEW a \in Nat
    PROVE  /\ Append(o, a) \in Seq(Nat) /\ Len(Append(o, a)) = Len(o) + 1
           /\ g \o Append(o, a) = Append(g \o o, a)
<1>1. <<a>> \in Seq(Nat) /\ g \o o \in Seq(Nat)
  BY ConcatProperties
<1>2. Append(o, a) = o \o <<a>> /\ Append(g \o o, a) = (g \o o) \o <<a>>
  BY <1>1, AppendIsConcat
<1>3. (g \o o) \o <<a>> = g \o (o \o <<a>>)
  BY <1>1, ConcatAssociative
<1> QED
  BY <1>2, <1>3, AppendProperties

\* What was heard of a good stream is good.
LEMMA HeardPrefix ==
    ASSUME NEW script, NEW g \in Seq(Nat), NEW o \in Seq(Nat), Heard(script, g \o o)
    PROVE  Heard(script, g)
<1> DEFINE q == g \o o
<1>1. /\ Len(g) \in Nat /\ Len(o) \in Nat /\ Len(q) = Len(g) + Len(o)
      /\ \A j \in 1..Len(g) : j \in 1..Len(q) /\ q[j] = g[j]
  BY LenProperties, ConcatProperties
<1>2. \A j \in 1..Len(g) : j = Len(q) => j = Len(g)
  BY <1>1
<1> HIDE DEF q
<1> SUFFICES ASSUME NEW j \in 1..Len(g)
             PROVE  IF g[j] = Refusal THEN j = Len(g)
                    ELSE /\ g[j] \in LastOf(script) /\ \A i \in 1..j - 1 : g[i] # g[j]
                         /\ IF script[g[j]].to = "upgrade" THEN Threaded => j = Len(g)
                            ELSE \A l \in LastOf(script) :
                                     l < g[j] => \E i \in 1..j - 1 : g[i] = l
  BY DEF Heard
<1>3. \A i \in 1..j - 1 : i \in 1..Len(g)
  BY <1>1
<1>4. IF q[j] = Refusal THEN j = Len(q)
      ELSE /\ q[j] \in LastOf(script) /\ \A i \in 1..j - 1 : q[i] # q[j]
           /\ IF script[q[j]].to = "upgrade" THEN Threaded => j = Len(q)
              ELSE \A l \in LastOf(script) :
                       l < q[j] => \E i \in 1..j - 1 : q[i] = l
  BY <1>1 DEF Heard, q
<1>5. \A l : (\E i \in 1..j - 1 : q[i] = l) => \E i \in 1..j - 1 : g[i] = l
  BY <1>1, <1>3
<1> QED
  BY <1>1, <1>2, <1>3, <1>4, <1>5

\* An answer to the first request unanswered, or a refusal, may follow.
LEMMA HeardAppend ==
    ASSUME NEW script \in Scripts, NEW q \in Seq(Nat), NEW edge \in Nat, Heard(script, q),
           Told(script, q, edge), NEW a \in Nat, a = Refusal \/ (a = edge /\ a \in LastOf(script))
    PROVE  /\ Heard(script, Append(q, a))
           /\ a # Refusal /\ script[a].to # "upgrade" => Told(script, Append(q, a), a + 1)
<1> DEFINE r == Append(q, a)
<1>1. /\ Len(q) \in Nat /\ Len(r) = Len(q) + 1 /\ r[Len(q) + 1] = a
      /\ \A j \in 1..Len(q) : r[j] = q[j]
  BY LenProperties, AppendProperties
<1>2. LastOf(script) \subseteq Nat /\ Refusal \notin LastOf(script)
  BY LastOfRange DEF Refusal
<1> HIDE DEF r
<1>3. \A j \in 1..Len(q) : /\ r[j] \in LastOf(script) /\ r[j] < edge
                           /\ script[r[j]].to # "upgrade"
  BY <1>1 DEF Told
<1>4. ASSUME NEW l \in LastOf(script), l < edge
      PROVE  \E j \in 1..Len(q) : r[j] = l
  BY <1>1, <1>4 DEF Told
<1>5. Heard(script, r)
  <2> SUFFICES ASSUME NEW j \in 1..Len(r)
               PROVE  IF r[j] = Refusal THEN j = Len(r)
                      ELSE /\ r[j] \in LastOf(script) /\ \A i \in 1..j - 1 : r[i] # r[j]
                           /\ IF script[r[j]].to = "upgrade" THEN Threaded => j = Len(r)
                              ELSE \A l \in LastOf(script) :
                                       l < r[j] => \E i \in 1..j - 1 : r[i] = l
    BY DEF Heard
  <2>1. CASE j \in 1..Len(q)
    <3>1. \A i \in 1..j - 1 : i \in 1..Len(q) /\ r[i] = q[i]
      BY <1>1, <2>1
    <3>2. r[j] = q[j] /\ r[j] # Refusal
      BY <1>1, <1>2, <1>3, <2>1
    <3>3. /\ q[j] \in LastOf(script) /\ \A i \in 1..j - 1 : q[i] # q[j]
          /\ \A l \in LastOf(script) : l < q[j] => \E i \in 1..j - 1 : q[i] = l
      BY <1>3, <2>1, <3>2 DEF Heard
    <3> QED
      BY <1>3, <2>1, <3>1, <3>2, <3>3
  <2>2. CASE j = Len(q) + 1
    <3>1. j - 1 = Len(q) /\ r[j] = a /\ j = Len(r)
      BY <1>1, <2>2
    <3>2. CASE a = Refusal
      BY <3>1, <3>2
    <3>3. CASE a = edge /\ a \in LastOf(script)
      <4>1. \A i \in 1..j - 1 : r[i] # a
        BY <1>1, <1>2, <1>3, <3>1, <3>3
      <4>2. \A l \in LastOf(script) : l < a => \E i \in 1..j - 1 : r[i] = l
        BY <1>4, <3>1, <3>3
      <4> QED
        BY <3>1, <3>3, <4>1, <4>2
    <3> QED
      BY <3>2, <3>3
  <2> QED
    BY <1>1, <2>1, <2>2
<1>6. ASSUME a # Refusal, script[a].to # "upgrade"
      PROVE  Told(script, r, a + 1)
  <2>1. \A j \in 1..Len(r) : j \in 1..Len(q) \/ (j = Len(q) + 1 /\ r[j] = a)
    BY <1>1
  <2>2. \A j \in 1..Len(r) : /\ r[j] \in LastOf(script) /\ r[j] < a + 1
                             /\ script[r[j]].to # "upgrade"
    BY <1>2, <1>3, <1>6, <2>1
  <2>3. \A l \in LastOf(script) : l < a + 1 => \E j \in 1..Len(r) : r[j] = l
    <3> SUFFICES ASSUME NEW l \in LastOf(script), l < a + 1
                 PROVE  \E j \in 1..Len(r) : r[j] = l
      OBVIOUS
    <3>1. CASE l = a
      BY <1>1, <3>1
    <3>2. CASE l # a
      <4>1. l < edge
        BY <1>2, <1>6, <3>2
      <4>2. PICK j \in 1..Len(q) : r[j] = l
        BY <1>4, <4>1
      <4> QED
        BY <1>1, <4>2
    <3> QED
      BY <3>1, <3>2
  <2> QED
    BY <2>2, <2>3 DEF Told
<1> QED
  BY <1>5, <1>6 DEF r

-----------------------------------------------------------------------------
(* A turn's steps.  Their changes have names, and are made one at a time.   *)

Turns == [c : Conn, s : Slot, p : PeerEnd, left : 0..RequestBudget, lives : BOOLEAN,
          more : BOOLEAN]
Stream(t) == t.p.got \o t.c.owed

NewParts(t, p, c) == [[t EXCEPT !.p = p] EXCEPT !.c = c]
NewOutput(c, o, b) == [[c EXCEPT !.owed = o] EXCEPT !.aged = b]
NewHeard(p, g, n) == [[p EXCEPT !.got = g] EXCEPT !.unread = n]
FlushedTo(t, g, n, o, b) ==
    [t EXCEPT !.p.got = g, !.p.unread = n, !.c.owed = o, !.c.aged = b]
NewLife(t, b) == [t EXCEPT !.lives = b]

\* u is t after something was written: what was read, and the slot, are as they were.
Kept(t, u) ==
    /\ u \in Turns /\ u.s = t.s /\ u.left = t.left /\ u.more = t.more
    /\ u.c.who = t.c.who /\ u.c.read = t.c.read /\ u.c.used = t.c.used
    /\ u.c.closing = t.c.closing /\ u.c.peerClosed = t.c.peerClosed
    /\ u.c.upgraded = t.c.upgraded
    /\ u.p.script = t.p.script /\ u.p.state = t.p.state /\ u.p.sent = t.p.sent
    /\ Len(u.c.owed) <= SendCap

\* A turn's parts, replaced.
LEMMA NewPartsType ==
    ASSUME NEW t \in Turns, NEW c \in Conn, NEW p \in PeerEnd
    PROVE  LET u == NewParts(t, p, c)
           IN  /\ u \in Turns /\ u.c = c /\ u.p = p /\ u.s = t.s /\ u.left = t.left
               /\ u.more = t.more /\ u.lives = t.lives
<1> DEFINE v == [t EXCEPT !.p = p]
<1>1. /\ v \in Turns /\ v.p = p /\ v.s = t.s /\ v.left = t.left /\ v.more = t.more
      /\ v.lives = t.lives
  BY DEF Turns
<1> HIDE DEF v
<1>2. /\ [v EXCEPT !.c = c] \in Turns /\ [v EXCEPT !.c = c].c = c /\ [v EXCEPT !.c = c].p = v.p
      /\ [v EXCEPT !.c = c].s = v.s /\ [v EXCEPT !.c = c].left = v.left
      /\ [v EXCEPT !.c = c].more = v.more /\ [v EXCEPT !.c = c].lives = v.lives
  BY <1>1 DEF Turns
<1> QED
  BY <1>1, <1>2 DEF v, NewParts

\* A connection's output, replaced.
LEMMA NewOutputType ==
    ASSUME NEW c \in Conn, NEW o \in Seq(Nat), NEW b \in BOOLEAN
    PROVE  LET d == NewOutput(c, o, b)
           IN  /\ d \in Conn /\ d.owed = o /\ d.who = c.who /\ d.read = c.read /\ d.used = c.used
               /\ d.closing = c.closing /\ d.peerClosed = c.peerClosed /\ d.upgraded = c.upgraded
<1> DEFINE v == [c EXCEPT !.owed = o]
           d == [v EXCEPT !.aged = b]
<1>1. /\ v \in Conn /\ v.owed = o /\ v.who = c.who /\ v.read = c.read /\ v.used = c.used
      /\ v.closing = c.closing /\ v.peerClosed = c.peerClosed /\ v.upgraded = c.upgraded
  BY DEF Conn
<1> HIDE DEF v
<1>2. /\ d \in Conn /\ d.owed = v.owed /\ d.who = v.who /\ d.read = v.read /\ d.used = v.used
      /\ d.closing = v.closing /\ d.peerClosed = v.peerClosed /\ d.upgraded = v.upgraded
  BY <1>1 DEF Conn
<1> QED
  BY <1>1, <1>2 DEF v, NewOutput

\* What a peer heard, replaced.
LEMMA NewHeardType ==
    ASSUME NEW p \in PeerEnd, NEW g \in Seq(Nat), NEW n \in 0..Window
    PROVE  LET q == NewHeard(p, g, n)
           IN  /\ q \in PeerEnd /\ q.got = g /\ q.script = p.script /\ q.state = p.state
               /\ q.sent = p.sent /\ q.shut = p.shut
<1> DEFINE v == [p EXCEPT !.got = g]
           q == [v EXCEPT !.unread = n]
<1>1. /\ v \in PeerEnd /\ v.got = g /\ v.script = p.script /\ v.state = p.state
      /\ v.sent = p.sent /\ v.shut = p.shut
  BY DEF PeerEnd
<1> HIDE DEF v
<1>2. /\ q \in PeerEnd /\ q.got = v.got /\ q.script = v.script /\ q.state = v.state
      /\ q.sent = v.sent /\ q.shut = v.shut
  BY <1>1 DEF PeerEnd
<1> QED
  BY <1>1, <1>2 DEF v, NewHeard

\* A turn that ends, or does not.
LEMMA NewLifeType ==
    ASSUME NEW t \in Turns, NEW b \in BOOLEAN
    PROVE  LET u == NewLife(t, b)
           IN  /\ u \in Turns /\ u.lives = b /\ u.c = t.c /\ u.p = t.p /\ u.s = t.s
               /\ u.left = t.left /\ u.more = t.more
  BY DEF Turns, NewLife

\* The four changes of a flush, one part after the other.
LEMMA FourParts ==
    ASSUME NEW t \in Turns, NEW g, NEW n, NEW o, NEW b
    PROVE  FlushedTo(t, g, n, o, b) = NewParts(t, NewHeard(t.p, g, n), NewOutput(t.c, o, b))
  BY Zenon DEF Turns, NewParts, NewHeard, NewOutput, FlushedTo

\* The turn after them.
LEMMA FlushParts ==
    ASSUME NEW t \in Turns, NEW g \in Seq(Nat), NEW n \in 0..Window, NEW o \in Seq(Nat),
           NEW b \in BOOLEAN
    PROVE  LET u == NewParts(t, NewHeard(t.p, g, n), NewOutput(t.c, o, b))
           IN  /\ u.c.owed = o /\ u.p.got = g /\ u.lives = t.lives
               /\ Len(o) <= SendCap => Kept(t, u)
<1> DEFINE c == NewOutput(t.c, o, b)
           p == NewHeard(t.p, g, n)
           u == NewParts(t, p, c)
<1>0. t.c \in Conn /\ t.p \in PeerEnd
  BY DEF Turns
<1>1. /\ c \in Conn /\ c.owed = o /\ c.who = t.c.who /\ c.read = t.c.read
      /\ c.used = t.c.used /\ c.closing = t.c.closing /\ c.peerClosed = t.c.peerClosed
      /\ c.upgraded = t.c.upgraded
  BY <1>0, NewOutputType
<1>2. /\ p \in PeerEnd /\ p.got = g /\ p.script = t.p.script /\ p.state = t.p.state
      /\ p.sent = t.p.sent /\ p.shut = t.p.shut
  BY <1>0, NewHeardType
<1> HIDE DEF c, p
<1>3. /\ u \in Turns /\ u.c = c /\ u.p = p /\ u.s = t.s /\ u.left = t.left
      /\ u.more = t.more /\ u.lives = t.lives
  BY <1>1, <1>2, NewPartsType
<1> HIDE DEF u
<1>4. /\ u.c.owed = o /\ u.p.got = g /\ u.lives = t.lives
      /\ Len(o) <= SendCap => Kept(t, u)
  BY <1>1, <1>2, <1>3 DEF Kept
<1> QED
  BY <1>4 DEF u, c, p

\* A host takes what it has room for.
LEMMA Takes ==
    ASSUME NEW owed \in Nat, NEW unread \in 0..Window
    PROVE  LET n == IF owed < Window - unread THEN owed ELSE Window - unread
           IN  n \in 0..owed /\ unread + n \in 0..Window
  BY Constants

\* A flush moves a part of what is owed, or ends the turn.
LEMMA FlushedKeeps ==
    ASSUME NEW t \in Turns, Len(t.c.owed) <= SendCap
    PROVE  /\ Kept(t, Flushed(t)) /\ Stream(Flushed(t)) = Stream(t)
           /\ Len(Flushed(t).c.owed) <= Len(t.c.owed)
           /\ Flushed(t).lives => t.lives
<1> DEFINE o == t.c.owed
           n == IF Len(o) < Window - t.p.unread THEN Len(o) ELSE Window - t.p.unread
           g == t.p.got \o SubSeq(o, 1, n)
           rest == SubSeq(o, n + 1, Len(o))
           b == t.c.aged /\ n < Len(o)
           m == t.p.unread + n
           u == NewParts(t, NewHeard(t.p, g, m), NewOutput(t.c, rest, b))
<1>0. /\ t.c \in Conn /\ t.p \in PeerEnd /\ o \in Seq(Nat) /\ t.p.got \in Seq(Nat)
      /\ t.p.unread \in 0..Window /\ t.c.aged \in BOOLEAN /\ Window \in Nat /\ Len(o) \in Nat
  BY Constants, LenProperties DEF Turns, Conn, PeerEnd
<1>1. CASE Flushed(t) = t
  BY <1>0, <1>1 DEF Kept
<1>2. CASE Flushed(t) = NewLife(t, FALSE)
  <2> DEFINE v == NewLife(t, FALSE)
  <2>1. /\ v \in Turns /\ v.lives = FALSE /\ v.c = t.c /\ v.p = t.p /\ v.s = t.s
        /\ v.left = t.left /\ v.more = t.more
    BY NewLifeType
  <2> HIDE DEF v
  <2>2. Kept(t, v) /\ Stream(v) = Stream(t) /\ Len(v.c.owed) <= Len(t.c.owed)
    BY <1>0, <2>1 DEF Kept, Stream
  <2> QED
    BY <1>2, <2>1, <2>2 DEF v
<1>3. CASE Flushed(t) = u
  <2>1. n \in 0..Len(o) /\ m \in 0..Window
    <3> HIDE DEF o
    <3> QED
      BY <1>0, Takes
  <2>2. b \in BOOLEAN
    BY <1>0 DEF b
  <2> HIDE DEF n, m, b, o
  <2>3. /\ g \in Seq(Nat) /\ rest \in Seq(Nat) /\ Len(rest) = Len(o) - n
        /\ g \o rest = t.p.got \o o
    BY <1>0, <2>1, StreamSplit, Zenon DEF g, rest
  <2> HIDE DEF g, rest
  <2>4. Len(rest) <= Len(o) /\ Len(rest) <= SendCap
    BY <1>0, <2>1, <2>3, Constants DEF o
  <2>5. /\ u.c.owed = rest /\ u.p.got = g /\ u.lives = t.lives
        /\ Len(rest) <= SendCap => Kept(t, u)
    <3>1. m \in 0..Window /\ g \in Seq(Nat) /\ rest \in Seq(Nat)
      BY <2>1, <2>3
    <3> QED
      BY <2>2, <3>1, FlushParts
  <2> HIDE DEF u
  <2>6. Stream(u) = Stream(t)
    BY <2>3, <2>5 DEF Stream, o
  <2> QED
    BY <1>3, <2>4, <2>5, <2>6 DEF o
<1>4. [t EXCEPT !.p.got = @ \o SubSeq(t.c.owed, 1, n), !.p.unread = @ + n,
                !.c.owed = SubSeq(@, n + 1, Len(@)), !.c.aged = @ /\ n < Len(t.c.owed)] = u
  <2>1. [t EXCEPT !.p.got = @ \o SubSeq(t.c.owed, 1, n), !.p.unread = @ + n,
                  !.c.owed = SubSeq(@, n + 1, Len(@)), !.c.aged = @ /\ n < Len(t.c.owed)]
          = FlushedTo(t, g, m, rest, b)
    BY Zenon DEF Turns, FlushedTo
  <2>2. FlushedTo(t, g, m, rest, b) = u
    <3> HIDE DEF g, m, rest, b
    <3> QED
      BY FourParts
  <2> QED
    BY <2>1, <2>2, Zenon
<1>5. Flushed(t) \in {t, NewLife(t, FALSE), u}
  <2> HIDE DEF u
  <2> QED
    BY <1>4, Zenon DEF Flushed, n, NewLife
<1> QED
  BY <1>1, <1>2, <1>3, <1>5

NewConn(t, c) == [t EXCEPT !.c = c]
NewSlot(t, s) == [t EXCEPT !.s = s]
NewPeer(t, p) == [t EXCEPT !.p = p]
NewLeft(t, n) == [t EXCEPT !.left = n]
NewMore(t, b) == [t EXCEPT !.more = b]

\* A turn's connection, replaced.
LEMMA NewConnType ==
    ASSUME NEW t \in Turns, NEW c \in Conn
    PROVE  LET u == NewConn(t, c)
           IN  /\ u \in Turns /\ u.c = c /\ u.s = t.s /\ u.p = t.p
               /\ u.left = t.left /\ u.more = t.more /\ u.lives = t.lives
  BY DEF Turns, NewConn

\* A turn's slot, replaced.
LEMMA NewSlotType ==
    ASSUME NEW t \in Turns, NEW s \in Slot
    PROVE  LET u == NewSlot(t, s)
           IN  /\ u \in Turns /\ u.s = s /\ u.c = t.c /\ u.p = t.p
               /\ u.left = t.left /\ u.more = t.more /\ u.lives = t.lives
  BY DEF Turns, NewSlot

\* The other end, replaced.
LEMMA NewPeerType ==
    ASSUME NEW t \in Turns, NEW p \in PeerEnd
    PROVE  LET u == NewPeer(t, p)
           IN  /\ u \in Turns /\ u.p = p /\ u.c = t.c /\ u.s = t.s
               /\ u.left = t.left /\ u.more = t.more /\ u.lives = t.lives
  BY DEF Turns, NewPeer

\* The budget, replaced.
LEMMA NewLeftType ==
    ASSUME NEW t \in Turns, NEW n \in 0..RequestBudget
    PROVE  LET u == NewLeft(t, n)
           IN  /\ u \in Turns /\ u.left = n /\ u.c = t.c /\ u.s = t.s
               /\ u.p = t.p /\ u.more = t.more /\ u.lives = t.lives
  BY DEF Turns, NewLeft

\* Whether the buffer is looked at again, replaced.
LEMMA NewMoreType ==
    ASSUME NEW t \in Turns, NEW b \in BOOLEAN
    PROVE  LET u == NewMore(t, b)
           IN  /\ u \in Turns /\ u.more = b /\ u.c = t.c /\ u.s = t.s
               /\ u.p = t.p /\ u.left = t.left /\ u.lives = t.lives
  BY DEF Turns, NewMore

NewOwed(c, o) == [c EXCEPT !.owed = o]
NewUsed(c, k) == [c EXCEPT !.used = k]
NewRead(c, n) == [c EXCEPT !.read = n]
NewAged(c, b) == [c EXCEPT !.aged = b]
NewClosing(c, b) == [c EXCEPT !.closing = b]
NewPeerClosed(c, b) == [c EXCEPT !.peerClosed = b]
NewUpgraded(c) == [c EXCEPT !.upgraded = TRUE]

\* What a connection owes, replaced.
LEMMA NewOwedType ==
    ASSUME NEW c \in Conn, NEW o \in Seq(Nat)
    PROVE  LET d == NewOwed(c, o)
           IN  /\ d \in Conn /\ d.owed = o /\ d.who = c.who /\ d.read = c.read /\ d.used = c.used
               /\ d.upgraded = c.upgraded /\ d.closing = c.closing /\ d.peerClosed = c.peerClosed
               /\ d.aged = c.aged
  BY DEF Conn, NewOwed

\* What was parsed of its buffer, replaced.
LEMMA NewUsedType ==
    ASSUME NEW c \in Conn, NEW k \in Nat
    PROVE  LET d == NewUsed(c, k)
           IN  /\ d \in Conn /\ d.used = k /\ d.who = c.who /\ d.read = c.read /\ d.owed = c.owed
               /\ d.upgraded = c.upgraded /\ d.closing = c.closing /\ d.peerClosed = c.peerClosed
               /\ d.aged = c.aged
  BY DEF Conn, NewUsed

\* What was read from its socket, replaced.
LEMMA NewReadType ==
    ASSUME NEW c \in Conn, NEW n \in Nat
    PROVE  LET d == NewRead(c, n)
           IN  /\ d \in Conn /\ d.read = n /\ d.who = c.who /\ d.used = c.used /\ d.owed = c.owed
               /\ d.upgraded = c.upgraded /\ d.closing = c.closing /\ d.peerClosed = c.peerClosed
               /\ d.aged = c.aged
  BY DEF Conn, NewRead

\* Whether its clock ran out, replaced.
LEMMA NewAgedType ==
    ASSUME NEW c \in Conn, NEW b \in BOOLEAN
    PROVE  LET d == NewAged(c, b)
           IN  /\ d \in Conn /\ d.aged = b /\ d.who = c.who /\ d.read = c.read /\ d.used = c.used
               /\ d.owed = c.owed /\ d.upgraded = c.upgraded /\ d.closing = c.closing
               /\ d.peerClosed = c.peerClosed
  BY DEF Conn, NewAged

\* Whether it is closing, replaced.
LEMMA NewClosingType ==
    ASSUME NEW c \in Conn, NEW b \in BOOLEAN
    PROVE  LET d == NewClosing(c, b)
           IN  /\ d \in Conn /\ d.closing = b /\ d.who = c.who /\ d.read = c.read /\ d.used = c.used
               /\ d.owed = c.owed /\ d.upgraded = c.upgraded /\ d.peerClosed = c.peerClosed
               /\ d.aged = c.aged
  BY DEF Conn, NewClosing

\* Whether its stream has ended, replaced.
LEMMA NewPeerClosedType ==
    ASSUME NEW c \in Conn, NEW b \in BOOLEAN
    PROVE  LET d == NewPeerClosed(c, b)
           IN  /\ d \in Conn /\ d.peerClosed = b /\ d.who = c.who /\ d.read = c.read
               /\ d.used = c.used
               /\ d.owed = c.owed /\ d.upgraded = c.upgraded /\ d.closing = c.closing
               /\ d.aged = c.aged
  BY DEF Conn, NewPeerClosed

\* Whether it is a WebSocket, replaced.
LEMMA NewUpgradedType ==
    ASSUME NEW c \in Conn
    PROVE  LET d == NewUpgraded(c)
           IN  /\ d \in Conn /\ d.upgraded /\ d.who = c.who /\ d.read = c.read /\ d.used = c.used
               /\ d.owed = c.owed /\ d.closing = c.closing /\ d.peerClosed = c.peerClosed
               /\ d.aged = c.aged
  BY DEF Conn, NewUpgraded

\* The parts of a turn.
LEMMA TurnParts ==
    ASSUME NEW t \in Turns
    PROVE  /\ t.c \in Conn /\ t.s \in Slot /\ t.p \in PeerEnd /\ t.left \in 0..RequestBudget
           /\ t.lives \in BOOLEAN /\ t.more \in BOOLEAN
           /\ t.c.owed \in Seq(Nat) /\ t.p.got \in Seq(Nat) /\ Stream(t) \in Seq(Nat)
           /\ Len(t.c.owed) \in Nat
           /\ t.c.read \in Nat /\ t.c.used \in Nat /\ t.c.who \in Peers \cup {Nobody}
           /\ t.c.closing \in BOOLEAN /\ t.c.peerClosed \in BOOLEAN
           /\ t.c.upgraded \in BOOLEAN /\ t.c.aged \in BOOLEAN
           /\ t.p.script \in Scripts /\ t.p.sent \in Nat /\ t.p.shut \in BOOLEAN
           /\ t.p.unread \in 0..Window
<1>1. /\ t.c \in Conn /\ t.s \in Slot /\ t.p \in PeerEnd /\ t.left \in 0..RequestBudget
      /\ t.lives \in BOOLEAN /\ t.more \in BOOLEAN
  BY DEF Turns
<1>2. /\ t.c.owed \in Seq(Nat) /\ t.c.read \in Nat /\ t.c.used \in Nat
      /\ t.c.who \in Peers \cup {Nobody}
      /\ t.c.closing \in BOOLEAN /\ t.c.peerClosed \in BOOLEAN
      /\ t.c.upgraded \in BOOLEAN /\ t.c.aged \in BOOLEAN
  BY <1>1 DEF Conn
<1>3. /\ t.p.script \in Scripts /\ t.p.sent \in Nat /\ t.p.shut \in BOOLEAN
      /\ t.p.got \in Seq(Nat) /\ t.p.unread \in 0..Window
  BY <1>1 DEF PeerEnd
<1>4. Stream(t) \in Seq(Nat)
  BY <1>2, <1>3, ConcatProperties DEF Stream
<1>5. Len(t.c.owed) \in Nat
  BY <1>2, LenProperties
<1> QED
  BY <1>1, <1>2, <1>3, <1>4, <1>5

\* What is kept twice is kept.
LEMMA KeptTwice ==
    ASSUME NEW t, NEW u, NEW v, Kept(t, u), Kept(u, v)
    PROVE  Kept(t, v)
  BY DEF Kept

\* The life of a turn is no part of what is kept.
LEMMA KeptAtEnd ==
    ASSUME NEW t, NEW u, Kept(t, u), NEW b \in BOOLEAN
    PROVE  Kept(t, NewLife(u, b)) /\ Stream(NewLife(u, b)) = Stream(u) /\ NewLife(u, b).lives = b
<1> DEFINE v == NewLife(u, b)
<1>1. u \in Turns
  BY DEF Kept
<1>2. /\ v \in Turns /\ v.lives = b /\ v.s = u.s /\ v.c = u.c /\ v.p = u.p
      /\ v.left = u.left /\ v.more = u.more
  BY <1>1, NewLifeType
<1> HIDE DEF v
<1>3. Kept(t, v) /\ Stream(v) = Stream(u) /\ v.lives = b
  BY <1>2 DEF Kept, Stream
<1> QED
  BY <1>3 DEF v

\* An answer is queued, at the end of the stream, or the turn ends.
LEMMA PushedKeeps ==
    ASSUME NEW t \in Turns, Len(t.c.owed) <= SendCap, NEW a \in Nat
    PROVE  /\ Kept(t, Pushed(t, a)) /\ Stream(Pushed(t, a)) \in {Stream(t), Append(Stream(t), a)}
           /\ Pushed(t, a).lives => t.lives /\ Stream(Pushed(t, a)) = Append(Stream(t), a)
<1> DEFINE u == Flushed(t)
           o == Append(u.c.owed, a)
           v == NewConn(u, NewOwed(u.c, o))
           w == Flushed(v)
<1>1. Kept(t, u) /\ Stream(u) = Stream(t) /\ (u.lives => t.lives)
  BY FlushedKeeps
<1> HIDE DEF u
<1>2. u \in Turns /\ Len(u.c.owed) <= SendCap
  BY <1>1 DEF Kept
<1>3. CASE Pushed(t, a) = NewLife(u, FALSE)
  BY <1>1, <1>3, KeptAtEnd
<1>4. CASE Pushed(t, a) = w /\ u.lives /\ Len(u.c.owed) # SendCap
  <2>1. /\ o \in Seq(Nat) /\ Len(o) = Len(u.c.owed) + 1
        /\ u.p.got \o o = Append(Stream(u), a)
    <3>1. u.c.owed \in Seq(Nat) /\ u.p.got \in Seq(Nat)
      BY <1>2, TurnParts
    <3> QED
      BY <3>1, StreamAppend DEF Stream
  <2>2. Len(o) <= SendCap
    BY <1>2, <1>4, <2>1, TurnParts, Constants
  <2> HIDE DEF o
  <2>3. /\ v \in Turns /\ v.c = NewOwed(u.c, o) /\ v.p = u.p /\ v.s = u.s /\ v.left = u.left
        /\ v.more = u.more /\ v.lives = u.lives
    <3>1. u.c \in Conn
      BY <1>2, TurnParts
    <3>2. NewOwed(u.c, o) \in Conn
      BY <2>1, <3>1, NewOwedType
    <3> QED
      BY <1>2, <3>2, NewConnType
  <2>4. /\ v.c.owed = o /\ v.c.who = u.c.who /\ v.c.read = u.c.read
        /\ v.c.used = u.c.used /\ v.c.upgraded = u.c.upgraded /\ v.c.closing = u.c.closing
        /\ v.c.peerClosed = u.c.peerClosed
    <3>1. u.c \in Conn
      BY <1>2, TurnParts
    <3> QED
      BY <2>1, <2>3, <3>1, NewOwedType
  <2> HIDE DEF v
  <2>5. Kept(u, v) /\ Stream(v) = Append(Stream(u), a)
    BY <2>1, <2>2, <2>3, <2>4 DEF Kept, Stream
  <2>6. Kept(v, w) /\ Stream(w) = Stream(v)
    BY <2>2, <2>3, <2>4, FlushedKeeps
  <2> HIDE DEF w
  <2>7. Kept(t, w)
    BY <1>1, <2>5, <2>6, KeptTwice
  <2> QED
    BY <1>1, <1>4, <2>5, <2>6, <2>7
<1>5. Pushed(t, a) = IF ~ u.lives \/ Len(u.c.owed) = SendCap THEN NewLife(u, FALSE) ELSE w
  <2>1. [u EXCEPT !.c.owed = Append(@, a)] = v
    BY <1>2, Zenon DEF Turns, NewConn, NewOwed
  <2> HIDE DEF v
  <2> QED
    BY <2>1, Zenon DEF Pushed, NewLife, u
<1> HIDE DEF w
<1> QED
  BY <1>3, <1>4, <1>5, Zenon

-----------------------------------------------------------------------------
(* What a turn keeps *)

\* The turn is that of a connection of W, whose buffers are sound.
Ground(t, W) ==
    /\ t \in Turns /\ W \in Peers /\ t.c.who = W /\ t.p.script = peer[W].script
    /\ t.p.state \in {"open", "reset"} /\ Sound(t.c, t.p) /\ t.p.sent <= Len(t.p.script)

\* The stream of a turn that lives is in order, and complete below the edge.
TurnInv(t, W) ==
    /\ Ground(t, W) /\ SlotFits(t.c, t.s, t.p) /\ Heard(t.p.script, t.p.got)
    /\ t.lives => Heard(t.p.script, Stream(t))
    /\ t.lives /\ ~ t.c.upgraded => Told(t.p.script, Stream(t), Edge(t.c, t.s))
    /\ t.c.upgraded => ~ Threaded /\ ~ t.more /\ ~ Busy(t.s)

\* Writing leaves the ground as it was.
LEMMA KeptGround ==
    ASSUME NEW t, NEW u, NEW W, Ground(t, W), Kept(t, u)
    PROVE  Ground(u, W)
  BY DEF Ground, Kept, Sound

\* What was heard of a turn's stream.
LEMMA TurnHeard ==
    ASSUME NEW t \in Turns, Heard(t.p.script, Stream(t))
    PROVE  Heard(t.p.script, t.p.got)
<1>1. t.p.got \in Seq(Nat) /\ t.c.owed \in Seq(Nat)
  BY TurnParts
<1> QED
  BY <1>1, HeardPrefix DEF Stream

\* A refusal ends the turn, and is the end of the stream.
LEMMA RefusedInv ==
    ASSUME NEW t, NEW W, TurnInv(t, W), t.lives, ~ t.c.upgraded, ~ Busy(t.s)
    PROVE  TurnInv(Refused(t), W) /\ Refused(t).s = t.s /\ ~ Refused(t).lives
<1> DEFINE u == Pushed(t, Refusal)
           v == NewLife(u, FALSE)
<1>0. Ground(t, W) /\ t \in Turns /\ Len(t.c.owed) <= SendCap /\ Refusal \in Nat
  BY DEF TurnInv, Ground, Sound, Refusal
<1>1. Kept(t, u) /\ Stream(u) \in {Stream(t), Append(Stream(t), Refusal)}
  BY <1>0, PushedKeeps
<1> HIDE DEF u
<1>2. Kept(t, v) /\ Stream(v) = Stream(u) /\ v.lives = FALSE
  BY <1>1, KeptAtEnd
<1>3. Refused(t) = v
  BY Zenon DEF Refused, NewLife, u
<1> HIDE DEF v
<1>4. Heard(t.p.script, Append(Stream(t), Refusal))
  <2>1. t.p.script \in Scripts /\ Stream(t) \in Seq(Nat) /\ t.c.used + 1 \in Nat
    BY <1>0, TurnParts
  <2>2. Heard(t.p.script, Stream(t)) /\ Told(t.p.script, Stream(t), t.c.used + 1)
    BY DEF TurnInv, Edge
  <2> QED
    BY <1>0, <2>1, <2>2, HeardAppend
<1>5. Heard(t.p.script, Stream(t))
  BY DEF TurnInv
<1>6. Heard(v.p.script, Stream(v)) /\ v \in Turns
  BY <1>1, <1>2, <1>4, <1>5 DEF Kept
<1>7. Heard(v.p.script, v.p.got)
  BY <1>6, TurnHeard
<1>8. Ground(v, W)
  BY <1>0, <1>2, KeptGround
<1>9. v.s = t.s /\ SlotFits(v.c, v.s, v.p) /\ ~ v.c.upgraded
  BY <1>2 DEF Kept, SlotFits
<1> QED
  BY <1>2, <1>3, <1>7, <1>8, <1>9 DEF TurnInv

\* The slot is handed back and the clock restarted.
Answered(u, closing, lives) ==
    [u EXCEPT !.c.aged = FALSE, !.c.closing = closing, !.s = IdleSlot, !.lives = lives]

\* It is a turn that has its slot free.
LEMMA AnsweredType ==
    ASSUME NEW u \in Turns, NEW closing \in BOOLEAN, NEW lives \in BOOLEAN
    PROVE  LET x == Answered(u, closing, lives)
           IN  /\ x \in Turns /\ x.s = IdleSlot /\ x.left = u.left /\ x.more = u.more
               /\ x.lives = lives /\ x.p = u.p
               /\ x.c.who = u.c.who /\ x.c.read = u.c.read /\ x.c.used = u.c.used
               /\ x.c.owed = u.c.owed /\ x.c.upgraded = u.c.upgraded
<1> DEFINE a == NewAged(u.c, FALSE)
           d == NewClosing(a, closing)
           v == NewConn(u, d)
           w == NewSlot(v, IdleSlot)
           x == NewLife(w, lives)
<1>1. Answered(u, closing, lives) = x
  BY Zenon DEF Turns, Answered, NewAged, NewClosing, NewConn, NewSlot, NewLife
<1>0. u.c \in Conn /\ IdleSlot \in Slot
  BY TurnParts, Constants
<1>2. /\ a \in Conn /\ a.who = u.c.who /\ a.read = u.c.read /\ a.used = u.c.used
      /\ a.owed = u.c.owed /\ a.upgraded = u.c.upgraded
  BY <1>0, NewAgedType
<1> HIDE DEF a
<1>3. /\ d \in Conn /\ d.who = a.who /\ d.read = a.read /\ d.used = a.used
      /\ d.owed = a.owed /\ d.upgraded = a.upgraded
  BY <1>2, NewClosingType
<1> HIDE DEF d
<1>4. v \in Turns /\ v.c = d /\ v.p = u.p /\ v.left = u.left /\ v.more = u.more
  BY <1>3, NewConnType
<1> HIDE DEF v
<1>5. /\ w \in Turns /\ w.s = IdleSlot /\ w.c = d /\ w.p = u.p /\ w.left = u.left
      /\ w.more = u.more
  BY <1>0, <1>4, NewSlotType
<1> HIDE DEF w
<1>6. /\ x \in Turns /\ x.lives = lives /\ x.s = IdleSlot /\ x.c = d /\ x.p = u.p
      /\ x.left = u.left /\ x.more = u.more
  BY <1>5, NewLifeType
<1> HIDE DEF x
<1> QED
  BY <1>1, <1>2, <1>3, <1>6

\* An answer is queued: the slot is handed back, and the edge moves on.
LEMMA CompletedInv ==
    ASSUME NEW t, NEW W, Ground(t, W), t.lives, ~ t.c.upgraded, NEW k \in LastOf(t.p.script),
           Heard(t.p.script, Stream(t)), Told(t.p.script, Stream(t), k),
           t.c.used = k, t.s.answer = "write", t.s.response = k,
           t.p.script[k].to = "upgrade" => t.s.closeAfter
    PROVE  /\ TurnInv(Completed(t), W) /\ Completed(t).s = IdleSlot
           /\ Completed(t).left = t.left /\ Completed(t).more = t.more
           /\ ~ Completed(t).c.upgraded
<1> DEFINE u == Pushed(t, t.s.response)
           cl == u.c.closing \/ (TRUE /\ ~ t.s.keep)
           b == u.lives /\ (FALSE \/ ~ t.s.closeAfter)
           x == Answered(u, cl, b)
<1>0. /\ t \in Turns /\ Len(t.c.owed) <= SendCap /\ t.s.response \in Nat
      /\ t.s.keep \in BOOLEAN /\ t.s.closeAfter \in BOOLEAN /\ k \in Nat /\ k # Refusal
      /\ t.p.script \in Scripts
  <2>1. t \in Turns /\ Len(t.c.owed) <= SendCap
    BY DEF Ground, Sound
  <2>2. t.s \in Slot /\ t.p.script \in Scripts
    BY <2>1, TurnParts
  <2> QED
    BY <2>1, <2>2, LastOfRange DEF Slot, Refusal
<1>1. /\ Kept(t, u) /\ Stream(u) \in {Stream(t), Append(Stream(t), k)}
      /\ u.lives => t.lives /\ Stream(u) = Append(Stream(t), k)
  BY <1>0, PushedKeeps
<1>2. Completed(t) = x
  <2>1. t.s.answer # "upgraded"
    OBVIOUS
  <2> QED
    BY <2>1, Zenon DEF Completed, Answered
<1> HIDE DEF u
<1>3. /\ u \in Turns /\ u.lives \in BOOLEAN /\ cl \in BOOLEAN /\ b \in BOOLEAN
      /\ b => u.lives /\ ~ t.s.closeAfter
  BY <1>0, <1>1, TurnParts DEF Kept
<1> HIDE DEF cl, b
<1>4. /\ x \in Turns /\ x.s = IdleSlot /\ x.left = u.left /\ x.more = u.more
      /\ x.lives = b /\ x.p = u.p
      /\ x.c.who = u.c.who /\ x.c.read = u.c.read /\ x.c.used = u.c.used
      /\ x.c.owed = u.c.owed /\ x.c.upgraded = u.c.upgraded
  BY <1>3, AnsweredType
<1> HIDE DEF x
<1>5. Stream(x) = Stream(u) /\ x.p.script = t.p.script
  BY <1>1, <1>4 DEF Stream, Kept
<1>6. Ground(x, W)
  <2>1. Ground(u, W)
    BY <1>1, KeptGround
  <2> QED
    BY <2>1, <1>4 DEF Ground, Sound
<1>7. /\ Heard(t.p.script, Append(Stream(t), k))
      /\ t.p.script[k].to # "upgrade" => Told(t.p.script, Append(Stream(t), k), k + 1)
  BY <1>0, TurnParts, HeardAppend
<1>8. Heard(x.p.script, Stream(x)) /\ Heard(x.p.script, x.p.got)
  BY <1>1, <1>4, <1>5, <1>7, TurnHeard
<1>9. x.lives => Told(x.p.script, Stream(x), Edge(x.c, x.s))
  <2> SUFFICES ASSUME x.lives PROVE Told(x.p.script, Stream(x), Edge(x.c, x.s))
    OBVIOUS
  <2>1. u.lives /\ ~ t.s.closeAfter
    BY <1>3, <1>4
  <2>2. Edge(x.c, x.s) = k + 1
    BY <1>1, <1>4, Constants DEF Edge, Kept
  <2> QED
    BY <1>1, <1>5, <1>7, <2>1, <2>2
<1>10. SlotFits(x.c, x.s, x.p) /\ ~ x.c.upgraded
  BY <1>1, <1>4, Constants DEF SlotFits, Kept
<1>11. x.left = t.left /\ x.more = t.more
  BY <1>1, <1>4 DEF Kept
<1> QED
  BY <1>2, <1>4, <1>6, <1>8, <1>9, <1>10, <1>11 DEF TurnInv

\* ... or it was a 101 that is out already, on a connection that is gone.
LEMMA CompletedAfter101 ==
    ASSUME NEW t, NEW W, TurnInv(t, W), ~ t.c.upgraded, t.s.answer = "upgraded"
    PROVE  /\ TurnInv(Completed(t), W) /\ Completed(t).s = IdleSlot
           /\ Completed(t).left = t.left /\ Completed(t).more = t.more
           /\ ~ Completed(t).c.upgraded
<1> DEFINE cl == t.c.closing \/ (FALSE /\ ~ t.s.keep)
           b == t.lives /\ (TRUE \/ ~ t.s.closeAfter)
           x == Answered(t, cl, b)
<1>1. Completed(t) = x
  BY Zenon DEF Completed, Answered
<1>2. /\ t \in Turns /\ Ground(t, W)
      /\ cl \in BOOLEAN /\ b \in BOOLEAN /\ b = t.lives
  BY TurnParts DEF TurnInv, Ground
<1> HIDE DEF cl, b
<1>3. /\ x \in Turns /\ x.s = IdleSlot /\ x.left = t.left /\ x.more = t.more
      /\ x.lives = b /\ x.p = t.p
      /\ x.c.who = t.c.who /\ x.c.read = t.c.read /\ x.c.used = t.c.used
      /\ x.c.owed = t.c.owed /\ x.c.upgraded = t.c.upgraded
  BY <1>2, AnsweredType
<1> HIDE DEF x
<1>4. Ground(x, W) /\ Stream(x) = Stream(t)
  BY <1>2, <1>3 DEF Ground, Sound, Stream
<1>5. Edge(x.c, x.s) = Edge(t.c, t.s) /\ SlotFits(x.c, x.s, x.p)
  BY <1>3, Constants DEF Edge, Busy, SlotFits
<1> QED
  BY <1>1, <1>2, <1>3, <1>4, <1>5 DEF TurnInv

\* What was read, how old it is and whether it ends is no matter of the stream.
LEMMA InputInv ==
    ASSUME NEW t, NEW W, TurnInv(t, W), NEW c \in Conn, c.who = t.c.who, c.used = t.c.used,
           c.owed = t.c.owed, c.upgraded = t.c.upgraded, Sound(c, t.p)
    PROVE  /\ TurnInv(NewConn(t, c), W) /\ NewConn(t, c).s = t.s /\ NewConn(t, c).left = t.left
           /\ NewConn(t, c).more = t.more /\ NewConn(t, c).c.upgraded = t.c.upgraded
           /\ NewConn(t, c).lives = t.lives
<1> DEFINE u == NewConn(t, c)
<1>1. t \in Turns
  BY DEF TurnInv, Ground
<1>2. /\ u \in Turns /\ u.c = c /\ u.s = t.s /\ u.p = t.p /\ u.left = t.left
      /\ u.more = t.more /\ u.lives = t.lives
  BY <1>1, NewConnType
<1> HIDE DEF u
<1>3. Ground(u, W) /\ Stream(u) = Stream(t)
  BY <1>2 DEF TurnInv, Ground, Stream
<1>4. Edge(u.c, u.s) = Edge(t.c, t.s) /\ SlotFits(u.c, u.s, u.p)
  BY <1>2 DEF Edge, SlotFits, TurnInv
<1>5. TurnInv(u, W)
  BY <1>2, <1>3, <1>4 DEF TurnInv
<1> QED
  BY <1>2, <1>5 DEF u

\* A turn that ends is still in order.
LEMMA LifeInv ==
    ASSUME NEW t, NEW W, TurnInv(t, W), NEW b \in BOOLEAN, b => t.lives
    PROVE  /\ TurnInv(NewLife(t, b), W) /\ NewLife(t, b).s = t.s /\ NewLife(t, b).c = t.c
           /\ NewLife(t, b).left = t.left /\ NewLife(t, b).more = t.more /\ NewLife(t, b).lives = b
<1> DEFINE u == NewLife(t, b)
<1>1. t \in Turns
  BY DEF TurnInv, Ground
<1>2. /\ u \in Turns /\ u.c = t.c /\ u.s = t.s /\ u.p = t.p /\ u.left = t.left
      /\ u.more = t.more /\ u.lives = b
  BY <1>1, NewLifeType
<1> HIDE DEF u
<1>3. TurnInv(u, W)
  BY <1>2 DEF TurnInv, Ground, Stream
<1> QED
  BY <1>2, <1>3 DEF u

\* The buffer is filled from the socket, refused when it is full.
LEMMA ReceivedInv ==
    ASSUME NEW t, NEW W, TurnInv(t, W), t.lives, ~ t.c.upgraded, ~ Busy(t.s)
    PROVE  /\ TurnInv(Received(t), W) /\ Received(t).s = t.s
           /\ Received(t).lives => ~ Received(t).c.upgraded
<1> DEFINE room == ReceiveCap - Buffered(t.c)
           waiting == t.p.sent - t.c.read
           n == IF room < waiting THEN room ELSE waiting
           b == t.c.aged /\ Buffered(t.c) > 0
           r == NewRead(t.c, t.c.read + n)
           c == NewAged(r, b)
           d == NewPeerClosed(t.c, t.p.shut)
<1>0. /\ Ground(t, W) /\ t \in Turns /\ Sound(t.c, t.p) /\ t.c \in Conn
      /\ t.p.shut \in BOOLEAN /\ t.c.aged \in BOOLEAN
      /\ t.c.read \in Nat /\ t.c.used \in Nat /\ t.p.sent \in Nat /\ ReceiveCap \in Nat
  BY TurnParts, Constants DEF TurnInv, Ground
<1>1. CASE Received(t) = t
  BY <1>1
<1>2. CASE Received(t) = Refused(t)
  BY <1>2, RefusedInv
<1>3. CASE Received(t) = NewLife(t, FALSE)
  BY <1>3, LifeInv
<1>4. CASE Received(t) = NewConn(t, d)
  <2>1. /\ d \in Conn /\ d.who = t.c.who /\ d.used = t.c.used /\ d.read = t.c.read
        /\ d.owed = t.c.owed /\ d.upgraded = t.c.upgraded
    BY <1>0, NewPeerClosedType
  <2> HIDE DEF d
  <2>2. Sound(d, t.p)
    BY <1>0, <2>1 DEF Sound
  <2> QED
    BY <1>4, <2>1, <2>2, InputInv
<1>5. CASE Received(t) = NewConn(t, c) /\ ~ (room = 0)
  <2>1. /\ n \in Nat /\ t.c.read + n <= t.p.sent /\ t.c.read + n - t.c.used <= ReceiveCap
        /\ t.c.read <= t.c.read + n
    BY <1>0, SMTT(60) DEF Sound, Buffered
  <2> HIDE DEF n
  <2>2. /\ r \in Conn /\ r.who = t.c.who /\ r.used = t.c.used /\ r.read = t.c.read + n
        /\ r.owed = t.c.owed /\ r.upgraded = t.c.upgraded
    <3>1. t.c.read + n \in Nat
      BY <1>0, <2>1
    <3> QED
      BY <1>0, <3>1, NewReadType
  <2> HIDE DEF r
  <2>3. b \in BOOLEAN
    BY <1>0
  <2> HIDE DEF b
  <2>4. /\ c \in Conn /\ c.who = t.c.who /\ c.used = t.c.used /\ c.read = t.c.read + n
        /\ c.owed = t.c.owed /\ c.upgraded = t.c.upgraded
    BY <2>2, <2>3, NewAgedType
  <2> HIDE DEF c
  <2>5. Sound(c, t.p)
    BY <1>0, <2>1, <2>4 DEF Sound
  <2> QED
    BY <1>5, <2>4, <2>5, InputInv
<1>6. Received(t) = IF t.c.peerClosed THEN t
                    ELSE IF room = 0 THEN Refused(t)
                    ELSE IF t.p.state = "reset" THEN NewLife(t, FALSE)
                    ELSE IF waiting = 0 THEN NewConn(t, d)
                    ELSE NewConn(t, c)
  <2>1. [t EXCEPT !.c.peerClosed = t.p.shut] = NewConn(t, d)
    BY <1>0, Zenon DEF Turns, NewConn, NewPeerClosed
  <2>2. [t EXCEPT !.c.read = @ + n, !.c.aged = @ /\ Buffered(t.c) > 0] = NewConn(t, c)
    BY <1>0, Zenon DEF Turns, NewConn, NewRead, NewAged
  <2> HIDE DEF c, d
  <2> QED
    BY <2>1, <2>2, Zenon DEF Received, NewLife, n, room, waiting
<1> HIDE DEF c, d, waiting
<1> QED
  BY <1>1, <1>2, <1>3, <1>4, <1>5, <1>6, Zenon

\* A slot that takes a request.
SlotFor(who, k, keep, to, trailing) ==
    [IdleSlot EXCEPT !.who = who, !.request = k, !.keep = keep, !.to = to, !.trailing = trailing]

\* It is a slot with that request, and idle still.
LEMMA SlotForType ==
    ASSUME NEW who \in Peers, NEW k \in Nat, NEW keep \in BOOLEAN,
           NEW to \in {"worker", "main", "upgrade"}, NEW trailing \in Nat
    PROVE  LET s == SlotFor(who, k, keep, to, trailing)
           IN  /\ s \in Slot /\ s.state = "idle" /\ s.who = who /\ s.request = k /\ s.to = to
               /\ s.trailing = trailing /\ s.answer = "write"
<1> DEFINE a == [IdleSlot EXCEPT !.who = who]
           b == [a EXCEPT !.request = k]
           c == [b EXCEPT !.keep = keep]
           d == [c EXCEPT !.to = to]
           s == [d EXCEPT !.trailing = trailing]
<1>1. SlotFor(who, k, keep, to, trailing) = s
  BY Zenon DEF SlotFor
<1>2. IdleSlot \in Slot /\ IdleSlot.state = "idle" /\ IdleSlot.answer = "write"
  BY Constants DEF IdleSlot
<1>3. a \in Slot /\ a.state = "idle" /\ a.answer = "write" /\ a.who = who
  BY <1>2 DEF Slot
<1> HIDE DEF a
<1>4. b \in Slot /\ b.state = "idle" /\ b.answer = "write" /\ b.who = who /\ b.request = k
  BY <1>3 DEF Slot
<1> HIDE DEF b
<1>5. c \in Slot /\ c.state = "idle" /\ c.answer = "write" /\ c.who = who /\ c.request = k
  BY <1>4 DEF Slot
<1> HIDE DEF c
<1>6. /\ d \in Slot /\ d.state = "idle" /\ d.answer = "write" /\ d.who = who /\ d.request = k
      /\ d.to = to
  BY <1>5 DEF Slot
<1> HIDE DEF d
<1>7. /\ s \in Slot /\ s.state = "idle" /\ s.answer = "write" /\ s.who = who /\ s.request = k
      /\ s.to = to /\ s.trailing = trailing
  BY <1>6 DEF Slot
<1> HIDE DEF s
<1> QED
  BY <1>1, <1>7

\* What becomes of a slot.
Queues(s) == [s EXCEPT !.state = "queued"]

\* What an answer, a refused handshake and a hand-over leave of a slot as it was.
LEMMA SlotChanges ==
    ASSUME NEW s \in Slot
    PROVE  /\ LET r == Dispatched(s)
              IN  /\ r \in Slot /\ r.state = s.state /\ r.who = s.who /\ r.request = s.request
                  /\ r.to = s.to /\ r.answer = "write" /\ r.response = s.request
                  /\ r.closeAfter = s.closeAfter
           /\ LET r == Refused101(s)
              IN  /\ r \in Slot /\ r.state = s.state /\ r.who = s.who /\ r.request = s.request
                  /\ r.to = s.to /\ r.answer = s.answer /\ r.response = s.request /\ r.closeAfter
           /\ LET r == Queues(s)
              IN  /\ r \in Slot /\ r.state = "queued" /\ r.who = s.who /\ r.request = s.request
                  /\ r.to = s.to /\ r.answer = s.answer
<1>1. LET r == Dispatched(s)
      IN  /\ r \in Slot /\ r.state = s.state /\ r.who = s.who /\ r.request = s.request
          /\ r.to = s.to /\ r.answer = "write" /\ r.response = s.request
          /\ r.closeAfter = s.closeAfter
  <2> DEFINE a == [s EXCEPT !.answer = "write"]
             r == [a EXCEPT !.response = s.request]
  <2>1. Dispatched(s) = r
    BY Zenon DEF Dispatched
  <2>2. /\ a \in Slot /\ a.state = s.state /\ a.who = s.who /\ a.request = s.request
        /\ a.to = s.to /\ a.answer = "write" /\ a.closeAfter = s.closeAfter
    BY DEF Slot
  <2> HIDE DEF a
  <2>3. /\ r \in Slot /\ r.state = a.state /\ r.who = a.who /\ r.request = a.request
        /\ r.to = a.to /\ r.answer = a.answer /\ r.response = s.request
        /\ r.closeAfter = a.closeAfter
    BY <2>2 DEF Slot
  <2> HIDE DEF r
  <2> QED
    BY <2>1, <2>2, <2>3
<1>2. LET r == Refused101(s)
      IN  /\ r \in Slot /\ r.state = s.state /\ r.who = s.who /\ r.request = s.request
          /\ r.to = s.to /\ r.answer = s.answer /\ r.response = s.request /\ r.closeAfter
  <2> DEFINE a == [s EXCEPT !.response = s.request]
             b == [a EXCEPT !.keep = FALSE]
             r == [b EXCEPT !.closeAfter = TRUE]
  <2>1. Refused101(s) = r
    BY Zenon DEF Refused101
  <2>2. /\ a \in Slot /\ a.state = s.state /\ a.who = s.who /\ a.request = s.request
        /\ a.to = s.to /\ a.answer = s.answer /\ a.response = s.request
    BY DEF Slot
  <2> HIDE DEF a
  <2>3. /\ b \in Slot /\ b.state = a.state /\ b.who = a.who /\ b.request = a.request
        /\ b.to = a.to /\ b.answer = a.answer /\ b.response = a.response
    BY <2>2 DEF Slot
  <2> HIDE DEF b
  <2>4. /\ r \in Slot /\ r.state = b.state /\ r.who = b.who /\ r.request = b.request
        /\ r.to = b.to /\ r.answer = b.answer /\ r.response = b.response /\ r.closeAfter
    BY <2>3 DEF Slot
  <2> HIDE DEF r
  <2> QED
    BY <2>1, <2>2, <2>3, <2>4
<1>3. LET r == Queues(s)
      IN  /\ r \in Slot /\ r.state = "queued" /\ r.who = s.who /\ r.request = s.request
          /\ r.to = s.to /\ r.answer = s.answer
  BY DEF Slot, Queues
<1> QED
  BY <1>1, <1>2, <1>3

\* A 101 that goes ahead of the answers owed is one answer more, in no order.
LEMMA Overtaken ==
    ASSUME NEW script \in Scripts, NEW g \in Seq(Nat), NEW o \in Seq(Nat), NEW k \in LastOf(script),
           Heard(script, g \o o), Told(script, g \o o, k), script[k].to = "upgrade"
    PROVE  /\ Append(g, k) \in Seq(Nat) /\ Heard(script, Append(g, k))
           /\ ~ Threaded => Heard(script, Append(g, k) \o o)
<1> DEFINE q == g \o o
           h == Append(g, k)
           r == h \o o
<1>0. k \in Nat /\ k # Refusal /\ Refusal \notin LastOf(script) /\ LastOf(script) \subseteq Nat
  BY LastOfRange DEF Refusal
<1>1. /\ h \in Seq(Nat) /\ Len(h) = Len(g) + 1 /\ h[Len(g) + 1] = k
      /\ \A j \in 1..Len(g) : h[j] = g[j]
      /\ Len(g) \in Nat /\ Len(o) \in Nat
  BY <1>0, AppendProperties, LenProperties
<1>2. /\ q \in Seq(Nat) /\ Len(q) = Len(g) + Len(o)
      /\ \A j \in 1..Len(q) : q[j] = IF j <= Len(g) THEN g[j] ELSE o[j - Len(g)]
  BY ConcatProperties
<1> HIDE DEF h
<1>3. /\ r \in Seq(Nat) /\ Len(r) = Len(h) + Len(o)
      /\ \A j \in 1..Len(r) : r[j] = IF j <= Len(h) THEN h[j] ELSE o[j - Len(h)]
  <2>1. h \in Seq(Nat)
    BY <1>1
  <2>2. /\ r \in Seq(Nat) /\ Len(r) = Len(h) + Len(o)
        /\ \A j \in 1..Len(h) + Len(o) : r[j] = IF j <= Len(h) THEN h[j] ELSE o[j - Len(h)]
    BY <2>1, ConcatProperties
  <2> QED
    BY <2>2
<1> HIDE DEF q, r
\* Where an answer of one is in the other.
<1>4. \A j \in 1..Len(q) : j <= Len(g) => j \in 1..Len(r) /\ r[j] = q[j]
  <2> SUFFICES ASSUME NEW j \in 1..Len(q), j <= Len(g) PROVE j \in 1..Len(r) /\ r[j] = q[j]
    OBVIOUS
  <2>1. j \in 1..Len(g) /\ j \in 1..Len(r) /\ j <= Len(h)
    BY <1>1, <1>2, <1>3
  <2>2. q[j] = g[j]
    BY <1>2
  <2>3. r[j] = h[j]
    BY <1>3, <2>1
  <2> QED
    BY <1>1, <2>1, <2>2, <2>3
<1>5. \A j \in 1..Len(q) : j > Len(g) => j + 1 \in 1..Len(r) /\ r[j + 1] = q[j]
  <2> SUFFICES ASSUME NEW j \in 1..Len(q), j > Len(g)
               PROVE  j + 1 \in 1..Len(r) /\ r[j + 1] = q[j]
    OBVIOUS
  <2>1. /\ j + 1 \in 1..Len(r) /\ ~ (j + 1 <= Len(h)) /\ ~ (j <= Len(g))
        /\ (j + 1) - Len(h) = j - Len(g)
    BY <1>1, <1>2, <1>3
  <2>2. q[j] = o[j - Len(g)]
    BY <1>2, <2>1
  <2>3. r[j + 1] = o[(j + 1) - Len(h)]
    BY <1>3, <2>1
  <2> QED
    BY <2>1, <2>2, <2>3
<1>6. Len(g) + 1 \in 1..Len(r) /\ r[Len(g) + 1] = k /\ Len(r) = Len(q) + 1
  BY <1>1, <1>2, <1>3
<1>7. \A j \in 1..Len(q) : q[j] \in LastOf(script) /\ q[j] < k /\ script[q[j]].to # "upgrade"
  BY DEF Told, q
<1>8. ASSUME ~ Threaded PROVE Heard(script, r)
  <2> SUFFICES ASSUME NEW j \in 1..Len(r)
               PROVE  IF r[j] = Refusal THEN j = Len(r)
                      ELSE /\ r[j] \in LastOf(script) /\ \A i \in 1..j - 1 : r[i] # r[j]
                           /\ IF script[r[j]].to = "upgrade" THEN Threaded => j = Len(r)
                              ELSE \A l \in LastOf(script) :
                                       l < r[j] => \E i \in 1..j - 1 : r[i] = l
    BY DEF Heard
  <2>0. j \in Nat /\ Len(q) \in Nat
    BY <1>1, <1>2
  <2>1. CASE j = Len(g) + 1
    <3>1. \A i \in 1..j - 1 : i \in 1..Len(q) /\ r[i] = q[i]
      BY <1>1, <1>2, <1>4, <2>1, SMTT(60)
    <3>2. \A i \in 1..j - 1 : r[i] # k
      BY <1>0, <1>7, <3>1
    <3> QED
      BY <1>0, <1>6, <1>8, <2>1, <3>2
  <2>2. CASE j # Len(g) + 1
    <3>1. PICK m \in 1..Len(q) : /\ r[j] = q[m] /\ (j = m \/ j = m + 1)
                                 /\ m > Len(g) <=> j = m + 1
      <4>1. CASE j <= Len(g)
        <5>1. j \in 1..Len(q)
          BY <1>1, <1>2, <2>0, <4>1
        <5>2. r[j] = q[j] /\ ~ (j > Len(g)) /\ j # j + 1
          BY <1>1, <1>4, <2>0, <4>1, <5>1
        <5> QED
          BY <5>1, <5>2
      <4>2. CASE j > Len(g) + 1
        <5>1. j - 1 \in 1..Len(q) /\ j - 1 > Len(g)
          BY <1>1, <1>6, <2>0, <4>2
        <5>2. r[(j - 1) + 1] = q[j - 1]
          BY <1>5, <5>1
        <5>3. (j - 1) + 1 = j
          BY <2>0
        <5> QED
          BY <5>1, <5>2, <5>3
      <4> QED
        BY <1>1, <2>0, <2>2, <4>1, <4>2
    <3>2. /\ q[m] \in LastOf(script) /\ \A i \in 1..m - 1 : q[i] # q[m]
          /\ \A l \in LastOf(script) : l < q[m] => \E i \in 1..m - 1 : q[i] = l
          /\ script[q[m]].to # "upgrade" /\ q[m] # Refusal /\ q[m] < k
      <4>1. q[m] \in LastOf(script) /\ q[m] < k /\ script[q[m]].to # "upgrade"
        BY <1>7
      <4>2. IF q[m] = Refusal THEN m = Len(q)
            ELSE /\ q[m] \in LastOf(script) /\ \A i \in 1..m - 1 : q[i] # q[m]
                 /\ IF script[q[m]].to = "upgrade" THEN Threaded => m = Len(q)
                    ELSE \A l \in LastOf(script) :
                             l < q[m] => \E i \in 1..m - 1 : q[i] = l
        BY DEF Heard, q
      <4> QED
        BY <1>0, <4>1, <4>2
    <3>3. \A i \in 1..j - 1 : r[i] # q[m]
      <4> SUFFICES ASSUME NEW i \in 1..j - 1 PROVE r[i] # q[m]
        OBVIOUS
      <4>1. CASE i <= Len(g)
        <5>1. i \in 1..m - 1 /\ i \in 1..Len(q)
          BY <1>1, <2>0, <3>1, <4>1, SMTT(60)
        <5> QED
          BY <1>4, <3>2, <4>1, <5>1
      <4>2. CASE i = Len(g) + 1
        BY <1>0, <1>6, <3>2, <4>2
      <4>3. CASE i > Len(g) + 1
        <5>1. i - 1 \in 1..m - 1 /\ i - 1 \in 1..Len(q) /\ i - 1 > Len(g) /\ (i - 1) + 1 = i
          BY <1>1, <2>0, <3>1, <4>3
        <5>2. r[(i - 1) + 1] = q[i - 1]
          BY <1>5, <5>1
        <5> QED
          BY <3>2, <5>1, <5>2
      <4> QED
        BY <1>1, <4>1, <4>2, <4>3
    <3>4. \A l \in LastOf(script) : l < q[m] => \E i \in 1..j - 1 : r[i] = l
      <4> SUFFICES ASSUME NEW l \in LastOf(script), l < q[m] PROVE \E i \in 1..j - 1 : r[i] = l
        OBVIOUS
      <4>1. PICK i \in 1..m - 1 : q[i] = l
        BY <3>2
      <4>2. CASE i <= Len(g)
        <5>1. i \in 1..Len(q) /\ i \in 1..j - 1
          BY <2>0, <3>1, <4>1
        <5> QED
          BY <1>4, <4>1, <4>2, <5>1
      <4>3. CASE i > Len(g)
        <5>1. i \in 1..Len(q) /\ i + 1 \in 1..j - 1
          BY <1>1, <2>0, <3>1, <4>1, <4>3
        <5> QED
          BY <1>5, <4>1, <4>3, <5>1
      <4> QED
        BY <1>1, <4>2, <4>3
    <3> QED
      BY <3>1, <3>2, <3>3, <3>4
  <2> QED
    BY <2>1, <2>2
<1>9. Heard(script, h)
  <2>1. Heard(script, g)
    BY HeardPrefix
  <2> SUFFICES ASSUME NEW j \in 1..Len(h)
               PROVE  IF h[j] = Refusal THEN j = Len(h)
                      ELSE /\ h[j] \in LastOf(script) /\ \A i \in 1..j - 1 : h[i] # h[j]
                           /\ IF script[h[j]].to = "upgrade" THEN Threaded => j = Len(h)
                              ELSE \A l \in LastOf(script) :
                                       l < h[j] => \E i \in 1..j - 1 : h[i] = l
    BY DEF Heard
  <2>2. \A m \in 1..Len(g) : h[m] = q[m] /\ m \in 1..Len(q)
    <3> SUFFICES ASSUME NEW m \in 1..Len(g) PROVE h[m] = q[m] /\ m \in 1..Len(q)
      OBVIOUS
    <3>1. m \in 1..Len(q) /\ m <= Len(g)
      BY <1>1, <1>2
    <3>2. q[m] = g[m]
      BY <1>2, <3>1
    <3> QED
      BY <1>1, <3>1, <3>2
  <2>3. \A m \in 1..Len(g) : /\ h[m] \in LastOf(script) /\ h[m] < k
                             /\ script[h[m]].to # "upgrade" /\ h[m] # Refusal
    BY <1>0, <1>7, <2>2
  <2>4. \A i \in 1..j - 1 : i \in 1..Len(g)
    BY <1>1
  <2>5. CASE j \in 1..Len(g)
    <3>1. IF g[j] = Refusal THEN j = Len(g)
          ELSE /\ g[j] \in LastOf(script) /\ \A i \in 1..j - 1 : g[i] # g[j]
               /\ IF script[g[j]].to = "upgrade" THEN Threaded => j = Len(g)
                  ELSE \A l \in LastOf(script) :
                           l < g[j] => \E i \in 1..j - 1 : g[i] = l
      BY <2>1, <2>5 DEF Heard
    <3>2. g[j] = h[j] /\ \A i \in 1..j - 1 : g[i] = h[i]
      BY <1>1, <2>4, <2>5
    <3> QED
      BY <2>3, <2>5, <3>1, <3>2, ZenonT(60)
  <2>6. CASE j = Len(g) + 1
    <3>1. \A i \in 1..j - 1 : h[i] # k
      BY <1>0, <2>3, <2>4
    <3> QED
      BY <1>0, <1>1, <2>6, <3>1
  <2> QED
    BY <1>1, <2>5, <2>6
<1> QED
  BY <1>1, <1>8, <1>9 DEF h, r

\* A set of naturals has a least one.
LEMMA LeastNat ==
    ASSUME NEW T \in SUBSET Nat, T # {}
    PROVE  First(T) \in T /\ \A l \in T : First(T) <= l
<1> DEFINE R == OpToRel(<, Nat)
<1>1. IsWellFoundedOn(R, Nat)
  BY NatLessThanWellFounded
<1>2. \A x, y \in Nat : <<y, x>> \in R <=> y < x
  BY DEF OpToRel
<1> HIDE DEF R
<1>3. \E x \in T : \A y \in T : ~ (<<y, x>> \in R)
  BY <1>1, WFMin
<1>4. PICK x \in T : \A y \in T : ~ (<<y, x>> \in R)
  BY <1>3
<1>5. \A y \in T : x \in Nat /\ y \in Nat /\ ~ (y < x)
  BY <1>2, <1>4, Zenon
<1>6. \A y \in T : x <= y
  BY <1>5
<1> QED
  BY <1>6 DEF First

\* The request parsed next is the first one unanswered.
LEMMA ParsedNext ==
    ASSUME NEW t, NEW W, TurnInv(t, W), t.lives, ~ t.c.upgraded, ~ Busy(t.s), Whole(t.c) # {}
    PROVE  LET k == First(Whole(t.c))
           IN  /\ k \in LastOf(t.p.script) /\ t.c.used < k /\ k <= t.c.read
               /\ Told(t.p.script, Stream(t), k)
<1> DEFINE S == Whole(t.c)
           k == First(S)
<1>0. /\ t \in Turns /\ t.c.used \in Nat /\ t.c.read \in Nat /\ t.p.script \in Scripts
      /\ t.c.who = W /\ t.p.script = peer[W].script
  BY TurnParts DEF TurnInv, Ground
<1>1. S = {l \in LastOf(t.p.script) : t.c.used < l /\ l <= t.c.read}
  BY <1>0 DEF Whole, LastPieces, LastOf
<1>2. LastOf(t.p.script) \subseteq Nat
  BY <1>0, LastOfRange
<1>3. S \in SUBSET Nat /\ S # {}
  BY <1>1, <1>2
<1> HIDE DEF S
<1>4. k \in S /\ \A l \in S : k <= l
  BY <1>3, LeastNat
<1> HIDE DEF k
<1>5. k \in LastOf(t.p.script) /\ t.c.used < k /\ k <= t.c.read /\ k \in Nat
  BY <1>1, <1>2, <1>4
<1>6. \A l \in LastOf(t.p.script) : l < k <=> l < t.c.used + 1
  <2> SUFFICES ASSUME NEW l \in LastOf(t.p.script) PROVE l < k <=> l < t.c.used + 1
    OBVIOUS
  <2>1. l \in Nat
    BY <1>2
  <2>2. CASE l \in S
    BY <1>0, <1>1, <1>4, <1>5, <2>1, <2>2
  <2>3. CASE l \notin S
    BY <1>0, <1>1, <1>5, <2>1, <2>3
  <2> QED
    BY <2>2, <2>3
<1>7. Told(t.p.script, Stream(t), t.c.used + 1)
  BY DEF TurnInv, Edge
<1>8. Told(t.p.script, Stream(t), k)
  BY <1>6, <1>7 DEF Told
<1> QED
  BY <1>5, <1>8 DEF k, S

\* Between two rounds the slot is free, or has a request for another thread.
Between(t, W) ==
    /\ TurnInv(t, W) /\ t.s.state \in {"idle", "queued"}
    /\ t.s.state = "queued" => t.lives /\ ~ t.more /\ Threaded /\ t.s.answer = "write"

\* A turn's request, taken from the buffer into slot s.
Took(t, k, s) == [t EXCEPT !.c.used = k, !.left = @ - 1, !.s = s]

\* It costs one of the budget, and changes nothing of the peer.
LEMMA TookType ==
    ASSUME NEW t \in Turns, NEW k \in Nat, t.left > 0, NEW s \in Slot
    PROVE  LET u == Took(t, k, s)
           IN  /\ u \in Turns /\ u.s = s /\ u.p = t.p /\ u.lives = t.lives /\ u.more = t.more
               /\ u.c.used = k /\ u.c.who = t.c.who /\ u.c.read = t.c.read
               /\ u.c.owed = t.c.owed /\ u.c.upgraded = t.c.upgraded
<1> DEFINE c == NewUsed(t.c, k)
           v == NewConn(t, c)
           w == NewLeft(v, t.left - 1)
           u == NewSlot(w, s)
<1>1. Took(t, k, s) = u
  BY Zenon DEF Turns, Took, NewUsed, NewConn, NewLeft, NewSlot
<1>0. t.c \in Conn /\ t.left - 1 \in 0..RequestBudget
  <2>1. t.c \in Conn /\ t.left \in 0..RequestBudget /\ RequestBudget \in Nat
    BY TurnParts, Constants
  <2> QED
    BY <2>1
<1>2. /\ c \in Conn /\ c.used = k /\ c.who = t.c.who /\ c.read = t.c.read
      /\ c.owed = t.c.owed /\ c.upgraded = t.c.upgraded
  BY <1>0, NewUsedType
<1> HIDE DEF c
<1>3. v \in Turns /\ v.c = c /\ v.p = t.p /\ v.lives = t.lives /\ v.more = t.more
  BY <1>2, NewConnType
<1> HIDE DEF v
<1>4. w \in Turns /\ w.c = c /\ w.p = t.p /\ w.lives = t.lives /\ w.more = t.more
  BY <1>0, <1>3, NewLeftType
<1> HIDE DEF w
<1>5. /\ u \in Turns /\ u.s = s /\ u.c = c /\ u.p = t.p /\ u.lives = t.lives /\ u.more = t.more
  BY <1>4, NewSlotType
<1> HIDE DEF u
<1> QED
  BY <1>1, <1>2, <1>5

\* Without workers the request is answered, refused or upgraded on the spot.
LEMMA AnsweredHereInv ==
    ASSUME ~ Threaded, NEW t, NEW W, Ground(t, W), t.lives, ~ t.c.upgraded,
           NEW k \in LastOf(t.p.script), Heard(t.p.script, Stream(t)),
           Told(t.p.script, Stream(t), k), t.c.used = k,
           t.s.state = "idle", t.s.answer = "write", t.s.request = k, t.s.to = t.p.script[k].to
    PROVE  Between(AnsweredHere(t), W)
<1>0. /\ t \in Turns /\ t.s \in Slot /\ IdleSlot \in Slot /\ t.p \in PeerEnd /\ t.c \in Conn
      /\ t.p.script \in Scripts /\ t.p.got \in Seq(Nat) /\ t.c.owed \in Seq(Nat)
      /\ IdleSlot.state = "idle" /\ ~ Busy(IdleSlot)
  BY TurnParts, Constants DEF Ground, IdleSlot
<1>1. ASSUME NEW s \in Slot, s.answer = "write", s.response = k,
             t.p.script[k].to = "upgrade" => s.closeAfter
      PROVE  Between(Completed(NewSlot(t, s)), W)
  <2> DEFINE u == NewSlot(t, s)
  <2>1. /\ u \in Turns /\ u.s = s /\ u.c = t.c /\ u.p = t.p /\ u.left = t.left
        /\ u.lives = t.lives /\ u.more = t.more
    BY <1>0, NewSlotType
  <2> HIDE DEF u
  <2>2. Ground(u, W) /\ Stream(u) = Stream(t)
    BY <2>1 DEF Ground, Stream
  <2>3. TurnInv(Completed(u), W) /\ Completed(u).s = IdleSlot
    BY <1>1, <2>1, <2>2, CompletedInv
  <2> QED
    BY <1>0, <2>3 DEF Between, u
<1>2. CASE t.s.to # "upgrade"
  <2>1. AnsweredHere(t) = Completed(NewSlot(t, Dispatched(t.s)))
    BY <1>2, Zenon DEF AnsweredHere, NewSlot
  <2>2. /\ Dispatched(t.s) \in Slot /\ Dispatched(t.s).answer = "write"
        /\ Dispatched(t.s).response = k
    BY <1>0, SlotChanges
  <2> QED
    BY <1>1, <1>2, <2>1, <2>2
<1>3. CASE t.s.to = "upgrade" /\ ~ Accepts101(t.s, t.p)
  <2>1. AnsweredHere(t) = Completed(NewSlot(t, Refused101(t.s)))
    BY <1>3, Zenon DEF AnsweredHere, NewSlot
  <2>2. /\ Refused101(t.s) \in Slot /\ Refused101(t.s).answer = "write"
        /\ Refused101(t.s).response = k /\ Refused101(t.s).closeAfter
    BY <1>0, SlotChanges
  <2> QED
    BY <1>1, <2>1, <2>2
<1>4. CASE t.s.to = "upgrade" /\ Accepts101(t.s, t.p)
  <2> DEFINE g == Append(t.p.got, k)
             p == NewHeard(t.p, g, t.p.unread + 1)
             c == NewUpgraded(t.c)
             v == NewSlot(t, IdleSlot)
             w == NewPeer(v, p)
             x == NewConn(w, c)
             u == NewMore(x, FALSE)
  <2>1. AnsweredHere(t) = u
    <3>1. AnsweredHere(t) = [t EXCEPT !.s = IdleSlot, !.c.upgraded = TRUE, !.p = Sent101(t.s, t.p),
                                      !.more = FALSE]
      BY <1>4, Zenon DEF AnsweredHere, Turns
    <3>2. Sent101(t.s, t.p) = p
      <4>1. Sent101(t.s, t.p) = [[t.p EXCEPT !.got = Append(t.p.got, t.s.request)]
                                    EXCEPT !.unread = t.p.unread + 1]
        BY <1>0, Zenon DEF Sent101, PeerEnd
      <4> QED
        BY <4>1, Zenon DEF NewHeard
    <3> HIDE DEF p
    <3>3. [t EXCEPT !.s = IdleSlot, !.c.upgraded = TRUE, !.p = p, !.more = FALSE] = u
      BY <1>0, Zenon DEF Turns, NewUpgraded, NewSlot, NewPeer, NewConn, NewMore
    <3> QED
      BY <3>1, <3>2, <3>3, Zenon
  <2>2. /\ g \in Seq(Nat) /\ Heard(t.p.script, g) /\ Heard(t.p.script, g \o t.c.owed)
    BY <1>0, <1>4, Overtaken DEF Stream
  <2> HIDE DEF g
  <2>3. /\ p \in PeerEnd /\ p.got = g /\ p.script = t.p.script /\ p.state = t.p.state
        /\ p.sent = t.p.sent
    <3>1. t.p.unread + 1 \in 0..Window
      BY <1>0, <1>4, TurnParts, Constants DEF Accepts101
    <3> QED
      BY <1>0, <2>2, <3>1, NewHeardType
  <2> HIDE DEF p
  <2>4. /\ c \in Conn /\ c.who = t.c.who /\ c.read = t.c.read /\ c.used = t.c.used
        /\ c.owed = t.c.owed /\ c.upgraded
    BY <1>0, NewUpgradedType
  <2> HIDE DEF c
  <2>5. v \in Turns /\ v.s = IdleSlot /\ v.c = t.c /\ v.p = t.p
    BY <1>0, NewSlotType
  <2> HIDE DEF v
  <2>6. w \in Turns /\ w.s = IdleSlot /\ w.c = t.c /\ w.p = p
    BY <2>3, <2>5, NewPeerType
  <2> HIDE DEF w
  <2>7. x \in Turns /\ x.s = IdleSlot /\ x.c = c /\ x.p = p
    BY <2>4, <2>6, NewConnType
  <2> HIDE DEF x
  <2>8. u \in Turns /\ u.s = IdleSlot /\ u.c = c /\ u.p = p /\ u.more = FALSE
    BY <2>7, NewMoreType
  <2> HIDE DEF u
  <2>9. Ground(u, W) /\ SlotFits(u.c, u.s, u.p)
    BY <1>0, <2>3, <2>4, <2>8 DEF Ground, Sound, SlotFits
  <2>10. Heard(u.p.script, u.p.got) /\ Heard(u.p.script, Stream(u))
    BY <2>2, <2>3, <2>4, <2>8 DEF Stream
  <2> QED
    BY <1>0, <2>1, <2>4, <2>8, <2>9, <2>10 DEF TurnInv, Between
<1> QED
  BY <1>2, <1>3, <1>4

\* A round of the loop.
LEMMA HandledOnceInv ==
    ASSUME NEW t, NEW W, Between(t, W)
    PROVE  Between(HandledOnce(t), W)
<1> DEFINE idles == ~ (t.lives /\ t.more /\ t.left > 0 /\ Buffered(t.c) > 0 /\ ~ t.c.closing)
           script == t.p.script
           k == First(Whole(t.c))
           s == SlotFor(t.c.who, k, script[k].keep, script[k].to, t.c.read - k)
           u == Took(t, k, s)
           q == NewMore(NewSlot(u, Queues(u.s)), FALSE)
<1>0. TurnInv(t, W) /\ t \in Turns /\ Ground(t, W) /\ t.s \in Slot
  BY TurnParts DEF Between, TurnInv, Ground
<1>1. HandledOnce(t) = IF idles THEN t
                       ELSE IF server.draining THEN Refused(t)
                       ELSE IF Whole(t.c) = {} THEN NewMore(t, FALSE)
                       ELSE IF script[k].to = "nowhere" THEN Refused(t)
                       ELSE IF Threaded THEN [u EXCEPT !.s.state = "queued", !.more = FALSE]
                       ELSE AnsweredHere(u)
  BY Zenon DEF HandledOnce, Took, SlotFor, NewMore
<1>2. CASE idles
  BY <1>1, <1>2
<1> SUFFICES ASSUME ~ idles PROVE Between(HandledOnce(t), W)
  BY <1>2
<1>3. t.lives /\ t.more /\ t.left > 0 /\ t.s.state = "idle" /\ ~ Busy(t.s) /\ ~ t.c.upgraded
  BY DEF Between, TurnInv, Busy
<1> HIDE DEF idles
<1>4. Between(Refused(t), W)
  BY <1>0, <1>3, RefusedInv DEF Between
<1>5. Between(NewMore(t, FALSE), W)
  <2> DEFINE v == NewMore(t, FALSE)
  <2>1. /\ v \in Turns /\ v.more = FALSE /\ v.c = t.c /\ v.s = t.s /\ v.p = t.p
        /\ v.left = t.left /\ v.lives = t.lives
    BY <1>0, NewMoreType
  <2> HIDE DEF v
  <2>2. Ground(v, W) /\ Stream(v) = Stream(t)
    BY <1>0, <2>1 DEF Ground, Stream
  <2>3. TurnInv(v, W)
    BY <1>0, <2>1, <2>2 DEF TurnInv
  <2> QED
    BY <1>3, <2>1, <2>3 DEF Between, v
<1>6. CASE Whole(t.c) # {} /\ script[k].to # "nowhere"
  <2>1. k \in LastOf(script) /\ t.c.used < k /\ k <= t.c.read /\ Told(script, Stream(t), k)
    BY <1>0, <1>3, <1>6, ParsedNext
  <2> HIDE DEF k
  <2>2. /\ script \in Scripts /\ k \in Nat /\ t.c.who \in Peers /\ t.c.read - k \in Nat
        /\ script[k].keep \in BOOLEAN /\ script[k].to \in {"worker", "main", "upgrade"}
    <3>1. script \in Scripts /\ t.c.read \in Nat /\ t.c.who \in Peers
      BY <1>0, TurnParts DEF Ground
    <3>2. k \in Nat /\ k <= t.c.read
      BY <2>1, <3>1, LastOfRange
    <3>3. t.c.read - k \in Nat
      BY <3>1, <3>2
    <3>4. /\ script[k].keep \in BOOLEAN
          /\ script[k].to \in {"worker", "main", "upgrade", "nowhere"}
      BY <2>1, <3>1, LastOfRange
    <3> QED
      BY <1>6, <3>1, <3>2, <3>3, <3>4
  <2>3. /\ s \in Slot /\ s.state = "idle" /\ s.who = t.c.who /\ s.request = k
        /\ s.to = script[k].to /\ s.answer = "write"
    BY <2>2, SlotForType
  <2> HIDE DEF s
  <2>4. /\ u \in Turns /\ u.s = s /\ u.p = t.p /\ u.lives = t.lives /\ u.more = t.more
        /\ u.c.used = k /\ u.c.who = t.c.who /\ u.c.read = t.c.read
        /\ u.c.owed = t.c.owed /\ u.c.upgraded = t.c.upgraded
    <3>1. t \in Turns /\ k \in Nat /\ t.left > 0 /\ s \in Slot
      BY <1>0, <1>3, <2>2, <2>3
    <3> QED
      BY <3>1, TookType
  <2> HIDE DEF u
  <2>5. Ground(u, W) /\ Stream(u) = Stream(t)
    <3>1. Sound(u.c, u.p)
      <4>1. t.c.read \in Nat /\ t.c.used \in Nat /\ ReceiveCap \in Nat
        BY <1>0, TurnParts, Constants
      <4> QED
        BY <1>0, <2>1, <2>2, <2>4, <4>1 DEF Ground, Sound
    <3> QED
      BY <1>0, <2>4, <3>1 DEF Ground, Stream
  <2>6. /\ Heard(u.p.script, Stream(u)) /\ Heard(u.p.script, u.p.got)
        /\ Told(u.p.script, Stream(u), k)
    BY <1>0, <1>3, <2>1, <2>4, <2>5 DEF TurnInv
  <2>7. CASE ~ Threaded
    <3>1. Between(AnsweredHere(u), W)
      BY <1>3, <2>1, <2>3, <2>4, <2>5, <2>6, <2>7, AnsweredHereInv
    <3> QED
      BY <1>1, <1>4, <1>6, <2>7, <3>1 DEF k
  <2>8. CASE Threaded
    <3> DEFINE r == Queues(u.s)
               v == NewSlot(u, r)
    <3>1. /\ r \in Slot /\ r.state = "queued" /\ r.who = t.c.who /\ r.request = k
          /\ r.to = script[k].to /\ r.answer = "write"
      BY <2>3, <2>4, SlotChanges
    <3>2. [u EXCEPT !.s.state = "queued", !.more = FALSE] = q
      BY <2>4, Zenon DEF Turns, NewMore, NewSlot, Queues
    <3> HIDE DEF r
    <3>3. v \in Turns /\ v.s = r /\ v.c = u.c /\ v.p = u.p /\ v.lives = u.lives
      BY <2>4, <3>1, NewSlotType
    <3> HIDE DEF v
    <3>4. q \in Turns /\ q.s = r /\ q.c = u.c /\ q.p = u.p /\ q.lives = u.lives /\ q.more = FALSE
      BY <3>3, NewMoreType DEF v, r
    <3> HIDE DEF q
    <3>5. Ground(q, W) /\ Stream(q) = Stream(u)
      BY <2>5, <3>4 DEF Ground, Stream
    <3>6. SlotFits(q.c, q.s, q.p) /\ Edge(q.c, q.s) = k
      BY <2>1, <2>4, <3>1, <3>4 DEF SlotFits, Edge, Busy
    <3>7. Between(q, W)
      BY <1>3, <2>4, <2>6, <2>8, <3>1, <3>4, <3>5, <3>6 DEF Between, TurnInv
    <3> QED
      BY <1>1, <1>4, <1>6, <2>8, <3>2, <3>7 DEF k
  <2> QED
    BY <2>7, <2>8
<1> QED
  BY <1>1, <1>4, <1>5, <1>6

\* The loop, to its end: what every round keeps, all of them do.
LEMMA HandledKeeps ==
    ASSUME NEW t, NEW G, t \in G, \A u \in G : HandledOnce(u) \in G
    PROVE  Handled(t) \in G
<1> DEFINE B == RequestBudget
           Solves(f, m) == f = [n \in 0..m |-> IF n = 0 THEN t ELSE HandledOnce(f[n - 1])]
           Bad == {m \in 0..B : ~ \E f : Solves(f, m)}
<1>0. B \in Nat
  BY Constants
<1> HIDE DEF B
<1>1. Bad = {}
  <2> SUFFICES ASSUME Bad # {} PROVE FALSE
    OBVIOUS
  <2>0. Bad \in SUBSET Nat
    OBVIOUS
  <2> DEFINE m == First(Bad)
  <2> HIDE DEF Bad
  <2>1. m \in Bad /\ \A y \in Bad : m <= y
    BY <2>0, LeastNat
  <2> HIDE DEF m
  <2> USE DEF Bad
  <2>2. m \in Nat /\ m <= B
    BY <1>0, <2>1
  <2>3. CASE m = 0
    <3> DEFINE g == [n \in 0..0 |-> t]
    <3>1. \A n \in 0..0 : n = 0
      OBVIOUS
    <3>2. g = [n \in 0..0 |-> IF n = 0 THEN t ELSE HandledOnce(g[n - 1])]
      BY <3>1
    <3> QED
      BY <2>1, <2>3, <3>2
  <2>4. CASE m # 0
    <3>1. m - 1 \in 0..B /\ m - 1 \notin Bad
      BY <1>0, <2>1, <2>2, <2>4
    <3>2. PICK f : Solves(f, m - 1)
      BY <3>1
    <3> DEFINE g == [n \in 0..m |-> IF n = m THEN HandledOnce(f[m - 1]) ELSE f[n]]
    <3>3. Solves(g, m)
      <4>1. \A n \in 0..m : n # m => g[n] = f[n] /\ n \in 0 .. m - 1
        BY <2>2
      <4>2. \A n \in 0..m - 1 : f[n] = IF n = 0 THEN t ELSE HandledOnce(f[n - 1])
        BY <3>2
      <4>3. \A n \in 0..m : g[n] = IF n = 0 THEN t ELSE HandledOnce(g[n - 1])
        <5> SUFFICES ASSUME NEW n \in 0..m
                     PROVE  g[n] = IF n = 0 THEN t ELSE HandledOnce(g[n - 1])
          OBVIOUS
        <5>1. CASE n = m
          <6>1. g[n] = HandledOnce(f[m - 1]) /\ g[n - 1] = f[m - 1]
            BY <2>2, <2>4, <5>1
          <6> QED
            BY <2>4, <5>1, <6>1
        <5>2. CASE n # m /\ n = 0
          BY <4>1, <4>2, <5>2
        <5>3. CASE n # m /\ n # 0
          <6>1. n \in 0 .. m - 1 /\ n - 1 \in 0 .. m /\ n - 1 # m
            BY <2>2, <5>3
          <6> QED
            BY <4>1, <4>2, <5>3, <6>1
        <5> QED
          BY <5>1, <5>2, <5>3
      <4>4. g = [n \in 0..m |-> g[n]]
        OBVIOUS
      <4> HIDE DEF g
      <4> QED
        BY <4>3, <4>4
    <3> QED
      BY <2>1, <3>3
  <2> QED
    BY <2>3, <2>4
<1> DEFINE rounds == CHOOSE f : Solves(f, B)
           Out == {n \in 0..B : rounds[n] \notin G}
<1>2. Handled(t) = rounds[B]
  BY Zenon DEF Handled, B
<1>3. Solves(rounds, B)
  <2>1. B \in 0..B /\ B \notin Bad
    BY <1>0, <1>1
  <2> HIDE DEF Solves
  <2>2. \E f : Solves(f, B)
    BY <2>1, Zenon DEF Bad
  <2> QED
    BY <2>2, Zenon
<1>4. \A n \in 0..B : rounds[n] = IF n = 0 THEN t ELSE HandledOnce(rounds[n - 1])
  <2> HIDE DEF rounds
  <2> QED
    BY <1>3
<1> HIDE DEF rounds
<1>5. Out = {}
  <2> SUFFICES ASSUME Out # {} PROVE FALSE
    OBVIOUS
  <2>1. Out \in SUBSET Nat
    OBVIOUS
  <2> DEFINE m == First(Out)
  <2> HIDE DEF Out
  <2>2. m \in Out /\ \A y \in Out : m <= y
    BY <2>1, LeastNat
  <2> HIDE DEF m
  <2> USE DEF Out
  <2>3. m \in 0..B /\ rounds[m] \notin G
    BY <2>2
  <2>4. m # 0
    BY <1>4, <2>3
  <2>5. m - 1 \in 0..B /\ m - 1 \notin Out
    BY <1>0, <2>2, <2>3, <2>4
  <2>6. rounds[m - 1] \in G
    BY <2>5
  <2>7. rounds[m] = HandledOnce(rounds[m - 1])
    BY <1>4, <2>3, <2>4
  <2> QED
    BY <2>3, <2>6, <2>7
<1> QED
  BY <1>0, <1>2, <1>5

\* The rounds keep the turn in order.
LEMMA HandledInv ==
    ASSUME NEW t, NEW W, Between(t, W)
    PROVE  Between(Handled(t), W)
<1> DEFINE G == {u \in Turns : Between(u, W)}
<1>1. \A u : Between(u, W) => u \in Turns
  BY DEF Between, TurnInv, Ground
<1>2. t \in G /\ \A u \in G : HandledOnce(u) \in G
  BY <1>1, HandledOnceInv
<1> HIDE DEF G
<1>3. Handled(t) \in G
  BY <1>2, HandledKeeps
<1> QED
  BY <1>3 DEF G

\* A flush in a turn that lives leaves its stream as it was.
LEMMA FlushedInv ==
    ASSUME NEW t, NEW W, TurnInv(t, W), t.lives
    PROVE  TurnInv(Flushed(t), W) /\ Flushed(t).s = t.s
<1> DEFINE u == Flushed(t)
<1>1. t \in Turns /\ Ground(t, W) /\ Len(t.c.owed) <= SendCap
  BY DEF TurnInv, Ground, Sound
<1>2. Kept(t, u) /\ Stream(u) = Stream(t)
  BY <1>1, FlushedKeeps
<1> HIDE DEF u
<1>3. /\ u \in Turns /\ u.s = t.s /\ u.more = t.more /\ u.c.used = t.c.used
      /\ u.c.who = t.c.who /\ u.c.upgraded = t.c.upgraded /\ u.p.script = t.p.script
  BY <1>2 DEF Kept
<1>4. Ground(u, W)
  BY <1>1, <1>2, KeptGround
<1>5. SlotFits(u.c, u.s, u.p) /\ Edge(u.c, u.s) = Edge(t.c, t.s)
  BY <1>3 DEF TurnInv, SlotFits, Edge
<1>6. Heard(u.p.script, Stream(u)) /\ Heard(u.p.script, u.p.got)
  BY <1>2, <1>3, TurnHeard DEF TurnInv
<1>7. TurnInv(u, W)
  BY <1>2, <1>3, <1>4, <1>5, <1>6 DEF TurnInv
<1> QED
  BY <1>3, <1>7 DEF u

\* The end of a turn: a flush, and a close.
LEMMA EndedInv ==
    ASSUME NEW t, NEW W, Between(t, W)
    PROVE  Between(Ended(t), W)
<1> DEFINE b == t.c.closing \/ (t.c.peerClosed /\ t.left > 0)
           c == NewClosing(t.c, b)
           u == NewConn(t, c)
           v == Flushed(u)
           l == v.lives /\ ~ Finished(v.c)
<1>0. TurnInv(t, W) /\ t \in Turns /\ t.c \in Conn /\ b \in BOOLEAN /\ t.left \in 0..RequestBudget
  BY TurnParts DEF Between, TurnInv, Ground
<1>1. [t EXCEPT !.c.closing = @ \/ (t.c.peerClosed /\ t.left > 0)] = u
  BY <1>0, Zenon DEF Turns, NewConn, NewClosing
<1> HIDE DEF b
<1>2. /\ c \in Conn /\ c.who = t.c.who /\ c.used = t.c.used /\ c.read = t.c.read
      /\ c.owed = t.c.owed /\ c.upgraded = t.c.upgraded
  BY <1>0, NewClosingType
<1> HIDE DEF c
<1>3. TurnInv(u, W) /\ u.s = t.s /\ u.more = t.more /\ u.lives = t.lives
  <2>1. Sound(c, t.p)
    BY <1>0, <1>2 DEF TurnInv, Ground, Sound
  <2> QED
    BY <1>0, <1>2, <2>1, InputInv
<1>4. Ended(t) = IF ~ t.lives \/ u.s.state # "idle" THEN u
                 ELSE IF u.c.aged THEN NewLife(u, FALSE)
                 ELSE NewLife(v, l)
  <2> HIDE DEF u
  <2> QED
    BY <1>1, Zenon DEF Ended, NewLife
<1> HIDE DEF u
<1>5. CASE Ended(t) = u
  BY <1>3, <1>5 DEF Between
<1>6. CASE Ended(t) = NewLife(u, FALSE) /\ u.s.state = "idle"
  <2>1. TurnInv(NewLife(u, FALSE), W) /\ NewLife(u, FALSE).s = u.s
    BY <1>3, LifeInv
  <2> QED
    BY <1>6, <2>1 DEF Between
<1>7. CASE Ended(t) = NewLife(v, l) /\ t.lives /\ u.s.state = "idle"
  <2>1. TurnInv(v, W) /\ v.s = u.s
    BY <1>3, <1>7, FlushedInv
  <2> HIDE DEF v
  <2>2. v.lives \in BOOLEAN
    BY <2>1, TurnParts DEF TurnInv, Ground
  <2>3. l \in BOOLEAN /\ (l => v.lives)
    BY <2>2
  <2> HIDE DEF l
  <2>4. TurnInv(NewLife(v, l), W) /\ NewLife(v, l).s = v.s
    BY <2>1, <2>3, LifeInv
  <2> QED
    BY <1>7, <2>1, <2>4 DEF Between
<1> HIDE DEF v, l
<1> QED
  BY <1>4, <1>5, <1>6, <1>7, Zenon

\* The turn a connection begins with.
Start(i) == [c |-> conn[i], s |-> exchange[i], p |-> peer[conn[i].who], left |-> pass.left,
             lives |-> TRUE, more |-> TRUE]

\* A connection's whole turn.
LEMMA TurnKeeps ==
    ASSUME Types, NEW i \in Places, Ours(i), PlaceFits(i),
           peer[conn[i].who].sent <= Len(peer[conn[i].who].script),
           Heard(peer[conn[i].who].script, peer[conn[i].who].got), ~ Flagging(i)
    PROVE  Between(Turn(i), conn[i].who)
<1> DEFINE t == Start(i)
           W == conn[i].who
           u == IF t.s.state = "done" THEN Completed(t) ELSE t
           v == IF u.lives THEN Received(u) ELSE u
<1>1. /\ W \in Peers /\ t \in Turns /\ t.c = conn[i] /\ t.s = exchange[i] /\ t.p = peer[W]
      /\ t.lives = TRUE /\ t.more = TRUE /\ t.left = pass.left
  <2>1. conn[i] \in Conn /\ exchange[i] \in Slot /\ pass.left \in 0..RequestBudget
    BY DEF Types, PassType
  <2>2. W \in Peers
    BY <2>1 DEF Conn, Ours, Free
  <2>3. peer[W] \in PeerEnd
    BY <2>2 DEF Types
  <2> QED
    BY <2>1, <2>2, <2>3 DEF Start, Turns
<1>2. Turn(i) = Ended(Handled(v))
  BY Zenon DEF Turn, Start
<1>3. /\ ~ Free(i) /\ ~ conn[i].upgraded /\ exchange[i].state \in {"idle", "done"}
      /\ peer[W].state \in {"open", "reset"} /\ Sound(conn[i], peer[W])
      /\ SlotFits(conn[i], exchange[i], peer[W])
      /\ Told(peer[W].script, peer[W].got \o conn[i].owed, Edge(conn[i], exchange[i]))
      /\ Heard(peer[W].script, peer[W].got \o conn[i].owed)
  BY DEF Ours, PlaceFits
<1> HIDE DEF t
<1>4. Ground(t, W) /\ TurnInv(t, W) /\ ~ t.c.upgraded
  <2>1. Ground(t, W)
    BY <1>1, <1>3 DEF Ground
  <2> QED
    BY <1>1, <1>3, <2>1 DEF TurnInv, Stream
<1>5. TurnInv(u, W) /\ u.s.state = "idle" /\ ~ u.c.upgraded
  <2>1. CASE t.s.state = "idle"
    BY <1>4, <2>1
  <2>2. CASE t.s.state = "done" /\ t.s.answer = "upgraded"
    BY <1>4, <2>2, CompletedAfter101 DEF IdleSlot
  <2>3. CASE t.s.state = "done" /\ t.s.answer = "write"
    <3> DEFINE k == t.s.request
    <3>1. Busy(t.s) /\ Edge(t.c, t.s) = k
      BY <2>3 DEF Busy, Edge
    <3>2. /\ k \in LastOf(t.p.script) /\ t.c.used = k /\ t.s.response = k
          /\ t.p.script[k].to = "upgrade" => t.s.closeAfter
      BY <1>4, <2>3, <3>1 DEF TurnInv, SlotFits
    <3>3. Heard(t.p.script, Stream(t)) /\ Told(t.p.script, Stream(t), k)
      BY <1>1, <1>4, <3>1 DEF TurnInv
    <3> HIDE DEF k
    <3>4. TurnInv(Completed(t), W) /\ Completed(t).s = IdleSlot /\ ~ Completed(t).c.upgraded
      BY <1>1, <1>4, <2>3, <3>2, <3>3, CompletedInv
    <3> QED
      BY <2>3, <3>4 DEF IdleSlot
  <2>4. t.s.answer \in {"write", "upgraded"}
    BY <1>1, TurnParts DEF Slot
  <2> QED
    BY <1>1, <1>3, <2>1, <2>2, <2>3, <2>4
<1> HIDE DEF u
<1>6. TurnInv(v, W) /\ v.s.state = "idle"
  <2>1. CASE ~ u.lives
    BY <1>5, <2>1
  <2>2. CASE u.lives
    <3>1. ~ Busy(u.s)
      BY <1>5 DEF Busy
    <3>2. TurnInv(Received(u), W) /\ Received(u).s = u.s
      BY <1>5, <2>2, <3>1, ReceivedInv
    <3> QED
      BY <1>5, <2>2, <3>2
  <2> QED
    BY <2>1, <2>2
<1> HIDE DEF v
<1>7. Between(v, W)
  BY <1>6 DEF Between
<1>8. Between(Handled(v), W)
  BY <1>7, HandledInv
<1>9. Between(Ended(Handled(v)), W)
  BY <1>8, EndedInv
<1> QED
  BY <1>2, <1>9

-----------------------------------------------------------------------------
(* What a step leaves as it was *)

\* A connection, a slot and a peer as far as the stream between them is concerned.
SameConn(c, d) ==
    /\ d.who = c.who /\ d.read = c.read /\ d.used = c.used /\ d.owed = c.owed
    /\ d.upgraded = c.upgraded
SameSlot(s, r) ==
    \/ r = s
    \/ /\ Busy(s) /\ Busy(r) /\ r.who = s.who /\ r.request = s.request /\ r.to = s.to
       /\ r.state = "done" => r.response = r.request /\ (r.to = "upgrade" => r.closeAfter)
SamePeer(p, q) ==
    /\ q.script = p.script /\ q.got = p.got /\ (q.sent = p.sent \/ q.sent = p.sent + 1)
    /\ p.state \in {"open", "reset"} => q.state \in {"open", "reset"}

\* Heard is about the pool only.
LEMMA HeardNext ==
    ASSUME pool' = pool
    PROVE  \A script, q : Heard(script, q)' <=> Heard(script, q)
  BY DEF Heard, Threaded

\* The types, at a place.
LEMMA PlaceTypes ==
    ASSUME Types, NEW i \in Places
    PROVE  /\ conn[i] \in Conn /\ exchange[i] \in Slot
           /\ conn[i].read \in Nat /\ conn[i].used \in Nat /\ conn[i].owed \in Seq(Nat)
           /\ exchange[i].request \in Nat
           /\ exchange[i].to \in {"worker", "main", "upgrade"}
           /\ exchange[i].state \in {"idle", "queued", "running", "done"}
           /\ ~ Free(i) => /\ conn[i].who \in Peers /\ peer[conn[i].who] \in PeerEnd
                           /\ peer[conn[i].who].sent \in Nat
                           /\ peer[conn[i].who].got \in Seq(Nat)
                           /\ peer[conn[i].who].script \in Scripts
<1>1. conn[i] \in Conn /\ exchange[i] \in Slot
  BY DEF Types
<1>2. conn[i].who \in Peers => peer[conn[i].who] \in PeerEnd
  BY DEF Types
<1> QED
  BY <1>1, <1>2 DEF Conn, Slot, PeerEnd, Free

\* A place whose stream did not move fits as it did.
LEMMA StaysFit ==
    ASSUME Types, NEW i \in Places, PlaceFits(i), pool' = pool,
           SameConn(conn[i], conn'[i]), SameSlot(exchange[i], exchange'[i]),
           ~ Free(i) => SamePeer(peer[conn[i].who], peer'[conn[i].who]),
           Flagging(i) => Flagging(i)'
    PROVE  PlaceFits(i)'
<1> DEFINE c == conn[i]
           s == exchange[i]
           p == peer[conn[i].who]
           d == conn'[i]
           r == exchange'[i]
           q == peer'[conn[i].who]
<1>1. /\ d.who = c.who /\ d.read = c.read /\ d.used = c.used /\ d.owed = c.owed
      /\ d.upgraded = c.upgraded
  BY DEF SameConn
<1>2. Busy(r) <=> Busy(s)
  BY DEF SameSlot
<1>3. CASE Free(i)
  BY <1>1, <1>2, <1>3 DEF PlaceFits, Free
<1>4. CASE ~ Free(i)
  <2>1. /\ p.state \in {"open", "reset"} /\ Sound(c, p) /\ SlotFits(c, s, p)
        /\ c.upgraded => ~ Busy(s)
        /\ ~ c.upgraded /\ ~ Flagging(i) => /\ Told(p.script, p.got \o c.owed, Edge(c, s))
                                            /\ Heard(p.script, p.got \o c.owed)
    BY <1>4 DEF PlaceFits
  <2>2. /\ q.script = p.script /\ q.got = p.got /\ (q.sent = p.sent \/ q.sent = p.sent + 1)
        /\ q.state \in {"open", "reset"}
    BY <1>4, <2>1 DEF SamePeer
  <2>3. Sound(d, q)
    <3>1. c.read \in Nat /\ p.sent \in Nat
      BY <1>4, PlaceTypes
    <3> QED
      BY <1>1, <2>1, <2>2, <3>1 DEF Sound
  <2>4. SlotFits(d, r, q) /\ Edge(d, r) = Edge(c, s)
    BY <1>1, <1>2, <2>1, <2>2 DEF SlotFits, Edge, SameSlot
  <2>5. ~ Free(i)' /\ peer'[d.who] = q
    BY <1>1, <1>4 DEF Free
  <2>6. ~ d.upgraded /\ ~ Flagging(i)' =>
            /\ Told(q.script, q.got \o d.owed, Edge(d, r))
            /\ Heard(p.script, p.got \o c.owed)'
    <3>1. p'.script = p.script /\ p'.got \o c'.owed = p.got \o c.owed
      BY <1>1, <2>2, <2>5
    <3>2. Heard(p.script, p.got \o c.owed)' <=> Heard(p.script, p.got \o c.owed)
      <4> HIDE DEF p, c
      <4> QED
        BY <3>1, HeardNext
    <3> QED
      BY <1>1, <2>1, <2>2, <2>4, <3>2
  <2> QED
    BY <1>1, <1>2, <2>1, <2>2, <2>3, <2>4, <2>5, <2>6 DEF PlaceFits
<1> QED
  BY <1>3, <1>4

\* The tables of a server whose connections' streams did not move.
LEMMA TablesStay ==
    ASSUME Types, Tables, pool' = pool, main'.at = "down" <=> main.at = "down",
           \A i \in Places : /\ SameConn(conn[i], conn'[i]) /\ (Free(i) => conn'[i] = conn[i])
                             /\ main.at # "down" => SameSlot(exchange[i], exchange'[i])
                             /\ ~ Free(i) => SamePeer(peer[conn[i].who], peer'[conn[i].who])
                             /\ Flagging(i) => Flagging(i)'
    PROVE  Tables'
<1>1. ASSUME main.at # "down", NEW i \in Places
      PROVE  PlaceFits(i)'
  <2>1. PlaceFits(i)
    BY <1>1 DEF Tables
  <2>2. /\ SameConn(conn[i], conn'[i]) /\ SameSlot(exchange[i], exchange'[i])
        /\ ~ Free(i) => SamePeer(peer[conn[i].who], peer'[conn[i].who])
        /\ Flagging(i) => Flagging(i)'
    BY <1>1
  <2> QED
    BY <2>1, <2>2, StaysFit
<1>2. \A i \in Places : conn'[i].who = conn[i].who /\ (Free(i)' <=> Free(i))
  BY DEF SameConn, Free
<1>3. \A i \in Places : Free(i)' => conn'[i] = NoConnection
  BY <1>2 DEF Tables
<1>4. \A i, j \in Places : ~ Free(i)' /\ conn'[i].who = conn'[j].who => i = j
  BY <1>2 DEF Tables
<1>5. main'.at = "down" => \A i \in Places : Free(i)'
  BY <1>2 DEF Tables
<1> QED
  BY <1>1, <1>3, <1>4, <1>5 DEF Tables

\* What the peers heard, when they heard no more.
LEMMA PeersStay ==
    ASSUME PeersFit, pool' = pool,
           \A p \in Peers : /\ peer'[p].script = peer[p].script /\ peer'[p].got = peer[p].got
                            /\ peer'[p].sent <= Len(peer[p].script)
                            /\ peer'[p].state \in {"away", "waiting"} => peer'[p].sent = 0
                                                                        /\ peer[p].got = <<>>
    PROVE  PeersFit'
<1> SUFFICES ASSUME NEW p \in Peers
             PROVE  /\ peer'[p].sent <= Len(peer'[p].script)
                    /\ Heard(peer[p].script, peer[p].got)'
                    /\ peer'[p].state \in {"away", "waiting"} => peer'[p].sent = 0
                                                                 /\ peer'[p].got = <<>>
  BY DEF PeersFit
<1>1. Heard(peer[p].script, peer[p].got)
  BY DEF PeersFit
<1>2. peer'[p].script = peer[p].script /\ peer'[p].got = peer[p].got
  OBVIOUS
<1>3. Heard(peer[p].script, peer[p].got)'
  BY <1>1, <1>2, HeardNext
<1> QED
  BY <1>2, <1>3

\* An exchange that stays where it is.
LEMMA OwnedStays ==
    ASSUME NEW i \in Places, PlaceOwned(i), InWorkers(i)' <=> InWorkers(i),
           InMain(i)' <=> InMain(i), Moving(i)' <=> Moving(i), OnMain(i)' <=> OnMain(i),
           \A w \in Workers : Within(w, i)' <=> Within(w, i),
           exchange'[i].state = exchange[i].state, exchange'[i].to = exchange[i].to,
           exchange[i].state \in {"queued", "running"} => exchange'[i].answer = "write"
    PROVE  PlaceOwned(i)'
  BY DEF PlaceOwned

\* ... and every exchange does.
LEMMA AllStay ==
    ASSUME Owned, queues'.worker = queues.worker, queues'.main = queues.main,
           exchange' = exchange, \A i \in Places : Moving(i)' <=> Moving(i),
           \A i \in Places : OnMain(i)' <=> OnMain(i),
           \A i \in Places : \A w \in Workers : Within(w, i)' <=> Within(w, i)
    PROVE  Owned'
<1> SUFFICES ASSUME NEW i \in Places PROVE PlaceOwned(i)'
  BY DEF Owned, Once
<1>1. /\ PlaceOwned(i)
      /\ exchange[i].state \in {"queued", "running"} => exchange[i].answer = "write"
  BY DEF Owned, PlaceOwned
<1>2. (InWorkers(i)' <=> InWorkers(i)) /\ (InMain(i)' <=> InMain(i))
  BY DEF InWorkers, InMain, Holds
<1> QED
  BY <1>1, <1>2, OwnedStays

\* A place is put into a queue it is not in.
LEMMA QueueAppend ==
    ASSUME NEW S, NEW q \in Seq(S), Once(q), NEW i \in S, ~ Holds(q, i)
    PROVE  /\ Append(q, i) \in Seq(S) /\ Once(Append(q, i))
           /\ \A j : Holds(Append(q, i), j) <=> Holds(q, j) \/ j = i
<1> DEFINE r == Append(q, i)
<1>1. /\ r \in Seq(S) /\ Len(q) \in Nat /\ DOMAIN q = 1..Len(q) /\ DOMAIN r = 1..Len(q) + 1
      /\ r[Len(q) + 1] = i /\ \A a \in 1..Len(q) : r[a] = q[a]
  BY AppendProperties, LenProperties
<1> HIDE DEF r
<1>2. \A a \in DOMAIN r : a = Len(q) + 1 \/ (a \in 1..Len(q) /\ r[a] # i)
  BY <1>1 DEF Holds
<1>3. Once(r)
  BY <1>1, <1>2 DEF Once
<1>4. \A j : Holds(r, j) <=> Holds(q, j) \/ j = i
  BY <1>1, <1>2 DEF Holds
<1> QED
  BY <1>1, <1>3, <1>4 DEF r

\* The first place of a queue is taken out of it.
LEMMA QueueTail ==
    ASSUME NEW S, NEW q \in Seq(S), Once(q), q # <<>>
    PROVE  /\ Head(q) \in S /\ Holds(q, Head(q)) /\ Tail(q) \in Seq(S) /\ Once(Tail(q))
           /\ \A j : Holds(Tail(q), j) <=> Holds(q, j) /\ j # Head(q)
<1> DEFINE r == Tail(q)
           h == Head(q)
<1>1. /\ r \in Seq(S) /\ Len(q) \in Nat /\ Len(r) = Len(q) - 1 /\ DOMAIN q = 1..Len(q)
      /\ DOMAIN r = 1..Len(r) /\ \A a \in 1..Len(q) - 1 : r[a] = q[a + 1]
      /\ Len(q) # 0
  BY HeadTailProperties, LenProperties, EmptySeq
<1>2. h = q[1] /\ 1 \in DOMAIN q /\ q[1] \in S
  BY <1>1, ElementOfSeq
<1> HIDE DEF r, h
<1>3. \A a \in DOMAIN r : a + 1 \in DOMAIN q /\ a + 1 # 1 /\ r[a] = q[a + 1]
  BY <1>1
<1>4. \A a \in DOMAIN q : a # 1 => a - 1 \in DOMAIN r /\ r[a - 1] = q[a]
  BY <1>1
<1>5. Once(r)
  <2> SUFFICES ASSUME NEW a \in DOMAIN r, NEW b \in DOMAIN r, r[a] = r[b] PROVE a = b
    BY DEF Once
  <2>1. a + 1 = b + 1
    BY <1>3 DEF Once
  <2> QED
    BY <1>1, <2>1
<1>6. \A j : Holds(r, j) <=> Holds(q, j) /\ j # h
  <2> SUFFICES ASSUME NEW j PROVE Holds(r, j) <=> Holds(q, j) /\ j # h
    OBVIOUS
  <2>1. ASSUME NEW a \in DOMAIN r, r[a] = j PROVE Holds(q, j) /\ j # h
    BY <1>2, <1>3, <2>1 DEF Holds, Once
  <2>2. ASSUME NEW a \in DOMAIN q, q[a] = j, j # h PROVE Holds(r, j)
    BY <1>2, <1>4, <2>2 DEF Holds
  <2> QED
    BY <2>1, <2>2 DEF Holds
<1>7. Holds(q, h)
  BY <1>2 DEF Holds
<1> QED
  BY <1>1, <1>2, <1>5, <1>6, <1>7 DEF r, h

\* A step of the threads that touches no connection, slot or queue.
LEMMA Rearranged ==
    ASSUME ServerInv, Types', Control', pool' = pool, conn' = conn, exchange' = exchange,
           peer' = peer, queues'.worker = queues.worker, queues'.main = queues.main,
           main'.at = "down" <=> main.at = "down",
           \A i \in Places : /\ Moving(i)' <=> Moving(i)
                             /\ OnMain(i)' <=> OnMain(i)
                             /\ Flagging(i) => Flagging(i)'
                             /\ \A w \in Workers : Within(w, i)' <=> Within(w, i)
    PROVE  ServerInv'
<1>1. /\ Types /\ Owned /\ Tables /\ PeersFit
  BY DEF ServerInv
<1>2. Owned'
  BY <1>1, AllStay
<1>3. Tables'
  <2>1. \A i \in Places : /\ SameConn(conn[i], conn'[i]) /\ (Free(i) => conn'[i] = conn[i])
                          /\ SameSlot(exchange[i], exchange'[i])
                          /\ SamePeer(peer[conn[i].who], peer'[conn[i].who])
    BY DEF SameConn, SameSlot, SamePeer
  <2> QED
    BY <1>1, <2>1, TablesStay
<1>4. PeersFit'
  <2>1. \A p \in Peers : /\ peer'[p].script = peer[p].script /\ peer'[p].got = peer[p].got
                         /\ peer'[p].sent <= Len(peer[p].script)
                         /\ peer'[p].state \in {"away", "waiting"} => peer'[p].sent = 0
                                                                     /\ peer[p].got = <<>>
    BY <1>1 DEF PeersFit
  <2> QED
    BY <1>1, <2>1, PeersStay
<1> QED
  BY <1>2, <1>3, <1>4 DEF ServerInv

-----------------------------------------------------------------------------
(* The actions *)

\* A pass that moves on is a pass, and the thread that ticks goes on from it.
LEMMA PassGoesType ==
    ASSUME Types, Control, pool' = pool, NEW at \in {"turns", "rest"},
           NEW place \in Places \cup {0},
           PassGoes(at, place), pass.at \in {"accept", "turns", "push"}
    PROVE  /\ pass' \in PassType /\ main' \in MainType
           /\ pass'.at = at /\ pass'.place = place /\ pass'.left = pass.left
           /\ IF Threaded \/ at # "rest" THEN main' = main
              ELSE /\ main.at = "pass" /\ main'.at = "idle" /\ main'.place = main.place
<1>1. pass \in PassType /\ main \in MainType
  BY DEF Types
<1>2. pass' \in PassType /\ pass'.at = at /\ pass'.place = place /\ pass'.left = pass.left
  <2> DEFINE v == [pass EXCEPT !.at = at]
  <2>1. v \in PassType /\ v.at = at /\ v.left = pass.left
    BY <1>1 DEF PassType
  <2>2. pass' = [v EXCEPT !.place = place]
    BY Zenon DEF PassGoes
  <2> HIDE DEF v
  <2> QED
    BY <2>1, <2>2 DEF PassType
<1>3. CASE Threaded \/ at # "rest"
  BY <1>1, <1>2, <1>3 DEF PassGoes
<1>4. CASE ~ (Threaded \/ at # "rest")
  <2>1. main' = [main EXCEPT !.at = "idle"] /\ main.at = "pass"
    BY <1>4 DEF PassGoes, Control
  <2>2. main' \in MainType /\ main'.at = "idle" /\ main'.place = main.place
    BY <1>1, <2>1 DEF MainType
  <2> QED
    BY <1>2, <1>4, <2>1, <2>2
<1> QED
  BY <1>3, <1>4

\* The next place's turn, or the end of the pass.
LEMMA NextTurnType ==
    ASSUME Types, Control, pool' = pool, NextTurn, pass.at \in {"turns", "push"}
    PROVE  /\ pass' \in PassType /\ main' \in MainType
           /\ \/ pass'.at = "turns" /\ pass'.place = pass.place + 1 /\ pass'.place \in Places
              \/ pass'.at = "rest" /\ pass'.place = 0
           /\ IF Threaded \/ pass'.at # "rest" THEN main' = main
              ELSE main.at = "pass" /\ main'.at = "idle" /\ main'.place = main.place
<1>1. pass.place \in Places /\ MaxConnections \in Nat
  BY Constants DEF Control
<1>2. CASE pass.place < MaxConnections
  <2>1. pass.place + 1 \in Places
    BY <1>1, <1>2 DEF Places
  <2> DEFINE place == pass.place + 1
  <2>2. PassGoes("turns", place)
    BY <1>2 DEF NextTurn
  <2> HIDE DEF place
  <2>3. /\ pass' \in PassType /\ main' \in MainType /\ pass'.at = "turns" /\ pass'.place = place
        /\ main' = main
    BY <2>1, <2>2, PassGoesType DEF place
  <2> QED
    BY <2>1, <2>3 DEF place
<1>3. CASE ~ (pass.place < MaxConnections)
  <2>1. PassGoes("rest", 0)
    BY <1>3 DEF NextTurn
  <2>2. /\ pass' \in PassType /\ main' \in MainType /\ pass'.at = "rest" /\ pass'.place = 0
        /\ IF Threaded THEN main' = main
           ELSE main.at = "pass" /\ main'.at = "idle" /\ main'.place = main.place
    BY <2>1, PassGoesType
  <2> QED
    BY <2>2
<1> QED
  BY <1>2, <1>3

\* Where the pass and the thread that ticks stand after it.
LEMMA NextTurnControl ==
    ASSUME Control, pool' = pool, worker' = worker, server' = server,
           queues'.worker = queues.worker \/ Threaded, queues'.main = queues.main \/ Threaded,
           \A i \in Places : exchange'[i].state = exchange[i].state \/ Threaded,
           pass.at \in {"turns", "push"},
           \/ pass'.at = "turns" /\ pass'.place \in Places
           \/ pass'.at = "rest",
           IF Threaded \/ pass'.at # "rest" THEN main' = main
           ELSE main.at = "pass" /\ main'.at = "idle" /\ main'.place = main.place
    PROVE  Control'
<1>1. CASE Threaded
  BY <1>1 DEF Control, Threaded
<1>2. CASE ~ Threaded
  BY <1>2 DEF Control, Threaded
<1> QED
  BY <1>1, <1>2

-----------------------------------------------------------------------------
(* The actions *)

\* The listener begins a pass or ends.
LEMMA ListenerLoopsInv ==
    ASSUME ServerInv, ListenerLoops
    PROVE  ServerInv'
<1>1. /\ Types /\ Control /\ server \in ServerType /\ pass \in PassType /\ Threaded
      /\ pass.at = "rest"
  BY DEF ServerInv, Types, ListenerLoops
<1>2. /\ server' \in ServerType /\ server'.memory = server.memory
      /\ server'.stopping = server.stopping
  BY <1>1 DEF ServerType, ListenerLoops, Observes
<1>3. /\ pass' \in PassType /\ pass'.at \in {"accept", "turns", "finished"}
      /\ pass'.at = "turns" => pass'.place \in Places
  <2>1. CASE server.stopping
    <3>1. pass' = [pass EXCEPT !.at = "finished"]
      BY <2>1 DEF ListenerLoops
    <3> QED
      BY <1>1, <3>1 DEF PassType
  <2>2. CASE ~ server.stopping
    <3>1. pass' = [at |-> IF server'.draining THEN "turns" ELSE "accept", place |-> 1,
                   left |-> RequestBudget, draining |-> server'.draining]
      BY <2>2 DEF ListenerLoops, Begins
    <3>2. 1 \in Places /\ RequestBudget \in 0..RequestBudget /\ server'.draining \in BOOLEAN
      BY <1>2, Constants DEF Places, ServerType
    <3> QED
      BY <3>1, <3>2 DEF PassType
  <2> QED
    BY <2>1, <2>2
<1>4. UNCHANGED <<pool, conn, exchange, queues, worker, main, peer>>
  BY DEF ListenerLoops
<1>5. Types'
  BY <1>1, <1>2, <1>3, <1>4 DEF Types
<1>6. Control'
  BY <1>1, <1>2, <1>3, <1>4 DEF Control, Threaded
<1>7. \A i \in Places : Moving(i)' <=> Moving(i)
  BY <1>1, <1>3 DEF Moving
<1> QED
  BY <1>4, <1>5, <1>6, <1>7, Rearranged DEF OnMain, Flagging, Within

\* The pass has accepted who waits, or passes a place over.
LEMMA PassesInv ==
    ASSUME ServerInv, AcceptsNoMore \/ PassesOver
    PROVE  ServerInv'
<1>1. Types /\ Control
  BY DEF ServerInv
<1>2. UNCHANGED <<server, pool, conn, exchange, queues, worker, peer>>
  BY DEF AcceptsNoMore, PassesOver
<1>3. /\ pass' \in PassType /\ main' \in MainType /\ pass.at \in {"accept", "turns"}
      /\ \/ pass'.at = "turns" /\ pass'.place \in Places
         \/ pass'.at = "rest"
      /\ IF Threaded \/ pass'.at # "rest" THEN main' = main
         ELSE main.at = "pass" /\ main'.at = "idle" /\ main'.place = main.place
  <2>1. CASE AcceptsNoMore
    <3>1. PassGoes("turns", 1) /\ 1 \in Places \cup {0} /\ 1 \in Places /\ pass.at = "accept"
      BY <2>1, Constants DEF AcceptsNoMore, Places
    <3>2. /\ pass' \in PassType /\ main' \in MainType /\ pass'.at = "turns" /\ pass'.place = 1
          /\ main' = main
      BY <1>1, <1>2, <3>1, PassGoesType
    <3> QED
      BY <3>1, <3>2
  <2>2. CASE PassesOver
    <3>1. NextTurn /\ pass.at = "turns"
      BY <2>2 DEF PassesOver
    <3> QED
      BY <1>1, <1>2, <3>1, NextTurnType
  <2> QED
    BY <2>1, <2>2
<1>4. Types'
  BY <1>1, <1>2, <1>3 DEF Types
<1>5. Control'
  <2>1. CASE Threaded
    BY <1>1, <1>2, <1>3, <2>1 DEF Control, Threaded
  <2>2. CASE ~ Threaded
    BY <1>1, <1>2, <1>3, <2>2 DEF Control, Threaded
  <2> QED
    BY <2>1, <2>2
<1>6. \A i \in Places : /\ Moving(i)' <=> Moving(i)
                        /\ OnMain(i)' <=> OnMain(i)
                        /\ Flagging(i) => Flagging(i)'
  BY <1>3 DEF Moving, OnMain, Flagging
<1>7. main'.at = "down" <=> main.at = "down"
  BY <1>3
<1> QED
  BY <1>2, <1>4, <1>5, <1>6, <1>7, Rearranged DEF Within

\* The tick begins its share, or the pass.
LEMMA TickInv ==
    ASSUME ServerInv, Tick
    PROVE  ServerInv'
<1>1. /\ Types /\ Control /\ server \in ServerType /\ pass \in PassType /\ main \in MainType
      /\ main.at = "idle" /\ UNCHANGED <<pool, conn, exchange, queues, worker, peer>>
  BY DEF ServerInv, Types, Tick
<1>2. /\ server' \in ServerType /\ server'.memory = server.memory
      /\ server'.stopping = server.stopping
  BY <1>1 DEF ServerType, Tick, Observes
<1>3. /\ main' \in MainType /\ pass' \in PassType
      /\ IF Threaded THEN main'.at = "drain" /\ pass' = pass
         ELSE /\ main'.at = "pass" /\ pass.at = "rest" /\ pass'.at \in {"accept", "turns"}
              /\ pass'.place \in Places
  <2>1. CASE Threaded
    <3> DEFINE v == [main EXCEPT !.at = "drain"]
    <3>1. v \in MainType /\ v.at = "drain" /\ RequestBudget \in 0..RequestBudget
      BY <1>1, Constants DEF MainType
    <3>2. main' = [v EXCEPT !.left = RequestBudget] /\ pass' = pass
      BY <2>1, Zenon DEF Tick
    <3> HIDE DEF v
    <3>3. main' \in MainType /\ main'.at = "drain"
      BY <3>1, <3>2 DEF MainType
    <3> QED
      BY <1>1, <2>1, <3>2, <3>3
  <2>2. CASE ~ Threaded
    <3>1. /\ pass' = [at |-> IF server'.draining THEN "turns" ELSE "accept", place |-> 1,
                      left |-> RequestBudget, draining |-> server'.draining]
          /\ main' = [main EXCEPT !.at = "pass"]
      BY <2>2 DEF Tick, Begins
    <3>2. 1 \in Places /\ RequestBudget \in 0..RequestBudget /\ server'.draining \in BOOLEAN
      BY <1>2, Constants DEF Places, ServerType
    <3>3. pass' \in PassType /\ pass'.at \in {"accept", "turns"} /\ pass'.place \in Places
      BY <3>1, <3>2 DEF PassType
    <3>4. main' \in MainType /\ main'.at = "pass"
      BY <1>1, <3>1 DEF MainType
    <3>5. pass.at = "rest"
      BY <1>1, <2>2 DEF Control
    <3> QED
      BY <2>2, <3>3, <3>4, <3>5
  <2> QED
    BY <2>1, <2>2
<1>4. Types'
  BY <1>1, <1>2, <1>3 DEF Types
<1>5. Control'
  <2>1. CASE Threaded
    BY <1>1, <1>2, <1>3, <2>1 DEF Control, Threaded
  <2>2. CASE ~ Threaded
    BY <1>1, <1>2, <1>3, <2>2 DEF Control, Threaded
  <2> QED
    BY <2>1, <2>2
<1>6. \A i \in Places : /\ Moving(i)' <=> Moving(i)
                        /\ OnMain(i)' <=> OnMain(i)
                        /\ Flagging(i) => Flagging(i)'
  BY <1>1, <1>3 DEF Moving, OnMain, Flagging
<1>7. main'.at = "down" <=> main.at = "down"
  BY <1>1, <1>3
<1> QED
  BY <1>1, <1>4, <1>5, <1>6, <1>7, Rearranged DEF Within

\* A worker's wait times out, or its handler hangs.
LEMMA WorkerStandsInv ==
    ASSUME ServerInv, NEW w \in Workers, WorkerTimesOut(w) \/ Hangs(w)
    PROVE  ServerInv'
<1>1. /\ Types /\ Control /\ worker \in [Workers -> WorkerType] /\ worker[w] \in WorkerType
      /\ UNCHANGED <<server, pool, conn, exchange, queues, pass, main, peer>>
  BY DEF ServerInv, Types, WorkerTimesOut, Hangs
<1>2. PICK at \in {"gone", "wait", "stuck"} :
          /\ worker' = [worker EXCEPT ![w].at = at]
          /\ IF at = "stuck" THEN worker[w].at = "inside" ELSE worker[w].at = "wait"
          /\ at # "stuck" => server.stopping /\ at = "gone"
  BY DEF WorkerTimesOut, Hangs, Loops
<1>3. /\ worker' \in [Workers -> WorkerType] /\ worker'[w].at = at
      /\ worker'[w].place = worker[w].place
      /\ \A v \in Workers \ {w} : worker'[v] = worker[v]
  <2> DEFINE r == [worker[w] EXCEPT !.at = at]
  <2>1. r \in WorkerType /\ r.at = at /\ r.place = worker[w].place
    BY <1>1 DEF WorkerType
  <2>2. worker' = [worker EXCEPT ![w] = r]
    BY <1>2
  <2> HIDE DEF r
  <2> QED
    BY <1>1, <2>1, <2>2
<1>4. Types'
  BY <1>1, <1>3 DEF Types
<1>5. w \in pool
  BY <1>1, <1>2 DEF Control
<1>6. Control'
  BY <1>1, <1>2, <1>3, <1>5 DEF Control, Threaded
<1>7. \A i \in Places : \A v \in Workers : Within(v, i)' <=> Within(v, i)
  BY <1>2, <1>3 DEF Within
<1>8. \A i \in Places : (Moving(i)' <=> Moving(i)) /\ (OnMain(i)' <=> OnMain(i))
                        /\ (Flagging(i) => Flagging(i)')
  BY <1>1 DEF Moving, OnMain, Flagging
<1> QED
  BY <1>1, <1>4, <1>6, <1>7, <1>8, Rearranged

\* The host asks for a drain, the drain's signal comes, or the server is to stop.
LEMMA AsksInv ==
    ASSUME ServerInv, Shutdown \/ Signal \/ Stops
    PROVE  ServerInv'
<1>1. /\ Types /\ Control /\ server \in ServerType /\ main \in MainType
      /\ UNCHANGED <<pool, conn, exchange, queues, pass, worker, peer>>
  BY DEF ServerInv, Types, Shutdown, Signal, Stops
<1>2. server' \in ServerType /\ server'.memory = server.memory
  BY <1>1 DEF ServerType, Shutdown, Signal, Stops
<1>3. /\ main' \in MainType
      /\ main' = main \/ (main.at = "idle" /\ main'.at = "listener")
  BY <1>1 DEF MainType, Shutdown, Signal, Stops
<1>4. Types'
  BY <1>1, <1>2, <1>3 DEF Types
<1>5. Control'
  BY <1>1, <1>2, <1>3 DEF Control, Threaded
<1>6. \A i \in Places : /\ Moving(i)' <=> Moving(i)
                        /\ OnMain(i)' <=> OnMain(i)
                        /\ Flagging(i) => Flagging(i)'
  BY <1>1, <1>3 DEF Moving, OnMain, Flagging
<1>7. main'.at = "down" <=> main.at = "down"
  BY <1>3
<1> QED
  BY <1>1, <1>4, <1>5, <1>6, <1>7, Rearranged DEF Within

\* The listener is joined and every worker woken, and the grace may end.
LEMMA JoinsInv ==
    ASSUME ServerInv, JoinsListener \/ GraceEnds
    PROVE  ServerInv'
<1>1. /\ Types /\ Control /\ queues \in QueuesType /\ main \in MainType /\ pool \in Pools
      /\ UNCHANGED <<server, pool, conn, exchange, pass, worker, peer>>
  BY DEF ServerInv, Types, JoinsListener, GraceEnds
<1>2. /\ queues' \in QueuesType /\ queues'.worker = queues.worker /\ queues'.main = queues.main
  <2>1. Cardinality(pool) \in Nat
    BY <1>1, Constants, FS_CardinalityType
  <2> DEFINE n == Cardinality(pool)
  <2> HIDE DEF n
  <2>2. queues' = queues \/ queues' = [queues EXCEPT !.work = queues.work + n]
    BY DEF JoinsListener, GraceEnds, n
  <2> QED
    BY <1>1, <2>1, <2>2 DEF QueuesType, n
<1>3. /\ main' \in MainType
      /\ \/ main.at = "listener" /\ main'.at = "workers" /\ (Threaded => pass.at = "finished")
         \/ main.at = "workers" /\ main'.at = "workers"
  BY <1>1 DEF MainType, JoinsListener, GraceEnds
<1>4. Types'
  BY <1>1, <1>2, <1>3 DEF Types
<1>5. Control'
  <2>1. CASE Threaded
    BY <1>1, <1>2, <1>3, <2>1 DEF Control, Threaded
  <2>2. CASE ~ Threaded
    BY <1>1, <1>2, <1>3, <2>2 DEF Control, Threaded
  <2> QED
    BY <2>1, <2>2
<1>6. \A i \in Places : /\ Moving(i)' <=> Moving(i)
                        /\ OnMain(i)' <=> OnMain(i)
                        /\ Flagging(i) => Flagging(i)'
  BY <1>1, <1>3 DEF Moving, OnMain, Flagging
<1>7. main'.at = "down" <=> main.at = "down"
  BY <1>3
<1> QED
  BY <1>1, <1>2, <1>4, <1>5, <1>6, <1>7, Rearranged DEF Within

\* What becomes of a slot that is taken, answered, refused or flagged.
Runs(s) == [s EXCEPT !.state = "running"]
Serves(s) == [Dispatched(s) EXCEPT !.state = "done"]
Refuses(s) == [Refused101(s) EXCEPT !.state = "done"]
Flags(s) == [[s EXCEPT !.answer = "upgraded"] EXCEPT !.state = "done"]

\* The slots these are.
LEMMA SlotMoves ==
    ASSUME NEW s \in Slot
    PROVE  /\ LET r == Runs(s)
              IN  /\ r \in Slot /\ r.state = "running" /\ r.who = s.who /\ r.request = s.request
                  /\ r.to = s.to /\ r.answer = s.answer
           /\ LET r == Serves(s)
              IN  /\ r \in Slot /\ r.state = "done" /\ r.who = s.who /\ r.request = s.request
                  /\ r.to = s.to /\ r.answer = "write" /\ r.response = s.request
           /\ LET r == Refuses(s)
              IN  /\ r \in Slot /\ r.state = "done" /\ r.who = s.who /\ r.request = s.request
                  /\ r.to = s.to /\ r.answer = s.answer /\ r.response = s.request /\ r.closeAfter
           /\ LET r == Flags(s)
              IN  r \in Slot /\ r.state = "done" /\ r.answer = "upgraded" /\ r.to = s.to
<1>1. LET r == Runs(s)
      IN  /\ r \in Slot /\ r.state = "running" /\ r.who = s.who /\ r.request = s.request
          /\ r.to = s.to /\ r.answer = s.answer
  BY DEF Slot, Runs
<1>2. LET r == Serves(s)
      IN  /\ r \in Slot /\ r.state = "done" /\ r.who = s.who /\ r.request = s.request
          /\ r.to = s.to /\ r.answer = "write" /\ r.response = s.request
  <2> DEFINE a == Dispatched(s)
             r == [a EXCEPT !.state = "done"]
  <2>1. /\ a \in Slot /\ a.who = s.who /\ a.request = s.request /\ a.to = s.to
        /\ a.answer = "write" /\ a.response = s.request
    BY SlotChanges
  <2> HIDE DEF a
  <2>2. /\ r \in Slot /\ r.state = "done" /\ r.who = a.who /\ r.request = a.request
        /\ r.to = a.to /\ r.answer = a.answer /\ r.response = a.response
    BY <2>1 DEF Slot
  <2>3. Serves(s) = r
    BY DEF Serves, a
  <2> HIDE DEF r
  <2> QED
    BY <2>1, <2>2, <2>3
<1>3. LET r == Refuses(s)
      IN  /\ r \in Slot /\ r.state = "done" /\ r.who = s.who /\ r.request = s.request
          /\ r.to = s.to /\ r.answer = s.answer /\ r.response = s.request /\ r.closeAfter
  <2> DEFINE a == Refused101(s)
             r == [a EXCEPT !.state = "done"]
  <2>1. /\ a \in Slot /\ a.who = s.who /\ a.request = s.request /\ a.to = s.to
        /\ a.answer = s.answer /\ a.response = s.request /\ a.closeAfter
    BY SlotChanges
  <2> HIDE DEF a
  <2>2. /\ r \in Slot /\ r.state = "done" /\ r.who = a.who /\ r.request = a.request
        /\ r.to = a.to /\ r.answer = a.answer /\ r.response = a.response
        /\ r.closeAfter = a.closeAfter
    BY <2>1 DEF Slot
  <2>3. Refuses(s) = r
    BY DEF Refuses, a
  <2> HIDE DEF r
  <2> QED
    BY <2>1, <2>2, <2>3
<1>4. LET r == Flags(s)
      IN  r \in Slot /\ r.state = "done" /\ r.answer = "upgraded" /\ r.to = s.to
  <2> DEFINE a == [s EXCEPT !.answer = "upgraded"]
  <2>1. a \in Slot /\ a.answer = "upgraded" /\ a.to = s.to
    BY DEF Slot
  <2>2. Flags(s) = [a EXCEPT !.state = "done"]
    BY DEF Flags
  <2> HIDE DEF a
  <2> QED
    BY <2>1, <2>2 DEF Slot
<1> QED
  BY <1>1, <1>2, <1>3, <1>4

\* One place's connection, slot and peer changed, or the connection was closed.
LEMMA OnePlace ==
    ASSUME Types, Tables, NEW i \in Places, ~ Free(i), main.at # "down", main'.at # "down",
           pool' = pool, PlaceFits(i)', conn'[i].who = conn[i].who \/ conn'[i] = NoConnection,
           \A j \in Places \ {i} : /\ conn'[j] = conn[j] /\ exchange'[j] = exchange[j]
                                   /\ Flagging(j) => Flagging(j)',
           \A p \in Peers \ {conn[i].who} : peer'[p] = peer[p]
    PROVE  Tables'
<1>1. ASSUME NEW j \in Places \ {i}
      PROVE  PlaceFits(j)'
  <2>1. PlaceFits(j) /\ j \in Places
    BY DEF Tables
  <2>2. SameConn(conn[j], conn'[j]) /\ SameSlot(exchange[j], exchange'[j])
    BY DEF SameConn, SameSlot
  <2>3. ASSUME ~ Free(j) PROVE SamePeer(peer[conn[j].who], peer'[conn[j].who])
    <3>1. conn[j].who \in Peers
      BY <2>1, <2>3, PlaceTypes
    <3>2. conn[j].who # conn[i].who
      BY <2>1, <2>3 DEF Tables
    <3>3. peer'[conn[j].who] = peer[conn[j].who]
      BY <3>1, <3>2
    <3> QED
      BY <3>3 DEF SamePeer
  <2>4. Flagging(j) => Flagging(j)'
    OBVIOUS
  <2> QED
    BY <2>1, <2>2, <2>3, <2>4, StaysFit
<1>2. \A j \in Places : Free(j)' => conn'[j] = NoConnection
  <2>1. ASSUME NEW j \in Places, Free(j)' PROVE conn'[j] = NoConnection
    <3>1. CASE j # i
      BY <2>1, <3>1 DEF Tables, Free
    <3>2. CASE j = i
      BY <2>1, <3>2 DEF Free
    <3> QED
      BY <3>1, <3>2
  <2> QED
    BY <2>1
<1>3. \A j, k \in Places : ~ Free(j)' /\ conn'[j].who = conn'[k].who => j = k
  <2> SUFFICES ASSUME NEW j \in Places, NEW k \in Places, ~ Free(j)', conn'[j].who = conn'[k].who
               PROVE  j = k
    OBVIOUS
  <2>1. \A l \in Places : ~ Free(l)' => conn'[l].who = conn[l].who
    BY Constants DEF Free
  <2>2. ~ Free(k)' /\ conn'[k].who = conn[k].who /\ conn'[j].who = conn[j].who
    BY <2>1 DEF Free
  <2>3. ~ Free(j) /\ conn[j].who = conn[k].who
    BY <2>2 DEF Free
  <2> QED
    BY <2>3 DEF Tables
<1> QED
  BY <1>1, <1>2, <1>3 DEF Tables

\* A worker takes an exchange, or finds none and looks at the flag.
LEMMA WorkerTakesInv ==
    ASSUME ServerInv, NEW w \in Workers, WorkerTakes(w)
    PROVE  ServerInv'
<1>0. /\ Types /\ Control /\ Owned /\ Tables /\ PeersFit /\ queues \in QueuesType
      /\ worker \in [Workers -> WorkerType] /\ worker[w] \in WorkerType
      /\ exchange \in [Places -> Slot] /\ worker[w].at = "wait"
      /\ UNCHANGED <<server, pool, conn, pass, main, peer>>
  BY DEF ServerInv, Types, WorkerTakes
<1>1. w \in pool /\ Threaded
  BY <1>0 DEF Control, Threaded
<1>2. \A i \in Places : /\ Moving(i)' <=> Moving(i)
                        /\ OnMain(i)' <=> OnMain(i)
                        /\ Flagging(i) => Flagging(i)'
                        /\ ~ Within(w, i)
  BY <1>0 DEF Moving, OnMain, Flagging, Within
<1>3. queues.work - 1 \in Nat
  BY <1>0 DEF QueuesType, WorkerTakes
<1>4. CASE queues.worker = <<>>
  <2> DEFINE r == [worker[w] EXCEPT !.at = Loops]
             n == queues.work - 1
  <2>1. r \in WorkerType /\ r.at \in {"gone", "wait"}
    BY <1>0 DEF WorkerType, Loops
  <2>2. /\ worker' = [worker EXCEPT ![w] = r] /\ queues' = [queues EXCEPT !.work = n]
        /\ exchange' = exchange
    BY <1>4 DEF WorkerTakes
  <2> HIDE DEF r, n
  <2>3. /\ worker' \in [Workers -> WorkerType] /\ worker'[w].at \in {"gone", "wait"}
        /\ \A v \in Workers \ {w} : worker'[v] = worker[v]
    BY <1>0, <2>1, <2>2
  <2>4. /\ queues' \in QueuesType /\ queues'.worker = queues.worker
        /\ queues'.main = queues.main
    BY <1>0, <1>3, <2>2 DEF QueuesType, n
  <2>5. Types'
    BY <1>0, <2>2, <2>3, <2>4 DEF Types
  <2>6. Control'
    BY <1>0, <1>1, <2>3 DEF Control, Threaded
  <2>7. \A i \in Places : \A v \in Workers : Within(v, i)' <=> Within(v, i)
    BY <1>2, <2>3 DEF Within
  <2> QED
    BY <1>0, <1>2, <2>2, <2>4, <2>5, <2>6, <2>7, Rearranged
<1>5. CASE queues.worker # <<>>
  <2> DEFINE q == queues.worker
  <2>0. PICK i : i = Head(q)
    OBVIOUS
  <2> DEFINE r == [at |-> "inside", place |-> i]
             s == Runs(exchange[i])
             n == queues.work - 1
             rest == Tail(q)
  <2>1. /\ i \in Places /\ Holds(q, i) /\ rest \in Seq(Places) /\ Once(rest)
        /\ \A j : Holds(rest, j) <=> Holds(q, j) /\ j # i
    <3>1. q \in Seq(Places) /\ Once(q)
      BY <1>0 DEF QueuesType, Owned
    <3> QED
      BY <1>5, <2>0, <3>1, QueueTail
  <2>2. /\ worker' = [worker EXCEPT ![w] = r] /\ exchange' = [exchange EXCEPT ![i] = s]
        /\ queues' = [[queues EXCEPT !.work = n] EXCEPT !.worker = rest]
    <3>1. exchange' = [exchange EXCEPT ![i].state = "running"]
      BY <1>5, <2>0 DEF WorkerTakes
    <3>2. exchange' = [exchange EXCEPT ![i] = s]
      BY <1>0, <3>1 DEF Runs
    <3> QED
      BY <1>5, <2>0, <3>2, Zenon DEF WorkerTakes
  <2>3. PlaceOwned(i) /\ exchange[i] \in Slot
    BY <1>0, <2>1 DEF Owned
  <2> HIDE DEF q, rest
  <2>4. /\ s \in Slot /\ s.state = "running" /\ s.who = exchange[i].who
        /\ s.request = exchange[i].request /\ s.to = exchange[i].to
        /\ s.answer = exchange[i].answer
    BY <2>3, SlotMoves
  <2> HIDE DEF s
  <2>5. r \in WorkerType /\ r.at = "inside" /\ r.place = i
    BY <2>1 DEF WorkerType
  <2> HIDE DEF r
  <2>6. /\ worker' \in [Workers -> WorkerType] /\ worker'[w] = r
        /\ \A v \in Workers \ {w} : worker'[v] = worker[v]
        /\ exchange' \in [Places -> Slot] /\ exchange'[i] = s
        /\ \A j \in Places \ {i} : exchange'[j] = exchange[j]
    BY <1>0, <2>1, <2>2, <2>4, <2>5
  <2>7. queues' \in QueuesType /\ queues'.worker = rest /\ queues'.main = queues.main
    <3>1. [queues EXCEPT !.work = n] \in QueuesType /\ [queues EXCEPT !.work = n].main = queues.main
      BY <1>0, <1>3 DEF QueuesType
    <3> DEFINE v == [queues EXCEPT !.work = n]
    <3> HIDE DEF v
    <3>2. v \in QueuesType /\ v.main = queues.main /\ queues' = [v EXCEPT !.worker = rest]
      BY <2>2, <3>1 DEF v
    <3> QED
      BY <2>1, <3>2 DEF QueuesType
  <2>8. Types'
    BY <1>0, <2>6, <2>7 DEF Types
  <2>9. Control'
    BY <1>0, <1>1, <2>1, <2>5, <2>6 DEF Control, Threaded
  <2>10. /\ InWorkers(i) /\ exchange[i].state = "queued" /\ exchange[i].answer = "write"
         /\ exchange[i].to = "worker" /\ ~ InMain(i) /\ ~ Moving(i) /\ ~ OnMain(i)
         /\ \A v \in Workers : ~ Within(v, i)
    <3>1. InWorkers(i)
      BY <2>1 DEF InWorkers, q
    <3> QED
      BY <2>3, <3>1 DEF PlaceOwned
  <2>11. \A j \in Places : /\ InWorkers(j)' <=> InWorkers(j) /\ j # i
                           /\ InMain(j)' <=> InMain(j)
                           /\ \A v \in Workers : Within(v, j)' <=> IF v = w THEN j = i
                                                                   ELSE Within(v, j)
    BY <2>1, <2>5, <2>6, <2>7 DEF InWorkers, InMain, Within, q
  <2>12. PlaceOwned(i)'
    BY <1>2, <2>1, <2>4, <2>6, <2>10, <2>11 DEF PlaceOwned
  <2>13. ASSUME NEW j \in Places \ {i} PROVE PlaceOwned(j)'
    <3>1. PlaceOwned(j) /\ \A v \in Workers : Within(v, j)' <=> Within(v, j)
      BY <1>0, <1>2, <2>11 DEF Owned
    <3>2. exchange[j].state \in {"queued", "running"} => exchange[j].answer = "write"
      BY <3>1 DEF PlaceOwned
    <3> QED
      BY <1>2, <2>6, <2>11, <3>1, <3>2, OwnedStays
  <2>14. Owned'
    BY <1>0, <2>1, <2>7, <2>12, <2>13 DEF Owned
  <2>15. Tables'
    <3>1. \A j \in Places : SameSlot(exchange[j], exchange'[j])
      BY <2>4, <2>6, <2>10 DEF SameSlot, Busy
    <3>2. \A j \in Places : /\ SameConn(conn[j], conn'[j]) /\ conn'[j] = conn[j]
                            /\ SamePeer(peer[conn[j].who], peer'[conn[j].who])
      BY <1>0 DEF SameConn, SamePeer
    <3> QED
      BY <1>0, <1>2, <3>1, <3>2, TablesStay
  <2>16. PeersFit'
    BY <1>0, PeersStay DEF PeersFit
  <2> QED
    BY <2>8, <2>9, <2>14, <2>15, <2>16 DEF ServerInv
<1> QED
  BY <1>4, <1>5

\* A worker's handler returns.
LEMMA HandlerReturnsInv ==
    ASSUME ServerInv, NEW w \in Workers, HandlerReturns(w)
    PROVE  ServerInv'
<1>0. /\ Types /\ Control /\ Owned /\ Tables /\ PeersFit
      /\ worker \in [Workers -> WorkerType] /\ worker[w] \in WorkerType
      /\ exchange \in [Places -> Slot] /\ worker[w].at = "inside"
      /\ UNCHANGED <<server, pool, conn, queues, pass, main, peer>>
  BY DEF ServerInv, Types, HandlerReturns
<1>1. w \in pool /\ Threaded
  BY <1>0 DEF Control, Threaded
<1>2. PICK i \in Places : i = worker[w].place
  BY <1>0 DEF Control
<1> DEFINE r == [at |-> Loops, place |-> 0]
           s == Serves(exchange[i])
<1>3. PlaceOwned(i) /\ exchange[i] \in Slot /\ Within(w, i)
  BY <1>0, <1>2 DEF Owned, Within
<1>4. /\ exchange[i].state = "running" /\ exchange[i].answer = "write"
      /\ exchange[i].to = "worker" /\ ~ Moving(i) /\ ~ InWorkers(i) /\ ~ InMain(i) /\ ~ OnMain(i)
      /\ \A v \in Workers \ {w} : ~ Within(v, i)
  BY <1>3 DEF PlaceOwned
<1>5. /\ s \in Slot /\ s.state = "done" /\ s.who = exchange[i].who
      /\ s.request = exchange[i].request /\ s.to = exchange[i].to
      /\ s.answer = "write" /\ s.response = exchange[i].request
  BY <1>3, SlotMoves
<1>6. r \in WorkerType /\ r.at \in {"gone", "wait"}
  BY DEF WorkerType, Loops
<1>7. worker' = [worker EXCEPT ![w] = r] /\ exchange' = [exchange EXCEPT ![i] = s]
  BY <1>2, Zenon DEF HandlerReturns, Serves
<1> HIDE DEF s, r
<1>8. /\ worker' \in [Workers -> WorkerType] /\ worker'[w] = r
      /\ \A v \in Workers \ {w} : worker'[v] = worker[v]
      /\ exchange' \in [Places -> Slot] /\ exchange'[i] = s
      /\ \A j \in Places \ {i} : exchange'[j] = exchange[j]
  BY <1>0, <1>5, <1>6, <1>7
<1>9. Types'
  BY <1>0, <1>8 DEF Types
<1>10. Control'
  BY <1>0, <1>1, <1>6, <1>8 DEF Control, Threaded
<1>11. \A j \in Places : /\ InWorkers(j)' <=> InWorkers(j)
                         /\ InMain(j)' <=> InMain(j)
                         /\ Moving(j)' <=> Moving(j)
                         /\ OnMain(j)' <=> OnMain(j)
                         /\ Flagging(j) => Flagging(j)'
                         /\ \A v \in Workers : Within(v, j)' <=> v # w /\ Within(v, j)
  BY <1>0, <1>6, <1>8 DEF InWorkers, InMain, Moving, OnMain, Flagging, Within
<1>12. PlaceOwned(i)'
  BY <1>4, <1>5, <1>8, <1>11 DEF PlaceOwned
<1>13. ASSUME NEW j \in Places \ {i} PROVE PlaceOwned(j)'
  <2>1. PlaceOwned(j) /\ \A v \in Workers : Within(v, j)' <=> Within(v, j)
    BY <1>0, <1>2, <1>11 DEF Owned, Within
  <2>2. exchange[j].state \in {"queued", "running"} => exchange[j].answer = "write"
    BY <2>1 DEF PlaceOwned
  <2> QED
    BY <1>8, <1>11, <2>1, <2>2, OwnedStays
<1>14. Owned'
  BY <1>0, <1>12, <1>13 DEF Owned
<1>15. Tables'
  <2>1. \A j \in Places : SameSlot(exchange[j], exchange'[j])
    BY <1>4, <1>5, <1>8 DEF SameSlot, Busy
  <2>2. \A j \in Places : /\ SameConn(conn[j], conn'[j]) /\ conn'[j] = conn[j]
                          /\ SamePeer(peer[conn[j].who], peer'[conn[j].who])
    BY <1>0 DEF SameConn, SamePeer
  <2> QED
    BY <1>0, <1>11, <2>1, <2>2, TablesStay
<1>16. PeersFit'
  BY <1>0, PeersStay DEF PeersFit
<1> QED
  BY <1>9, <1>10, <1>14, <1>15, <1>16 DEF ServerInv

\* The tick takes an exchange, or goes on to the WebSockets.
LEMMA TakesMainInv ==
    ASSUME ServerInv, TakesMain
    PROVE  ServerInv'
<1>0. /\ Types /\ Control /\ Owned /\ Tables /\ PeersFit /\ queues \in QueuesType
      /\ main \in MainType /\ exchange \in [Places -> Slot] /\ main.at = "drain"
      /\ UNCHANGED <<server, pool, conn, pass, worker, peer>>
  BY DEF ServerInv, Types, TakesMain
<1>1. Threaded
  BY <1>0 DEF Control
<1>2. \A i \in Places : /\ Moving(i)' <=> Moving(i)
                        /\ \A w \in Workers : Within(w, i)' <=> Within(w, i)
                        /\ ~ OnMain(i) /\ ~ Flagging(i)
  BY <1>0 DEF Moving, OnMain, Flagging, Within
<1>3. CASE queues.main = <<>> \/ main.left = 0
  <2>1. main' = [main EXCEPT !.at = "sockets"] /\ exchange' = exchange /\ queues' = queues
    BY <1>3 DEF TakesMain
  <2>2. main' \in MainType /\ main'.at = "sockets"
    BY <1>0, <2>1 DEF MainType
  <2>3. Types'
    BY <1>0, <2>1, <2>2 DEF Types
  <2>4. Control'
    BY <1>0, <1>1, <2>1, <2>2 DEF Control, Threaded
  <2>5. \A i \in Places : OnMain(i)' <=> OnMain(i)
    BY <1>2, <2>2 DEF OnMain
  <2> QED
    BY <1>0, <1>2, <2>1, <2>2, <2>3, <2>4, <2>5, Rearranged
<1>4. CASE queues.main # <<>> /\ main.left # 0
  <2> DEFINE q == queues.main
  <2>0. PICK i : i = Head(q)
    OBVIOUS
  <2> DEFINE s == Runs(exchange[i])
             rest == Tail(q)
             n == main.left - 1
             m1 == [main EXCEPT !.at = "serve"]
             m2 == [m1 EXCEPT !.place = i]
  <2>1. /\ i \in Places /\ Holds(q, i) /\ rest \in Seq(Places) /\ Once(rest)
        /\ \A j : Holds(rest, j) <=> Holds(q, j) /\ j # i
    <3>1. q \in Seq(Places) /\ Once(q)
      BY <1>0 DEF QueuesType, Owned
    <3> QED
      BY <1>4, <2>0, <3>1, QueueTail
  <2>2. /\ exchange' = [exchange EXCEPT ![i] = s]
        /\ queues' = [queues EXCEPT !.main = rest]
        /\ main' = [m2 EXCEPT !.left = n]
    <3>1. exchange' = [exchange EXCEPT ![i].state = "running"]
      BY <1>4, <2>0 DEF TakesMain
    <3>2. exchange' = [exchange EXCEPT ![i] = s]
      BY <1>0, <3>1 DEF Runs
    <3>3. main' = [main EXCEPT !.at = "serve", !.place = i, !.left = @ - 1]
      BY <1>4, <2>0 DEF TakesMain
    <3>4. main' = [m2 EXCEPT !.left = n]
      BY <1>0, <3>3, Zenon DEF MainType
    <3> QED
      BY <1>4, <2>0, <3>2, <3>4 DEF TakesMain
  <2>3. PlaceOwned(i) /\ exchange[i] \in Slot
    BY <1>0, <2>1 DEF Owned
  <2> HIDE DEF q, rest
  <2>4. /\ s \in Slot /\ s.state = "running" /\ s.who = exchange[i].who
        /\ s.request = exchange[i].request /\ s.to = exchange[i].to
        /\ s.answer = exchange[i].answer
    BY <2>3, SlotMoves
  <2> HIDE DEF s
  <2>5. n \in 0..RequestBudget
    <3>1. main.left \in 0..RequestBudget /\ RequestBudget \in Nat
      BY <1>0, Constants DEF MainType
    <3> QED
      BY <1>4, <3>1
  <2> HIDE DEF n
  <2>6. main' \in MainType /\ main'.at = "serve" /\ main'.place = i
    <3>1. m1 \in MainType /\ m1.at = "serve"
      BY <1>0 DEF MainType
    <3> HIDE DEF m1
    <3>2. m2 \in MainType /\ m2.at = "serve" /\ m2.place = i
      BY <2>1, <3>1 DEF MainType
    <3> HIDE DEF m2
    <3> QED
      BY <2>2, <2>5, <3>2 DEF MainType
  <2>7. /\ exchange' \in [Places -> Slot] /\ exchange'[i] = s
        /\ \A j \in Places \ {i} : exchange'[j] = exchange[j]
    BY <1>0, <2>1, <2>2, <2>4
  <2>8. queues' \in QueuesType /\ queues'.main = rest /\ queues'.worker = queues.worker
    BY <1>0, <2>1, <2>2 DEF QueuesType
  <2>9. Types'
    BY <1>0, <2>6, <2>7, <2>8 DEF Types
  <2>10. Control'
    BY <1>0, <1>1, <2>1, <2>6 DEF Control, Threaded
  <2>11. /\ exchange[i].state = "queued" /\ exchange[i].answer = "write"
         /\ ~ InWorkers(i) /\ ~ Moving(i) /\ \A w \in Workers : ~ Within(w, i)
    <3>1. InMain(i)
      BY <2>1 DEF InMain, q
    <3> QED
      BY <2>3, <3>1 DEF PlaceOwned
  <2>12. \A j \in Places : /\ InMain(j)' <=> InMain(j) /\ j # i
                           /\ InWorkers(j)' <=> InWorkers(j)
                           /\ OnMain(j)' <=> j = i
    BY <2>1, <2>6, <2>8 DEF InWorkers, InMain, OnMain, q
  <2>13. PlaceOwned(i)'
    BY <1>2, <2>1, <2>4, <2>7, <2>11, <2>12 DEF PlaceOwned
  <2>14. ASSUME NEW j \in Places \ {i} PROVE PlaceOwned(j)'
    <3>1. PlaceOwned(j) /\ (OnMain(j)' <=> OnMain(j))
      BY <1>0, <1>2, <2>12 DEF Owned
    <3>2. exchange[j].state \in {"queued", "running"} => exchange[j].answer = "write"
      BY <3>1 DEF PlaceOwned
    <3> QED
      BY <1>2, <2>7, <2>12, <3>1, <3>2, OwnedStays
  <2>15. Owned'
    BY <1>0, <2>1, <2>8, <2>13, <2>14 DEF Owned
  <2>16. Tables'
    <3>1. \A j \in Places : SameSlot(exchange[j], exchange'[j])
      BY <2>4, <2>7, <2>11 DEF SameSlot, Busy
    <3>2. \A j \in Places : /\ SameConn(conn[j], conn'[j]) /\ conn'[j] = conn[j]
                            /\ SamePeer(peer[conn[j].who], peer'[conn[j].who])
      BY <1>0 DEF SameConn, SamePeer
    <3>3. main'.at # "down" /\ main.at # "down"
      BY <1>0, <2>6
    <3> QED
      BY <1>0, <1>2, <3>1, <3>2, <3>3, TablesStay
  <2>17. PeersFit'
    BY <1>0, PeersStay DEF PeersFit
  <2> QED
    BY <2>9, <2>10, <2>15, <2>16, <2>17 DEF ServerInv
<1> QED
  BY <1>3, <1>4

\* The thread that ticks gives the exchange it had back to the pass.
LEMMA MainGives ==
    ASSUME ServerInv, main.at \in {"serve", "flag"}, NEW i \in Places, i = main.place,
           NEW s \in Slot, s.state = "done",
           exchange' = [exchange EXCEPT ![i] = s], main' = [main EXCEPT !.at = "drain"],
           UNCHANGED <<server, pool, queues, pass, worker>>
    PROVE  /\ exchange' \in [Places -> Slot] /\ main' \in MainType /\ main'.at = "drain"
           /\ exchange[i].state = "running" /\ exchange[i].answer = "write"
           /\ exchange'[i] = s /\ \A j \in Places \ {i} : exchange'[j] = exchange[j]
           /\ Control' /\ Owned'
<1>0. /\ Types /\ Control /\ Owned /\ exchange \in [Places -> Slot] /\ main \in MainType
      /\ PlaceOwned(i) /\ OnMain(i)
  BY DEF ServerInv, Types, Owned, OnMain
<1>1. /\ exchange' \in [Places -> Slot] /\ exchange'[i] = s
      /\ \A j \in Places \ {i} : exchange'[j] = exchange[j]
  BY <1>0
<1>2. main' \in MainType /\ main'.at = "drain"
  BY <1>0 DEF MainType
<1>3. Threaded
  BY <1>0 DEF Control
<1>4. Control'
  BY <1>0, <1>2, <1>3 DEF Control, Threaded
<1>5. /\ exchange[i].state = "running" /\ exchange[i].answer = "write"
      /\ ~ Moving(i) /\ ~ InWorkers(i) /\ ~ InMain(i) /\ \A w \in Workers : ~ Within(w, i)
  BY <1>0 DEF PlaceOwned
<1>6. \A j \in Places : /\ InWorkers(j)' <=> InWorkers(j)
                        /\ InMain(j)' <=> InMain(j)
                        /\ Moving(j)' <=> Moving(j)
                        /\ ~ OnMain(j)' /\ (j # i => ~ OnMain(j))
                        /\ \A w \in Workers : Within(w, j)' <=> Within(w, j)
  BY <1>2 DEF InWorkers, InMain, Moving, OnMain, Within
<1>7. PlaceOwned(i)'
  BY <1>1, <1>5, <1>6 DEF PlaceOwned
<1>8. ASSUME NEW j \in Places \ {i} PROVE PlaceOwned(j)'
  <2>1. PlaceOwned(j) /\ (OnMain(j)' <=> OnMain(j))
    BY <1>0, <1>6 DEF Owned
  <2>2. exchange[j].state \in {"queued", "running"} => exchange[j].answer = "write"
    BY <2>1 DEF PlaceOwned
  <2> QED
    BY <1>1, <1>6, <2>1, <2>2, OwnedStays
<1>9. Owned'
  BY <1>0, <1>7, <1>8 DEF Owned
<1> QED
  BY <1>1, <1>2, <1>4, <1>5, <1>9

\* ... answered, or refused what it asked for.
LEMMA MainAnswersInv ==
    ASSUME ServerInv, MainHandlerReturns \/ (Upgrades /\ main'.at = "drain")
    PROVE  ServerInv'
<1>0. /\ Types /\ Control /\ Owned /\ Tables /\ PeersFit /\ main.at = "serve"
      /\ UNCHANGED <<server, pool, conn, queues, pass, worker>>
      /\ exchange \in [Places -> Slot] /\ main \in MainType
  BY DEF ServerInv, Types, MainHandlerReturns, Upgrades
<1>1. PICK i \in Places : i = main.place
  BY <1>0 DEF Control
<1>2. PICK s \in {Serves(exchange[i]), Refuses(exchange[i])} :
          /\ exchange' = [exchange EXCEPT ![i] = s] /\ main' = [main EXCEPT !.at = "drain"]
          /\ IF exchange[i].to = "main" THEN s = Serves(exchange[i])
             ELSE s = Refuses(exchange[i])
          /\ peer' = peer
  <2>1. CASE MainHandlerReturns
    BY <1>1, <2>1, Zenon DEF MainHandlerReturns, Serves
  <2>2. CASE Upgrades /\ main'.at = "drain"
    <3> DEFINE yes == Accepts101(exchange[i], peer[conn[i].who])
    <3>1. /\ exchange[i].to = "upgrade"
          /\ yes => main' = [main EXCEPT !.at = "flag"]
          /\ ~ yes => /\ exchange' = [exchange EXCEPT ![i] = Refuses(exchange[i])]
                      /\ main' = [main EXCEPT !.at = "drain"] /\ peer' = peer
      BY <1>1, <2>2, Zenon DEF Upgrades, Refuses
    <3> HIDE DEF yes
    <3>2. ~ yes
      BY <1>0, <2>2, <3>1 DEF MainType
    <3> QED
      BY <3>1, <3>2
  <2> QED
    BY <2>1, <2>2
<1>3. exchange[i] \in Slot
  BY <1>0
<1>4. /\ s \in Slot /\ s.state = "done" /\ s.who = exchange[i].who
      /\ s.request = exchange[i].request /\ s.to = exchange[i].to
      /\ s.response = exchange[i].request
      /\ exchange[i].answer = "write" => s.answer = "write"
      /\ s.to = "upgrade" => s.closeAfter
  <2>1. CASE s = Serves(exchange[i]) /\ exchange[i].to = "main"
    BY <1>3, <2>1, SlotMoves
  <2>2. CASE s = Refuses(exchange[i])
    BY <1>3, <2>2, SlotMoves
  <2> QED
    BY <1>2, <2>1, <2>2
<1>5. /\ exchange' \in [Places -> Slot] /\ main' \in MainType /\ main'.at = "drain"
      /\ exchange[i].state = "running" /\ exchange[i].answer = "write"
      /\ exchange'[i] = s /\ \A j \in Places \ {i} : exchange'[j] = exchange[j]
      /\ Control' /\ Owned'
  <2>1. /\ main.at \in {"serve", "flag"} /\ i = main.place /\ s \in Slot /\ s.state = "done"
        /\ exchange' = [exchange EXCEPT ![i] = s] /\ main' = [main EXCEPT !.at = "drain"]
    BY <1>0, <1>1, <1>2, <1>4
  <2> QED
    BY <1>0, <2>1, MainGives
<1>6. Types'
  BY <1>0, <1>2, <1>5 DEF Types
<1>7. Tables'
  <2>1. \A j \in Places : SameSlot(exchange[j], exchange'[j])
    BY <1>4, <1>5 DEF SameSlot, Busy
  <2>2. \A j \in Places : /\ SameConn(conn[j], conn'[j]) /\ conn'[j] = conn[j]
                          /\ SamePeer(peer[conn[j].who], peer'[conn[j].who])
                          /\ ~ Flagging(j)
    BY <1>0, <1>2 DEF SameConn, SamePeer, Flagging
  <2>3. main'.at # "down" /\ main.at # "down"
    BY <1>0, <1>5
  <2> QED
    BY <1>0, <2>1, <2>2, <2>3, TablesStay
<1>8. PeersFit'
  BY <1>0, <1>2, PeersStay DEF PeersFit
<1> QED
  BY <1>5, <1>6, <1>7, <1>8 DEF ServerInv

\* The 101 is out: the connection is flagged and the slot given back.
LEMMA FlagsUpgradeInv ==
    ASSUME ServerInv, FlagsUpgrade
    PROVE  ServerInv'
<1>0. /\ Types /\ Control /\ Owned /\ Tables /\ PeersFit /\ main.at = "flag"
      /\ UNCHANGED <<server, pool, queues, pass, worker, peer>>
      /\ exchange \in [Places -> Slot] /\ conn \in [Places -> Conn] /\ main \in MainType
  BY DEF ServerInv, Types, FlagsUpgrade
<1>1. PICK i \in Places : i = main.place
  BY <1>0 DEF Control
<1> DEFINE s == Flags(exchange[i])
           c == NewUpgraded(conn[i])
<1>2. exchange[i] \in Slot /\ conn[i] \in Conn
  BY <1>0
<1>3. s \in Slot /\ s.state = "done" /\ s.answer = "upgraded"
  BY <1>2, SlotMoves
<1>4. /\ exchange' = [exchange EXCEPT ![i] = s] /\ conn' = [conn EXCEPT ![i] = c]
      /\ main' = [main EXCEPT !.at = "drain"]
  <2>1. /\ exchange' = [exchange EXCEPT ![i].answer = "upgraded", ![i].state = "done"]
        /\ conn' = [conn EXCEPT ![i].upgraded = TRUE] /\ main' = [main EXCEPT !.at = "drain"]
    BY <1>1, Zenon DEF FlagsUpgrade
  <2>2. [exchange EXCEPT ![i].answer = "upgraded", ![i].state = "done"]
            = [exchange EXCEPT ![i] = s]
    BY <1>0, Zenon DEF Flags
  <2>3. [conn EXCEPT ![i].upgraded = TRUE] = [conn EXCEPT ![i] = c]
    BY <1>0, Zenon DEF NewUpgraded
  <2> QED
    BY <2>1, <2>2, <2>3
<1> HIDE DEF s
<1>5. /\ exchange' \in [Places -> Slot] /\ main' \in MainType /\ main'.at = "drain"
      /\ exchange[i].state = "running" /\ exchange[i].answer = "write"
      /\ exchange'[i] = s /\ \A j \in Places \ {i} : exchange'[j] = exchange[j]
      /\ Control' /\ Owned'
  BY <1>0, <1>1, <1>3, <1>4, MainGives
<1>6. /\ c \in Conn /\ c.who = conn[i].who /\ c.read = conn[i].read /\ c.used = conn[i].used
      /\ c.owed = conn[i].owed /\ c.upgraded
  BY <1>2, NewUpgradedType
<1> HIDE DEF c
<1>7. /\ conn' \in [Places -> Conn] /\ conn'[i] = c
      /\ \A j \in Places \ {i} : conn'[j] = conn[j]
  BY <1>0, <1>4, <1>6
<1>8. Types'
  BY <1>0, <1>5, <1>7 DEF Types
<1>9. PlaceFits(i) /\ ~ Free(i)
  BY <1>0, <1>5 DEF Tables, PlaceFits, Busy
<1>10. PlaceFits(i)'
  <2>1. ~ Busy(exchange'[i])
    BY <1>3, <1>5 DEF Busy
  <2>2. SlotFits(conn'[i], exchange'[i], peer'[conn'[i].who])
    BY <2>1 DEF SlotFits
  <2>3. /\ peer[conn[i].who].state \in {"open", "reset"} /\ Sound(conn[i], peer[conn[i].who])
    BY <1>9 DEF PlaceFits
  <2>4. /\ peer'[conn'[i].who].state \in {"open", "reset"}
        /\ Sound(conn'[i], peer'[conn'[i].who])
    BY <1>0, <1>6, <1>7, <2>3 DEF Sound
  <2> QED
    BY <1>6, <1>7, <2>1, <2>2, <2>4 DEF PlaceFits
<1>11. Tables'
  <2>1. \A j \in Places \ {i} : ~ Flagging(j)
    BY <1>1 DEF Flagging
  <2>2. main'.at # "down" /\ main.at # "down" /\ conn'[i].who = conn[i].who
    BY <1>0, <1>5, <1>6, <1>7
  <2> QED
    BY <1>0, <1>5, <1>7, <1>9, <1>10, <2>1, <2>2, OnePlace
<1>12. PeersFit'
  BY <1>0, PeersStay DEF PeersFit
<1> QED
  BY <1>5, <1>8, <1>11, <1>12 DEF ServerInv

\* One peer changed, and heard what it may hear.
LEMMA OnePeer ==
    ASSUME PeersFit, peer \in [Peers -> PeerEnd], NEW p \in Peers, pool' = pool,
           NEW q \in PeerEnd, peer' = [peer EXCEPT ![p] = q], q.sent <= Len(q.script),
           Heard(q.script, q.got), q.state \in {"away", "waiting"} => q.sent = 0 /\ q.got = <<>>
    PROVE  PeersFit' /\ peer' \in [Peers -> PeerEnd] /\ peer'[p] = q
           /\ \A r \in Peers \ {p} : peer'[r] = peer[r]
<1>1. /\ peer' \in [Peers -> PeerEnd] /\ peer'[p] = q
      /\ \A r \in Peers \ {p} : peer'[r] = peer[r]
  OBVIOUS
<1>2. ASSUME NEW r \in Peers
      PROVE  /\ peer'[r].sent <= Len(peer'[r].script)
             /\ Heard(peer[r].script, peer[r].got)'
             /\ peer'[r].state \in {"away", "waiting"} => peer'[r].sent = 0
                                                          /\ peer'[r].got = <<>>
  <2>1. CASE r = p
    <3>1. Heard(peer[r].script, peer[r].got)'
      BY <1>1, <2>1, HeardNext
    <3> QED
      BY <1>1, <2>1, <3>1
  <2>2. CASE r # p
    <3>1. /\ peer'[r] = peer[r] /\ peer[r].sent <= Len(peer[r].script)
          /\ Heard(peer[r].script, peer[r].got)
          /\ peer[r].state \in {"away", "waiting"} => peer[r].sent = 0 /\ peer[r].got = <<>>
      BY <1>1, <2>2 DEF PeersFit
    <3>2. Heard(peer[r].script, peer[r].got)'
      BY <3>1, HeardNext
    <3> QED
      BY <3>1, <3>2
  <2> QED
    BY <2>1, <2>2
<1>3. PeersFit'
  BY <1>2 DEF PeersFit
<1> QED
  BY <1>1, <1>3

\* The tick writes a 101.
LEMMA UpgradesInv ==
    ASSUME ServerInv, Upgrades, main'.at # "drain"
    PROVE  ServerInv'
<1>0. /\ Types /\ Control /\ Owned /\ Tables /\ PeersFit /\ main.at = "serve"
      /\ UNCHANGED <<server, pool, conn, queues, pass, worker>>
      /\ exchange \in [Places -> Slot] /\ main \in MainType /\ peer \in [Peers -> PeerEnd]
  BY DEF ServerInv, Types, Upgrades
<1>1. PICK i \in Places : i = main.place
  BY <1>0 DEF Control
<1>2. PICK W : W = conn[i].who
  OBVIOUS
<1> DEFINE s == exchange[i]
           k == s.request
           g == Append(peer[W].got, k)
           p == NewHeard(peer[W], g, peer[W].unread + 1)
<1>3. PlaceOwned(i) /\ OnMain(i) /\ PlaceFits(i) /\ s \in Slot /\ ~ Flagging(i)
  BY <1>0, <1>1 DEF Owned, OnMain, Tables, Flagging
<1>4. s.state = "running" /\ Busy(s)
  BY <1>3 DEF PlaceOwned, Busy
<1>5. ~ Free(i) /\ ~ conn[i].upgraded /\ SlotFits(conn[i], s, peer[W]) /\ s.to = "upgrade"
  BY <1>1, <1>2, <1>3, <1>4 DEF PlaceFits, Upgrades
<1>6. /\ W \in Peers /\ peer[W] \in PeerEnd /\ peer[W].script \in Scripts
      /\ peer[W].got \in Seq(Nat) /\ conn[i].owed \in Seq(Nat) /\ peer[W].unread \in 0..Window
      /\ peer[W].state \in {"open", "reset"} /\ Sound(conn[i], peer[W])
      /\ peer[W].sent <= Len(peer[W].script)
  <2>1. W \in Peers /\ peer[W] \in PeerEnd /\ conn[i].owed \in Seq(Nat)
    BY <1>0, <1>2, <1>5, PlaceTypes
  <2>2. peer[W].state \in {"open", "reset"} /\ Sound(conn[i], peer[W])
    BY <1>2, <1>3, <1>5 DEF PlaceFits
  <2>3. peer[W].sent <= Len(peer[W].script)
    BY <1>0, <2>1 DEF PeersFit
  <2> QED
    BY <2>1, <2>2, <2>3 DEF PeerEnd
<1>7. /\ k \in LastOf(peer[W].script) /\ peer[W].script[k].to = "upgrade"
      /\ Heard(peer[W].script, peer[W].got \o conn[i].owed)
      /\ Told(peer[W].script, peer[W].got \o conn[i].owed, k)
  BY <1>2, <1>3, <1>4, <1>5 DEF SlotFits, PlaceFits, Edge
<1>8. Accepts101(s, peer[W]) /\ main' = [main EXCEPT !.at = "flag"] /\ exchange' = exchange
      /\ peer' = [peer EXCEPT ![W] = Sent101(s, peer[W])]
  <2>1. IF Accepts101(s, peer[W])
        THEN /\ peer' = [peer EXCEPT ![W] = Sent101(s, peer[W])]
             /\ main' = [main EXCEPT !.at = "flag"] /\ exchange' = exchange
        ELSE main' = [main EXCEPT !.at = "drain"]
    BY <1>1, <1>2, Zenon DEF Upgrades
  <2> QED
    BY <1>0, <2>1 DEF MainType
<1>9. Sent101(s, peer[W]) = p
  <2>1. Sent101(s, peer[W]) = [[peer[W] EXCEPT !.got = Append(peer[W].got, s.request)]
                                  EXCEPT !.unread = peer[W].unread + 1]
    BY <1>6, Zenon DEF Sent101, PeerEnd
  <2> QED
    BY <2>1, Zenon DEF NewHeard
<1>10. g \in Seq(Nat) /\ Heard(peer[W].script, g)
  <2> HIDE DEF k
  <2> QED
    BY <1>6, <1>7, Overtaken
<1> HIDE DEF g
<1>11. /\ p \in PeerEnd /\ p.got = g /\ p.script = peer[W].script /\ p.state = peer[W].state
       /\ p.sent = peer[W].sent
  <2>1. peer[W].unread + 1 \in 0..Window
    BY <1>6, <1>8, Constants DEF Accepts101
  <2> QED
    BY <1>6, <1>10, <2>1, NewHeardType, ZenonT(60)
<1> HIDE DEF p
<1>12. /\ PeersFit' /\ peer' \in [Peers -> PeerEnd] /\ peer'[W] = p
       /\ \A r \in Peers \ {W} : peer'[r] = peer[r]
  <2>1. /\ p.sent <= Len(p.script) /\ Heard(p.script, p.got)
        /\ p.state \notin {"away", "waiting"} /\ peer' = [peer EXCEPT ![W] = p]
    BY <1>6, <1>8, <1>9, <1>10, <1>11
  <2> QED
    BY <1>0, <1>6, <1>11, <2>1, OnePeer
<1>13. main' \in MainType /\ main'.at = "flag" /\ main'.place = i
  BY <1>0, <1>1, <1>8 DEF MainType
<1>14. Types'
  BY <1>0, <1>8, <1>12, <1>13 DEF Types
<1>15. Control'
  BY <1>0, <1>1, <1>8, <1>13 DEF Control, Threaded
<1>16. Owned'
  <2>1. \A j \in Places : /\ Moving(j)' <=> Moving(j)
                          /\ OnMain(j)' <=> OnMain(j)
                          /\ \A w \in Workers : Within(w, j)' <=> Within(w, j)
    BY <1>0, <1>1, <1>13 DEF Moving, OnMain, Within
  <2> QED
    BY <1>0, <1>8, <2>1, AllStay
<1>17. PlaceFits(i)'
  <2>1. /\ conn'[i].who = W /\ conn' = conn /\ exchange' = exchange /\ peer'[W] = p
    BY <1>0, <1>2, <1>8, <1>12
  <2>2. SlotFits(conn[i], s, p) /\ Sound(conn[i], p)
    BY <1>5, <1>6, <1>11 DEF SlotFits, Sound
  <2>3. Flagging(i)'
    BY <1>13 DEF Flagging
  <2> QED
    BY <1>2, <1>5, <1>6, <1>11, <2>1, <2>2, <2>3 DEF PlaceFits, Free
<1>18. Tables'
  <2>1. \A j \in Places \ {i} : ~ Flagging(j)
    BY <1>1 DEF Flagging
  <2>2. main'.at # "down" /\ main.at # "down" /\ conn'[i].who = conn[i].who
    BY <1>0, <1>13
  <2>3. \A r \in Peers \ {conn[i].who} : peer'[r] = peer[r]
    BY <1>2, <1>12
  <2> QED
    BY <1>0, <1>5, <1>8, <1>17, <2>1, <2>2, <2>3, OnePlace
<1> QED
  BY <1>12, <1>14, <1>15, <1>16, <1>18 DEF ServerInv

\* A peer connects, sends, shuts, breaks or reads.
LEMMA PeerStepInv ==
    ASSUME ServerInv, NEW p \in Peers, PeerStep(p)
    PROVE  ServerInv'
<1>0. /\ Types /\ Control /\ Owned /\ Tables /\ PeersFit /\ peer \in [Peers -> PeerEnd]
      /\ peer[p] \in PeerEnd /\ peer[p].script \in Scripts /\ peer[p].sent \in Nat
      /\ peer[p].sent <= Len(peer[p].script)
      /\ peer[p].state \in {"away", "waiting"} => peer[p].sent = 0 /\ peer[p].got = <<>>
      /\ UNCHANGED <<server, pool, conn, exchange, queues, pass, worker, main>>
  BY DEF ServerInv, Types, PeerStep, PeersFit, PeerEnd
<1>1. PICK q : /\ peer' = [peer EXCEPT ![p] = q]
               /\ \/ peer[p].state = "away" /\ q = [peer[p] EXCEPT !.state = "waiting"]
                  \/ /\ peer[p].state = "open" /\ peer[p].sent < Len(peer[p].script)
                     /\ q = [peer[p] EXCEPT !.sent = peer[p].sent + 1]
                  \/ peer[p].state = "open" /\ q = [peer[p] EXCEPT !.shut = TRUE]
                  \/ peer[p].state = "open" /\ q = [peer[p] EXCEPT !.state = "reset"]
                  \/ q = [peer[p] EXCEPT !.unread = 0]
  <2>1. CASE Connects(p)
    BY <1>0, <2>1 DEF Connects
  <2>2. CASE Sends(p)
    BY <1>0, <2>2 DEF Sends
  <2>3. CASE Shuts(p)
    BY <1>0, <2>3 DEF Shuts
  <2>4. CASE Breaks(p)
    BY <1>0, <2>4 DEF Breaks
  <2>5. CASE Reads(p)
    BY <1>0, <2>5 DEF Reads
  <2> QED
    BY <2>1, <2>2, <2>3, <2>4, <2>5 DEF PeerStep
<1>2. 0 \in 0..Window /\ Len(peer[p].script) \in Nat
  BY <1>0, Constants, LastOfRange
<1>3. /\ q \in PeerEnd /\ q.script = peer[p].script /\ q.got = peer[p].got
      /\ q.sent = peer[p].sent \/ q.sent = peer[p].sent + 1
      /\ peer[p].state \in {"open", "reset"} => q.state \in {"open", "reset"}
      /\ q.state \in {"away", "waiting"} => /\ peer[p].state \in {"away", "waiting"}
                                            /\ q.sent = peer[p].sent
      /\ q.sent <= Len(peer[p].script)
  <2>1. CASE q = [peer[p] EXCEPT !.state = "waiting"] /\ peer[p].state = "away"
    BY <1>0, <2>1 DEF PeerEnd
  <2>2. CASE /\ peer[p].state = "open" /\ peer[p].sent < Len(peer[p].script)
             /\ q = [peer[p] EXCEPT !.sent = peer[p].sent + 1]
    <3>1. peer[p].sent + 1 \in Nat /\ peer[p].sent + 1 <= Len(peer[p].script)
      BY <1>0, <1>2, <2>2
    <3> DEFINE n == peer[p].sent + 1
    <3> HIDE DEF n
    <3>2. /\ q \in PeerEnd /\ q.script = peer[p].script /\ q.got = peer[p].got
          /\ q.sent = n /\ q.state = peer[p].state
      BY <1>0, <2>2, <3>1 DEF PeerEnd, n
    <3> QED
      BY <2>2, <3>1, <3>2 DEF n
  <2>3. CASE q = [peer[p] EXCEPT !.shut = TRUE] /\ peer[p].state = "open"
    BY <1>0, <2>3 DEF PeerEnd
  <2>4. CASE q = [peer[p] EXCEPT !.state = "reset"] /\ peer[p].state = "open"
    BY <1>0, <2>4 DEF PeerEnd
  <2>5. CASE q = [peer[p] EXCEPT !.unread = 0]
    BY <1>0, <1>2, <2>5 DEF PeerEnd
  <2> QED
    BY <1>1, <2>1, <2>2, <2>3, <2>4, <2>5
<1>4. PeersFit' /\ peer' \in [Peers -> PeerEnd] /\ peer'[p] = q
      /\ \A r \in Peers \ {p} : peer'[r] = peer[r]
  <2>1. Heard(q.script, q.got)
    BY <1>0, <1>3 DEF PeersFit
  <2>2. /\ q.sent <= Len(q.script)
        /\ q.state \in {"away", "waiting"} => q.sent = 0 /\ q.got = <<>>
    BY <1>0, <1>3
  <2> QED
    BY <1>0, <1>1, <1>3, <2>1, <2>2, OnePeer
<1>5. Types'
  BY <1>0, <1>4 DEF Types
<1>6. Control'
  BY <1>0 DEF Control, Threaded
<1>7. \A j \in Places : /\ Moving(j)' <=> Moving(j)
                        /\ OnMain(j)' <=> OnMain(j)
                        /\ Flagging(j) => Flagging(j)'
                        /\ \A w \in Workers : Within(w, j)' <=> Within(w, j)
  BY <1>0 DEF Moving, OnMain, Flagging, Within
<1>8. Owned'
  BY <1>0, <1>7, AllStay
<1>9. Tables'
  <2>1. \A r \in Peers : SamePeer(peer[r], peer'[r])
    BY <1>3, <1>4 DEF SamePeer
  <2>2. \A j \in Places : ~ Free(j) => conn[j].who \in Peers
    BY <1>0, PlaceTypes
  <2>3. \A j \in Places : /\ SameConn(conn[j], conn'[j]) /\ conn'[j] = conn[j]
                          /\ SameSlot(exchange[j], exchange'[j])
    BY <1>0 DEF SameConn, SameSlot
  <2> QED
    BY <1>0, <1>7, <2>1, <2>2, <2>3, TablesStay
<1> QED
  BY <1>4, <1>5, <1>6, <1>8, <1>9 DEF ServerInv

\* A connection's clock runs out.
LEMMA AgesInv ==
    ASSUME ServerInv, NEW i \in Places, Ages(i)
    PROVE  ServerInv'
<1>0. /\ Types /\ Control /\ Owned /\ Tables /\ PeersFit /\ conn \in [Places -> Conn]
      /\ conn[i] \in Conn /\ ~ Free(i)
      /\ UNCHANGED <<server, pool, exchange, queues, pass, worker, main, peer>>
  BY DEF ServerInv, Types, Ages
<1> DEFINE c == NewAged(conn[i], TRUE)
<1>1. conn' = [conn EXCEPT ![i] = c]
  BY DEF Ages, NewAged
<1>2. c \in Conn /\ SameConn(conn[i], c)
  BY <1>0, NewAgedType DEF SameConn
<1> HIDE DEF c
<1>3. /\ conn' \in [Places -> Conn] /\ conn'[i] = c
      /\ \A j \in Places \ {i} : conn'[j] = conn[j]
  BY <1>0, <1>1, <1>2
<1>4. Types'
  BY <1>0, <1>3 DEF Types
<1>5. Control'
  BY <1>0 DEF Control, Threaded
<1>6. \A j \in Places : /\ Moving(j)' <=> Moving(j)
                        /\ OnMain(j)' <=> OnMain(j)
                        /\ Flagging(j) => Flagging(j)'
                        /\ \A w \in Workers : Within(w, j)' <=> Within(w, j)
  BY <1>0 DEF Moving, OnMain, Flagging, Within
<1>7. Owned'
  BY <1>0, <1>6, AllStay
<1>8. Tables'
  <2>1. \A j \in Places : /\ SameConn(conn[j], conn'[j]) /\ (Free(j) => conn'[j] = conn[j])
                          /\ SameSlot(exchange[j], exchange'[j])
                          /\ SamePeer(peer[conn[j].who], peer'[conn[j].who])
    BY <1>0, <1>2, <1>3 DEF SameConn, SameSlot, SamePeer
  <2> QED
    BY <1>0, <1>6, <2>1, TablesStay
<1>9. PeersFit'
  BY <1>0, PeersStay DEF PeersFit
<1> QED
  BY <1>4, <1>5, <1>7, <1>8, <1>9 DEF ServerInv

\* A socket that is closed.
LEMMA ClosedType ==
    ASSUME NEW p \in PeerEnd
    PROVE  LET q == Closed(p)
           IN  /\ q \in PeerEnd /\ q.state = "ended" /\ q.script = p.script /\ q.got = p.got
               /\ q.sent = p.sent
  BY DEF PeerEnd, Closed

\* A peer that is closed heard no more.
LEMMA ClosesPeer ==
    ASSUME Types, PeersFit, NEW p \in Peers, pool' = pool, peer' = [peer EXCEPT ![p] = Closed(@)]
    PROVE  PeersFit' /\ peer' \in [Peers -> PeerEnd] /\ peer'[p] = Closed(peer[p])
           /\ \A r \in Peers \ {p} : peer'[r] = peer[r]
<1> DEFINE q == Closed(peer[p])
<1>1. peer \in [Peers -> PeerEnd] /\ peer[p] \in PeerEnd
  BY DEF Types
<1>2. /\ q \in PeerEnd /\ q.state = "ended" /\ q.script = peer[p].script /\ q.got = peer[p].got
      /\ q.sent = peer[p].sent
  BY <1>1, ClosedType
<1>3. peer' = [peer EXCEPT ![p] = q]
  OBVIOUS
<1> HIDE DEF q
<1>4. /\ q.sent <= Len(q.script) /\ Heard(q.script, q.got)
      /\ q.state \in {"away", "waiting"} => q.sent = 0 /\ q.got = <<>>
  BY <1>2 DEF PeersFit
<1>5. PeersFit' /\ peer' \in [Peers -> PeerEnd] /\ peer'[p] = q
      /\ \A r \in Peers \ {p} : peer'[r] = peer[r]
  BY <1>1, <1>2, <1>3, <1>4, OnePeer
<1> QED
  BY <1>5 DEF q

\* A stream that nothing was said in yet.
LEMMA NothingSaid ==
    ASSUME NEW script \in Scripts, NEW s, ~ Busy(s)
    PROVE  /\ Heard(script, <<>> \o NoConnection.owed)
           /\ \A c : c.used = 0 => Told(script, <<>> \o NoConnection.owed, Edge(c, s))
<1>1. <<>> \o NoConnection.owed = <<>>
  BY DEF NoConnection
<1>2. Heard(script, <<>>)
  BY DEF Heard
<1>3. ASSUME NEW c, c.used = 0 PROVE Told(script, <<>>, Edge(c, s))
  <2>1. Edge(c, s) = 1
    BY <1>3 DEF Edge
  <2>2. \A l \in LastOf(script) : ~ (l < 1)
    BY LastOfRange
  <2> QED
    BY <2>1, <2>2 DEF Told
<1> QED
  BY <1>1, <1>2, <1>3

\* Whoever waits is taken to the first free place, or turned away.
LEMMA AcceptsInv ==
    ASSUME ServerInv, NEW p \in Peers, Accepts(p)
    PROVE  ServerInv'
<1>0. /\ Types /\ Control /\ Owned /\ Tables /\ PeersFit /\ pass.at = "accept"
      /\ peer[p].state = "waiting" /\ peer \in [Peers -> PeerEnd] /\ conn \in [Places -> Conn]
      /\ peer[p] \in PeerEnd
      /\ UNCHANGED <<server, pool, exchange, queues, pass, worker, main>>
  BY DEF ServerInv, Types, Accepts
<1>1. main.at # "down"
  BY <1>0 DEF Control
<1>2. \A j \in Places : ~ Free(j) => conn[j].who # p /\ conn[j].who \in Peers
  BY <1>0, <1>1, PlaceTypes DEF Tables, PlaceFits
<1>3. Control'
  BY <1>0 DEF Control, Threaded
<1>4. \A j \in Places : /\ Moving(j)' <=> Moving(j)
                        /\ OnMain(j)' <=> OnMain(j)
                        /\ Flagging(j) => Flagging(j)'
                        /\ \A w \in Workers : Within(w, j)' <=> Within(w, j)
  BY <1>0 DEF Moving, OnMain, Flagging, Within
<1>5. Owned'
  BY <1>0, <1>4, AllStay
<1>6. \A j \in Places : SameSlot(exchange[j], exchange'[j])
  BY <1>0 DEF SameSlot
<1>7. CASE Open = Places
  <2>1. peer' = [peer EXCEPT ![p] = Closed(@)] /\ conn' = conn
    BY <1>7 DEF Accepts
  <2>2. /\ PeersFit' /\ peer' \in [Peers -> PeerEnd]
        /\ \A r \in Peers \ {p} : peer'[r] = peer[r]
    BY <1>0, <2>1, ClosesPeer
  <2>3. \A j \in Places : /\ SameConn(conn[j], conn'[j]) /\ conn'[j] = conn[j]
                          /\ ~ Free(j) => SamePeer(peer[conn[j].who], peer'[conn[j].who])
    BY <1>2, <2>1, <2>2 DEF SameConn, SamePeer
  <2>4. Tables'
    BY <1>0, <1>1, <1>4, <1>6, <2>3, TablesStay
  <2>5. Types'
    BY <1>0, <2>1, <2>2 DEF Types
  <2> QED
    BY <1>3, <1>5, <2>2, <2>4, <2>5 DEF ServerInv
<1>8. CASE Open # Places
  <2>0. PICK i : i = First(Places \ Open)
    OBVIOUS
  <2>1. i \in Places /\ Free(i)
    <3>1. Places \ Open \in SUBSET Nat /\ Places \ Open # {}
      BY <1>8, Constants DEF Places, Open
    <3>2. i \in Places \ Open
      BY <2>0, <3>1, LeastNat
    <3> QED
      BY <3>2 DEF Open
  <2> DEFINE c == [NoConnection EXCEPT !.who = p]
             q == [peer[p] EXCEPT !.state = "open"]
  <2>2. /\ c \in Conn /\ c.who = p /\ c.read = 0 /\ c.used = 0 /\ c.owed = NoConnection.owed
        /\ NoConnection.owed = <<>> /\ c.upgraded = FALSE
    <3>1. /\ NoConnection \in Conn /\ NoConnection.read = 0 /\ NoConnection.used = 0
          /\ NoConnection.owed = <<>> /\ NoConnection.upgraded = FALSE
      BY Constants DEF NoConnection
    <3> QED
      BY <3>1 DEF Conn
  <2>3. conn' = [conn EXCEPT ![i] = c] /\ peer' = [peer EXCEPT ![p] = q]
    BY <1>8, <2>0 DEF Accepts
  <2>4. /\ q \in PeerEnd /\ q.state = "open" /\ q.script = peer[p].script
        /\ q.got = peer[p].got /\ q.sent = peer[p].sent /\ q.script \in Scripts
    BY <1>0 DEF PeerEnd
  <2> HIDE DEF c, q
  <2>5. /\ q.sent = 0 /\ q.got = <<>> /\ q.sent <= Len(q.script) /\ Heard(q.script, q.got)
    BY <1>0, <2>4 DEF PeersFit
  <2>6. /\ PeersFit' /\ peer' \in [Peers -> PeerEnd] /\ peer'[p] = q
        /\ \A r \in Peers \ {p} : peer'[r] = peer[r]
    BY <1>0, <2>3, <2>4, <2>5, OnePeer
  <2>7. /\ conn' \in [Places -> Conn] /\ conn'[i] = c
        /\ \A j \in Places \ {i} : conn'[j] = conn[j]
    BY <1>0, <2>1, <2>2, <2>3
  <2>8. Types'
    BY <1>0, <2>6, <2>7 DEF Types
  <2>9. ~ Free(i)' /\ c.who = p
    BY <2>2, <2>7, Constants DEF Free
  <2>10. PlaceFits(i)'
    <3>1. ~ Busy(exchange[i]) /\ exchange'[i] = exchange[i]
      BY <1>0, <1>1, <2>1 DEF Tables, PlaceFits
    <3>2. Sound(c, q)
      BY <2>2, <2>5, Constants DEF Sound
    <3>3. SlotFits(c, exchange[i], q)
      BY <3>1 DEF SlotFits
    <3>4. q.got \o c.owed = <<>> \o NoConnection.owed
      BY <2>2, <2>5
    <3>5. Heard(q.script, q.got \o c.owed) /\ Told(q.script, q.got \o c.owed, Edge(c, exchange[i]))
      BY <2>2, <2>4, <3>1, <3>4, NothingSaid
    <3>6. peer'[conn'[i].who] = q /\ conn'[i] = c
      BY <2>6, <2>7, <2>9
    <3>7. Heard(peer[conn[i].who].script, peer[conn[i].who].got \o conn[i].owed)'
      BY <1>0, <3>5, <3>6, HeardNext
    <3> QED
      BY <2>2, <2>4, <2>9, <3>1, <3>2, <3>3, <3>5, <3>6, <3>7 DEF PlaceFits
  <2>11. ASSUME NEW j \in Places \ {i} PROVE PlaceFits(j)'
    <3>1. PlaceFits(j) /\ j \in Places
      BY <1>0, <1>1 DEF Tables
    <3>2. SameConn(conn[j], conn'[j]) /\ SameSlot(exchange[j], exchange'[j])
      BY <1>6, <2>7 DEF SameConn
    <3>3. ~ Free(j) => SamePeer(peer[conn[j].who], peer'[conn[j].who])
      BY <1>2, <2>6 DEF SamePeer
    <3>4. Flagging(j) => Flagging(j)'
      BY <1>4
    <3> QED
      BY <1>0, <3>1, <3>2, <3>3, <3>4, StaysFit
  <2>12. \A j \in Places : Free(j)' => conn'[j] = NoConnection
    BY <1>0, <2>7, <2>9 DEF Tables, Free
  <2>13. \A j, k \in Places : ~ Free(j)' /\ conn'[j].who = conn'[k].who => j = k
    <3> SUFFICES ASSUME NEW j \in Places, NEW k \in Places, ~ Free(j)',
                        conn'[j].who = conn'[k].who
                 PROVE  j = k
      OBVIOUS
    <3>1. ~ Free(k)'
      BY DEF Free
    <3>2. \A l \in Places \ {i} : ~ Free(l)' => conn'[l].who # p /\ conn'[l] = conn[l] /\ ~ Free(l)
      BY <1>2, <2>7 DEF Free
    <3>3. CASE j = i \/ k = i
      BY <2>2, <2>7, <3>1, <3>2, <3>3
    <3>4. CASE j # i /\ k # i
      BY <1>0, <3>1, <3>2, <3>4 DEF Tables
    <3> QED
      BY <3>3, <3>4
  <2>14. Tables'
    BY <1>0, <1>1, <2>10, <2>11, <2>12, <2>13 DEF Tables
  <2> QED
    BY <1>3, <1>5, <2>6, <2>8, <2>14 DEF ServerInv
<1> QED
  BY <1>7, <1>8

\* Without workers the pass ticks a WebSocket, which may end.
LEMMA TicksSocketInv ==
    ASSUME ServerInv, NEW lives \in BOOLEAN, TicksSocket(lives)
    PROVE  ServerInv'
<1>0. /\ Types /\ Control /\ Owned /\ Tables /\ PeersFit /\ pass.at = "turns" /\ ~ Threaded
      /\ conn \in [Places -> Conn] /\ peer \in [Peers -> PeerEnd] /\ NextTurn
      /\ UNCHANGED <<server, pool, exchange, queues, worker>>
  BY DEF ServerInv, Types, TicksSocket
<1>1. PICK i \in Places : i = pass.place
  BY <1>0 DEF Control
<1>2. /\ conn[i].upgraded
      /\ conn' = IF lives THEN conn ELSE [conn EXCEPT ![i] = NoConnection]
      /\ peer' = IF lives THEN peer ELSE [peer EXCEPT ![conn[i].who] = Closed(@)]
  BY <1>1 DEF TicksSocket
<1>3. ~ Free(i) /\ conn[i].who \in Peers
  <2>1. ~ Free(i)
    BY <1>0, <1>2 DEF Tables, NoConnection
  <2> QED
    BY <1>0, <2>1, PlaceTypes
<1>4. /\ pass' \in PassType /\ main' \in MainType
      /\ \/ pass'.at = "turns" /\ pass'.place = pass.place + 1 /\ pass'.place \in Places
         \/ pass'.at = "rest" /\ pass'.place = 0
      /\ IF Threaded \/ pass'.at # "rest" THEN main' = main
         ELSE main.at = "pass" /\ main'.at = "idle" /\ main'.place = main.place
  BY <1>0, NextTurnType
<1>5. Control'
  BY <1>0, <1>4, NextTurnControl
<1>6. /\ \A j \in Places : /\ Moving(j)' <=> Moving(j)
                           /\ OnMain(j)' <=> OnMain(j)
                           /\ Flagging(j) => Flagging(j)'
                           /\ \A w \in Workers : Within(w, j)' <=> Within(w, j)
      /\ main.at # "down" /\ main'.at # "down"
  <2>1. main.at = "pass" /\ main'.at \in {"pass", "idle"}
    BY <1>0, <1>4 DEF Control
  <2> QED
    BY <1>0, <1>4, <2>1 DEF Moving, OnMain, Flagging, Within
<1>7. Owned'
  BY <1>0, <1>6, AllStay
<1>8. CASE lives
  <2>1. Types'
    BY <1>0, <1>2, <1>4, <1>8 DEF Types
  <2>2. \A j \in Places : /\ SameConn(conn[j], conn'[j]) /\ conn'[j] = conn[j]
                          /\ SameSlot(exchange[j], exchange'[j])
                          /\ SamePeer(peer[conn[j].who], peer'[conn[j].who])
    BY <1>0, <1>2, <1>8 DEF SameConn, SameSlot, SamePeer
  <2>3. Tables'
    BY <1>0, <1>6, <2>2, TablesStay
  <2>4. PeersFit'
    BY <1>0, <1>2, <1>8, PeersStay DEF PeersFit
  <2> QED
    BY <1>5, <1>7, <2>1, <2>3, <2>4 DEF ServerInv
<1>9. CASE ~ lives
  <2>1. conn' = [conn EXCEPT ![i] = NoConnection]
    BY <1>2, <1>9
  <2>2. peer' = [peer EXCEPT ![conn[i].who] = Closed(@)]
    BY <1>2, <1>9
  <2>3. /\ PeersFit' /\ peer' \in [Peers -> PeerEnd]
        /\ \A r \in Peers \ {conn[i].who} : peer'[r] = peer[r]
    <3> DEFINE W == conn[i].who
    <3>1. W \in Peers /\ peer' = [peer EXCEPT ![W] = Closed(@)]
      BY <1>3, <2>2
    <3> HIDE DEF W
    <3>2. /\ PeersFit' /\ peer' \in [Peers -> PeerEnd]
          /\ \A r \in Peers \ {W} : peer'[r] = peer[r]
      BY <1>0, <3>1, ClosesPeer
    <3> QED
      BY <3>2 DEF W
  <2>4. /\ conn' \in [Places -> Conn] /\ conn'[i] = NoConnection
        /\ \A j \in Places \ {i} : conn'[j] = conn[j]
    BY <1>0, <2>1, Constants
  <2>5. Types'
    BY <1>0, <1>4, <2>3, <2>4 DEF Types
  <2>6. PlaceFits(i)'
    <3>1. ~ Busy(exchange'[i])
      BY <1>0 DEF Control, Busy
    <3>2. Free(i)'
      BY <2>4, Constants DEF Free
    <3> QED
      BY <3>1, <3>2 DEF PlaceFits
  <2>7. \A j \in Places \ {i} : /\ conn'[j] = conn[j] /\ exchange'[j] = exchange[j]
                                /\ Flagging(j) => Flagging(j)'
    BY <1>0, <1>6, <2>4
  <2>8. Tables'
    BY <1>0, <1>3, <1>6, <2>3, <2>4, <2>6, <2>7, OnePlace
  <2> QED
    BY <1>5, <1>7, <2>3, <2>5, <2>8 DEF ServerInv
<1> QED
  BY <1>8, <1>9

\* The tick drains the WebSockets, and some of them end.
LEMMA DrainsSocketsInv ==
    ASSUME ServerInv, NEW ended \in SUBSET Upgraded, DrainsSockets(ended)
    PROVE  ServerInv'
<1>0. /\ Types /\ Control /\ Owned /\ Tables /\ PeersFit /\ main.at = "sockets"
      /\ conn \in [Places -> Conn] /\ peer \in [Peers -> PeerEnd] /\ main \in MainType
      /\ UNCHANGED <<server, pool, exchange, queues, pass, worker>>
  BY DEF ServerInv, Types, DrainsSockets
<1>1. /\ ended \subseteq Places
      /\ \A i \in ended : ~ Free(i) /\ conn[i].who \in Peers /\ ~ Busy(exchange[i])
  <2>1. \A i \in ended : i \in Places /\ conn[i].upgraded
    BY DEF Upgraded
  <2>2. \A i \in ended : ~ Free(i)
    BY <1>0, <2>1 DEF Tables, NoConnection
  <2>3. \A i \in ended : ~ Busy(exchange[i])
    BY <1>0, <2>1, <2>2 DEF Tables, PlaceFits
  <2> QED
    BY <1>0, <2>1, <2>2, <2>3, PlaceTypes
<1>2. /\ conn' \in [Places -> Conn]
      /\ \A j \in Places : conn'[j] = IF j \in ended THEN NoConnection ELSE conn[j]
  <2>1. conn' = [j \in Places |-> IF j \in ended THEN NoConnection ELSE conn[j]]
    BY DEF DrainsSockets
  <2> QED
    BY <1>0, <2>1, Constants
<1>3. /\ peer' \in [Peers -> PeerEnd]
      /\ \A p \in Peers : peer'[p] = IF \E i \in ended : conn[i].who = p THEN Closed(peer[p])
                                     ELSE peer[p]
  <2>1. peer' = [p \in Peers |-> IF \E i \in ended : conn[i].who = p THEN Closed(peer[p])
                                 ELSE peer[p]]
    BY DEF DrainsSockets
  <2>2. \A p \in Peers : Closed(peer[p]) \in PeerEnd
    BY <1>0, ClosedType
  <2> QED
    BY <1>0, <2>1, <2>2
<1>4. main' \in MainType /\ main'.at = "idle" /\ main'.place = main.place
  <2>1. main' = [main EXCEPT !.at = "idle"]
    BY DEF DrainsSockets
  <2> QED
    BY <1>0, <2>1 DEF MainType
<1>5. Types'
  BY <1>0, <1>2, <1>3, <1>4 DEF Types
<1>6. Control'
  BY <1>0, <1>4 DEF Control, Threaded
<1>7. \A j \in Places : /\ Moving(j)' <=> Moving(j)
                        /\ OnMain(j)' <=> OnMain(j)
                        /\ ~ Flagging(j)
                        /\ \A w \in Workers : Within(w, j)' <=> Within(w, j)
  BY <1>0, <1>4 DEF Moving, OnMain, Flagging, Within
<1>8. Owned'
  BY <1>0, <1>7, AllStay
<1>9. PeersFit'
  <2>1. \A p \in Peers : /\ peer'[p].script = peer[p].script /\ peer'[p].got = peer[p].got
                         /\ peer'[p].sent = peer[p].sent
                         /\ peer'[p].state \in {peer[p].state, "ended"}
    <3>1. \A p \in Peers : peer'[p] \in {peer[p], Closed(peer[p])} /\ peer[p] \in PeerEnd
      BY <1>0, <1>3
    <3> QED
      BY <3>1, ClosedType
  <2>2. \A p \in Peers : /\ peer'[p].script = peer[p].script /\ peer'[p].got = peer[p].got
                         /\ peer'[p].sent <= Len(peer[p].script)
                         /\ peer'[p].state \in {"away", "waiting"} => peer'[p].sent = 0
                                                                     /\ peer[p].got = <<>>
    BY <1>0, <2>1 DEF PeersFit
  <2> QED
    BY <1>0, <2>2, PeersStay
<1>10. ASSUME NEW j \in Places PROVE PlaceFits(j)'
  <2>1. CASE j \in ended
    <3>1. Free(j)' /\ ~ Busy(exchange'[j])
      BY <1>0, <1>1, <1>2, <2>1, Constants DEF Free
    <3> QED
      BY <3>1 DEF PlaceFits
  <2>2. CASE j \notin ended
    <3>1. PlaceFits(j)
      BY <1>0 DEF Tables
    <3>2. SameConn(conn[j], conn'[j]) /\ SameSlot(exchange[j], exchange'[j])
      BY <1>0, <1>2, <2>2 DEF SameConn, SameSlot
    <3>3. ASSUME ~ Free(j) PROVE SamePeer(peer[conn[j].who], peer'[conn[j].who])
      <4>1. conn[j].who \in Peers
        BY <1>0, <3>3, PlaceTypes
      <4>2. ~ \E i \in ended : conn[i].who = conn[j].who
        BY <1>0, <1>1, <2>2 DEF Tables
      <4>3. peer'[conn[j].who] = peer[conn[j].who]
        BY <1>3, <4>1, <4>2
      <4> QED
        BY <4>3 DEF SamePeer
    <3>4. Flagging(j) => Flagging(j)'
      BY <1>7
    <3> QED
      BY <1>0, <3>1, <3>2, <3>3, <3>4, StaysFit
  <2> QED
    BY <2>1, <2>2
<1>11. Tables'
  <2>1. \A j \in Places : Free(j)' => conn'[j] = NoConnection
    BY <1>0, <1>2 DEF Tables, Free
  <2>2. \A j \in Places : ~ Free(j)' => conn'[j] = conn[j]
    BY <1>2, Constants DEF Free
  <2>3. \A j, k \in Places : ~ Free(j)' /\ conn'[j].who = conn'[k].who => j = k
    <3> SUFFICES ASSUME NEW j \in Places, NEW k \in Places, ~ Free(j)',
                        conn'[j].who = conn'[k].who
                 PROVE  j = k
      OBVIOUS
    <3>1. conn'[j] = conn[j] /\ conn'[k] = conn[k] /\ ~ Free(j)
      BY <2>2 DEF Free
    <3> QED
      BY <1>0, <3>1 DEF Tables
  <2> QED
    BY <1>4, <1>10, <2>1, <2>3 DEF Tables
<1> QED
  BY <1>5, <1>6, <1>8, <1>9, <1>11 DEF ServerInv

\* The workers are joined or given up: every socket is closed.
LEMMA CloseAllInv ==
    ASSUME ServerInv, CloseAll
    PROVE  ServerInv'
<1>0. /\ Types /\ Control /\ Owned /\ PeersFit /\ main.at = "workers"
      /\ peer \in [Peers -> PeerEnd] /\ main \in MainType /\ server \in ServerType
      /\ UNCHANGED <<pool, exchange, queues, pass, worker>>
  BY DEF ServerInv, Types, CloseAll
<1>1. /\ conn' \in [Places -> Conn]
      /\ \A j \in Places : conn'[j] = NoConnection
  <2>1. conn' = [j \in Places |-> NoConnection]
    BY DEF CloseAll
  <2> QED
    BY <2>1, Constants
<1>2. /\ peer' \in [Peers -> PeerEnd]
      /\ \A p \in Peers : peer'[p] = IF peer[p].state \in {"waiting", "open", "reset"}
                                     THEN Closed(peer[p]) ELSE peer[p]
  <2>1. peer' = [p \in Peers |-> IF peer[p].state \in {"waiting", "open", "reset"}
                                 THEN Closed(peer[p]) ELSE peer[p]]
    BY DEF CloseAll
  <2>2. \A p \in Peers : Closed(peer[p]) \in PeerEnd
    BY <1>0, ClosedType
  <2> QED
    BY <1>0, <2>1, <2>2
<1>3. main' \in MainType /\ main'.at = "down"
  BY <1>0 DEF MainType, CloseAll
<1>4. server' \in ServerType /\ (server'.memory = "freed" => Stuck = {})
  BY <1>0 DEF ServerType, CloseAll
<1>5. Types'
  BY <1>0, <1>1, <1>2, <1>3, <1>4 DEF Types
<1>6. Control'
  BY <1>0, <1>3, <1>4 DEF Control, Threaded, Stuck
<1>7. \A j \in Places : /\ Moving(j)' <=> Moving(j)
                        /\ OnMain(j)' <=> OnMain(j)
                        /\ \A w \in Workers : Within(w, j)' <=> Within(w, j)
  BY <1>0, <1>3 DEF Moving, OnMain, Within
<1>8. Owned'
  BY <1>0, <1>7, AllStay
<1>9. PeersFit'
  <2>1. \A p \in Peers : /\ peer'[p].script = peer[p].script /\ peer'[p].got = peer[p].got
                         /\ peer'[p].sent = peer[p].sent
                         /\ peer'[p].state \in {peer[p].state, "ended"}
    <3>1. \A p \in Peers : peer'[p] \in {peer[p], Closed(peer[p])} /\ peer[p] \in PeerEnd
      BY <1>0, <1>2
    <3> QED
      BY <3>1, ClosedType
  <2>2. \A p \in Peers : /\ peer'[p].script = peer[p].script /\ peer'[p].got = peer[p].got
                         /\ peer'[p].sent <= Len(peer[p].script)
                         /\ peer'[p].state \in {"away", "waiting"} => peer'[p].sent = 0
                                                                     /\ peer[p].got = <<>>
    BY <1>0, <2>1 DEF PeersFit
  <2> QED
    BY <1>0, <2>2, PeersStay
<1>10. Tables'
  <2>1. \A j \in Places : Free(j)'
    BY <1>1, Constants DEF Free
  <2> QED
    BY <1>1, <1>3, <2>1 DEF Tables
<1> QED
  BY <1>5, <1>6, <1>8, <1>9, <1>10 DEF ServerInv

\* An exchange the pass filled is queued.
LEMMA PushesInv ==
    ASSUME ServerInv, Pushes
    PROVE  ServerInv'
<1>0. /\ Types /\ Control /\ Owned /\ Tables /\ PeersFit /\ pass.at = "push" /\ NextTurn
      /\ queues \in QueuesType /\ exchange \in [Places -> Slot]
      /\ UNCHANGED <<server, pool, conn, exchange, worker, peer>>
  BY DEF ServerInv, Types, Pushes
<1>1. Threaded
  BY <1>0 DEF Control
<1>2. PICK i \in Places : i = pass.place
  BY <1>0 DEF Control
<1>3. /\ pass' \in PassType /\ main' = main /\ main' \in MainType
      /\ \/ pass'.at = "turns" /\ pass'.place \in Places
         \/ pass'.at = "rest"
  BY <1>0, <1>1, NextTurnType
<1>4. Control'
  BY <1>0, <1>1, <1>3 DEF Control, Threaded
<1>5. /\ PlaceOwned(i) /\ Moving(i) /\ ~ InWorkers(i) /\ ~ InMain(i)
      /\ exchange[i].to \in {"worker", "main", "upgrade"}
  BY <1>0, <1>2 DEF Owned, PlaceOwned, Moving, Slot
<1>6. \A j \in Places : /\ ~ Moving(j)' /\ (j # i => ~ Moving(j))
                        /\ OnMain(j)' <=> OnMain(j)
                        /\ Flagging(j) => Flagging(j)'
                        /\ \A w \in Workers : Within(w, j)' <=> Within(w, j)
  BY <1>0, <1>2, <1>3 DEF Moving, OnMain, Flagging, Within
<1>7. /\ queues.worker \in Seq(Places) /\ queues.main \in Seq(Places) /\ queues.work + 1 \in Nat
      /\ Once(queues.worker) /\ Once(queues.main)
  BY <1>0 DEF QueuesType, Owned
<1>8. /\ queues' \in QueuesType /\ Once(queues.worker)' /\ Once(queues.main)'
      /\ \A j \in Places : /\ InWorkers(j)' <=> InWorkers(j) \/ (j = i /\ exchange[i].to = "worker")
                           /\ InMain(j)' <=> InMain(j) \/ (j = i /\ exchange[i].to # "worker")
  <2>1. CASE exchange[i].to # "worker"
    <3> DEFINE q == Append(queues.main, i)
    <3>1. /\ q \in Seq(Places) /\ Once(q)
          /\ \A j : Holds(q, j) <=> Holds(queues.main, j) \/ j = i
      BY <1>5, <1>7, QueueAppend DEF InMain
    <3>2. queues' = [queues EXCEPT !.main = q]
      BY <1>2, <1>5, <2>1 DEF Pushes
    <3> HIDE DEF q
    <3>3. queues' \in QueuesType /\ queues'.main = q /\ queues'.worker = queues.worker
      BY <1>0, <3>1, <3>2 DEF QueuesType
    <3> QED
      BY <1>7, <2>1, <3>1, <3>3 DEF InWorkers, InMain
  <2>2. CASE exchange[i].to = "worker"
    <3> DEFINE q == Append(queues.worker, i)
               n == queues.work + 1
               v == [queues EXCEPT !.worker = q]
    <3>1. /\ q \in Seq(Places) /\ Once(q)
          /\ \A j : Holds(q, j) <=> Holds(queues.worker, j) \/ j = i
      BY <1>5, <1>7, QueueAppend DEF InWorkers
    <3>2. queues' = [v EXCEPT !.work = n]
      <4>1. queues' = [queues EXCEPT !.worker = Append(@, i), !.work = @ + 1]
        BY <1>2, <2>2 DEF Pushes
      <4> QED
        BY <1>0, <4>1, Zenon DEF QueuesType
    <3> HIDE DEF q, n
    <3>3. v \in QueuesType /\ v.worker = q /\ v.main = queues.main
      BY <1>0, <3>1 DEF QueuesType
    <3> HIDE DEF v
    <3>4. n \in Nat
      BY <1>7 DEF n
    <3>5. queues' \in QueuesType /\ queues'.worker = q /\ queues'.main = queues.main
      BY <3>2, <3>3, <3>4 DEF QueuesType
    <3> QED
      BY <1>7, <2>2, <3>1, <3>5 DEF InWorkers, InMain
  <2> QED
    BY <2>1, <2>2
<1>9. Types'
  BY <1>0, <1>3, <1>8 DEF Types
<1>10. PlaceOwned(i)'
  BY <1>0, <1>5, <1>6, <1>8 DEF PlaceOwned
<1>11. ASSUME NEW j \in Places \ {i} PROVE PlaceOwned(j)'
  <2>1. PlaceOwned(j)
    BY <1>0 DEF Owned
  <2>2. exchange[j].state \in {"queued", "running"} => exchange[j].answer = "write"
    BY <2>1 DEF PlaceOwned
  <2> QED
    BY <1>0, <1>6, <1>8, <2>1, <2>2, OwnedStays
<1>12. Owned'
  BY <1>8, <1>10, <1>11 DEF Owned
<1>13. Tables'
  <2>1. \A j \in Places : /\ SameConn(conn[j], conn'[j]) /\ conn'[j] = conn[j]
                          /\ SameSlot(exchange[j], exchange'[j])
                          /\ SamePeer(peer[conn[j].who], peer'[conn[j].who])
    BY <1>0 DEF SameConn, SameSlot, SamePeer
  <2> QED
    BY <1>0, <1>3, <1>6, <2>1, TablesStay
<1>14. PeersFit'
  BY <1>0, PeersStay DEF PeersFit
<1> QED
  BY <1>4, <1>9, <1>12, <1>13, <1>14 DEF ServerInv

\* A connection's turn: what it answered, read, parsed, queued or closed.
LEMMA TakesTurnInv ==
    ASSUME ServerInv, TakesTurn
    PROVE  ServerInv'
<1>0. /\ Types /\ Control /\ Owned /\ Tables /\ PeersFit /\ pass.at = "turns" /\ pass \in PassType
      /\ conn \in [Places -> Conn] /\ exchange \in [Places -> Slot] /\ main \in MainType
      /\ peer \in [Peers -> PeerEnd] /\ UNCHANGED <<server, pool, queues, worker>>
  BY DEF ServerInv, Types, TakesTurn
<1>1. PICK i \in Places : i = pass.place
  BY <1>0 DEF Control
<1>2. PICK W : W = conn[i].who
  OBVIOUS
<1>3. PICK t : t = Turn(i)
  OBVIOUS
<1>4. PICK c : c = IF t.lives THEN t.c ELSE NoConnection
  OBVIOUS
<1>5. PICK q : q = IF t.lives THEN t.p ELSE Closed(t.p)
  OBVIOUS
<1>6. /\ Ours(i) /\ conn' = [conn EXCEPT ![i] = c] /\ exchange' = [exchange EXCEPT ![i] = t.s]
      /\ peer' = [peer EXCEPT ![W] = q]
      /\ IF t.s.state = "queued"
         THEN pass' = [pass EXCEPT !.at = "push", !.left = t.left] /\ main' = main
         ELSE \/ /\ pass.place < MaxConnections
                 /\ pass' = [pass EXCEPT !.place = @ + 1, !.left = t.left] /\ main' = main
              \/ PassGoes("rest", 0)
  BY <1>1, <1>2, <1>3, <1>4, <1>5, Zenon DEF TakesTurn
<1>7. /\ main.at # "down" /\ ~ Free(i) /\ exchange[i].state \in {"idle", "done"}
      /\ PlaceOwned(i) /\ PlaceFits(i) /\ W \in Peers
  <2>1. main.at # "down"
    BY <1>0 DEF Control
  <2>2. ~ Free(i) /\ exchange[i].state \in {"idle", "done"}
    BY <1>6 DEF Ours
  <2> QED
    BY <1>0, <1>2, <2>1, <2>2, PlaceTypes DEF Owned, Tables
<1>8. /\ ~ Moving(i) /\ ~ InWorkers(i) /\ ~ InMain(i) /\ ~ OnMain(i) /\ ~ Flagging(i)
      /\ \A w \in Workers : ~ Within(w, i)
  BY <1>7 DEF PlaceOwned, OnMain, Flagging
<1>9. Between(t, W)
  <2>1. /\ peer[conn[i].who].sent <= Len(peer[conn[i].who].script)
        /\ Heard(peer[conn[i].who].script, peer[conn[i].who].got)
    BY <1>0, <1>2, <1>7 DEF PeersFit
  <2> QED
    BY <1>0, <1>2, <1>3, <1>6, <1>7, <1>8, <2>1, TurnKeeps
<1>10. /\ t \in Turns /\ t.c \in Conn /\ t.s \in Slot /\ t.p \in PeerEnd
       /\ t.left \in 0..RequestBudget /\ t.lives \in BOOLEAN
  <2>1. t \in Turns
    BY <1>9 DEF Between, TurnInv, Ground
  <2> QED
    BY <2>1, TurnParts
<1>11. /\ t.c.who = W /\ t.p.script = peer[W].script /\ t.p.state \in {"open", "reset"}
       /\ Sound(t.c, t.p) /\ t.p.sent <= Len(t.p.script) /\ Heard(t.p.script, t.p.got)
       /\ t.s.state \in {"idle", "queued"}
       /\ t.s.state = "queued" => t.lives /\ Threaded /\ t.s.answer = "write"
  BY <1>9 DEF Between, TurnInv, Ground
<1>12. /\ c \in Conn /\ conn' \in [Places -> Conn] /\ conn'[i] = c
       /\ \A j \in Places \ {i} : conn'[j] = conn[j]
       /\ exchange' \in [Places -> Slot] /\ exchange'[i] = t.s
       /\ \A j \in Places \ {i} : exchange'[j] = exchange[j]
  <2>1. c \in Conn
    BY <1>4, <1>10, Constants
  <2> QED
    BY <1>0, <1>6, <1>10, <2>1
<1>13. /\ PeersFit' /\ peer' \in [Peers -> PeerEnd] /\ peer'[W] = q
       /\ \A r \in Peers \ {W} : peer'[r] = peer[r]
  <2>1. /\ q \in PeerEnd /\ q.script = t.p.script /\ q.got = t.p.got /\ q.sent = t.p.sent
        /\ q.state \in {"open", "reset", "ended"}
    <3>1. CASE t.lives
      BY <1>5, <1>10, <1>11, <3>1
    <3>2. CASE ~ t.lives
      BY <1>5, <1>10, <3>2, ClosedType
    <3> QED
      BY <3>1, <3>2
  <2>2. /\ q.sent <= Len(q.script) /\ Heard(q.script, q.got)
        /\ q.state \in {"away", "waiting"} => q.sent = 0 /\ q.got = <<>>
    BY <1>11, <2>1
  <2> QED
    BY <1>0, <1>6, <1>7, <2>1, <2>2, OnePeer
<1>14. /\ pass' \in PassType /\ main' \in MainType /\ pass'.at \in {"push", "turns", "rest"}
       /\ pass'.at = "push" <=> t.s.state = "queued"
       /\ pass'.at = "push" => pass'.place = i
       /\ pass'.at = "turns" => pass'.place \in Places
       /\ IF Threaded \/ pass'.at # "rest" THEN main' = main
          ELSE main.at = "pass" /\ main'.at = "idle" /\ main'.place = main.place
  <2>1. CASE t.s.state = "queued"
    <3> DEFINE v == [pass EXCEPT !.at = "push"]
    <3>1. v \in PassType /\ v.at = "push" /\ v.place = i
      BY <1>0, <1>1 DEF PassType
    <3>2. pass' = [v EXCEPT !.left = t.left] /\ main' = main
      BY <1>0, <1>6, <2>1, Zenon DEF PassType
    <3> HIDE DEF v
    <3>3. pass' \in PassType /\ pass'.at = "push" /\ pass'.place = i
      BY <1>10, <3>1, <3>2 DEF PassType
    <3> QED
      BY <1>0, <2>1, <3>2, <3>3
  <2>2. CASE /\ t.s.state # "queued" /\ pass.place < MaxConnections
             /\ pass' = [pass EXCEPT !.place = @ + 1, !.left = t.left] /\ main' = main
    <3> DEFINE n == pass.place + 1
               v == [pass EXCEPT !.place = n]
    <3>1. n \in Places
      BY <1>1, <2>2, Constants DEF Places
    <3>2. pass' = [v EXCEPT !.left = t.left]
      BY <1>0, <2>2, Zenon DEF PassType
    <3> HIDE DEF n
    <3>3. v \in PassType /\ v.at = "turns" /\ v.place = n
      BY <1>0, <3>1 DEF PassType
    <3> HIDE DEF v
    <3>4. pass' \in PassType /\ pass'.at = "turns" /\ pass'.place = n
      BY <1>10, <3>2, <3>3 DEF PassType
    <3> QED
      BY <1>0, <2>2, <3>1, <3>4
  <2>3. CASE t.s.state # "queued" /\ PassGoes("rest", 0)
    <3>1. /\ pass' \in PassType /\ main' \in MainType /\ pass'.at = "rest"
          /\ IF Threaded THEN main' = main
             ELSE main.at = "pass" /\ main'.at = "idle" /\ main'.place = main.place
      BY <1>0, <2>3, PassGoesType
    <3> QED
      BY <2>3, <3>1
  <2> QED
    BY <1>6, <2>1, <2>2, <2>3
<1>15. Types'
  BY <1>0, <1>12, <1>13, <1>14 DEF Types
<1>16. Control'
  <2>1. CASE Threaded
    BY <1>0, <1>1, <1>14, <2>1 DEF Control, Threaded
  <2>2. CASE ~ Threaded
    <3>1. \A j \in Places : exchange'[j].state = "idle"
      BY <1>0, <1>11, <1>12, <2>2 DEF Control
    <3> QED
      BY <1>0, <1>11, <1>14, <2>2, <3>1 DEF Control, Threaded
  <2> QED
    BY <2>1, <2>2
<1>17. \A j \in Places : /\ InWorkers(j)' <=> InWorkers(j)
                         /\ InMain(j)' <=> InMain(j)
                         /\ ~ Moving(j) /\ (Moving(j)' <=> j = i /\ t.s.state = "queued")
                         /\ OnMain(j)' <=> OnMain(j)
                         /\ Flagging(j) => Flagging(j)'
                         /\ \A w \in Workers : Within(w, j)' <=> Within(w, j)
  BY <1>0, <1>14 DEF InWorkers, InMain, Moving, OnMain, Flagging, Within
<1>18. PlaceOwned(i)'
  BY <1>8, <1>11, <1>12, <1>17 DEF PlaceOwned
<1>19. ASSUME NEW j \in Places \ {i} PROVE PlaceOwned(j)'
  <2>1. PlaceOwned(j) /\ (Moving(j)' <=> Moving(j))
    BY <1>0, <1>17 DEF Owned
  <2>2. exchange[j].state \in {"queued", "running"} => exchange[j].answer = "write"
    BY <2>1 DEF PlaceOwned
  <2> QED
    BY <1>12, <1>17, <2>1, <2>2, OwnedStays
<1>20. Owned'
  BY <1>0, <1>18, <1>19 DEF Owned
<1>21. PlaceFits(i)'
  <2>1. CASE ~ t.lives
    <3>1. Free(i)' /\ ~ Busy(exchange'[i])
      BY <1>4, <1>11, <1>12, <2>1, Constants DEF Free, Busy
    <3> QED
      BY <3>1 DEF PlaceFits
  <2>2. CASE t.lives
    <3>1. /\ conn'[i] = t.c /\ peer'[conn'[i].who] = t.p /\ exchange'[i] = t.s /\ ~ Free(i)'
      BY <1>2, <1>4, <1>5, <1>7, <1>11, <1>12, <1>13, <2>2 DEF Free
    <3>2. /\ SlotFits(t.c, t.s, t.p) /\ (t.c.upgraded => ~ Busy(t.s))
          /\ Heard(t.p.script, t.p.got \o t.c.owed)
          /\ ~ t.c.upgraded => Told(t.p.script, t.p.got \o t.c.owed, Edge(t.c, t.s))
      BY <1>9, <2>2 DEF Between, TurnInv, Stream
    <3>3. Heard(peer[conn[i].who].script, peer[conn[i].who].got \o conn[i].owed)'
      BY <1>0, <3>1, <3>2, HeardNext
    <3> QED
      BY <1>11, <3>1, <3>2, <3>3 DEF PlaceFits
  <2> QED
    BY <2>1, <2>2
<1>22. Tables'
  <2>1. main'.at # "down"
    BY <1>7, <1>14
  <2>2. conn'[i].who = conn[i].who \/ conn'[i] = NoConnection
    BY <1>2, <1>4, <1>11, <1>12
  <2>3. \A j \in Places \ {i} : /\ conn'[j] = conn[j] /\ exchange'[j] = exchange[j]
                                /\ Flagging(j) => Flagging(j)'
    BY <1>12, <1>17
  <2>4. \A r \in Peers \ {conn[i].who} : peer'[r] = peer[r]
    BY <1>2, <1>13
  <2> QED
    BY <1>0, <1>7, <1>21, <2>1, <2>2, <2>3, <2>4, OnePlace
<1> QED
  BY <1>13, <1>15, <1>16, <1>20, <1>22 DEF ServerInv

-----------------------------------------------------------------------------
(* The theorems *)

\* The invariant holds at the start.
LEMMA InitInv ==
    ASSUME ServerInit
    PROVE  ServerInv
<1>1. Types
  <2>1. server \in ServerType /\ main \in MainType
    BY Constants DEF ServerInit, ServerType, MainType
  <2>2. pass \in PassType /\ queues \in QueuesType
    BY Constants DEF ServerInit, PassType, QueuesType
  <2>3. conn \in [Places -> Conn] /\ exchange \in [Places -> Slot]
    BY Constants DEF ServerInit
  <2>4. worker \in [Workers -> WorkerType]
    BY DEF ServerInit, WorkerType
  <2>5. peer \in [Peers -> PeerEnd]
    <3>1. peer \in [Peers -> [script : Scripts, state : {"away"}, sent : {0}, shut : {FALSE},
                              unread : {0}, got : {<<>>}]]
      BY DEF ServerInit
    <3>2. 0 \in 0..Window /\ <<>> \in Seq(Nat)
      BY Constants
    <3>3. ASSUME NEW p \in Peers PROVE peer[p] \in PeerEnd
      <4>1. peer[p] \in [script : Scripts, state : {"away"}, sent : {0}, shut : {FALSE},
                         unread : {0}, got : {<<>>}]
        BY <3>1
      <4>2. PICK script \in Scripts :
               peer[p] = [script |-> script, state |-> "away", sent |-> 0, shut |-> FALSE,
                          unread |-> 0, got |-> <<>>]
        BY <4>1
      <4> QED
        BY <3>2, <4>2 DEF PeerEnd
    <3>4. peer = [p \in Peers |-> peer[p]]
      BY <3>1
    <3> QED
      BY <3>3, <3>4
  <2> QED
    BY <2>1, <2>2, <2>3, <2>4, <2>5 DEF Types, ServerInit
<1>2. \A i \in Places : exchange[i].state = "idle" /\ conn[i] = NoConnection /\ Free(i)
  BY Constants DEF ServerInit, IdleSlot, Free
<1>3. Control
  BY <1>2 DEF ServerInit, Control, Threaded
<1>4. \A i \in Places : /\ ~ InWorkers(i) /\ ~ InMain(i) /\ ~ Moving(i) /\ ~ OnMain(i)
                        /\ \A w \in Workers : ~ Within(w, i)
  <2>1. \A w \in Workers : worker[w].at \in {"wait", "gone"}
    BY DEF ServerInit
  <2>2. queues.worker = <<>> /\ queues.main = <<>>
    BY DEF ServerInit
  <2>3. \A i : ~ Holds(<<>>, i)
    BY DEF Holds
  <2>4. pass.at = "rest" /\ main.at = "idle"
    BY DEF ServerInit
  <2> QED
    BY <2>1, <2>2, <2>3, <2>4 DEF InWorkers, InMain, Moving, OnMain, Within
<1>5. Owned
  <2>1. \A i \in Places : PlaceOwned(i)
    BY <1>2, <1>4 DEF PlaceOwned
  <2>2. Once(queues.worker) /\ Once(queues.main)
    BY DEF ServerInit, Once
  <2> QED
    BY <2>1, <2>2 DEF Owned
<1>6. Tables
  <2>1. \A i \in Places : PlaceFits(i)
    BY <1>2 DEF PlaceFits, Busy
  <2>2. main.at # "down"
    BY DEF ServerInit
  <2> QED
    BY <1>2, <2>1, <2>2 DEF Tables
<1>7. PeersFit
  <2>1. \A p \in Peers : /\ peer[p].sent = 0 /\ peer[p].got = <<>> /\ peer[p].script \in Scripts
    BY DEF ServerInit
  <2>2. \A script : Heard(script, <<>>)
    BY DEF Heard
  <2>3. \A p \in Peers : peer[p].sent <= Len(peer[p].script)
    BY <2>1, LastOfRange
  <2> QED
    BY <2>1, <2>2, <2>3 DEF PeersFit
<1> QED
  BY <1>1, <1>3, <1>5, <1>6, <1>7 DEF ServerInv

\* Every step keeps it.
LEMMA NextInv ==
    ASSUME ServerInv, [ServerNext]_serverVars
    PROVE  ServerInv'
<1>1. CASE PassStep
  BY <1>1, ListenerLoopsInv, PassesInv, TakesTurnInv, PushesInv, AcceptsInv, TicksSocketInv
     DEF PassStep
<1>2. CASE MainStep
  BY <1>2, TickInv, TakesMainInv, MainAnswersInv, UpgradesInv DEF MainStep
<1>3. CASE NeedsLock
  BY <1>3, FlagsUpgradeInv, DrainsSocketsInv DEF NeedsLock
<1>4. CASE Shutdown \/ Stops \/ Signal
  BY <1>4, AsksInv
<1>5. CASE DeinitStep
  BY <1>5, JoinsInv, CloseAllInv DEF DeinitStep
<1>6. CASE \E w \in Workers : WorkerStep(w) \/ Hangs(w)
  BY <1>6, WorkerTakesInv, WorkerStandsInv, HandlerReturnsInv DEF WorkerStep
<1>7. CASE \E p \in Peers : PeerStep(p)
  BY <1>7, PeerStepInv
<1>8. CASE \E i \in Places : Ages(i)
  BY <1>8, AgesInv
<1>9. CASE Down \/ UNCHANGED serverVars
  <2>1. UNCHANGED serverVars
    BY <1>9 DEF Down
  <2>2. /\ Types /\ Control
        /\ UNCHANGED <<server, pool, conn, exchange, queues, pass, worker, main, peer>>
    BY <2>1 DEF serverVars, ServerInv
  <2>3. Types'
    BY <2>2 DEF Types
  <2>4. Control'
    BY <2>2 DEF Control, Threaded
  <2> QED
    BY <2>2, <2>3, <2>4, Rearranged DEF Moving, OnMain, Flagging, Within
<1> QED
  BY <1>1, <1>2, <1>3, <1>4, <1>5, <1>6, <1>7, <1>8, <1>9 DEF ServerNext

\* Every state of the server, whatever the peers send, the threads' order and the bounds.
THEOREM ServerInvariant == ServerSpec => []ServerInv
<1>1. ServerInit => ServerInv
  BY InitInv
<1>2. ServerInv /\ [ServerNext]_serverVars => ServerInv'
  BY NextInv
<1> QED
  BY <1>1, <1>2, PTL DEF ServerSpec

-----------------------------------------------------------------------------
(* What it shows *)

\* A set in which any two are one has at most one element.
LEMMA AtMostOne ==
    ASSUME NEW S, \A x, y \in S : x = y
    PROVE  Cardinality(S) \in 0..1 /\ (S = {} => Cardinality(S) = 0)
<1>1. CASE S = {}
  BY <1>1, FS_EmptySet
<1>2. CASE S # {}
  <2>1. PICK x : x \in S
    BY <1>2
  <2>2. S = {x}
    BY <2>1
  <2> QED
    BY <1>2, <2>2, FS_Singleton
<1> QED
  BY <1>1, <1>2

\* The queues and threads that hold an exchange, as the property names them.
LEMMA HandsOf ==
    ASSUME ServerInv, NEW i \in Places
    PROVE  /\ Queued(i) # {} <=> InWorkers(i)
           /\ Waiting(i) # {} <=> InMain(i)
           /\ Inside(i) # {} <=> \E w \in Workers : Within(w, i)
           /\ Cardinality(Queued(i)) \in 0..1 /\ (Queued(i) = {} => Cardinality(Queued(i)) = 0)
           /\ Cardinality(Waiting(i)) \in 0..1 /\ (Waiting(i) = {} => Cardinality(Waiting(i)) = 0)
           /\ Cardinality(Inside(i)) \in 0..1 /\ (Inside(i) = {} => Cardinality(Inside(i)) = 0)
<1>1. Once(queues.worker) /\ Once(queues.main) /\ PlaceOwned(i)
  BY DEF ServerInv, Owned
<1>2. /\ Queued(i) # {} <=> InWorkers(i)
      /\ Waiting(i) # {} <=> InMain(i)
      /\ Inside(i) # {} <=> \E w \in Workers : Within(w, i)
  BY DEF Queued, Waiting, Inside, InWorkers, InMain, Holds, Within
<1>3. \A x, y \in Queued(i) : x = y
  BY <1>1 DEF Queued, Once
<1>4. \A x, y \in Waiting(i) : x = y
  BY <1>1 DEF Waiting, Once
<1>5. \A x, y \in Inside(i) : x = y
  BY <1>1 DEF Inside, PlaceOwned, Within
<1> QED
  BY <1>2, <1>3, <1>4, <1>5, AtMostOne

\* ExchangeOwned, for any number of connections and workers: an exchange is in one
\* pair of hands, its connection waits for it, and the memory outlives every thread.
THEOREM ExchangeIsOwned == ServerSpec => []ExchangeOwned
<1>1. ASSUME ServerInv PROVE ExchangeOwned
  <2>1. /\ Types /\ Control /\ Tables /\ \A i \in Places : PlaceOwned(i)
    BY <1>1 DEF ServerInv, Owned
  <2>2. ASSUME NEW i \in Places
        PROVE  /\ exchange[i].state = "queued"
                    <=> ((pass.at = "push" /\ pass.place = i) \/ Queued(i) \cup Waiting(i) # {})
               /\ exchange[i].state = "running" <=> (Inside(i) # {} \/ OnMain(i))
               /\ Hands(i) <= 1
               /\ exchange[i].state \in {"queued", "running"} /\ main.at # "down"
                    => conn[i].who = exchange[i].who
    <3>1. PlaceOwned(i)
      BY <2>1
    <3> DEFINE q == Cardinality(Queued(i))
               m == Cardinality(Waiting(i))
               n == Cardinality(Inside(i))
    <3>2. /\ Queued(i) # {} <=> InWorkers(i)
          /\ Waiting(i) # {} <=> InMain(i)
          /\ Inside(i) # {} <=> \E w \in Workers : Within(w, i)
          /\ q \in 0..1 /\ (Queued(i) = {} => q = 0)
          /\ m \in 0..1 /\ (Waiting(i) = {} => m = 0)
          /\ n \in 0..1 /\ (Inside(i) = {} => n = 0)
      BY <1>1, HandsOf
    <3>3. Queued(i) \cup Waiting(i) # {} <=> InWorkers(i) \/ InMain(i)
      BY <3>2
    <3>4. exchange[i].state = "queued"
            <=> ((pass.at = "push" /\ pass.place = i) \/ Queued(i) \cup Waiting(i) # {})
      BY <3>1, <3>3 DEF PlaceOwned, Moving
    <3>5. exchange[i].state = "running" <=> (Inside(i) # {} \/ OnMain(i))
      BY <3>1, <3>2 DEF PlaceOwned
    <3>6. Hands(i) <= 1
      <4>1. ~ (InWorkers(i) /\ InMain(i))
        BY <3>1 DEF PlaceOwned
      <4>2. ~ (OnMain(i) /\ \E w \in Workers : Within(w, i))
        BY <3>1 DEF PlaceOwned
      <4>3. InWorkers(i) \/ InMain(i) => ~ OnMain(i) /\ ~ \E w \in Workers : Within(w, i)
        BY <3>1 DEF PlaceOwned
      <4>4. q = 0 \/ InWorkers(i)
        BY <3>2
      <4>5. m = 0 \/ InMain(i)
        BY <3>2
      <4>6. n = 0 \/ \E w \in Workers : Within(w, i)
        BY <3>2
      <4>7. Hands(i) = q + m + n + (IF OnMain(i) THEN 1 ELSE 0)
        BY DEF Hands
      <4> HIDE DEF q, m, n
      <4>8. q \in 0..1 /\ m \in 0..1 /\ n \in 0..1
        BY <3>2
      <4>9. CASE InWorkers(i) \/ InMain(i)
        <5>1. n = 0 /\ ~ OnMain(i) /\ (q = 0 \/ m = 0)
          BY <4>1, <4>3, <4>4, <4>5, <4>6, <4>9
        <5> QED
          BY <4>7, <4>8, <5>1
      <4>10. CASE ~ (InWorkers(i) \/ InMain(i))
        <5>1. q = 0 /\ m = 0 /\ (n = 0 \/ ~ OnMain(i))
          BY <4>2, <4>4, <4>5, <4>6, <4>10
        <5> QED
          BY <4>7, <4>8, <5>1
      <4> QED
        BY <4>9, <4>10
    <3>7. ASSUME exchange[i].state \in {"queued", "running"}, main.at # "down"
          PROVE  conn[i].who = exchange[i].who
      <4>1. Busy(exchange[i])
        BY <3>1, <3>7 DEF PlaceOwned, Busy
      <4>2. PlaceFits(i)
        BY <2>1, <3>7 DEF Tables
      <4>3. ~ Free(i) /\ SlotFits(conn[i], exchange[i], peer[conn[i].who])
        BY <4>1, <4>2 DEF PlaceFits
      <4> QED
        BY <4>1, <4>3 DEF SlotFits
    <3> QED
      BY <3>4, <3>5, <3>6, <3>7
  <2>3. server.memory = "freed"
          => (\A w \in pool : worker[w].at = "gone") /\ (Threaded => pass.at = "finished")
    BY <2>1 DEF Control
  <2> QED
    BY <2>2, <2>3 DEF ExchangeOwned
<1> QED
  BY <1>1, ServerInvariant, PTL

\* AnswersInOrder, for any scripts, any number of peers and any bounds: every peer
\* hears answers to its own requests, none twice, in the order it asked, and nothing
\* after a refusal.
THEOREM AnswersAreInOrder == ServerSpec => []AnswersInOrder
<1>1. ASSUME ServerInv PROVE AnswersInOrder
  <2> SUFFICES ASSUME NEW p \in Peers, NEW j \in DOMAIN peer[p].got
               PROVE  LET k == peer[p].got[j] IN
                      IF k = Refusal THEN j = Len(peer[p].got)
                      ELSE /\ k \in LastPieces(p) \ Earlier(p, j)
                           /\ IF IsHandshake(p, k) THEN Threaded => j = Len(peer[p].got)
                              ELSE InTurn(p, j)
    BY DEF AnswersInOrder
  <2> DEFINE q == peer[p].got
             script == peer[p].script
  <2>1. Heard(script, q) /\ q \in Seq(Nat)
    BY <1>1 DEF ServerInv, PeersFit, Types, PeerEnd
  <2>2. j \in 1..Len(q)
    BY <2>1, LenProperties
  <2>3. LastPieces(p) = LastOf(script)
    BY DEF LastPieces, LastOf
  <2>4. \A l : l \in Earlier(p, j) <=> \E i \in 1..j - 1 : q[i] = l
    BY DEF Earlier
  <2>5. InTurn(p, j) <=> \A l \in LastOf(script) : l < q[j] => l \in Earlier(p, j)
    BY <2>3 DEF InTurn
  <2>6. q[j] # Refusal => (IsHandshake(p, q[j]) <=> script[q[j]].to = "upgrade")
    BY DEF IsHandshake
  <2>7. IF q[j] = Refusal THEN j = Len(q)
        ELSE /\ q[j] \in LastOf(script) /\ \A i \in 1..j - 1 : q[i] # q[j]
             /\ IF script[q[j]].to = "upgrade" THEN Threaded => j = Len(q)
                ELSE \A l \in LastOf(script) : l < q[j] => \E i \in 1..j - 1 : q[i] = l
    BY <2>1, <2>2 DEF Heard
  <2> HIDE DEF q, script
  <2>8. IF q[j] = Refusal THEN j = Len(q)
        ELSE /\ q[j] \in LastPieces(p) \ Earlier(p, j)
             /\ IF IsHandshake(p, q[j]) THEN Threaded => j = Len(q) ELSE InTurn(p, j)
    BY <2>3, <2>4, <2>5, <2>6, <2>7
  <2> QED
    BY <2>8 DEF q
<1> QED
  BY <1>1, ServerInvariant, PTL

\* ServerTypeOK: among the types, that no buffer, queue or budget passes its cap.
THEOREM ServerTypes == ServerSpec => []ServerTypeOK
<1>1. ASSUME ServerInv PROVE ServerTypeOK
  <2>1. Types /\ Tables /\ PeersFit
    BY <1>1 DEF ServerInv
  <2>2. ASSUME NEW i \in Places
        PROVE  /\ conn[i].who \in Peers \cup {Nobody}
               /\ Buffered(conn[i]) \in 0..ReceiveCap /\ Len(conn[i].owed) <= SendCap
               /\ exchange[i].state \in {"idle", "queued", "running", "done"}
    <3>1. conn[i] \in Conn /\ exchange[i] \in Slot
      BY <2>1 DEF Types
    <3>2. CASE Free(i)
      <4>1. conn[i] = NoConnection
        BY <2>1, <3>2 DEF Tables
      <4>2. conn[i].read = 0 /\ conn[i].used = 0 /\ conn[i].owed = <<>>
        BY <4>1 DEF NoConnection
      <4> QED
        BY <3>1, <4>2, Constants DEF Buffered, Conn, Slot
    <3>3. CASE ~ Free(i)
      <4>1. main.at # "down"
        BY <2>1, <3>3 DEF Tables
      <4>2. Sound(conn[i], peer[conn[i].who])
        BY <2>1, <3>3, <4>1 DEF Tables, PlaceFits
      <4>3. conn[i].read \in Nat /\ conn[i].used \in Nat
        BY <3>1 DEF Conn
      <4> QED
        BY <3>1, <4>2, <4>3, Constants, SMTT(60) DEF Sound, Buffered, Conn, Slot
    <3> QED
      BY <3>2, <3>3
  <2>3. ASSUME NEW p \in Peers
        PROVE  /\ peer[p].state \in {"away", "waiting", "open", "reset", "ended"}
               /\ peer[p].sent \in 0..Len(peer[p].script) /\ peer[p].unread \in 0..Window
    <3>1. peer[p] \in PeerEnd
      BY <2>1 DEF Types
    <3>2. /\ peer[p].script \in Scripts /\ peer[p].sent \in Nat /\ peer[p].unread \in 0..Window
          /\ peer[p].state \in {"away", "waiting", "open", "reset", "ended"}
      BY <3>1 DEF PeerEnd
    <3>3. Len(peer[p].script) \in Nat /\ peer[p].sent <= Len(peer[p].script)
      BY <2>1, <3>2, LastOfRange DEF PeersFit
    <3> QED
      BY <3>2, <3>3
  <2>4. /\ queues.worker \in Seq(Places) /\ queues.main \in Seq(Places) /\ queues.work \in Nat
    BY <2>1 DEF Types, QueuesType
  <2> QED
    BY <2>1, <2>2, <2>3, <2>4
       DEF ServerTypeOK, Types, ServerType, PassType, WorkerType, MainType
<1> QED
  BY <1>1, ServerInvariant, PTL

=============================================================================
