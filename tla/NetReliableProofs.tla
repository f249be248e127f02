------------------------- MODULE NetReliableProofs -------------------------
(***************************************************************************)
(* What holds of an established connection of the UDP transport, for every *)
(* width of its numbers, every window, bundle and plan, and any loss,      *)
(* repetition and order of its packets.                                    *)
(***************************************************************************)
EXTENDS NetReliable, FiniteSetTheorems, SequenceTheorems, WellFoundedInduction, TLAPS

-----------------------------------------------------------------------------
(* Arithmetic of numbers that wrap *)

\* What division leaves.
LEMMA Division ==
    ASSUME NEW a \in Nat, NEW b \in Nat \ {0}
    PROVE  /\ a \div b \in Nat /\ a % b \in 0 .. b - 1
           /\ a = b * (a \div b) + (a % b)
<1>1. a = b * (a \div b) + (a % b)
  OBVIOUS
<1>2. a % b \in 0 .. b - 1
  OBVIOUS
<1>3. a \div b \in Int
  OBVIOUS
<1>4. a \div b >= 0
  <2> DEFINE q == a \div b
             r == a % b
  <2>1. q \in Int /\ r \in 0 .. b - 1 /\ a = b * q + r
    BY <1>1, <1>2, <1>3
  <2> HIDE DEF q, r
  <2>2. ASSUME q <= -1 PROVE FALSE
    <3>1. b * q <= b * (-1)
      BY <2>1, <2>2
    <3> QED
      BY <2>1, <3>1
  <2>3. q >= 0
    BY <2>1, <2>2
  <2> QED
    BY <2>3 DEF q
<1> QED
  BY <1>1, <1>2, <1>3, <1>4

\* Quotient and remainder are the only ones.
LEMMA DivisionUnique ==
    ASSUME NEW b \in Nat \ {0}, NEW q \in Nat, NEW r \in 0 .. b - 1
    PROVE  (b * q + r) \div b = q /\ (b * q + r) % b = r
<1> DEFINE a == b * q + r
           p == a \div b
           s == a % b
<1>1. a \in Nat
  OBVIOUS
<1>2. p \in Nat /\ s \in 0 .. b - 1 /\ a = b * p + s
  <2> HIDE DEF a
  <2> QED
    BY <1>1, Division
<1> HIDE DEF p, s
<1>3. b * (p - q) = r - s
  BY <1>2
<1>4. p = q
  <2>1. CASE p > q
    <3>1. b * (p - q) >= b
      BY <2>1, <1>2
    <3> QED
      BY <1>2, <1>3, <3>1
  <2>2. CASE p < q
    <3>1. b * (q - p) >= b
      BY <2>2, <1>2
    <3>2. b * (p - q) = - (b * (q - p))
      BY <1>2
    <3> QED
      BY <1>2, <1>3, <3>1, <3>2
  <2> QED
    BY <1>2, <2>1, <2>2
<1>5. r = s
  BY <1>2, <1>3, <1>4
<1> QED
  BY <1>4, <1>5 DEF p, s

\* The same remainder, exactly when a number of whole laps lies between.
LEMMA Laps ==
    ASSUME NEW b \in Nat \ {0}, NEW x \in Nat, NEW y \in Nat
    PROVE  /\ x - y \in 0 .. b - 1 => x % b = (y % b) + (x - y) \/ x % b = ((y % b) + (x - y)) - b
           /\ x % b \in 0 .. b - 1 /\ y % b \in 0 .. b - 1
<1> DEFINE q == y \div b
           r == y % b
           d == x - y
<1>1. q \in Nat /\ r \in 0 .. b - 1 /\ y = b * q + r
  BY Division
<1>2. x % b \in 0 .. b - 1
  BY Division
<1> HIDE DEF q, r
<1>3. ASSUME d \in 0 .. b - 1, r + d < b PROVE x % b = r + d
  <2>1. r + d \in 0 .. b - 1 /\ x = b * q + (r + d)
    BY <1>1, <1>3
  <2>2. (b * q + (r + d)) % b = r + d
    BY <1>1, <2>1, DivisionUnique
  <2> QED
    BY <2>1, <2>2
<1>4. ASSUME d \in 0 .. b - 1, r + d >= b PROVE x % b = (r + d) - b
  <2>1. b * (q + 1) = b * q + b
    BY <1>1
  <2>2. (r + d) - b \in 0 .. b - 1 /\ q + 1 \in Nat
    BY <1>1, <1>4
  <2>3. x = b * (q + 1) + ((r + d) - b)
    BY <1>1, <1>4, <2>1
  <2>4. (b * (q + 1) + ((r + d) - b)) % b = (r + d) - b
    BY <2>2, DivisionUnique
  <2> QED
    BY <2>3, <2>4
<1>5. r + d < b \/ r + d >= b
  BY <1>1
<1> QED
  BY <1>1, <1>2, <1>3, <1>4, <1>5 DEF r

\* What the widths are.
LEMMA Widths ==
    /\ IdSpace \in Nat \ {0} /\ Half \in Nat \ {0} /\ IdSpace = 2 * Half
    /\ SeqSpace \in Nat \ {0} /\ HalfSeq \in Nat \ {0} /\ SeqSpace = 2 * HalfSeq
    /\ InFlight \in Nat \ {0} /\ InFlight < Half /\ SeenWindow \in Nat /\ InFlight <= SeenWindow
    /\ SeenWindow <= Half /\ AckWindow \in Nat \ {0} /\ AckWindow < HalfSeq
    /\ BodyMax \in Nat \ {0} /\ MaxReassembly \in Nat \ {0} /\ MaxBytes \in Nat
<1>1. /\ IdSpace \in Nat /\ IdSpace % 2 = 0 /\ InFlight \in 1 .. Half - 1
      /\ SeenWindow \in InFlight .. Half
  BY WindowAssumption
<1>2. IdSpace = 2 * (IdSpace \div 2) + 0 /\ IdSpace \div 2 \in Nat
  BY <1>1, Division
<1>3. /\ SeqSpace \in Nat /\ SeqSpace % 2 = 0 /\ AckWindow \in 1 .. HalfSeq - 1
  BY WindowAssumption
<1>4. SeqSpace = 2 * (SeqSpace \div 2) + 0 /\ SeqSpace \div 2 \in Nat
  BY <1>3, Division
<1>5. /\ Half \in Nat /\ IdSpace = 2 * Half /\ HalfSeq \in Nat /\ SeqSpace = 2 * HalfSeq
  BY <1>2, <1>4 DEF Half, HalfSeq
<1>6. InFlight \in Nat \ {0} /\ InFlight < Half /\ SeenWindow \in Nat /\ InFlight <= SeenWindow /\ SeenWindow <= Half
  BY <1>1, <1>5
<1>7. AckWindow \in Nat \ {0} /\ AckWindow < HalfSeq
  BY <1>3, <1>5
<1> QED
  BY <1>1, <1>3, <1>5, <1>6, <1>7, WindowAssumption

\* Of two numbers less than half the space apart the wrapped ones compare alike.
LEMMA NewerIs ==
    ASSUME NEW x \in Nat, NEW y \in Nat, x - y < Half, y - x < Half
    PROVE  Newer(x % IdSpace, y % IdSpace) <=> x > y
<1> DEFINE a == x % IdSpace
           b == y % IdSpace
<1>1. /\ x - y \in 0 .. IdSpace - 1 => a = b + (x - y) \/ a = (b + (x - y)) - IdSpace
      /\ y - x \in 0 .. IdSpace - 1 => b = a + (y - x) \/ b = (a + (y - x)) - IdSpace
      /\ a \in 0 .. IdSpace - 1 /\ b \in 0 .. IdSpace - 1
  BY Laps, Widths
<1> HIDE DEF a, b
<1>2. Newer(a, b) <=> x > y
  BY <1>1, Widths DEF Newer
<1> QED
  BY <1>2 DEF a, b

\* Ids subtract as the numbers they stand for, less a lap or not.
LEMMA MinusIs ==
    ASSUME NEW x \in Nat, NEW y \in Nat
    PROVE  /\ x - y \in 0 .. IdSpace - 1 => Minus(x % IdSpace, y % IdSpace) = x - y
           /\ y - x \in 1 .. IdSpace => Minus(x % IdSpace, y % IdSpace) = IdSpace - (y - x)
<1> DEFINE a == x % IdSpace
           b == y % IdSpace
           m == (a + IdSpace) - b
<1>1. /\ x - y \in 0 .. IdSpace - 1 => a = b + (x - y) \/ a = (b + (x - y)) - IdSpace
      /\ y - x \in 0 .. IdSpace - 1 => b = a + (y - x) \/ b = (a + (y - x)) - IdSpace
      /\ a \in 0 .. IdSpace - 1 /\ b \in 0 .. IdSpace - 1
  BY Laps, Widths
<1>2. ASSUME x = y - IdSpace PROVE a = b
  <2>1. y - x = IdSpace /\ IdSpace \in Nat \ {0}
    BY <1>2, Widths
  <2>2. x + (IdSpace - 1) \in Nat /\ (x + (IdSpace - 1)) - x \in 0 .. IdSpace - 1
    BY <2>1
  <2>3. DEFINE q == x \div IdSpace
  <2>4. q \in Nat /\ a \in 0 .. IdSpace - 1 /\ x = IdSpace * q + a
    BY <2>1, Division
  <2> HIDE DEF q, a
  <2>5. IdSpace * (q + 1) = IdSpace * q + IdSpace
    BY <2>1, <2>4
  <2>6. y = IdSpace * (q + 1) + a
    BY <2>1, <2>4, <2>5
  <2>7. (IdSpace * (q + 1) + a) % IdSpace = a
    BY <2>1, <2>4, DivisionUnique
  <2> QED
    BY <2>6, <2>7 DEF b
<1>3. \A d \in 0 .. IdSpace - 1 : d % IdSpace = d /\ (d + IdSpace) % IdSpace = d
  <2> TAKE d \in 0 .. IdSpace - 1
  <2>1. (IdSpace * 0 + d) % IdSpace = d /\ (IdSpace * 1 + d) % IdSpace = d
    BY Widths, DivisionUnique
  <2>2. IdSpace * 0 + d = d /\ IdSpace * 1 + d = d + IdSpace
    BY Widths
  <2> QED
    BY <2>1, <2>2
<1> HIDE DEF a, b
<1>4. Minus(a, b) = m % IdSpace
  BY DEF Minus
<1>5. ASSUME x - y \in 0 .. IdSpace - 1 PROVE Minus(a, b) = x - y
  <2>1. m = x - y \/ m = (x - y) + IdSpace
    BY <1>1, <1>5, Widths
  <2> QED
    BY <1>3, <1>4, <1>5, <2>1
<1>6. ASSUME y - x \in 1 .. IdSpace - 1 PROVE Minus(a, b) = IdSpace - (y - x)
  <2> DEFINE d == IdSpace - (y - x)
  <2>1. d \in 0 .. IdSpace - 1
    BY <1>6, Widths
  <2>2. m = d \/ m = d + IdSpace
    BY <1>1, <1>6, Widths
  <2> QED
    BY <1>3, <1>4, <2>1, <2>2
<1>7. ASSUME y - x = IdSpace PROVE Minus(a, b) = 0
  <2>1. m = 0 + IdSpace /\ 0 \in 0 .. IdSpace - 1
    BY <1>1, <1>2, <1>7, Widths
  <2> QED
    BY <1>3, <1>4, <2>1
<1>8. y - x \in 1 .. IdSpace => y - x \in 1 .. IdSpace - 1 \/ y - x = IdSpace
  BY Widths
<1> QED
  BY <1>5, <1>6, <1>7, <1>8, Widths DEF a, b

\* Within a lap a number is known by its remainder.
LEMMA SameId ==
    ASSUME NEW x \in Nat, NEW y \in Nat, x - y < IdSpace, y - x < IdSpace,
           x % IdSpace = y % IdSpace
    PROVE  x = y
<1> DEFINE a == x % IdSpace
           b == y % IdSpace
<1>0. IdSpace \in Nat \ {0}
  BY Widths
<1>1. /\ x - y \in 0 .. IdSpace - 1 => a = b + (x - y) \/ a = (b + (x - y)) - IdSpace
      /\ y - x \in 0 .. IdSpace - 1 => b = a + (y - x) \/ b = (a + (y - x)) - IdSpace
      /\ a \in 0 .. IdSpace - 1 /\ b \in 0 .. IdSpace - 1
  BY <1>0, Laps
<1>2. a = b
  OBVIOUS
<1> HIDE DEF a, b
<1> QED
  BY <1>1, <1>2, Widths

\* What is added before or after the remainder is taken.
LEMMA AddIs ==
    ASSUME NEW x \in Nat, NEW c \in Nat
    PROVE  ((x % IdSpace) + c) % IdSpace = (x + c) % IdSpace
<1> DEFINE r == x % IdSpace
           q == x \div IdSpace
           s == (r + c) % IdSpace
           t == (r + c) \div IdSpace
<1>1. IdSpace \in Nat \ {0} /\ r \in 0 .. IdSpace - 1 /\ q \in Nat /\ x = IdSpace * q + r
  BY Division, Widths
<1> HIDE DEF q, r
<1>2. t \in Nat /\ s \in 0 .. IdSpace - 1 /\ r + c = IdSpace * t + s
  <2>1. r + c \in Nat
    BY <1>1
  <2> HIDE DEF r
  <2> QED
    BY <1>1, <2>1, Division
<1> HIDE DEF s, t
<1>3. IdSpace * (q + t) = IdSpace * q + IdSpace * t
  BY <1>1, <1>2
<1>4. x + c = IdSpace * (q + t) + s
  BY <1>1, <1>2, <1>3
<1>5. (IdSpace * (q + t) + s) % IdSpace = s
  <2>1. q + t \in Nat
    BY <1>1, <1>2
  <2> QED
    BY <1>1, <1>2, <2>1, DivisionUnique
<1> QED
  BY <1>4, <1>5 DEF r, s

\* A packet's counter is found from its low bits while it is within half their space.
LEMMA ExpandIs ==
    ASSUME NEW newest \in Nat, NEW seq \in Nat, seq < newest + HalfSeq, newest < seq + HalfSeq
    PROVE  Expand(newest, seq % SeqSpace) = seq
<1> DEFINE b == SeqSpace
           q == newest \div b
           r == newest % b
           u == seq \div b
           w == seq % b
<1>1. b \in Nat \ {0} /\ q \in Nat /\ r \in 0 .. b - 1 /\ newest = b * q + r
  BY Division, Widths
<1>2. u \in Nat /\ w \in 0 .. b - 1 /\ seq = b * u + w
  BY Division, Widths
<1> DEFINE c == q * b + w
<1>3. Expand(newest, w) = IF c + HalfSeq <= newest THEN c + b
                          ELSE IF c > newest + HalfSeq /\ c >= b THEN c - b ELSE c
  BY DEF Expand
<1>4. b = 2 * HalfSeq /\ HalfSeq \in Nat
  BY Widths
<1> HIDE DEF b, q, r, u, w
<1>5. q * b = b * q /\ b * q \in Nat /\ b * u \in Nat
  BY <1>1, <1>2
<1> DEFINE x == Expand(newest, w)
           m == b * q
           k == b * u
<1>6. /\ m \in Nat /\ k \in Nat /\ c = m + w /\ newest = m + r /\ seq = k + w
      /\ r \in 0 .. b - 1 /\ w \in 0 .. b - 1 /\ b = 2 * HalfSeq /\ HalfSeq \in Nat
      /\ m + r < k + w + HalfSeq /\ k + w < m + r + HalfSeq
  BY <1>1, <1>2, <1>4, <1>5
<1>12. x = IF c + HalfSeq <= newest THEN c + b
           ELSE IF c > newest + HalfSeq /\ c >= b THEN c - b ELSE c
  BY <1>3
<1>13. k = m \/ k = m + b \/ m = k + b => x = seq
  <2> HIDE DEF x, m, k, c
  <2>1. CASE k = m
    BY <1>6, <1>12, <2>1
  <2>2. CASE k = m + b
    BY <1>6, <1>12, <2>2
  <2>3. CASE m = k + b
    BY <1>6, <1>12, <2>3
  <2> QED
    BY <2>1, <2>2, <2>3
<1>7. u = q + 1 => k = m + b
  BY <1>1, <1>2
<1>8. q = u + 1 => m = k + b
  BY <1>1, <1>2
<1>9. u <= q + 1
  <2> SUFFICES ASSUME u >= q + 2 PROVE FALSE
    BY <1>1, <1>2
  <2>1. b * u >= b * (q + 2)
    BY <1>1, <1>2
  <2>2. b * (q + 2) = b * q + 2 * b
    BY <1>1, <1>2
  <2> QED
    BY <1>1, <1>2, <1>4, <1>5, <2>1, <2>2
<1>10. q <= u + 1
  <2> SUFFICES ASSUME q >= u + 2 PROVE FALSE
    BY <1>1, <1>2
  <2>1. b * q >= b * (u + 2)
    BY <1>1, <1>2
  <2>2. b * (u + 2) = b * u + 2 * b
    BY <1>1, <1>2
  <2> QED
    BY <1>1, <1>2, <1>4, <1>5, <2>1, <2>2
<1>11. u = q \/ u = q + 1 \/ q = u + 1
  BY <1>1, <1>2, <1>9, <1>10
<1> QED
  BY <1>7, <1>8, <1>11, <1>13 DEF w, b

-----------------------------------------------------------------------------
(* Loops, as functions of how far they went *)

\* Induction up to N, over the set of the numbers a claim holds of.
LEMMA UpTo ==
    ASSUME NEW N \in Nat, NEW G, 0 \in G, \A n \in 0 .. N - 1 : n \in G => n + 1 \in G
    PROVE  \A n \in 0 .. N : n \in G
<1> DEFINE Out == {n \in 0 .. N : n \notin G}
           R == OpToRel(<, Nat)
<1>1. IsWellFoundedOn(R, Nat)
  BY NatLessThanWellFounded
<1>2. \A x, y \in Nat : <<y, x>> \in R <=> y < x
  BY DEF OpToRel
<1> SUFFICES ASSUME Out # {} PROVE FALSE
  OBVIOUS
<1> HIDE DEF R
<1>3. Out \in SUBSET Nat
  OBVIOUS
<1> HIDE DEF Out
<1>4. PICK x \in Out : \A y \in Out : ~ (<<y, x>> \in R)
  BY <1>1, <1>3, WFMin
<1>5. \A y \in Out : x \in Nat /\ y \in Nat /\ ~ (y < x)
  BY <1>2, <1>3, <1>4, Zenon
<1>6. x \in 1 .. N /\ x \notin G
  BY <1>4, <1>5 DEF Out
<1>7. x - 1 \in 0 .. N - 1 /\ x - 1 \notin Out
  BY <1>5, <1>6
<1> QED
  BY <1>6, <1>7 DEF Out

\* A function of how far a loop went, and two that begin and go on alike.
Runs(f, N, S, a, step) ==
    /\ f \in [0 .. N -> S] /\ f[0] = a
    /\ \A i \in 1 .. N : f[i] = step[<<i, f[i - 1]>>]
Alike(f, g, N) == f[0] = g[0] /\ \A i \in 1 .. N : f[i - 1] = g[i - 1] => f[i] = g[i]

\* A loop over a set of states has a function of how far it went.
LEMMA Iterates ==
    ASSUME NEW N \in Nat, NEW S, NEW a \in S, NEW step \in [(1 .. N) \X S -> S]
    PROVE  \E f : Runs(f, N, S, a, step)
<1> DEFINE Solves(f, m) == /\ f \in [0 .. m -> S] /\ f[0] = a
                           /\ \A i \in 1 .. m : f[i] = step[<<i, f[i - 1]>>]
           G == {m \in 0 .. N : \E f : Solves(f, m)}
<1>1. 0 \in G
  <2> DEFINE f == [i \in 0 .. 0 |-> a]
  <2>1. Solves(f, 0)
    OBVIOUS
  <2> HIDE DEF Solves
  <2> QED
    BY <2>1
<1>2. ASSUME NEW m \in 0 .. N - 1, m \in G
      PROVE  m + 1 \in G
  <2>1. PICK f : Solves(f, m)
    BY <1>2
  <2> DEFINE g == [i \in 0 .. m + 1 |-> IF i = m + 1 THEN step[<<m + 1, f[m]>>] ELSE f[i]]
  <2>2. m \in 0 .. m /\ m + 1 \in 1 .. N /\ m + 1 \in 0 .. m + 1 /\ 0 \in 0 .. m + 1 /\ 0 # m + 1
    OBVIOUS
  <2>3. step[<<m + 1, f[m]>>] \in S
    <3>1. f[m] \in S
      BY <2>1, <2>2
    <3> QED
      BY <2>2, <3>1
  <2>4. \A i \in 0 .. m + 1 : i # m + 1 => i \in 0 .. m
    OBVIOUS
  <2>5. g \in [0 .. m + 1 -> S]
    BY <2>1, <2>3, <2>4
  <2>6. g[0] = a
    BY <2>1, <2>2
  <2>7. ASSUME NEW i \in 1 .. m + 1 PROVE g[i] = step[<<i, g[i - 1]>>]
    <3>1. i - 1 \in 0 .. m + 1 /\ i - 1 # m + 1 /\ i \in 0 .. m + 1 /\ i - 1 \in 0 .. m
      OBVIOUS
    <3>2. g[i - 1] = f[i - 1]
      BY <3>1
    <3>3. CASE i = m + 1
      <4>1. i - 1 = m
        BY <3>3
      <4>2. g[i] = step[<<i, f[m]>>]
        BY <3>3
      <4> QED
        BY <3>2, <4>1, <4>2
    <3>4. CASE i # m + 1
      <4>1. i \in 1 .. m /\ g[i] = f[i]
        BY <3>4
      <4> QED
        BY <2>1, <3>2, <4>1
    <3> QED
      BY <3>3, <3>4
  <2>8. Solves(g, m + 1)
    <3> HIDE DEF g
    <3> QED
      BY <2>5, <2>6, <2>7
  <2> HIDE DEF Solves, g
  <2> QED
    BY <2>8
<1>3. N \in G
  <2>1. N \in 0 .. N
    OBVIOUS
  <2> HIDE DEF G
  <2> QED
    BY <1>1, <1>2, <2>1, UpTo
<1> QED
  BY <1>3 DEF Runs

\* Two loops that begin alike and go on alike are the same.
LEMMA SameLoop ==
    ASSUME NEW N \in Nat, NEW f, NEW g, Alike(f, g, N)
    PROVE  \A i \in 0 .. N : f[i] = g[i]
<1> USE DEF Alike
<1> DEFINE G == {i \in 0 .. N : f[i] = g[i]}
<1>1. 0 \in G
  OBVIOUS
<1>2. ASSUME NEW i \in 0 .. N - 1, i \in G PROVE i + 1 \in G
  <2>1. i + 1 \in 1 .. N /\ (i + 1) - 1 = i
    OBVIOUS
  <2> QED
    BY <1>2, <2>1
<1>3. \A i \in 0 .. N : i \in G
  <2> HIDE DEF G
  <2> QED
    BY <1>1, <1>2, UpTo
<1> QED
  BY <1>3

-----------------------------------------------------------------------------
(* The types of a connection and of what it sends *)

Ids == 0 .. IdSpace - 1
Frag == [channel : Channels, id : Ids, n : Nat \ {0}, index : Nat, total : 1 .. MaxMessage]
Pending == [id : Ids, n : Nat \ {0}, total : 1 .. MaxMessage, sends : BOOLEAN]
Waiting == [id : Ids, n : Nat]
Slot == [active : BOOLEAN, channel : Channels, id : Ids, total : Nat, received : SUBSET Frag,
         started : Nat, capacity : Nat]
Packet == [seq : Nat \ {0}, reliable_ack : Ids, kind : {"data", "disconnect"},
           fragments : Seq(Frag)]
Reasons == {"none", "timeout", "protocol", "requested", "caller"}

Peer == [occupied : BOOLEAN, reason : Reasons,
         local_sequence : Nat \ {0}, remote_sequence : Nat,
         ack_bits : SUBSET (1 .. AckWindow),
         next_message_id : [Channels -> Ids], next_delivery_id : Ids,
         seen : [Channels -> SUBSET (0 .. SeenWindow - 1)],
         seen_newest : [Channels -> Ids], seen_any : [Channels -> BOOLEAN],
         outgoing_reliable : Seq(Pending), incoming_reliable : Seq(Waiting),
         reassembly : [Slots -> Slot], reassembly_bytes : Int,
         outgoing : Seq(Frag), packets_received : Nat,
         todo : [Channels -> Seq(1 .. MaxMessage)], wire : SUBSET Packet,
         opened : SUBSET Nat, sent : [Channels -> Nat], delivered : [Channels -> Seq(Nat)]]

-----------------------------------------------------------------------------
(* The loops of the transport: a set every round stays in is not left *)

\* The fragments of a message are appended one after the other.
LEMMA AppendMessageIn ==
    ASSUME NEW S, NEW p \in S, NEW c, NEW id, NEW n, NEW total \in Nat,
           \A i \in 1 .. total, q \in S : AppendFragment(q, [channel |-> c, id |-> id, n |-> n, index |-> i, total |-> total]) \in S
    PROVE  AppendMessage(p, c, id, n, total) \in S
<1> DEFINE Go(i, q) == AppendFragment(q, [channel |-> c, id |-> id, n |-> n, index |-> i, total |-> total])
           step == [x \in (1 .. total) \X S |-> Go(x[1], x[2])]
           Loop(f) == f = [i \in 0 .. total |-> IF i = 0 THEN p ELSE Go(i, f[i - 1])]
<1>1. step \in [(1 .. total) \X S -> S]
  <2> SUFFICES ASSUME NEW x \in (1 .. total) \X S PROVE Go(x[1], x[2]) \in S
    OBVIOUS
  <2> QED
    OBVIOUS
<1>2. PICK f : Runs(f, total, S, p, step)
  <2> HIDE DEF step
  <2>1. p \in S /\ total \in Nat
    OBVIOUS
  <2> QED
    BY <1>1, <2>1, Iterates
<1>3. \A i \in 1 .. total : f[i] = Go(i, f[i - 1])
  <2> TAKE i \in 1 .. total
  <2>1. i - 1 \in 0 .. total
    OBVIOUS
  <2>2. f[i - 1] \in S /\ f[i] = step[<<i, f[i - 1]>>]
    <3> HIDE DEF step
    <3> QED
      BY <1>2, <2>1 DEF Runs
  <2> HIDE DEF Go
  <2> QED
    BY <2>2
<1> HIDE DEF step, Go
<1>4. Loop(f)
  <2>1. f = [i \in 0 .. total |-> f[i]] /\ f[0] = p
    BY <1>2 DEF Runs
  <2>2. ASSUME NEW i \in 0 .. total PROVE f[i] = IF i = 0 THEN p ELSE Go(i, f[i - 1])
    <3>1. i # 0 => i \in 1 .. total
      OBVIOUS
    <3> QED
      BY <1>3, <2>1, <3>1
  <2> QED
    BY <2>1, <2>2
<1> DEFINE g == CHOOSE x : Loop(x)
<1>5. Loop(g)
  <2> HIDE DEF Loop
  <2> QED
    BY <1>4
<1>6. AppendMessage(p, c, id, n, total) = g[total]
  BY Zenon DEF AppendMessage, Go
<1> HIDE DEF g
<1>7. g[0] = p /\ \A i \in 1 .. total : g[i] = Go(i, g[i - 1])
  <2>1. 0 \in 0 .. total /\ \A i \in 1 .. total : i \in 0 .. total /\ i # 0
    OBVIOUS
  <2> QED
    BY <1>5, <2>1, Zenon
<1>8. g[total] = f[total]
  <2>1. Alike(g, f, total)
    BY <1>2, <1>3, <1>7 DEF Alike, Runs
  <2> QED
    BY <2>1, SameLoop
<1> QED
  BY <1>2, <1>6, <1>8 DEF Runs

\* What is pending is sent again one after the other.
LEMMA ResendIn ==
    ASSUME NEW S, NEW p \in S, NEW due, NEW count \in Nat, count = Len(p.outgoing_reliable),
           \A i \in 1 .. count, q \in S : (IF p.outgoing_reliable[i].sends /\ p.outgoing_reliable[i].n \notin due THEN q
              ELSE SendAgain(q, i, p.outgoing_reliable[i])) \in S
    PROVE  Resend(p, due) \in S
<1> DEFINE Go(i, q) == (IF p.outgoing_reliable[i].sends /\ p.outgoing_reliable[i].n \notin due THEN q
              ELSE SendAgain(q, i, p.outgoing_reliable[i]))
           step == [x \in (1 .. count) \X S |-> Go(x[1], x[2])]
           Loop(f) == f = [i \in 0 .. count |-> IF i = 0 THEN p ELSE Go(i, f[i - 1])]
<1>1. step \in [(1 .. count) \X S -> S]
  <2> SUFFICES ASSUME NEW x \in (1 .. count) \X S PROVE Go(x[1], x[2]) \in S
    OBVIOUS
  <2> QED
    OBVIOUS
<1>2. PICK f : Runs(f, count, S, p, step)
  <2> HIDE DEF step
  <2>1. p \in S /\ count \in Nat
    OBVIOUS
  <2> QED
    BY <1>1, <2>1, Iterates
<1>3. \A i \in 1 .. count : f[i] = Go(i, f[i - 1])
  <2> TAKE i \in 1 .. count
  <2>1. i - 1 \in 0 .. count
    OBVIOUS
  <2>2. f[i - 1] \in S /\ f[i] = step[<<i, f[i - 1]>>]
    <3> HIDE DEF step
    <3> QED
      BY <1>2, <2>1 DEF Runs
  <2> HIDE DEF Go
  <2> QED
    BY <2>2
<1> HIDE DEF step, Go
<1>4. Loop(f)
  <2>1. f = [i \in 0 .. count |-> f[i]] /\ f[0] = p
    BY <1>2 DEF Runs
  <2>2. ASSUME NEW i \in 0 .. count PROVE f[i] = IF i = 0 THEN p ELSE Go(i, f[i - 1])
    <3>1. i # 0 => i \in 1 .. count
      OBVIOUS
    <3> QED
      BY <1>3, <2>1, <3>1
  <2> QED
    BY <2>1, <2>2
<1> DEFINE g == CHOOSE x : Loop(x)
<1>5. Loop(g)
  <2> HIDE DEF Loop
  <2> QED
    BY <1>4
<1>6. Resend(p, due) = g[count]
  BY Zenon DEF Resend, Go
<1> HIDE DEF g
<1>7. g[0] = p /\ \A i \in 1 .. count : g[i] = Go(i, g[i - 1])
  <2>1. 0 \in 0 .. count /\ \A i \in 1 .. count : i \in 0 .. count /\ i # 0
    OBVIOUS
  <2> QED
    BY <1>5, <2>1, Zenon
<1>8. g[count] = f[count]
  <2>1. Alike(g, f, count)
    BY <1>2, <1>3, <1>7 DEF Alike, Runs
  <2> QED
    BY <2>1, SameLoop
<1> QED
  BY <1>2, <1>6, <1>8 DEF Runs

\* What waited is handed over one after the other.
LEMMA DrainIn ==
    ASSUME NEW S, NEW p \in S, NEW count \in Nat, count = Len(p.incoming_reliable),
           \A i \in 1 .. count, q \in S : DrainOne(q) \in S
    PROVE  DrainOrdered(p) \in S
<1> DEFINE Go(i, q) == DrainOne(q)
           step == [x \in (1 .. count) \X S |-> Go(x[1], x[2])]
           Loop(f) == f = [i \in 0 .. count |-> IF i = 0 THEN p ELSE Go(i, f[i - 1])]
<1>1. step \in [(1 .. count) \X S -> S]
  <2> SUFFICES ASSUME NEW x \in (1 .. count) \X S PROVE Go(x[1], x[2]) \in S
    OBVIOUS
  <2> QED
    OBVIOUS
<1>2. PICK f : Runs(f, count, S, p, step)
  <2> HIDE DEF step
  <2>1. p \in S /\ count \in Nat
    OBVIOUS
  <2> QED
    BY <1>1, <2>1, Iterates
<1>3. \A i \in 1 .. count : f[i] = Go(i, f[i - 1])
  <2> TAKE i \in 1 .. count
  <2>1. i - 1 \in 0 .. count
    OBVIOUS
  <2>2. f[i - 1] \in S /\ f[i] = step[<<i, f[i - 1]>>]
    <3> HIDE DEF step
    <3> QED
      BY <1>2, <2>1 DEF Runs
  <2> HIDE DEF Go
  <2> QED
    BY <2>2
<1> HIDE DEF step, Go
<1>4. Loop(f)
  <2>1. f = [i \in 0 .. count |-> f[i]] /\ f[0] = p
    BY <1>2 DEF Runs
  <2>2. ASSUME NEW i \in 0 .. count PROVE f[i] = IF i = 0 THEN p ELSE Go(i, f[i - 1])
    <3>1. i # 0 => i \in 1 .. count
      OBVIOUS
    <3> QED
      BY <1>3, <2>1, <3>1
  <2> QED
    BY <2>1, <2>2
<1> DEFINE g == CHOOSE x : Loop(x)
<1>5. Loop(g)
  <2> HIDE DEF Loop
  <2> QED
    BY <1>4
<1>6. DrainOrdered(p) = g[count]
  BY Zenon DEF DrainOrdered, Go
<1> HIDE DEF g
<1>7. g[0] = p /\ \A i \in 1 .. count : g[i] = Go(i, g[i - 1])
  <2>1. 0 \in 0 .. count /\ \A i \in 1 .. count : i \in 0 .. count /\ i # 0
    OBVIOUS
  <2> QED
    BY <1>5, <2>1, Zenon
<1>8. g[count] = f[count]
  <2>1. Alike(g, f, count)
    BY <1>2, <1>3, <1>7 DEF Alike, Runs
  <2> QED
    BY <2>1, SameLoop
<1> QED
  BY <1>2, <1>6, <1>8 DEF Runs

\* What a packet leaves before its fragments are looked at.
Opened(p, packet) ==
    [RecordAck(p, packet.seq) EXCEPT !.packets_received = @ + 1,
                                     !.opened = @ \union {packet.seq}]
Acted(p, packet) == RetireReliable(Opened(p, packet), packet.reliable_ack)
Admits(p, packet) ==
    LET seq == Expand(p.remote_sequence, packet.seq % SeqSpace) IN
    seq = packet.seq /\ ~IsReplay(p, seq)

\* The fragments of a packet are taken one after the other.
LEMMA HandleIn ==
    ASSUME NEW S, NEW p, NEW packet, Acted(p, packet) \in S, Admits(p, packet),
           packet.kind # "disconnect", NEW count \in Nat, count = Len(packet.fragments),
           \A i \in 1 .. count, q \in S : TakeFragment(q, packet.fragments[i]) \in S
    PROVE  HandlePacket(p, packet) \in S
<1> DEFINE Go(i, q) == TakeFragment(q, packet.fragments[i])
           step == [x \in (1 .. count) \X S |-> Go(x[1], x[2])]
           Loop(f) == f = [i \in 0 .. count |-> IF i = 0 THEN Acted(p, packet) ELSE Go(i, f[i - 1])]
<1>1. step \in [(1 .. count) \X S -> S]
  <2> SUFFICES ASSUME NEW x \in (1 .. count) \X S PROVE Go(x[1], x[2]) \in S
    OBVIOUS
  <2> QED
    OBVIOUS
<1>2. PICK f : Runs(f, count, S, Acted(p, packet), step)
  <2> HIDE DEF step
  <2>1. Acted(p, packet) \in S /\ count \in Nat
    OBVIOUS
  <2> QED
    BY <1>1, <2>1, Iterates
<1>3. \A i \in 1 .. count : f[i] = Go(i, f[i - 1])
  <2> TAKE i \in 1 .. count
  <2>1. i - 1 \in 0 .. count
    OBVIOUS
  <2>2. f[i - 1] \in S /\ f[i] = step[<<i, f[i - 1]>>]
    <3> HIDE DEF step
    <3> QED
      BY <1>2, <2>1 DEF Runs
  <2> HIDE DEF Go
  <2> QED
    BY <2>2
<1> HIDE DEF step, Go
<1>4. Loop(f)
  <2>1. f = [i \in 0 .. count |-> f[i]] /\ f[0] = Acted(p, packet)
    BY <1>2 DEF Runs
  <2>2. ASSUME NEW i \in 0 .. count PROVE f[i] = IF i = 0 THEN Acted(p, packet) ELSE Go(i, f[i - 1])
    <3>1. i # 0 => i \in 1 .. count
      OBVIOUS
    <3> QED
      BY <1>3, <2>1, <3>1
  <2> QED
    BY <2>1, <2>2
<1> DEFINE g == CHOOSE x : Loop(x)
<1>5. Loop(g)
  <2> HIDE DEF Loop
  <2> QED
    BY <1>4
<1>6. HandlePacket(p, packet) = g[count]
  BY Zenon DEF HandlePacket, Acted, Opened, Admits, Go
<1> HIDE DEF g
<1>7. g[0] = Acted(p, packet) /\ \A i \in 1 .. count : g[i] = Go(i, g[i - 1])
  <2>1. 0 \in 0 .. count /\ \A i \in 1 .. count : i \in 0 .. count /\ i # 0
    OBVIOUS
  <2> QED
    BY <1>5, <2>1, Zenon
<1>8. g[count] = f[count]
  <2>1. Alike(g, f, count)
    BY <1>2, <1>3, <1>7 DEF Alike, Runs
  <2> QED
    BY <2>1, SameLoop
<1> QED
  BY <1>2, <1>6, <1>8 DEF Runs

\* What an acknowledgement leaves is filtered one after the other.
LEMMA RetireLoop ==
    ASSUME NEW p, NEW ack, p.outgoing_reliable \in Seq(Pending)
    PROVE  \E g : /\ g[0] = <<>>
                  /\ \A i \in 1 .. Len(p.outgoing_reliable) :
                         g[i] = IF Newer(ack, p.outgoing_reliable[i].id) THEN g[i - 1]
                                ELSE Append(g[i - 1], p.outgoing_reliable[i])
                  /\ RetireReliable(p, ack) =
                         IF Implausible(p, ack) THEN p
                         ELSE [p EXCEPT !.outgoing_reliable = g[Len(p.outgoing_reliable)]]
<1> DEFINE Go(i, q) == (IF Newer(ack, p.outgoing_reliable[i].id) THEN q
              ELSE Append(q, p.outgoing_reliable[i]))
           step == [x \in (1 .. Len(p.outgoing_reliable)) \X Seq(Pending) |-> Go(x[1], x[2])]
           Loop(f) == f = [i \in 0 .. Len(p.outgoing_reliable) |-> IF i = 0 THEN <<>> ELSE Go(i, f[i - 1])]
<1>1. step \in [(1 .. Len(p.outgoing_reliable)) \X Seq(Pending) -> Seq(Pending)]
  <2> SUFFICES ASSUME NEW x \in (1 .. Len(p.outgoing_reliable)) \X Seq(Pending) PROVE Go(x[1], x[2]) \in Seq(Pending)
    OBVIOUS
  <2> QED
    OBVIOUS
<1>2. PICK f : Runs(f, Len(p.outgoing_reliable), Seq(Pending), <<>>, step)
  <2> HIDE DEF step
  <2>1. <<>> \in Seq(Pending) /\ Len(p.outgoing_reliable) \in Nat
    OBVIOUS
  <2> QED
    BY <1>1, <2>1, Iterates
<1>3. \A i \in 1 .. Len(p.outgoing_reliable) : f[i] = Go(i, f[i - 1])
  <2> TAKE i \in 1 .. Len(p.outgoing_reliable)
  <2>1. i - 1 \in 0 .. Len(p.outgoing_reliable)
    OBVIOUS
  <2>2. f[i - 1] \in Seq(Pending) /\ f[i] = step[<<i, f[i - 1]>>]
    <3> HIDE DEF step
    <3> QED
      BY <1>2, <2>1 DEF Runs
  <2> HIDE DEF Go
  <2> QED
    BY <2>2
<1> HIDE DEF step, Go
<1>4. Loop(f)
  <2>1. f = [i \in 0 .. Len(p.outgoing_reliable) |-> f[i]] /\ f[0] = <<>>
    BY <1>2 DEF Runs
  <2>2. ASSUME NEW i \in 0 .. Len(p.outgoing_reliable) PROVE f[i] = IF i = 0 THEN <<>> ELSE Go(i, f[i - 1])
    <3>1. i # 0 => i \in 1 .. Len(p.outgoing_reliable)
      OBVIOUS
    <3> QED
      BY <1>3, <2>1, <3>1
  <2> QED
    BY <2>1, <2>2
<1> DEFINE g == CHOOSE x : Loop(x)
<1>5. Loop(g)
  <2> HIDE DEF Loop
  <2> QED
    BY <1>4
<1>6. RetireReliable(p, ack) = IF Implausible(p, ack) THEN p
                                  ELSE [p EXCEPT !.outgoing_reliable = g[Len(p.outgoing_reliable)]]
  BY Zenon DEF RetireReliable, Go
<1> HIDE DEF g
<1>7. g[0] = <<>> /\ \A i \in 1 .. Len(p.outgoing_reliable) : g[i] = Go(i, g[i - 1])
  <2>1. 0 \in 0 .. Len(p.outgoing_reliable) /\ \A i \in 1 .. Len(p.outgoing_reliable) : i \in 0 .. Len(p.outgoing_reliable) /\ i # 0
    OBVIOUS
  <2> QED
    BY <1>5, <2>1, Zenon
<1> QED
  BY <1>6, <1>7 DEF Go

\* What the slots hold is added one after the other.
LEMMA HeldLoop ==
    ASSUME NEW slots, \A s \in Slots : slots[s].capacity \in Int, MaxReassembly \in Nat
    PROVE  \E g : /\ g[0] = 0
                  /\ \A s \in 1 .. MaxReassembly : g[s] = g[s - 1] + slots[s].capacity
                  /\ Held(slots) = g[MaxReassembly]
<1> DEFINE Go(i, q) == q + slots[i].capacity
           step == [x \in (1 .. MaxReassembly) \X Int |-> Go(x[1], x[2])]
           Loop(f) == f = [i \in 0 .. MaxReassembly |-> IF i = 0 THEN 0 ELSE Go(i, f[i - 1])]
<1>1. step \in [(1 .. MaxReassembly) \X Int -> Int]
  <2> SUFFICES ASSUME NEW x \in (1 .. MaxReassembly) \X Int PROVE Go(x[1], x[2]) \in Int
    OBVIOUS
  <2> QED
    BY DEF Slots
<1>2. PICK f : Runs(f, MaxReassembly, Int, 0, step)
  <2> HIDE DEF step
  <2>1. 0 \in Int /\ MaxReassembly \in Nat
    OBVIOUS
  <2> QED
    BY <1>1, <2>1, Iterates
<1>3. \A i \in 1 .. MaxReassembly : f[i] = Go(i, f[i - 1])
  <2> TAKE i \in 1 .. MaxReassembly
  <2>1. i - 1 \in 0 .. MaxReassembly
    OBVIOUS
  <2>2. f[i - 1] \in Int /\ f[i] = step[<<i, f[i - 1]>>]
    <3> HIDE DEF step
    <3> QED
      BY <1>2, <2>1 DEF Runs
  <2> HIDE DEF Go
  <2> QED
    BY <2>2
<1> HIDE DEF step, Go
<1>4. Loop(f)
  <2>1. f = [i \in 0 .. MaxReassembly |-> f[i]] /\ f[0] = 0
    BY <1>2 DEF Runs
  <2>2. ASSUME NEW i \in 0 .. MaxReassembly PROVE f[i] = IF i = 0 THEN 0 ELSE Go(i, f[i - 1])
    <3>1. i # 0 => i \in 1 .. MaxReassembly
      OBVIOUS
    <3> QED
      BY <1>3, <2>1, <3>1
  <2> QED
    BY <2>1, <2>2
<1> DEFINE g == CHOOSE x : Loop(x)
<1>5. Loop(g)
  <2> HIDE DEF Loop
  <2> QED
    BY <1>4
<1>6. Held(slots) = g[MaxReassembly]
  BY Zenon DEF Held, Go
<1> HIDE DEF g
<1>7. g[0] = 0 /\ \A i \in 1 .. MaxReassembly : g[i] = Go(i, g[i - 1])
  <2>1. 0 \in 0 .. MaxReassembly /\ \A i \in 1 .. MaxReassembly : i \in 0 .. MaxReassembly /\ i # 0
    OBVIOUS
  <2> QED
    BY <1>5, <2>1, Zenon
<1> QED
  BY <1>6, <1>7 DEF Go

-----------------------------------------------------------------------------
(* What each call leaves alone *)

SameHearing(p, q) ==
    /\ q.occupied = p.occupied /\ q.reason = p.reason
    /\ q.remote_sequence = p.remote_sequence /\ q.ack_bits = p.ack_bits
    /\ q.packets_received = p.packets_received /\ q.opened = p.opened
SameTaking(p, q) ==
    /\ q.next_delivery_id = p.next_delivery_id /\ q.seen = p.seen
    /\ q.seen_newest = p.seen_newest /\ q.seen_any = p.seen_any
    /\ q.incoming_reliable = p.incoming_reliable /\ q.reassembly = p.reassembly
    /\ q.reassembly_bytes = p.reassembly_bytes /\ q.delivered = p.delivered
SamePlan(p, q) ==
    q.next_message_id = p.next_message_id /\ q.todo = p.todo /\ q.sent = p.sent
SameSaying(p, q) ==
    /\ SamePlan(p, q) /\ q.local_sequence = p.local_sequence /\ q.wire = p.wire
    /\ q.outgoing_reliable = p.outgoing_reliable /\ q.outgoing = p.outgoing

\* A packet numbered and put on the wire.
SealedAs(p, kind, fragments) ==
    [seq |-> p.local_sequence, reliable_ack |-> p.next_delivery_id, kind |-> kind,
     fragments |-> fragments]

\* Sending a packet numbers it and puts it on the wire, and leaves the queues alone.
LEMMA SendPacketIs ==
    ASSUME NEW p \in Peer, NEW kind \in {"data", "disconnect"}, NEW fragments \in Seq(Frag)
    PROVE  LET q == SendPacket(p, kind, fragments) IN
           /\ q \in Peer /\ SameHearing(p, q) /\ SameTaking(p, q) /\ SamePlan(p, q)
           /\ q.outgoing_reliable = p.outgoing_reliable /\ q.outgoing = p.outgoing
           /\ q.local_sequence = p.local_sequence + 1
           /\ q.wire = p.wire \union {SealedAs(p, kind, fragments)}
<1> DEFINE w == p.wire \union {SealedAs(p, kind, fragments)}
           l == p.local_sequence + 1
           q == [p EXCEPT !.local_sequence = l, !.wire = w]
<1>1. l \in Nat \ {0} /\ w \in SUBSET Packet
  BY DEF Peer, Packet, SealedAs
<1>2. SendPacket(p, kind, fragments) = q
  BY Zenon DEF SendPacket, SealedAs
<1> HIDE DEF w, l
<1>3. q \in Peer
  BY <1>1 DEF Peer
<1>4. q.local_sequence = l /\ q.wire = w
  BY DEF Peer
<1>5. /\ SameHearing(p, q) /\ SameTaking(p, q) /\ SamePlan(p, q)
      /\ q.outgoing_reliable = p.outgoing_reliable /\ q.outgoing = p.outgoing
  BY DEF Peer, SameHearing, SameTaking, SamePlan
<1> QED
  BY <1>2, <1>3, <1>4, <1>5 DEF l, w

\* A bundle that leaves.
LEMMA FlushIs ==
    ASSUME NEW p \in Peer
    PROVE  LET q == FlushPeer(p) IN
           /\ q \in Peer /\ SameHearing(p, q) /\ SameTaking(p, q) /\ SamePlan(p, q)
           /\ q.outgoing_reliable = p.outgoing_reliable /\ q.outgoing = <<>>
           /\ \/ /\ q.local_sequence = p.local_sequence /\ q.wire = p.wire
                 /\ p.outgoing = <<>>
              \/ /\ q.local_sequence = p.local_sequence + 1
                 /\ q.wire = p.wire \union {SealedAs(p, "data", p.outgoing)}
<1>1. CASE p.outgoing = <<>>
  BY <1>1 DEF FlushPeer, SameHearing, SameTaking, SamePlan
<1>2. CASE p.outgoing # <<>>
  <2> DEFINE r == SendPacket(p, "data", p.outgoing)
             q == [r EXCEPT !.outgoing = <<>>]
  <2>1. p.outgoing \in Seq(Frag)
    BY DEF Peer
  <2>2. /\ r \in Peer /\ SameHearing(p, r) /\ SameTaking(p, r) /\ SamePlan(p, r)
        /\ r.outgoing_reliable = p.outgoing_reliable
        /\ r.local_sequence = p.local_sequence + 1
        /\ r.wire = p.wire \union {SealedAs(p, "data", p.outgoing)}
    BY <2>1, SendPacketIs
  <2>3. FlushPeer(p) = q
    BY <1>2 DEF FlushPeer
  <2> HIDE DEF r
  <2>4. q \in Peer
    <3>1. <<>> \in Seq(Frag)
      OBVIOUS
    <3> QED
      BY <2>2, <3>1 DEF Peer
  <2>5. q.outgoing = <<>> /\ q.local_sequence = r.local_sequence /\ q.wire = r.wire
        /\ q.outgoing_reliable = r.outgoing_reliable
    BY <2>2 DEF Peer
  <2>6. SameHearing(r, q) /\ SameTaking(r, q) /\ SamePlan(r, q)
    BY <2>2 DEF Peer, SameHearing, SameTaking, SamePlan
  <2>7. SameHearing(p, q) /\ SameTaking(p, q) /\ SamePlan(p, q)
    BY <2>2, <2>6 DEF SameHearing, SameTaking, SamePlan
  <2> QED
    BY <2>2, <2>3, <2>4, <2>5, <2>7
<1> QED
  BY <1>1, <1>2

\* One more fragment in the bundle, sealed first when it has no room.
LEMMA AppendFragmentIs ==
    ASSUME NEW p \in Peer, NEW f \in Frag
    PROVE  LET q == AppendFragment(p, f)
               r == IF Len(p.outgoing) + 1 > BodyMax THEN FlushPeer(p) ELSE p IN
           /\ q \in Peer /\ SameHearing(p, q) /\ SameTaking(p, q) /\ SamePlan(p, q)
           /\ q.outgoing_reliable = p.outgoing_reliable
           /\ q.outgoing = Append(r.outgoing, f)
           /\ q.local_sequence = r.local_sequence /\ q.wire = r.wire
<1> DEFINE r == IF Len(p.outgoing) + 1 > BodyMax THEN FlushPeer(p) ELSE p
           o == Append(r.outgoing, f)
           q == [r EXCEPT !.outgoing = o]
<1>1. /\ r \in Peer /\ SameHearing(p, r) /\ SameTaking(p, r) /\ SamePlan(p, r)
      /\ r.outgoing_reliable = p.outgoing_reliable
  <2>1. SameHearing(p, p) /\ SameTaking(p, p) /\ SamePlan(p, p)
    BY DEF SameHearing, SameTaking, SamePlan
  <2> QED
    BY <2>1, FlushIs
<1>2. AppendFragment(p, f) = q
  BY Zenon DEF AppendFragment
<1> HIDE DEF r
<1>3. o \in Seq(Frag)
  BY <1>1 DEF Peer
<1> HIDE DEF o
<1>4. q \in Peer
  BY <1>1, <1>3 DEF Peer
<1>5. q.outgoing = o /\ q.local_sequence = r.local_sequence /\ q.wire = r.wire
      /\ q.outgoing_reliable = r.outgoing_reliable
  BY <1>1 DEF Peer
<1>6. SameHearing(r, q) /\ SameTaking(r, q) /\ SamePlan(r, q)
  BY <1>1 DEF Peer, SameHearing, SameTaking, SamePlan
<1>7. SameHearing(p, q) /\ SameTaking(p, q) /\ SamePlan(p, q)
  BY <1>1, <1>6 DEF SameHearing, SameTaking, SamePlan
<1> QED
  BY <1>1, <1>2, <1>4, <1>5, <1>7 DEF o, r

\* A slot of the retransmission queue keeps its message.
SameShape(p, q) ==
    /\ Len(q.outgoing_reliable) = Len(p.outgoing_reliable)
    /\ \A i \in 1 .. Len(p.outgoing_reliable) :
           /\ q.outgoing_reliable[i].id = p.outgoing_reliable[i].id
           /\ q.outgoing_reliable[i].n = p.outgoing_reliable[i].n
           /\ q.outgoing_reliable[i].total = p.outgoing_reliable[i].total
SendsFrom(p) == {q \in Peer : SameHearing(p, q) /\ SameTaking(p, q) /\ SamePlan(p, q)
                                  /\ SameShape(p, q)}

\* What only sends does so twice over.
LEMMA SendsOn ==
    ASSUME NEW p, NEW q \in SendsFrom(p), NEW r \in SendsFrom(q) PROVE r \in SendsFrom(p)
<1>1. r \in Peer
  BY DEF SendsFrom
<1>2. SameHearing(p, r) /\ SameTaking(p, r) /\ SamePlan(p, r)
  BY DEF SendsFrom, SameHearing, SameTaking, SamePlan
<1>3. SameShape(p, r)
  BY DEF SendsFrom, SameShape
<1> QED
  BY <1>1, <1>2, <1>3 DEF SendsFrom

\* The fragments a message is cut into.
Piece(c, id, n, i, total) ==
    [channel |-> c, id |-> id, n |-> n, index |-> i, total |-> total]

\* A bundle that grows or leaves only sends.
LEMMA AppendsOnly ==
    ASSUME NEW p \in Peer, NEW f \in Frag
    PROVE  /\ p \in SendsFrom(p) /\ FlushPeer(p) \in SendsFrom(p)
           /\ AppendFragment(p, f) \in SendsFrom(p)
<1>1. p \in SendsFrom(p)
  BY DEF SendsFrom, SameHearing, SameTaking, SamePlan, SameShape
<1>2. \A q \in Peer : q.outgoing_reliable = p.outgoing_reliable => SameShape(p, q)
  BY DEF SameShape
<1>3. FlushPeer(p) \in SendsFrom(p)
  BY <1>2, FlushIs DEF SendsFrom
<1>4. AppendFragment(p, f) \in SendsFrom(p)
  BY <1>2, AppendFragmentIs DEF SendsFrom
<1> QED
  BY <1>1, <1>3, <1>4

\* So does a whole message.
LEMMA MessageOnly ==
    ASSUME NEW p \in Peer, NEW c \in Channels, NEW id \in Ids, NEW n \in Nat \ {0},
           NEW total \in 1 .. MaxMessage
    PROVE  AppendMessage(p, c, id, n, total) \in SendsFrom(p)
<1> DEFINE S == SendsFrom(p)
<1>1. p \in S /\ total \in Nat
  BY DEF SendsFrom, SameHearing, SameTaking, SamePlan, SameShape
<1>2. ASSUME NEW i \in 1 .. total, NEW q \in S
      PROVE  AppendFragment(q, [channel |-> c, id |-> id, n |-> n, index |-> i, total |-> total]) \in S
  <2> DEFINE f == [channel |-> c, id |-> id, n |-> n, index |-> i, total |-> total]
  <2>1. f \in Frag /\ q \in Peer
    BY DEF Frag, SendsFrom
  <2> HIDE DEF f
  <2>2. AppendFragment(q, f) \in SendsFrom(q)
    BY <2>1, AppendsOnly
  <2>3. AppendFragment(q, f) \in S
    BY <2>2, SendsOn
  <2> QED
    BY <2>3 DEF f
<1> QED
  <2> HIDE DEF S
  <2>1. AppendMessage(p, c, id, n, total) \in S
    BY <1>1, <1>2, AppendMessageIn
  <2> QED
    BY <2>1 DEF S

\* A message marked as sent.
Marked(p, i) == [p EXCEPT !.outgoing_reliable = [@ EXCEPT ![i].sends = TRUE]]

\* Marking does no more than sending may.
LEMMA MarkedIs ==
    ASSUME NEW p \in Peer, NEW i \in 1 .. Len(p.outgoing_reliable)
    PROVE  /\ Marked(p, i) \in SendsFrom(p)
           /\ Marked(p, i).outgoing = p.outgoing
           /\ Marked(p, i).local_sequence = p.local_sequence /\ Marked(p, i).wire = p.wire
<1> DEFINE o == p.outgoing_reliable
           m == [o[i] EXCEPT !.sends = TRUE]
           v == [o EXCEPT ![i] = m]
           q == [p EXCEPT !.outgoing_reliable = v]
<1>1. o \in Seq(Pending) /\ i \in 1 .. Len(o)
  BY DEF Peer
<1>2. Marked(p, i) = q
  BY Zenon DEF Marked
<1>3. m \in Pending /\ m.id = o[i].id /\ m.n = o[i].n /\ m.total = o[i].total
  <2>1. o[i] \in Pending
    BY <1>1
  <2> QED
    BY <2>1 DEF Pending
<1> HIDE DEF m
<1>4. /\ v \in Seq(Pending) /\ Len(v) = Len(o)
      /\ \A j \in 1 .. Len(o) : v[j] = IF j = i THEN m ELSE o[j]
  BY <1>1, <1>3
<1> HIDE DEF v
<1>5. q \in Peer /\ q.outgoing_reliable = v
  BY <1>4 DEF Peer
<1>6. /\ SameHearing(p, q) /\ SameTaking(p, q) /\ SamePlan(p, q)
      /\ q.outgoing = p.outgoing /\ q.local_sequence = p.local_sequence /\ q.wire = p.wire
  BY DEF Peer, SameHearing, SameTaking, SamePlan
<1>7. SameShape(p, q)
  BY <1>3, <1>4, <1>5 DEF SameShape
<1> QED
  BY <1>2, <1>5, <1>6, <1>7 DEF SendsFrom

\* What is pending, sent again, only sends.
LEMMA SendAgainIs ==
    ASSUME NEW p \in Peer, NEW i \in 1 .. Len(p.outgoing_reliable), NEW m \in Pending
    PROVE  /\ SendAgain(p, i, m) = Marked(AppendMessage(p, "reliable", m.id, m.n, m.total), i)
           /\ SendAgain(p, i, m) \in SendsFrom(p)
<1> DEFINE r == AppendMessage(p, "reliable", m.id, m.n, m.total)
<1>1. r \in SendsFrom(p)
  BY MessageOnly DEF Pending, Channels
<1>2. SendAgain(p, i, m) = Marked(r, i)
  BY Zenon DEF SendAgain, Marked
<1> HIDE DEF r
<1>3. r \in Peer /\ i \in 1 .. Len(r.outgoing_reliable)
  BY <1>1 DEF SendsFrom, SameShape
<1>4. Marked(r, i) \in SendsFrom(r)
  BY <1>3, MarkedIs
<1>5. Marked(r, i) \in SendsFrom(p)
  BY <1>1, <1>4, SendsOn
<1> QED
  BY <1>2, <1>5 DEF r

\* So does the walk over all that is pending.
LEMMA ResendOnly ==
    ASSUME NEW p \in Peer, NEW due PROVE Resend(p, due) \in SendsFrom(p)
<1> DEFINE S == SendsFrom(p)
           o == p.outgoing_reliable
           count == Len(o)
<1>1. o \in Seq(Pending) /\ count \in Nat
  BY DEF Peer
<1>2. p \in S
  BY DEF SendsFrom, SameHearing, SameTaking, SamePlan, SameShape
<1>3. ASSUME NEW i \in 1 .. count, NEW q \in S
      PROVE  (IF p.outgoing_reliable[i].sends /\ p.outgoing_reliable[i].n \notin due THEN q
              ELSE SendAgain(q, i, p.outgoing_reliable[i])) \in S
  <2> DEFINE m == p.outgoing_reliable[i]
  <2>1. m \in Pending
    BY <1>1
  <2>2. q \in Peer /\ i \in 1 .. Len(q.outgoing_reliable)
    BY DEF SendsFrom, SameShape
  <2> HIDE DEF m
  <2>3. SendAgain(q, i, m) \in SendsFrom(q)
    BY <2>1, <2>2, SendAgainIs
  <2>4. SendAgain(q, i, m) \in S
    BY <2>3, SendsOn
  <2> QED
    BY <2>4 DEF m
<1> QED
  <2> HIDE DEF S
  <2>1. Resend(p, due) \in S
    BY <1>1, <1>2, <1>3, ResendIn
  <2> QED
    BY <2>1 DEF S

-----------------------------------------------------------------------------
(* A connection that begins, and one that ends *)

Plans == [Channels -> Seq(1 .. MaxMessage)]

\* What a connection begins with: nothing said, and the marks of what was before.
Fresh(p, todo) ==
    /\ p \in Peer /\ p.occupied = TRUE /\ p.reason = "none"
    /\ p.outgoing_reliable = <<>> /\ p.incoming_reliable = <<>> /\ p.outgoing = <<>>
    /\ p.reassembly = [s \in Slots |-> FreeSlot] /\ p.reassembly_bytes = 0
    /\ p.packets_received = 0 /\ p.todo = todo /\ p.wire = {} /\ p.opened = {}
    /\ p.sent = [c \in Channels |-> 0] /\ p.delivered = [c \in Channels |-> <<>>]
Carries(p, k) ==
    /\ p.local_sequence = k + 1 /\ p.remote_sequence = k
    /\ p.next_delivery_id = k % IdSpace /\ p.next_message_id["reliable"] = k % IdSpace
    /\ p.seen_any["reliable"] = (k > 0)
    /\ k > 0 => /\ p.seen["reliable"] = 0 .. SeenWindow - 1
                /\ p.seen_newest["reliable"] = (k - 1) % IdSpace

\* A connection is established with nothing in flight.
LEMMA EstablishedIs ==
    ASSUME NEW k \in Nat, k = 0 \/ k >= SeenWindow, NEW todo \in Plans
    PROVE  Fresh(Established(k, todo), todo) /\ Carries(Established(k, todo), k)
<1> DEFINE p == Established(k, todo)
<1>1. k % IdSpace \in Ids /\ 0 \in Ids /\ (k > 0 => (k - 1) % IdSpace \in Ids)
  <2>1. IdSpace \in Nat \ {0}
    BY Widths
  <2>2. k % IdSpace \in Ids /\ 0 \in Ids
    BY <2>1, Division DEF Ids
  <2>3. ASSUME k > 0 PROVE (k - 1) % IdSpace \in Ids
    <3>1. k - 1 \in Nat
      BY <2>3
    <3> QED
      BY <2>1, <3>1, Division DEF Ids
  <2> QED
    BY <2>2, <2>3
<1>2. FreeSlot \in Slot
  BY <1>1 DEF FreeSlot, Slot, Channels
<1> DEFINE nm == [c \in Channels |-> IF c = "reliable" THEN k % IdSpace ELSE 0]
           sn == [c \in Channels |-> IF c = "reliable" /\ k > 0 THEN 0 .. (SeenWindow - 1) ELSE {}]
           sw == [c \in Channels |-> IF c = "reliable" /\ k > 0 THEN (k - 1) % IdSpace ELSE 0]
           sa == [c \in Channels |-> c = "reliable" /\ k > 0]
           re == [s \in Slots |-> FreeSlot]
           se == [c \in Channels |-> 0]
           de == [c \in Channels |-> <<>>]
           ab == {b \in 1 .. AckWindow : b < k}
<1>3. /\ nm \in [Channels -> Ids] /\ sn \in [Channels -> SUBSET (0 .. SeenWindow - 1)]
      /\ sw \in [Channels -> Ids]
  BY <1>1
<1>4. sa \in [Channels -> BOOLEAN] /\ ab \in SUBSET (1 .. AckWindow)
  OBVIOUS
<1>5. se \in [Channels -> Nat] /\ de \in [Channels -> Seq(Nat)] /\ re \in [Slots -> Slot]
  <2>1. <<>> \in Seq(Nat)
    OBVIOUS
  <2> QED
    BY <1>2, <2>1
<1>6. p = [occupied |-> TRUE, reason |-> "none", local_sequence |-> k + 1,
           remote_sequence |-> k, ack_bits |-> ab, next_message_id |-> nm,
           next_delivery_id |-> k % IdSpace, seen |-> sn, seen_newest |-> sw, seen_any |-> sa,
           outgoing_reliable |-> <<>>, incoming_reliable |-> <<>>, reassembly |-> re,
           reassembly_bytes |-> 0, outgoing |-> <<>>, packets_received |-> 0,
           todo |-> todo, wire |-> {}, opened |-> {}, sent |-> se, delivered |-> de]
  BY Zenon DEF Established
<1>7. /\ nm["reliable"] = k % IdSpace /\ sa["reliable"] = (k > 0)
      /\ k > 0 => sn["reliable"] = 0 .. SeenWindow - 1 /\ sw["reliable"] = (k - 1) % IdSpace
  BY DEF Channels
<1> HIDE DEF p, nm, sn, sw, sa, ab
<1>8. <<>> \in Seq(Pending) /\ <<>> \in Seq(Waiting) /\ <<>> \in Seq(Frag)
  OBVIOUS
<1>9. p \in Peer
  <2> HIDE DEF se, de, re
  <2> QED
    BY <1>1, <1>3, <1>4, <1>5, <1>6, <1>8 DEF Peer, Reasons, Plans
<1>10. /\ p.occupied = TRUE /\ p.reason = "none" /\ p.local_sequence = k + 1
       /\ p.remote_sequence = k /\ p.next_delivery_id = k % IdSpace
       /\ p.next_message_id = nm /\ p.seen = sn /\ p.seen_newest = sw /\ p.seen_any = sa
       /\ p.outgoing_reliable = <<>> /\ p.incoming_reliable = <<>> /\ p.outgoing = <<>>
       /\ p.reassembly = re /\ p.reassembly_bytes = 0
       /\ p.packets_received = 0 /\ p.todo = todo /\ p.wire = {} /\ p.opened = {}
       /\ p.sent = se /\ p.delivered = de
  <2> HIDE DEF se, de, re
  <2> QED
    BY <1>6
<1> QED
  BY <1>7, <1>9, <1>10 DEF p, Fresh, Carries

\* What the end of one leaves.
LEMMA RemovedIs ==
    ASSUME NEW p \in Peer, NEW reason \in Reasons
    PROVE  LET q == Removed(p, reason) IN
           /\ q \in Peer /\ q.occupied = FALSE /\ q.reason = reason
           /\ q.wire = p.wire /\ q.opened = p.opened /\ q.sent = p.sent
           /\ q.delivered = p.delivered /\ q.outgoing_reliable = <<>>
           /\ q.incoming_reliable = <<>>
           /\ q.reassembly = [s \in Slots |-> FreeSlot] /\ q.reassembly_bytes = 0
<1> DEFINE b == Established(0, p.todo)
           q == [b EXCEPT !.occupied = FALSE, !.reason = reason, !.wire = p.wire,
                          !.opened = p.opened, !.sent = p.sent, !.delivered = p.delivered]
<1>1. p.todo \in Plans
  BY DEF Peer, Plans
<1>2. /\ b \in Peer /\ b.outgoing_reliable = <<>> /\ b.incoming_reliable = <<>>
      /\ b.reassembly = [s \in Slots |-> FreeSlot]
      /\ b.reassembly_bytes = 0
  <2>1. 0 \in Nat /\ (0 = 0 \/ 0 >= SeenWindow)
    OBVIOUS
  <2>2. Fresh(b, p.todo)
    BY <1>1, <2>1, EstablishedIs
  <2> QED
    BY <2>2 DEF Fresh
<1>3. Removed(p, reason) = q
  BY DEF Removed
<1> HIDE DEF b
<1>4. q \in Peer
  BY <1>2, ZenonT(60) DEF Peer
<1>5. /\ q.occupied = FALSE /\ q.reason = reason /\ q.wire = p.wire /\ q.opened = p.opened
      /\ q.sent = p.sent /\ q.delivered = p.delivered
      /\ q.outgoing_reliable = b.outgoing_reliable /\ q.incoming_reliable = b.incoming_reliable
      /\ q.reassembly = b.reassembly
      /\ q.reassembly_bytes = b.reassembly_bytes
  BY <1>2 DEF Peer
<1> QED
  BY <1>2, <1>3, <1>4, <1>5

-----------------------------------------------------------------------------
(* The call that sends *)

\* The next id taken and the message taken off the plan; for the reliable channel the
\* message queued too.
Drawn(p, c) == [p EXCEPT !.next_message_id[c] = (@ + 1) % IdSpace, !.todo[c] = Tail(@)]
Entry(p) == [id |-> p.next_message_id["reliable"], n |-> p.sent["reliable"] + 1,
             total |-> Head(p.todo["reliable"]), sends |-> FALSE]
Queued(p) == [Drawn(p, "reliable") EXCEPT !.sent["reliable"] = p.sent["reliable"] + 1,
                                          !.outgoing_reliable = Append(@, Entry(p))]

\* The id and the message taken.
LEMMA DrawnIs ==
    ASSUME NEW p \in Peer, NEW c \in Channels, p.todo[c] # <<>>
    PROVE  LET q == Drawn(p, c) IN
           /\ q \in Peer /\ SameHearing(p, q) /\ SameTaking(p, q)
           /\ q.next_message_id = [p.next_message_id EXCEPT ![c] = (@ + 1) % IdSpace]
           /\ q.todo = [p.todo EXCEPT ![c] = Tail(@)] /\ q.sent = p.sent
           /\ q.local_sequence = p.local_sequence /\ q.wire = p.wire
           /\ q.outgoing = p.outgoing /\ q.outgoing_reliable = p.outgoing_reliable
<1> DEFINE m == [p.next_message_id EXCEPT ![c] = (@ + 1) % IdSpace]
           t == [p.todo EXCEPT ![c] = Tail(@)]
           q == [p EXCEPT !.next_message_id = m, !.todo = t]
<1>1. m \in [Channels -> Ids]
  <2>1. p.next_message_id \in [Channels -> Ids] /\ IdSpace \in Nat \ {0}
    BY Widths DEF Peer
  <2>2. p.next_message_id[c] + 1 \in Nat
    BY <2>1 DEF Ids
  <2>3. (p.next_message_id[c] + 1) % IdSpace \in Ids
    BY <2>1, <2>2, Division DEF Ids
  <2> QED
    BY <2>1, <2>3
<1>2. t \in [Channels -> Seq(1 .. MaxMessage)]
  <2>1. p.todo \in [Channels -> Seq(1 .. MaxMessage)]
    BY DEF Peer
  <2>2. Tail(p.todo[c]) \in Seq(1 .. MaxMessage)
    BY <2>1, HeadTailProperties
  <2> QED
    BY <2>1, <2>2
<1>3. Drawn(p, c) = q
  BY Zenon DEF Drawn
<1> HIDE DEF m, t
<1>4. q \in Peer /\ q.next_message_id = m /\ q.todo = t
  BY <1>1, <1>2 DEF Peer
<1>5. /\ SameHearing(p, q) /\ SameTaking(p, q) /\ q.sent = p.sent
      /\ q.local_sequence = p.local_sequence /\ q.wire = p.wire
      /\ q.outgoing = p.outgoing /\ q.outgoing_reliable = p.outgoing_reliable
  BY DEF Peer, SameHearing, SameTaking
<1> QED
  BY <1>3, <1>4, <1>5 DEF m, t

\* A reliable message queued.
LEMMA QueuedIs ==
    ASSUME NEW p \in Peer, p.todo["reliable"] # <<>>
    PROVE  LET q == Queued(p) IN
           /\ q \in Peer /\ SameHearing(p, q) /\ SameTaking(p, q)
           /\ q.next_message_id = [p.next_message_id EXCEPT !["reliable"] = (@ + 1) % IdSpace]
           /\ q.todo = [p.todo EXCEPT !["reliable"] = Tail(@)]
           /\ q.sent = [p.sent EXCEPT !["reliable"] = @ + 1]
           /\ q.local_sequence = p.local_sequence /\ q.wire = p.wire
           /\ q.outgoing = p.outgoing
           /\ q.outgoing_reliable = Append(p.outgoing_reliable, Entry(p))
           /\ Entry(p) \in Pending
<1> DEFINE d == Drawn(p, "reliable")
           e == Entry(p)
           s == [d.sent EXCEPT !["reliable"] = p.sent["reliable"] + 1]
           o == Append(d.outgoing_reliable, e)
           q == [d EXCEPT !.sent = s, !.outgoing_reliable = o]
<1>1. "reliable" \in Channels
  BY DEF Channels
<1>2. /\ d \in Peer /\ SameHearing(p, d) /\ SameTaking(p, d)
      /\ d.next_message_id = [p.next_message_id EXCEPT !["reliable"] = (@ + 1) % IdSpace]
      /\ d.todo = [p.todo EXCEPT !["reliable"] = Tail(@)] /\ d.sent = p.sent
      /\ d.local_sequence = p.local_sequence /\ d.wire = p.wire
      /\ d.outgoing = p.outgoing /\ d.outgoing_reliable = p.outgoing_reliable
  BY <1>1, DrawnIs
<1>3. e \in Pending
  <2>1. /\ p.next_message_id["reliable"] \in Ids /\ p.sent["reliable"] \in Nat
        /\ p.todo["reliable"] \in Seq(1 .. MaxMessage)
    BY <1>1 DEF Peer
  <2>2. Head(p.todo["reliable"]) \in 1 .. MaxMessage
    BY <2>1, HeadTailProperties
  <2> QED
    BY <2>1, <2>2 DEF Entry, Pending
<1>4. Queued(p) = q
  BY Zenon DEF Queued
<1> HIDE DEF d, e
<1>5. s \in [Channels -> Nat] /\ s = [p.sent EXCEPT !["reliable"] = @ + 1]
  BY <1>1, <1>2 DEF Peer
<1>6. o \in Seq(Pending) /\ o = Append(p.outgoing_reliable, e)
  BY <1>2, <1>3 DEF Peer
<1> HIDE DEF s, o
<1>7. q \in Peer /\ q.sent = s /\ q.outgoing_reliable = o
  BY <1>2, <1>5, <1>6 DEF Peer
<1>8. /\ SameHearing(d, q) /\ SameTaking(d, q) /\ q.next_message_id = d.next_message_id
      /\ q.todo = d.todo /\ q.local_sequence = d.local_sequence /\ q.wire = d.wire
      /\ q.outgoing = d.outgoing
  BY <1>2 DEF Peer, SameHearing, SameTaking
<1>9. SameHearing(p, q) /\ SameTaking(p, q)
  BY <1>2, <1>8 DEF SameHearing, SameTaking
<1> QED
  BY <1>2, <1>3, <1>4, <1>5, <1>6, <1>7, <1>8, <1>9 DEF e

\* What was sent once more is counted.
Counted(p, n) == [p EXCEPT !.sent["unreliable"] = n]

\* Counting changes the count alone.
LEMMA CountedIs ==
    ASSUME NEW p \in Peer, NEW n \in Nat
    PROVE  LET q == Counted(p, n) IN
           /\ q \in Peer /\ SameHearing(p, q) /\ SameTaking(p, q)
           /\ q.sent = [p.sent EXCEPT !["unreliable"] = n]
           /\ q.next_message_id = p.next_message_id /\ q.todo = p.todo
           /\ q.local_sequence = p.local_sequence /\ q.wire = p.wire
           /\ q.outgoing = p.outgoing /\ q.outgoing_reliable = p.outgoing_reliable
<1> DEFINE s == [p.sent EXCEPT !["unreliable"] = n]
           q == [p EXCEPT !.sent = s]
<1>1. s \in [Channels -> Nat]
  BY DEF Peer
<1>2. Counted(p, n) = q
  BY Zenon DEF Counted
<1> HIDE DEF s
<1>3. q \in Peer /\ q.sent = s
  BY <1>1 DEF Peer
<1>4. /\ SameHearing(p, q) /\ SameTaking(p, q)
      /\ q.next_message_id = p.next_message_id /\ q.todo = p.todo
      /\ q.local_sequence = p.local_sequence /\ q.wire = p.wire
      /\ q.outgoing = p.outgoing /\ q.outgoing_reliable = p.outgoing_reliable
  BY DEF Peer, SameHearing, SameTaking
<1> QED
  BY <1>2, <1>3, <1>4 DEF s

\* The three ways a message leaves: on its own, queued, or not at all.
Unqueued(p) == AppendMessage(Drawn(p, "unreliable"), "unreliable", p.next_message_id["unreliable"],
                             p.sent["unreliable"] + 1, Head(p.todo["unreliable"]))

\* There is no other way.
LEMMA SendingIs ==
    ASSUME NEW p \in Peer, NEW c \in Channels, NEW due, p.todo[c] # <<>>
    PROVE  \/ /\ c = "unreliable"
              /\ Sending(p, c, due) = Counted(Unqueued(p), p.sent["unreliable"] + 1)
              /\ Unqueued(p) \in SendsFrom(Drawn(p, c))
           \/ /\ c = "reliable" /\ Len(p.outgoing_reliable) < InFlight
              /\ Sending(p, c, due) = Resend(Queued(p), due)
           \/ /\ c = "reliable"
              /\ Sending(p, c, due) = Removed(Drawn(p, c), "timeout")
<1> DEFINE d == Drawn(p, c)
<1>1. d \in Peer /\ d.sent = p.sent /\ d.outgoing_reliable = p.outgoing_reliable
  BY DrawnIs
<1>2. p.outgoing_reliable \in Seq(Pending)
  BY DEF Peer
<1>3. Len(p.outgoing_reliable) \in Nat /\ InFlight \in Nat
  BY <1>2, Widths
<1>4. CASE c = "unreliable"
  <2>1. Sending(p, c, due) = Counted(Unqueued(p), p.sent["unreliable"] + 1)
    BY <1>4, Zenon DEF Sending, Counted, Unqueued, Drawn
  <2>2. /\ p.next_message_id["unreliable"] \in Ids /\ p.sent["unreliable"] \in Nat
        /\ p.todo["unreliable"] \in Seq(1 .. MaxMessage)
    BY <1>4 DEF Peer
  <2>3. Head(p.todo["unreliable"]) \in 1 .. MaxMessage /\ p.sent["unreliable"] + 1 \in Nat \ {0}
    <3>1. p.todo["unreliable"] # <<>>
      BY <1>4
    <3>2. Head(p.todo["unreliable"]) \in 1 .. MaxMessage
      BY <2>2, <3>1, HeadTailProperties
    <3> QED
      BY <2>2, <3>2
  <2>4. Unqueued(p) \in SendsFrom(Drawn(p, c))
    <3> HIDE DEF d
    <3> DEFINE h == Head(p.todo["unreliable"])
               n == p.sent["unreliable"] + 1
               i == p.next_message_id["unreliable"]
    <3>1. h \in 1 .. MaxMessage /\ n \in Nat \ {0} /\ i \in Ids /\ c \in Channels
      BY <2>2, <2>3
    <3> HIDE DEF h, n, i
    <3>2. AppendMessage(d, c, i, n, h) \in SendsFrom(d)
      BY <1>1, <3>1, MessageOnly
    <3> QED
      BY <1>4, <3>2, Zenon DEF Unqueued, h, n, i, d
  <2> QED
    BY <1>4, <2>1, <2>4
<1>5. CASE c = "reliable" /\ Len(p.outgoing_reliable) >= InFlight
  <2>1. Sending(p, c, due) = Removed(d, "timeout")
    BY <1>5, Zenon DEF Sending, Drawn
  <2> QED
    BY <1>5, <2>1
<1>6. CASE c = "reliable" /\ ~ (Len(p.outgoing_reliable) >= InFlight)
  <2>1. Sending(p, c, due) = Resend(Queued(p), due)
    BY <1>6, Zenon DEF Sending, Drawn, Queued, Entry
  <2> QED
    BY <1>3, <1>6, <2>1
<1> QED
  BY <1>4, <1>5, <1>6 DEF Channels

-----------------------------------------------------------------------------
(* What receiving a packet changes *)

SameQueue(p, q) ==
    q.next_delivery_id = p.next_delivery_id /\ q.incoming_reliable = p.incoming_reliable
SameSeen(p, q) == q.seen = p.seen /\ q.seen_newest = p.seen_newest /\ q.seen_any = p.seen_any
SameSlots(p, q) == q.reassembly = p.reassembly /\ q.reassembly_bytes = p.reassembly_bytes

\* A packet recorded.
LEMMA OpenedIs ==
    ASSUME NEW p \in Peer, NEW packet \in Packet
    PROVE  LET q == Opened(p, packet)
               r == RecordAck(p, packet.seq) IN
           /\ q \in Peer /\ r \in Peer
           /\ q.occupied = p.occupied /\ q.reason = p.reason
           /\ q.remote_sequence = r.remote_sequence /\ q.ack_bits = r.ack_bits
           /\ q.remote_sequence = Larger(p.remote_sequence, packet.seq)
           /\ q.packets_received = p.packets_received + 1
           /\ q.opened = p.opened \union {packet.seq}
           /\ SameTaking(p, q) /\ SameSaying(p, q)
<1> DEFINE r == RecordAck(p, packet.seq)
           n == r.packets_received + 1
           o == r.opened \union {packet.seq}
           q == [r EXCEPT !.packets_received = n, !.opened = o]
<1>1. packet.seq \in Nat
  BY DEF Packet
<1>2. r \in Peer
  BY <1>1 DEF Peer, RecordAck
<1>3. /\ r.occupied = p.occupied /\ r.reason = p.reason
      /\ r.packets_received = p.packets_received /\ r.opened = p.opened
      /\ SameTaking(p, r) /\ SameSaying(p, r)
  BY DEF Peer, RecordAck, SameTaking, SameSaying, SamePlan
<1>4. r.remote_sequence = Larger(p.remote_sequence, packet.seq)
  BY <1>1 DEF Peer, RecordAck, Larger
<1>5. Opened(p, packet) = q
  BY Zenon DEF Opened
<1> HIDE DEF r
<1>6. n \in Nat /\ o \in SUBSET Nat
  BY <1>1, <1>2 DEF Peer
<1> HIDE DEF n, o
<1>7. q \in Peer /\ q.packets_received = n /\ q.opened = o
  BY <1>2, <1>6 DEF Peer
<1>8. /\ q.occupied = r.occupied /\ q.reason = r.reason
      /\ q.remote_sequence = r.remote_sequence /\ q.ack_bits = r.ack_bits
      /\ SameTaking(r, q) /\ SameSaying(r, q)
  BY <1>2 DEF Peer, SameTaking, SameSaying, SamePlan
<1>9. SameTaking(p, q) /\ SameSaying(p, q)
  BY <1>3, <1>8 DEF SameTaking, SameSaying, SamePlan
<1> QED
  BY <1>2, <1>3, <1>4, <1>5, <1>7, <1>8, <1>9 DEF n, o, r

\* What an acknowledgement changes is the queue of what is pending.
LEMMA RetireOnly ==
    ASSUME NEW p \in Peer, NEW ack
    PROVE  LET q == RetireReliable(p, ack) IN
           /\ q \in Peer /\ SameHearing(p, q) /\ SameTaking(p, q) /\ SamePlan(p, q)
           /\ q.local_sequence = p.local_sequence /\ q.wire = p.wire
           /\ q.outgoing = p.outgoing
<1> DEFINE pending == p.outgoing_reliable
<1>1. pending \in Seq(Pending) /\ Len(pending) \in Nat
  BY DEF Peer
<1>2. PICK g : /\ g[0] = <<>>
               /\ \A i \in 1 .. Len(pending) :
                      g[i] = IF Newer(ack, pending[i].id) THEN g[i - 1]
                             ELSE Append(g[i - 1], pending[i])
               /\ RetireReliable(p, ack) = IF Implausible(p, ack) THEN p
                                           ELSE [p EXCEPT !.outgoing_reliable = g[Len(pending)]]
  BY <1>1, RetireLoop
<1> DEFINE N == Len(pending)
           G == {i \in 0 .. N : g[i] \in Seq(Pending)}
<1>3. 0 \in G
  <2>1. g[0] = <<>> /\ 0 \in 0 .. N
    BY <1>1, <1>2
  <2>2. <<>> \in Seq(Pending)
    OBVIOUS
  <2> QED
    BY <2>1, <2>2, Zenon
<1>4. ASSUME NEW i \in 0 .. N - 1, i \in G PROVE i + 1 \in G
  <2>1. i + 1 \in 1 .. N /\ (i + 1) - 1 = i /\ g[i] \in Seq(Pending)
    BY <1>1, <1>4
  <2>2. pending[i + 1] \in Pending
    BY <1>1, <2>1
  <2>3. g[i + 1] = IF Newer(ack, pending[i + 1].id) THEN g[i] ELSE Append(g[i], pending[i + 1])
    BY <1>2, <2>1
  <2> DEFINE x == g[i]
             y == g[i + 1]
             z == pending[i + 1]
  <2>4. x \in Seq(Pending) /\ z \in Pending /\ (y = x \/ y = Append(x, z))
    BY <2>1, <2>2, <2>3
  <2>5. y \in Seq(Pending)
    <3> HIDE DEF x, y, z
    <3> QED
      BY <2>4
  <2>6. i + 1 \in 0 .. N
    BY <2>1
  <2> QED
    BY <2>5, <2>6, Zenon
<1>5. g[N] \in Seq(Pending)
  <2>1. \A i \in 0 .. N : i \in G
    <3> HIDE DEF G
    <3> QED
      BY <1>1, <1>3, <1>4, UpTo
  <2> QED
    BY <1>1, <2>1
<1> DEFINE v == g[N]
           q == [p EXCEPT !.outgoing_reliable = v]
<1>6. RetireReliable(p, ack) = p \/ RetireReliable(p, ack) = q
  BY <1>2
<1> HIDE DEF v
<1>7. q \in Peer
  BY <1>5 DEF Peer, v
<1>8. /\ SameHearing(p, q) /\ SameTaking(p, q) /\ SamePlan(p, q)
      /\ q.local_sequence = p.local_sequence /\ q.wire = p.wire /\ q.outgoing = p.outgoing
  BY DEF Peer, SameHearing, SameTaking, SamePlan
<1> QED
  BY <1>6, <1>7, <1>8 DEF SameHearing, SameTaking, SamePlan

\* The id marked as seen last and the marks before it.
NewestAfter(p, c, id) ==
    IF ~p.seen_any[c] \/ Newer(id, p.seen_newest[c]) THEN id ELSE p.seen_newest[c]
SeenAfter(p, c, id) ==
    LET newer == ~p.seen_any[c] \/ Newer(id, p.seen_newest[c])
        shift == IF p.seen_any[c] THEN Minus(id, p.seen_newest[c]) ELSE SeenWindow
        slid == IF newer THEN {k + shift : k \in p.seen[c]} ELSE p.seen[c]
    IN (slid \union {Minus(NewestAfter(p, c, id), id)}) \intersect 0..(SeenWindow - 1)

\* An id marked.
LEMMA MarkSeenIs ==
    ASSUME NEW p \in Peer, NEW c \in Channels, NEW id \in Ids
    PROVE  LET q == MarkSeen(p, c, id) IN
           /\ q \in Peer /\ SameHearing(p, q) /\ SameSaying(p, q) /\ SameQueue(p, q)
           /\ SameSlots(p, q) /\ q.delivered = p.delivered
           /\ q.seen_any = [p.seen_any EXCEPT ![c] = TRUE]
           /\ q.seen_newest = [p.seen_newest EXCEPT ![c] = NewestAfter(p, c, id)]
           /\ q.seen = [p.seen EXCEPT ![c] = SeenAfter(p, c, id)]
<1> DEFINE a == [p.seen_any EXCEPT ![c] = TRUE]
           n == [p.seen_newest EXCEPT ![c] = NewestAfter(p, c, id)]
           s == [p.seen EXCEPT ![c] = SeenAfter(p, c, id)]
           q == [p EXCEPT !.seen_any = a, !.seen_newest = n, !.seen = s]
<1>1. MarkSeen(p, c, id) = q
  BY Zenon DEF MarkSeen, NewestAfter, SeenAfter
<1>2. SeenAfter(p, c, id) \in SUBSET (0 .. SeenWindow - 1)
  BY DEF SeenAfter
<1>3. NewestAfter(p, c, id) \in Ids
  BY DEF NewestAfter, Peer
<1>4. /\ a \in [Channels -> BOOLEAN] /\ n \in [Channels -> Ids]
      /\ s \in [Channels -> SUBSET (0 .. SeenWindow - 1)]
  <2>1. /\ p.seen_any \in [Channels -> BOOLEAN] /\ p.seen_newest \in [Channels -> Ids]
        /\ p.seen \in [Channels -> SUBSET (0 .. SeenWindow - 1)]
    BY DEF Peer
  <2> QED
    BY <1>2, <1>3, <2>1
<1> HIDE DEF a, n, s
<1>5. q \in Peer /\ q.seen_any = a /\ q.seen_newest = n /\ q.seen = s
  BY <1>4 DEF Peer
<1>6. /\ SameHearing(p, q) /\ SameSaying(p, q) /\ SameQueue(p, q)
      /\ SameSlots(p, q) /\ q.delivered = p.delivered
  BY DEF Peer, SameHearing, SameSaying, SamePlan, SameQueue, SameSlots
<1> QED
  BY <1>1, <1>5, <1>6 DEF a, n, s

\* A message handed over.
LEMMA DeliverIs ==
    ASSUME NEW p \in Peer, NEW c \in Channels, NEW n \in Nat
    PROVE  LET q == Deliver(p, c, n) IN
           /\ q \in Peer /\ SameHearing(p, q) /\ SameSaying(p, q) /\ SameQueue(p, q)
           /\ SameSlots(p, q) /\ SameSeen(p, q)
           /\ q.delivered = [p.delivered EXCEPT ![c] = Append(@, n)]
<1> DEFINE d == [p.delivered EXCEPT ![c] = Append(@, n)]
           q == [p EXCEPT !.delivered = d]
<1>1. Deliver(p, c, n) = q
  BY Zenon DEF Deliver
<1>2. d \in [Channels -> Seq(Nat)]
  <2>1. p.delivered \in [Channels -> Seq(Nat)]
    BY DEF Peer
  <2>2. Append(p.delivered[c], n) \in Seq(Nat)
    BY <2>1
  <2> QED
    BY <2>1, <2>2
<1> HIDE DEF d
<1>3. q \in Peer /\ q.delivered = d
  BY <1>2 DEF Peer
<1>4. /\ SameHearing(p, q) /\ SameSaying(p, q) /\ SameQueue(p, q)
      /\ SameSlots(p, q) /\ SameSeen(p, q)
  BY DEF Peer, SameHearing, SameSaying, SamePlan, SameQueue, SameSlots, SameSeen
<1> QED
  BY <1>1, <1>3, <1>4 DEF d

\* The same, of what an end may become by them.
Markings(p, c, id) ==
    {q \in Peer :
        /\ SameHearing(p, q) /\ SameSaying(p, q) /\ SameQueue(p, q)
        /\ SameSlots(p, q) /\ q.delivered = p.delivered
        /\ q.seen_any = [p.seen_any EXCEPT ![c] = TRUE]
        /\ q.seen_newest = [p.seen_newest EXCEPT ![c] = NewestAfter(p, c, id)]
        /\ q.seen = [p.seen EXCEPT ![c] = SeenAfter(p, c, id)]}
Handings(p, c, n) ==
    {q \in Peer :
        /\ SameHearing(p, q) /\ SameSaying(p, q) /\ SameQueue(p, q)
        /\ SameSlots(p, q) /\ SameSeen(p, q)
        /\ q.delivered = [p.delivered EXCEPT ![c] = Append(@, n)]}

\* A message seen is one of its markings.
LEMMA MarkSeenIn ==
    ASSUME NEW p \in Peer, NEW c \in Channels, NEW id \in Ids
    PROVE  MarkSeen(p, c, id) \in Markings(p, c, id)
<1> DEFINE q == MarkSeen(p, c, id)
<1>0. q = MarkSeen(p, c, id)
  OBVIOUS
<1> HIDE DEF q
<1>1. /\ q \in Peer /\ SameHearing(p, q) /\ SameSaying(p, q) /\ SameQueue(p, q)
      /\ SameSlots(p, q) /\ q.delivered = p.delivered
      /\ q.seen_any = [p.seen_any EXCEPT ![c] = TRUE]
      /\ q.seen_newest = [p.seen_newest EXCEPT ![c] = NewestAfter(p, c, id)]
      /\ q.seen = [p.seen EXCEPT ![c] = SeenAfter(p, c, id)]
  BY <1>0, MarkSeenIs
<1>2. q \in Markings(p, c, id)
  BY <1>1 DEF Markings
<1> QED
  BY <1>2 DEF q

\* A message handed over is one of its handings.
LEMMA DeliverIn ==
    ASSUME NEW p \in Peer, NEW c \in Channels, NEW n \in Nat
    PROVE  Deliver(p, c, n) \in Handings(p, c, n)
<1> DEFINE q == Deliver(p, c, n)
<1>0. q = Deliver(p, c, n)
  OBVIOUS
<1> HIDE DEF q
<1>1. /\ q \in Peer /\ SameHearing(p, q) /\ SameSaying(p, q) /\ SameQueue(p, q)
      /\ SameSlots(p, q) /\ SameSeen(p, q)
      /\ q.delivered = [p.delivered EXCEPT ![c] = Append(@, n)]
  BY <1>0, DeliverIs
<1>2. q \in Handings(p, c, n)
  BY <1>1 DEF Handings
<1> QED
  BY <1>2 DEF q

\* A set of numbers has a least.
LEMMA Least ==
    ASSUME NEW S \in SUBSET Nat, S # {} PROVE \E x \in S : \A y \in S : x <= y
<1> DEFINE R == OpToRel(<, Nat)
<1>1. IsWellFoundedOn(R, Nat)
  BY NatLessThanWellFounded
<1>2. \A x, y \in Nat : <<y, x>> \in R <=> y < x
  BY DEF OpToRel
<1> HIDE DEF R
<1>3. PICK x \in S : \A y \in S : ~ (<<y, x>> \in R)
  BY <1>1, WFMin
<1>4. \A y \in S : x \in Nat /\ y \in Nat /\ ~ (y < x)
  BY <1>2, <1>3, Zenon
<1>5. \A y \in S : x <= y
  BY <1>4
<1> QED
  BY <1>3, <1>5

\* A list without one of its elements.
LEMMA RemoveAtIs ==
    ASSUME NEW S, NEW s \in Seq(S), NEW i \in 1 .. Len(s)
    PROVE  /\ RemoveAt(s, i) \in Seq(S) /\ Len(RemoveAt(s, i)) = Len(s) - 1
           /\ \A j \in 1 .. Len(s) - 1 : RemoveAt(s, i)[j] = s[IF j < i THEN j ELSE j + 1]
<1> DEFINE a == SubSeq(s, 1, i - 1)
           b == SubSeq(s, i + 1, Len(s))
<1>1. Len(s) \in Nat /\ i \in Nat /\ \A j \in 1 .. Len(s) : s[j] \in S
  OBVIOUS
<1>2. /\ a \in Seq(S) /\ Len(a) = i - 1
      /\ \A j \in 1 .. i - 1 : a[j] = s[j]
  <2>1. \A j \in 1 .. i - 1 : s[j] \in S
    BY <1>1
  <2>2. 1 \in Int /\ i - 1 \in Int
    BY <1>1
  <2>3. /\ a \in Seq(S) /\ Len(a) = (IF 1 <= i - 1 THEN (i - 1) - 1 + 1 ELSE 0)
        /\ \A j \in 1 .. (i - 1) - 1 + 1 : a[j] = s[1 + j - 1]
    BY <2>1, <2>2, SubSeqProperties
  <2>4. (i - 1) - 1 + 1 = i - 1 /\ (~ (1 <= i - 1) => i - 1 = 0)
        /\ \A j \in 1 .. i - 1 : 1 + j - 1 = j
    BY <1>1
  <2> QED
    BY <2>3, <2>4
<1>3. /\ b \in Seq(S) /\ Len(b) = Len(s) - i
      /\ \A j \in 1 .. Len(s) - i : b[j] = s[i + j]
  <2>1. \A j \in i + 1 .. Len(s) : s[j] \in S
    BY <1>1
  <2>2. i + 1 \in Int /\ Len(s) \in Int
    BY <1>1
  <2>3. /\ b \in Seq(S) /\ Len(b) = (IF i + 1 <= Len(s) THEN Len(s) - (i + 1) + 1 ELSE 0)
        /\ \A j \in 1 .. Len(s) - (i + 1) + 1 : b[j] = s[(i + 1) + j - 1]
    BY <2>1, <2>2, SubSeqProperties
  <2>4. Len(s) - (i + 1) + 1 = Len(s) - i /\ (~ (i + 1 <= Len(s)) => Len(s) - i = 0)
        /\ \A j \in 1 .. Len(s) - i : (i + 1) + j - 1 = i + j
    BY <1>1
  <2> QED
    BY <2>3, <2>4
<1>4. RemoveAt(s, i) = a \o b
  BY DEF RemoveAt
<1> HIDE DEF a, b
<1>5. /\ a \o b \in Seq(S) /\ Len(a \o b) = Len(a) + Len(b)
      /\ \A j \in 1 .. Len(a) + Len(b) : (a \o b)[j] = IF j <= Len(a) THEN a[j] ELSE b[j - Len(a)]
  BY <1>2, <1>3, ConcatProperties
<1>6. Len(a) + Len(b) = Len(s) - 1
  BY <1>1, <1>2, <1>3
<1>7. ASSUME NEW j \in 1 .. Len(s) - 1
      PROVE  (a \o b)[j] = s[IF j < i THEN j ELSE j + 1]
  <2>1. CASE j < i
    <3>1. j <= Len(a) /\ j \in 1 .. i - 1
      BY <1>1, <1>2, <2>1
    <3> QED
      BY <1>2, <1>5, <1>6, <2>1, <3>1
  <2>2. CASE ~ (j < i)
    <3>1. ~ (j <= Len(a)) /\ j - Len(a) \in 1 .. Len(s) - i /\ i + (j - Len(a)) = j + 1
      BY <1>1, <1>2, <2>2
    <3> QED
      BY <1>3, <1>5, <1>6, <2>2, <3>1
  <2> QED
    BY <2>1, <2>2
<1> QED
  BY <1>4, <1>5, <1>6, <1>7

\* A message put among those that wait.
Waits(p, m) == [p EXCEPT !.incoming_reliable = Append(@, m)]

\* Waiting changes the line of those that wait alone.
LEMMA WaitsIs ==
    ASSUME NEW p \in Peer, NEW m \in Waiting
    PROVE  LET q == Waits(p, m) IN
           /\ q \in Peer /\ SameHearing(p, q) /\ SameSaying(p, q) /\ SameSlots(p, q)
           /\ SameSeen(p, q) /\ q.delivered = p.delivered
           /\ q.next_delivery_id = p.next_delivery_id
           /\ q.incoming_reliable = Append(p.incoming_reliable, m)
<1> DEFINE v == Append(p.incoming_reliable, m)
           q == [p EXCEPT !.incoming_reliable = v]
<1>1. v \in Seq(Waiting)
  <2>1. p.incoming_reliable \in Seq(Waiting)
    BY DEF Peer
  <2> QED
    BY <2>1
<1>2. Waits(p, m) = q
  BY DEF Waits
<1> HIDE DEF v
<1>3. q \in Peer /\ q.incoming_reliable = v
  BY <1>1 DEF Peer
<1>4. /\ SameHearing(p, q) /\ SameSaying(p, q) /\ SameSlots(p, q)
      /\ SameSeen(p, q) /\ q.delivered = p.delivered
      /\ q.next_delivery_id = p.next_delivery_id
  BY DEF Peer, SameHearing, SameSaying, SamePlan, SameSlots, SameSeen
<1> QED
  BY <1>2, <1>3, <1>4 DEF v

\* One that waited handed over.
Handed(p, i) ==
    [Deliver(p, "reliable", p.incoming_reliable[i].n)
        EXCEPT !.next_delivery_id = (@ + 1) % IdSpace,
               !.incoming_reliable = RemoveAt(@, i)]

\* Handing over moves the line on by one.
LEMMA HandedIs ==
    ASSUME NEW p \in Peer, NEW i \in 1 .. Len(p.incoming_reliable)
    PROVE  LET q == Handed(p, i) IN
           /\ q \in Peer /\ SameHearing(p, q) /\ SameSaying(p, q) /\ SameSlots(p, q)
           /\ SameSeen(p, q)
           /\ q.next_delivery_id = (p.next_delivery_id + 1) % IdSpace
           /\ q.incoming_reliable = RemoveAt(p.incoming_reliable, i)
           /\ q.delivered = [p.delivered EXCEPT !["reliable"] = Append(@, p.incoming_reliable[i].n)]
<1> DEFINE n == p.incoming_reliable[i].n
           d == Deliver(p, "reliable", n)
           x == (d.next_delivery_id + 1) % IdSpace
           v == RemoveAt(d.incoming_reliable, i)
           q == [d EXCEPT !.next_delivery_id = x, !.incoming_reliable = v]
<1>1. p.incoming_reliable \in Seq(Waiting) /\ n \in Nat
  <2>1. p.incoming_reliable \in Seq(Waiting)
    BY DEF Peer
  <2>2. p.incoming_reliable[i] \in Waiting
    BY <2>1
  <2> QED
    BY <2>1, <2>2 DEF Waiting
<1>2. /\ d \in Peer /\ SameHearing(p, d) /\ SameSaying(p, d) /\ SameQueue(p, d)
      /\ SameSlots(p, d) /\ SameSeen(p, d)
      /\ d.delivered = [p.delivered EXCEPT !["reliable"] = Append(@, n)]
  <2> HIDE DEF n
  <2>1. "reliable" \in Channels
    BY DEF Channels
  <2> QED
    BY <1>1, <2>1, DeliverIs
<1>3. Handed(p, i) = q
  BY Zenon DEF Handed
<1> HIDE DEF d, n
<1>4. x \in Ids /\ x = (p.next_delivery_id + 1) % IdSpace
  <2>1. d.next_delivery_id \in Ids /\ d.next_delivery_id = p.next_delivery_id /\ IdSpace \in Nat \ {0}
    BY <1>2, Widths DEF SameQueue, Peer
  <2>2. d.next_delivery_id + 1 \in Nat
    BY <2>1 DEF Ids
  <2> QED
    BY <2>1, <2>2, Division DEF Ids
<1>5. v \in Seq(Waiting) /\ v = RemoveAt(p.incoming_reliable, i)
  <2>1. d.incoming_reliable = p.incoming_reliable
    BY <1>2 DEF SameQueue
  <2> QED
    BY <1>1, <2>1, RemoveAtIs
<1> HIDE DEF x, v
<1>6. q \in Peer /\ q.next_delivery_id = x /\ q.incoming_reliable = v
  BY <1>2, <1>4, <1>5 DEF Peer
<1>7. /\ SameHearing(d, q) /\ SameSaying(d, q) /\ SameSlots(d, q)
      /\ SameSeen(d, q) /\ q.delivered = d.delivered
  BY <1>2 DEF Peer, SameHearing, SameSaying, SamePlan, SameSlots, SameSeen
<1>8. SameHearing(p, q) /\ SameSaying(p, q) /\ SameSlots(p, q) /\ SameSeen(p, q)
  BY <1>2, <1>7 DEF SameHearing, SameSaying, SamePlan, SameSlots, SameSeen
<1> QED
  BY <1>2, <1>3, <1>4, <1>5, <1>6, <1>7, <1>8 DEF n

\* The next one that waits is handed over, if it is there.
LEMMA DrainOneIs ==
    ASSUME NEW p \in Peer
    PROVE  \/ DrainOne(p) = p /\ NextHeld(p) = {}
           \/ \E i \in NextHeld(p) : DrainOne(p) = Handed(p, i)
<1> DEFINE i == CHOOSE i \in NextHeld(p) : \A j \in NextHeld(p) : i <= j
<1>1. CASE NextHeld(p) = {}
  BY <1>1 DEF DrainOne
<1>2. CASE NextHeld(p) # {}
  <2>1. NextHeld(p) \in SUBSET Nat
    BY DEF NextHeld
  <2>2. \E x \in NextHeld(p) : \A y \in NextHeld(p) : x <= y
    BY <1>2, <2>1, Least
  <2>3. i \in NextHeld(p)
    BY <2>2
  <2>4. DrainOne(p) = Handed(p, i)
    BY <1>2, Zenon DEF DrainOne, Handed
  <2> HIDE DEF i
  <2> QED
    BY <2>3, <2>4
<1> QED
  BY <1>1, <1>2

-----------------------------------------------------------------------------
(* The slots that hold parts of messages *)

\* A slot replaced.
SlotSet(p, s, v) == [p EXCEPT !.reassembly = [@ EXCEPT ![s] = v]]

\* Replacing a slot changes the slots alone.
LEMMA SlotSetIs ==
    ASSUME NEW p \in Peer, NEW s \in Slots, NEW v \in Slot
    PROVE  LET q == SlotSet(p, s, v) IN
           /\ q \in Peer /\ SameHearing(p, q) /\ SameSaying(p, q) /\ SameQueue(p, q)
           /\ SameSeen(p, q) /\ q.delivered = p.delivered
           /\ q.reassembly_bytes = p.reassembly_bytes
           /\ q.reassembly = [p.reassembly EXCEPT ![s] = v]
<1> DEFINE r == [p.reassembly EXCEPT ![s] = v]
           q == [p EXCEPT !.reassembly = r]
<1>1. r \in [Slots -> Slot]
  BY DEF Peer
<1>2. SlotSet(p, s, v) = q
  BY DEF SlotSet
<1> HIDE DEF r
<1>3. q \in Peer /\ q.reassembly = r
  BY <1>1 DEF Peer
<1>4. /\ SameHearing(p, q) /\ SameSaying(p, q) /\ SameQueue(p, q)
      /\ SameSeen(p, q) /\ q.delivered = p.delivered
      /\ q.reassembly_bytes = p.reassembly_bytes
  BY DEF Peer, SameHearing, SameSaying, SamePlan, SameQueue, SameSeen
<1> QED
  BY <1>2, <1>3, <1>4 DEF r

\* A slot let go.
LEMMA IdleIs ==
    ASSUME NEW v \in Slot
    PROVE  /\ Idle(v) \in Slot /\ Idle(v).active = FALSE /\ Idle(v).capacity = v.capacity
<1>1. 0 \in Ids
  BY Widths DEF Ids
<1> QED
  BY <1>1 DEF Idle, Slot, Channels

\* A slot that starts on a message, and one with a fragment more.
StartedOn(p, s, f) == [active |-> TRUE, channel |-> f.channel, id |-> f.id, total |-> f.total,
                       received |-> {}, started |-> p.packets_received,
                       capacity |-> Larger(p.reassembly[s].capacity, f.total)]
With(v, f) == [v EXCEPT !.received = @ \union {f}]

\* Either is a slot, and a fragment more takes no more memory.
LEMMA SlotTypes ==
    ASSUME NEW p \in Peer, NEW s \in Slots, NEW f \in Frag
    PROVE  /\ p.reassembly[s] \in Slot /\ StartedOn(p, s, f) \in Slot
           /\ With(p.reassembly[s], f) \in Slot
           /\ With(p.reassembly[s], f).capacity = p.reassembly[s].capacity
           /\ With(p.reassembly[s], f).active = p.reassembly[s].active
           /\ With(p.reassembly[s], f).channel = p.reassembly[s].channel
           /\ With(p.reassembly[s], f).id = p.reassembly[s].id
           /\ With(p.reassembly[s], f).total = p.reassembly[s].total
           /\ With(p.reassembly[s], f).received = p.reassembly[s].received \union {f}
<1>1. p.reassembly[s] \in Slot
  BY DEF Peer
<1> DEFINE v == p.reassembly[s]
<1> HIDE DEF v
<1>2. v \in Slot
  BY <1>1 DEF v
<1>3. Larger(v.capacity, f.total) \in Nat
  BY <1>2 DEF Larger, Slot, Frag
<1>4. StartedOn(p, s, f) \in Slot
  <2>1. p.packets_received \in Nat
    BY DEF Peer
  <2> QED
    BY <1>3, <2>1 DEF StartedOn, Slot, Frag, v
<1>5. /\ With(v, f) \in Slot /\ With(v, f).capacity = v.capacity
      /\ With(v, f).active = v.active /\ With(v, f).channel = v.channel
      /\ With(v, f).id = v.id /\ With(v, f).total = v.total
      /\ With(v, f).received = v.received \union {f}
  BY <1>2 DEF With, Slot
<1> QED
  BY <1>1, <1>4, <1>5 DEF v

\* What the slots hold, when one of them changes and when none does.
LEMMA HeldChange ==
    ASSUME NEW x \in [Slots -> Slot], NEW y \in [Slots -> Slot], NEW s \in Slots,
           \A r \in Slots : r # s => y[r].capacity = x[r].capacity
    PROVE  Held(x) \in Int /\ Held(y) = (Held(x) - x[s].capacity) + y[s].capacity
<1> DEFINE N == MaxReassembly
<1>1. /\ N \in Nat /\ \A r \in Slots : x[r].capacity \in Int /\ y[r].capacity \in Int
      /\ Slots = 1 .. N
  <2>1. \A r \in Slots : x[r] \in Slot /\ y[r] \in Slot
    OBVIOUS
  <2> QED
    BY <2>1, Widths DEF Slot, Slots
<1>2. PICK g : /\ g[0] = 0 /\ \A r \in 1 .. N : g[r] = g[r - 1] + x[r].capacity
               /\ Held(x) = g[N]
  BY <1>1, HeldLoop
<1>3. PICK h : /\ h[0] = 0 /\ \A r \in 1 .. N : h[r] = h[r - 1] + y[r].capacity
               /\ Held(y) = h[N]
  BY <1>1, HeldLoop
<1> DEFINE d == y[s].capacity - x[s].capacity
           G == {r \in 0 .. N : g[r] \in Int /\ h[r] = g[r] + (IF r < s THEN 0 ELSE d)}
<1>4. s \in 1 .. N /\ d \in Int
  BY <1>1
<1>5. 0 \in G
  BY <1>1, <1>2, <1>3, <1>4
<1>6. ASSUME NEW r \in 0 .. N - 1, r \in G PROVE r + 1 \in G
  <2>1. r + 1 \in 1 .. N /\ (r + 1) - 1 = r /\ r + 1 \in Slots
    BY <1>1
  <2>2. g[r + 1] = g[r] + x[r + 1].capacity /\ h[r + 1] = h[r] + y[r + 1].capacity
    BY <1>2, <1>3, <2>1
  <2>3. g[r] \in Int /\ h[r] = g[r] + (IF r < s THEN 0 ELSE d)
    BY <1>6
  <2>4. CASE r + 1 = s
    <3> DEFINE a == x[r + 1].capacity
               b == y[r + 1].capacity
    <3>1. a \in Int /\ b \in Int /\ d = b - a
      BY <1>1, <2>1, <2>4
    <3>2. g[r + 1] = g[r] + a /\ h[r + 1] = h[r] + b /\ h[r] = g[r] /\ ~ (r + 1 < s)
      BY <1>4, <2>2, <2>3, <2>4
    <3>3. g[r + 1] \in Int /\ h[r + 1] = g[r + 1] + d
      <4> HIDE DEF a, b, d
      <4> QED
        BY <2>3, <3>1, <3>2
    <3> QED
      BY <2>1, <3>2, <3>3
  <2>5. CASE r + 1 # s
    <3>1. y[r + 1].capacity = x[r + 1].capacity
      BY <2>1, <2>5
    <3>2. r < s <=> r + 1 < s
      BY <1>4, <2>5
    <3> QED
      BY <1>1, <1>4, <2>1, <2>2, <2>3, <3>1, <3>2
  <2> QED
    BY <2>4, <2>5
<1>7. N \in G
  <2>1. N \in 0 .. N
    BY <1>1
  <2> HIDE DEF G
  <2> QED
    BY <1>1, <1>5, <1>6, <2>1, UpTo
<1>8. ~ (N < s)
  BY <1>4, <1>1
<1> QED
  BY <1>1, <1>2, <1>3, <1>4, <1>7, <1>8

\* Slots of the same size hold the same.
LEMMA HeldSame ==
    ASSUME NEW x \in [Slots -> Slot], NEW y \in [Slots -> Slot],
           \A r \in Slots : y[r].capacity = x[r].capacity
    PROVE  Held(y) = Held(x)
<1>1. 1 \in Slots
  BY Widths DEF Slots
<1>2. y[1] \in Slot /\ y[1].capacity = x[1].capacity /\ y[1].capacity \in Int
  BY <1>1 DEF Slot
<1>3. Held(x) \in Int /\ Held(y) = (Held(x) - x[1].capacity) + y[1].capacity
  BY <1>1, HeldChange
<1> QED
  BY <1>2, <1>3

\* A slot of those there are is always found.
LEMMA VictimIs == ASSUME NEW p \in Peer PROVE Victim(p) \in Slots
<1> DEFINE free == Slots \ ActiveSlots(p)
           starts == {p.reassembly[s].started : s \in Slots}
           oldest == Min(starts)
           eldest == {s \in Slots : p.reassembly[s].started = oldest}
<1>1. \A s \in Slots : p.reassembly[s].started \in Nat
  <2>1. \A s \in Slots : p.reassembly[s] \in Slot
    BY DEF Peer
  <2> QED
    BY <2>1 DEF Slot
<1>2. Slots \in SUBSET Nat /\ 1 \in Slots
  BY Widths DEF Slots
<1>3. \A S \in SUBSET Nat : S # {} => Min(S) \in S
  <2> TAKE S \in SUBSET Nat
  <2> HAVE S # {}
  <2>1. \E x \in S : \A y \in S : x <= y
    BY Least
  <2> QED
    BY <2>1 DEF Min
<1>4. oldest \in starts
  <2>1. starts \in SUBSET Nat /\ starts # {}
    BY <1>1, <1>2
  <2> HIDE DEF starts
  <2> QED
    BY <1>3, <2>1
<1>5. eldest # {} /\ eldest \in SUBSET Slots /\ free \in SUBSET Slots
  <2> HIDE DEF oldest
  <2> QED
    BY <1>4
<1>6. Victim(p) = IF free # {} THEN Min(free) ELSE Min(eldest)
  BY DEF Victim
<1> HIDE DEF free, eldest
<1> QED
  BY <1>2, <1>3, <1>5, <1>6

\* What no slot holds.
LEMMA HeldNothing == Held([s \in Slots |-> FreeSlot]) = 0
<1> DEFINE x == [s \in Slots |-> FreeSlot]
           N == MaxReassembly
<1>1. N \in Nat /\ Slots = 1 .. N /\ \A s \in Slots : x[s].capacity = 0
  BY Widths DEF Slots, FreeSlot
<1>2. PICK g : g[0] = 0 /\ (\A r \in 1 .. N : g[r] = g[r - 1] + x[r].capacity) /\ Held(x) = g[N]
  <2>1. \A s \in Slots : x[s].capacity \in Int
    BY <1>1
  <2> HIDE DEF x
  <2> QED
    BY <1>1, <2>1, HeldLoop
<1> DEFINE G == {r \in 0 .. N : g[r] = 0}
<1>3. 0 \in G
  BY <1>1, <1>2
<1>4. ASSUME NEW r \in 0 .. N - 1, r \in G PROVE r + 1 \in G
  <2>1. r + 1 \in 1 .. N /\ (r + 1) - 1 = r /\ r + 1 \in Slots
    BY <1>1
  <2>2. g[r + 1] = g[r] + x[r + 1].capacity /\ x[r + 1].capacity = 0 /\ g[r] = 0
    BY <1>1, <1>2, <1>4, <2>1
  <2> QED
    BY <2>1, <2>2
<1>5. N \in G
  <2>1. N \in 0 .. N
    BY <1>1
  <2> HIDE DEF G
  <2> QED
    BY <1>1, <1>3, <1>4, <2>1, UpTo
<1> QED
  BY <1>2, <1>5

\* What a slot makes when it is full.
LEMMA WholeType == ASSUME NEW v \in Slot PROVE Whole(v) \in Nat
<1> DEFINE from == {<<f.channel, f.n>> : f \in v.received}
<1>1. v.received \in SUBSET Frag
  BY DEF Slot
<1>2. from \in SUBSET (Channels \X Nat)
  BY <1>1 DEF Frag
<1>3. Whole(v) = IF Cardinality(from) = 1 THEN (CHOOSE m \in from : TRUE)[2] ELSE 0
  BY DEF Whole
<1> HIDE DEF from
<1>4. CASE Cardinality(from) = 1
  <2>1. from # {}
    BY <1>4, FS_EmptySet
  <2>2. (CHOOSE m \in from : TRUE) \in from
    BY <2>1
  <2> QED
    BY <1>2, <1>3, <1>4, <2>2
<1> QED
  BY <1>3, <1>4

-----------------------------------------------------------------------------
(***************************************************************************)
(* Packets are opened once, under their own counters, and the memory of    *)
(* the slots is accounted for.  No width matters to it.                    *)
(***************************************************************************)
Budget(p) == /\ p.reassembly_bytes = Held(p.reassembly) /\ p.reassembly_bytes <= MaxBytes
HeardOnce(p) ==
    /\ IsFiniteSet(p.opened)
    /\ p.occupied => /\ p.packets_received = Cardinality(p.opened)
                     /\ \A s \in p.opened : IsReplay(p, s)
EndInv(p) == p \in Peer /\ Budget(p) /\ HeardOnce(p)
OpenInv == conn \in [Ends -> Peer] /\ \A e \in Ends : EndInv(conn[e])

\* What a call that opens nothing may leave.
Stays(p) == {q \in Peer : /\ Budget(q) /\ q.opened = p.opened
                          /\ q.occupied => SameHearing(p, q)}

\* It leaves packets heard once.
LEMMA StaysHeard ==
    ASSUME NEW p, EndInv(p), NEW q \in Stays(p) PROVE EndInv(q)
<1>1. q \in Peer /\ Budget(q) /\ q.opened = p.opened /\ IsFiniteSet(q.opened)
  BY DEF Stays, EndInv, HeardOnce
<1>2. ASSUME q.occupied
      PROVE  q.packets_received = Cardinality(q.opened) /\ \A s \in q.opened : IsReplay(q, s)
  <2>1. SameHearing(p, q)
    BY <1>2 DEF Stays
  <2>2. /\ p.packets_received = Cardinality(p.opened)
        /\ \A s \in p.opened : IsReplay(p, s)
    BY <1>2, <2>1 DEF EndInv, HeardOnce, SameHearing
  <2>3. \A s : IsReplay(p, s) => IsReplay(q, s)
    BY <2>1 DEF IsReplay, SameHearing
  <2> QED
    BY <2>1, <2>2, <2>3 DEF SameHearing
<1> QED
  BY <1>1, <1>2 DEF EndInv, HeardOnce

\* Calls one after the other.
LEMMA StaysOn ==
    ASSUME NEW p, NEW q \in Stays(p)
    PROVE  /\ \A r \in Peer : SameHearing(q, r) /\ SameSlots(q, r) => r \in Stays(p)
           /\ \A r \in Stays(q) : r \in Stays(p)
           /\ \A reason \in Reasons : Removed(q, reason) \in Stays(p)
<1>1. ASSUME NEW r \in Peer, SameHearing(q, r), SameSlots(q, r) PROVE r \in Stays(p)
  <2>1. Budget(r) /\ r.opened = p.opened
    BY <1>1 DEF Stays, Budget, SameSlots, SameHearing
  <2>2. r.occupied => SameHearing(p, r)
    BY <1>1 DEF Stays, SameHearing
  <2> QED
    BY <2>1, <2>2 DEF Stays
<1>2. ASSUME NEW r \in Stays(q) PROVE r \in Stays(p)
  <2>1. r.occupied => SameHearing(p, r)
    BY <1>2 DEF Stays, SameHearing
  <2> QED
    BY <1>2, <2>1 DEF Stays
<1>3. ASSUME NEW reason \in Reasons PROVE Removed(q, reason) \in Stays(p)
  <2> DEFINE r == Removed(q, reason)
  <2>1. q \in Peer /\ q.opened = p.opened
    BY DEF Stays
  <2>2. /\ r \in Peer /\ r.occupied = FALSE /\ r.opened = q.opened
        /\ r.reassembly = [s \in Slots |-> FreeSlot] /\ r.reassembly_bytes = 0
    BY <2>1, RemovedIs
  <2>3. Budget(r)
    <3> HIDE DEF r
    <3> QED
      BY <2>2, HeldNothing, Widths DEF Budget
  <2> QED
    BY <2>1, <2>2, <2>3 DEF Stays
<1> QED
  BY <1>1, <1>2, <1>3

\* What is handed over.
LEMMA DrainStays ==
    ASSUME NEW p, NEW q \in Stays(p) PROVE DrainOrdered(q) \in Stays(p)
<1> DEFINE S == Stays(p)
           count == Len(q.incoming_reliable)
<1>1. count \in Nat
  <2>1. q.incoming_reliable \in Seq(Waiting)
    BY DEF Stays, Peer
  <2> QED
    BY <2>1
<1>2. ASSUME NEW r \in S PROVE DrainOne(r) \in S
  <2>1. r \in Peer
    BY DEF Stays
  <2>2. CASE DrainOne(r) = r
    BY <2>2
  <2>3. ASSUME NEW i \in NextHeld(r), DrainOne(r) = Handed(r, i) PROVE DrainOne(r) \in S
    <3>1. i \in 1 .. Len(r.incoming_reliable)
      BY DEF NextHeld
    <3>2. Handed(r, i) \in Peer /\ SameHearing(r, Handed(r, i)) /\ SameSlots(r, Handed(r, i))
      BY <2>1, <3>1, HandedIs
    <3> QED
      BY <2>3, <3>2, StaysOn
  <2> QED
    BY <2>1, <2>2, <2>3, DrainOneIs
<1> QED
  <2> HIDE DEF S
  <2>1. q \in S
    BY DEF S
  <2>2. DrainOrdered(q) \in S
    BY <1>1, <1>2, <2>1, DrainIn
  <2> QED
    BY <2>2 DEF S

\* A whole message taken.
LEMMA TakeMessageStays ==
    ASSUME NEW p, NEW q \in Stays(p), NEW c \in Channels, NEW id \in Ids, NEW n \in Nat
    PROVE  TakeMessage(q, c, id, n) \in Stays(p)
<1> DEFINE m == MarkSeen(q, c, id)
           w == [id |-> id, n |-> n]
<1>1. q \in Peer /\ w \in Waiting
  BY DEF Stays, Waiting
<1>2. m \in Peer /\ SameHearing(q, m) /\ SameSlots(q, m)
  BY <1>1, MarkSeenIs
<1>3. m \in Stays(p)
  <2> HIDE DEF m
  <2> QED
    BY <1>2, StaysOn
<1>4. TakeMessage(q, c, id, n) =
        IF IsSeen(q, c, id) THEN q
        ELSE IF c = "unreliable" THEN Deliver(m, c, n)
        ELSE IF Len(m.incoming_reliable) >= InFlight THEN Removed(m, "protocol")
        ELSE DrainOrdered(Waits(m, w))
  BY Zenon DEF TakeMessage, Waits
<1> HIDE DEF m, w
<1>5. Deliver(m, c, n) \in Stays(p)
  BY <1>2, <1>3, DeliverIs, StaysOn
<1>6. Removed(m, "protocol") \in Stays(p)
  BY <1>3, StaysOn DEF Reasons
<1>7. DrainOrdered(Waits(m, w)) \in Stays(p)
  <2>1. Waits(m, w) \in Stays(p)
    BY <1>1, <1>2, <1>3, WaitsIs, StaysOn
  <2> QED
    BY <2>1, DrainStays
<1> QED
  BY <1>4, <1>5, <1>6, <1>7

\* A slot claimed.
LEMMA ClaimIs ==
    ASSUME NEW p \in Peer, NEW s \in Slots, NEW f \in Frag
    PROVE  LET q == Claim(p, s, f) IN
           /\ q \in Peer /\ SameHearing(p, q) /\ SameSaying(p, q) /\ SameQueue(p, q)
           /\ SameSeen(p, q) /\ q.delivered = p.delivered
           /\ q.reassembly = [p.reassembly EXCEPT ![s] = StartedOn(p, s, f)]
           /\ q.reassembly_bytes = (p.reassembly_bytes - p.reassembly[s].capacity)
                                   + Larger(p.reassembly[s].capacity, f.total)
<1> DEFINE v == StartedOn(p, s, f)
           r == [p.reassembly EXCEPT ![s] = v]
           b == (p.reassembly_bytes - p.reassembly[s].capacity)
                + Larger(p.reassembly[s].capacity, f.total)
           q == [p EXCEPT !.reassembly_bytes = b, !.reassembly = r]
<1>1. v \in Slot /\ p.reassembly[s] \in Slot
  BY SlotTypes
<1>2. Claim(p, s, f) = q
  BY Zenon DEF Claim, StartedOn
<1>3. b \in Int
  <2>1. p.reassembly[s].capacity \in Nat /\ f.total \in Nat /\ p.reassembly_bytes \in Int
    <3>1. \A x \in Slot : x.capacity \in Nat
      BY DEF Slot
    <3>2. f.total \in Nat
      BY DEF Frag
    <3>3. p.reassembly_bytes \in Int
      BY DEF Peer
    <3> HIDE DEF v
    <3> QED
      BY <1>1, <3>1, <3>2, <3>3
  <2> QED
    BY <2>1 DEF Larger
<1> HIDE DEF v, b
<1>4. r \in [Slots -> Slot]
  BY <1>1 DEF Peer
<1> HIDE DEF r
<1>5. q \in Peer /\ q.reassembly = r /\ q.reassembly_bytes = b
  BY <1>3, <1>4 DEF Peer
<1>6. /\ SameHearing(p, q) /\ SameSaying(p, q) /\ SameQueue(p, q)
      /\ SameSeen(p, q) /\ q.delivered = p.delivered
  BY DEF Peer, SameHearing, SameSaying, SamePlan, SameQueue, SameSeen
<1> QED
  BY <1>2, <1>5, <1>6 DEF r, v, b

\* A fragment filed in a slot.
Filed(p, s, f) == SlotSet(p, s, With(p.reassembly[s], f))
Made(p, s, f) == TakeMessage(Filed(p, s, f), f.channel, f.id, Whole(With(p.reassembly[s], f)))
Freed(p, s) == SlotSet(p, s, Idle(p.reassembly[s]))

\* A fragment filed is refused, is kept, or completes its message.
LEMMA FileForms ==
    ASSUME NEW p \in Peer, NEW s \in Slots, NEW f \in Frag
    PROVE  /\ Filed(p, s, f) \in Peer
           /\ FileFragment(p, s, f) =
                IF \/ p.reassembly[s].total # f.total
                   \/ \E m \in p.reassembly[s].received : m.index = f.index
                THEN p
                ELSE IF Cardinality(With(p.reassembly[s], f).received) < p.reassembly[s].total
                     THEN Filed(p, s, f)
                ELSE IF ~Made(p, s, f).occupied THEN Made(p, s, f)
                ELSE Freed(Made(p, s, f), s)
<1> DEFINE v == With(p.reassembly[s], f)
           q == Filed(p, s, f)
           r == Made(p, s, f)
<1>1. v \in Slot /\ v.total = p.reassembly[s].total
  BY SlotTypes
<1>2. q \in Peer /\ q.reassembly = [p.reassembly EXCEPT ![s] = v]
  BY <1>1, SlotSetIs DEF Filed
<1>3. q.reassembly[s] = v
  <2>1. p.reassembly \in [Slots -> Slot]
    BY DEF Peer
  <2> QED
    BY <1>2, <2>1
<1> DEFINE x == [p EXCEPT !.reassembly[s].received = @ \union {f}]
<1>4. q = x
  BY Zenon DEF Filed, SlotSet, With
<1>5. FileFragment(p, s, f) =
        IF \/ x.reassembly[s].total # f.total
           \/ \E m \in p.reassembly[s].received : m.index = f.index
        THEN p
        ELSE IF Cardinality(x.reassembly[s].received) < x.reassembly[s].total THEN x
        ELSE IF ~TakeMessage(x, f.channel, f.id, Whole(x.reassembly[s])).occupied
             THEN TakeMessage(x, f.channel, f.id, Whole(x.reassembly[s]))
        ELSE Freed(TakeMessage(x, f.channel, f.id, Whole(x.reassembly[s])), s)
  BY Zenon DEF FileFragment, Freed, SlotSet
<1> HIDE DEF x, q, v
<1> QED
  BY <1>1, <1>2, <1>3, <1>4, <1>5 DEF Made, q, v

\* What fragments leave.
LEMMA SlotStays ==
    ASSUME NEW p, NEW q \in Stays(p), NEW s \in Slots, NEW v \in Slot,
           v.capacity = q.reassembly[s].capacity
    PROVE  SlotSet(q, s, v) \in Stays(p)
<1> DEFINE r == SlotSet(q, s, v)
<1>1. q \in Peer /\ Budget(q)
  BY DEF Stays
<1>2. /\ r \in Peer /\ SameHearing(q, r) /\ r.reassembly_bytes = q.reassembly_bytes
      /\ r.reassembly = [q.reassembly EXCEPT ![s] = v]
  BY <1>1, SlotSetIs
<1> HIDE DEF r
<1>3. q.reassembly \in [Slots -> Slot] /\ r.reassembly \in [Slots -> Slot]
  BY <1>1, <1>2 DEF Peer
<1>4. \A t \in Slots : r.reassembly[t].capacity = q.reassembly[t].capacity
  BY <1>2, <1>3
<1>5. Held(r.reassembly) = Held(q.reassembly)
  BY <1>3, <1>4, HeldSame
<1>6. Budget(r)
  BY <1>1, <1>2, <1>5 DEF Budget
<1>7. r.opened = p.opened /\ (r.occupied => SameHearing(p, r))
  BY <1>2 DEF Stays, SameHearing
<1> QED
  BY <1>2, <1>6, <1>7 DEF Stays, r

\* Filing a fragment keeps what the receiver keeps.
LEMMA FileStays ==
    ASSUME NEW p, NEW q \in Stays(p), NEW s \in Slots, NEW f \in Frag
    PROVE  FileFragment(q, s, f) \in Stays(p)
<1>1. q \in Peer
  BY DEF Stays
<1>2. /\ With(q.reassembly[s], f) \in Slot
      /\ With(q.reassembly[s], f).capacity = q.reassembly[s].capacity
  BY <1>1, SlotTypes
<1>3. Filed(q, s, f) \in Stays(p)
  BY <1>2, SlotStays DEF Filed
<1> DEFINE r == Made(q, s, f)
<1>4. r \in Stays(p)
  <2>1. f.channel \in Channels /\ f.id \in Ids /\ Whole(With(q.reassembly[s], f)) \in Nat
    BY <1>2, WholeType DEF Frag
  <2> QED
    BY <1>3, <2>1, TakeMessageStays DEF Made
<1> HIDE DEF r
<1>5. Freed(r, s) \in Stays(p)
  <2>1. r.reassembly[s] \in Slot
    BY <1>4 DEF Stays, Peer
  <2>2. Idle(r.reassembly[s]) \in Slot /\ Idle(r.reassembly[s]).capacity = r.reassembly[s].capacity
    BY <2>1, IdleIs
  <2> QED
    BY <1>4, <2>2, SlotStays DEF Freed
<1> QED
  BY <1>1, <1>3, <1>4, <1>5, FileForms DEF r

\* So does claiming a slot the budget has room for.
LEMMA ClaimStays ==
    ASSUME NEW p, NEW q \in Stays(p), NEW s \in Slots, NEW f \in Frag, Fits(q, s, f.total)
    PROVE  Claim(q, s, f) \in Stays(p)
<1> DEFINE r == Claim(q, s, f)
           v == StartedOn(q, s, f)
<1>1. q \in Peer /\ Budget(q)
  BY DEF Stays
<1>2. /\ r \in Peer /\ SameHearing(q, r)
      /\ r.reassembly_bytes = (q.reassembly_bytes - q.reassembly[s].capacity)
                              + Larger(q.reassembly[s].capacity, f.total)
      /\ r.reassembly = [q.reassembly EXCEPT ![s] = v]
  BY <1>1, ClaimIs
<1>3. v \in Slot /\ v.capacity = Larger(q.reassembly[s].capacity, f.total)
  BY <1>1, SlotTypes DEF StartedOn
<1> HIDE DEF r, v
<1>4. q.reassembly \in [Slots -> Slot] /\ r.reassembly \in [Slots -> Slot]
  BY <1>1, <1>2 DEF Peer
<1>5. /\ \A t \in Slots : t # s => r.reassembly[t].capacity = q.reassembly[t].capacity
      /\ r.reassembly[s] = v
  BY <1>2, <1>4
<1>6. /\ Held(q.reassembly) \in Int
      /\ Held(r.reassembly) = (Held(q.reassembly) - q.reassembly[s].capacity) + v.capacity
  BY <1>4, <1>5, HeldChange
<1>7. r.reassembly_bytes = Held(r.reassembly)
  BY <1>1, <1>2, <1>3, <1>6 DEF Budget
<1>8. r.reassembly_bytes <= MaxBytes
  <2> DEFINE b == q.reassembly_bytes
             c == q.reassembly[s].capacity
  <2>1. b \in Int /\ b <= MaxBytes /\ c \in Nat /\ f.total \in Nat /\ MaxBytes \in Nat
    <3>1. q.reassembly[s] \in Slot
      BY <1>4
    <3> QED
      BY <1>1, <3>1, Widths, SMTT(60) DEF Budget, Peer, Slot, Frag
  <2>2. f.total <= c \/ b - c + f.total <= MaxBytes
    BY DEF Fits
  <2>3. r.reassembly_bytes = (b - c) + Larger(c, f.total)
    BY <1>2
  <2> HIDE DEF b, c
  <2> QED
    BY <2>1, <2>2, <2>3 DEF Larger
<1>9. r.opened = p.opened /\ (r.occupied => SameHearing(p, r))
  BY <1>2 DEF Stays, SameHearing
<1> QED
  BY <1>2, <1>7, <1>8, <1>9 DEF Stays, Budget, r

\* So does taking a fragment, whichever slot it finds.
LEMMA TakeFragmentStays ==
    ASSUME NEW p, NEW q \in Stays(p), NEW f \in Frag
    PROVE  TakeFragment(q, f) \in Stays(p)
<1>1. q \in Peer /\ f.channel \in Channels /\ f.id \in Ids /\ f.n \in Nat
  BY DEF Stays, Frag
<1>2. TakeMessage(q, f.channel, f.id, f.n) \in Stays(p)
  BY <1>1, TakeMessageStays
<1>3. Reassemble(q, f) \in Stays(p)
  <2> DEFINE match == Matching(q, f)
             s == CHOOSE s \in match : TRUE
             v == Victim(q)
  <2>1. v \in Slots
    BY <1>1, VictimIs
  <2>2. match # {} => s \in Slots
    BY DEF Matching, ActiveSlots
  <2>3. Reassemble(q, f) = IF match # {} THEN FileFragment(q, s, f)
                           ELSE IF \/ IsSeen(q, f.channel, f.id)
                                   \/ f.channel = "reliable" /\ ~Acceptable(q, f.id)
                                   \/ ~Fits(q, v, f.total)
                           THEN q ELSE FileFragment(Claim(q, v, f), v, f)
    BY Zenon DEF Reassemble
  <2> HIDE DEF match, s, v
  <2>4. CASE match # {}
    BY <2>2, <2>3, <2>4, FileStays
  <2>5. CASE match = {} /\ Fits(q, v, f.total)
    <3>1. Claim(q, v, f) \in Stays(p)
      BY <2>1, <2>5, ClaimStays
    <3>2. FileFragment(Claim(q, v, f), v, f) \in Stays(p)
      BY <2>1, <3>1, FileStays
    <3> QED
      BY <2>3, <2>5, <3>2
  <2> QED
    BY <2>3, <2>4, <2>5
<1> QED
  BY <1>2, <1>3 DEF TakeFragment

\* A packet that is recorded is one not heard before, and is heard from then on.
LEMMA OpenedOnce ==
    ASSUME NEW p, EndInv(p), p.occupied, NEW packet \in Packet, ~IsReplay(p, packet.seq)
    PROVE  EndInv(Opened(p, packet))
<1> DEFINE q == Opened(p, packet)
           r == RecordAck(p, packet.seq)
           n == packet.seq
<1>1. p \in Peer /\ Budget(p) /\ n \in Nat \ {0}
  BY DEF EndInv, Packet
<1>2. /\ q \in Peer /\ q.occupied = p.occupied
      /\ q.remote_sequence = r.remote_sequence /\ q.ack_bits = r.ack_bits
      /\ q.packets_received = p.packets_received + 1
      /\ q.opened = p.opened \union {n}
      /\ SameTaking(p, q)
  BY <1>1, OpenedIs
<1>3. /\ IsFiniteSet(p.opened) /\ p.packets_received = Cardinality(p.opened)
      /\ \A s \in p.opened : s \in Nat /\ IsReplay(p, s)
  BY <1>1 DEF EndInv, HeardOnce, Peer
<1>4. n \notin p.opened
  BY <1>3
<1>5. /\ p.remote_sequence \in Nat /\ p.ack_bits \subseteq 1 .. AckWindow
      /\ AckWindow \in Nat
  BY <1>1, Widths DEF Peer
<1>6. \A s \in Nat : IsReplay(p, s) \/ s = n => IsReplay(r, s)
  <2> TAKE s \in Nat
  <2> HAVE IsReplay(p, s) \/ s = n
  <2>1. CASE n > p.remote_sequence
    <3> DEFINE shift == n - p.remote_sequence
               moved == {b + shift : b \in p.ack_bits} \union {shift}
               bits == IF p.remote_sequence = 0 THEN {} ELSE moved \intersect 1 .. AckWindow
    <3>1. r.remote_sequence = n /\ r.ack_bits = bits
      BY <1>1, <2>1 DEF RecordAck, Peer
    <3> HIDE DEF r
    <3>2. CASE s = n \/ s = 0
      BY <1>1, <3>1, <3>2 DEF IsReplay
    <3>3. CASE s # n /\ s # 0
      <4> DEFINE back == p.remote_sequence - s
      <4>1. s <= p.remote_sequence /\ p.remote_sequence # 0
            /\ (back = 0 \/ back > AckWindow \/ back \in p.ack_bits)
        BY <1>5, <3>3 DEF IsReplay
      <4>2. n - s = back + shift /\ back \in Nat /\ shift \in Nat \ {0} /\ s <= n
        BY <1>1, <1>5, <2>1, <4>1
      <4>3. back = 0 \/ back \in p.ack_bits => n - s \in moved
        BY <4>2
      <4> HIDE DEF moved, shift, back
      <4>4. n - s > AckWindow \/ n - s \in r.ack_bits
        BY <1>5, <3>1, <4>1, <4>2, <4>3
      <4> QED
        BY <3>1, <4>2, <4>4 DEF IsReplay
    <3> QED
      BY <3>2, <3>3
  <2>2. CASE ~ (n > p.remote_sequence)
    <3>1. /\ r.remote_sequence = p.remote_sequence
          /\ r.ack_bits = p.ack_bits \union ({p.remote_sequence - n} \intersect 1 .. AckWindow)
      BY <1>1, <2>2 DEF RecordAck, Peer
    <3> HIDE DEF r
    <3>2. CASE s = n
      <4>1. p.remote_sequence - n \in 1 .. AckWindow
        BY <1>1, <1>5, <2>2 DEF IsReplay
      <4> QED
        BY <1>1, <1>5, <2>2, <3>1, <3>2, <4>1 DEF IsReplay
    <3>3. CASE s # n
      BY <3>1, <3>3 DEF IsReplay
    <3> QED
      BY <3>2, <3>3
  <2> QED
    BY <2>1, <2>2
<1>7. \A s : IsReplay(r, s) <=> IsReplay(q, s)
  BY <1>2 DEF IsReplay
<1> HIDE DEF q, r, n
<1>8. IsFiniteSet(q.opened) /\ Cardinality(q.opened) = Cardinality(p.opened) + 1
  BY <1>2, <1>3, <1>4, FS_AddElement, SMTT(60)
<1>9. \A s \in q.opened : IsReplay(q, s)
  BY <1>1, <1>2, <1>3, <1>6, <1>7
<1>10. Budget(q)
  BY <1>1, <1>2 DEF Budget, SameTaking
<1> QED
  BY <1>2, <1>3, <1>8, <1>9, <1>10 DEF EndInv, HeardOnce, q

\* What a packet comes to.
LEMMA HandleForms ==
    ASSUME NEW p \in Peer, NEW packet \in Packet
    PROVE  /\ ~Admits(p, packet) => HandlePacket(p, packet) = p
           /\ Admits(p, packet) => ~IsReplay(p, packet.seq)
           /\ Admits(p, packet) /\ packet.kind = "disconnect" =>
                  HandlePacket(p, packet) = Removed(Acted(p, packet), "requested")
<1>1. ~Admits(p, packet) => HandlePacket(p, packet) = p
  BY Zenon DEF HandlePacket, Admits
<1>2. Admits(p, packet) => /\ Expand(p.remote_sequence, packet.seq % SeqSpace) = packet.seq
                           /\ ~IsReplay(p, packet.seq)
  BY DEF Admits
<1>3. ASSUME Admits(p, packet), packet.kind = "disconnect"
      PROVE  HandlePacket(p, packet) = Removed(Acted(p, packet), "requested")
  <2> DEFINE seq == Expand(p.remote_sequence, packet.seq % SeqSpace)
  <2>1. seq = packet.seq /\ ~IsReplay(p, seq)
    BY <1>3 DEF Admits
  <2>2. HandlePacket(p, packet) =
          Removed(RetireReliable([RecordAck(p, seq) EXCEPT !.packets_received = @ + 1,
                                        !.opened = @ \union {packet.seq}],
                                 packet.reliable_ack), "requested")
    BY <1>3, <2>1, Zenon DEF HandlePacket
  <2> HIDE DEF seq
  <2> QED
    BY <2>1, <2>2 DEF Acted, Opened
<1> QED
  BY <1>1, <1>2, <1>3

\* A packet handled leaves packets opened once.
LEMMA HandleOpens ==
    ASSUME NEW p, EndInv(p), p.occupied, NEW packet \in Packet
    PROVE  EndInv(HandlePacket(p, packet))
<1>1. p \in Peer
  BY DEF EndInv
<1>2. CASE ~Admits(p, packet)
  BY <1>1, <1>2, HandleForms
<1>3. CASE Admits(p, packet)
  <2> DEFINE q == Opened(p, packet)
             a == Acted(p, packet)
  <2>1. EndInv(q)
    BY <1>1, <1>3, HandleForms, OpenedOnce
  <2>2. a \in Stays(q)
    <3> HIDE DEF q
    <3>1. a \in Peer /\ SameHearing(q, a) /\ SameTaking(q, a)
      BY <2>1, RetireOnly DEF Acted, q, EndInv
    <3> QED
      BY <2>1, <3>1 DEF Stays, EndInv, Budget, SameTaking, SameHearing
  <2>3. CASE packet.kind = "disconnect"
    <3>1. Removed(a, "requested") \in Stays(q)
      <4> HIDE DEF a, q
      <4> QED
        BY <2>2, StaysOn DEF Reasons
    <3> QED
      BY <1>1, <1>3, <2>1, <2>3, <3>1, HandleForms, StaysHeard
  <2>4. CASE packet.kind # "disconnect"
    <3> DEFINE S == Stays(q)
               count == Len(packet.fragments)
    <3>1. packet.fragments \in Seq(Frag) /\ count \in Nat
      BY DEF Packet
    <3>2. ASSUME NEW i \in 1 .. count, NEW r \in S
          PROVE  TakeFragment(r, packet.fragments[i]) \in S
      <4>1. packet.fragments[i] \in Frag
        BY <3>1
      <4> QED
        BY <4>1, TakeFragmentStays
    <3>3. HandlePacket(p, packet) \in S
      <4> HIDE DEF S
      <4>1. Acted(p, packet) \in S
        BY <2>2 DEF S
      <4> QED
        BY <1>3, <2>4, <3>1, <3>2, <4>1, HandleIn
    <3> QED
      BY <2>1, <3>3, StaysHeard
  <2> QED
    BY <2>3, <2>4
<1> QED
  BY <1>2, <1>3

\* The two ends.
LEMMA TwoEnds ==
    ASSUME NEW e \in Ends
    PROVE  /\ Other(e) \in Ends /\ Other(e) # e /\ Other(Other(e)) = e
           /\ \A d \in Ends : d = e \/ d = Other(e)
<1>1. PICK a \in Ends, b \in Ends : a # b /\ Ends = {a, b}
  BY WindowAssumption
<1>2. ASSUME NEW x \in Ends, NEW y \in Ends, x # y PROVE Other(x) = y
  <2>1. \A o \in Ends : o # x <=> o = y
    BY <1>1, <1>2
  <2> QED
    BY <1>2, <2>1 DEF Other
<1>3. PICK d \in Ends : d # e
  BY <1>1
<1>4. Other(e) = d /\ Other(d) = e
  BY <1>2, <1>3
<1> QED
  BY <1>1, <1>3, <1>4

\* The partial messages that waited too long let go.
Expire(p, expired) == [p EXCEPT !.reassembly =
                          [s \in Slots |-> IF s \in expired THEN Idle(@[s]) ELSE @[s]]]

\* Letting go changes the slots alone.
LEMMA ExpireIs ==
    ASSUME NEW p \in Peer, NEW expired
    PROVE  LET q == Expire(p, expired) IN
           /\ q \in Peer /\ SameHearing(p, q) /\ SameSaying(p, q) /\ SameQueue(p, q)
           /\ SameSeen(p, q) /\ q.delivered = p.delivered
           /\ q.reassembly_bytes = p.reassembly_bytes
           /\ \A s \in Slots : /\ q.reassembly[s] \in {p.reassembly[s], Idle(p.reassembly[s])}
                               /\ q.reassembly[s].capacity = p.reassembly[s].capacity
<1> DEFINE r == [s \in Slots |-> IF s \in expired THEN Idle(p.reassembly[s]) ELSE p.reassembly[s]]
           q == [p EXCEPT !.reassembly = r]
<1>1. \A s \in Slots : /\ p.reassembly[s] \in Slot /\ Idle(p.reassembly[s]) \in Slot
                       /\ Idle(p.reassembly[s]).capacity = p.reassembly[s].capacity
  <2> TAKE s \in Slots
  <2>1. p.reassembly[s] \in Slot
    BY DEF Peer
  <2> QED
    BY <2>1, IdleIs
<1>2. r \in [Slots -> Slot]
  BY <1>1
<1>3. \A s \in Slots : /\ r[s] \in {p.reassembly[s], Idle(p.reassembly[s])}
                       /\ r[s].capacity = p.reassembly[s].capacity
  BY <1>1
<1>4. Expire(p, expired) = q
  BY Zenon DEF Expire
<1> HIDE DEF r
<1>5. q \in Peer /\ q.reassembly = r
  BY <1>2 DEF Peer
<1>6. /\ SameHearing(p, q) /\ SameSaying(p, q) /\ SameQueue(p, q)
      /\ SameSeen(p, q) /\ q.delivered = p.delivered
      /\ q.reassembly_bytes = p.reassembly_bytes
  BY DEF Peer, SameHearing, SameSaying, SamePlan, SameQueue, SameSeen
<1> QED
  BY <1>3, <1>4, <1>5, <1>6

\* What an update leaves.
Updated(p, expired, due, alone) ==
    LET q == FlushPeer(Resend(Expire(p, expired), due)) IN
    IF alone THEN SendPacket(q, "data", <<>>) ELSE q

\* No call but one that receives opens a packet.
LEMMA SendsStay ==
    ASSUME NEW p, NEW q \in Stays(p)
    PROVE  /\ \A r \in SendsFrom(q) : r \in Stays(p)
           /\ \A kind \in {"data", "disconnect"} : SendPacket(q, kind, <<>>) \in Stays(p)
<1>1. q \in Peer
  BY DEF Stays
<1>2. \A r \in Peer : SameTaking(q, r) => SameSlots(q, r)
  BY DEF SameTaking, SameSlots
<1>3. ASSUME NEW r \in SendsFrom(q) PROVE r \in Stays(p)
  <2>1. r \in Peer /\ SameHearing(q, r) /\ SameTaking(q, r)
    BY DEF SendsFrom
  <2> QED
    BY <1>2, <2>1, StaysOn
<1>4. ASSUME NEW kind \in {"data", "disconnect"} PROVE SendPacket(q, kind, <<>>) \in Stays(p)
  <2> DEFINE r == SendPacket(q, kind, <<>>)
             none == <<>>
  <2>1. none \in Seq(Frag)
    OBVIOUS
  <2> HIDE DEF none
  <2>2. /\ SendPacket(q, kind, none) \in Peer /\ SameHearing(q, SendPacket(q, kind, none))
        /\ SameTaking(q, SendPacket(q, kind, none))
    BY <1>1, <2>1, SendPacketIs
  <2>3. SendPacket(q, kind, none) \in Stays(p)
    BY <1>2, <2>2, StaysOn
  <2> QED
    BY <2>3 DEF none
<1> QED
  BY <1>3, <1>4

\* Sending keeps what the receiver keeps.
LEMMA SendingStays ==
    ASSUME NEW p, EndInv(p), NEW c \in Channels, NEW due, p.todo[c] # <<>>
    PROVE  Sending(p, c, due) \in Stays(p)
<1> DEFINE d == Drawn(p, c)
<1>1. p \in Peer /\ p \in Stays(p)
  BY DEF EndInv, Stays, SameHearing
<1>2. \A q \in Peer : SameHearing(p, q) /\ SameTaking(p, q) => q \in Stays(p)
  BY <1>1, StaysOn DEF SameTaking, SameSlots
<1>3. d \in Peer /\ d \in Stays(p)
  BY <1>1, <1>2, DrawnIs
<1>4. CASE /\ c = "unreliable"
           /\ Sending(p, c, due) = Counted(Unqueued(p), p.sent["unreliable"] + 1)
           /\ Unqueued(p) \in SendsFrom(d)
  <2> DEFINE u == Unqueued(p)
             n == p.sent["unreliable"] + 1
  <2>1. u \in Stays(p) /\ u \in Peer
    BY <1>3, <1>4, SendsStay DEF SendsFrom
  <2>2. n \in Nat
    BY <1>1 DEF Peer, Channels
  <2> HIDE DEF u, n
  <2>3. /\ Counted(u, n) \in Peer /\ SameHearing(u, Counted(u, n))
        /\ SameTaking(u, Counted(u, n))
    BY <2>1, <2>2, CountedIs
  <2>4. Counted(u, n) \in Stays(p)
    BY <2>1, <2>3, StaysOn DEF SameTaking, SameSlots
  <2> QED
    BY <1>4, <2>4 DEF u, n
<1>5. CASE c = "reliable" /\ Sending(p, c, due) = Resend(Queued(p), due)
  <2>1. Queued(p) \in Peer /\ SameHearing(p, Queued(p)) /\ SameTaking(p, Queued(p))
    BY <1>1, <1>5, QueuedIs
  <2>2. Queued(p) \in Stays(p)
    BY <1>2, <2>1
  <2>3. Resend(Queued(p), due) \in SendsFrom(Queued(p))
    BY <2>1, ResendOnly
  <2> QED
    BY <1>5, <2>2, <2>3, SendsStay
<1>6. CASE c = "reliable" /\ Sending(p, c, due) = Removed(d, "timeout")
  <2> HIDE DEF d
  <2> QED
    BY <1>3, <1>6, StaysOn DEF Reasons
<1> QED
  BY <1>1, <1>4, <1>5, <1>6, SendingIs

\* So does the update of a peer.
LEMMA UpdateStays ==
    ASSUME NEW p, EndInv(p), NEW expired, NEW due, NEW alone \in BOOLEAN
    PROVE  Updated(p, expired, due, alone) \in Stays(p)
<1> DEFINE x == Expire(p, expired)
           r == Resend(x, due)
           q == FlushPeer(r)
<1>1. p \in Peer /\ Budget(p)
  BY DEF EndInv
<1>2. x \in Stays(p)
  <2>1. /\ x \in Peer /\ SameHearing(p, x) /\ x.reassembly_bytes = p.reassembly_bytes
        /\ \A s \in Slots : x.reassembly[s].capacity = p.reassembly[s].capacity
    BY <1>1, ExpireIs
  <2> HIDE DEF x
  <2>2. x.reassembly \in [Slots -> Slot] /\ p.reassembly \in [Slots -> Slot]
    BY <1>1, <2>1 DEF Peer
  <2>3. Held(x.reassembly) = Held(p.reassembly)
    BY <2>1, <2>2, HeldSame
  <2>4. Budget(x)
    BY <1>1, <2>1, <2>3 DEF Budget
  <2> QED
    BY <2>1, <2>4 DEF Stays, SameHearing
<1>3. x \in Peer
  BY <1>2 DEF Stays
<1> HIDE DEF x
<1>4. r \in SendsFrom(x)
  BY <1>3, ResendOnly
<1>5. r \in Stays(p) /\ r \in Peer
  BY <1>2, <1>4, SendsStay DEF SendsFrom
<1> HIDE DEF r
<1>6. q \in Stays(p)
  <2>1. /\ q \in Peer /\ SameHearing(r, q) /\ SameTaking(r, q)
    BY <1>5, FlushIs
  <2> HIDE DEF q
  <2> QED
    BY <1>5, <2>1, StaysOn DEF SameTaking, SameSlots
<1> HIDE DEF q
<1>7. SendPacket(q, "data", <<>>) \in Stays(p)
  BY <1>6, SendsStay
<1> QED
  BY <1>6, <1>7 DEF Updated, q, r, x

\* What a call makes of a connection.
Called(e, q) ==
    LET p == conn[e] IN
    /\ p.occupied
    /\ \/ \E c \in Channels : \E due : p.todo[c] # <<>> /\ q = Sending(p, c, due)
       \/ q = FlushPeer(p)
       \/ \E packet \in conn[Other(e)].wire : q = HandlePacket(p, packet)
       \/ \E expired, due : \E alone \in BOOLEAN : q = Updated(p, expired, due, alone)
       \/ q = Removed(p, "timeout")
       \/ q = Removed(SendPacket(FlushPeer(p), "disconnect", <<>>), "caller")

\* A step is one of these calls, by one end.
LEMMA StepIs ==
    ASSUME NetNext
    PROVE  \E e \in Ends : \E q : conn' = [conn EXCEPT ![e] = q] /\ Called(e, q)
<1>1. PICK e \in Ends : \/ \E c \in Channels : Send(e, c)
                        \/ Flush(e) \/ Receive(e) \/ Update(e) \/ TimeOut(e) \/ Disconnect(e)
  BY DEF NetNext
<1> DEFINE Goal == \E q : conn' = [conn EXCEPT ![e] = q] /\ Called(e, q)
<1> SUFFICES Goal
  OBVIOUS
<1>2. ASSUME NEW q, conn' = [conn EXCEPT ![e] = q], Called(e, q) PROVE Goal
  BY <1>2
<1> HIDE DEF Goal
<1>3. ASSUME NEW c \in Channels, Send(e, c) PROVE Goal
  <2>1. PICK due : /\ conn[e].occupied /\ conn[e].todo[c] # <<>>
                   /\ Becomes(e, Sending(conn[e], c, due))
    BY <1>3 DEF Send
  <2> DEFINE q == Sending(conn[e], c, due)
  <2>2. Called(e, q)
    BY <2>1 DEF Called
  <2> QED
    BY <1>2, <2>1, <2>2 DEF Becomes
<1>4. ASSUME Flush(e) PROVE Goal
  <2>1. conn[e].occupied /\ Becomes(e, FlushPeer(conn[e]))
    BY <1>4 DEF Flush
  <2>2. Called(e, FlushPeer(conn[e]))
    BY <2>1 DEF Called
  <2> QED
    BY <1>2, <2>1, <2>2 DEF Becomes
<1>5. ASSUME Receive(e) PROVE Goal
  <2>1. PICK packet \in conn[Other(e)].wire :
            conn[e].occupied /\ Becomes(e, HandlePacket(conn[e], packet))
    BY <1>5 DEF Receive
  <2>2. Called(e, HandlePacket(conn[e], packet))
    BY <2>1 DEF Called
  <2> QED
    BY <1>2, <2>1, <2>2 DEF Becomes
<1>6. ASSUME Update(e) PROVE Goal
  <2> DEFINE Now(x, d) == FlushPeer(Resend(Expire(conn[e], x), d))
  <2>0. PICK expired \in SUBSET ActiveSlots(conn[e]), due \in SUBSET Sent(conn[e]),
             alone \in BOOLEAN :
            /\ alone => Now(expired, due).wire = Expire(conn[e], expired).wire
            /\ Becomes(e, IF alone THEN SendPacket(Now(expired, due), "data", <<>>)
                          ELSE Now(expired, due))
    BY <1>6, Zenon DEF Update, Expire
  <2>1. conn[e].occupied /\ Becomes(e, Updated(conn[e], expired, due, alone))
    BY <1>6, <2>0, Zenon DEF Update, Updated
  <2>2. Called(e, Updated(conn[e], expired, due, alone))
    BY <2>1 DEF Called
  <2> QED
    BY <1>2, <2>1, <2>2 DEF Becomes
<1>7. ASSUME TimeOut(e) PROVE Goal
  <2>1. conn[e].occupied /\ Becomes(e, Removed(conn[e], "timeout"))
    BY <1>7 DEF TimeOut
  <2>2. Called(e, Removed(conn[e], "timeout"))
    BY <2>1 DEF Called
  <2> QED
    BY <1>2, <2>1, <2>2 DEF Becomes
<1>8. ASSUME Disconnect(e) PROVE Goal
  <2> DEFINE q == Removed(SendPacket(FlushPeer(conn[e]), "disconnect", <<>>), "caller")
  <2>1. conn[e].occupied /\ Becomes(e, q)
    BY <1>8 DEF Disconnect
  <2>2. Called(e, q)
    BY <2>1 DEF Called
  <2> QED
    BY <1>2, <2>1, <2>2 DEF Becomes
<1> QED
  BY <1>1, <1>3, <1>4, <1>5, <1>6, <1>7, <1>8

\* A call keeps packets opened once.
LEMMA CallOpens ==
    ASSUME OpenInv, NEW e \in Ends, NEW q, Called(e, q) PROVE EndInv(q)
<1> DEFINE p == conn[e]
<1>1. EndInv(p) /\ p.occupied /\ p \in Stays(p)
  BY DEF OpenInv, Called, EndInv, Stays, SameHearing
<1>2. p \in Peer
  BY <1>1 DEF EndInv
<1>3. \A packet \in conn[Other(e)].wire : packet \in Packet
  BY TwoEnds DEF OpenInv, Peer
<1>4. FlushPeer(p) \in Stays(p)
  <2>1. FlushPeer(p) \in Peer /\ SameHearing(p, FlushPeer(p)) /\ SameTaking(p, FlushPeer(p))
    BY <1>2, FlushIs
  <2> QED
    BY <1>1, <2>1, StaysOn DEF SameTaking, SameSlots
<1>5. CASE \E c \in Channels : \E due : p.todo[c] # <<>> /\ q = Sending(p, c, due)
  BY <1>1, <1>5, SendingStays, StaysHeard
<1>6. CASE q = FlushPeer(p)
  BY <1>1, <1>4, <1>6, StaysHeard
<1>7. CASE \E packet \in conn[Other(e)].wire : q = HandlePacket(p, packet)
  BY <1>1, <1>3, <1>7, HandleOpens
<1>8. CASE \E expired, due : \E alone \in BOOLEAN : q = Updated(p, expired, due, alone)
  BY <1>1, <1>8, UpdateStays, StaysHeard
<1>9. CASE q = Removed(p, "timeout")
  <2>1. q \in Stays(p)
    BY <1>1, <1>9, StaysOn DEF Reasons
  <2> QED
    BY <1>1, <2>1, StaysHeard
<1>10. CASE q = Removed(SendPacket(FlushPeer(p), "disconnect", <<>>), "caller")
  <2>1. SendPacket(FlushPeer(p), "disconnect", <<>>) \in Stays(p)
    BY <1>4, SendsStay
  <2>2. q \in Stays(p)
    BY <1>10, <2>1, StaysOn DEF Reasons
  <2> QED
    BY <1>1, <2>2, StaysHeard
<1> QED
  <2>1. Called(e, q)
    OBVIOUS
  <2> QED
    BY <1>5, <1>6, <1>7, <1>8, <1>9, <1>10, <2>1 DEF Called

\* A connection begins with nothing opened.
LEMMA StartIs ==
    ASSUME NEW start \in Starts, NEW e \in Ends
    PROVE  /\ start.carried \in Nat /\ start.plan[e] \in Plans
           /\ start.carried = 0 \/ start.carried >= SeenWindow
           /\ Fresh(Established(start.carried, start.plan[e]), start.plan[e])
           /\ Carries(Established(start.carried, start.plan[e]), start.carried)
<1>1. start \in [carried : Nat, plan : [Ends -> Plans]]
      /\ (start.carried = 0 \/ start.carried >= SeenWindow)
  BY WindowAssumption DEF Plans
<1>2. start.carried \in Nat /\ start.plan[e] \in Plans
  BY <1>1
<1> QED
  BY <1>1, <1>2, EstablishedIs

\* Packets are opened once, and memory is accounted for, at first.
LEMMA OpenInit == NetInit => OpenInv
<1> SUFFICES ASSUME NetInit PROVE OpenInv
  OBVIOUS
<1>1. PICK start \in Starts : conn = [e \in Ends |-> Established(start.carried, start.plan[e])]
  BY DEF NetInit
<1>2. ASSUME NEW e \in Ends PROVE EndInv(conn[e])
  <2>1. Fresh(conn[e], start.plan[e])
    BY <1>1, StartIs
  <2>2. Budget(conn[e])
    BY <2>1, HeldNothing, Widths DEF Fresh, Budget
  <2>3. HeardOnce(conn[e])
    BY <2>1, FS_EmptySet DEF Fresh, HeardOnce
  <2> QED
    BY <2>1, <2>2, <2>3 DEF EndInv, Fresh
<1>3. \A e \in Ends : conn[e] \in Peer
  BY <1>2 DEF EndInv
<1>4. conn \in [Ends -> Peer]
  BY <1>1, <1>3
<1> QED
  BY <1>2, <1>4 DEF OpenInv

\* And after every step.
LEMMA OpenStep == OpenInv /\ [NetNext]_conn => OpenInv'
<1> SUFFICES ASSUME OpenInv, [NetNext]_conn PROVE OpenInv'
  OBVIOUS
<1>1. CASE NetNext
  <2>0. PICK e \in Ends : \E q : conn' = [conn EXCEPT ![e] = q] /\ Called(e, q)
    BY <1>1, StepIs
  <2>1. PICK q : conn' = [conn EXCEPT ![e] = q] /\ Called(e, q)
    BY <2>0
  <2>2. EndInv(q) /\ q \in Peer
    BY <2>1, CallOpens DEF EndInv
  <2>3. conn' \in [Ends -> Peer]
    BY <2>1, <2>2 DEF OpenInv
  <2>4. \A d \in Ends : EndInv(conn'[d])
    BY <2>1, <2>2 DEF OpenInv
  <2> QED
    BY <2>3, <2>4 DEF OpenInv
<1>2. CASE UNCHANGED conn
  BY <1>2 DEF OpenInv
<1> QED
  BY <1>1, <1>2

\* Every packet is acted on once, under the counter it was sealed with; a counter is
\* found from its low bits on either side of the newest, and the memory of the slots is
\* accounted for and within its budget: _nya_net_udp_is_replay,
\* _nya_net_udp_sequence_expand and _nya_net_udp_reassemble.
THEOREM PacketsOpenOnce == NetSpec => [](ReplayFree /\ NearestOpens /\ BytesHonest)
<1>1. OpenInv => ReplayFree
  BY DEF OpenInv, EndInv, HeardOnce, ReplayFree
<1>2. OpenInv => NearestOpens
  <2> SUFFICES ASSUME OpenInv, NEW e \in Ends, NEW packet \in conn[Other(e)].wire,
                      packet.seq < conn[e].remote_sequence + HalfSeq,
                      conn[e].remote_sequence < packet.seq + HalfSeq
               PROVE  Expand(conn[e].remote_sequence, packet.seq % SeqSpace) = packet.seq
    BY DEF NearestOpens
  <2>1. conn[e] \in Peer /\ conn[Other(e)] \in Peer
    BY TwoEnds DEF OpenInv
  <2>2. packet \in Packet
    BY <2>1 DEF Peer
  <2>3. conn[e].remote_sequence \in Nat /\ packet.seq \in Nat
    BY <2>1, <2>2 DEF Peer, Packet
  <2> QED
    BY <2>3, ExpandIs
<1>3. OpenInv => BytesHonest
  BY DEF OpenInv, EndInv, Budget, BytesHonest
<1> QED
  BY <1>1, <1>2, <1>3, OpenInit, OpenStep, PTL DEF NetSpec

-----------------------------------------------------------------------------
(***************************************************************************)
(* The reliable channel, in numbers that do not wrap.  k messages were     *)
(* carried before; the n-th after them has the id Nth(k, n).  What an end  *)
(* had sent and been handed when it sealed its packet s is g[s], and t is  *)
(* its last packet.  Between two packets either grows by InFlight at most, *)
(* for more is not sent before the oldest is acknowledged: so a packet the *)
(* window still admits is behind what was heard by no more than AckWindow  *)
(* times InFlight, and half the ids have room for that.                    *)
(***************************************************************************)
Nth(k, n) == ((k + n) - 1) % IdSpace

\* Half the ids have room for what may be late: 35 * 256 of 32768.
Roomy == (AckWindow + 3) * InFlight <= Half
Lag == (AckWindow + 2) * InFlight

\* The room in simple terms.
LEMMA RoomIs ==
    ASSUME Roomy
    PROVE  /\ AckWindow * InFlight \in Nat /\ Lag \in Nat /\ Lag = AckWindow * InFlight + 2 * InFlight
           /\ Lag + InFlight <= Half /\ InFlight <= Lag
<1>1. AckWindow \in Nat /\ InFlight \in Nat
  BY Widths
<1>2. /\ (AckWindow + 2) * InFlight = AckWindow * InFlight + 2 * InFlight
      /\ (AckWindow + 3) * InFlight = AckWindow * InFlight + 3 * InFlight
      /\ AckWindow * InFlight \in Nat
  BY <1>1
<1> DEFINE x == AckWindow * InFlight
<1> HIDE DEF x
<1>3. x \in Nat /\ Lag = x + 2 * InFlight /\ x + 3 * InFlight <= Half /\ Half \in Nat
  BY <1>2, Widths DEF Lag, Roomy, x
<1> QED
  BY <1>1, <1>3 DEF x

\* What the ids of two messages say of the messages.
LEMMA NthIs ==
    ASSUME NEW k \in Nat, NEW m \in Nat, NEW n \in Nat, k + m >= 1, k + n >= 1
    PROVE  /\ Nth(k, m) \in Ids
           /\ m - n < Half /\ n - m < Half => (Newer(Nth(k, m), Nth(k, n)) <=> m > n)
           /\ m - n < IdSpace /\ n - m < IdSpace => (Nth(k, m) = Nth(k, n) <=> m = n)
           /\ m - n \in 0 .. IdSpace - 1 => Minus(Nth(k, m), Nth(k, n)) = m - n
           /\ n - m \in 1 .. IdSpace => Minus(Nth(k, m), Nth(k, n)) = IdSpace - (n - m)
<1> DEFINE x == (k + m) - 1
           y == (k + n) - 1
<1>1. x \in Nat /\ y \in Nat /\ x - y = m - n /\ y - x = n - m /\ (x > y <=> m > n)
      /\ (x = y <=> m = n)
  OBVIOUS
<1>2. Nth(k, m) = x % IdSpace /\ Nth(k, n) = y % IdSpace
  BY DEF Nth
<1> HIDE DEF x, y
<1>3. x % IdSpace \in Ids
  BY <1>1, Widths, Division DEF Ids
<1>4. ASSUME m - n < Half, n - m < Half PROVE Newer(x % IdSpace, y % IdSpace) <=> m > n
  <2>1. x - y < Half /\ y - x < Half
    BY <1>1, <1>4
  <2>2. Newer(x % IdSpace, y % IdSpace) <=> x > y
    BY <1>1, <2>1, NewerIs
  <2> QED
    BY <1>1, <2>2
<1>5. ASSUME m - n < IdSpace, n - m < IdSpace PROVE x % IdSpace = y % IdSpace <=> m = n
  <2>1. x - y < IdSpace /\ y - x < IdSpace
    BY <1>1, <1>5
  <2>2. x % IdSpace = y % IdSpace => x = y
    BY <1>1, <2>1, SameId
  <2> QED
    BY <1>1, <2>2
<1>6. /\ m - n \in 0 .. IdSpace - 1 => Minus(x % IdSpace, y % IdSpace) = m - n
      /\ n - m \in 1 .. IdSpace => Minus(x % IdSpace, y % IdSpace) = IdSpace - (n - m)
  <2>1. /\ x - y \in 0 .. IdSpace - 1 => Minus(x % IdSpace, y % IdSpace) = x - y
        /\ y - x \in 1 .. IdSpace => Minus(x % IdSpace, y % IdSpace) = IdSpace - (y - x)
    BY <1>1, MinusIs
  <2> QED
    BY <1>1, <2>1
<1> QED
  BY <1>2, <1>3, <1>4, <1>5, <1>6

\* The ids after one.
LEMMA NthNext ==
    ASSUME NEW k \in Nat, NEW n \in Nat, k + n >= 1, NEW c \in Nat
    PROVE  (Nth(k, n) + c) % IdSpace = Nth(k, n + c)
<1>1. (k + n) - 1 \in Nat /\ ((k + n) - 1) + c = (k + (n + c)) - 1
  OBVIOUS
<1>2. ((((k + n) - 1) % IdSpace) + c) % IdSpace = (((k + n) - 1) + c) % IdSpace
  BY <1>1, AddIs
<1> QED
  BY <1>1, <1>2 DEF Nth

\* What an end had sent and been handed, packet by packet.
Past == [Nat -> [sent : Nat, done : Nat]]
Grows(g, t) ==
    /\ g \in Past /\ t \in Nat
    /\ \A r, s \in 0 .. t : r <= s =>
           /\ g[r].sent <= g[s].sent /\ g[s].sent <= g[r].sent + (s - r) * InFlight
           /\ g[r].done <= g[s].done /\ g[s].done <= g[r].done + (s - r) * InFlight
Extends(g, t, g2, t2) == t <= t2 /\ \A s \in 0 .. t : g2[s] = g[s]

\* A packet later.
LEMMA GrowsOn ==
    ASSUME NEW g, NEW t, Grows(g, t), NEW a \in Nat, NEW b \in Nat,
           g[t].sent <= a, a <= g[t].sent + InFlight, g[t].done <= b, b <= g[t].done + InFlight
    PROVE  LET h == [g EXCEPT ![t + 1] = [sent |-> a, done |-> b]] IN
           /\ Grows(h, t + 1) /\ Extends(g, t, h, t + 1)
           /\ h[t + 1].sent = a /\ h[t + 1].done = b
<1> DEFINE v == [sent |-> a, done |-> b]
           h == [g EXCEPT ![t + 1] = v]
<1>1. g \in Past /\ t \in Nat /\ InFlight \in Nat
  BY Widths DEF Grows
<1>2. v \in [sent : Nat, done : Nat] /\ v.sent = a /\ v.done = b
  OBVIOUS
<1> HIDE DEF v
<1>3. h \in Past
  BY <1>1, <1>2 DEF Past
<1>4. h[t + 1] = v /\ \A s \in 0 .. t : h[s] = g[s]
  BY <1>1 DEF Past
<1> HIDE DEF h
<1>5. ASSUME NEW r \in 0 .. t + 1, NEW s \in 0 .. t + 1, r <= s
      PROVE  /\ h[r].sent <= h[s].sent /\ h[s].sent <= h[r].sent + (s - r) * InFlight
             /\ h[r].done <= h[s].done /\ h[s].done <= h[r].done + (s - r) * InFlight
  <2>1. CASE s # t + 1
    <3>1. r \in 0 .. t /\ s \in 0 .. t
      BY <1>1, <1>5, <2>1
    <3> QED
      BY <1>4, <1>5, <3>1 DEF Grows
  <2>2. CASE r = t + 1
    <3>1. s = t + 1 /\ (s - r) * InFlight = 0
      BY <1>1, <1>5, <2>2
    <3> QED
      BY <1>2, <1>4, <2>2, <3>1
  <2>3. CASE s = t + 1 /\ r # t + 1
    <3>1. r \in 0 .. t /\ t \in 0 .. t /\ r <= t
      BY <1>1, <2>3
    <3>2. /\ g[r].sent <= g[t].sent /\ g[t].sent <= g[r].sent + (t - r) * InFlight
          /\ g[r].done <= g[t].done /\ g[t].done <= g[r].done + (t - r) * InFlight
      BY <3>1 DEF Grows
    <3>3. (s - r) * InFlight = (t - r) * InFlight + InFlight /\ (t - r) * InFlight \in Int
      <4> DEFINE d == t - r
      <4>1. s - r = d + 1 /\ d \in Nat
        BY <2>3, <3>1
      <4>2. (d + 1) * InFlight = d * InFlight + InFlight /\ d * InFlight \in Int
        BY <1>1, <4>1
      <4> QED
        BY <4>1, <4>2
    <3>4. /\ g[r].sent \in Nat /\ g[t].sent \in Nat /\ g[r].done \in Nat /\ g[t].done \in Nat
      BY <1>1, <3>1 DEF Past
    <3>5. h[s] = v /\ h[r] = g[r]
      BY <1>4, <2>3, <3>1
    <3> DEFINE x == (t - r) * InFlight
               y == (s - r) * InFlight
    <3>6. x \in Int /\ y = x + InFlight
      BY <3>3
    <3> HIDE DEF x, y
    <3>7. /\ g[t].sent <= g[r].sent + x /\ g[t].done <= g[r].done + x
      BY <3>2 DEF x
    <3>8. /\ h[r].sent <= h[s].sent /\ h[s].sent <= h[r].sent + y
          /\ h[r].done <= h[s].done /\ h[s].done <= h[r].done + y
      BY <1>1, <1>2, <3>2, <3>4, <3>5, <3>6, <3>7
    <3> QED
      BY <3>8 DEF y
  <2> QED
    BY <2>1, <2>2, <2>3
<1>6. Extends(g, t, h, t + 1)
  BY <1>1, <1>4 DEF Extends
<1> QED
  BY <1>1, <1>2, <1>3, <1>4, <1>5, <1>6 DEF Grows, h, v

-----------------------------------------------------------------------------
(* What an end says on the reliable channel *)

Count(p) == p.sent["reliable"]
Done(p) == Len(p.delivered["reliable"])
Pend(p) == Len(p.outgoing_reliable)

\* A fragment is of the message its number names, cut as planned.
MeantBy(f, k, plan) ==
    f.channel = "reliable" => f.n \in 1 .. Len(plan) /\ f.id = Nth(k, f.n) /\ f.total = plan[f.n]

\* The plan, the queue of what is not acknowledged yet, and the bundle.
Planned(p, k, plan) ==
    /\ plan \in Seq(1 .. MaxMessage)
    /\ p.next_message_id["reliable"] = Nth(k, Count(p) + 1)
    /\ Len(plan) = Count(p) + Len(p.todo["reliable"])
    /\ \A i \in 1 .. Len(p.todo["reliable"]) : p.todo["reliable"][i] = plan[Count(p) + i]
QueuedRight(p, k, plan) ==
    /\ Pend(p) <= InFlight /\ Pend(p) <= Count(p)
    /\ \A i \in 1 .. Pend(p) :
           LET n == (Count(p) - Pend(p)) + i
               m == p.outgoing_reliable[i]
           IN m.n = n /\ m.id = Nth(k, n) /\ m.total = plan[n]
Bundled(p, k, plan, g, t) ==
    \A i \in 1 .. Len(p.outgoing) :
        /\ MeantBy(p.outgoing[i], k, plan)
        /\ p.outgoing[i].channel = "reliable" =>
               p.outgoing[i].n <= Count(p) /\ g[t].sent < p.outgoing[i].n + InFlight
Numbered(p, k, g, t) ==
    /\ p.local_sequence = t + 1 /\ p.next_delivery_id = Nth(k, Done(p) + 1)
    /\ g[t].sent <= Count(p) /\ g[t].done <= Done(p)
Near(p, g, t) == Count(p) <= g[t].sent + InFlight /\ Done(p) <= g[t].done + InFlight
OnWire(p, k, plan, g, t) ==
    \A packet \in p.wire :
        /\ packet.seq <= t /\ packet.reliable_ack = Nth(k, g[packet.seq].done + 1)
        /\ \A i \in 1 .. Len(packet.fragments) :
               LET f == packet.fragments[i]
               IN /\ MeantBy(f, k, plan)
                  /\ f.channel = "reliable" => /\ f.n <= g[packet.seq].sent
                                               /\ g[packet.seq].sent < f.n + 2 * InFlight
Said(p, k, plan, g, t) ==
    /\ Planned(p, k, plan) /\ QueuedRight(p, k, plan) /\ Bundled(p, k, plan, g, t)
    /\ Numbered(p, k, g, t)
Speaks(p, k, plan, g, t) ==
    /\ p \in Peer /\ k \in Nat /\ Grows(g, t) /\ Said(p, k, plan, g, t) /\ Near(p, g, t)
    /\ OnWire(p, k, plan, g, t)
SpeaksOn(p, k, plan, g, t) ==
    {q \in SendsFrom(p) : \E g2, t2 : Extends(g, t, g2, t2) /\ Speaks(q, k, plan, g2, t2)}

\* The counters are numbers.
LEMMA Counts ==
    ASSUME NEW p \in Peer
    PROVE  /\ Count(p) \in Nat /\ Done(p) \in Nat /\ Pend(p) \in Nat
           /\ p.outgoing_reliable \in Seq(Pending) /\ p.outgoing \in Seq(Frag)
           /\ p.delivered["reliable"] \in Seq(Nat) /\ p.todo["reliable"] \in Seq(1 .. MaxMessage)
           /\ p.local_sequence \in Nat /\ p.remote_sequence \in Nat
           /\ p.incoming_reliable \in Seq(Waiting)
           /\ Len(p.incoming_reliable) \in Nat
<1>1. /\ p.outgoing_reliable \in Seq(Pending) /\ p.incoming_reliable \in Seq(Waiting)
      /\ p.outgoing \in Seq(Frag) /\ p.delivered["reliable"] \in Seq(Nat)
      /\ p.todo["reliable"] \in Seq(1 .. MaxMessage) /\ p.sent["reliable"] \in Nat
      /\ p.local_sequence \in Nat /\ p.remote_sequence \in Nat
  BY DEF Peer, Channels
<1> QED
  BY <1>1 DEF Count, Done, Pend

\* What a packet keeps of what is said does not hang on the packet.
LEMMA SaidAlike ==
    ASSUME NEW p, NEW q, SameTaking(p, q), SamePlan(p, q), SameShape(p, q),
           NEW k, NEW plan
    PROVE  /\ Count(q) = Count(p) /\ Done(q) = Done(p) /\ Pend(q) = Pend(p)
           /\ q.next_delivery_id = p.next_delivery_id
           /\ Planned(p, k, plan) => Planned(q, k, plan)
           /\ QueuedRight(p, k, plan) => QueuedRight(q, k, plan)
           /\ \A g, t : Near(p, g, t) => Near(q, g, t)
<1>1. /\ Count(q) = Count(p) /\ Done(q) = Done(p) /\ Pend(q) = Pend(p)
      /\ q.next_delivery_id = p.next_delivery_id
  BY DEF SameTaking, SamePlan, SameShape, Count, Done, Pend
<1>2. Planned(p, k, plan) => Planned(q, k, plan)
  BY <1>1 DEF SamePlan, Planned
<1>3. QueuedRight(p, k, plan) => QueuedRight(q, k, plan)
  BY <1>1 DEF SameShape, QueuedRight, Pend
<1>4. \A g, t : Near(p, g, t) => Near(q, g, t)
  BY <1>1 DEF Near
<1> QED
  BY <1>1, <1>2, <1>3, <1>4

\* A packet sealed on what is bundled, or on nothing.
LEMMA SealSpeaks ==
    ASSUME NEW p, NEW k, NEW plan, NEW g, NEW t, Speaks(p, k, plan, g, t),
           NEW kind, NEW fragments \in {p.outgoing, <<>>}, NEW q \in SendsFrom(p),
           q.outgoing = <<>>,
           q.local_sequence = p.local_sequence + 1,
           q.wire = p.wire \union {SealedAs(p, kind, fragments)}
    PROVE  q \in SpeaksOn(p, k, plan, g, t)
<1>1. /\ p \in Peer /\ k \in Nat /\ Grows(g, t) /\ Planned(p, k, plan)
      /\ QueuedRight(p, k, plan) /\ Bundled(p, k, plan, g, t) /\ Numbered(p, k, g, t)
      /\ Near(p, g, t) /\ OnWire(p, k, plan, g, t)
  BY DEF Speaks, Said
<1> DEFINE a == Count(p)
           b == Done(p)
           h == [g EXCEPT ![t + 1] = [sent |-> a, done |-> b]]
<1>2. a \in Nat /\ b \in Nat /\ t \in Nat /\ InFlight \in Nat
  BY <1>1, Counts, Widths DEF Grows
<1>3. Grows(h, t + 1) /\ Extends(g, t, h, t + 1) /\ h[t + 1].sent = a /\ h[t + 1].done = b
  BY <1>1, <1>2, GrowsOn DEF Near, Numbered
<1> HIDE DEF h
<1>4. /\ q \in Peer /\ Count(q) = a /\ Done(q) = b /\ Planned(q, k, plan) /\ QueuedRight(q, k, plan)
      /\ q.next_delivery_id = p.next_delivery_id
  BY <1>1, SaidAlike DEF SendsFrom
<1>5. Numbered(q, k, h, t + 1)
  BY <1>1, <1>2, <1>3, <1>4 DEF Numbered
<1>6. Near(q, h, t + 1)
  BY <1>2, <1>3, <1>4 DEF Near
<1>7. Bundled(q, k, plan, h, t + 1)
  BY DEF Bundled
<1>8. OnWire(q, k, plan, h, t + 1)
  <2> SUFFICES ASSUME NEW packet \in q.wire
               PROVE  /\ packet.seq <= t + 1
                      /\ packet.reliable_ack = Nth(k, h[packet.seq].done + 1)
                      /\ \A i \in 1 .. Len(packet.fragments) :
                             LET f == packet.fragments[i]
                             IN /\ MeantBy(f, k, plan)
                                /\ f.channel = "reliable" =>
                                       /\ f.n <= h[packet.seq].sent
                                       /\ h[packet.seq].sent < f.n + 2 * InFlight
    BY DEF OnWire
  <2>1. CASE packet \in p.wire
    <3>1. packet.seq <= t /\ packet.seq \in Nat
      BY <1>1, <2>1 DEF OnWire, Peer, Packet
    <3>2. h[packet.seq] = g[packet.seq] /\ packet.seq <= t + 1
      BY <1>2, <1>3, <3>1 DEF Extends
    <3> QED
      BY <1>1, <2>1, <3>2 DEF OnWire
  <2>2. CASE packet = SealedAs(p, kind, fragments)
    <3>1. packet.seq = t + 1 /\ packet.reliable_ack = Nth(k, b + 1) /\ packet.fragments = fragments
      BY <1>1, <2>2 DEF SealedAs, Numbered
    <3>2. ASSUME NEW i \in 1 .. Len(fragments)
          PROVE  LET f == fragments[i]
                 IN /\ MeantBy(f, k, plan)
                    /\ f.channel = "reliable" => f.n <= a /\ a < f.n + 2 * InFlight
      <4>1. fragments = p.outgoing
        OBVIOUS
      <4> DEFINE f == fragments[i]
      <4>2. f \in Frag /\ MeantBy(f, k, plan)
            /\ (f.channel = "reliable" => f.n <= a /\ g[t].sent < f.n + InFlight)
        BY <1>1, <4>1, Counts DEF Bundled
      <4>3. f.n \in Nat /\ a <= g[t].sent + InFlight /\ g[t].sent \in Nat
        BY <1>1, <1>2, <4>2 DEF Frag, Near, Grows, Past
      <4> HIDE DEF f
      <4>4. f.channel = "reliable" => f.n <= a /\ a < f.n + 2 * InFlight
        BY <1>2, <4>2, <4>3
      <4> QED
        BY <4>2, <4>4 DEF f
    <3> QED
      BY <1>2, <1>3, <3>1, <3>2
  <2> QED
    BY <2>1, <2>2
<1>9. Speaks(q, k, plan, h, t + 1)
  BY <1>1, <1>3, <1>4, <1>5, <1>6, <1>7, <1>8 DEF Speaks, Said
<1> QED
  BY <1>3, <1>9 DEF SpeaksOn

-----------------------------------------------------------------------------
(* What each call says *)

\* What was there once stays.
LEMMA ExtendsOn ==
    ASSUME NEW g, NEW t \in Nat, NEW g2, NEW t2 \in Nat, NEW g3, NEW t3 \in Nat,
           Extends(g, t, g2, t2), Extends(g2, t2, g3, t3)
    PROVE  Extends(g, t, g3, t3)
<1>1. \A s \in 0 .. t : s \in 0 .. t2
  BY DEF Extends
<1> QED
  BY <1>1 DEF Extends

\* One that speaks goes on from itself, and from what it went on to.
LEMMA SpeaksHere ==
    ASSUME NEW p, NEW k, NEW plan, NEW g, NEW t, Speaks(p, k, plan, g, t)
    PROVE  p \in SpeaksOn(p, k, plan, g, t)
<1>1. p \in SendsFrom(p) /\ t \in Nat
  BY DEF Speaks, Grows, SendsFrom, SameHearing, SameTaking, SamePlan, SameShape
<1>2. Extends(g, t, g, t)
  BY <1>1 DEF Extends
<1> QED
  BY <1>1, <1>2 DEF SpeaksOn

\* What is said in two stretches is said in one.
LEMMA SpeaksChain ==
    ASSUME NEW p, NEW k, NEW plan, NEW g, NEW t \in Nat, NEW q \in SendsFrom(p),
           NEW g2, NEW t2 \in Nat, Extends(g, t, g2, t2), NEW r \in SpeaksOn(q, k, plan, g2, t2)
    PROVE  r \in SpeaksOn(p, k, plan, g, t)
<1>1. PICK g3, t3 : Extends(g2, t2, g3, t3) /\ Speaks(r, k, plan, g3, t3)
  BY DEF SpeaksOn
<1>2. r \in SendsFrom(q) /\ t3 \in Nat
  BY <1>1 DEF SpeaksOn, Speaks, Grows
<1>3. r \in SendsFrom(p)
  BY <1>2, SendsOn
<1>4. Extends(g, t, g3, t3)
  BY <1>1, <1>2, ExtendsOn
<1> QED
  BY <1>1, <1>3, <1>4 DEF SpeaksOn

\* A bundle that leaves.
LEMMA FlushSpeaks ==
    ASSUME NEW p, NEW k, NEW plan, NEW g, NEW t, Speaks(p, k, plan, g, t)
    PROVE  FlushPeer(p) \in SpeaksOn(p, k, plan, g, t) /\ FlushPeer(p).outgoing = <<>>
<1> DEFINE q == FlushPeer(p)
<1>1. p \in Peer /\ Len(p.outgoing) \in Nat
  BY Counts DEF Speaks
<1>2. q \in SendsFrom(p)
  <2>1. q \in Peer /\ SameHearing(p, q) /\ SameTaking(p, q) /\ SamePlan(p, q)
        /\ q.outgoing_reliable = p.outgoing_reliable
    BY <1>1, FlushIs
  <2> QED
    BY <2>1 DEF SendsFrom, SameShape
<1>3. q.outgoing = <<>>
  BY <1>1, FlushIs
<1>4. CASE p.outgoing = <<>>
  <2>1. q = p
    BY <1>4 DEF FlushPeer
  <2> QED
    BY <1>3, <2>1, SpeaksHere
<1>5. CASE p.outgoing # <<>>
  <2>1. /\ q.local_sequence = p.local_sequence + 1
        /\ q.wire = p.wire \union {SealedAs(p, "data", p.outgoing)}
    BY <1>1, <1>5, FlushIs
  <2> HIDE DEF q
  <2>2. q \in SpeaksOn(p, k, plan, g, t)
    BY <1>2, <1>3, <2>1, SealSpeaks
  <2> QED
    BY <1>3, <2>2 DEF q
<1> QED
  BY <1>4, <1>5

\* What may be bundled now.
Fitting(p, f, k, plan) ==
    /\ f \in Frag /\ MeantBy(f, k, plan)
    /\ f.channel = "reliable" => f.n <= Count(p) /\ Count(p) < f.n + InFlight

\* A fragment bundled.
LEMMA AppendSpeaks ==
    ASSUME NEW p, NEW k, NEW plan, NEW g, NEW t, Speaks(p, k, plan, g, t),
           NEW f, Fitting(p, f, k, plan)
    PROVE  AppendFragment(p, f) \in SpeaksOn(p, k, plan, g, t)
<1> DEFINE r == IF Len(p.outgoing) + 1 > BodyMax THEN FlushPeer(p) ELSE p
           q == AppendFragment(p, f)
<1>1. p \in Peer /\ f \in Frag /\ t \in Nat
  BY DEF Speaks, Fitting, Grows
<1>2. r \in SpeaksOn(p, k, plan, g, t)
  BY FlushSpeaks, SpeaksHere
<1>3. PICK g2, t2 : Extends(g, t, g2, t2) /\ Speaks(r, k, plan, g2, t2)
  BY <1>2 DEF SpeaksOn
<1>4. /\ q \in Peer /\ SameHearing(p, q) /\ SameTaking(p, q) /\ SamePlan(p, q)
      /\ q.outgoing_reliable = p.outgoing_reliable /\ q.outgoing = Append(r.outgoing, f)
      /\ q.local_sequence = r.local_sequence /\ q.wire = r.wire
  BY <1>1, AppendFragmentIs
<1>5. q \in SendsFrom(p)
  BY <1>4 DEF SendsFrom, SameShape
<1> HIDE DEF q, r
<1>6. r \in SendsFrom(p) /\ r \in Peer /\ t2 \in Nat
  BY <1>2, <1>3 DEF SpeaksOn, SendsFrom, Speaks, Grows
<1>7. q \in SendsFrom(r)
  BY <1>4, <1>5, <1>6 DEF SendsFrom, SameHearing, SameTaking, SamePlan, SameShape
<1>8. /\ Count(q) = Count(r) /\ Done(q) = Done(r) /\ q.next_delivery_id = r.next_delivery_id
      /\ Planned(q, k, plan) /\ QueuedRight(q, k, plan) /\ Near(q, g2, t2)
  BY <1>3, <1>7, SaidAlike DEF SendsFrom, Speaks, Said
<1>9. Count(r) = Count(p)
  BY <1>6 DEF SendsFrom, SamePlan, Count
<1>10. Bundled(q, k, plan, g2, t2)
  <2>1. r.outgoing \in Seq(Frag)
    BY <1>6, Counts
  <2>2. ASSUME NEW i \in 1 .. Len(q.outgoing)
        PROVE  \/ q.outgoing[i] = f
               \/ i \in 1 .. Len(r.outgoing) /\ q.outgoing[i] = r.outgoing[i]
    <3> DEFINE o == r.outgoing
               a == q.outgoing
    <3>1. o \in Seq(Frag) /\ a = Append(o, f) /\ i \in 1 .. Len(a) /\ Len(o) \in Nat
      BY <1>4, <2>1
    <3> HIDE DEF o, a
    <3>2. Len(a) = Len(o) + 1 /\ a[Len(o) + 1] = f /\ \A j \in 1 .. Len(o) : a[j] = o[j]
      BY <1>1, <3>1, AppendProperties
    <3>3. i \in 1 .. Len(o) \/ i = Len(o) + 1
      BY <3>1, <3>2
    <3> QED
      BY <3>2, <3>3 DEF o, a
  <2>3. f.channel = "reliable" => f.n <= Count(q) /\ g2[t2].sent < f.n + InFlight
    <3>1. g2[t2].sent <= Count(r) /\ g2[t2].sent \in Nat /\ Count(r) \in Nat /\ f.n \in Nat
      BY <1>1, <1>3, <1>6, Counts DEF Speaks, Said, Numbered, Grows, Past, Frag
    <3> QED
      BY <1>8, <1>9, <3>1, Widths DEF Fitting
  <2>4. MeantBy(f, k, plan)
    BY DEF Fitting
  <2>5. Bundled(r, k, plan, g2, t2)
    BY <1>3 DEF Speaks, Said
  <2> QED
    BY <1>8, <2>2, <2>3, <2>4, <2>5 DEF Bundled
<1>11. Numbered(q, k, g2, t2)
  BY <1>3, <1>4, <1>8 DEF Speaks, Said, Numbered
<1>12. OnWire(q, k, plan, g2, t2)
  BY <1>3, <1>4 DEF Speaks, OnWire
<1>13. Speaks(q, k, plan, g2, t2)
  BY <1>3, <1>4, <1>8, <1>10, <1>11, <1>12 DEF Speaks, Said
<1> QED
  BY <1>3, <1>5, <1>13 DEF SpeaksOn, q

\* A message marked.
LEMMA MarkedSpeaks ==
    ASSUME NEW p, NEW k, NEW plan, NEW g, NEW t, Speaks(p, k, plan, g, t),
           NEW i \in 1 .. Len(p.outgoing_reliable)
    PROVE  Marked(p, i) \in SpeaksOn(p, k, plan, g, t)
<1> DEFINE q == Marked(p, i)
<1>1. p \in Peer /\ t \in Nat
  BY DEF Speaks, Grows
<1>2. /\ q \in SendsFrom(p) /\ q.outgoing = p.outgoing
      /\ q.local_sequence = p.local_sequence /\ q.wire = p.wire
  BY <1>1, MarkedIs
<1> HIDE DEF q
<1>3. /\ Count(q) = Count(p) /\ Done(q) = Done(p) /\ q.next_delivery_id = p.next_delivery_id
      /\ Planned(q, k, plan) /\ QueuedRight(q, k, plan) /\ Near(q, g, t)
  BY <1>2, SaidAlike DEF SendsFrom, Speaks, Said
<1>4. Bundled(q, k, plan, g, t) /\ Numbered(q, k, g, t) /\ OnWire(q, k, plan, g, t)
  BY <1>2, <1>3 DEF Speaks, Said, Bundled, Numbered, OnWire
<1>5. Speaks(q, k, plan, g, t)
  BY <1>2, <1>3, <1>4 DEF Speaks, Said, SendsFrom
<1>6. Extends(g, t, g, t)
  BY <1>1 DEF Extends
<1> QED
  BY <1>2, <1>5, <1>6 DEF SpeaksOn, q

\* A message in its fragments.
LEMMA MessageSpeaks ==
    ASSUME NEW p, NEW k, NEW plan, NEW g, NEW t, Speaks(p, k, plan, g, t),
           NEW c \in Channels, NEW id \in Ids, NEW n \in Nat \ {0}, NEW total \in 1 .. MaxMessage,
           c = "reliable" => /\ n \in 1 .. Len(plan) /\ id = Nth(k, n) /\ total = plan[n]
                             /\ n <= Count(p) /\ Count(p) < n + InFlight
    PROVE  AppendMessage(p, c, id, n, total) \in SpeaksOn(p, k, plan, g, t)
<1> DEFINE S == SpeaksOn(p, k, plan, g, t)
<1>1. p \in S /\ total \in Nat /\ t \in Nat
  BY SpeaksHere, SMTT(60) DEF Speaks, Grows
<1>2. ASSUME NEW i \in 1 .. total, NEW q \in S
      PROVE  AppendFragment(q, [channel |-> c, id |-> id, n |-> n, index |-> i, total |-> total]) \in S
  <2> DEFINE f == [channel |-> c, id |-> id, n |-> n, index |-> i, total |-> total]
  <2>1. PICK g2, t2 : Extends(g, t, g2, t2) /\ Speaks(q, k, plan, g2, t2)
    BY DEF SpeaksOn
  <2>2. q \in SendsFrom(p) /\ t2 \in Nat
    BY <2>1 DEF SpeaksOn, Speaks, Grows
  <2>3. Count(q) = Count(p)
    BY <2>2 DEF SendsFrom, SamePlan, Count
  <2>4. f \in Frag /\ f.channel = c /\ f.id = id /\ f.n = n /\ f.total = total
    BY DEF Frag
  <2> HIDE DEF f
  <2>5. Fitting(q, f, k, plan)
    BY <2>3, <2>4 DEF Fitting, MeantBy
  <2>6. AppendFragment(q, f) \in SpeaksOn(q, k, plan, g2, t2)
    BY <2>1, <2>5, AppendSpeaks
  <2>7. AppendFragment(q, f) \in S
    BY <1>1, <2>1, <2>2, <2>6, SpeaksChain
  <2> QED
    BY <2>7 DEF f
<1> QED
  <2> HIDE DEF S
  <2>1. AppendMessage(p, c, id, n, total) \in S
    BY <1>1, <1>2, AppendMessageIn
  <2> QED
    BY <2>1 DEF S

\* All that is pending sent again.
LEMMA ResendSpeaks ==
    ASSUME NEW p, NEW k, NEW plan, NEW g, NEW t, Speaks(p, k, plan, g, t), NEW due
    PROVE  Resend(p, due) \in SpeaksOn(p, k, plan, g, t)
<1> DEFINE S == SpeaksOn(p, k, plan, g, t)
           count == Len(p.outgoing_reliable)
<1>1. /\ p \in S /\ p \in Peer /\ t \in Nat /\ count \in Nat /\ QueuedRight(p, k, plan)
      /\ Planned(p, k, plan) /\ p.outgoing_reliable \in Seq(Pending)
      /\ k \in Nat
  BY SpeaksHere, Counts DEF Speaks, Said, Grows
<1>2. ASSUME NEW i \in 1 .. count, NEW q \in S
      PROVE  SendAgain(q, i, p.outgoing_reliable[i]) \in S
  <2> DEFINE m == p.outgoing_reliable[i]
             n == (Count(p) - Pend(p)) + i
             r == AppendMessage(q, "reliable", m.id, m.n, m.total)
  <2>1. PICK g2, t2 : Extends(g, t, g2, t2) /\ Speaks(q, k, plan, g2, t2)
    BY DEF SpeaksOn
  <2>2. q \in SendsFrom(p) /\ t2 \in Nat
    BY <2>1 DEF SpeaksOn, Speaks, Grows
  <2>3. Count(q) = Count(p) /\ i \in 1 .. Len(q.outgoing_reliable)
    BY <2>2 DEF SendsFrom, SamePlan, SameShape, Count
  <2>4. m \in Pending
    BY <1>1
  <2>5. m.n = n /\ m.id = Nth(k, n) /\ m.total = plan[n]
    BY <1>1 DEF QueuedRight, Pend
  <2>6. /\ n \in Nat \ {0} /\ n <= Count(p) /\ Count(p) < n + InFlight /\ n \in 1 .. Len(plan)
    <3>1. /\ Pend(p) \in Nat /\ Count(p) \in Nat /\ Pend(p) <= InFlight /\ Pend(p) <= Count(p)
          /\ i \in 1 .. Pend(p)
      BY <1>1, Counts DEF QueuedRight, Pend
    <3>2. Len(plan) \in Nat /\ Count(p) <= Len(plan)
      <4>1. p.todo["reliable"] \in Seq(1 .. MaxMessage)
        BY <1>1, Counts
      <4>2. Len(p.todo["reliable"]) \in Nat
        BY <4>1
      <4> QED
        BY <1>1, <3>1, <4>2 DEF Planned
    <3> QED
      BY <3>1, <3>2, Widths
  <2>7. "reliable" \in Channels /\ m.id \in Ids /\ m.n \in Nat \ {0} /\ m.total \in 1 .. MaxMessage
    BY <2>4 DEF Channels, Pending
  <2> HIDE DEF m, n
  <2>8. r \in SpeaksOn(q, k, plan, g2, t2)
    BY <2>1, <2>3, <2>5, <2>6, <2>7, MessageSpeaks
  <2> HIDE DEF r
  <2>9. PICK g3, t3 : Extends(g2, t2, g3, t3) /\ Speaks(r, k, plan, g3, t3)
    BY <2>8 DEF SpeaksOn
  <2>10. r \in SendsFrom(q) /\ t3 \in Nat
    BY <2>8, <2>9 DEF SpeaksOn, Speaks, Grows
  <2>11. i \in 1 .. Len(r.outgoing_reliable)
    BY <2>3, <2>10 DEF SendsFrom, SameShape
  <2>12. Marked(r, i) \in SpeaksOn(r, k, plan, g3, t3)
    BY <2>9, <2>11, MarkedSpeaks
  <2>13. Marked(r, i) \in SpeaksOn(q, k, plan, g2, t2)
    BY <2>2, <2>9, <2>10, <2>12, SpeaksChain
  <2>14. Marked(r, i) \in S
    BY <1>1, <2>1, <2>2, <2>13, SpeaksChain
  <2>15. SendAgain(q, i, m) = Marked(r, i)
    BY Zenon DEF SendAgain, Marked, r
  <2> QED
    BY <2>14, <2>15 DEF m
<1>3. \A i \in 1 .. count, q \in S :
        (IF p.outgoing_reliable[i].sends /\ p.outgoing_reliable[i].n \notin due THEN q
         ELSE SendAgain(q, i, p.outgoing_reliable[i])) \in S
  BY <1>2
<1> QED
  <2> HIDE DEF S
  <2>1. Resend(p, due) \in S
    BY <1>1, <1>3, ResendIn
  <2> QED
    BY <2>1 DEF S

\* What a call that takes nothing makes of an end.
Talks(p, q, k, plan, g, t) ==
    /\ SameHearing(p, q) /\ SameQueue(p, q) /\ SameSeen(p, q) /\ q.delivered = p.delivered
    /\ Count(p) <= Count(q) /\ Count(q) - Pend(q) = Count(p) - Pend(p)
    /\ \E g2, t2 : Extends(g, t, g2, t2) /\ Speaks(q, k, plan, g2, t2)

\* It talks on.
LEMMA TalksOn ==
    ASSUME NEW p, NEW q \in Peer, NEW k, NEW plan, NEW g, NEW t, NEW r \in SpeaksOn(q, k, plan, g, t),
           SameHearing(p, q), SameQueue(p, q), SameSeen(p, q), q.delivered = p.delivered,
           Count(p) <= Count(q), Count(q) - Pend(q) = Count(p) - Pend(p)
    PROVE  Talks(p, r, k, plan, g, t)
<1>1. r \in SendsFrom(q) /\ \E g2, t2 : Extends(g, t, g2, t2) /\ Speaks(r, k, plan, g2, t2)
  BY DEF SpeaksOn
<1>2. SameHearing(p, r) /\ SameQueue(p, r) /\ SameSeen(p, r) /\ r.delivered = p.delivered
  BY <1>1 DEF SendsFrom, SameHearing, SameTaking, SameQueue, SameSeen
<1>3. Count(r) = Count(q) /\ Pend(r) = Pend(q)
  BY <1>1 DEF SendsFrom, SamePlan, SameShape, Count, Pend
<1> QED
  BY <1>1, <1>2, <1>3 DEF Talks

\* A message queued.
LEMMA QueuedSpeaks ==
    ASSUME NEW p, NEW k, NEW plan, NEW g, NEW t, Speaks(p, k, plan, g, t),
           p.todo["reliable"] # <<>>, Pend(p) < InFlight, Count(p) - Pend(p) <= g[t].sent
    PROVE  /\ Speaks(Queued(p), k, plan, g, t) /\ Count(Queued(p)) = Count(p) + 1
           /\ Pend(Queued(p)) = Pend(p) + 1
<1> DEFINE q == Queued(p)
           a == Count(p)
           d == p.todo["reliable"]
           o == p.outgoing_reliable
           e == Entry(p)
<1>1. /\ p \in Peer /\ k \in Nat /\ Grows(g, t) /\ Planned(p, k, plan) /\ QueuedRight(p, k, plan)
      /\ Bundled(p, k, plan, g, t) /\ Numbered(p, k, g, t) /\ Near(p, g, t)
      /\ OnWire(p, k, plan, g, t)
  BY DEF Speaks, Said
<1>2. /\ q \in Peer /\ SameHearing(p, q) /\ SameTaking(p, q)
      /\ q.next_message_id = [p.next_message_id EXCEPT !["reliable"] = (@ + 1) % IdSpace]
      /\ q.todo = [p.todo EXCEPT !["reliable"] = Tail(@)]
      /\ q.sent = [p.sent EXCEPT !["reliable"] = @ + 1]
      /\ q.local_sequence = p.local_sequence /\ q.wire = p.wire
      /\ q.outgoing = p.outgoing /\ q.outgoing_reliable = Append(o, e) /\ e \in Pending
  BY <1>1, QueuedIs
<1> HIDE DEF q
<1>3. /\ a \in Nat /\ Pend(p) \in Nat /\ o \in Seq(Pending) /\ d \in Seq(1 .. MaxMessage)
      /\ p.outgoing \in Seq(Frag) /\ InFlight \in Nat /\ g[t].sent \in Nat /\ t \in Nat
      /\ Len(o) = Pend(p) /\ Done(p) \in Nat
  BY <1>1, Counts, Widths DEF Grows, Past, Pend
<1>4. p.sent \in [Channels -> Nat] /\ p.todo \in [Channels -> Seq(1 .. MaxMessage)]
      /\ p.next_message_id \in [Channels -> Ids] /\ "reliable" \in Channels
  BY <1>1 DEF Peer, Channels
<1>5. /\ Count(q) = a + 1 /\ q.todo["reliable"] = Tail(d)
      /\ q.next_message_id["reliable"] = (p.next_message_id["reliable"] + 1) % IdSpace
      /\ Done(q) = Done(p) /\ q.next_delivery_id = p.next_delivery_id
  BY <1>2, <1>4 DEF Count, Done, SameTaking
<1>6. /\ d # <<>> /\ Len(d) \in Nat /\ Len(d) >= 1 /\ Len(Tail(d)) = Len(d) - 1 /\ Head(d) = d[1]
      /\ \A i \in 1 .. Len(d) - 1 : Tail(d)[i] = d[i + 1]
  <2>1. d # <<>>
    OBVIOUS
  <2>2. Len(d) \in Nat /\ Len(d) # 0
    BY <1>3, <2>1, EmptySeq
  <2>3. Len(d) >= 1
    BY <2>2
  <2> HIDE DEF d
  <2> QED
    BY <1>3, <2>1, <2>2, <2>3, HeadTailProperties
<1>7. /\ Pend(q) = Pend(p) + 1 /\ q.outgoing_reliable[Pend(p) + 1] = e
      /\ \A i \in 1 .. Pend(p) : q.outgoing_reliable[i] = o[i]
  <2> HIDE DEF o, e
  <2>1. /\ Len(Append(o, e)) = Len(o) + 1 /\ Append(o, e)[Len(o) + 1] = e
        /\ \A i \in 1 .. Len(o) : Append(o, e)[i] = o[i]
    BY <1>2, <1>3, AppendProperties
  <2>2. Len(q.outgoing_reliable) = Len(o) + 1
    BY <1>2, <2>1
  <2> QED
    BY <1>2, <1>3, <2>1, <2>2 DEF Pend
<1>8. /\ plan \in Seq(1 .. MaxMessage) /\ Len(plan) = a + Len(d)
      /\ p.next_message_id["reliable"] = Nth(k, a + 1)
      /\ \A i \in 1 .. Len(d) : d[i] = plan[a + i]
  BY <1>1 DEF Planned
<1>9. e.id = Nth(k, a + 1) /\ e.n = a + 1 /\ e.total = plan[a + 1]
  <2>1. e.id = p.next_message_id["reliable"] /\ e.n = a + 1 /\ e.total = Head(d)
    BY DEF Entry, Count
  <2>2. 1 \in 1 .. Len(d)
    BY <1>6
  <2>3. d[1] = plan[a + 1]
    BY <1>8, <2>2
  <2> QED
    BY <1>6, <1>8, <2>1, <2>3
<1> HIDE DEF a, d, o, e
<1>10. Planned(q, k, plan)
  <2>1. (Nth(k, a + 1) + 1) % IdSpace = Nth(k, (a + 1) + 1)
    BY <1>1, <1>3, NthNext
  <2>2. Len(plan) = (a + 1) + Len(Tail(d))
    BY <1>3, <1>6, <1>8
  <2>3. ASSUME NEW i \in 1 .. Len(Tail(d)) PROVE Tail(d)[i] = plan[(a + 1) + i]
    <3>1. i + 1 \in 1 .. Len(d) /\ i \in 1 .. Len(d) - 1 /\ (a + 1) + i = a + (i + 1)
      BY <1>3, <1>6
    <3> QED
      BY <1>6, <1>8, <3>1
  <2> QED
    BY <1>5, <1>8, <2>1, <2>2, <2>3 DEF Planned
<1>11. QueuedRight(q, k, plan)
  <2>1. Pend(p) + 1 <= InFlight /\ Pend(p) + 1 <= a + 1
    BY <1>1, <1>3 DEF QueuedRight, a
  <2>2. ASSUME NEW i \in 1 .. Pend(p) + 1
        PROVE  LET n == ((a + 1) - (Pend(p) + 1)) + i
                   m == q.outgoing_reliable[i]
               IN m.n = n /\ m.id = Nth(k, n) /\ m.total = plan[n]
    <3> DEFINE n == ((a + 1) - (Pend(p) + 1)) + i
    <3>1. n = (a - Pend(p)) + i
      BY <1>3
    <3>2. CASE i = Pend(p) + 1
      <4>1. n = a + 1
        BY <1>3, <3>2
      <4> QED
        BY <1>7, <1>9, <3>2, <4>1
    <3>3. CASE i # Pend(p) + 1
      <4>1. i \in 1 .. Pend(p)
        BY <1>3, <3>3
      <4>2. LET m == o[i] IN m.n = n /\ m.id = Nth(k, n) /\ m.total = plan[n]
        BY <1>1, <3>1, <4>1 DEF QueuedRight, a, o
      <4> QED
        BY <1>7, <4>1, <4>2
    <3> QED
      BY <3>2, <3>3
  <2> QED
    BY <1>5, <1>7, <2>1, <2>2 DEF QueuedRight
<1>12. Bundled(q, k, plan, g, t)
  <2>1. ASSUME NEW i \in 1 .. Len(p.outgoing), p.outgoing[i].channel = "reliable"
        PROVE  p.outgoing[i].n <= a + 1
    <3>1. p.outgoing[i].n <= a
      BY <1>1, <2>1 DEF Bundled, a
    <3>2. p.outgoing[i] \in Frag
      BY <1>3
    <3>3. p.outgoing[i].n \in Nat
      BY <3>2 DEF Frag
    <3> QED
      BY <1>3, <3>1, <3>3
  <2> QED
    BY <1>1, <1>2, <1>5, <2>1 DEF Bundled
<1>13. Numbered(q, k, g, t)
  BY <1>1, <1>2, <1>3, <1>5 DEF Numbered, a
<1>14. Near(q, g, t)
  BY <1>1, <1>3, <1>5 DEF Near, a
<1>15. OnWire(q, k, plan, g, t)
  BY <1>1, <1>2 DEF OnWire
<1>16. Speaks(q, k, plan, g, t)
  BY <1>1, <1>2, <1>10, <1>11, <1>12, <1>13, <1>14, <1>15 DEF Speaks, Said
<1> QED
  BY <1>5, <1>7, <1>16 DEF q, a

\* What is alike for the reliable channel.
Alikes(p, q) ==
    /\ Count(q) = Count(p) /\ Done(q) = Done(p) /\ q.next_delivery_id = p.next_delivery_id
    /\ q.next_message_id["reliable"] = p.next_message_id["reliable"]
    /\ q.todo["reliable"] = p.todo["reliable"]
    /\ q.local_sequence = p.local_sequence /\ q.wire = p.wire
    /\ q.outgoing = p.outgoing /\ q.outgoing_reliable = p.outgoing_reliable

\* Peers alike in what they say speak alike.
LEMMA SpeaksAlike ==
    ASSUME NEW p, NEW q \in Peer, Alikes(p, q), NEW k, NEW plan, NEW g, NEW t, Speaks(p, k, plan, g, t)
    PROVE  Speaks(q, k, plan, g, t)
<1> USE DEF Alikes
<1>1. /\ p \in Peer /\ k \in Nat /\ Grows(g, t) /\ Planned(p, k, plan) /\ QueuedRight(p, k, plan)
      /\ Bundled(p, k, plan, g, t) /\ Numbered(p, k, g, t) /\ Near(p, g, t)
      /\ OnWire(p, k, plan, g, t)
  BY DEF Speaks, Said
<1>2. Planned(q, k, plan)
  BY <1>1 DEF Planned
<1>3. QueuedRight(q, k, plan)
  BY <1>1 DEF QueuedRight, Pend
<1>4. Bundled(q, k, plan, g, t) /\ Numbered(q, k, g, t) /\ Near(q, g, t) /\ OnWire(q, k, plan, g, t)
  BY <1>1 DEF Bundled, Numbered, Near, OnWire
<1> QED
  BY <1>1, <1>2, <1>3, <1>4 DEF Speaks, Said

\* A message of the unreliable channel taken off the plan and counted.
LEMMA UnreliableAlike ==
    ASSUME NEW p \in Peer
    PROVE  /\ p.todo["unreliable"] # <<>> => Alikes(p, Drawn(p, "unreliable"))
           /\ \A n \in Nat : Alikes(p, Counted(p, n))
<1>1. /\ "unreliable" \in Channels /\ "reliable" \in Channels /\ "reliable" # "unreliable"
      /\ p.sent \in [Channels -> Nat] /\ p.todo \in [Channels -> Seq(1 .. MaxMessage)]
      /\ p.next_message_id \in [Channels -> Ids]
  BY DEF Peer, Channels
<1>2. ASSUME p.todo["unreliable"] # <<>> PROVE Alikes(p, Drawn(p, "unreliable"))
  <2> DEFINE q == Drawn(p, "unreliable")
  <2>1. /\ SameTaking(p, q)
        /\ q.next_message_id = [p.next_message_id EXCEPT !["unreliable"] = (@ + 1) % IdSpace]
        /\ q.todo = [p.todo EXCEPT !["unreliable"] = Tail(@)] /\ q.sent = p.sent
        /\ q.local_sequence = p.local_sequence /\ q.wire = p.wire
        /\ q.outgoing = p.outgoing /\ q.outgoing_reliable = p.outgoing_reliable
    BY <1>1, <1>2, DrawnIs
  <2> HIDE DEF q
  <2>2. q.next_message_id["reliable"] = p.next_message_id["reliable"]
        /\ q.todo["reliable"] = p.todo["reliable"]
    BY <1>1, <2>1
  <2>3. Alikes(p, q)
    BY <2>1, <2>2 DEF Alikes, SameTaking, Count, Done
  <2> QED
    BY <2>3 DEF q
<1>3. ASSUME NEW n \in Nat PROVE Alikes(p, Counted(p, n))
  <2> DEFINE q == Counted(p, n)
  <2>1. /\ SameTaking(p, q) /\ q.sent = [p.sent EXCEPT !["unreliable"] = n]
        /\ q.next_message_id = p.next_message_id /\ q.todo = p.todo
        /\ q.local_sequence = p.local_sequence /\ q.wire = p.wire
        /\ q.outgoing = p.outgoing /\ q.outgoing_reliable = p.outgoing_reliable
    BY CountedIs
  <2> HIDE DEF q
  <2>2. q.sent["reliable"] = p.sent["reliable"]
    BY <1>1, <2>1
  <2>3. Alikes(p, q)
    BY <2>1, <2>2 DEF Alikes, SameTaking, Count, Done
  <2> QED
    BY <2>3 DEF q
<1> QED
  BY <1>2, <1>3

\* What is not said any more: the packets, and what was counted.
Quiet(p, k, plan, g, t) ==
    /\ p \in Peer /\ k \in Nat /\ Grows(g, t) /\ OnWire(p, k, plan, g, t)
    /\ g[t].sent <= Count(p) /\ g[t].done <= Done(p) /\ Count(p) <= Len(plan)
    /\ plan \in Seq(1 .. MaxMessage)
Ended(p, q, k, plan, g, t) ==
    /\ q.occupied = FALSE /\ q.delivered = p.delivered /\ Count(q) = Count(p)
    /\ \E g2, t2 : Extends(g, t, g2, t2) /\ Quiet(q, k, plan, g2, t2)

\* One that speaks may fall silent.
LEMMA SpeaksQuiet ==
    ASSUME NEW p, NEW k, NEW plan, NEW g, NEW t, Speaks(p, k, plan, g, t)
    PROVE  /\ Quiet(p, k, plan, g, t)
           /\ \A reason \in Reasons : Quiet(Removed(p, reason), k, plan, g, t)
<1>1. Quiet(p, k, plan, g, t)
  <2>1. Len(plan) = Count(p) + Len(p.todo["reliable"]) /\ Count(p) \in Nat
        /\ p.todo["reliable"] \in Seq(1 .. MaxMessage)
    BY Counts DEF Speaks, Said, Planned
  <2>2. Len(p.todo["reliable"]) \in Nat
    BY <2>1
  <2>3. Count(p) <= Len(plan)
    BY <2>1, <2>2
  <2> QED
    BY <2>3 DEF Quiet, Speaks, Said, Numbered, Planned
<1>2. ASSUME NEW reason \in Reasons PROVE Quiet(Removed(p, reason), k, plan, g, t)
  <2> DEFINE q == Removed(p, reason)
  <2>1. q \in Peer /\ q.wire = p.wire /\ q.sent = p.sent /\ q.delivered = p.delivered
    BY <1>1, RemovedIs DEF Quiet
  <2> HIDE DEF q
  <2>2. Count(q) = Count(p) /\ Done(q) = Done(p)
    BY <2>1 DEF Count, Done
  <2>3. OnWire(q, k, plan, g, t)
    BY <1>1, <2>1 DEF Quiet, OnWire
  <2>4. Quiet(q, k, plan, g, t)
    BY <1>1, <2>1, <2>2, <2>3 DEF Quiet
  <2> QED
    BY <2>4 DEF q
<1> QED
  BY <1>1, <1>2

\* An end that is dropped.
LEMMA RemovedEnds ==
    ASSUME NEW p, NEW q, NEW k, NEW plan, NEW g, NEW t, NEW g2, NEW t2,
           Extends(g, t, g2, t2), Speaks(q, k, plan, g2, t2), NEW reason \in Reasons,
           q.delivered = p.delivered, Count(q) = Count(p)
    PROVE  Ended(p, Removed(q, reason), k, plan, g, t)
<1> DEFINE r == Removed(q, reason)
<1>1. q \in Peer
  BY DEF Speaks
<1>2. r.occupied = FALSE /\ r.sent = q.sent /\ r.delivered = q.delivered
  BY <1>1, RemovedIs
<1>3. Quiet(r, k, plan, g2, t2)
  BY SpeaksQuiet
<1> HIDE DEF r
<1>4. Ended(p, r, k, plan, g, t)
  BY <1>2, <1>3 DEF Ended, Count
<1> QED
  BY <1>4 DEF r

\* What a message sent makes of an end.
LEMMA SendingTalks ==
    ASSUME NEW p, NEW k, NEW plan, NEW g, NEW t, Speaks(p, k, plan, g, t),
           NEW c \in Channels, NEW due, p.todo[c] # <<>>, Count(p) - Pend(p) <= g[t].sent
    PROVE  \/ Talks(p, Sending(p, c, due), k, plan, g, t)
           \/ Ended(p, Sending(p, c, due), k, plan, g, t)
<1> DEFINE d == Drawn(p, c)
<1>1. p \in Peer /\ t \in Nat /\ k \in Nat
  BY DEF Speaks, Grows
<1>2. /\ d \in Peer /\ SameHearing(p, d) /\ SameTaking(p, d) /\ d.sent = p.sent
      /\ d.outgoing_reliable = p.outgoing_reliable /\ d.wire = p.wire
  BY <1>1, DrawnIs
<1> HIDE DEF d
<1>3. CASE /\ c = "unreliable"
           /\ Sending(p, c, due) = Counted(Unqueued(p), p.sent["unreliable"] + 1)
           /\ Unqueued(p) \in SendsFrom(d)
  <2> DEFINE u == Unqueued(p)
             n == p.sent["unreliable"] + 1
             r == Counted(u, n)
             h == Head(p.todo["unreliable"])
             i == p.next_message_id["unreliable"]
  <2>1. Speaks(d, k, plan, g, t)
    <3>1. Alikes(p, d)
      BY <1>1, <1>3, UnreliableAlike DEF d
    <3> QED
      BY <1>2, <3>1, SpeaksAlike
  <2>2. n \in Nat \ {0} /\ i \in Ids /\ "unreliable" \in Channels /\ h \in 1 .. MaxMessage
    <3>1. /\ p.next_message_id["unreliable"] \in Ids /\ p.sent["unreliable"] \in Nat
          /\ p.todo["unreliable"] \in Seq(1 .. MaxMessage) /\ "unreliable" \in Channels
      BY <1>1 DEF Peer, Channels
    <3>2. p.todo["unreliable"] # <<>>
      BY <1>3
    <3>3. h \in 1 .. MaxMessage
      BY <3>1, <3>2, HeadTailProperties
    <3> QED
      BY <3>1, <3>3
  <2>3. u = AppendMessage(d, "unreliable", i, n, h)
    BY <1>3, Zenon DEF Unqueued, d
  <2> HIDE DEF u, n, h, i
  <2>4. u \in SpeaksOn(d, k, plan, g, t)
    BY <2>1, <2>2, <2>3, MessageSpeaks
  <2>5. PICK g2, t2 : Extends(g, t, g2, t2) /\ Speaks(u, k, plan, g2, t2)
    BY <2>4 DEF SpeaksOn
  <2>6. u \in Peer /\ SameHearing(d, u) /\ SameTaking(d, u) /\ SamePlan(d, u) /\ SameShape(d, u)
    BY <1>3 DEF SendsFrom, u
  <2>7. r \in Peer /\ SameHearing(u, r) /\ SameTaking(u, r) /\ Alikes(u, r)
    BY <2>2, <2>6, CountedIs, UnreliableAlike
  <2> HIDE DEF r
  <2>8. Speaks(r, k, plan, g2, t2)
    BY <2>5, <2>7, SpeaksAlike
  <2>9. Count(r) = Count(p) /\ Pend(r) = Pend(p)
    BY <1>2, <2>6, <2>7 DEF Alikes, SamePlan, SameShape, Count, Pend
  <2>10. SameHearing(p, r) /\ SameQueue(p, r) /\ SameSeen(p, r) /\ r.delivered = p.delivered
    BY <1>2, <2>6, <2>7 DEF SameHearing, SameTaking, SameQueue, SameSeen
  <2>11. Count(p) \in Nat
    BY <1>1, Counts
  <2>12. Talks(p, r, k, plan, g, t)
    BY <2>5, <2>8, <2>9, <2>10, <2>11 DEF Talks
  <2> QED
    BY <1>3, <2>12 DEF r, u, n
<1>4. CASE /\ c = "reliable" /\ Len(p.outgoing_reliable) < InFlight
           /\ Sending(p, c, due) = Resend(Queued(p), due)
  <2> DEFINE q == Queued(p)
  <2>1. /\ Speaks(q, k, plan, g, t) /\ Count(q) = Count(p) + 1 /\ Pend(q) = Pend(p) + 1
    BY <1>4, QueuedSpeaks DEF Pend
  <2>2. q \in Peer /\ SameHearing(p, q) /\ SameTaking(p, q)
    BY <1>1, <1>4, QueuedIs
  <2> HIDE DEF q
  <2>3. Resend(q, due) \in SpeaksOn(q, k, plan, g, t)
    BY <2>1, ResendSpeaks
  <2>4. Count(p) \in Nat /\ Pend(p) \in Nat
    BY <1>1, Counts
  <2>5. Talks(p, Resend(q, due), k, plan, g, t)
    <3>1. Count(p) <= Count(q) /\ Count(q) - Pend(q) = Count(p) - Pend(p)
      BY <2>1, <2>4
    <3>2. SameQueue(p, q) /\ SameSeen(p, q) /\ q.delivered = p.delivered
      BY <2>2 DEF SameTaking, SameQueue, SameSeen
    <3> QED
      BY <2>2, <2>3, <3>1, <3>2, TalksOn
  <2> QED
    BY <1>4, <2>5 DEF q
<1>5. CASE c = "reliable" /\ Sending(p, c, due) = Removed(d, "timeout")
  <2> DEFINE r == Removed(d, "timeout")
  <2>1. r \in Peer /\ r.occupied = FALSE /\ r.wire = d.wire /\ r.sent = d.sent
        /\ r.delivered = d.delivered
    BY <1>2, RemovedIs DEF Reasons
  <2> HIDE DEF r
  <2>2. Quiet(p, k, plan, g, t)
    BY SpeaksQuiet
  <2>3. /\ r.wire = p.wire /\ r.delivered = p.delivered /\ Count(r) = Count(p)
        /\ Done(r) = Done(p)
    BY <1>2, <2>1 DEF SameTaking, Count, Done
  <2>4. Quiet(r, k, plan, g, t)
    BY <2>1, <2>2, <2>3 DEF Quiet, OnWire
  <2>5. Extends(g, t, g, t)
    BY <1>1 DEF Extends
  <2>6. Ended(p, r, k, plan, g, t)
    BY <2>1, <2>3, <2>4, <2>5 DEF Ended
  <2> QED
    BY <1>5, <2>6 DEF r
<1> QED
  BY <1>1, <1>3, <1>4, <1>5, SendingIs DEF d

\* What a bundle that leaves and an update make of an end.
LEMMA UpdateTalks ==
    ASSUME NEW p, NEW k, NEW plan, NEW g, NEW t, Speaks(p, k, plan, g, t),
           NEW expired, NEW due, NEW alone \in BOOLEAN
    PROVE  /\ Talks(p, FlushPeer(p), k, plan, g, t)
           /\ Talks(p, Updated(p, expired, due, alone), k, plan, g, t)
<1> DEFINE x == Expire(p, expired)
           r == Resend(x, due)
           q == FlushPeer(r)
           s == SendPacket(q, "data", <<>>)
<1>1. p \in Peer /\ t \in Nat /\ Count(p) \in Nat
  BY Counts DEF Speaks, Grows
<1>2. Talks(p, FlushPeer(p), k, plan, g, t)
  <2>1. FlushPeer(p) \in SpeaksOn(p, k, plan, g, t)
    BY FlushSpeaks
  <2> QED
    BY <1>1, <2>1, TalksOn DEF SameHearing, SameQueue, SameSeen
<1>3. /\ x \in Peer /\ SameHearing(p, x) /\ SameSaying(p, x) /\ SameQueue(p, x)
      /\ SameSeen(p, x) /\ x.delivered = p.delivered
  BY <1>1, ExpireIs
<1> HIDE DEF x
<1>4. Speaks(x, k, plan, g, t) /\ Count(x) = Count(p) /\ Pend(x) = Pend(p)
  <2>1. Alikes(p, x)
    BY <1>3 DEF SameSaying, SamePlan, SameQueue, Alikes, Count, Done
  <2> QED
    BY <1>3, <2>1, SpeaksAlike DEF Alikes, Pend
<1>5. r \in SpeaksOn(x, k, plan, g, t)
  BY <1>4, ResendSpeaks
<1> HIDE DEF r
<1>6. PICK g2, t2 : Extends(g, t, g2, t2) /\ Speaks(r, k, plan, g2, t2)
  BY <1>5 DEF SpeaksOn
<1>7. r \in SendsFrom(x) /\ t2 \in Nat
  BY <1>5, <1>6 DEF SpeaksOn, Speaks, Grows
<1>8. q \in SpeaksOn(r, k, plan, g2, t2) /\ q.outgoing = <<>>
  BY <1>6, FlushSpeaks
<1> HIDE DEF q
<1>9. PICK g3, t3 : Extends(g2, t2, g3, t3) /\ Speaks(q, k, plan, g3, t3)
  BY <1>8 DEF SpeaksOn
<1>10. q \in SendsFrom(r) /\ q \in Peer /\ t3 \in Nat
  BY <1>8, <1>9 DEF SpeaksOn, SendsFrom, Speaks, Grows
<1>11. q \in SpeaksOn(x, k, plan, g, t)
  BY <1>1, <1>6, <1>7, <1>8, SpeaksChain
<1>12. s \in SpeaksOn(q, k, plan, g3, t3)
  <2> DEFINE none == <<>>
             d == SendPacket(q, "data", none)
  <2>1. none \in Seq(Frag) /\ none \in {q.outgoing, <<>>}
    OBVIOUS
  <2>2. /\ d \in Peer /\ SameHearing(q, d) /\ SameTaking(q, d) /\ SamePlan(q, d)
        /\ d.outgoing_reliable = q.outgoing_reliable /\ d.outgoing = q.outgoing
        /\ d.local_sequence = q.local_sequence + 1
        /\ d.wire = q.wire \union {SealedAs(q, "data", none)}
    BY <1>10, <2>1, SendPacketIs
  <2> HIDE DEF none, d
  <2>3. d \in SendsFrom(q)
    BY <2>2 DEF SendsFrom, SameShape
  <2>4. d \in SpeaksOn(q, k, plan, g3, t3)
    BY <1>8, <1>9, <2>1, <2>2, <2>3, SealSpeaks
  <2> QED
    BY <2>4 DEF d, none
<1> HIDE DEF s
<1>13. s \in SpeaksOn(x, k, plan, g, t)
  <2>1. Extends(g, t, g3, t3)
    BY <1>1, <1>6, <1>7, <1>9, <1>10, ExtendsOn
  <2>2. q \in SendsFrom(x)
    BY <1>7, <1>10, SendsOn
  <2> QED
    BY <1>1, <1>10, <1>12, <2>1, <2>2, SpeaksChain
<1>14. Talks(p, q, k, plan, g, t) /\ Talks(p, s, k, plan, g, t)
  BY <1>1, <1>3, <1>4, <1>11, <1>13, TalksOn
<1>15. Updated(p, expired, due, alone) = IF alone THEN s ELSE q
  BY DEF Updated, s, q, r, x
<1> QED
  BY <1>2, <1>14, <1>15

\* What a disconnect makes of an end.
LEMMA LeaveEnds ==
    ASSUME NEW p, NEW k, NEW plan, NEW g, NEW t, Speaks(p, k, plan, g, t)
    PROVE  /\ Ended(p, Removed(p, "timeout"), k, plan, g, t)
           /\ Ended(p, Removed(SendPacket(FlushPeer(p), "disconnect", <<>>), "caller"), k, plan, g, t)
<1> DEFINE q == FlushPeer(p)
           none == <<>>
           d == SendPacket(q, "disconnect", none)
<1>1. p \in Peer /\ t \in Nat
  BY DEF Speaks, Grows
<1>2. Ended(p, Removed(p, "timeout"), k, plan, g, t)
  <2>1. Extends(g, t, g, t) /\ "timeout" \in Reasons
    BY <1>1 DEF Extends, Reasons
  <2> QED
    BY <2>1, RemovedEnds
<1>3. q \in SpeaksOn(p, k, plan, g, t) /\ q.outgoing = <<>>
  BY FlushSpeaks
<1> HIDE DEF q
<1>4. PICK g2, t2 : Extends(g, t, g2, t2) /\ Speaks(q, k, plan, g2, t2)
  BY <1>3 DEF SpeaksOn
<1>5. q \in SendsFrom(p) /\ q \in Peer /\ t2 \in Nat
  BY <1>3, <1>4 DEF SpeaksOn, SendsFrom, Speaks, Grows
<1>6. none \in Seq(Frag) /\ none \in {q.outgoing, <<>>}
  OBVIOUS
<1>7. /\ d \in Peer /\ SameHearing(q, d) /\ SameTaking(q, d) /\ SamePlan(q, d)
      /\ d.outgoing_reliable = q.outgoing_reliable /\ d.outgoing = q.outgoing
      /\ d.local_sequence = q.local_sequence + 1
      /\ d.wire = q.wire \union {SealedAs(q, "disconnect", none)}
  BY <1>5, <1>6, SendPacketIs
<1> HIDE DEF d, none
<1>8. d \in SendsFrom(q)
  BY <1>7 DEF SendsFrom, SameShape
<1>9. d \in SpeaksOn(q, k, plan, g2, t2)
  BY <1>3, <1>4, <1>6, <1>7, <1>8, SealSpeaks
<1>10. d \in SpeaksOn(p, k, plan, g, t)
  BY <1>1, <1>4, <1>5, <1>9, SpeaksChain
<1>11. PICK g3, t3 : Extends(g, t, g3, t3) /\ Speaks(d, k, plan, g3, t3)
  BY <1>10 DEF SpeaksOn
<1>12. d.delivered = p.delivered /\ Count(d) = Count(p)
  BY <1>10 DEF SpeaksOn, SendsFrom, SameTaking, SamePlan, Count
<1>13. Ended(p, Removed(d, "caller"), k, plan, g, t)
  BY <1>11, <1>12, RemovedEnds DEF Reasons
<1> QED
  BY <1>2, <1>13 DEF d, q, none

-----------------------------------------------------------------------------
(* What an end was handed, holds and has seen of the reliable channel *)

Got(p, n) == \/ n <= Done(p)
             \/ \E i \in 1 .. Len(p.incoming_reliable) : p.incoming_reliable[i].n = n
Lined(p, k, hi) ==
    /\ k \in Nat /\ hi \in Nat /\ p.next_delivery_id = Nth(k, Done(p) + 1)
    /\ Done(p) <= hi /\ hi <= Done(p) + InFlight
    /\ \A i \in 1 .. Done(p) : p.delivered["reliable"][i] = i
    /\ \A i \in 1 .. Len(p.incoming_reliable) :
           LET m == p.incoming_reliable[i] IN m.n \in Done(p) + 1 .. hi /\ m.id = Nth(k, m.n)
    /\ \A i, j \in 1 .. Len(p.incoming_reliable) :
           p.incoming_reliable[i].n = p.incoming_reliable[j].n => i = j
SeenTo(p, k, m) ==
    /\ k + m >= 1 /\ p.seen_newest["reliable"] = Nth(k, m)
    /\ \A n \in Nat : Got(p, n) => n <= m
    /\ \A j \in 0 .. SeenWindow - 1 : m - j >= 1 => (j \in p.seen["reliable"] <=> Got(p, m - j))
SeenRight(p, k, hi) ==
    IF p.seen_any["reliable"] THEN \E m \in 0 .. hi : SeenTo(p, k, m)
    ELSE k = 0 /\ \A n \in Nat : Got(p, n) => n = 0

\* What a message still to come, or one that comes late, is taken for.
LEMMA TakenFor ==
    ASSUME Roomy, NEW p \in Peer, NEW k, NEW hi, Lined(p, k, hi), SeenRight(p, k, hi),
           NEW n \in 1 .. hi, hi < n + Lag
    PROVE  /\ Acceptable(p, Nth(k, n)) <=> n > Done(p)
           /\ IsSeen(p, "reliable", Nth(k, n)) <=> Got(p, n)
<1> DEFINE d == Done(p)
           id == Nth(k, n)
<1>1. /\ k \in Nat /\ hi \in Nat /\ d \in Nat /\ n \in Nat /\ n >= 1 /\ n <= hi
      /\ p.next_delivery_id = Nth(k, d + 1) /\ d <= hi /\ hi <= d + InFlight
  BY Counts DEF Lined
<1>2. /\ Lag \in Nat /\ Lag + InFlight <= Half /\ Half \in Nat /\ IdSpace = 2 * Half
      /\ InFlight \in Nat \ {0} /\ SeenWindow \in Nat /\ InFlight <= SeenWindow
      /\ SeenWindow <= Half
  BY RoomIs, Widths
<1>3. Acceptable(p, id) <=> n > d
  <2>1. /\ Newer(id, Nth(k, d + 1)) <=> n > d + 1
        /\ id = Nth(k, d + 1) <=> n = d + 1
    <3>1. /\ n - (d + 1) < Half /\ (d + 1) - n < Half
          /\ n - (d + 1) < IdSpace /\ (d + 1) - n < IdSpace
      BY <1>1, <1>2
    <3>2. d + 1 \in Nat /\ k + n >= 1 /\ k + (d + 1) >= 1
      BY <1>1
    <3> HIDE DEF d
    <3> QED
      BY <1>1, <3>1, <3>2, NthIs
  <2>2. n > d => Minus(id, Nth(k, d + 1)) < InFlight
    <3> SUFFICES ASSUME n > d PROVE Minus(id, Nth(k, d + 1)) < InFlight
      OBVIOUS
    <3>1. n - (d + 1) \in 0 .. IdSpace - 1 /\ n - (d + 1) < InFlight
      BY <1>1, <1>2
    <3>2. d + 1 \in Nat /\ k + n >= 1 /\ k + (d + 1) >= 1
      BY <1>1
    <3> HIDE DEF d
    <3>3. Minus(id, Nth(k, d + 1)) = n - (d + 1)
      BY <1>1, <3>1, <3>2, NthIs
    <3> QED
      BY <3>1, <3>3
  <2>3. n > d <=> n > d + 1 \/ n = d + 1
    BY <1>1
  <2> QED
    BY <1>1, <2>1, <2>2, <2>3 DEF Acceptable
<1>4. IsSeen(p, "reliable", id) <=> Got(p, n)
  <2>1. CASE ~p.seen_any["reliable"]
    <3>1. ~Got(p, n)
      BY <1>1, <2>1 DEF SeenRight
    <3> QED
      BY <2>1, <3>1 DEF IsSeen
  <2>2. CASE p.seen_any["reliable"]
    <3>1. PICK m \in 0 .. hi : SeenTo(p, k, m)
      BY <2>2 DEF SeenRight
    <3>2. m \in Nat /\ m <= hi /\ k + m >= 1 /\ p.seen_newest["reliable"] = Nth(k, m) /\ d <= m
      <4>1. Got(p, d)
        BY <1>1 DEF Got
      <4> QED
        BY <1>1, <3>1, <4>1 DEF SeenTo
    <3>3. /\ Newer(id, Nth(k, m)) <=> n > m
          /\ id = Nth(k, m) <=> n = m
          /\ m >= n => Minus(Nth(k, m), id) = m - n
      <4>1. /\ n - m < Half /\ m - n < Half /\ n - m < IdSpace /\ m - n < IdSpace
            /\ (m >= n => m - n \in 0 .. IdSpace - 1)
        BY <1>1, <1>2, <3>2
      <4>2. /\ m - n < IdSpace /\ n - m < IdSpace => (Nth(k, m) = Nth(k, n) <=> m = n)
            /\ m - n \in 0 .. IdSpace - 1 => Minus(Nth(k, m), Nth(k, n)) = m - n
            /\ n - m < Half /\ m - n < Half => (Newer(Nth(k, n), Nth(k, m)) <=> n > m)
        <5>1. k + n >= 1
          BY <1>1
        <5> QED
          BY <1>1, <3>2, <5>1, NthIs
      <4> QED
        BY <4>1, <4>2
    <3>4. CASE n > m
      <4>1. ~Got(p, n)
        BY <1>1, <3>1, <3>2, <3>4 DEF SeenTo
      <4>2. Newer(id, Nth(k, m)) /\ id # Nth(k, m)
        BY <1>1, <3>2, <3>3, <3>4
      <4> QED
        BY <3>2, <4>1, <4>2 DEF IsSeen
    <3>5. CASE n <= m
      <4>1. IsSeen(p, "reliable", id) <=> m - n >= SeenWindow \/ m - n \in p.seen["reliable"]
        <5>1. id = Nth(k, m) \/ ~Newer(id, Nth(k, m))
          BY <1>1, <3>2, <3>3, <3>5
        <5>2. Minus(Nth(k, m), id) = m - n
          BY <1>1, <3>2, <3>3, <3>5
        <5> QED
          BY <2>2, <3>2, <5>1, <5>2 DEF IsSeen
      <4>2. CASE m - n >= SeenWindow
        <5>1. n <= d
          BY <1>1, <1>2, <3>2, <4>2
        <5> QED
          BY <4>1, <4>2, <5>1 DEF Got
      <4>3. CASE ~(m - n >= SeenWindow)
        <5>1. m - n \in 0 .. SeenWindow - 1 /\ m - (m - n) = n /\ m - (m - n) >= 1
          BY <1>1, <1>2, <3>2, <3>5, <4>3
        <5>2. m - n \in p.seen["reliable"] <=> Got(p, n)
          BY <3>1, <5>1 DEF SeenTo
        <5> QED
          BY <4>1, <4>3, <5>2
      <4> QED
        BY <4>2, <4>3
    <3> QED
      BY <1>1, <3>2, <3>4, <3>5
  <2> QED
    BY <2>1, <2>2
<1> QED
  BY <1>3, <1>4

\* A message put in line is got, and nothing else is.
Lines(p, q, n) == \A x \in Nat : Got(q, x) <=> Got(p, x) \/ x = n

\* The ids of two messages within reach.
LEMMA Within ==
    ASSUME Roomy, NEW k \in Nat, NEW hi \in Nat, NEW m \in 0 .. hi, NEW n \in 1 .. hi,
           hi < n + Lag, k + m >= 1, m >= n \/ n - m <= InFlight
    PROVE  /\ Newer(Nth(k, n), Nth(k, m)) <=> n > m
           /\ m >= n => Minus(Nth(k, m), Nth(k, n)) = m - n
           /\ n >= m => Minus(Nth(k, n), Nth(k, m)) = n - m
<1>1. /\ Lag \in Nat /\ Lag + InFlight <= Half /\ Half \in Nat \ {0} /\ IdSpace = 2 * Half
      /\ InFlight \in Nat \ {0}
  BY RoomIs, Widths
<1>2. /\ n - m < Half /\ m - n < Half /\ m \in Nat /\ n \in Nat /\ k + n >= 1
      /\ (m >= n => m - n \in 0 .. IdSpace - 1) /\ (n >= m => n - m \in 0 .. IdSpace - 1)
  BY <1>1
<1> QED
  BY <1>2, NthIs

\* The marks when the id of a message not got yet is marked.
LEMMA MarkedSeen ==
    ASSUME Roomy, NEW p \in Peer, NEW k, NEW hi, Lined(p, k, hi), SeenRight(p, k, hi),
           NEW n \in 1 .. hi, hi < n + Lag, ~Got(p, n), NEW q, Lines(p, q, n),
           q.seen_any["reliable"] = TRUE,
           q.seen_newest["reliable"] = NewestAfter(p, "reliable", Nth(k, n)),
           q.seen["reliable"] = SeenAfter(p, "reliable", Nth(k, n))
    PROVE  SeenRight(q, k, hi)
<1> DEFINE c == "reliable"
           id == Nth(k, n)
           W == SeenWindow
           seen == p.seen[c]
           newest == p.seen_newest[c]
<1>1. /\ k \in Nat /\ hi \in Nat /\ Done(p) \in Nat /\ n \in Nat /\ n >= 1 /\ n <= hi
      /\ Done(p) <= hi /\ hi <= Done(p) + InFlight
  BY Counts DEF Lined
<1>2. /\ Lag \in Nat /\ Lag + InFlight <= Half /\ W \in Nat \ {0} /\ InFlight \in Nat \ {0}
      /\ InFlight <= W /\ Half \in Nat /\ W <= Half
  BY RoomIs, Widths
<1>3. seen \subseteq 0 .. W - 1
  BY DEF Peer, Channels
<1>4. n > Done(p) /\ \A x \in Nat : x <= Done(p) => Got(p, x)
  BY <1>1 DEF Got
<1> HIDE DEF W, seen, newest
<1>5. ASSUME NEW m \in 0 .. hi, k + m >= 1, q.seen_newest[c] = Nth(k, m),
             \A x \in Nat : Got(q, x) => x <= m,
             \A j \in 0 .. W - 1 : m - j >= 1 => (j \in q.seen[c] <=> Got(q, m - j))
      PROVE  SeenRight(q, k, hi)
  <2>1. SeenTo(q, k, m)
    BY <1>5 DEF SeenTo, W
  <2> QED
    BY <2>1 DEF SeenRight
<1>6. CASE ~p.seen_any[c]
  <2>1. k = 0 /\ \A x \in Nat : Got(p, x) => x = 0
    BY <1>6 DEF SeenRight
  <2>2. q.seen_newest[c] = id
    BY <1>6 DEF NewestAfter
  <2>3. q.seen[c] = ({x + W : x \in seen} \union {Minus(id, id)}) \intersect 0 .. W - 1
    BY <1>6 DEF SeenAfter, NewestAfter, W, seen
  <2>4. Minus(id, id) = 0
    <3>1. n - n \in 0 .. IdSpace - 1 /\ k + n >= 1 /\ n - n = 0
      BY <1>1, Widths
    <3> QED
      BY <1>1, <3>1, NthIs
  <2>5. \A j \in 0 .. W - 1 : j \in q.seen[c] <=> j = 0
    <3>1. \A x \in seen : x + W \notin 0 .. W - 1
      BY <1>2, <1>3
    <3> QED
      BY <1>2, <2>3, <2>4, <3>1
  <2>6. \A x \in Nat : Got(q, x) => x <= n
    BY <1>1, <2>1 DEF Lines
  <2>7. ASSUME NEW j \in 0 .. W - 1, n - j >= 1 PROVE j \in q.seen[c] <=> Got(q, n - j)
    <3>1. n - j \in Nat /\ (n - j = n <=> j = 0) /\ n - j # 0
      BY <1>1, <1>2, <2>7
    <3>2. Got(q, n - j) <=> n - j = n
      BY <2>1, <3>1 DEF Lines
    <3> QED
      BY <2>5, <3>1, <3>2
  <2>8. n \in 0 .. hi /\ k + n >= 1
    BY <1>1
  <2> QED
    BY <1>5, <2>2, <2>6, <2>7, <2>8
<1>7. CASE p.seen_any[c]
  <2>1. PICK m \in 0 .. hi : SeenTo(p, k, m)
    BY <1>7 DEF SeenRight
  <2>2. /\ m \in Nat /\ m <= hi /\ k + m >= 1 /\ newest = Nth(k, m)
        /\ \A x \in Nat : Got(p, x) => x <= m
        /\ \A j \in 0 .. W - 1 : m - j >= 1 => (j \in seen <=> Got(p, m - j))
    BY <1>1, <2>1 DEF SeenTo, W, seen, newest
  <2>3. Done(p) <= m
    BY <1>1, <1>4, <2>2
  <2>4. m >= n \/ n - m <= InFlight
    BY <1>1, <1>2, <2>2, <2>3
  <2>5. /\ Newer(id, newest) <=> n > m
        /\ m >= n => Minus(newest, id) = m - n
        /\ n >= m => Minus(id, newest) = n - m
    BY <1>1, <2>2, <2>4, Within
  <2>6. CASE n > m
    <3> DEFINE d == n - m
    <3>1. q.seen_newest[c] = id /\ d \in Nat /\ d >= 1
      BY <1>1, <1>7, <2>2, <2>5, <2>6 DEF NewestAfter, newest
    <3>2. q.seen[c] = ({x + d : x \in seen} \union {Minus(id, id)}) \intersect 0 .. W - 1
      <4>1. Minus(id, newest) = d
        BY <1>1, <2>2, <2>5, <2>6
      <4> QED
        BY <1>7, <2>5, <2>6, <4>1 DEF SeenAfter, NewestAfter, W, seen, newest
    <3>3. Minus(id, id) = 0
      <4>1. n - n \in 0 .. IdSpace - 1 /\ k + n >= 1 /\ n - n = 0
        BY <1>1, Widths
      <4> QED
        BY <1>1, <4>1, NthIs
    <3>4. n = m + d
      BY <1>1, <2>2
    <3> HIDE DEF d
    <3>5. \A x \in Nat : Got(q, x) => x <= n
      BY <1>1, <2>2, <2>6 DEF Lines
    <3>6. ASSUME NEW j \in 0 .. W - 1, n - j >= 1 PROVE j \in q.seen[c] <=> Got(q, n - j)
      <4>1. n - j \in Nat /\ (n - j = n <=> j = 0)
        BY <1>1, <1>2, <3>6
      <4>2. Got(q, n - j) <=> Got(p, n - j) \/ j = 0
        BY <4>1 DEF Lines
      <4>3. j \in q.seen[c] <=> j = 0 \/ \E x \in seen : j = x + d
        BY <3>2, <3>3
      <4>4. CASE j < d
        <5>1. \A x \in seen : j # x + d
          BY <1>2, <1>3, <3>1, <4>4
        <5>2. n - j > m
          BY <1>1, <2>2, <3>1, <3>4, <4>4
        <5>3. ~Got(p, n - j)
          BY <2>2, <4>1, <5>2
        <5> QED
          BY <4>2, <4>3, <5>1, <5>3
      <4>5. CASE j >= d
        <5> DEFINE i == j - d
        <5>1. i \in 0 .. W - 1 /\ m - i = n - j /\ m - i >= 1 /\ j = i + d
          BY <1>1, <1>2, <2>2, <3>1, <3>4, <3>6, <4>5
        <5>2. \A x \in seen : j = x + d => x = i
          BY <1>2, <1>3, <3>1
        <5> HIDE DEF i
        <5>3. i \in seen <=> Got(p, n - j)
          BY <2>2, <5>1
        <5>4. j # 0
          BY <1>2, <3>1, <4>5
        <5> QED
          BY <4>2, <4>3, <5>1, <5>2, <5>3, <5>4
      <4> QED
        BY <1>2, <3>1, <4>4, <4>5
    <3>7. n \in 0 .. hi /\ k + n >= 1
      BY <1>1
    <3> QED
      BY <1>5, <3>1, <3>5, <3>6, <3>7
  <2>7. CASE n <= m
    <3>1. q.seen_newest[c] = newest
      BY <1>1, <1>7, <2>2, <2>5, <2>7 DEF NewestAfter, newest
    <3>2. q.seen[c] = (seen \union {m - n}) \intersect 0 .. W - 1
      <4>1. Minus(newest, id) = m - n /\ ~Newer(id, newest)
        BY <1>1, <2>2, <2>5, <2>7
      <4> QED
        BY <1>7, <4>1 DEF SeenAfter, NewestAfter, W, seen, newest
    <3>3. m - n \in 0 .. W - 1
      BY <1>1, <1>2, <1>4, <2>2, <2>7
    <3>4. \A x \in Nat : Got(q, x) => x <= m
      BY <1>1, <2>2, <2>7 DEF Lines
    <3>5. ASSUME NEW j \in 0 .. W - 1, m - j >= 1 PROVE j \in q.seen[c] <=> Got(q, m - j)
      <4>1. m - j \in Nat /\ (m - j = n <=> j = m - n)
        BY <1>1, <1>2, <2>2, <3>5
      <4>2. Got(q, m - j) <=> Got(p, m - j) \/ j = m - n
        BY <4>1 DEF Lines
      <4>3. j \in q.seen[c] <=> j \in seen \/ j = m - n
        BY <3>2
      <4> QED
        BY <2>2, <3>5, <4>2, <4>3
    <3> QED
      BY <1>5, <2>2, <3>1, <3>4, <3>5
  <2> QED
    BY <1>1, <2>2, <2>6, <2>7
<1> QED
  BY <1>6, <1>7

\* A message not got yet finds room in line.
LEMMA RoomInLine ==
    ASSUME NEW p \in Peer, NEW k, NEW hi, Lined(p, k, hi), NEW n \in 1 .. hi, ~Got(p, n)
    PROVE  Len(p.incoming_reliable) < InFlight
<1> DEFINE row == p.incoming_reliable
           L == Len(row)
           d == Done(p)
           T == (d + 1 .. hi) \ {n}
           f == [i \in 1 .. L |-> row[i].n]
<1>1. /\ L \in Nat /\ d \in Nat /\ hi \in Nat /\ InFlight \in Nat /\ hi <= d + InFlight /\ d <= hi
      /\ n \in Nat /\ n >= 1 /\ n <= hi /\ n > d
  BY Counts, Widths DEF Lined, Got
<1>2. /\ \A i \in 1 .. L : row[i].n \in d + 1 .. hi /\ row[i].n # n
      /\ \A i, j \in 1 .. L : row[i].n = row[j].n => i = j
  BY DEF Lined, Got
<1> HIDE DEF row, L, d
<1>3. f \in [1 .. L -> T]
  BY <1>2
<1>4. IsFiniteSet(T) /\ Cardinality(T) = (hi - (d + 1) + 1) - 1
  <2> DEFINE I == d + 1 .. hi
  <2>1. IsFiniteSet(I) /\ Cardinality(I) = hi - (d + 1) + 1 /\ n \in I
    <3>1. d + 1 \in Int /\ hi \in Int /\ ~(d + 1 > hi) /\ n \in d + 1 .. hi
      BY <1>1
    <3> QED
      BY <3>1, FS_Interval
  <2> HIDE DEF I
  <2>2. IsFiniteSet(I \ {n}) /\ Cardinality(I \ {n}) = Cardinality(I) - 1
    BY <2>1, FS_RemoveElement
  <2> QED
    BY <2>1, <2>2 DEF I
<1>5. IsFiniteSet(1 .. L) /\ Cardinality(1 .. L) = L
  BY <1>1, FS_Interval
<1>6. ASSUME L >= InFlight PROVE FALSE
  <2>1. Cardinality(T) < Cardinality(1 .. L)
    BY <1>1, <1>4, <1>5, <1>6
  <2> HIDE DEF T, f
  <2>2. \E i, j \in 1 .. L : i # j /\ f[i] = f[j]
    BY <1>3, <1>4, <1>5, <2>1, FS_PigeonHole
  <2> QED
    BY <1>2, <2>2 DEF f
<1> QED
  BY <1>1, <1>6 DEF L, row

\* A message put in line.
LEMMA WaitsLined ==
    ASSUME NEW p \in Peer, NEW k, NEW hi, Lined(p, k, hi), NEW n \in 1 .. hi, ~Got(p, n),
           NEW q \in Peer, q.delivered = p.delivered, q.next_delivery_id = p.next_delivery_id,
           q.incoming_reliable = Append(p.incoming_reliable, [id |-> Nth(k, n), n |-> n])
    PROVE  Lined(q, k, hi) /\ Lines(p, q, n) /\ Done(q) = Done(p)
<1> DEFINE row == p.incoming_reliable
           m == [id |-> Nth(k, n), n |-> n]
           L == Len(row)
           d == Done(p)
<1>1. /\ L \in Nat /\ d \in Nat /\ hi \in Nat /\ k \in Nat /\ n \in Nat /\ n >= 1 /\ n <= hi /\ n > d
      /\ row \in Seq(Waiting)
  BY Counts DEF Lined, Got
<1>2. m \in Waiting /\ m.n = n /\ m.id = Nth(k, n)
  <2>1. k + n >= 1
    BY <1>1
  <2>2. Nth(k, n) \in Ids
    BY <1>1, <2>1, NthIs
  <2> QED
    BY <1>1, <2>2 DEF Waiting
<1>3. Done(q) = d
  BY DEF Done
<1> HIDE DEF row, L, d, m
<1>4. /\ Len(q.incoming_reliable) = L + 1 /\ q.incoming_reliable[L + 1] = m
      /\ \A i \in 1 .. L : q.incoming_reliable[i] = row[i]
  <2>1. q.incoming_reliable = Append(row, m)
    BY DEF row, m
  <2> QED
    BY <1>1, <1>2, <2>1, AppendProperties, SMTT(60) DEF L
<1>5. /\ \A i \in 1 .. L : row[i].n \in d + 1 .. hi /\ row[i].id = Nth(k, row[i].n) /\ row[i].n # n
      /\ \A i, j \in 1 .. L : row[i].n = row[j].n => i = j
  BY DEF Lined, Got, L, row, d
<1>6. \A i \in 1 .. L + 1 : i \in 1 .. L \/ i = L + 1
  BY <1>1
<1>7. \A x \in Nat : Got(q, x) <=> Got(p, x) \/ x = n
  <2> SUFFICES ASSUME NEW x \in Nat PROVE Got(q, x) <=> Got(p, x) \/ x = n
    OBVIOUS
  <2>1. (\E i \in 1 .. L + 1 : q.incoming_reliable[i].n = x) <=>
        (\E i \in 1 .. L : row[i].n = x) \/ x = n
    <3>1. 1 .. L \subseteq 1 .. L + 1 /\ L + 1 \in 1 .. L + 1
      BY <1>1
    <3> QED
      BY <1>2, <1>4, <1>6, <3>1
  <2>2. Got(p, x) <=> x <= d \/ \E i \in 1 .. L : row[i].n = x
    BY DEF Got, d, row, L
  <2>3. Got(q, x) <=> x <= d \/ \E i \in 1 .. L + 1 : q.incoming_reliable[i].n = x
    BY <1>3, <1>4 DEF Got
  <2> QED
    BY <2>1, <2>2, <2>3
<1>8. \A i \in 1 .. L + 1 : /\ q.incoming_reliable[i].n \in d + 1 .. hi
                            /\ q.incoming_reliable[i].id = Nth(k, q.incoming_reliable[i].n)
  <2>1. n \in d + 1 .. hi
    BY <1>1
  <2> QED
    BY <1>2, <1>4, <1>5, <1>6, <2>1
<1>9. \A i, j \in 1 .. L + 1 : q.incoming_reliable[i].n = q.incoming_reliable[j].n => i = j
  BY <1>2, <1>4, <1>5, <1>6
<1>10. /\ k \in Nat /\ hi \in Nat /\ q.next_delivery_id = Nth(k, d + 1) /\ d <= hi
       /\ hi <= d + InFlight /\ \A i \in 1 .. d : q.delivered["reliable"][i] = i
  BY DEF Lined, d
<1>11. Lined(q, k, hi)
  BY <1>3, <1>4, <1>8, <1>9, <1>10 DEF Lined
<1> QED
  BY <1>3, <1>7, <1>11 DEF Lines, d

\* What the next one handed over leaves got and in line.
LEMMA HandedLined ==
    ASSUME Roomy, NEW p \in Peer, NEW k, NEW hi, Lined(p, k, hi), NEW i \in NextHeld(p)
    PROVE  LET q == Handed(p, i) IN
           /\ q \in Peer /\ Lined(q, k, hi) /\ Done(q) = Done(p) + 1
           /\ \A x \in Nat : Got(q, x) <=> Got(p, x)
<1> DEFINE row == p.incoming_reliable
           L == Len(row)
           d == Done(p)
           q == Handed(p, i)
           r == RemoveAt(row, i)
<1>1. /\ L \in Nat /\ d \in Nat /\ hi \in Nat /\ k \in Nat /\ row \in Seq(Waiting)
      /\ d <= hi /\ hi <= d + InFlight /\ i \in 1 .. L /\ row[i].id = p.next_delivery_id
      /\ p.delivered["reliable"] \in Seq(Nat)
  BY Counts DEF Lined, NextHeld
<1>2. /\ \A j \in 1 .. L : row[j].n \in d + 1 .. hi /\ row[j].id = Nth(k, row[j].n)
      /\ \A j, l \in 1 .. L : row[j].n = row[l].n => j = l
      /\ p.next_delivery_id = Nth(k, d + 1) /\ \A j \in 1 .. d : p.delivered["reliable"][j] = j
  BY DEF Lined
<1>3. /\ q \in Peer /\ q.next_delivery_id = (p.next_delivery_id + 1) % IdSpace
      /\ q.incoming_reliable = r
      /\ q.delivered = [p.delivered EXCEPT !["reliable"] = Append(@, row[i].n)]
  BY <1>1, HandedIs
<1> HIDE DEF q
<1>4. /\ Len(r) = L - 1 /\ \A j \in 1 .. L - 1 : r[j] = row[IF j < i THEN j ELSE j + 1]
  <2>1. i \in 1 .. Len(row) /\ row \in Seq(Waiting)
    BY <1>1
  <2> HIDE DEF row
  <2> QED
    BY <2>1, RemoveAtIs DEF L
<1> HIDE DEF r
<1>5. row[i].n = d + 1
  <2> DEFINE n == row[i].n
  <2>1. n \in d + 1 .. hi /\ Nth(k, n) = Nth(k, d + 1)
    BY <1>1, <1>2
  <2> HIDE DEF n, d, row
  <2>2. /\ n \in Nat /\ d + 1 \in Nat /\ k + n >= 1 /\ k + (d + 1) >= 1
        /\ n - (d + 1) < IdSpace /\ (d + 1) - n < IdSpace
    BY <1>1, <2>1, Widths
  <2>3. n = d + 1
    BY <1>1, <2>1, <2>2, NthIs
  <2> QED
    BY <2>3 DEF n
<1>6. /\ q.delivered["reliable"] = Append(p.delivered["reliable"], d + 1)
      /\ Done(q) = d + 1
      /\ \A j \in 1 .. d + 1 : q.delivered["reliable"][j] = j
  <2> DEFINE e == p.delivered["reliable"]
             e2 == q.delivered["reliable"]
  <2>1. e2 = Append(e, d + 1)
    BY <1>3, <1>5 DEF Peer, Channels
  <2>2. e \in Seq(Nat) /\ Len(e) = d /\ \A j \in 1 .. d : e[j] = j
    BY <1>1, <1>2 DEF Done
  <2> HIDE DEF e, d
  <2>3. Len(e2) = d + 1 /\ e2[d + 1] = d + 1 /\ \A j \in 1 .. d : e2[j] = e[j]
    <3>1. d + 1 \in Nat
      BY <1>1
    <3> HIDE DEF e2
    <3> QED
      BY <2>1, <2>2, <3>1, AppendProperties
  <2> HIDE DEF e2
  <2>4. \A j \in 1 .. d + 1 : e2[j] = j
    BY <1>1, <2>2, <2>3
  <2> QED
    BY <2>1, <2>3, <2>4 DEF e, e2, Done
<1> HIDE DEF row, L, d
<1> DEFINE from(j) == IF j < i THEN j ELSE j + 1
<1>7. \A j \in 1 .. L - 1 : from(j) \in 1 .. L /\ from(j) # i /\ r[j] = row[from(j)]
  BY <1>1, <1>4
<1>8. \A j, l \in 1 .. L - 1 : from(j) = from(l) => j = l
  BY <1>1
<1>9. \A l \in 1 .. L : l # i => \E j \in 1 .. L - 1 : from(j) = l
  <2> SUFFICES ASSUME NEW l \in 1 .. L, l # i PROVE \E j \in 1 .. L - 1 : from(j) = l
    OBVIOUS
  <2>1. CASE l < i
    <3>1. l \in 1 .. L - 1 /\ from(l) = l
      BY <1>1, <2>1
    <3> QED
      BY <3>1
  <2>2. CASE l > i
    <3>1. l - 1 \in 1 .. L - 1 /\ from(l - 1) = l
      BY <1>1, <2>2
    <3> QED
      BY <3>1
  <2> QED
    BY <1>1, <2>1, <2>2
<1> HIDE DEF from
<1>10. \A j \in 1 .. L - 1 : r[j].n \in (d + 1) + 1 .. hi /\ r[j].id = Nth(k, r[j].n)
  <2> SUFFICES ASSUME NEW j \in 1 .. L - 1
               PROVE  r[j].n \in (d + 1) + 1 .. hi /\ r[j].id = Nth(k, r[j].n)
    OBVIOUS
  <2> DEFINE n == r[j].n
  <2>1. n \in d + 1 .. hi /\ r[j].id = Nth(k, n) /\ n # d + 1
    BY <1>1, <1>2, <1>5, <1>7
  <2> HIDE DEF n
  <2>2. n \in (d + 1) + 1 .. hi
    BY <1>1, <2>1
  <2> QED
    BY <2>1, <2>2 DEF n
<1>11. \A j, l \in 1 .. L - 1 : r[j].n = r[l].n => j = l
  BY <1>2, <1>7, <1>8
<1>12. \A x \in Nat : Got(q, x) <=> Got(p, x)
  <2> SUFFICES ASSUME NEW x \in Nat PROVE Got(q, x) <=> Got(p, x)
    OBVIOUS
  <2>1. Got(p, x) <=> x <= d \/ \E l \in 1 .. L : row[l].n = x
    BY DEF Got, d, row, L
  <2>2. Got(q, x) <=> x <= d + 1 \/ \E j \in 1 .. L - 1 : r[j].n = x
    BY <1>3, <1>4, <1>6 DEF Got
  <2>3. (\E l \in 1 .. L : row[l].n = x) <=> x = d + 1 \/ \E j \in 1 .. L - 1 : r[j].n = x
    <3>1. ASSUME NEW l \in 1 .. L, row[l].n = x
          PROVE  x = d + 1 \/ \E j \in 1 .. L - 1 : r[j].n = x
      <4>1. CASE l = i
        BY <1>5, <3>1, <4>1
      <4>2. CASE l # i
        <5>1. PICK j \in 1 .. L - 1 : from(j) = l
          BY <1>9, <4>2
        <5>2. r[j].n = x
          BY <1>7, <3>1, <5>1
        <5> QED
          BY <5>2
      <4> QED
        BY <4>1, <4>2
    <3>2. ASSUME x = d + 1 PROVE \E l \in 1 .. L : row[l].n = x
      BY <1>1, <1>5, <3>2
    <3>3. ASSUME NEW j \in 1 .. L - 1, r[j].n = x PROVE \E l \in 1 .. L : row[l].n = x
      BY <1>7, <3>3
    <3> QED
      BY <3>1, <3>2, <3>3
  <2>4. x <= d + 1 <=> x <= d \/ x = d + 1
    BY <1>1
  <2> QED
    BY <2>1, <2>2, <2>3, <2>4
<1>13. q.next_delivery_id = Nth(k, (d + 1) + 1)
  <2>1. (Nth(k, d + 1) + 1) % IdSpace = Nth(k, (d + 1) + 1)
    BY <1>1, NthNext
  <2> QED
    BY <1>2, <1>3, <2>1
<1>14. d + 1 <= hi /\ hi <= (d + 1) + InFlight
  <2>1. d + 1 \in d + 1 .. hi /\ InFlight \in Nat
    BY <1>1, <1>2, <1>5, Widths
  <2> QED
    BY <1>1, <2>1
<1>15. Lined(q, k, hi)
  BY <1>1, <1>3, <1>4, <1>6, <1>10, <1>11, <1>13, <1>14 DEF Lined
<1> QED
  BY <1>3, <1>6, <1>12, <1>15 DEF q, d

\* What keeps the line in order.
InLine(p, k, hi) == p \in Peer /\ Lined(p, k, hi) /\ SeenRight(p, k, hi)
Passes(p, k, hi) ==
    {q \in Peer : /\ SameHearing(p, q) /\ SameSaying(p, q) /\ SameSlots(p, q)
                  /\ InLine(q, k, hi) /\ Done(p) <= Done(q)
                  /\ \A x \in Nat : Got(q, x) <=> Got(p, x)}

\* The marks hang on what is got.
LEMMA SeenAlike ==
    ASSUME NEW p, NEW q, NEW k, NEW hi, SeenRight(p, k, hi), SameSeen(p, q),
           \A x \in Nat : Got(q, x) <=> Got(p, x), hi \in Nat
    PROVE  SeenRight(q, k, hi)
<1>1. CASE p.seen_any["reliable"]
  <2>1. PICK m \in 0 .. hi : SeenTo(p, k, m)
    BY <1>1 DEF SeenRight
  <2>2. SeenTo(q, k, m)
    <3>1. \A j \in 0 .. SeenWindow - 1 : m - j >= 1 => m - j \in Nat
      BY Widths
    <3> QED
      BY <2>1, <3>1 DEF SeenTo, SameSeen
  <2> QED
    BY <1>1, <2>2 DEF SeenRight, SameSeen
<1>2. CASE ~p.seen_any["reliable"]
  BY <1>2 DEF SeenRight, SameSeen
<1> QED
  BY <1>1, <1>2

\* What is in order in line is handed over.
LEMMA DrainPasses ==
    ASSUME Roomy, NEW p, NEW k, NEW hi, InLine(p, k, hi)
    PROVE  DrainOrdered(p) \in Passes(p, k, hi)
<1> DEFINE S == Passes(p, k, hi)
           count == Len(p.incoming_reliable)
<1>1. p \in Peer /\ count \in Nat /\ hi \in Nat /\ Done(p) \in Nat
  BY Counts DEF InLine, Lined
<1>2. p \in S
  BY <1>1 DEF Passes, SameHearing, SameSaying, SamePlan, SameSlots
<1>3. ASSUME NEW r \in S PROVE DrainOne(r) \in S
  <2>1. /\ r \in Peer /\ SameHearing(p, r) /\ SameSaying(p, r) /\ SameSlots(p, r)
        /\ Lined(r, k, hi) /\ SeenRight(r, k, hi) /\ Done(p) <= Done(r) /\ Done(r) \in Nat
        /\ \A x \in Nat : Got(r, x) <=> Got(p, x)
    BY Counts DEF Passes, InLine
  <2>2. ASSUME NEW i \in NextHeld(r) PROVE Handed(r, i) \in S
    <3> DEFINE q == Handed(r, i)
    <3>1. i \in 1 .. Len(r.incoming_reliable)
      BY DEF NextHeld
    <3>2. SameHearing(r, q) /\ SameSaying(r, q) /\ SameSlots(r, q) /\ SameSeen(r, q)
      BY <2>1, <3>1, HandedIs
    <3>3. /\ q \in Peer /\ Lined(q, k, hi) /\ Done(q) = Done(r) + 1
          /\ \A x \in Nat : Got(q, x) <=> Got(r, x)
      BY <2>1, HandedLined
    <3> HIDE DEF q
    <3>4. SeenRight(q, k, hi)
      BY <1>1, <2>1, <3>2, <3>3, SeenAlike
    <3>5. SameHearing(p, q) /\ SameSaying(p, q) /\ SameSlots(p, q)
      BY <2>1, <3>2 DEF SameHearing, SameSaying, SamePlan, SameSlots
    <3>6. Done(p) <= Done(q) /\ \A x \in Nat : Got(q, x) <=> Got(p, x)
      BY <1>1, <2>1, <3>3
    <3>7. q \in S
      BY <3>3, <3>4, <3>5, <3>6 DEF Passes, InLine
    <3> QED
      BY <3>7 DEF q
  <2> HIDE DEF S
  <2> QED
    BY <2>1, <2>2, DrainOneIs
<1> QED
  <2> HIDE DEF S
  <2>1. DrainOrdered(p) \in S
    BY <1>1, <1>2, <1>3, DrainIn
  <2> QED
    BY <2>1 DEF S

\* A whole message of the reliable channel, not got yet, is put in line.
LEMMA TakeReliable ==
    ASSUME Roomy, NEW p, NEW k, NEW hi, InLine(p, k, hi), NEW n \in 1 .. hi, hi < n + Lag
    PROVE  LET q == TakeMessage(p, "reliable", Nth(k, n), n) IN
           /\ SameHearing(p, q) /\ SameSaying(p, q) /\ SameSlots(p, q)
           /\ InLine(q, k, hi) /\ Done(p) <= Done(q)
           /\ \A x \in Nat : Got(q, x) <=> Got(p, x) \/ x = n
<1> DEFINE c == "reliable"
           id == Nth(k, n)
           w == [id |-> id, n |-> n]
           m == MarkSeen(p, c, id)
           v == Waits(m, w)
           r == DrainOrdered(v)
           q == TakeMessage(p, c, id, n)
<1>1. /\ p \in Peer /\ Lined(p, k, hi) /\ SeenRight(p, k, hi) /\ k \in Nat /\ hi \in Nat
      /\ n \in Nat /\ c \in Channels /\ Done(p) \in Nat
  BY Counts DEF InLine, Lined, Channels
<1>2. id \in Ids
  BY <1>1, NthIs
<1>3. w \in Waiting
  BY <1>1, <1>2 DEF Waiting
<1>4. IsSeen(p, c, id) <=> Got(p, n)
  BY <1>1, TakenFor
<1>5. q = IF IsSeen(p, c, id) THEN p
          ELSE IF c = "unreliable" THEN Deliver(m, c, n)
          ELSE IF Len(m.incoming_reliable) >= InFlight THEN Removed(m, "protocol")
          ELSE r
  BY Zenon DEF TakeMessage, Waits
<1>6. CASE Got(p, n)
  <2>1. q = p
    BY <1>4, <1>5, <1>6
  <2> QED
    BY <1>1, <1>6, <2>1 DEF SameHearing, SameSaying, SamePlan, SameSlots
<1>7. CASE ~Got(p, n)
  <2>1. /\ m \in Peer /\ SameHearing(p, m) /\ SameSaying(p, m) /\ SameQueue(p, m)
        /\ SameSlots(p, m) /\ m.delivered = p.delivered
        /\ m.seen_any = [p.seen_any EXCEPT ![c] = TRUE]
        /\ m.seen_newest = [p.seen_newest EXCEPT ![c] = NewestAfter(p, c, id)]
        /\ m.seen = [p.seen EXCEPT ![c] = SeenAfter(p, c, id)]
    BY <1>1, <1>2, MarkSeenIs
  <2> HIDE DEF m
  <2>2. m.seen_any[c] = TRUE /\ m.seen_newest[c] = NewestAfter(p, c, id)
        /\ m.seen[c] = SeenAfter(p, c, id)
    BY <1>1, <2>1 DEF Peer
  <2>3. Len(m.incoming_reliable) < InFlight /\ Len(m.incoming_reliable) \in Nat /\ InFlight \in Nat
    BY <1>1, <1>7, <2>1, RoomInLine, Counts, Widths DEF SameQueue
  <2>4. /\ v \in Peer /\ SameHearing(m, v) /\ SameSaying(m, v) /\ SameSlots(m, v)
        /\ SameSeen(m, v) /\ v.delivered = m.delivered
        /\ v.next_delivery_id = m.next_delivery_id
        /\ v.incoming_reliable = Append(m.incoming_reliable, w)
    BY <1>3, <2>1, WaitsIs
  <2> HIDE DEF v
  <2>5. Lined(v, k, hi) /\ Lines(p, v, n) /\ Done(v) = Done(p)
    BY <1>1, <1>7, <2>1, <2>4, WaitsLined DEF SameQueue
  <2>6. SeenRight(v, k, hi)
    <3>1. /\ v.seen_any["reliable"] = TRUE
          /\ v.seen_newest["reliable"] = NewestAfter(p, "reliable", Nth(k, n))
          /\ v.seen["reliable"] = SeenAfter(p, "reliable", Nth(k, n))
      BY <2>2, <2>4 DEF SameSeen
    <3> QED
      BY <1>1, <1>7, <2>5, <3>1, MarkedSeen
  <2>7. r \in Passes(v, k, hi)
    BY <2>4, <2>5, <2>6, DrainPasses DEF InLine
  <2>8. q = r
    BY <1>4, <1>5, <1>7, <2>3
  <2> HIDE DEF r, q
  <2>9. /\ SameHearing(v, r) /\ SameSaying(v, r) /\ SameSlots(v, r) /\ InLine(r, k, hi)
        /\ Done(v) <= Done(r) /\ \A x \in Nat : Got(r, x) <=> Got(v, x)
    BY <2>7 DEF Passes
  <2>10. SameHearing(p, r) /\ SameSaying(p, r) /\ SameSlots(p, r)
    BY <2>1, <2>4, <2>9 DEF SameHearing, SameSaying, SamePlan, SameSlots
  <2>11. \A x \in Nat : Got(r, x) <=> Got(p, x) \/ x = n
    BY <2>5, <2>9 DEF Lines
  <2> QED
    BY <2>5, <2>8, <2>9, <2>10, <2>11 DEF q
<1> QED
  BY <1>6, <1>7

\* One of the unreliable channel leaves the line alone.
LEMMA TakeUnreliable ==
    ASSUME NEW p, NEW k, NEW hi, InLine(p, k, hi), NEW id \in Ids, NEW n \in Nat
    PROVE  TakeMessage(p, "unreliable", id, n) \in Passes(p, k, hi)
<1> DEFINE c == "unreliable"
           m == MarkSeen(p, c, id)
           d == Deliver(m, c, n)
<1>1. /\ p \in Peer /\ Lined(p, k, hi) /\ SeenRight(p, k, hi) /\ hi \in Nat /\ Done(p) \in Nat
      /\ c \in Channels /\ "reliable" \in Channels /\ c # "reliable"
  BY Counts DEF InLine, Lined, Channels
<1>2. TakeMessage(p, c, id, n) = IF IsSeen(p, c, id) THEN p ELSE d
  BY Zenon DEF TakeMessage
<1>3. p \in Passes(p, k, hi)
  BY <1>1 DEF Passes, InLine, SameHearing, SameSaying, SamePlan, SameSlots
<1>4. /\ m \in Peer /\ SameHearing(p, m) /\ SameSaying(p, m) /\ SameQueue(p, m)
      /\ SameSlots(p, m) /\ m.delivered = p.delivered
      /\ m.seen_any = [p.seen_any EXCEPT ![c] = TRUE]
      /\ m.seen_newest = [p.seen_newest EXCEPT ![c] = NewestAfter(p, c, id)]
      /\ m.seen = [p.seen EXCEPT ![c] = SeenAfter(p, c, id)]
  BY <1>1, MarkSeenIs
<1> HIDE DEF m
<1>5. /\ d \in Peer /\ SameHearing(m, d) /\ SameSaying(m, d) /\ SameQueue(m, d)
      /\ SameSlots(m, d) /\ SameSeen(m, d)
      /\ d.delivered = [m.delivered EXCEPT ![c] = Append(@, n)]
  <2> HIDE DEF c
  <2>1. m \in Peer /\ c \in Channels
    BY <1>1, <1>4
  <2>2. d \in Handings(m, c, n)
    BY <2>1, DeliverIn
  <2> HIDE DEF d
  <2> QED
    BY <2>2 DEF Handings
<1> HIDE DEF d
<1>6. /\ d.seen_any["reliable"] = p.seen_any["reliable"]
      /\ d.seen_newest["reliable"] = p.seen_newest["reliable"]
      /\ d.seen["reliable"] = p.seen["reliable"]
      /\ d.delivered["reliable"] = p.delivered["reliable"]
  BY <1>1, <1>4, <1>5 DEF Peer, SameSeen
<1>7. /\ d.next_delivery_id = p.next_delivery_id /\ d.incoming_reliable = p.incoming_reliable
      /\ Done(d) = Done(p)
  BY <1>4, <1>5, <1>6 DEF SameQueue, Done
<1>8. \A x \in Nat : Got(d, x) <=> Got(p, x)
  BY <1>7 DEF Got
<1>9. Lined(d, k, hi)
  BY <1>1, <1>6, <1>7 DEF Lined
<1>10. SeenRight(d, k, hi)
  <2>1. \A m0 \in 0 .. hi : SeenTo(p, k, m0) => SeenTo(d, k, m0)
    <3>1. \A m0 \in 0 .. hi, j \in 0 .. SeenWindow - 1 : m0 - j >= 1 => m0 - j \in Nat
      BY <1>1, Widths
    <3> QED
      BY <1>6, <1>8, <3>1 DEF SeenTo
  <2> QED
    BY <1>1, <1>6, <1>8, <2>1 DEF SeenRight
<1>11. d \in Passes(p, k, hi)
  <2>1. SameHearing(p, d) /\ SameSaying(p, d) /\ SameSlots(p, d)
    BY <1>4, <1>5 DEF SameHearing, SameSaying, SamePlan, SameSlots
  <2> QED
    BY <1>1, <1>5, <1>7, <1>8, <1>9, <1>10, <2>1 DEF Passes, InLine
<1> QED
  BY <1>2, <1>3, <1>11

-----------------------------------------------------------------------------
(* What the slots hold of the reliable channel *)

SlotRight(p, v, k, plan, hi) ==
    \E n \in 1 .. hi : /\ ~Got(p, n) /\ v.id = Nth(k, n) /\ plan[n] > 1
                       /\ \A f \in v.received : f.channel = "reliable" /\ f.n = n
Reliables(p) == {s \in ActiveSlots(p) : p.reassembly[s].channel = "reliable"}
SlotsRight(p, k, plan, hi) ==
    /\ \A s \in Reliables(p) : SlotRight(p, p.reassembly[s], k, plan, hi)
    /\ \A r, s \in Reliables(p) : p.reassembly[r].id = p.reassembly[s].id => r = s
Taken(p, k, plan, hi) == InLine(p, k, hi) /\ SlotsRight(p, k, plan, hi)
TakesOn(p, k, plan, hi) ==
    {q \in Peer : /\ SameHearing(p, q) /\ SameSaying(p, q) /\ Taken(q, k, plan, hi)
                  /\ Done(p) <= Done(q)}

\* Taken twice over.
LEMMA TakesFurther ==
    ASSUME NEW p \in Peer, NEW k, NEW plan, NEW hi, NEW q \in TakesOn(p, k, plan, hi),
           NEW r \in TakesOn(q, k, plan, hi)
    PROVE  r \in TakesOn(p, k, plan, hi)
<1>1. SameHearing(p, r) /\ SameSaying(p, r)
  BY DEF TakesOn, SameHearing, SameSaying, SamePlan
<1>2. Done(p) <= Done(q) /\ Done(q) <= Done(r) /\ Done(p) \in Nat /\ Done(q) \in Nat /\ Done(r) \in Nat
  BY Counts DEF TakesOn
<1>3. Done(p) <= Done(r)
  BY <1>2
<1> QED
  BY <1>1, <1>3 DEF TakesOn

\* A slot's message is not got, so long as it is not the one that was.
LEMMA SlotKept ==
    ASSUME NEW p, NEW q, NEW k, NEW plan, NEW hi \in Nat, NEW v, SlotRight(p, v, k, plan, hi), NEW n,
           \A x \in Nat : Got(q, x) => Got(p, x) \/ x = n, v.id # Nth(k, n)
    PROVE  SlotRight(q, v, k, plan, hi)
BY DEF SlotRight

\* One slot changed.
LEMMA SlotsKept ==
    ASSUME NEW p, NEW q, NEW k, NEW plan, NEW hi, SlotsRight(p, k, plan, hi), NEW s0 \in Slots,
           \A s \in Slots : s # s0 => q.reassembly[s] = p.reassembly[s],
           \A s \in Reliables(p) : s # s0 => SlotRight(q, p.reassembly[s], k, plan, hi),
           s0 \in Reliables(q) =>
               /\ SlotRight(q, q.reassembly[s0], k, plan, hi)
               /\ \A s \in Reliables(p) : s # s0 => p.reassembly[s].id # q.reassembly[s0].id
    PROVE  SlotsRight(q, k, plan, hi)
<1>1. \A s \in Reliables(q) : s # s0 => s \in Reliables(p) /\ q.reassembly[s] = p.reassembly[s]
  BY DEF Reliables, ActiveSlots
<1>2. \A s \in Reliables(q) : SlotRight(q, q.reassembly[s], k, plan, hi)
  BY <1>1
<1>3. ASSUME NEW r \in Reliables(q), NEW s \in Reliables(q), q.reassembly[r].id = q.reassembly[s].id
      PROVE  r = s
  <2>1. CASE r # s0 /\ s # s0
    BY <1>1, <1>3, <2>1 DEF SlotsRight
  <2>2. CASE r = s0 \/ s = s0
    BY <1>1, <1>3, <2>2
  <2> QED
    BY <2>1, <2>2
<1> QED
  BY <1>2, <1>3 DEF SlotsRight

\* A slot in which all is of one message makes that message.
LEMMA WholeIs ==
    ASSUME NEW v, NEW n, NEW c, v.received # {}, \A f \in v.received : f.channel = c /\ f.n = n
    PROVE  Whole(v) = n
<1> DEFINE from == {<<f.channel, f.n>> : f \in v.received}
<1>1. from = {<<c, n>>}
  OBVIOUS
<1>2. Whole(v) = IF Cardinality(from) = 1 THEN (CHOOSE m \in from : TRUE)[2] ELSE 0
  BY DEF Whole
<1> HIDE DEF from
<1>3. Cardinality(from) = 1
  BY <1>1, FS_Singleton
<1> DEFINE one == CHOOSE m \in from : TRUE
<1>4. one = <<c, n>>
  BY <1>1
<1>5. Whole(v) = one[2]
  BY <1>2, <1>3
<1> HIDE DEF one
<1>6. one[2] = n
  BY <1>4
<1> QED
  BY <1>5, <1>6

\* A slot replaced leaves the line alone.
LEMMA SlotInLine ==
    ASSUME NEW p, NEW k, NEW hi, InLine(p, k, hi), NEW q \in Peer, SameQueue(p, q),
           SameSeen(p, q), q.delivered = p.delivered
    PROVE  /\ InLine(q, k, hi) /\ Done(q) = Done(p)
           /\ \A x \in Nat : Got(q, x) <=> Got(p, x)
<1>1. /\ Done(q) = Done(p) /\ hi \in Nat
      /\ q.incoming_reliable = p.incoming_reliable /\ q.next_delivery_id = p.next_delivery_id
  BY DEF Done, SameQueue, InLine, Lined
<1>2. \A x \in Nat : Got(q, x) <=> Got(p, x)
  BY <1>1 DEF Got
<1>3. Lined(q, k, hi)
  BY <1>1 DEF InLine, Lined
<1>4. SeenRight(q, k, hi)
  BY <1>1, <1>2, SeenAlike DEF InLine
<1> QED
  BY <1>1, <1>2, <1>3, <1>4 DEF InLine

\* What a fragment may be.
Arrives(f, k, plan, hi) ==
    /\ f \in Frag /\ MeantBy(f, k, plan)
    /\ f.channel = "reliable" => f.n \in 1 .. hi /\ hi < f.n + Lag

\* A slot of the reliable channel holds a message whose id a fragment has.
SlotMeets(p, v, f, k, plan, hi) ==
    /\ SlotRight(p, v, k, plan, hi) /\ Arrives(f, k, plan, hi)
    /\ f.channel = "reliable" /\ v.id = f.id
    /\ k \in Nat /\ hi \in Nat /\ Done(p) \in Nat /\ hi <= Done(p) + InFlight

\* The message a slot of the reliable channel holds, when a fragment has its id.
LEMMA SlotOf ==
    ASSUME Roomy, NEW p, NEW k, NEW plan, NEW hi, NEW v, NEW f, SlotMeets(p, v, f, k, plan, hi)
    PROVE  /\ ~Got(p, f.n) /\ plan[f.n] > 1 /\ f.id = Nth(k, f.n)
           /\ \A h \in v.received : h.channel = "reliable" /\ h.n = f.n
<1>0. /\ SlotRight(p, v, k, plan, hi) /\ Arrives(f, k, plan, hi)
      /\ f.channel = "reliable" /\ v.id = f.id
      /\ k \in Nat /\ hi \in Nat /\ Done(p) \in Nat /\ hi <= Done(p) + InFlight
  BY DEF SlotMeets
<1>1. PICK n \in 1 .. hi : /\ ~Got(p, n) /\ v.id = Nth(k, n) /\ plan[n] > 1
                           /\ \A h \in v.received : h.channel = "reliable" /\ h.n = n
  BY <1>0 DEF SlotRight
<1>2. f.n \in 1 .. hi /\ hi < f.n + Lag /\ f.id = Nth(k, f.n)
  BY <1>0 DEF Arrives, MeantBy
<1>3. n = f.n
  <2> DEFINE m == f.n
  <2>1. m \in 1 .. hi /\ hi < m + Lag /\ Nth(k, n) = Nth(k, m)
    BY <1>0, <1>1, <1>2
  <2> HIDE DEF m
  <2>2. /\ Lag \in Nat /\ Lag + InFlight <= Half /\ IdSpace = 2 * Half /\ Half \in Nat
        /\ InFlight \in Nat
    BY RoomIs, Widths
  <2>3. n > Done(p)
    BY <1>0, <1>1 DEF Got
  <2>4. n - m < IdSpace /\ m - n < IdSpace
    BY <1>0, <2>1, <2>2, <2>3
  <2>5. k + n >= 1 /\ k + m >= 1 /\ n \in Nat /\ m \in Nat
    BY <1>0, <2>1
  <2>6. n = m
    BY <1>0, <2>1, <2>4, <2>5, NthIs
  <2> QED
    BY <2>6 DEF m
<1> QED
  BY <1>0, <1>1, <1>2, <1>3

\* A fragment filed in the slot of its message.
LEMMA FileTakes ==
    ASSUME Roomy, NEW p, NEW k, NEW plan, NEW hi, Taken(p, k, plan, hi), p.occupied,
           NEW f, Arrives(f, k, plan, hi), NEW s \in Matching(p, f)
    PROVE  FileFragment(p, s, f) \in TakesOn(p, k, plan, hi)
<1> DEFINE v == p.reassembly[s]
           w == With(v, f)
           q == Filed(p, s, f)
           r == Made(p, s, f)
           y == Freed(r, s)
           n == f.n
<1>1. /\ p \in Peer /\ InLine(p, k, hi) /\ SlotsRight(p, k, plan, hi) /\ f \in Frag
      /\ s \in Slots /\ v.active /\ v.id = f.id /\ v.channel = f.channel
      /\ k \in Nat /\ hi \in Nat /\ Done(p) \in Nat /\ hi <= Done(p) + InFlight
  BY Counts DEF Taken, InLine, Lined, Arrives, Matching, ActiveSlots
<1>2. /\ w \in Slot /\ w.active = v.active /\ w.channel = v.channel /\ w.id = v.id
      /\ w.received = v.received \union {f}
  BY <1>1, SlotTypes
<1>3. f.channel = "reliable" =>
        /\ ~Got(p, n) /\ plan[n] > 1 /\ f.id = Nth(k, n) /\ n \in 1 .. hi /\ hi < n + Lag
        /\ s \in Reliables(p)
        /\ \A h \in w.received : h.channel = "reliable" /\ h.n = n
  <2> SUFFICES ASSUME f.channel = "reliable"
               PROVE  /\ ~Got(p, n) /\ plan[n] > 1 /\ f.id = Nth(k, n) /\ n \in 1 .. hi /\ hi < n + Lag
                      /\ s \in Reliables(p)
                      /\ \A h \in w.received : h.channel = "reliable" /\ h.n = n
    OBVIOUS
  <2>1. s \in Reliables(p)
    BY <1>1 DEF Reliables, ActiveSlots
  <2>2. SlotRight(p, v, k, plan, hi)
    BY <1>1, <2>1 DEF SlotsRight
  <2> HIDE DEF v, w
  <2>3. /\ ~Got(p, n) /\ plan[n] > 1 /\ f.id = Nth(k, n)
        /\ \A h \in v.received : h.channel = "reliable" /\ h.n = n
    <3>1. SlotMeets(p, v, f, k, plan, hi)
      BY <1>1, <2>2 DEF SlotMeets
    <3> QED
      BY <3>1, SlotOf
  <2> QED
    BY <1>2, <2>1, <2>3 DEF Arrives
<1>4. ASSUME NEW x \in Peer, SameHearing(p, x), SameSaying(p, x), InLine(x, k, hi),
             SlotsRight(x, k, plan, hi), Done(p) <= Done(x)
      PROVE  x \in TakesOn(p, k, plan, hi)
  BY <1>4 DEF TakesOn, Taken
<1>5. p \in TakesOn(p, k, plan, hi)
  <2>1. SameHearing(p, p) /\ SameSaying(p, p) /\ Done(p) <= Done(p)
    BY <1>1 DEF SameHearing, SameSaying, SamePlan
  <2> QED
    BY <1>1, <1>4, <2>1
<1>6. /\ q \in Peer /\ SameHearing(p, q) /\ SameSaying(p, q) /\ SameQueue(p, q)
      /\ SameSeen(p, q) /\ q.delivered = p.delivered
      /\ q.reassembly = [p.reassembly EXCEPT ![s] = w]
  BY <1>1, <1>2, SlotSetIs DEF Filed
<1>7. p.reassembly \in [Slots -> Slot]
  BY <1>1 DEF Peer
<1> HIDE DEF v, w, q
<1>8. /\ InLine(q, k, hi) /\ Done(q) = Done(p) /\ \A x \in Nat : Got(q, x) <=> Got(p, x)
  BY <1>1, <1>6, SlotInLine
<1>9. q.reassembly[s] = w /\ \A i \in Slots : i # s => q.reassembly[i] = p.reassembly[i]
  BY <1>1, <1>6, <1>7
<1>10. ASSUME NEW z, NEW i \in Reliables(p), i # s,
              \A x \in Nat : Got(z, x) => Got(p, x) \/ (f.channel = "reliable" /\ x = n)
       PROVE  /\ SlotRight(z, p.reassembly[i], k, plan, hi)
              /\ f.channel = "reliable" => p.reassembly[i].id # f.id
  <2>1. SlotRight(p, p.reassembly[i], k, plan, hi)
    BY <1>1 DEF SlotsRight
  <2>2. f.channel = "reliable" => p.reassembly[i].id # f.id
    BY <1>1, <1>3, <1>10 DEF SlotsRight, v
  <2>3. CASE f.channel = "reliable"
    <3>1. p.reassembly[i].id # Nth(k, n)
      BY <1>3, <2>2, <2>3
    <3>2. \A x \in Nat : Got(z, x) => Got(p, x) \/ x = n
      BY <1>10
    <3> HIDE DEF n
    <3>3. SlotRight(z, p.reassembly[i], k, plan, hi)
      BY <1>1, <2>1, <3>1, <3>2, SlotKept
    <3> QED
      BY <2>2, <3>3
  <2>4. CASE f.channel # "reliable"
    <3>1. SlotRight(z, p.reassembly[i], k, plan, hi)
      BY <1>1, <1>10, <2>1, <2>4 DEF SlotRight
    <3> QED
      BY <2>2, <3>1
  <2> QED
    BY <2>3, <2>4
<1>11. SlotsRight(q, k, plan, hi)
  <2>1. \A i \in Reliables(p) : i # s => SlotRight(q, p.reassembly[i], k, plan, hi)
    <3>1. \A x \in Nat : Got(q, x) => Got(p, x) \/ (f.channel = "reliable" /\ x = n)
      BY <1>8
    <3> QED
      BY <1>10, <3>1
  <2>2. s \in Reliables(q) => f.channel = "reliable"
    BY <1>1, <1>2, <1>9 DEF Reliables
  <2>3. f.channel = "reliable" => SlotRight(q, q.reassembly[s], k, plan, hi)
    <3> SUFFICES ASSUME f.channel = "reliable" PROVE SlotRight(q, q.reassembly[s], k, plan, hi)
      OBVIOUS
    <3>1. /\ ~Got(q, n) /\ w.id = Nth(k, n) /\ plan[n] > 1 /\ n \in 1 .. hi
          /\ \A h \in w.received : h.channel = "reliable" /\ h.n = n
      BY <1>1, <1>2, <1>3, <1>8
    <3> QED
      BY <1>9, <3>1 DEF SlotRight
  <2>4. f.channel = "reliable" => \A i \in Reliables(p) : i # s => p.reassembly[i].id # q.reassembly[s].id
    <3>1. q.reassembly[s].id = f.id
      BY <1>1, <1>2, <1>9 DEF v
    <3>2. \A x \in Nat : Got(p, x) => Got(p, x) \/ (f.channel = "reliable" /\ x = n)
      OBVIOUS
    <3>3. \A i \in Reliables(p) : i # s => (f.channel = "reliable" => p.reassembly[i].id # f.id)
      BY <1>10, <3>2
    <3> QED
      BY <3>1, <3>3
  <2> QED
    BY <1>1, <1>9, <2>1, <2>2, <2>3, <2>4, SlotsKept
<1>12. q \in TakesOn(p, k, plan, hi)
  BY <1>1, <1>4, <1>6, <1>8, <1>11
<1>13. /\ SameHearing(q, r) /\ SameSaying(q, r) /\ SameSlots(q, r) /\ InLine(r, k, hi)
       /\ Done(q) <= Done(r) /\ r \in Peer
       /\ \A x \in Nat : Got(r, x) => Got(q, x) \/ (f.channel = "reliable" /\ x = n)
  <2>1. r = TakeMessage(q, f.channel, f.id, Whole(w))
    BY DEF Made, q, w, v
  <2>2. CASE f.channel = "reliable"
    <3>1. Whole(w) = n
      <4>1. w.received # {}
        BY <1>2
      <4> QED
        BY <1>3, <2>2, <4>1, WholeIs
    <3>2. n \in 1 .. hi /\ hi < n + Lag /\ f.id = Nth(k, n)
      BY <1>3, <2>2
    <3> DEFINE t == TakeMessage(q, "reliable", Nth(k, n), n)
    <3>3. r = t
      BY <2>1, <2>2, <3>1, <3>2
    <3>4. /\ SameHearing(q, t) /\ SameSaying(q, t) /\ SameSlots(q, t)
          /\ InLine(t, k, hi) /\ Done(q) <= Done(t)
          /\ \A x \in Nat : Got(t, x) <=> Got(q, x) \/ x = n
      <4> HIDE DEF n
      <4> QED
        BY <1>8, <3>2, TakeReliable
    <3> HIDE DEF t, r, n
    <3>5. r \in Peer
      BY <3>3, <3>4 DEF InLine
    <3> QED
      BY <2>2, <3>3, <3>4, <3>5
  <2>3. CASE f.channel # "reliable"
    <3>1. f.channel = "unreliable" /\ f.id \in Ids
      BY <1>1, <2>3 DEF Frag, Channels
    <3>2. Whole(w) \in Nat
      BY <1>2, WholeType
    <3>3. r \in Passes(q, k, hi)
      BY <1>8, <2>1, <3>1, <3>2, TakeUnreliable
    <3> HIDE DEF r, n
    <3>4. /\ SameHearing(q, r) /\ SameSaying(q, r) /\ SameSlots(q, r) /\ InLine(r, k, hi)
          /\ Done(q) <= Done(r) /\ \A x \in Nat : Got(r, x) <=> Got(q, x)
      BY <3>3 DEF Passes
    <3>5. r \in Peer
      BY <3>4 DEF InLine
    <3> QED
      BY <3>4, <3>5
  <2> QED
    BY <2>2, <2>3
<1> HIDE DEF r
<1>14. r.occupied
  BY <1>6, <1>13 DEF SameHearing
<1>15. r.reassembly = q.reassembly /\ r.reassembly[s] = w
  BY <1>9, <1>13 DEF SameSlots
<1>16. /\ y \in Peer /\ SameHearing(r, y) /\ SameSaying(r, y) /\ SameQueue(r, y)
       /\ SameSeen(r, y) /\ y.delivered = r.delivered
       /\ y.reassembly = [r.reassembly EXCEPT ![s] = Idle(w)] /\ ~Idle(w).active
  <2>1. Idle(w) \in Slot /\ ~Idle(w).active
    BY <1>2, IdleIs
  <2>2. y = SlotSet(r, s, Idle(w))
    BY <1>15 DEF Freed
  <2> HIDE DEF y
  <2> QED
    BY <1>1, <1>13, <2>1, <2>2, SlotSetIs
<1> HIDE DEF y
<1>17. InLine(y, k, hi) /\ Done(y) = Done(r) /\ \A x \in Nat : Got(y, x) <=> Got(r, x)
  BY <1>13, <1>16, SlotInLine
<1>18. /\ ~y.reassembly[s].active /\ \A i \in Slots : i # s => y.reassembly[i] = p.reassembly[i]
  <2>1. r.reassembly \in [Slots -> Slot]
    BY <1>13 DEF Peer
  <2> QED
    BY <1>1, <1>9, <1>15, <1>16, <2>1
<1>19. SlotsRight(y, k, plan, hi)
  <2>1. \A x \in Nat : Got(y, x) => Got(p, x) \/ (f.channel = "reliable" /\ x = n)
    BY <1>8, <1>13, <1>17
  <2>2. \A i \in Reliables(p) : i # s => SlotRight(y, p.reassembly[i], k, plan, hi)
    BY <1>10, <2>1
  <2>3. s \notin Reliables(y)
    BY <1>18 DEF Reliables, ActiveSlots
  <2> QED
    BY <1>1, <1>18, <2>2, <2>3, SlotsKept
<1>20. y \in TakesOn(p, k, plan, hi)
  <2>1. SameHearing(p, y) /\ SameSaying(p, y)
    BY <1>6, <1>13, <1>16 DEF SameHearing, SameSaying, SamePlan
  <2>2. Done(p) <= Done(y)
    BY <1>8, <1>13, <1>17
  <2> QED
    BY <1>4, <1>16, <1>17, <1>19, <2>1, <2>2
<1>21. FileFragment(p, s, f) = p \/ FileFragment(p, s, f) = q \/ FileFragment(p, s, f) = y
  BY <1>1, <1>14, FileForms DEF q, r, y
<1> QED
  BY <1>5, <1>12, <1>20, <1>21

\* A slot claimed for a message not got yet, which no slot holds.
LEMMA ClaimTakes ==
    ASSUME NEW p, NEW k, NEW plan, NEW hi, Taken(p, k, plan, hi),
           NEW f, Arrives(f, k, plan, hi), Matching(p, f) = {}, NEW s \in Slots,
           f.channel = "reliable" => ~Got(p, f.n) /\ plan[f.n] > 1
    PROVE  /\ Claim(p, s, f) \in TakesOn(p, k, plan, hi) /\ s \in Matching(Claim(p, s, f), f)
<1> DEFINE q == Claim(p, s, f)
           v == StartedOn(p, s, f)
           n == f.n
<1>1. p \in Peer /\ InLine(p, k, hi) /\ SlotsRight(p, k, plan, hi) /\ f \in Frag /\ hi \in Nat
      /\ Done(p) \in Nat /\ p.reassembly \in [Slots -> Slot]
  BY Counts DEF Taken, InLine, Arrives, Lined, Peer
<1>2. /\ q \in Peer /\ SameHearing(p, q) /\ SameSaying(p, q) /\ SameQueue(p, q)
      /\ SameSeen(p, q) /\ q.delivered = p.delivered
      /\ q.reassembly = [p.reassembly EXCEPT ![s] = v]
  BY <1>1, ClaimIs
<1>3. v.active /\ v.channel = f.channel /\ v.id = f.id /\ v.received = {}
  BY DEF StartedOn
<1> HIDE DEF q, v
<1>4. q.reassembly[s] = v /\ \A i \in Slots : i # s => q.reassembly[i] = p.reassembly[i]
  BY <1>1, <1>2
<1>5. InLine(q, k, hi) /\ Done(q) = Done(p) /\ \A x \in Nat : Got(q, x) <=> Got(p, x)
  BY <1>1, <1>2, SlotInLine
<1>6. s \in Matching(q, f)
  BY <1>3, <1>4 DEF Matching, ActiveSlots
<1>7. SlotsRight(q, k, plan, hi)
  <2>1. \A i \in Reliables(p) : SlotRight(q, p.reassembly[i], k, plan, hi)
    BY <1>1, <1>5 DEF SlotsRight, SlotRight
  <2>2. s \in Reliables(q) => f.channel = "reliable"
    BY <1>3, <1>4 DEF Reliables
  <2>3. f.channel = "reliable" => SlotRight(q, v, k, plan, hi)
    <3> SUFFICES ASSUME f.channel = "reliable" PROVE SlotRight(q, v, k, plan, hi)
      OBVIOUS
    <3>1. n \in 1 .. hi /\ ~Got(q, n) /\ plan[n] > 1 /\ v.id = Nth(k, n)
      BY <1>3, <1>5 DEF Arrives, MeantBy
    <3> QED
      BY <1>3, <3>1 DEF SlotRight
  <2>4. f.channel = "reliable" => \A i \in Reliables(p) : p.reassembly[i].id # v.id
    BY <1>3 DEF Matching, Reliables
  <2> QED
    BY <1>1, <1>4, <2>1, <2>2, <2>3, <2>4, SlotsKept
<1>8. q \in TakesOn(p, k, plan, hi)
  BY <1>1, <1>2, <1>5, <1>7 DEF TakesOn, Taken
<1> QED
  BY <1>6, <1>8 DEF q

\* A fragment taken.
LEMMA FragmentTakes ==
    ASSUME Roomy, NEW p, NEW k, NEW plan, NEW hi, Taken(p, k, plan, hi), p.occupied,
           NEW f, Arrives(f, k, plan, hi)
    PROVE  TakeFragment(p, f) \in TakesOn(p, k, plan, hi)
<1> DEFINE n == f.n
           v == Victim(p)
           match == Matching(p, f)
           s == CHOOSE s \in match : TRUE
           q == Claim(p, v, f)
<1>1. /\ p \in Peer /\ InLine(p, k, hi) /\ SlotsRight(p, k, plan, hi) /\ Lined(p, k, hi)
      /\ SeenRight(p, k, hi) /\ hi \in Nat /\ Done(p) \in Nat
      /\ f \in Frag /\ f.id \in Ids /\ n \in Nat /\ f.channel \in Channels /\ f.total \in Nat
  BY Counts DEF Taken, InLine, Arrives, Frag, Lined
<1>2. p \in TakesOn(p, k, plan, hi)
  <2>1. SameHearing(p, p) /\ SameSaying(p, p) /\ Done(p) <= Done(p)
    BY <1>1 DEF SameHearing, SameSaying, SamePlan
  <2> QED
    BY <1>1, <2>1 DEF TakesOn
<1>3. f.channel = "reliable" =>
        /\ n \in 1 .. hi /\ hi < n + Lag /\ f.id = Nth(k, n) /\ f.total = plan[n]
        /\ (IsSeen(p, "reliable", f.id) <=> Got(p, n))
  BY <1>1, TakenFor DEF Arrives, MeantBy
<1>4. CASE f.total > 1
  <2>1. CASE match # {}
    <3>1. s \in match
      BY <2>1
    <3>2. Reassemble(p, f) = FileFragment(p, s, f)
      BY <2>1, Zenon DEF Reassemble
    <3> HIDE DEF s, match
    <3>3. FileFragment(p, s, f) \in TakesOn(p, k, plan, hi)
      BY <3>1, FileTakes DEF match
    <3> QED
      BY <1>4, <3>2, <3>3 DEF TakeFragment
  <2>2. CASE match = {} /\ (\/ IsSeen(p, f.channel, f.id)
                            \/ f.channel = "reliable" /\ ~Acceptable(p, f.id)
                            \/ ~Fits(p, v, f.total))
    <3>1. Reassemble(p, f) = p
      BY <2>2, Zenon DEF Reassemble
    <3> QED
      BY <1>2, <1>4, <3>1 DEF TakeFragment
  <2>3. CASE match = {} /\ ~ (\/ IsSeen(p, f.channel, f.id)
                              \/ f.channel = "reliable" /\ ~Acceptable(p, f.id)
                              \/ ~Fits(p, v, f.total))
    <3>1. Reassemble(p, f) = FileFragment(q, v, f)
      BY <2>3, Zenon DEF Reassemble
    <3>2. v \in Slots
      BY <1>1, VictimIs
    <3>3. f.channel = "reliable" => ~Got(p, n) /\ plan[n] > 1
      BY <1>3, <1>4, <2>3
    <3>4. q \in TakesOn(p, k, plan, hi) /\ v \in Matching(q, f)
      BY <2>3, <3>2, <3>3, ClaimTakes
    <3> HIDE DEF q, v
    <3>5. Taken(q, k, plan, hi) /\ q.occupied
      BY <3>4 DEF TakesOn, SameHearing
    <3>6. FileFragment(q, v, f) \in TakesOn(q, k, plan, hi)
      BY <3>4, <3>5, FileTakes
    <3>7. FileFragment(q, v, f) \in TakesOn(p, k, plan, hi)
      BY <1>1, <3>4, <3>6, TakesFurther
    <3> QED
      BY <1>4, <3>1, <3>7 DEF TakeFragment
  <2> QED
    BY <2>1, <2>2, <2>3
<1>5. CASE ~ (f.total > 1)
  <2>1. CASE f.channel = "reliable" /\ ~Acceptable(p, f.id)
    BY <1>2, <1>5, <2>1 DEF TakeFragment
  <2>2. CASE f.channel = "reliable" /\ Acceptable(p, f.id)
    <3> DEFINE r == TakeMessage(p, "reliable", Nth(k, n), n)
    <3>1. TakeFragment(p, f) = r
      BY <1>3, <1>5, <2>2 DEF TakeFragment
    <3>2. /\ SameHearing(p, r) /\ SameSaying(p, r) /\ SameSlots(p, r)
          /\ InLine(r, k, hi) /\ Done(p) <= Done(r)
          /\ \A x \in Nat : Got(r, x) <=> Got(p, x) \/ x = n
      <4>1. n \in 1 .. hi /\ hi < n + Lag
        BY <1>3, <2>2
      <4> HIDE DEF n
      <4> QED
        BY <1>1, <4>1, TakeReliable
    <3> HIDE DEF r
    <3>3. SlotsRight(r, k, plan, hi)
      <4>1. ASSUME NEW i \in Reliables(p) PROVE SlotRight(r, p.reassembly[i], k, plan, hi)
        <5>1. PICK m \in 1 .. hi : /\ ~Got(p, m) /\ p.reassembly[i].id = Nth(k, m) /\ plan[m] > 1
                                   /\ \A h \in p.reassembly[i].received : h.channel = "reliable" /\ h.n = m
          BY <1>1 DEF SlotsRight, SlotRight
        <5>2. m # n
          BY <1>3, <1>5, <2>2, <5>1
        <5>3. ~Got(r, m)
          BY <1>1, <3>2, <5>1, <5>2
        <5> QED
          BY <5>1, <5>3 DEF SlotRight
      <4>2. r.reassembly = p.reassembly /\ Reliables(r) = Reliables(p)
        BY <3>2 DEF SameSlots, Reliables, ActiveSlots
      <4> QED
        BY <1>1, <4>1, <4>2 DEF SlotsRight
    <3> QED
      BY <3>1, <3>2, <3>3 DEF TakesOn, Taken, InLine
  <2>3. CASE f.channel # "reliable"
    <3> DEFINE r == TakeMessage(p, "unreliable", f.id, n)
    <3>1. TakeFragment(p, f) = r
      BY <1>1, <1>5, <2>3 DEF TakeFragment, Channels
    <3>2. r \in Passes(p, k, hi)
      BY <1>1, TakeUnreliable
    <3> HIDE DEF r
    <3>3. SlotsRight(r, k, plan, hi)
      <4>1. r.reassembly = p.reassembly /\ Reliables(r) = Reliables(p)
        BY <3>2 DEF Passes, SameSlots, Reliables, ActiveSlots
      <4>2. \A i \in Reliables(p) : SlotRight(r, p.reassembly[i], k, plan, hi)
        BY <1>1, <3>2 DEF Passes, SlotsRight, SlotRight
      <4> QED
        BY <1>1, <4>1, <4>2 DEF SlotsRight
    <3> QED
      BY <3>1, <3>2, <3>3 DEF Passes, TakesOn, Taken
  <2> QED
    BY <2>1, <2>2, <2>3
<1> QED
  BY <1>4, <1>5

-----------------------------------------------------------------------------
(* What a packet tells, and what it acknowledges *)

\* The line does not hang on what is said.
LEMMA TakenAlike ==
    ASSUME NEW p, NEW k, NEW plan, NEW hi, Taken(p, k, plan, hi), NEW q \in Peer, SameTaking(p, q)
    PROVE  Taken(q, k, plan, hi) /\ Done(q) = Done(p)
<1>1. InLine(q, k, hi) /\ Done(q) = Done(p) /\ \A x \in Nat : Got(q, x) <=> Got(p, x)
  BY SlotInLine DEF Taken, SameTaking, SameQueue, SameSeen
<1>2. Reliables(q) = Reliables(p) /\ q.reassembly = p.reassembly
  BY DEF SameTaking, Reliables, ActiveSlots
<1>3. hi \in Nat
  BY DEF Taken, InLine, Lined
<1>4. \A s \in Reliables(q) : SlotRight(q, q.reassembly[s], k, plan, hi)
  <2>1. ASSUME NEW s \in Reliables(q) PROVE SlotRight(q, q.reassembly[s], k, plan, hi)
    <3>1. SlotRight(p, p.reassembly[s], k, plan, hi)
      BY <1>2 DEF Taken, SlotsRight
    <3> QED
      BY <1>1, <1>2, <1>3, <3>1 DEF SlotRight
  <2> QED
    BY <2>1
<1> QED
  BY <1>1, <1>2, <1>4 DEF Taken, SlotsRight

\* What was right up to one message is right up to a later one.
LEMMA TakenUpTo ==
    ASSUME NEW p, NEW k, NEW plan, NEW hi, Taken(p, k, plan, hi), NEW hi2 \in Nat, hi <= hi2,
           hi2 <= Done(p) + InFlight
    PROVE  Taken(p, k, plan, hi2)
<1>1. p \in Peer /\ Lined(p, k, hi) /\ SeenRight(p, k, hi) /\ hi \in Nat /\ Done(p) \in Nat
  BY Counts DEF Taken, InLine, Lined
<1>2. Lined(p, k, hi2)
  <2>1. Done(p) <= hi2
    BY <1>1 DEF Lined
  <2>2. Done(p) + 1 .. hi \subseteq Done(p) + 1 .. hi2
    BY <1>1
  <2> QED
    BY <1>1, <2>1, <2>2 DEF Lined
<1>3. 0 .. hi \subseteq 0 .. hi2 /\ 1 .. hi \subseteq 1 .. hi2
  BY <1>1
<1>4. SeenRight(p, k, hi2)
  BY <1>1, <1>3 DEF SeenRight
<1>5. SlotsRight(p, k, plan, hi2)
  <2>1. \A v : SlotRight(p, v, k, plan, hi) => SlotRight(p, v, k, plan, hi2)
    BY <1>3 DEF SlotRight
  <2> QED
    BY <2>1 DEF Taken, SlotsRight
<1> QED
  BY <1>1, <1>2, <1>4, <1>5 DEF Taken, InLine

\* What is known of a packet's end once it is acted on.
LEMMA ActedIs ==
    ASSUME NEW p \in Peer, NEW packet \in Packet
    PROVE  LET q == Acted(p, packet) IN
           /\ q \in Peer /\ q.occupied = p.occupied /\ q.reason = p.reason
           /\ q.remote_sequence = Larger(p.remote_sequence, packet.seq)
           /\ SameTaking(p, q) /\ SamePlan(p, q)
           /\ q.local_sequence = p.local_sequence /\ q.wire = p.wire
           /\ q.outgoing = p.outgoing
<1> DEFINE o == Opened(p, packet)
           q == RetireReliable(o, packet.reliable_ack)
<1>1. /\ o \in Peer /\ o.occupied = p.occupied /\ o.reason = p.reason
      /\ o.remote_sequence = Larger(p.remote_sequence, packet.seq)
      /\ SameTaking(p, o) /\ SameSaying(p, o)
  BY OpenedIs
<1> HIDE DEF o
<1>2. /\ q \in Peer /\ SameHearing(o, q) /\ SameTaking(o, q) /\ SamePlan(o, q)
      /\ q.local_sequence = o.local_sequence /\ q.wire = o.wire
      /\ q.outgoing = o.outgoing
  BY <1>1, RetireOnly
<1>3. Acted(p, packet) = q
  BY DEF Acted, o
<1> HIDE DEF q
<1> QED
  BY <1>1, <1>2, <1>3 DEF SameHearing, SameTaking, SamePlan, SameSaying

\* A packet's fragments are taken one after another.
LEMMA HandleTakes ==
    ASSUME Roomy, NEW p, NEW k, NEW plan, NEW hi, Taken(p, k, plan, hi), p.occupied,
           NEW packet \in Packet, Admits(p, packet), packet.kind # "disconnect",
           \A i \in 1 .. Len(packet.fragments) : Arrives(packet.fragments[i], k, plan, hi)
    PROVE  HandlePacket(p, packet) \in TakesOn(Acted(p, packet), k, plan, hi)
<1> DEFINE q == Acted(p, packet)
           S == TakesOn(q, k, plan, hi)
           count == Len(packet.fragments)
<1>1. p \in Peer /\ count \in Nat
  <2>1. packet.fragments \in Seq(Frag)
    BY DEF Packet
  <2> QED
    BY <2>1 DEF Taken, InLine
<1>2. q \in Peer /\ q.occupied = p.occupied /\ SameTaking(p, q)
  BY <1>1, ActedIs
<1> HIDE DEF q
<1>3. Taken(q, k, plan, hi) /\ Done(q) \in Nat
  BY <1>2, TakenAlike, Counts
<1>4. q \in S
  <2>1. SameHearing(q, q) /\ SameSaying(q, q) /\ Done(q) <= Done(q)
    BY <1>3 DEF SameHearing, SameSaying, SamePlan
  <2> QED
    BY <1>2, <1>3, <2>1 DEF TakesOn
<1>5. ASSUME NEW i \in 1 .. count, NEW r \in S PROVE TakeFragment(r, packet.fragments[i]) \in S
  <2> DEFINE f == packet.fragments[i]
  <2>1. Taken(r, k, plan, hi) /\ r.occupied
    BY <1>2 DEF TakesOn, SameHearing
  <2>2. Arrives(f, k, plan, hi)
    OBVIOUS
  <2> HIDE DEF f
  <2>3. TakeFragment(r, f) \in TakesOn(r, k, plan, hi)
    BY <2>1, <2>2, FragmentTakes
  <2>4. TakeFragment(r, f) \in S
    BY <1>2, <2>3, TakesFurther
  <2> QED
    BY <2>4 DEF f
<1>6. Acted(p, packet) \in S
  BY <1>4 DEF q
<1> HIDE DEF S, count
<1>7. HandlePacket(p, packet) \in S
  BY <1>1, <1>5, <1>6, HandleIn DEF count
<1> QED
  BY <1>7 DEF S, q

\* An acknowledgement of the first x messages retires those, and never looks
\* implausible.
LEMMA RetireIs ==
    ASSUME Roomy, NEW p \in Peer, NEW k \in Nat, NEW plan, QueuedRight(p, k, plan), NEW x \in Nat,
           x <= Count(p), Count(p) - Pend(p) <= x + AckWindow * InFlight
    PROVE  LET q == RetireReliable(p, Nth(k, x + 1)) IN
           /\ QueuedRight(q, k, plan) /\ Count(q) = Count(p)
           /\ Count(q) - Pend(q) = Larger(Count(p) - Pend(p), x)
<1> DEFINE o == p.outgoing_reliable
           N == Pend(p)
           A == Count(p) - Pend(p)
           ack == Nth(k, x + 1)
           drop == IF x > A THEN x - A ELSE 0
           room == AckWindow * InFlight
           q == RetireReliable(p, ack)
<1>1. /\ N \in Nat /\ A \in Nat /\ Count(p) \in Nat /\ N <= InFlight /\ Count(p) = A + N
      /\ o \in Seq(Pending) /\ N = Len(o) /\ room \in Nat /\ room + InFlight < Half
      /\ InFlight \in Nat \ {0} /\ Half \in Nat /\ IdSpace = 2 * Half /\ A <= x + room
      /\ x <= A + N
  <2>1. /\ room \in Nat /\ room + InFlight < Half
        /\ InFlight \in Nat \ {0} /\ Half \in Nat /\ IdSpace = 2 * Half
    BY RoomIs, Widths
  <2> HIDE DEF room
  <2>2. /\ Count(p) \in Nat /\ Pend(p) \in Nat /\ Pend(p) <= InFlight /\ Pend(p) <= Count(p)
        /\ o \in Seq(Pending) /\ Pend(p) = Len(o) /\ Count(p) - Pend(p) <= x + room
    BY Counts DEF QueuedRight, Pend, room
  <2> QED
    BY <2>1, <2>2
<1>3. \A i \in 1 .. N : /\ o[i].n = A + i /\ o[i].id = Nth(k, A + i)
                        /\ o[i].total = plan[A + i] /\ o[i] \in Pending
  BY <1>1 DEF QueuedRight
<1> HIDE DEF o, N, A, room
<1>2. drop \in 0 .. N /\ A + drop = Larger(A, x)
  BY <1>1 DEF Larger
<1> HIDE DEF drop
<1>4. ASSUME NEW i \in 1 .. N PROVE Newer(ack, o[i].id) <=> i <= drop
  <2>1. (x + 1) - (A + i) < Half /\ (A + i) - (x + 1) < Half
    BY <1>1
  <2>2. x + 1 \in Nat /\ A + i \in Nat /\ k + (x + 1) >= 1 /\ k + (A + i) >= 1
    BY <1>1
  <2>3. Newer(Nth(k, x + 1), Nth(k, A + i)) <=> x + 1 > A + i
    BY <2>1, <2>2, NthIs
  <2>4. x + 1 > A + i <=> i <= drop
    BY <1>1 DEF drop
  <2> QED
    BY <1>3, <2>3, <2>4
<1>5. ~Implausible(p, ack)
  <2> SUFFICES ASSUME o # <<>>, Newer(ack, (o[1].id + InFlight) % IdSpace) PROVE FALSE
    BY DEF Implausible, o
  <2>1. 1 \in 1 .. N
    BY <1>1, EmptySeq
  <2>2. A + 1 \in Nat /\ k + (A + 1) >= 1 /\ InFlight \in Nat
    BY <1>1
  <2>3. (o[1].id + InFlight) % IdSpace = Nth(k, (A + 1) + InFlight)
    <3>1. (Nth(k, A + 1) + InFlight) % IdSpace = Nth(k, (A + 1) + InFlight)
      BY <2>2, NthNext
    <3>2. o[1].id = Nth(k, A + 1)
      BY <1>3, <2>1
    <3> QED
      BY <3>1, <3>2
  <2>4. /\ (x + 1) - ((A + 1) + InFlight) < Half /\ ((A + 1) + InFlight) - (x + 1) < Half
        /\ (A + 1) + InFlight \in Nat /\ x + 1 \in Nat /\ k + (x + 1) >= 1
        /\ k + ((A + 1) + InFlight) >= 1 /\ ~(x + 1 > (A + 1) + InFlight)
    BY <1>1
  <2>5. ~Newer(Nth(k, x + 1), Nth(k, (A + 1) + InFlight))
    BY <2>4, NthIs
  <2> QED
    BY <2>3, <2>5
<1>6. PICK g : /\ g[0] = <<>>
               /\ \A i \in 1 .. N : g[i] = IF Newer(ack, o[i].id) THEN g[i - 1]
                                           ELSE Append(g[i - 1], o[i])
               /\ q = [p EXCEPT !.outgoing_reliable = g[N]]
  <2>1. N = Len(p.outgoing_reliable) /\ p.outgoing_reliable \in Seq(Pending)
    BY <1>1 DEF o
  <2> QED
    BY <1>5, <2>1, RetireLoop, SMTT(60) DEF o
<1> HIDE DEF q, ack
<1> DEFINE Right(i) == /\ g[i] \in Seq(Pending)
                       /\ Len(g[i]) = IF i <= drop THEN 0 ELSE i - drop
                       /\ \A j \in 1 .. Len(g[i]) : g[i][j] = o[drop + j]
           G == {i \in 0 .. N : Right(i)}
<1>7. 0 \in G
  <2>1. g[0] \in Seq(Pending) /\ Len(g[0]) = 0
    BY <1>6
  <2> QED
    BY <1>1, <1>2, <2>1
<1>8. ASSUME NEW i \in 0 .. N - 1, i \in G PROVE i + 1 \in G
  <2>1. i + 1 \in 1 .. N /\ (i + 1) - 1 = i /\ Right(i)
    BY <1>1, <1>8
  <2>2. g[i + 1] = IF i + 1 <= drop THEN g[i] ELSE Append(g[i], o[i + 1])
    BY <1>4, <1>6, <2>1
  <2>3. CASE i + 1 <= drop
    BY <1>1, <1>2, <2>1, <2>2, <2>3
  <2>4. CASE ~(i + 1 <= drop)
    <3> DEFINE s == g[i]
    <3>1. /\ s \in Seq(Pending) /\ Len(s) = i - drop /\ i - drop \in Nat
          /\ \A j \in 1 .. Len(s) : s[j] = o[drop + j]
      BY <1>1, <1>2, <2>1, <2>4
    <3>2. o[i + 1] \in Pending
      BY <1>3, <2>1
    <3> HIDE DEF s
    <3>3. /\ Append(s, o[i + 1]) \in Seq(Pending) /\ Len(Append(s, o[i + 1])) = Len(s) + 1
          /\ \A j \in 1 .. Len(s) : Append(s, o[i + 1])[j] = s[j]
          /\ Append(s, o[i + 1])[Len(s) + 1] = o[i + 1]
      BY <3>1, <3>2, AppendProperties
    <3>4. g[i + 1] = Append(s, o[i + 1])
      BY <2>2, <2>4 DEF s
    <3>5. \A j \in 1 .. Len(s) + 1 : g[i + 1][j] = o[drop + j]
      <4>1. \A j \in 1 .. Len(s) + 1 : j \in 1 .. Len(s) \/ j = Len(s) + 1
        BY <3>1
      <4>2. drop + (Len(s) + 1) = i + 1
        BY <1>1, <1>2, <3>1
      <4> QED
        BY <3>1, <3>3, <3>4, <4>1, <4>2
    <3>6. Len(s) + 1 = (i + 1) - drop
      BY <1>2, <3>1
    <3>7. /\ g[i + 1] \in Seq(Pending) /\ Len(g[i + 1]) = (i + 1) - drop
          /\ \A j \in 1 .. Len(g[i + 1]) : g[i + 1][j] = o[drop + j]
      BY <3>3, <3>4, <3>5, <3>6
    <3>8. Right(i + 1)
      BY <2>4, <3>7
    <3> QED
      BY <2>1, <3>8
  <2> QED
    BY <2>3, <2>4
<1>9. Right(N)
  <2>1. N \in Nat
    BY <1>1
  <2>2. \A i \in 0 .. N - 1 : i \in G => i + 1 \in G
    BY <1>8
  <2> HIDE DEF G
  <2>3. \A i \in 0 .. N : i \in G
    BY <1>7, <2>1, <2>2, UpTo
  <2>4. N \in G
    BY <2>1, <2>3
  <2> QED
    BY <2>4 DEF G
<1>10. /\ q.outgoing_reliable = g[N] /\ Count(q) = Count(p) /\ Len(g[N]) = N - drop
       /\ \A j \in 1 .. N - drop : g[N][j] = o[drop + j]
  <2>1. Len(g[N]) = N - drop
    BY <1>1, <1>2, <1>9
  <2> QED
    BY <1>6, <1>9, <2>1 DEF Peer, Count
<1>11. Pend(q) = N - drop /\ Count(q) - Pend(q) = A + drop
  <2>1. Pend(q) = N - drop
    BY <1>10 DEF Pend
  <2>2. Count(q) = A + N /\ A \in Nat /\ N \in Nat /\ drop \in Nat
    BY <1>1, <1>2, <1>10
  <2> QED
    BY <2>1, <2>2
<1>12. QueuedRight(q, k, plan)
  <2>1. Pend(q) <= InFlight /\ Pend(q) <= Count(q)
    BY <1>1, <1>2, <1>10, <1>11
  <2>2. ASSUME NEW i \in 1 .. Pend(q)
        PROVE  /\ q.outgoing_reliable[i] = o[drop + i] /\ drop + i \in 1 .. N
               /\ A + (drop + i) = (A + drop) + i
    BY <1>1, <1>2, <1>10, <1>11
  <2> QED
    BY <1>3, <1>11, <2>1, <2>2 DEF QueuedRight
<1> QED
  BY <1>2, <1>10, <1>11, <1>12 DEF q, ack, A
-----------------------------------------------------------------------------
(***************************************************************************)
(* Two ends that talk to each other.  An end never has more than InFlight  *)
(* messages beyond what the other had been handed when it sealed its last  *)
(* packet, and is never handed more than the other had sent.               *)
(***************************************************************************)
Spoken(p, k, plan, g, t) ==
    /\ Quiet(p, k, plan, g, t) /\ p.reason # "protocol"
    /\ \A i \in 1 .. Done(p) : p.delivered["reliable"][i] = i
    /\ p.occupied => Said(p, k, plan, g, t)
Listens(p, k, plan, g, t) ==
    /\ p.remote_sequence \in 0 .. t /\ Taken(p, k, plan, g[p.remote_sequence].sent)
    /\ Count(p) - Pend(p) <= g[p.remote_sequence].done
Heard(p, k, plan, g, t) ==
    /\ Done(p) <= g[t].sent /\ Count(p) <= g[t].done + InFlight
    /\ p.occupied => Listens(p, k, plan, g, t)
Meets(p, o, k, mine, theirs, g, t, h, u) ==
    /\ Spoken(p, k, mine, g, t) /\ Spoken(o, k, theirs, h, u)
    /\ Heard(p, k, theirs, h, u) /\ Heard(o, k, mine, g, t)
MeetsOn(q, o, k, mine, theirs, g, t, h, u) ==
    \E g2, t2 : Extends(g, t, g2, t2) /\ Meets(q, o, k, mine, theirs, g2, t2, h, u)

\* What was sealed before was no more than what was sealed later.
LEMMA PastIs ==
    ASSUME NEW g, NEW t, Grows(g, t), NEW r \in 0 .. t, NEW s \in 0 .. t, r <= s
    PROVE  /\ {g[r].sent, g[s].sent, g[r].done, g[s].done} \subseteq Nat /\ t \in 0 .. t
           /\ g[r].sent <= g[s].sent /\ g[r].done <= g[s].done
           /\ s - r <= AckWindow => /\ g[s].sent <= g[r].sent + AckWindow * InFlight
                                    /\ g[s].done <= g[r].done + AckWindow * InFlight
<1>1. t \in Nat /\ r \in Nat /\ s \in Nat /\ t \in 0 .. t
  BY DEF Grows
<1>2. g[r] \in [sent : Nat, done : Nat] /\ g[s] \in [sent : Nat, done : Nat]
  BY <1>1 DEF Grows, Past
<1>3. g[r].sent \in Nat /\ g[s].sent \in Nat /\ g[r].done \in Nat /\ g[s].done \in Nat
  BY <1>2
<1>4. /\ g[r].sent <= g[s].sent /\ g[s].sent <= g[r].sent + (s - r) * InFlight
      /\ g[r].done <= g[s].done /\ g[s].done <= g[r].done + (s - r) * InFlight
  BY DEF Grows
<1>5. ASSUME s - r <= AckWindow PROVE (s - r) * InFlight <= AckWindow * InFlight
  <2>1. s - r \in Nat /\ AckWindow \in Nat /\ InFlight \in Nat
    BY <1>1, Widths
  <2>2. \A x \in Nat : x * InFlight \in Nat
    BY <2>1
  <2>3. AckWindow - (s - r) \in Nat
    BY <1>5, <2>1
  <2> DEFINE a == s - r
             b == AckWindow - (s - r)
  <2>4. a \in Nat /\ b \in Nat /\ a + b = AckWindow
    BY <2>1, <2>3
  <2> HIDE DEF a, b
  <2>5. (a + b) * InFlight = a * InFlight + b * InFlight /\ b * InFlight \in Nat /\ a * InFlight \in Nat
    BY <2>1, <2>2, <2>4
  <2>6. a * InFlight <= AckWindow * InFlight
    BY <2>4, <2>5
  <2> QED
    BY <2>6 DEF a
<1>6. (s - r) * InFlight \in Nat /\ AckWindow * InFlight \in Nat
  BY <1>1, Widths
<1> DEFINE x == (s - r) * InFlight
           y == AckWindow * InFlight
<1>7. ASSUME s - r <= AckWindow
      PROVE  g[s].sent <= g[r].sent + y /\ g[s].done <= g[r].done + y
  <2>1. x <= y /\ x \in Nat /\ y \in Nat
    BY <1>5, <1>6, <1>7
  <2>2. g[s].sent <= g[r].sent + x /\ g[s].done <= g[r].done + x
    BY <1>4
  <2> HIDE DEF x, y
  <2> QED
    BY <1>3, <2>1, <2>2
<1> QED
  BY <1>1, <1>3, <1>4, <1>7

\* What was heard stays heard when the other end goes on.
LEMMA HeardStill ==
    ASSUME NEW p \in Peer, NEW k, NEW plan, NEW g, NEW t, Grows(g, t), Heard(p, k, plan, g, t),
           NEW g2, NEW t2, Grows(g2, t2), Extends(g, t, g2, t2)
    PROVE  Heard(p, k, plan, g2, t2)
<1>1. t \in Nat /\ t2 \in Nat /\ t \in 0 .. t2 /\ t2 \in 0 .. t2 /\ t <= t2 /\ g2[t] = g[t] /\ InFlight \in Nat
  BY Widths DEF Extends, Grows
<1>2. /\ g2[t].sent <= g2[t2].sent /\ g2[t].done <= g2[t2].done
      /\ {g2[t].sent, g2[t2].sent, g2[t].done, g2[t2].done} \subseteq Nat
  BY <1>1, PastIs
<1>3. Count(p) \in Nat /\ Done(p) \in Nat
  BY Counts
<1>4. Done(p) <= g2[t2].sent /\ Count(p) <= g2[t2].done + InFlight
  BY <1>1, <1>2, <1>3 DEF Heard
<1>5. Listens(p, k, plan, g, t) => Listens(p, k, plan, g2, t2)
  <2> SUFFICES ASSUME Listens(p, k, plan, g, t) PROVE Listens(p, k, plan, g2, t2)
    OBVIOUS
  <2>1. p.remote_sequence \in 0 .. t /\ p.remote_sequence \in 0 .. t2
    BY <1>1 DEF Listens
  <2>2. g2[p.remote_sequence] = g[p.remote_sequence]
    BY <2>1 DEF Extends
  <2> QED
    BY <2>1, <2>2 DEF Listens
<1> QED
  BY <1>4, <1>5 DEF Heard

\* What two ends that talk know of each other, in numbers.
LEMMA MeetsIs ==
    ASSUME NEW p, NEW o, NEW k, NEW mine, NEW theirs, NEW g, NEW t, NEW h, NEW u,
           Meets(p, o, k, mine, theirs, g, t, h, u)
    PROVE  /\ p \in Peer /\ o \in Peer /\ Grows(g, t) /\ Grows(h, u) /\ k \in Nat
           /\ t \in 0 .. t /\ u \in 0 .. u
           /\ {g[t].sent, g[t].done, h[u].sent, h[u].done} \subseteq Nat
           /\ Count(p) <= g[t].sent + InFlight /\ Done(p) <= g[t].done + InFlight
           /\ h[u].sent <= Done(p) + InFlight /\ h[u].done <= g[t].sent
           /\ g[t].sent <= Count(p) /\ g[t].done <= Done(p)
<1>1. p \in Peer /\ o \in Peer /\ Grows(g, t) /\ Grows(h, u) /\ k \in Nat
  BY DEF Meets, Spoken, Quiet
<1>2. t \in 0 .. t /\ u \in 0 .. u /\ t <= t /\ u <= u
  BY <1>1 DEF Grows
<1>3. {g[t].sent, g[t].done, h[u].sent, h[u].done} \subseteq Nat
  <2>1. {g[t].sent, g[t].done} \subseteq Nat
    BY <1>1, <1>2, PastIs
  <2>2. {h[u].sent, h[u].done} \subseteq Nat
    BY <1>1, <1>2, PastIs
  <2> QED
    BY <2>1, <2>2
<1>4. /\ Count(p) \in Nat /\ Done(p) \in Nat /\ Count(o) \in Nat /\ Done(o) \in Nat
      /\ InFlight \in Nat
  BY <1>1, Counts, Widths
<1>5. /\ g[t].sent <= Count(p) /\ g[t].done <= Done(p)
      /\ h[u].sent <= Count(o) /\ h[u].done <= Done(o)
      /\ Done(p) <= h[u].sent /\ Count(p) <= h[u].done + InFlight
      /\ Done(o) <= g[t].sent /\ Count(o) <= g[t].done + InFlight
  BY DEF Meets, Spoken, Quiet, Heard
<1>6. /\ Count(p) <= g[t].sent + InFlight /\ Done(p) <= g[t].done + InFlight
      /\ h[u].sent <= Done(p) + InFlight /\ h[u].done <= g[t].sent
  BY <1>3, <1>4, <1>5
<1> QED
  BY <1>1, <1>2, <1>3, <1>5, <1>6

\* So an end in use speaks as it should, and holds no message for long.
LEMMA MeetsSpeaks ==
    ASSUME NEW p, NEW o, NEW k, NEW mine, NEW theirs, NEW g, NEW t, NEW h, NEW u,
           Meets(p, o, k, mine, theirs, g, t, h, u), p.occupied
    PROVE  Speaks(p, k, mine, g, t) /\ Count(p) - Pend(p) <= g[t].sent
<1>1. /\ p \in Peer /\ k \in Nat /\ Grows(g, t) /\ Near(p, g, t) /\ h[u].done <= g[t].sent
      /\ h[u].done \in Nat /\ g[t].sent \in Nat /\ u \in 0 .. u /\ Grows(h, u)
  BY MeetsIs DEF Near
<1>2. Said(p, k, mine, g, t) /\ OnWire(p, k, mine, g, t) /\ Listens(p, k, theirs, h, u)
  BY DEF Meets, Spoken, Quiet, Heard
<1>3. Count(p) - Pend(p) <= g[t].sent
  <2> DEFINE r == p.remote_sequence
  <2>1. r \in 0 .. u /\ Count(p) - Pend(p) <= h[r].done
    BY <1>2 DEF Listens
  <2>2. r <= u
    BY <1>1, <2>1 DEF Grows
  <2> HIDE DEF r
  <2>3. h[r].done <= h[u].done /\ h[r].done \in Nat
    BY <1>1, <2>1, <2>2, PastIs
  <2>4. Count(p) \in Nat /\ Pend(p) \in Nat
    BY <1>1, Counts
  <2> QED
    BY <1>1, <2>1, <2>3, <2>4
<1> QED
  BY <1>1, <1>2, <1>3 DEF Speaks
-----------------------------------------------------------------------------
(* Every call keeps the two ends in step *)

SlotsOrIdle(p, q) ==
    \A s \in Slots : q.reassembly[s] \in {p.reassembly[s], Idle(p.reassembly[s])}

\* Slots let go hold nothing wrong.
LEMMA SlotsLetGo ==
    ASSUME NEW p, NEW k, NEW plan, NEW hi, Taken(p, k, plan, hi), NEW q \in Peer,
           SameQueue(p, q), SameSeen(p, q), q.delivered = p.delivered, SlotsOrIdle(p, q)
    PROVE  Taken(q, k, plan, hi) /\ Done(q) = Done(p)
<1>1. InLine(q, k, hi) /\ Done(q) = Done(p) /\ \A x \in Nat : Got(q, x) <=> Got(p, x)
  BY SlotInLine DEF Taken
<1>2. p.reassembly \in [Slots -> Slot] /\ hi \in Nat
  BY DEF Taken, InLine, Peer, Lined
<1>3. \A s \in Reliables(q) : s \in Reliables(p) /\ q.reassembly[s] = p.reassembly[s]
  <2> SUFFICES ASSUME NEW s \in Reliables(q)
               PROVE  s \in Reliables(p) /\ q.reassembly[s] = p.reassembly[s]
    OBVIOUS
  <2>1. s \in Slots /\ q.reassembly[s].active
    BY DEF Reliables, ActiveSlots
  <2>2. ~Idle(p.reassembly[s]).active
    BY <1>2, <2>1, IdleIs
  <2>3. q.reassembly[s] = p.reassembly[s]
    BY <2>1, <2>2 DEF SlotsOrIdle
  <2> QED
    BY <2>1, <2>3 DEF Reliables, ActiveSlots
<1>4. \A s \in Reliables(q) : SlotRight(q, q.reassembly[s], k, plan, hi)
  <2>1. ASSUME NEW s \in Reliables(q) PROVE SlotRight(q, q.reassembly[s], k, plan, hi)
    <3>1. SlotRight(p, p.reassembly[s], k, plan, hi)
      BY <1>3 DEF Taken, SlotsRight
    <3> QED
      BY <1>1, <1>2, <1>3, <3>1 DEF SlotRight
  <2> QED
    BY <2>1
<1>5. SlotsRight(q, k, plan, hi)
  BY <1>3, <1>4 DEF Taken, SlotsRight
<1> QED
  BY <1>1, <1>5 DEF Taken

\* What an end says keeps it in step.
LEMMA TalkMeets ==
    ASSUME NEW p, NEW o, NEW k, NEW mine, NEW theirs, NEW g, NEW t, NEW h, NEW u,
           Meets(p, o, k, mine, theirs, g, t, h, u), p.occupied,
           NEW q, Talks(p, q, k, mine, g, t), SlotsOrIdle(p, q)
    PROVE  MeetsOn(q, o, k, mine, theirs, g, t, h, u)
<1>1. /\ p \in Peer /\ o \in Peer /\ Grows(g, t) /\ Grows(h, u) /\ u \in 0 .. u
      /\ h[u].done \in Nat
  BY MeetsIs
<1>2. /\ SameHearing(p, q) /\ SameQueue(p, q) /\ SameSeen(p, q) /\ q.delivered = p.delivered
      /\ Count(q) - Pend(q) = Count(p) - Pend(p) /\ Done(q) = Done(p)
  BY DEF Talks, Done
<1>3. PICK g2, t2 : Extends(g, t, g2, t2) /\ Speaks(q, k, mine, g2, t2)
  BY DEF Talks
<1>4. q \in Peer /\ Grows(g2, t2) /\ Quiet(q, k, mine, g2, t2) /\ Said(q, k, mine, g2, t2)
  BY <1>3, SpeaksQuiet DEF Speaks
<1>5. Spoken(q, k, mine, g2, t2)
  BY <1>2, <1>4 DEF Spoken, Meets, SameHearing
<1>6. Listens(p, k, theirs, h, u) /\ Done(p) <= h[u].sent
  BY DEF Meets, Heard
<1> DEFINE r == p.remote_sequence
<1>7. /\ r \in 0 .. u /\ q.remote_sequence = r /\ Taken(p, k, theirs, h[r].sent)
      /\ Count(p) - Pend(p) <= h[r].done
  BY <1>2, <1>6 DEF Listens, SameHearing
<1> HIDE DEF r
<1>8. Taken(q, k, theirs, h[r].sent)
  BY <1>2, <1>4, <1>7, SlotsLetGo
<1>9. Count(q) <= h[u].done + InFlight
  <2>1. r <= u
    BY <1>1, <1>7 DEF Grows
  <2>2. h[r].done <= h[u].done /\ h[r].done \in Nat
    BY <1>1, <1>7, <2>1, PastIs
  <2>3. /\ Count(q) \in Nat /\ Pend(q) \in Nat /\ Pend(q) <= InFlight /\ InFlight \in Nat
        /\ Count(p) \in Nat /\ Pend(p) \in Nat
    BY <1>1, <1>4, Counts, Widths DEF Said, QueuedRight
  <2>4. Count(q) - Pend(q) <= h[r].done
    BY <1>2, <1>7
  <2> QED
    BY <1>1, <2>2, <2>3, <2>4
<1>10. Heard(q, k, theirs, h, u)
  BY <1>2, <1>6, <1>7, <1>8, <1>9 DEF Heard, Listens
<1>11. Heard(o, k, mine, g2, t2)
  BY <1>1, <1>3, <1>4, HeardStill DEF Meets
<1>12. Meets(q, o, k, mine, theirs, g2, t2, h, u)
  BY <1>5, <1>10, <1>11 DEF Meets
<1> QED
  BY <1>3, <1>12 DEF MeetsOn

\* An end that leaves says and hears no more.
LEMMA EndMeets ==
    ASSUME NEW p, NEW o, NEW k, NEW mine, NEW theirs, NEW g, NEW t, NEW h, NEW u,
           Meets(p, o, k, mine, theirs, g, t, h, u),
           NEW q, Ended(p, q, k, mine, g, t), q.reason # "protocol"
    PROVE  MeetsOn(q, o, k, mine, theirs, g, t, h, u)
<1>1. q.occupied = FALSE /\ q.delivered = p.delivered /\ Count(q) = Count(p) /\ Done(q) = Done(p)
  BY DEF Ended, Done
<1>2. PICK g2, t2 : Extends(g, t, g2, t2) /\ Quiet(q, k, mine, g2, t2)
  BY DEF Ended
<1>3. Spoken(q, k, mine, g2, t2)
  BY <1>1, <1>2 DEF Meets, Spoken
<1>4. Heard(q, k, theirs, h, u)
  BY <1>1 DEF Meets, Heard
<1>5. Heard(o, k, mine, g2, t2)
  <2>1. o \in Peer /\ Grows(g, t) /\ Grows(g2, t2)
    BY <1>2, MeetsIs DEF Quiet
  <2> QED
    BY <1>2, <2>1, HeardStill DEF Meets
<1>6. Meets(q, o, k, mine, theirs, g2, t2, h, u)
  BY <1>3, <1>4, <1>5 DEF Meets
<1> QED
  BY <1>2, <1>6 DEF MeetsOn

\* The slots of an end that sends, and why it may be dropped.
LEMMA SendingKeeps ==
    ASSUME NEW p \in Peer, NEW c \in Channels, NEW due, p.todo[c] # <<>>
    PROVE  LET q == Sending(p, c, due) IN
           /\ q.occupied => SlotsOrIdle(p, q) /\ q.reason = p.reason
           /\ ~q.occupied => q.reason \in {p.reason, "timeout"}
<1> DEFINE q == Sending(p, c, due)
<1>1. Drawn(p, c) \in Peer /\ SameHearing(p, Drawn(p, c)) /\ SameTaking(p, Drawn(p, c))
  BY DrawnIs
<1>2. CASE /\ q = Counted(Unqueued(p), p.sent["unreliable"] + 1) /\ c = "unreliable"
           /\ Unqueued(p) \in SendsFrom(Drawn(p, c))
  <2> DEFINE r == Unqueued(p)
             s == Counted(r, p.sent["unreliable"] + 1)
  <2>1. r \in Peer /\ SameHearing(Drawn(p, c), r) /\ SameTaking(Drawn(p, c), r)
    BY <1>2 DEF SendsFrom
  <2>2. p.sent["unreliable"] + 1 \in Nat
    BY DEF Peer, Channels
  <2> HIDE DEF r
  <2>3. SameHearing(r, s) /\ SameTaking(r, s)
    BY <2>1, <2>2, CountedIs
  <2> HIDE DEF s
  <2>4. SameHearing(p, s) /\ SameTaking(p, s)
    BY <1>1, <2>1, <2>3 DEF SameHearing, SameTaking
  <2>5. q = s
    BY <1>2 DEF s, r
  <2> HIDE DEF q
  <2>6. SlotsOrIdle(p, q) /\ q.reason = p.reason
    BY <2>4, <2>5 DEF SlotsOrIdle, SameTaking, SameHearing
  <2> QED
    BY <2>6 DEF q
<1>3. CASE q = Resend(Queued(p), due) /\ c = "reliable"
  <2>1. Queued(p) \in Peer /\ SameHearing(p, Queued(p)) /\ SameTaking(p, Queued(p))
    BY <1>3, QueuedIs
  <2> HIDE DEF q
  <2>2. q \in SendsFrom(Queued(p))
    BY <1>3, <2>1, ResendOnly
  <2>3. SameHearing(p, q) /\ SameTaking(p, q)
    BY <2>1, <2>2 DEF SendsFrom, SameHearing, SameTaking
  <2>4. SlotsOrIdle(p, q) /\ q.reason = p.reason
    BY <2>3 DEF SlotsOrIdle, SameTaking, SameHearing
  <2> QED
    BY <2>4 DEF q
<1>4. CASE q = Removed(Drawn(p, c), "timeout")
  <2>1. Removed(Drawn(p, c), "timeout").occupied = FALSE /\ Removed(Drawn(p, c), "timeout").reason = "timeout"
    BY <1>1, RemovedIs DEF Reasons
  <2> QED
    BY <1>4, <2>1
<1> HIDE DEF q
<1>5. /\ q.occupied => SlotsOrIdle(p, q) /\ q.reason = p.reason
      /\ ~q.occupied => q.reason \in {p.reason, "timeout"}
  BY <1>2, <1>3, <1>4, SendingIs DEF q
<1> QED
  BY <1>5 DEF q

\* The slots of an end that flushes or updates.
LEMMA UpdateKeeps ==
    ASSUME NEW p \in Peer, NEW expired, NEW due, NEW alone \in BOOLEAN
    PROVE  SlotsOrIdle(p, FlushPeer(p)) /\ SlotsOrIdle(p, Updated(p, expired, due, alone))
<1>1. SlotsOrIdle(p, FlushPeer(p))
  BY FlushIs DEF SlotsOrIdle, SameTaking
<1> DEFINE x == Expire(p, expired)
           r == Resend(x, due)
           f == FlushPeer(r)
           a == SendPacket(f, "data", <<>>)
           q == Updated(p, expired, due, alone)
<1>2. x \in Peer /\ SlotsOrIdle(p, x)
  BY ExpireIs DEF SlotsOrIdle
<1> HIDE DEF x
<1>3. r \in Peer /\ SameTaking(x, r)
  BY <1>2, ResendOnly DEF SendsFrom
<1> HIDE DEF r
<1>4. f \in Peer /\ SameTaking(r, f)
  BY <1>3, FlushIs
<1> HIDE DEF f
<1>5. SameTaking(f, a)
  <2>1. <<>> \in Seq(Frag)
    BY EmptySeq
  <2> QED
    BY <1>4, <2>1, SendPacketIs
<1> HIDE DEF a
<1>6. SlotsOrIdle(p, f) /\ SlotsOrIdle(p, a)
  BY <1>2, <1>3, <1>4, <1>5 DEF SlotsOrIdle, SameTaking
<1>7. q = f \/ q = a
  BY DEF Updated, x, r, f, a
<1> HIDE DEF q
<1>8. SlotsOrIdle(p, q)
  BY <1>6, <1>7
<1> QED
  BY <1>1, <1>8 DEF q
-----------------------------------------------------------------------------
(* A packet received keeps the two ends in step *)

Comes(packet, k, plan, h, u, r, s) ==
    /\ packet \in Packet /\ packet.seq \in 0 .. u /\ s \in 0 .. u
    /\ packet.reliable_ack = Nth(k, h[packet.seq].done + 1)
    /\ {h[r].sent, h[r].done, h[s].sent, h[s].done, h[packet.seq].done} \subseteq Nat
    /\ h[r].sent <= h[s].sent /\ h[r].done <= h[s].done
    /\ h[packet.seq].done <= h[s].done
    /\ h[r].done <= h[packet.seq].done + AckWindow * InFlight
    /\ \A i \in 1 .. Len(packet.fragments) : Arrives(packet.fragments[i], k, plan, h[s].sent)

\* What an end that talks puts in a packet is what the other may take.
LEMMA WireArrives ==
    ASSUME Roomy, NEW o \in Peer, NEW k \in Nat, NEW plan, NEW h, NEW u, Grows(h, u),
           OnWire(o, k, plan, h, u), NEW packet \in o.wire, NEW r \in 0 .. u,
           packet.seq <= r \/ r <= packet.seq, r - packet.seq <= AckWindow
    PROVE  Comes(packet, k, plan, h, u, r, Larger(r, packet.seq))
<1> DEFINE x == packet.seq
           s == Larger(r, x)
           y == AckWindow * InFlight
<1>1. packet \in Packet /\ x \in Nat \ {0} /\ packet.fragments \in Seq(Frag)
  BY DEF Peer, Packet
<1>2. /\ x \in 0 .. u /\ x <= u /\ u \in Nat /\ r \in Nat
      /\ packet.reliable_ack = Nth(k, h[x].done + 1)
  BY <1>1 DEF OnWire, Grows
<1>3. s \in 0 .. u /\ r <= s /\ x <= s /\ s - x <= AckWindow
  BY <1>1, <1>2, Widths DEF Larger
<1> HIDE DEF s, x
<1>4. /\ {h[r].sent, h[r].done, h[s].sent, h[s].done} \subseteq Nat
      /\ h[r].sent <= h[s].sent /\ h[r].done <= h[s].done
  BY <1>3, PastIs
<1>5. /\ {h[x].sent, h[x].done} \subseteq Nat /\ h[x].done <= h[s].done /\ h[x].sent <= h[s].sent
      /\ h[s].sent <= h[x].sent + y /\ h[s].done <= h[x].done + y
  BY <1>2, <1>3, PastIs
<1>6. y \in Nat /\ Lag = y + 2 * InFlight /\ InFlight \in Nat
  BY RoomIs, Widths
<1> HIDE DEF y
<1>7. h[r].done <= h[x].done + y
  BY <1>4, <1>5, <1>6
<1>8. ASSUME NEW i \in 1 .. Len(packet.fragments)
      PROVE  Arrives(packet.fragments[i], k, plan, h[s].sent)
  <2> DEFINE f == packet.fragments[i]
  <2>1. f \in Frag
    BY <1>1
  <2>2. /\ MeantBy(f, k, plan)
        /\ f.channel = "reliable" => f.n <= h[x].sent /\ h[x].sent < f.n + 2 * InFlight
    BY DEF OnWire, x
  <2> HIDE DEF f
  <2>3. f.n \in Nat \ {0}
    BY <2>1 DEF Frag
  <2>4. ASSUME f.channel = "reliable" PROVE f.n \in 1 .. h[s].sent /\ h[s].sent < f.n + Lag
    <3>1. f.n <= h[x].sent /\ h[x].sent < f.n + 2 * InFlight
      BY <2>2, <2>4
    <3> DEFINE before == h[x].sent
               after == h[s].sent
               n == f.n
    <3>2. /\ before \in Nat /\ after \in Nat /\ n \in Nat \ {0} /\ y \in Nat /\ InFlight \in Nat
          /\ n <= before /\ before < n + 2 * InFlight /\ before <= after /\ after <= before + y
          /\ Lag = y + 2 * InFlight
      BY <1>4, <1>5, <1>6, <2>3, <3>1
    <3> HIDE DEF before, after, n
    <3>3. n \in 1 .. after /\ after < n + Lag
      BY <3>2
    <3> QED
      BY <3>3 DEF after, n
  <2>5. Arrives(f, k, plan, h[s].sent)
    BY <2>1, <2>2, <2>4 DEF Arrives
  <2> QED
    BY <2>5 DEF f
<1> QED
  BY <1>1, <1>2, <1>3, <1>4, <1>5, <1>7, <1>8 DEF s, x, y, Comes

\* A packet that ends the talk.
LEMMA PartMeets ==
    ASSUME NEW p, NEW o, NEW k, NEW mine, NEW theirs, NEW g, NEW t, NEW h, NEW u,
           Meets(p, o, k, mine, theirs, g, t, h, u), NEW packet \in Packet
    PROVE  MeetsOn(Removed(Acted(p, packet), "requested"), o, k, mine, theirs, g, t, h, u)
<1> DEFINE a == Acted(p, packet)
           q == Removed(a, "requested")
<1>1. p \in Peer /\ Quiet(p, k, mine, g, t) /\ t \in Nat
  BY DEF Meets, Spoken, Quiet, Grows
<1>2. /\ a \in Peer /\ SameTaking(p, a) /\ SamePlan(p, a) /\ a.wire = p.wire
  BY <1>1, ActedIs
<1> HIDE DEF a
<1>3. /\ q \in Peer /\ q.occupied = FALSE /\ q.reason = "requested" /\ q.wire = a.wire
      /\ q.sent = a.sent /\ q.delivered = a.delivered
  BY <1>2, RemovedIs DEF Reasons
<1> HIDE DEF q
<1>4. Count(q) = Count(p) /\ Done(q) = Done(p) /\ q.delivered = p.delivered /\ q.wire = p.wire
  BY <1>2, <1>3 DEF Count, Done, SameTaking, SamePlan
<1>5. Quiet(q, k, mine, g, t)
  BY <1>1, <1>3, <1>4 DEF Quiet, OnWire
<1>6. Extends(g, t, g, t)
  BY <1>1 DEF Extends
<1>7. Ended(p, q, k, mine, g, t)
  BY <1>3, <1>4, <1>5, <1>6 DEF Ended
<1>8. MeetsOn(q, o, k, mine, theirs, g, t, h, u)
  BY <1>3, <1>7, EndMeets
<1> QED
  BY <1>8 DEF q, a

\* One that carries messages and an acknowledgement.
LEMMA TakeMeets ==
    ASSUME Roomy, NEW p, NEW o, NEW k, NEW mine, NEW theirs, NEW g, NEW t, NEW h, NEW u,
           Meets(p, o, k, mine, theirs, g, t, h, u), p.occupied,
           NEW packet \in o.wire, Admits(p, packet), packet.kind # "disconnect"
    PROVE  /\ Meets(HandlePacket(p, packet), o, k, mine, theirs, g, t, h, u)
           /\ HandlePacket(p, packet).occupied = p.occupied
           /\ Count(HandlePacket(p, packet)) = Count(p)
           /\ Done(p) <= Done(HandlePacket(p, packet))
<1> DEFINE r == p.remote_sequence
           x == packet.seq
           s == Larger(r, x)
           a == Acted(p, packet)
           hi == h[s].sent
           q == HandlePacket(p, packet)
           ack == h[x].done
<1>1. /\ p \in Peer /\ o \in Peer /\ Grows(g, t) /\ Grows(h, u) /\ k \in Nat /\ u \in 0 .. u
      /\ {g[t].sent, g[t].done, h[u].sent, h[u].done} \subseteq Nat
      /\ h[u].sent <= Done(p) + InFlight /\ h[u].done <= g[t].sent
      /\ g[t].sent <= Count(p) /\ g[t].done <= Done(p)
  BY MeetsIs
<1>2. /\ Spoken(p, k, mine, g, t) /\ Said(p, k, mine, g, t) /\ OnWire(o, k, theirs, h, u)
      /\ Count(p) <= h[u].done + InFlight /\ Heard(o, k, mine, g, t)
      /\ Spoken(o, k, theirs, h, u)
      /\ r \in 0 .. u /\ Taken(p, k, theirs, h[r].sent) /\ Count(p) - Pend(p) <= h[r].done
  BY DEF Meets, Spoken, Quiet, Heard, Listens
<1>3. /\ Count(p) \in Nat /\ Done(p) \in Nat /\ Pend(p) \in Nat /\ InFlight \in Nat
      /\ AckWindow \in Nat
  BY <1>1, Counts, Widths
<1>4. packet \in Packet /\ x \in Nat /\ r \in Nat
  BY <1>1, <1>2 DEF Peer, Packet
<1>5. r - x <= AckWindow
  <2>1. ~IsReplay(p, x)
    BY <1>1, <1>4, HandleForms
  <2> QED
    BY <1>3, <1>4, <2>1 DEF IsReplay
<1>6. /\ x \in 0 .. u /\ s \in 0 .. u /\ packet.reliable_ack = Nth(k, ack + 1)
      /\ {h[r].sent, h[r].done, hi, h[s].done, ack} \subseteq Nat
      /\ h[r].sent <= hi /\ h[r].done <= h[s].done /\ ack <= h[s].done
      /\ h[r].done <= ack + AckWindow * InFlight
      /\ \A i \in 1 .. Len(packet.fragments) : Arrives(packet.fragments[i], k, theirs, hi)
  <2>1. packet.seq <= r \/ r <= packet.seq
    BY <1>4
  <2>2. Comes(packet, k, theirs, h, u, r, Larger(r, packet.seq))
    BY <1>1, <1>2, <1>5, <2>1, WireArrives
  <2> QED
    BY <2>2 DEF Comes
<1>7. hi <= h[u].sent /\ ack <= h[u].done
  <2>1. s <= u /\ x <= u
    BY <1>6
  <2> HIDE DEF s, x
  <2>2. h[s].sent <= h[u].sent
    BY <1>1, <1>6, <2>1, PastIs
  <2>3. h[x].done <= h[u].done
    BY <1>1, <1>6, <2>1, PastIs
  <2> QED
    BY <2>2, <2>3 DEF s, x
<1> HIDE DEF hi, ack, s, x, r
<1>8. Taken(p, k, theirs, hi)
  <2>1. hi \in Nat /\ h[r].sent <= hi /\ hi <= Done(p) + InFlight
    BY <1>1, <1>3, <1>6, <1>7, SMTT(60)
  <2> QED
    BY <1>2, <2>1, TakenUpTo
<1>9. q \in TakesOn(a, k, theirs, hi)
  BY <1>4, <1>6, <1>8, HandleTakes
<1>10. /\ a \in Peer /\ a.occupied = p.occupied /\ a.reason = p.reason
       /\ a.remote_sequence = s /\ SameTaking(p, a) /\ SamePlan(p, a)
       /\ a.local_sequence = p.local_sequence /\ a.wire = p.wire /\ a.outgoing = p.outgoing
  BY <1>1, <1>4, ActedIs DEF s, r, x
<1>11. QueuedRight(a, k, mine) /\ Count(a) - Pend(a) = Larger(Count(p) - Pend(p), ack)
  <2> DEFINE b == Opened(p, packet)
  <2>1. b \in Peer /\ SameSaying(p, b)
    BY <1>1, <1>4, OpenedIs
  <2> HIDE DEF b
  <2>2. Count(b) = Count(p) /\ Pend(b) = Pend(p) /\ b.outgoing_reliable = p.outgoing_reliable
    BY <2>1 DEF SameSaying, SamePlan, Count, Pend
  <2>3. QueuedRight(b, k, mine)
    BY <1>2, <2>2 DEF Said, QueuedRight
  <2>4. ack \in Nat /\ ack <= Count(b) /\ Count(b) - Pend(b) <= ack + AckWindow * InFlight
    <3> DEFINE y == AckWindow * InFlight
    <3>1. y \in Nat /\ h[r].done <= ack + y
      BY <1>6, RoomIs
    <3> HIDE DEF y
    <3>2. ack <= Count(b)
      <4> DEFINE all == h[u].done
                 said == g[t].sent
      <4>1. /\ ack \in Nat /\ all \in Nat /\ said \in Nat /\ ack <= all /\ all <= said
            /\ said <= Count(p)
        BY <1>1, <1>6, <1>7
      <4> HIDE DEF all, said
      <4> QED
        BY <1>3, <2>2, <4>1
    <3>3. Count(b) - Pend(b) <= ack + y
      <4> DEFINE held == h[r].done
      <4>1. /\ Count(p) - Pend(p) <= held /\ held <= ack + y /\ Count(p) \in Nat /\ Pend(p) \in Nat
            /\ held \in Nat /\ ack \in Nat
        BY <1>2, <1>3, <1>6, <3>1
      <4> HIDE DEF held
      <4> QED
        BY <2>2, <3>1, <4>1
    <3> QED
      BY <1>6, <3>2, <3>3 DEF y
  <2>5. a = RetireReliable(b, Nth(k, ack + 1))
    BY <1>6 DEF Acted, b
  <2> HIDE DEF a
  <2> QED
    BY <1>1, <2>1, <2>2, <2>3, <2>4, <2>5, RetireIs
<1> HIDE DEF a, q
<1>12. /\ q \in Peer /\ SameHearing(a, q) /\ SameSaying(a, q) /\ Taken(q, k, theirs, hi)
       /\ Done(a) <= Done(q)
  BY <1>9 DEF TakesOn
<1>13. Lined(q, k, hi) /\ Done(q) \in Nat
  BY <1>12, Counts DEF Taken, InLine
<1>14. /\ Count(q) = Count(p) /\ Done(p) <= Done(q) /\ Done(q) <= hi
       /\ Count(q) - Pend(q) = Larger(Count(p) - Pend(p), ack)
       /\ q.wire = p.wire /\ q.reason = p.reason /\ q.remote_sequence = s
       /\ q.outgoing = p.outgoing /\ q.local_sequence = p.local_sequence
       /\ q.next_message_id = p.next_message_id /\ q.todo = p.todo
  <2>1. Done(a) = Done(p) /\ Count(a) = Count(p)
    BY <1>10 DEF SameTaking, SamePlan, Done, Count
  <2>2. Count(q) = Count(a) /\ Pend(q) = Pend(a)
    BY <1>12 DEF SameSaying, SamePlan, Count, Pend
  <2>3. Done(q) <= hi
    BY <1>13 DEF Lined
  <2> QED
    BY <1>10, <1>11, <1>12, <2>1, <2>2, <2>3 DEF SameHearing, SameSaying, SamePlan
<1>15. Said(q, k, mine, g, t)
  <2>1. Planned(q, k, mine)
    BY <1>2, <1>14 DEF Said, Planned
  <2>2. QueuedRight(q, k, mine)
    <3>1. q.outgoing_reliable = a.outgoing_reliable /\ Count(q) = Count(a) /\ Pend(q) = Pend(a)
      BY <1>12 DEF SameSaying, SamePlan, Count, Pend
    <3> QED
      BY <1>11, <3>1 DEF QueuedRight
  <2>3. Bundled(q, k, mine, g, t)
    BY <1>2, <1>14 DEF Said, Bundled
  <2>4. Numbered(q, k, g, t)
    <3>1. q.next_delivery_id = Nth(k, Done(q) + 1)
      BY <1>13 DEF Lined
    <3>2. g[t].done <= Done(q)
      BY <1>1, <1>3, <1>13, <1>14
    <3> QED
      BY <1>1, <1>2, <1>14, <3>1, <3>2 DEF Said, Numbered
  <2> QED
    BY <2>1, <2>2, <2>3, <2>4 DEF Said
<1>16. Spoken(q, k, mine, g, t)
  <2>1. g[t].done <= Done(q)
    BY <1>1, <1>3, <1>13, <1>14
  <2>2. Quiet(q, k, mine, g, t)
    BY <1>2, <1>12, <1>14, <2>1 DEF Spoken, Quiet, OnWire
  <2>3. \A i \in 1 .. Done(q) : q.delivered["reliable"][i] = i
    BY <1>13 DEF Lined
  <2> QED
    BY <1>2, <1>14, <1>15, <2>2, <2>3 DEF Spoken
<1>17. Heard(q, k, theirs, h, u)
  <2>1. Done(q) <= h[u].sent
    BY <1>1, <1>6, <1>7, <1>13, <1>14
  <2>2. Count(q) - Pend(q) <= h[s].done
    <3> DEFINE held == h[r].done
               after == h[s].done
    <3>1. /\ Count(p) - Pend(p) <= held /\ held <= after /\ ack <= after
          /\ held \in Nat /\ after \in Nat /\ ack \in Nat
      BY <1>2, <1>6
    <3> HIDE DEF held, after
    <3>2. Larger(Count(p) - Pend(p), ack) <= after
      BY <1>3, <3>1 DEF Larger
    <3> QED
      BY <1>14, <3>2 DEF after
  <2>3. Listens(q, k, theirs, h, u)
    BY <1>6, <1>12, <1>14, <2>2 DEF Listens, hi
  <2> QED
    BY <1>2, <1>14, <2>1, <2>3 DEF Heard
<1>18. Meets(q, o, k, mine, theirs, g, t, h, u)
  BY <1>2, <1>16, <1>17 DEF Meets
<1>19. q.occupied = p.occupied
  BY <1>10, <1>12 DEF SameHearing
<1> QED
  BY <1>14, <1>18, <1>19 DEF q
-----------------------------------------------------------------------------
(* The invariant of the reliable channel *)

Line(c, start, g, t) ==
    \A e \in Ends :
        /\ Spoken(c[e], start.carried, start.plan[e]["reliable"], g[e], t[e])
        /\ Heard(c[e], start.carried, start.plan[Other(e)]["reliable"], g[Other(e)], t[Other(e)])
LineInv ==
    /\ conn \in [Ends -> Peer]
    /\ \E start \in Starts, g \in [Ends -> Past], t \in [Ends -> Nat] : Line(conn, start, g, t)

\* Both ends of a line meet.
LEMMA LineMeets ==
    ASSUME NEW c, NEW start, NEW g, NEW t, Line(c, start, g, t), NEW e \in Ends
    PROVE  Meets(c[e], c[Other(e)], start.carried, start.plan[e]["reliable"],
                 start.plan[Other(e)]["reliable"], g[e], t[e], g[Other(e)], t[Other(e)])
<1>1. Other(e) \in Ends /\ Other(Other(e)) = e
  BY TwoEnds
<1>2. /\ Spoken(c[e], start.carried, start.plan[e]["reliable"], g[e], t[e])
      /\ Heard(c[e], start.carried, start.plan[Other(e)]["reliable"], g[Other(e)], t[Other(e)])
  BY DEF Line
<1>3. /\ Spoken(c[Other(e)], start.carried, start.plan[Other(e)]["reliable"], g[Other(e)], t[Other(e)])
      /\ Heard(c[Other(e)], start.carried, start.plan[Other(Other(e))]["reliable"],
               g[Other(Other(e))], t[Other(Other(e))])
  BY <1>1 DEF Line
<1> QED
  BY <1>1, <1>2, <1>3, Zenon DEF Meets

\* A connection starts in line.
LEMMA StartsSpoken ==
    ASSUME NEW k \in Nat, NEW plan \in Seq(1 .. MaxMessage), NEW p, NEW todo, Fresh(p, todo),
           Carries(p, k), todo["reliable"] = plan
    PROVE  Spoken(p, k, plan, [n \in Nat |-> [sent |-> 0, done |-> 0]], k)
<1> DEFINE g == [n \in Nat |-> [sent |-> 0, done |-> 0]]
<1>1. /\ p \in Peer /\ p.occupied = TRUE /\ p.reason = "none" /\ p.outgoing_reliable = <<>>
      /\ p.outgoing = <<>> /\ p.wire = {} /\ p.todo["reliable"] = plan
      /\ p.sent["reliable"] = 0 /\ p.delivered["reliable"] = <<>>
      /\ p.local_sequence = k + 1 /\ p.next_delivery_id = k % IdSpace
      /\ p.next_message_id["reliable"] = k % IdSpace
  BY DEF Fresh, Carries, Channels
<1>2. Count(p) = 0 /\ Done(p) = 0 /\ Pend(p) = 0 /\ Len(p.outgoing) = 0 /\ Len(plan) \in Nat
  BY <1>1 DEF Count, Done, Pend
<1>3. \A n \in Nat : g[n].sent = 0 /\ g[n].done = 0
  OBVIOUS
<1>4. g \in Past
  BY DEF Past
<1> HIDE DEF g
<1>5. Grows(g, k)
  <2>1. \A r, s \in 0 .. k : r \in Nat /\ s \in Nat /\ (r <= s => s - r \in Nat)
    OBVIOUS
  <2>2. \A x \in Nat : x * InFlight \in Nat
    BY Widths
  <2>3. ASSUME NEW r \in 0 .. k, NEW s \in 0 .. k, r <= s
        PROVE  /\ g[r].sent <= g[s].sent /\ g[s].sent <= g[r].sent + (s - r) * InFlight
               /\ g[r].done <= g[s].done /\ g[s].done <= g[r].done + (s - r) * InFlight
    <3> DEFINE x == (s - r) * InFlight
    <3>1. x \in Nat
      BY <2>1, <2>2, <2>3
    <3>2. g[r].sent = 0 /\ g[s].sent = 0 /\ g[r].done = 0 /\ g[s].done = 0
      BY <1>3, <2>1
    <3> HIDE DEF x
    <3>3. 0 <= 0 + x
      BY <3>1
    <3> QED
      BY <3>2, <3>3 DEF x
  <2> QED
    BY <1>4, <2>3 DEF Grows
<1>6. Nth(k, 1) = k % IdSpace
  <2>1. (k + 1) - 1 = k
    OBVIOUS
  <2> QED
    BY <2>1 DEF Nth
<1>7. Said(p, k, plan, g, k)
  <2>1. Planned(p, k, plan)
    BY <1>1, <1>2, <1>6 DEF Planned
  <2>2. QueuedRight(p, k, plan)
    BY <1>2, Widths DEF QueuedRight
  <2>3. Bundled(p, k, plan, g, k)
    BY <1>2 DEF Bundled
  <2>4. Numbered(p, k, g, k)
    BY <1>1, <1>2, <1>3, <1>6 DEF Numbered
  <2> QED
    BY <2>1, <2>2, <2>3, <2>4 DEF Said
<1>8. Quiet(p, k, plan, g, k)
  BY <1>1, <1>2, <1>3, <1>5 DEF Quiet, OnWire
<1>9. Spoken(p, k, plan, g, k)
  BY <1>1, <1>2, <1>7, <1>8 DEF Spoken
<1> QED
  BY <1>9 DEF g

\* And hears nothing yet.
LEMMA StartsHeard ==
    ASSUME NEW k \in Nat, NEW plan, NEW p, NEW todo, Fresh(p, todo), Carries(p, k)
    PROVE  Heard(p, k, plan, [n \in Nat |-> [sent |-> 0, done |-> 0]], k)
<1> DEFINE g == [n \in Nat |-> [sent |-> 0, done |-> 0]]
<1>1. /\ p \in Peer /\ p.outgoing_reliable = <<>> /\ p.incoming_reliable = <<>>
      /\ p.reassembly = [s \in Slots |-> FreeSlot] /\ p.remote_sequence = k
      /\ p.sent["reliable"] = 0 /\ p.delivered["reliable"] = <<>>
      /\ p.next_delivery_id = k % IdSpace
      /\ p.seen_any["reliable"] = (k > 0)
      /\ k > 0 => p.seen_newest["reliable"] = (k - 1) % IdSpace
  BY DEF Fresh, Carries, Channels
<1>2. Count(p) = 0 /\ Done(p) = 0 /\ Pend(p) = 0 /\ Len(p.incoming_reliable) = 0
  BY <1>1 DEF Count, Done, Pend
<1>3. g[k].sent = 0 /\ g[k].done = 0
  OBVIOUS
<1> HIDE DEF g
<1>4. Nth(k, 0 + 1) = k % IdSpace /\ Nth(k, 0) = (k - 1) % IdSpace
  <2>1. (k + (0 + 1)) - 1 = k /\ (k + 0) - 1 = k - 1
    OBVIOUS
  <2> QED
    BY <2>1 DEF Nth
<1>5. Lined(p, k, 0)
  BY <1>1, <1>2, <1>4, Widths DEF Lined
<1>6. \A n \in Nat : Got(p, n) => n = 0
  BY <1>2 DEF Got
<1>7. SeenRight(p, k, 0)
  <2>1. CASE k > 0
    <3>1. SeenTo(p, k, 0)
      <4>1. \A j \in 0 .. SeenWindow - 1 : ~(0 - j >= 1)
        BY Widths
      <4> QED
        BY <1>1, <1>4, <1>6, <2>1, <4>1 DEF SeenTo
    <3>2. p.seen_any["reliable"]
      BY <1>1, <2>1, Zenon
    <3>3. 0 \in 0 .. 0
      OBVIOUS
    <3> QED
      BY <3>1, <3>2, <3>3 DEF SeenRight
  <2>2. CASE ~(k > 0)
    <3>1. k = 0
      BY <2>2
    <3> QED
      BY <1>1, <1>6, <2>2, <3>1 DEF SeenRight
  <2> QED
    BY <2>1, <2>2
<1>8. SlotsRight(p, k, plan, 0)
  <2>1. Reliables(p) = {}
    BY <1>1 DEF Reliables, ActiveSlots, FreeSlot
  <2> QED
    BY <2>1 DEF SlotsRight
<1>9. Listens(p, k, plan, g, k)
  <2>1. k \in 0 .. k
    OBVIOUS
  <2> QED
    BY <1>1, <1>2, <1>3, <1>5, <1>7, <1>8, <2>1 DEF Listens, Taken, InLine
<1>10. Heard(p, k, plan, g, k)
  BY <1>2, <1>3, <1>9, Widths DEF Heard
<1> QED
  BY <1>10 DEF g

\* The initial states are in line.
LEMMA LineInit == NetInit => LineInv
<1> SUFFICES ASSUME NetInit PROVE LineInv
  OBVIOUS
<1>1. PICK start \in Starts : conn = [e \in Ends |-> Established(start.carried, start.plan[e])]
  BY DEF NetInit
<1> DEFINE k == start.carried
           none == [n \in Nat |-> [sent |-> 0, done |-> 0]]
           g == [e \in Ends |-> none]
           t == [e \in Ends |-> k]
<1>2. none \in Past
  BY DEF Past
<1>3. ASSUME NEW e \in Ends
      PROVE  /\ conn[e] \in Peer /\ k \in Nat
             /\ Fresh(conn[e], start.plan[e]) /\ Carries(conn[e], k)
             /\ start.plan[e]["reliable"] \in Seq(1 .. MaxMessage)
  <2>1. conn[e] = Established(k, start.plan[e])
    BY <1>1
  <2>2. /\ k \in Nat /\ start.plan[e] \in Plans
        /\ Fresh(conn[e], start.plan[e]) /\ Carries(conn[e], k)
    BY <2>1, StartIs
  <2>3. conn[e] \in Peer /\ start.plan[e]["reliable"] \in Seq(1 .. MaxMessage)
    BY <2>2 DEF Fresh, Plans, Channels
  <2> QED
    BY <2>2, <2>3
<1> HIDE DEF none
<1>4. ASSUME NEW e \in Ends
      PROVE  /\ Spoken(conn[e], k, start.plan[e]["reliable"], g[e], t[e])
             /\ Heard(conn[e], k, start.plan[Other(e)]["reliable"], g[Other(e)], t[Other(e)])
  <2>1. g[e] = none /\ g[Other(e)] = none /\ t[e] = k /\ t[Other(e)] = k
    BY TwoEnds
  <2>2. Spoken(conn[e], k, start.plan[e]["reliable"], none, k)
    BY <1>3, StartsSpoken DEF none
  <2>3. Heard(conn[e], k, start.plan[Other(e)]["reliable"], none, k)
    BY <1>3, StartsHeard DEF none
  <2> QED
    BY <2>1, <2>2, <2>3
<1>5. PICK e0 \in Ends : TRUE
  BY WindowAssumption
<1>6. g \in [Ends -> Past] /\ t \in [Ends -> Nat]
  BY <1>2, <1>3, <1>5
<1>7. conn \in [Ends -> Peer]
  BY <1>1, <1>3
<1> HIDE DEF g, t
<1>8. Line(conn, start, g, t)
  BY <1>4 DEF Line
<1> QED
  BY <1>6, <1>7, <1>8 DEF LineInv

\* Every call keeps its end in step with the other.
LEMMA CallMeets ==
    ASSUME Roomy, NEW e \in Ends, NEW k, NEW mine, NEW theirs, NEW g, NEW t, NEW h, NEW u,
           Meets(conn[e], conn[Other(e)], k, mine, theirs, g, t, h, u), NEW q, Called(e, q)
    PROVE  MeetsOn(q, conn[Other(e)], k, mine, theirs, g, t, h, u)
<1> DEFINE p == conn[e]
           o == conn[Other(e)]
<1>1. Meets(p, o, k, mine, theirs, g, t, h, u) /\ p.occupied
  BY DEF Called
<1> HIDE DEF o
<1>2. /\ p \in Peer /\ o \in Peer /\ Speaks(p, k, mine, g, t) /\ Count(p) - Pend(p) <= g[t].sent
      /\ p.reason # "protocol"
  BY <1>1, MeetsIs, MeetsSpeaks DEF Meets, Spoken
<1>3. \/ \E c \in Channels : \E due : p.todo[c] # <<>> /\ q = Sending(p, c, due)
      \/ q = FlushPeer(p)
      \/ \E packet \in o.wire : q = HandlePacket(p, packet)
      \/ \E expired, due : \E alone \in BOOLEAN : q = Updated(p, expired, due, alone)
      \/ q = Removed(p, "timeout")
      \/ q = Removed(SendPacket(FlushPeer(p), "disconnect", <<>>), "caller")
  BY DEF Called, o
<1> HIDE DEF p
<1>4. ASSUME NEW r, Talks(p, r, k, mine, g, t), SlotsOrIdle(p, r)
      PROVE  MeetsOn(r, o, k, mine, theirs, g, t, h, u)
  BY <1>1, <1>4, TalkMeets
<1>5. ASSUME NEW r, Ended(p, r, k, mine, g, t), r.reason # "protocol"
      PROVE  MeetsOn(r, o, k, mine, theirs, g, t, h, u)
  BY <1>1, <1>5, EndMeets
<1>6. ASSUME NEW c \in Channels, NEW due, p.todo[c] # <<>>
      PROVE  MeetsOn(Sending(p, c, due), o, k, mine, theirs, g, t, h, u)
  <2> DEFINE r == Sending(p, c, due)
  <2>1. /\ r.occupied => SlotsOrIdle(p, r) /\ r.reason = p.reason
        /\ ~r.occupied => r.reason \in {p.reason, "timeout"}
    BY <1>2, <1>6, SendingKeeps
  <2>2. Talks(p, r, k, mine, g, t) \/ Ended(p, r, k, mine, g, t)
    BY <1>2, <1>6, SendingTalks
  <2> HIDE DEF r
  <2>3. CASE Talks(p, r, k, mine, g, t)
    <3>1. r.occupied
      BY <1>1, <2>3 DEF Talks, SameHearing
    <3> QED
      BY <1>4, <2>1, <2>3, <3>1 DEF r
  <2>4. CASE Ended(p, r, k, mine, g, t)
    <3>1. r.reason # "protocol"
      BY <1>2, <2>1, <2>4 DEF Ended
    <3> QED
      BY <1>5, <2>4, <3>1 DEF r
  <2> QED
    BY <2>2, <2>3, <2>4
<1>7. MeetsOn(FlushPeer(p), o, k, mine, theirs, g, t, h, u)
  <2>1. TRUE \in BOOLEAN
    OBVIOUS
  <2>2. Talks(p, FlushPeer(p), k, mine, g, t) /\ SlotsOrIdle(p, FlushPeer(p))
    BY <1>2, <2>1, UpdateTalks, UpdateKeeps
  <2> QED
    BY <1>4, <2>2
<1>8. ASSUME NEW expired, NEW due, NEW alone \in BOOLEAN
      PROVE  MeetsOn(Updated(p, expired, due, alone), o, k, mine, theirs, g, t, h, u)
  <2>1. /\ Talks(p, Updated(p, expired, due, alone), k, mine, g, t)
        /\ SlotsOrIdle(p, Updated(p, expired, due, alone))
    BY <1>2, UpdateTalks, UpdateKeeps
  <2> QED
    BY <1>4, <2>1
<1>9. MeetsOn(Removed(p, "timeout"), o, k, mine, theirs, g, t, h, u)
  <2>1. Removed(p, "timeout").reason = "timeout"
    BY <1>2, RemovedIs DEF Reasons
  <2>2. Ended(p, Removed(p, "timeout"), k, mine, g, t)
    BY <1>2, LeaveEnds
  <2>3. Removed(p, "timeout").reason # "protocol"
    BY <2>1
  <2> QED
    BY <1>5, <2>2, <2>3
<1>10. MeetsOn(Removed(SendPacket(FlushPeer(p), "disconnect", <<>>), "caller"), o, k, mine, theirs, g, t, h, u)
  <2> DEFINE f == FlushPeer(p)
             s == SendPacket(f, "disconnect", <<>>)
             r == Removed(s, "caller")
  <2>1. f \in Peer
    BY <1>2, FlushIs
  <2> HIDE DEF f
  <2>2. <<>> \in Seq(Frag)
    BY EmptySeq
  <2>3. s \in Peer
    BY <2>1, <2>2, SendPacketIs
  <2> HIDE DEF s
  <2>4. r.reason = "caller"
    BY <2>3, RemovedIs DEF Reasons
  <2>5. Ended(p, r, k, mine, g, t)
    BY <1>2, LeaveEnds DEF s, f
  <2> HIDE DEF r
  <2>6. MeetsOn(r, o, k, mine, theirs, g, t, h, u)
    BY <1>5, <2>4, <2>5
  <2> QED
    BY <2>6 DEF r, s, f
<1>11. ASSUME NEW packet \in o.wire
       PROVE  MeetsOn(HandlePacket(p, packet), o, k, mine, theirs, g, t, h, u)
  <2>1. packet \in Packet
    BY <1>2 DEF Peer
  <2>2. t \in Nat /\ Extends(g, t, g, t)
    BY <1>2 DEF Speaks, Grows, Extends
  <2>3. CASE ~Admits(p, packet)
    <3>1. HandlePacket(p, packet) = p
      BY <1>2, <2>1, <2>3, HandleForms
    <3> QED
      BY <1>1, <2>2, <3>1 DEF MeetsOn
  <2>4. CASE Admits(p, packet) /\ packet.kind = "disconnect"
    <3>1. HandlePacket(p, packet) = Removed(Acted(p, packet), "requested")
      BY <1>2, <2>1, <2>4, HandleForms
    <3>2. MeetsOn(Removed(Acted(p, packet), "requested"), o, k, mine, theirs, g, t, h, u)
      BY <1>1, <2>1, PartMeets
    <3> QED
      BY <3>1, <3>2
  <2>5. CASE Admits(p, packet) /\ packet.kind # "disconnect"
    <3>1. Meets(HandlePacket(p, packet), o, k, mine, theirs, g, t, h, u)
      BY <1>1, <2>5, TakeMeets
    <3> QED
      BY <2>2, <3>1 DEF MeetsOn
  <2> QED
    BY <2>3, <2>4, <2>5
<1>12. MeetsOn(q, o, k, mine, theirs, g, t, h, u)
  BY <1>3, <1>6, <1>7, <1>8, <1>9, <1>10, <1>11
<1> QED
  BY <1>12 DEF o

\* Every step keeps the line.
LEMMA LineStep == ASSUME Roomy PROVE LineInv /\ [NetNext]_conn => LineInv'
<1> SUFFICES ASSUME LineInv, [NetNext]_conn PROVE LineInv'
  OBVIOUS
<1>1. CASE UNCHANGED conn
  BY <1>1, Zenon DEF LineInv, Line
<1>2. CASE NetNext
  <2>1. PICK e \in Ends : \E q : conn' = [conn EXCEPT ![e] = q] /\ Called(e, q)
    BY <1>2, StepIs
  <2>2. PICK q : conn' = [conn EXCEPT ![e] = q] /\ Called(e, q)
    BY <2>1
  <2>3. PICK start \in Starts, g \in [Ends -> Past], t \in [Ends -> Nat] : Line(conn, start, g, t)
    BY DEF LineInv
  <2> DEFINE o == Other(e)
             k == start.carried
             mine == start.plan[e]["reliable"]
             theirs == start.plan[o]["reliable"]
  <2>4. Meets(conn[e], conn[o], k, mine, theirs, g[e], t[e], g[o], t[o])
    BY <2>3, LineMeets
  <2>5. MeetsOn(q, conn[o], k, mine, theirs, g[e], t[e], g[o], t[o])
    BY <2>2, <2>4, CallMeets
  <2>6. PICK g2, t2 : Meets(q, conn[o], k, mine, theirs, g2, t2, g[o], t[o])
    BY <2>5 DEF MeetsOn
  <2>7. q \in Peer /\ g2 \in Past /\ t2 \in Nat
    BY <2>6 DEF Meets, Spoken, Quiet, Grows
  <2>8. o \in Ends /\ o # e /\ Other(o) = e /\ \A d \in Ends : d = e \/ d = o
    BY TwoEnds
  <2> DEFINE gg == [g EXCEPT ![e] = g2]
             tt == [t EXCEPT ![e] = t2]
  <2>9. gg \in [Ends -> Past] /\ tt \in [Ends -> Nat]
    BY <2>3, <2>7
  <2>10. gg[e] = g2 /\ gg[o] = g[o] /\ tt[e] = t2 /\ tt[o] = t[o]
    BY <2>3, <2>8
  <2>11. conn' \in [Ends -> Peer] /\ conn'[e] = q /\ conn'[o] = conn[o]
    BY <2>2, <2>7, <2>8 DEF LineInv
  <2> HIDE DEF gg, tt, o
  <2>12. Spoken(q, k, mine, g2, t2) /\ Heard(q, k, theirs, g[o], t[o])
    BY <2>6 DEF Meets
  <2>13. Spoken(conn[o], k, theirs, g[o], t[o]) /\ Heard(conn[o], k, mine, g2, t2)
    BY <2>6 DEF Meets
  <2>14. /\ Spoken(conn'[e], start.carried, start.plan[e]["reliable"], gg[e], tt[e])
         /\ Heard(conn'[e], start.carried, start.plan[Other(e)]["reliable"], gg[Other(e)], tt[Other(e)])
    BY <2>10, <2>11, <2>12 DEF o
  <2>15. /\ Spoken(conn'[o], start.carried, start.plan[o]["reliable"], gg[o], tt[o])
         /\ Heard(conn'[o], start.carried, start.plan[Other(o)]["reliable"], gg[Other(o)], tt[Other(o)])
    BY <2>8, <2>10, <2>11, <2>13
  <2>16. Line(conn', start, gg, tt)
    BY <2>8, <2>14, <2>15, Zenon DEF Line
  <2>17. conn' \in [Ends -> Peer] /\ \E st \in Starts, x \in [Ends -> Past], y \in [Ends -> Nat] : Line(conn', st, x, y)
    BY <2>9, <2>11, <2>16
  <2> QED
    BY <2>17, Zenon DEF LineInv, Line
<1> QED
  BY <1>1, <1>2
-----------------------------------------------------------------------------
(***************************************************************************)
(* An honest end is served, so long as half the ids exceed what the        *)
(* acknowledgement window may span.                                        *)
(***************************************************************************)

\* What the other end holds of what is outstanding.
Serves(p, o, k) ==
    /\ p \in Peer /\ o \in Peer /\ k \in Nat
    /\ Done(o) <= Count(p) /\ Count(p) <= Done(o) + InFlight /\ Count(p) - Pend(p) <= Done(o)
    /\ Pend(p) <= InFlight /\ Pend(p) <= Count(p)
    /\ \A i \in 1 .. Pend(p) : LET m == p.outgoing_reliable[i] IN
           m.n = (Count(p) - Pend(p)) + i /\ m.id = Nth(k, (Count(p) - Pend(p)) + i)
    /\ Lined(o, k, Count(p)) /\ SeenRight(o, k, Count(p))

\* Two ends in step serve each other.
LEMMA MeetsServe ==
    ASSUME NEW p, NEW o, NEW k, NEW mine, NEW theirs, NEW g, NEW t, NEW h, NEW u,
           Meets(p, o, k, mine, theirs, g, t, h, u), p.occupied, o.occupied
    PROVE  Serves(p, o, k)
<1> DEFINE all == h[u].done
           said == g[t].sent
           r == o.remote_sequence
           heard == g[r].sent
           mark == p.remote_sequence
           told == h[mark].done
<1>1. /\ p \in Peer /\ o \in Peer /\ Grows(g, t) /\ Grows(h, u) /\ k \in Nat
      /\ t \in 0 .. t /\ u \in 0 .. u /\ said \in Nat /\ all \in Nat
  BY MeetsIs
<1>2. /\ all <= Done(o) /\ Count(p) <= all + InFlight /\ Done(o) <= said /\ said <= Count(p)
      /\ Listens(p, k, theirs, h, u) /\ Listens(o, k, mine, g, t) /\ QueuedRight(p, k, mine)
  BY DEF Meets, Spoken, Quiet, Heard, Said
<1>3. /\ r \in 0 .. t /\ Taken(o, k, mine, heard) /\ mark \in 0 .. u
      /\ Count(p) - Pend(p) <= told
  BY <1>2 DEF Listens
<1>4. r <= t /\ mark <= u
  BY <1>1, <1>3 DEF Grows
<1>5. /\ Count(p) \in Nat /\ Pend(p) \in Nat /\ Done(o) \in Nat /\ InFlight \in Nat
  BY <1>1, Counts, Widths
<1> HIDE DEF r, mark
<1>6. heard <= said /\ heard \in Nat
  BY <1>1, <1>3, <1>4, PastIs
<1>7. told <= all /\ told \in Nat
  BY <1>1, <1>3, <1>4, PastIs
<1> HIDE DEF all, said, heard, told
<1>8. /\ Done(o) <= Count(p) /\ Count(p) <= Done(o) + InFlight /\ Count(p) - Pend(p) <= Done(o)
      /\ heard <= Count(p)
  BY <1>1, <1>2, <1>3, <1>5, <1>6, <1>7
<1>9. Taken(o, k, mine, Count(p))
  BY <1>3, <1>5, <1>8, TakenUpTo
<1> QED
  BY <1>1, <1>2, <1>8, <1>9 DEF Serves, Taken, InLine, QueuedRight

\* What is outstanding is taken, or was handed over and is retired.
LEMMA ServedIs ==
    ASSUME Roomy, NEW p, NEW o, NEW k, Serves(p, o, k)
    PROVE  /\ (Done(o) + 1) .. Count(p) \subseteq {m.n : m \in Range(p.outgoing_reliable)}
           /\ \A m \in Range(p.outgoing_reliable) :
                  IF m.n <= Done(o)
                  THEN ~Implausible(p, o.next_delivery_id) /\ Newer(o.next_delivery_id, m.id)
                  ELSE \/ \E x \in Range(o.incoming_reliable) : x.n = m.n
                       \/ Acceptable(o, m.id) /\ ~IsSeen(o, "reliable", m.id)
<1> DEFINE s == p.outgoing_reliable
           N == Pend(p)
           A == Count(p) - Pend(p)
           d == Done(o)
           ack == o.next_delivery_id
<1>1. /\ N \in Nat /\ A \in Nat /\ d \in Nat /\ Count(p) = A + N /\ Count(p) \in Nat
      /\ d <= A + N /\ A + N <= d + InFlight /\ A <= d /\ N <= InFlight /\ k \in Nat
      /\ InFlight \in Nat \ {0} /\ o \in Peer /\ p \in Peer
  <2>1. /\ Count(p) \in Nat /\ Pend(p) \in Nat /\ Done(o) \in Nat /\ InFlight \in Nat \ {0}
        /\ o \in Peer /\ p \in Peer
    BY Counts, Widths DEF Serves
  <2> QED
    BY <2>1 DEF Serves
<1>2. /\ \A i \in 1 .. N : s[i].n = A + i /\ s[i].id = Nth(k, A + i)
      /\ ack = Nth(k, d + 1) /\ Lined(o, k, A + N) /\ SeenRight(o, k, A + N)
  BY <1>1 DEF Serves, Lined
<1>3. DOMAIN s = 1 .. N /\ s \in Seq(Pending) /\ N = Len(s)
  BY <1>1, Counts DEF Pend
<1>4. Range(s) = {s[i] : i \in 1 .. N}
  BY <1>3 DEF Range
<1>5. /\ Half \in Nat /\ IdSpace = 2 * Half /\ InFlight < Half
      /\ Lag \in Nat /\ Lag + InFlight <= Half /\ InFlight <= Lag
  BY RoomIs, Widths
<1> HIDE DEF s, N, A, d, ack
<1>6. (d + 1) .. Count(p) \subseteq {m.n : m \in Range(s)}
  <2> SUFFICES ASSUME NEW n \in (d + 1) .. (A + N) PROVE n \in {m.n : m \in Range(s)}
    BY <1>1
  <2>1. n - A \in 1 .. N /\ A + (n - A) = n
    BY <1>1
  <2>2. s[n - A].n = n /\ s[n - A] \in Range(s)
    BY <1>2, <1>4, <2>1
  <2> QED
    BY <2>2
<1>7. ASSUME NEW i \in 1 .. N
      PROVE  IF s[i].n <= d
             THEN ~Implausible(p, ack) /\ Newer(ack, s[i].id)
             ELSE \/ \E x \in Range(o.incoming_reliable) : x.n = s[i].n
                  \/ Acceptable(o, s[i].id) /\ ~IsSeen(o, "reliable", s[i].id)
  <2> DEFINE n == A + i
  <2>1. s[i].n = n /\ s[i].id = Nth(k, n) /\ n \in Nat /\ n >= 1 /\ n \in 1 .. (A + N)
    BY <1>1, <1>2
  <2>2. CASE n <= d
    <3>1. Newer(ack, Nth(k, n))
      <4>1. /\ (d + 1) - n < Half /\ n - (d + 1) < Half /\ d + 1 \in Nat /\ d + 1 > n
            /\ k + (d + 1) >= 1 /\ k + n >= 1
        BY <1>1, <1>5, <2>2
      <4> HIDE DEF n
      <4> QED
        BY <1>1, <1>2, <2>1, <4>1, NthIs
    <3>2. ~Implausible(p, ack)
      <4>1. 1 \in 1 .. N /\ s[1].id = Nth(k, A + 1)
        BY <1>1, <1>2
      <4>2. (Nth(k, A + 1) + InFlight) % IdSpace = Nth(k, (A + 1) + InFlight)
        <5>1. A + 1 \in Nat /\ k + (A + 1) >= 1 /\ InFlight \in Nat
          BY <1>1
        <5> QED
          BY <1>1, <5>1, NthNext
      <4>3. (s[1].id + InFlight) % IdSpace = Nth(k, (A + 1) + InFlight)
        BY <4>1, <4>2
      <4>4. ~Newer(Nth(k, d + 1), Nth(k, (A + 1) + InFlight))
        <5>1. /\ (d + 1) - ((A + 1) + InFlight) < Half /\ ((A + 1) + InFlight) - (d + 1) < Half
              /\ d + 1 \in Nat /\ (A + 1) + InFlight \in Nat /\ ~(d + 1 > (A + 1) + InFlight)
              /\ k + (d + 1) >= 1 /\ k + ((A + 1) + InFlight) >= 1
          BY <1>1, <1>5
        <5> QED
          BY <1>1, <5>1, NthIs
      <4> QED
        BY <1>2, <4>3, <4>4 DEF Implausible, s
    <3> QED
      BY <2>1, <2>2, <3>1, <3>2
  <2>3. CASE ~(n <= d)
    <3>1. A + N < n + Lag /\ n > d /\ A + N \in Nat
      BY <1>1, <1>5, <2>3
    <3> HIDE DEF n
    <3>2. /\ Acceptable(o, Nth(k, n)) <=> n > d
          /\ IsSeen(o, "reliable", Nth(k, n)) <=> Got(o, n)
      BY <1>1, <1>2, <2>1, <3>1, TakenFor DEF d
    <3>3. CASE Got(o, n)
      <4>1. PICK j \in 1 .. Len(o.incoming_reliable) : o.incoming_reliable[j].n = n
        BY <2>3, <3>3 DEF Got, d
      <4>2. o.incoming_reliable[j] \in Range(o.incoming_reliable)
        <5>1. DOMAIN o.incoming_reliable = 1 .. Len(o.incoming_reliable)
          BY <1>1, Counts
        <5> QED
          BY <4>1, <5>1 DEF Range
      <4> QED
        BY <2>1, <2>3, <4>1, <4>2
    <3>4. CASE ~Got(o, n)
      BY <2>1, <2>3, <3>1, <3>2, <3>4
    <3> QED
      BY <3>3, <3>4
  <2> QED
    BY <2>2, <2>3
<1> QED
  BY <1>4, <1>6, <1>7 DEF s, d, ack

\* In line, an honest end is served.
LEMMA LineServes == ASSUME Roomy PROVE LineInv => HonestIsServed
<1> SUFFICES ASSUME LineInv PROVE HonestIsServed
  OBVIOUS
<1>1. PICK start \in Starts, g \in [Ends -> Past], t \in [Ends -> Nat] : Line(conn, start, g, t)
  BY DEF LineInv
<1>2. NeverBlamed
  BY <1>1 DEF NeverBlamed, Line, Spoken
<1>3. ASSUME NEW e \in Ends, conn[e].occupied, conn[Other(e)].occupied
      PROVE  Serves(conn[e], conn[Other(e)], start.carried)
  BY <1>1, <1>3, LineMeets, MeetsServe
<1>4. ResendIsTaken
  <2> SUFFICES ASSUME NEW e \in Ends, conn[e].occupied, conn[Other(e)].occupied
               PROVE
        LET p == conn[e]
            q == conn[Other(e)]
            done == Len(q.delivered["reliable"])
            outstanding == Range(p.outgoing_reliable) IN
        /\ (done + 1)..p.sent["reliable"] \subseteq {m.n : m \in outstanding}
        /\ \A m \in outstanding :
               IF m.n <= done
               THEN ~Implausible(p, q.next_delivery_id) /\ Newer(q.next_delivery_id, m.id)
               ELSE \/ \E h \in Range(q.incoming_reliable) : h.n = m.n
                    \/ Acceptable(q, m.id) /\ ~IsSeen(q, "reliable", m.id)
    BY DEF ResendIsTaken
  <2> QED
    BY <1>3, ServedIs DEF Done, Count
<1> QED
  BY <1>2, <1>4 DEF HonestIsServed

\* What an end sends again is taken, not forgotten, refused or held against it
\* (_nya_net_udp_resend against _nya_net_udp_reliable_acceptable, _nya_net_udp_is_seen and
\* _nya_net_udp_retire_reliable), whatever the network does and however often the ids wrap,
\* when what the acknowledgement window may span is less than half the ids.
THEOREM HonestIsServedAlways == ASSUME Roomy PROVE NetSpec => []HonestIsServed
<1>1. NetInit => LineInv
  BY LineInit
<1>2. LineInv /\ [NetNext]_conn => LineInv'
  BY LineStep
<1>3. LineInv => HonestIsServed
  BY LineServes
<1> QED
  BY <1>1, <1>2, <1>3, PTL DEF NetSpec
-----------------------------------------------------------------------------
(***************************************************************************)
(* The reliable channel implements the promise of net_types.h.             *)
(***************************************************************************)

\* A finite set of numbers has a largest.
LEMMA Largest ==
    ASSUME NEW S, S \subseteq Nat, IsFiniteSet(S), S # {}
    PROVE  Max(S) \in S /\ \A y \in S : Max(S) >= y
<1>1. PICK n \in Nat : ExistsSurjection(1 .. n, S)
  BY FS_NatSurjection
<1>2. PICK f \in Surjection(1 .. n, S) : TRUE
  BY <1>1 DEF ExistsSurjection
<1>3. f \in [1 .. n -> S] /\ \A y \in S : \E i \in 1 .. n : f[i] = y
  BY <1>2 DEF Surjection
<1> DEFINE Top(i) == \E x \in S : \A j \in 1 .. i : x >= f[j]
           G == {i \in 0 .. n : Top(i)}
<1>4. 0 \in G
  <2>1. PICK x \in S : TRUE
    OBVIOUS
  <2>2. \A j \in 1 .. 0 : x >= f[j]
    OBVIOUS
  <2> QED
    BY <2>1, <2>2
<1>5. ASSUME NEW i \in 0 .. n - 1, i \in G PROVE i + 1 \in G
  <2>1. PICK x \in S : \A j \in 1 .. i : x >= f[j]
    BY <1>5
  <2>2. i + 1 \in 1 .. n /\ f[i + 1] \in S /\ \A j \in 1 .. i + 1 : j \in 1 .. i \/ j = i + 1
    BY <1>3
  <2>3. \A j \in 1 .. i : f[j] \in S
    BY <1>3
  <2>4. CASE x >= f[i + 1]
    <3>1. \A j \in 1 .. i + 1 : x >= f[j]
      BY <2>1, <2>2, <2>4
    <3> QED
      BY <2>2, <3>1
  <2>5. CASE ~(x >= f[i + 1])
    <3> DEFINE y == f[i + 1]
    <3>1. y \in S /\ y \in Nat /\ x \in Nat /\ y > x
      <4>1. y \in S /\ y \in Nat /\ x \in Nat /\ ~(x >= y)
        BY <2>2, <2>5
      <4> HIDE DEF y
      <4> QED
        BY <4>1
    <3>2. \A j \in 1 .. i : f[j] \in Nat /\ x >= f[j]
      BY <2>1, <2>3
    <3>3. ASSUME NEW j \in 1 .. i + 1 PROVE y >= f[j]
      <4>1. CASE j = i + 1
        BY <3>1, <4>1
      <4>2. CASE j \in 1 .. i
        <5>1. f[j] \in Nat /\ x >= f[j]
          BY <3>2, <4>2
        <5> HIDE DEF y
        <5> QED
          BY <3>1, <5>1
      <4> QED
        BY <2>2, <4>1, <4>2
    <3> HIDE DEF y
    <3>4. Top(i + 1)
      BY <3>1, <3>3
    <3> QED
      BY <2>2, <3>4
  <2> QED
    BY <2>4, <2>5
<1>6. Top(n)
  <2>1. \A i \in 0 .. n - 1 : i \in G => i + 1 \in G
    BY <1>5
  <2> HIDE DEF G
  <2>2. \A i \in 0 .. n : i \in G
    BY <1>4, <2>1, UpTo
  <2>3. n \in G
    BY <2>2
  <2> QED
    BY <2>3 DEF G
<1>7. \E x \in S : \A y \in S : x >= y
  BY <1>3, <1>6
<1> QED
  BY <1>7 DEF Max

\* A message's number is one of those the channel is about.
LEMMA PlanFits ==
    ASSUME NEW start \in Starts, NEW e \in Ends, NEW n \in 1 .. Len(start.plan[e]["reliable"])
    PROVE  n \in Numbers
<1> DEFINE S == {Len(s.plan[d]["reliable"]) : s \in Starts, d \in Ends}
           At(d) == {Len(s.plan[d]["reliable"]) : s \in Starts}
<1>1. ASSUME NEW d \in Ends PROVE IsFiniteSet(At(d))
  <2> DEFINE f == [s \in Starts |-> Len(s.plan[d]["reliable"])]
  <2>1. f \in Surjection(Starts, At(d))
    BY DEF Surjection
  <2>2. IsFiniteSet(Starts)
    BY WindowAssumption
  <2> HIDE DEF f, At
  <2> QED
    BY <2>1, <2>2, FS_Surjection
<1>2. PICK a \in Ends, b \in Ends : Ends = {a, b}
  BY WindowAssumption
<1>3. S = At(a) \union At(b)
  BY <1>2
<1>4. \A d \in Ends : At(d) \subseteq Nat
  BY StartIs DEF Plans, Channels
<1>5. Len(start.plan[e]["reliable"]) \in S
  OBVIOUS
<1> HIDE DEF At, S
<1>6. IsFiniteSet(S) /\ S \subseteq Nat /\ S # {}
  <2>1. IsFiniteSet(At(a)) /\ IsFiniteSet(At(b)) /\ At(a) \subseteq Nat /\ At(b) \subseteq Nat
    BY <1>1, <1>2, <1>4
  <2>2. IsFiniteSet(At(a) \union At(b))
    BY <2>1, FS_Union
  <2> QED
    BY <1>3, <1>5, <2>1, <2>2
<1> DEFINE len == Len(start.plan[e]["reliable"])
<1>7. len \in S
  BY <1>5 DEF S
<1> HIDE DEF len
<1>8. Max(S) >= len /\ Max(S) \in Nat /\ len \in Nat
  BY <1>6, <1>7, Largest
<1>9. n \in 1 .. Max(S)
  BY <1>8 DEF len
<1> QED
  BY <1>9 DEF Numbers, S

\* A run of numbers.
Run(s, from, to) ==
    /\ s \in Seq(Nat) /\ (to < from => Len(s) = 0) /\ (from <= to => Len(s) = (to - from) + 1)
    /\ \A i \in 1 .. Len(s) : s[i] = (from + i) - 1

\* What is owed is one.
LEMMA OrdinalsIs ==
    ASSUME NEW from \in Nat, NEW to \in Nat
    PROVE  Run(Ordinals(from, to), from, to)
<1> DEFINE n == IF to < from THEN 0 ELSE to - from + 1
           s == Ordinals(from, to)
<1>1. n \in Nat /\ s = [i \in 1 .. n |-> from + i - 1]
  BY DEF Ordinals
<1> HIDE DEF s
<1>2. s \in [1 .. n -> Nat]
  BY <1>1
<1>3. s \in Seq(Nat)
  BY <1>1, <1>2, SeqDef
<1>4. Len(s) = n
  BY <1>1, <1>2, <1>3, LenProperties
<1>5. \A i \in 1 .. n : s[i] = (from + i) - 1
  BY <1>1
<1> QED
  BY <1>3, <1>4, <1>5 DEF s, Run

\* One more is appended.
LEMMA OrdinalsMore ==
    ASSUME NEW from \in Nat, NEW to \in Nat, from <= to + 1
    PROVE  Ordinals(from, to + 1) = Append(Ordinals(from, to), to + 1)
<1> DEFINE s == Ordinals(from, to)
           r == Ordinals(from, to + 1)
           a == Append(s, to + 1)
<1>1. /\ s \in Seq(Nat) /\ Len(s) = (to - from) + 1
      /\ \A i \in 1 .. Len(s) : s[i] = (from + i) - 1
  <2>1. Run(s, from, to)
    BY OrdinalsIs
  <2> HIDE DEF s
  <2>2. s \in Seq(Nat) /\ (to < from => Len(s) = 0) /\ (from <= to => Len(s) = (to - from) + 1)
    BY <2>1 DEF Run
  <2>3. to < from \/ from <= to
    OBVIOUS
  <2>4. Len(s) = (to - from) + 1
    BY <2>2, <2>3
  <2> QED
    BY <2>1, <2>4 DEF Run
<1>2. /\ r \in Seq(Nat) /\ Len(r) = (to - from) + 2
      /\ \A i \in 1 .. Len(r) : r[i] = (from + i) - 1
  <2>1. to + 1 \in Nat
    OBVIOUS
  <2> HIDE DEF r
  <2>2. Run(r, from, to + 1)
    BY <2>1, OrdinalsIs DEF r
  <2> QED
    BY <2>1, <2>2 DEF Run
<1> HIDE DEF s, r
<1>3. /\ a \in Seq(Nat) /\ Len(a) = Len(s) + 1 /\ a[Len(s) + 1] = to + 1
      /\ \A i \in 1 .. Len(s) : a[i] = s[i]
  BY <1>1, AppendProperties
<1> HIDE DEF a
<1>4. ASSUME NEW i \in 1 .. Len(r) PROVE r[i] = a[i]
  <2>1. i \in 1 .. Len(s) \/ i = Len(s) + 1
    BY <1>1, <1>2
  <2>2. r[i] = (from + i) - 1
    BY <1>2
  <2>3. CASE i \in 1 .. Len(s)
    <3>1. a[i] = (from + i) - 1
      BY <1>1, <1>3, <2>3
    <3> QED
      BY <2>2, <3>1
  <2>4. CASE i = Len(s) + 1
    <3>1. (from + i) - 1 = to + 1
      BY <1>1, <2>4
    <3> QED
      BY <1>3, <2>2, <2>4, <3>1
  <2> QED
    BY <2>1, <2>3, <2>4
<1>5. r = a
  BY <1>1, <1>2, <1>3, <1>4, SeqEqual
<1> QED
  BY <1>5 DEF r, a, s

\* The first of a run handed over leave the rest.
LEMMA OrdinalsLess ==
    ASSUME NEW a \in Nat, NEW b \in Nat, NEW c \in Nat, a <= b, b <= c
    PROVE  LET s == Ordinals(a + 1, c) IN
           /\ Len(s) = c - a
           /\ SubSeq(s, 1, b - a) = Ordinals(a + 1, b)
           /\ SubSeq(s, (b - a) + 1, Len(s)) = Ordinals(b + 1, c)
<1> DEFINE s == Ordinals(a + 1, c)
           x == Ordinals(a + 1, b)
           y == Ordinals(b + 1, c)
           u == SubSeq(s, 1, b - a)
           v == SubSeq(s, (b - a) + 1, Len(s))
<1>1. /\ s \in Seq(Nat) /\ Len(s) = c - a
      /\ \A i \in 1 .. Len(s) : s[i] = ((a + 1) + i) - 1
  <2>1. a + 1 \in Nat
    OBVIOUS
  <2>2. Run(s, a + 1, c)
    BY <2>1, OrdinalsIs
  <2> HIDE DEF s
  <2>3. CASE a < c
    BY <2>2, <2>3 DEF Run
  <2>4. CASE ~(a < c)
    BY <2>2, <2>4 DEF Run
  <2> QED
    BY <2>3, <2>4
<1>2. /\ x \in Seq(Nat) /\ Len(x) = b - a
      /\ \A i \in 1 .. Len(x) : x[i] = ((a + 1) + i) - 1
  <2>1. a + 1 \in Nat
    OBVIOUS
  <2>2. Run(x, a + 1, b)
    BY <2>1, OrdinalsIs
  <2> HIDE DEF x
  <2>3. CASE a < b
    BY <2>2, <2>3 DEF Run
  <2>4. CASE ~(a < b)
    BY <2>2, <2>4 DEF Run
  <2> QED
    BY <2>3, <2>4
<1>3. /\ y \in Seq(Nat) /\ Len(y) = c - b
      /\ \A i \in 1 .. Len(y) : y[i] = ((b + 1) + i) - 1
  <2>1. b + 1 \in Nat
    OBVIOUS
  <2>2. Run(y, b + 1, c)
    BY <2>1, OrdinalsIs
  <2> HIDE DEF y
  <2>3. CASE b < c
    BY <2>2, <2>3 DEF Run
  <2>4. CASE ~(b < c)
    BY <2>2, <2>4 DEF Run
  <2> QED
    BY <2>3, <2>4
<1> HIDE DEF s, x, y
<1>4. \A i \in 1 .. Len(s) : s[i] \in Nat
  BY <1>1
<1>5. /\ u \in Seq(Nat) /\ Len(u) = b - a /\ \A i \in 1 .. b - a : u[i] = s[i]
  <2>1. 1 \in Int /\ b - a \in Int /\ \A i \in 1 .. b - a : s[i] \in Nat
    BY <1>1, <1>4
  <2>2. /\ u \in Seq(Nat) /\ Len(u) = (IF 1 <= b - a THEN (b - a) - 1 + 1 ELSE 0)
        /\ \A i \in 1 .. (b - a) - 1 + 1 : u[i] = s[1 + i - 1]
    BY <2>1, SubSeqProperties
  <2> HIDE DEF u
  <2>3. \A i \in 1 .. b - a : i \in 1 .. (b - a) - 1 + 1 /\ 1 + i - 1 = i
    OBVIOUS
  <2> QED
    BY <2>2, <2>3
<1>6. /\ v \in Seq(Nat) /\ Len(v) = c - b /\ \A i \in 1 .. c - b : v[i] = s[(b - a) + i]
  <2> DEFINE m == (b - a) + 1
             n == Len(s)
  <2>1. m \in Int /\ n \in Int /\ \A i \in m .. n : s[i] \in Nat
    BY <1>1, <1>4
  <2>2. n = c - a /\ m = (b - a) + 1
    BY <1>1
  <2> HIDE DEF m, n
  <2>3. /\ SubSeq(s, m, n) \in Seq(Nat) /\ Len(SubSeq(s, m, n)) = (IF m <= n THEN n - m + 1 ELSE 0)
        /\ \A i \in 1 .. n - m + 1 : SubSeq(s, m, n)[i] = s[m + i - 1]
    BY <2>1, SubSeqProperties
  <2>4. \A i \in 1 .. c - b : i \in 1 .. n - m + 1 /\ m + i - 1 = (b - a) + i
    BY <2>2
  <2>5. (IF m <= n THEN n - m + 1 ELSE 0) = c - b
    BY <2>2
  <2>6. v = SubSeq(s, m, n)
    BY DEF m, n
  <2> HIDE DEF v
  <2> QED
    BY <2>3, <2>4, <2>5, <2>6
<1> HIDE DEF u, v
<1>7. u = x
  <2>1. \A i \in 1 .. Len(u) : u[i] = x[i]
    BY <1>1, <1>2, <1>5
  <2> QED
    BY <1>2, <1>5, <2>1, SeqEqual
<1>8. v = y
  <2>1. \A i \in 1 .. Len(v) : v[i] = y[i]
    BY <1>1, <1>3, <1>6
  <2> QED
    BY <1>3, <1>6, <2>1, SeqEqual
<1> QED
  BY <1>1, <1>7, <1>8 DEF s, u, v, x, y

\* What was handed over, all in order, and more of it.
LEMMA HandedOver ==
    ASSUME NEW d \in Seq(Nat), NEW e \in Seq(Nat), Len(d) <= Len(e),
           \A i \in 1 .. Len(d) : d[i] = i, \A i \in 1 .. Len(e) : e[i] = i
    PROVE  e = d \o Ordinals(Len(d) + 1, Len(e))
<1> DEFINE s == Ordinals(Len(d) + 1, Len(e))
           r == d \o s
<1>1. Len(d) \in Nat /\ Len(e) \in Nat
  OBVIOUS
<1>2. /\ s \in Seq(Nat) /\ Len(s) = Len(e) - Len(d)
      /\ \A i \in 1 .. Len(s) : s[i] = ((Len(d) + 1) + i) - 1
  <2> DEFINE m == Len(d)
             n == Len(e)
  <2>1. m \in Nat /\ n \in Nat /\ m + 1 \in Nat /\ m <= n
    BY <1>1
  <2>2. Run(s, m + 1, n)
    BY <2>1, OrdinalsIs
  <2> HIDE DEF s, m, n
  <2>3. CASE m < n
    BY <2>1, <2>2, <2>3 DEF Run, m, n
  <2>4. CASE ~(m < n)
    BY <2>1, <2>2, <2>4 DEF Run, m, n
  <2> QED
    BY <2>3, <2>4
<1> HIDE DEF s
<1>3. /\ r \in Seq(Nat) /\ Len(r) = Len(d) + Len(s)
      /\ \A i \in 1 .. Len(d) + Len(s) : r[i] = IF i <= Len(d) THEN d[i] ELSE s[i - Len(d)]
  BY <1>2, ConcatProperties
<1> HIDE DEF r
<1>4. ASSUME NEW i \in 1 .. Len(e) PROVE e[i] = r[i]
  <2>1. r[i] = IF i <= Len(d) THEN d[i] ELSE s[i - Len(d)]
    BY <1>1, <1>2, <1>3
  <2>2. CASE i <= Len(d)
    BY <1>1, <2>1, <2>2
  <2>3. CASE ~(i <= Len(d))
    <3>1. i - Len(d) \in 1 .. Len(s) /\ ((Len(d) + 1) + (i - Len(d))) - 1 = i
      BY <1>1, <1>2, <2>3
    <3> QED
      BY <1>2, <2>1, <2>3, <3>1
  <2> QED
    BY <2>2, <2>3
<1>5. Len(e) = Len(r)
  BY <1>1, <1>2, <1>3
<1>6. e = r
  BY <1>3, <1>4, <1>5, SeqEqual
<1> QED
  BY <1>6 DEF r, s
-----------------------------------------------------------------------------
(* Every call is a step of the channel *)

\* What a call does to what is promised.
Says(p, q) ==
    /\ q.delivered = p.delivered
    /\ \/ q.occupied = p.occupied /\ Count(q) = Count(p)
       \/ q.occupied = p.occupied /\ Count(q) = Count(p) + 1
       \/ q.occupied = FALSE /\ Count(q) = Count(p)
Takes(p, q) == q.occupied = p.occupied /\ Count(q) = Count(p) /\ Done(p) <= Done(q)

\* The calls that send say one message more, none, or leave.
LEMMA SendingSays ==
    ASSUME NEW p \in Peer, NEW c \in Channels, NEW due, p.todo[c] # <<>>
    PROVE  Says(p, Sending(p, c, due))
<1> DEFINE q == Sending(p, c, due)
           d == Drawn(p, c)
<1>1. d \in Peer /\ SameHearing(p, d) /\ SameTaking(p, d) /\ d.sent = p.sent
  BY DrawnIs
<1>2. p.sent \in [Channels -> Nat]
  BY DEF Peer
<1> HIDE DEF d
<1>3. CASE /\ q = Counted(Unqueued(p), p.sent["unreliable"] + 1) /\ c = "unreliable"
           /\ Unqueued(p) \in SendsFrom(d)
  <2> DEFINE r == Unqueued(p)
             s == Counted(r, p.sent["unreliable"] + 1)
  <2>1. r \in Peer /\ SameHearing(d, r) /\ SameTaking(d, r) /\ SamePlan(d, r)
    BY <1>3 DEF SendsFrom
  <2>2. p.sent["unreliable"] + 1 \in Nat
    BY <1>2 DEF Channels
  <2> HIDE DEF r
  <2>3. /\ SameHearing(r, s) /\ SameTaking(r, s)
        /\ s.sent = [r.sent EXCEPT !["unreliable"] = p.sent["unreliable"] + 1]
    BY <2>1, <2>2, CountedIs
  <2> HIDE DEF s
  <2>4. s.sent["reliable"] = p.sent["reliable"]
    BY <1>1, <1>2, <2>1, <2>3 DEF SamePlan, Channels
  <2>5. s.occupied = p.occupied /\ s.delivered = p.delivered
    BY <1>1, <2>1, <2>3 DEF SameHearing, SameTaking
  <2>6. q = s
    BY <1>3 DEF s, r
  <2> HIDE DEF q
  <2> QED
    BY <2>4, <2>5, <2>6 DEF Says, Count, q
<1>4. CASE q = Resend(Queued(p), due) /\ c = "reliable"
  <2> DEFINE r == Queued(p)
  <2>1. /\ r \in Peer /\ SameHearing(p, r) /\ SameTaking(p, r)
        /\ r.sent = [p.sent EXCEPT !["reliable"] = @ + 1]
    BY <1>4, QueuedIs
  <2> HIDE DEF r
  <2>2. Resend(r, due) \in SendsFrom(r)
    BY <2>1, ResendOnly
  <2> HIDE DEF q
  <2>3. SameHearing(r, q) /\ SameTaking(r, q) /\ SamePlan(r, q)
    BY <1>4, <2>2 DEF SendsFrom, r
  <2>4. q.sent["reliable"] = p.sent["reliable"] + 1
    BY <1>2, <2>1, <2>3 DEF SamePlan, Channels
  <2>5. q.occupied = p.occupied /\ q.delivered = p.delivered
    BY <2>1, <2>3 DEF SameHearing, SameTaking
  <2> QED
    BY <2>4, <2>5 DEF Says, Count, q
<1>5. CASE q = Removed(d, "timeout")
  <2> DEFINE r == Removed(d, "timeout")
  <2>1. r.occupied = FALSE /\ r.sent = d.sent /\ r.delivered = d.delivered
    BY <1>1, RemovedIs DEF Reasons
  <2> HIDE DEF r
  <2>2. q = r
    BY <1>5 DEF r
  <2> HIDE DEF q
  <2> QED
    BY <1>1, <2>1, <2>2 DEF Says, Count, SameTaking, q
<1> HIDE DEF q
<1>6. Says(p, q)
  <2>1. \/ /\ c = "unreliable"
           /\ q = Counted(Unqueued(p), p.sent["unreliable"] + 1)
           /\ Unqueued(p) \in SendsFrom(Drawn(p, c))
        \/ /\ c = "reliable" /\ Len(p.outgoing_reliable) < InFlight
           /\ q = Resend(Queued(p), due)
        \/ /\ c = "reliable"
           /\ q = Removed(Drawn(p, c), "timeout")
    BY SendingIs DEF q
  <2> QED
    BY <1>3, <1>4, <1>5, <2>1 DEF d, q
<1> QED
  BY <1>6 DEF q

\* So do the others, but for a packet received.
LEMMA CallSays ==
    ASSUME NEW p \in Peer, p.occupied = TRUE, NEW expired, NEW due, NEW alone \in BOOLEAN
    PROVE  /\ Says(p, FlushPeer(p)) /\ Says(p, Updated(p, expired, due, alone))
           /\ Says(p, Removed(p, "timeout"))
           /\ Says(p, Removed(SendPacket(FlushPeer(p), "disconnect", <<>>), "caller"))
           /\ \A packet \in Packet : Says(p, Removed(Acted(p, packet), "requested"))
<1> DEFINE Same(q) == q \in Peer /\ q.occupied = p.occupied /\ q.delivered = p.delivered /\ q.sent = p.sent
<1>1. ASSUME NEW q, Same(q)
      PROVE  Says(p, q) /\ Says(p, Removed(q, "timeout")) /\ Says(p, Removed(q, "caller"))
             /\ Says(p, Removed(q, "requested"))
  <2>1. ASSUME NEW reason \in Reasons PROVE Says(p, Removed(q, reason))
    <3> DEFINE r == Removed(q, reason)
    <3>1. r.occupied = FALSE /\ r.sent = q.sent /\ r.delivered = q.delivered
      BY <1>1, RemovedIs
    <3> HIDE DEF r
    <3>2. Says(p, r)
      BY <1>1, <3>1 DEF Says, Count
    <3> QED
      BY <3>2 DEF r
  <2>2. Says(p, q)
    BY <1>1 DEF Says, Count
  <2> QED
    BY <2>1, <2>2 DEF Reasons
<1>2. <<>> \in Seq(Frag)
  BY EmptySeq
<1>3. ASSUME NEW q, Same(q) PROVE Same(FlushPeer(q)) /\ \A kind \in {"data", "disconnect"} : Same(SendPacket(q, kind, <<>>))
  <2>1. Same(FlushPeer(q))
    BY <1>3, FlushIs DEF SameHearing, SameTaking, SamePlan
  <2>2. ASSUME NEW kind \in {"data", "disconnect"} PROVE Same(SendPacket(q, kind, <<>>))
    BY <1>2, <1>3, SendPacketIs, ZenonT(60) DEF SameHearing, SameTaking, SamePlan
  <2> QED
    BY <2>1, <2>2
<1>4. Same(p)
  OBVIOUS
<1>5. Same(Updated(p, expired, due, alone))
  <2> DEFINE x == Expire(p, expired)
             r == Resend(x, due)
             f == FlushPeer(r)
             a == SendPacket(f, "data", <<>>)
  <2>1. Same(x)
    BY ExpireIs DEF SameHearing, SameSaying, SamePlan
  <2> HIDE DEF x
  <2>2. Same(r)
    BY <2>1, ResendOnly DEF SendsFrom, SameHearing, SameTaking, SamePlan
  <2> HIDE DEF r
  <2>3. Same(f)
    BY <1>3, <2>2
  <2> HIDE DEF f
  <2>4. Same(a)
    BY <1>3, <2>3
  <2> HIDE DEF a
  <2>5. Updated(p, expired, due, alone) = f \/ Updated(p, expired, due, alone) = a
    BY DEF Updated, x, r, f, a
  <2> HIDE DEF Same
  <2> QED
    BY <2>3, <2>4, <2>5
<1>6. \A packet \in Packet : Same(Acted(p, packet))
  BY ActedIs DEF SameTaking, SamePlan
<1>7. Same(FlushPeer(p)) /\ Same(SendPacket(FlushPeer(p), "disconnect", <<>>))
  BY <1>3, <1>4
<1> HIDE DEF Same
<1> QED
  BY <1>1, <1>4, <1>5, <1>6, <1>7

\* Every call of an end in step.
LEMMA CallMoves ==
    ASSUME Roomy, NEW e \in Ends, NEW k, NEW mine, NEW theirs, NEW g, NEW t, NEW h, NEW u,
           Meets(conn[e], conn[Other(e)], k, mine, theirs, g, t, h, u), NEW q, Called(e, q)
    PROVE  Says(conn[e], q) \/ Takes(conn[e], q)
<1> DEFINE p == conn[e]
           o == conn[Other(e)]
<1>1. Meets(p, o, k, mine, theirs, g, t, h, u) /\ p.occupied
  BY DEF Called
<1> HIDE DEF o
<1>2. p \in Peer /\ o \in Peer
  BY <1>1, MeetsIs
<1>3. \/ \E c \in Channels : \E due : p.todo[c] # <<>> /\ q = Sending(p, c, due)
      \/ q = FlushPeer(p)
      \/ \E packet \in o.wire : q = HandlePacket(p, packet)
      \/ \E expired, due : \E alone \in BOOLEAN : q = Updated(p, expired, due, alone)
      \/ q = Removed(p, "timeout")
      \/ q = Removed(SendPacket(FlushPeer(p), "disconnect", <<>>), "caller")
  BY DEF Called, o
<1> HIDE DEF p
<1>4. p.occupied = TRUE
  BY <1>1, <1>2 DEF Peer
<1>5. \A expired, due : \A alone \in BOOLEAN :
        /\ Says(p, FlushPeer(p)) /\ Says(p, Updated(p, expired, due, alone))
        /\ Says(p, Removed(p, "timeout"))
        /\ Says(p, Removed(SendPacket(FlushPeer(p), "disconnect", <<>>), "caller"))
        /\ \A packet \in Packet : Says(p, Removed(Acted(p, packet), "requested"))
  BY <1>2, <1>4, CallSays
<1>6. ASSUME NEW packet \in o.wire, q = HandlePacket(p, packet) PROVE Says(p, q) \/ Takes(p, q)
  <2>1. packet \in Packet
    BY <1>2 DEF Peer
  <2>2. CASE ~Admits(p, packet)
    <3>1. q = p
      BY <1>2, <1>6, <2>1, <2>2, HandleForms
    <3> QED
      BY <3>1 DEF Says
  <2>3. CASE Admits(p, packet) /\ packet.kind = "disconnect"
    <3>1. q = Removed(Acted(p, packet), "requested")
      BY <1>2, <1>6, <2>1, <2>3, HandleForms
    <3>2. TRUE \in BOOLEAN
      OBVIOUS
    <3>3. Says(p, Removed(Acted(p, packet), "requested"))
      BY <1>5, <2>1, <3>2
    <3> QED
      BY <3>1, <3>3
  <2>4. CASE Admits(p, packet) /\ packet.kind # "disconnect"
    BY <1>1, <1>6, <2>4, TakeMeets DEF Takes
  <2> QED
    BY <2>2, <2>3, <2>4
<1>7. ASSUME NEW c \in Channels, NEW due, p.todo[c] # <<>>, q = Sending(p, c, due) PROVE Says(p, q)
  BY <1>2, <1>7, SendingSays
<1>8. TRUE \in BOOLEAN
  OBVIOUS
<1>9. Says(p, q) \/ Takes(p, q)
  BY <1>3, <1>5, <1>6, <1>7, <1>8
<1> QED
  BY <1>9 DEF p
-----------------------------------------------------------------------------
(* The refinement *)

Offers == [e \in Ends |-> conn[Other(e)].occupied]
Owed == [e \in Ends |-> Ordinals(Len(conn[e].delivered["reliable"]) + 1,
                                 conn[Other(e)].sent["reliable"])]
Logs == [e \in Ends |-> conn[e].delivered["reliable"]]
Ordered ==
    \A e \in Ends :
        /\ conn[e] \in Peer /\ Done(conn[e]) <= Count(conn[Other(e)])
        /\ \A i \in 1 .. Done(conn[e]) : conn[e].delivered["reliable"][i] = i
        /\ Count(conn[e]) >= 1 => Count(conn[e]) \in Numbers

\* In line, what was handed over is what was sent first, in order.
LEMMA LineOrders == LineInv => Ordered
<1> SUFFICES ASSUME LineInv, NEW e \in Ends
             PROVE  /\ conn[e] \in Peer /\ Done(conn[e]) <= Count(conn[Other(e)])
                    /\ \A i \in 1 .. Done(conn[e]) : conn[e].delivered["reliable"][i] = i
                    /\ Count(conn[e]) >= 1 => Count(conn[e]) \in Numbers
  BY DEF Ordered
<1>1. PICK start \in Starts, g \in [Ends -> Past], t \in [Ends -> Nat] : Line(conn, start, g, t)
  BY DEF LineInv
<1> DEFINE p == conn[e]
           o == conn[Other(e)]
           mine == start.plan[e]["reliable"]
           h == g[Other(e)]
           u == t[Other(e)]
           k == start.carried
           theirs == start.plan[Other(e)]["reliable"]
<1>2. Meets(p, o, k, mine, theirs, g[e], t[e], h, u)
  BY <1>1, LineMeets
<1> DEFINE past == g[e]
           last == t[e]
<1>3. Meets(p, o, k, mine, theirs, past, last, h, u)
  BY <1>2
<1> HIDE DEF o, mine, theirs, h, u, past, last, p, k
<1>4. p \in Peer /\ o \in Peer /\ h[u].sent \in Nat
  BY <1>3, MeetsIs
<1>5. /\ Done(p) <= h[u].sent /\ h[u].sent <= Count(o) /\ Count(p) <= Len(mine)
      /\ \A i \in 1 .. Done(p) : p.delivered["reliable"][i] = i
      /\ mine \in Seq(1 .. MaxMessage)
  BY <1>3 DEF Meets, Spoken, Quiet, Heard
<1>6. Done(p) <= Count(o)
  BY <1>4, <1>5, Counts
<1>7. Count(p) >= 1 => Count(p) \in 1 .. Len(mine)
  BY <1>4, <1>5, Counts
<1>8. Count(p) >= 1 => Count(p) \in Numbers
  BY <1>7, PlanFits DEF mine
<1> QED
  BY <1>4, <1>5, <1>6, <1>8 DEF p, o

\* A function changed at one end.
LEMMA OneChanges ==
    ASSUME NEW F, NEW G, F = [d \in Ends |-> F[d]], G = [d \in Ends |-> G[d]], NEW a \in Ends,
           \A d \in Ends : d # a => G[d] = F[d]
    PROVE  G = [F EXCEPT ![a] = G[a]]
OBVIOUS

\* The steps of the channel, in the terms of the transport.
LEMMA ChannelSteps ==
    ASSUME NEW e \in Ends
    PROVE  /\ /\ Offers[e] /\ Offers' = Offers /\ Logs' = Logs
              /\ \E m \in Numbers : Owed' = [Owed EXCEPT ![e] = Append(@, m)]
              => Promise!Put(e)
           /\ /\ Offers[e] /\ Offers' = [Offers EXCEPT ![e] = FALSE]
              /\ Owed' = Owed /\ Logs' = Logs
              => Promise!Drop(e)
           /\ /\ Offers' = Offers
              /\ \E n \in 1 .. Len(Owed[e]) :
                     /\ Logs' = [Logs EXCEPT ![e] = @ \o SubSeq(Owed[e], 1, n)]
                     /\ Owed' = [Owed EXCEPT ![e] = SubSeq(@, n + 1, Len(@))]
              => Promise!Take(e)
<1>1. /\ Offers[e] /\ Offers' = Offers /\ Logs' = Logs
      /\ \E m \in Numbers : Owed' = [Owed EXCEPT ![e] = Append(@, m)]
      => Promise!Put(e)
  BY Zenon DEF Promise!Put, Offers, Owed, Logs
<1>2. /\ Offers[e] /\ Offers' = [Offers EXCEPT ![e] = FALSE]
      /\ Owed' = Owed /\ Logs' = Logs
      => Promise!Drop(e)
  BY Zenon DEF Promise!Drop, Offers, Owed, Logs
<1>3. /\ Offers' = Offers
      /\ \E n \in 1 .. Len(Owed[e]) :
             /\ Logs' = [Logs EXCEPT ![e] = @ \o SubSeq(Owed[e], 1, n)]
             /\ Owed' = [Owed EXCEPT ![e] = SubSeq(@, n + 1, Len(@))]
      => Promise!Take(e)
  BY Zenon DEF Promise!Take, Offers, Owed, Logs
<1> QED
  BY <1>1, <1>2, <1>3

\* A step of either end is one of the channel, or none.
LEMMA ChannelStep ==
    ASSUME Roomy, LineInv, Ordered, Ordered', [NetNext]_conn
    PROVE  \/ \E e \in Ends : Promise!Put(e) \/ Promise!Take(e) \/ Promise!Drop(e)
           \/ Offers' = Offers /\ Owed' = Owed /\ Logs' = Logs
<1>1. CASE UNCHANGED conn
  BY <1>1 DEF Offers, Owed, Logs
<1>2. CASE NetNext
  <2>1. PICK e \in Ends : \E x : conn' = [conn EXCEPT ![e] = x] /\ Called(e, x)
    BY <1>2, StepIs
  <2>2. PICK q : conn' = [conn EXCEPT ![e] = q] /\ Called(e, q)
    BY <2>1
  <2>3. PICK start \in Starts, g \in [Ends -> Past], t \in [Ends -> Nat] : Line(conn, start, g, t)
    BY DEF LineInv
  <2>4. Says(conn[e], q) \/ Takes(conn[e], q)
    <3>1. Meets(conn[e], conn[Other(e)], start.carried, start.plan[e]["reliable"],
                start.plan[Other(e)]["reliable"], g[e], t[e], g[Other(e)], t[Other(e)])
      BY <2>3, LineMeets
    <3>2. Called(e, q)
      BY <2>2
    <3> QED
      BY <3>1, <3>2, CallMoves
  <2> DEFINE o == Other(e)
             p == conn[e]
             r == conn[o]
  <2>5. o \in Ends /\ o # e /\ Other(o) = e /\ \A d \in Ends : d = e \/ d = o
    BY TwoEnds
  <2>6. conn'[e] = q /\ conn'[o] = r /\ conn \in [Ends -> Peer] /\ p.occupied
    BY <2>2, <2>5 DEF LineInv, Called
  <2>7. p \in Peer /\ r \in Peer /\ q \in Peer
    BY <2>5, <2>6 DEF Ordered
  <2> HIDE DEF o
  <2>8. /\ Offers[o] = p.occupied /\ Offers'[o] = q.occupied
        /\ Offers[e] = r.occupied /\ Offers'[e] = r.occupied
        /\ Logs[e] = p.delivered["reliable"] /\ Logs'[e] = q.delivered["reliable"]
        /\ Logs[o] = r.delivered["reliable"] /\ Logs'[o] = r.delivered["reliable"]
    BY <2>5, <2>6 DEF Offers, Logs, o
  <2>9. /\ Owed[e] = Ordinals(Done(p) + 1, Count(r)) /\ Owed'[e] = Ordinals(Done(q) + 1, Count(r))
        /\ Owed[o] = Ordinals(Done(r) + 1, Count(p)) /\ Owed'[o] = Ordinals(Done(r) + 1, Count(q))
    BY <2>5, <2>6 DEF Owed, Done, Count, o
  <2>10. /\ Offers = [d \in Ends |-> Offers[d]] /\ Offers' = [d \in Ends |-> Offers'[d]]
         /\ Owed = [d \in Ends |-> Owed[d]] /\ Owed' = [d \in Ends |-> Owed'[d]]
         /\ Logs = [d \in Ends |-> Logs[d]] /\ Logs' = [d \in Ends |-> Logs'[d]]
    BY DEF Offers, Owed, Logs
  <2>11. /\ Done(p) <= Count(r) /\ Done(r) <= Count(p) /\ Done(q) <= Count(r)
         /\ \A i \in 1 .. Done(p) : p.delivered["reliable"][i] = i
         /\ \A i \in 1 .. Done(q) : q.delivered["reliable"][i] = i
         /\ Count(q) >= 1 => Count(q) \in Numbers
    <3>1. Done(p) <= Count(r) /\ \A i \in 1 .. Done(p) : p.delivered["reliable"][i] = i
      BY DEF Ordered, o
    <3>2. Done(r) <= Count(p)
      BY <2>5 DEF Ordered
    <3>3. /\ Done(conn'[e]) <= Count(conn'[Other(e)])
          /\ \A i \in 1 .. Done(conn'[e]) : conn'[e].delivered["reliable"][i] = i
          /\ Count(conn'[e]) >= 1 => Count(conn'[e]) \in Numbers
      BY DEF Ordered
    <3> QED
      BY <2>6, <3>1, <3>2, <3>3 DEF o
  <2> HIDE DEF p, r
  <2>12. /\ Done(p) \in Nat /\ Done(q) \in Nat /\ Done(r) \in Nat /\ Count(p) \in Nat
         /\ Count(q) \in Nat /\ Count(r) \in Nat
         /\ p.delivered["reliable"] \in Seq(Nat) /\ q.delivered["reliable"] \in Seq(Nat)
    BY <2>7, Counts
  <2>13. ASSUME NEW F, NEW G, F = [d \in Ends |-> F[d]], G = [d \in Ends |-> G[d]], F[e] = G[e], F[o] = G[o]
         PROVE  G = F
    <3>1. \A d \in Ends : F[d] = G[d]
      BY <2>5, <2>13
    <3>2. [d \in Ends |-> F[d]] = [d \in Ends |-> G[d]]
      BY <3>1
    <3> QED
      BY <2>13, <3>2
  <2>14. CASE q.delivered = p.delivered /\ q.occupied = p.occupied /\ Count(q) = Count(p)
    <3>1. Done(q) = Done(p)
      BY <2>14 DEF Done
    <3>2. Offers' = Offers /\ Owed' = Owed /\ Logs' = Logs
      BY <2>8, <2>9, <2>10, <2>13, <2>14, <3>1
    <3> QED
      BY <3>2
  <2>15. CASE q.delivered = p.delivered /\ q.occupied = p.occupied /\ Count(q) = Count(p) + 1
    <3>1. Done(q) = Done(p) /\ Offers[o]
      BY <2>6, <2>8, <2>15 DEF Done, p
    <3>2. Offers' = Offers /\ Logs' = Logs
      BY <2>8, <2>10, <2>13, <2>15
    <3>3. Owed'[o] = Append(Owed[o], Count(q)) /\ Owed'[e] = Owed[e] /\ Count(q) \in Numbers
      <4> DEFINE m == Count(p)
                 n == Done(r)
      <4>1. n + 1 \in Nat /\ m \in Nat /\ n + 1 <= m + 1 /\ m + 1 >= 1 /\ Count(q) = m + 1
        BY <2>11, <2>12, <2>15
      <4> HIDE DEF m, n
      <4>2. Ordinals(n + 1, m + 1) = Append(Ordinals(n + 1, m), m + 1)
        BY <4>1, OrdinalsMore
      <4> QED
        BY <2>9, <2>11, <3>1, <4>1, <4>2 DEF m, n
    <3>4. Owed' = [Owed EXCEPT ![o] = Owed'[o]]
      <4>1. \A d \in Ends : d # o => Owed'[d] = Owed[d]
        BY <2>5, <3>3
      <4> QED
        BY <2>5, <2>10, <4>1, OneChanges
    <3>5. \E m \in Numbers : Owed' = [Owed EXCEPT ![o] = Append(@, m)]
      <4>1. Owed' = [Owed EXCEPT ![o] = Append(Owed[o], Count(q))]
        BY <3>3, <3>4
      <4>2. Owed' = [Owed EXCEPT ![o] = Append(@, Count(q))]
        BY <2>5, <2>10, <4>1
      <4> QED
        BY <3>3, <4>2
    <3> QED
      BY <2>5, <3>1, <3>2, <3>5, ChannelSteps
  <2>16. CASE q.delivered = p.delivered /\ q.occupied = FALSE /\ Count(q) = Count(p)
    <3>1. Done(q) = Done(p) /\ Offers[o]
      BY <2>6, <2>8, <2>16 DEF Done, p
    <3>2. Owed' = Owed /\ Logs' = Logs
      BY <2>8, <2>9, <2>10, <2>13, <2>16, <3>1
    <3>3. Offers' = [Offers EXCEPT ![o] = Offers'[o]]
      <4>1. \A d \in Ends : d # o => Offers'[d] = Offers[d]
        BY <2>5, <2>8
      <4> QED
        BY <2>5, <2>10, <4>1, OneChanges
    <3>4. Offers' = [Offers EXCEPT ![o] = FALSE]
      BY <2>8, <2>16, <3>3
    <3> QED
      BY <2>5, <3>1, <3>2, <3>4, ChannelSteps
  <2>17. CASE Takes(p, q)
    <3>1. q.occupied = p.occupied /\ Count(q) = Count(p) /\ Done(p) <= Done(q)
      BY <2>17 DEF Takes
    <3> DEFINE a == Done(p)
               b == Done(q)
               c == Count(r)
    <3>2. a \in Nat /\ b \in Nat /\ c \in Nat /\ a <= b /\ b <= c
      BY <2>11, <2>12, <3>1
    <3>3. q.delivered["reliable"] = p.delivered["reliable"] \o Ordinals(a + 1, b)
      <4> DEFINE x == p.delivered["reliable"]
                 y == q.delivered["reliable"]
      <4>1. /\ x \in Seq(Nat) /\ y \in Seq(Nat) /\ a = Len(x) /\ b = Len(y)
            /\ \A i \in 1 .. Len(x) : x[i] = i
            /\ \A i \in 1 .. Len(y) : y[i] = i
        BY <2>11, <2>12 DEF Done
      <4> HIDE DEF x, y, a, b
      <4>2. y = x \o Ordinals(Len(x) + 1, Len(y))
        BY <3>2, <4>1, HandedOver
      <4> QED
        BY <4>1, <4>2 DEF x, y
    <3>4. Offers' = Offers
      BY <2>8, <2>10, <2>13, <3>1
    <3>5. Owed[e] = Ordinals(a + 1, c) /\ Owed'[e] = Ordinals(b + 1, c) /\ Owed'[o] = Owed[o]
      BY <2>9, <3>1
    <3> HIDE DEF a, b, c
    <3>6. /\ Len(Owed[e]) = c - a
          /\ SubSeq(Owed[e], 1, b - a) = Ordinals(a + 1, b)
          /\ SubSeq(Owed[e], (b - a) + 1, Len(Owed[e])) = Owed'[e]
      <4>1. LET s == Ordinals(a + 1, c) IN
            /\ Len(s) = c - a
            /\ SubSeq(s, 1, b - a) = Ordinals(a + 1, b)
            /\ SubSeq(s, (b - a) + 1, Len(s)) = Ordinals(b + 1, c)
        BY <3>2, OrdinalsLess
      <4> QED
        BY <3>5, <4>1
    <3>7. CASE a = b
      <4>1. q.delivered["reliable"] = p.delivered["reliable"]
        <5> DEFINE x == p.delivered["reliable"]
                   y == q.delivered["reliable"]
        <5>1. /\ x \in Seq(Nat) /\ y \in Seq(Nat) /\ Len(x) = Len(y)
              /\ \A i \in 1 .. Len(x) : x[i] = y[i]
          BY <2>11, <2>12, <3>7, SMTT(60) DEF Done, a, b
        <5> HIDE DEF x, y
        <5>2. x = y
          BY <5>1, SeqEqual
        <5> QED
          BY <5>2 DEF x, y
      <4>2. Owed' = Owed /\ Logs' = Logs
        BY <2>8, <2>10, <2>13, <3>5, <3>7, <4>1
      <4> QED
        BY <3>4, <4>2
    <3>8. CASE a # b
      <4> DEFINE n == b - a
      <4>1. n \in 1 .. Len(Owed[e])
        BY <3>2, <3>6, <3>8
      <4>2. Logs' = [Logs EXCEPT ![e] = Logs'[e]]
        <5>1. \A d \in Ends : d # e => Logs'[d] = Logs[d]
          BY <2>5, <2>8
        <5> QED
          BY <2>10, <5>1, OneChanges
      <4>3. Owed' = [Owed EXCEPT ![e] = Owed'[e]]
        <5>1. \A d \in Ends : d # e => Owed'[d] = Owed[d]
          BY <2>5, <3>5
        <5> QED
          BY <2>10, <5>1, OneChanges
      <4>4. Logs'[e] = Logs[e] \o SubSeq(Owed[e], 1, n)
        BY <2>8, <3>3, <3>6
      <4>5. Owed'[e] = SubSeq(Owed[e], n + 1, Len(Owed[e]))
        BY <3>6
      <4> HIDE DEF n
      <4>6. Logs' = [Logs EXCEPT ![e] = @ \o SubSeq(Owed[e], 1, n)]
        <5>1. Logs' = [Logs EXCEPT ![e] = Logs[e] \o SubSeq(Owed[e], 1, n)]
          BY <4>2, <4>4
        <5> QED
          BY <2>10, <5>1
      <4>7. Owed' = [Owed EXCEPT ![e] = SubSeq(@, n + 1, Len(@))]
        <5>1. Owed' = [Owed EXCEPT ![e] = SubSeq(Owed[e], n + 1, Len(Owed[e]))]
          BY <4>3, <4>5
        <5> QED
          BY <2>10, <5>1
      <4> QED
        BY <3>4, <4>1, <4>6, <4>7, ChannelSteps
    <3> QED
      BY <3>7, <3>8
  <2>18. \/ q.delivered = p.delivered /\ q.occupied = p.occupied /\ Count(q) = Count(p)
         \/ q.delivered = p.delivered /\ q.occupied = p.occupied /\ Count(q) = Count(p) + 1
         \/ q.delivered = p.delivered /\ q.occupied = FALSE /\ Count(q) = Count(p)
         \/ Takes(p, q)
    BY <2>4 DEF Says, p
  <2> QED
    BY <2>14, <2>15, <2>16, <2>17, <2>18
<1> QED
  BY <1>1, <1>2

\* Nothing is promised at first.
LEMMA ChannelStart == NetInit => Promise!ChannelInit
<1> SUFFICES ASSUME NetInit PROVE Promise!ChannelInit
  OBVIOUS
<1>1. PICK start \in Starts : conn = [e \in Ends |-> Established(start.carried, start.plan[e])]
  BY DEF NetInit
<1>2. ASSUME NEW e \in Ends
      PROVE  /\ conn[e].occupied = TRUE /\ conn[e].delivered["reliable"] = <<>>
             /\ conn[e].sent["reliable"] = 0
  <2>1. Fresh(conn[e], start.plan[e])
    BY <1>1, StartIs
  <2> QED
    BY <2>1 DEF Fresh, Channels
<1>3. Ordinals(1, 0) = <<>>
  <2>1. Run(Ordinals(1, 0), 1, 0)
    BY OrdinalsIs
  <2>2. Ordinals(1, 0) \in Seq(Nat) /\ Len(Ordinals(1, 0)) = 0
    BY <2>1 DEF Run
  <2> QED
    BY <2>2, EmptySeq
<1>4. ASSUME NEW e \in Ends
      PROVE  /\ Offers[e] = TRUE /\ Owed[e] = <<>> /\ Logs[e] = <<>>
  <2>1. Other(e) \in Ends
    BY TwoEnds
  <2>2. conn[e].delivered["reliable"] = <<>> /\ conn[Other(e)].sent["reliable"] = 0
        /\ conn[Other(e)].occupied = TRUE
    BY <1>2, <2>1
  <2>3. Len(<<>>) + 1 = 1
    OBVIOUS
  <2> QED
    BY <1>3, <2>2, <2>3 DEF Offers, Owed, Logs
<1>5. /\ Offers = [e \in Ends |-> TRUE] /\ Owed = [e \in Ends |-> <<>>]
      /\ Logs = [e \in Ends |-> <<>>]
  <2>1. /\ Offers = [d \in Ends |-> Offers[d]] /\ Owed = [d \in Ends |-> Owed[d]]
        /\ Logs = [d \in Ends |-> Logs[d]]
    BY DEF Offers, Owed, Logs
  <2> QED
    BY <1>4, <2>1
<1> QED
  BY <1>5, Zenon DEF Promise!ChannelInit, Offers, Owed, Logs

\* The reliable channel delivers each way what was sent, in order and exactly once, or the
\* peer is dropped trying (net_types.h, NYA_NET_CHANNEL_RELIABLE), whatever the network
\* loses, repeats and reorders and however often the ids wrap: every step of
\* either end is a step of that promise.
THEOREM DeliversInOrderOnce == ASSUME Roomy PROVE NetSpec => InOrderOnce
<1>1. NetInit => LineInv
  BY LineInit
<1>2. LineInv /\ [NetNext]_conn => LineInv'
  BY LineStep
<1>3. LineInv => Ordered
  BY LineOrders
<1>4. LineInv /\ Ordered /\ Ordered' /\ [NetNext]_conn =>
        [\E e \in Ends : Promise!Put(e) \/ Promise!Take(e) \/ Promise!Drop(e)]_<<Offers, Owed, Logs>>
  <2> SUFFICES ASSUME LineInv, Ordered, Ordered', [NetNext]_conn
               PROVE  [\E e \in Ends : Promise!Put(e) \/ Promise!Take(e) \/ Promise!Drop(e)]_<<Offers, Owed, Logs>>
    OBVIOUS
  <2>1. \/ \E e \in Ends : Promise!Put(e) \/ Promise!Take(e) \/ Promise!Drop(e)
        \/ Offers' = Offers /\ Owed' = Owed /\ Logs' = Logs
    BY ChannelStep
  <2> QED
    BY <2>1
<1>5. NetInit => Promise!ChannelInit
  BY ChannelStart
<1> QED
  BY <1>1, <1>2, <1>3, <1>4, <1>5, PTL DEF NetSpec, InOrderOnce, Promise!ChannelSpec, Offers, Owed, Logs

-----------------------------------------------------------------------------
(***************************************************************************)
(* What the slots hold.  The ids of the unreliable channel say which       *)
(* message is meant so long as no fragment is kept, or may still be let    *)
(* in, IdSpace messages after its own; when one is, a slot can mix two     *)
(* messages.  The model has no clock, so this is a condition on its        *)
(* behaviours: the code lets a partial message go after five seconds and   *)
(* a peer not heard for ten, and 65536 messages would have to be sent      *)
(* meanwhile.                                                              *)
(***************************************************************************)
Parts(e) ==
    {f \in Frag :
        /\ f.channel = "unreliable"
        /\ \/ \E s \in ActiveSlots(conn[e]) : f \in conn[e].reassembly[s].received
           \/ \E packet \in conn[Other(e)].wire :
                  /\ ~IsReplay(conn[e], packet.seq)
                  /\ \E i \in 1 .. Len(packet.fragments) : f = packet.fragments[i]}
Prompt == \A e \in Ends : \A f, h \in Parts(e) : f.n < h.n + IdSpace

\* The fragments the unreliable channel has, and what a slot and an end hold of them.
Loose == {f \in Frag : f.channel = "unreliable" /\ f.id = Nth(0, f.n)}
One(D) == D \subseteq Frag /\ \A f, h \in D : f.id = h.id => f.n = h.n
Belongs(v, D) == \A f \in v.received : /\ f.channel = v.channel /\ f.id = v.id
                                       /\ f.channel = "unreliable" => f \in D
Clean(p) == \A i \in 1 .. Len(p.delivered["unreliable"]) : p.delivered["unreliable"][i] # 0
Holds(p, D) ==
    /\ \A s \in ActiveSlots(p) : p.reassembly[s].received # {} /\ Belongs(p.reassembly[s], D)
    /\ Clean(p) /\ (p.occupied \/ (ActiveSlots(p) = {} /\ p.incoming_reliable = <<>>))
SameTelling(p, q) == SamePlan(p, q) /\ q.outgoing = p.outgoing
Hands(p, D) ==
    {q \in Peer : Holds(q, D) /\ q.wire = p.wire /\ (q.occupied => SameTelling(p, q))}

\* A fragment that may be taken.
Comely(f, D) == f \in Frag /\ (f.channel = "unreliable" => f \in D)

\* What changes neither the slots nor what the unreliable channel handed over.
LEMMA HandsOn ==
    ASSUME NEW p, NEW D, NEW q \in Hands(p, D), q.occupied, NEW r \in Peer, SameHearing(q, r),
           SameSlots(q, r), SameSaying(q, r),
           r.delivered["unreliable"] = q.delivered["unreliable"]
    PROVE  r \in Hands(p, D) /\ r.occupied
<1>1. r.occupied /\ r.reassembly = q.reassembly /\ ActiveSlots(r) = ActiveSlots(q)
  BY DEF SameHearing, SameSlots, ActiveSlots
<1>2. Holds(r, D)
  BY <1>1 DEF Hands, Holds, Clean
<1>3. r.wire = p.wire /\ SameTelling(p, r)
  BY DEF Hands, SameSaying, SamePlan, SameTelling
<1> QED
  BY <1>1, <1>2, <1>3 DEF Hands

\* An end that leaves lets go of all.
LEMMA RemovedHolds ==
    ASSUME NEW p \in Peer, NEW D, Clean(p), NEW reason \in Reasons
    PROVE  Removed(p, reason) \in Peer /\ Holds(Removed(p, reason), D)
<1> DEFINE q == Removed(p, reason)
<1>1. /\ q \in Peer /\ q.occupied = FALSE /\ q.delivered = p.delivered
      /\ q.incoming_reliable = <<>> /\ q.reassembly = [s \in Slots |-> FreeSlot]
  BY RemovedIs
<1> HIDE DEF q
<1>2. ActiveSlots(q) = {}
  BY <1>1 DEF ActiveSlots, FreeSlot
<1>3. Holds(q, D)
  BY <1>1, <1>2 DEF Holds, Clean
<1> QED
  BY <1>1, <1>3 DEF q

\* So does one dropped in the middle of a packet.
LEMMA RemovedHands ==
    ASSUME NEW p, NEW D, NEW q \in Hands(p, D), NEW reason \in Reasons
    PROVE  Removed(q, reason) \in Hands(p, D)
<1> DEFINE r == Removed(q, reason)
<1>1. q \in Peer /\ Clean(q)
  BY DEF Hands, Holds
<1>2. r \in Peer /\ Holds(r, D)
  BY <1>1, RemovedHolds
<1>3. r.occupied = FALSE /\ r.wire = p.wire
  BY <1>1, RemovedIs DEF Hands
<1> QED
  <2> HIDE DEF r
  <2>1. r \in Hands(p, D)
    BY <1>2, <1>3 DEF Hands
  <2> QED
    BY <2>1 DEF r

\* What waited in line is handed over on the reliable channel.
LEMMA DrainHands ==
    ASSUME NEW p, NEW D, NEW q \in Hands(p, D), q.occupied PROVE DrainOrdered(q) \in Hands(p, D)
<1> DEFINE S == {r \in Hands(p, D) : r.occupied}
           count == Len(q.incoming_reliable)
<1>1. count \in Nat
  <2>1. q.incoming_reliable \in Seq(Waiting)
    BY DEF Hands, Peer
  <2> QED
    BY <2>1
<1>2. ASSUME NEW r \in S PROVE DrainOne(r) \in S
  <2>1. r \in Peer /\ r \in Hands(p, D) /\ r.occupied
    BY DEF Hands
  <2>2. CASE DrainOne(r) = r
    BY <2>2
  <2>3. ASSUME NEW i \in NextHeld(r), DrainOne(r) = Handed(r, i) PROVE DrainOne(r) \in S
    <3> DEFINE h == Handed(r, i)
    <3>1. i \in 1 .. Len(r.incoming_reliable)
      BY DEF NextHeld
    <3>2. /\ h \in Peer /\ SameHearing(r, h) /\ SameSlots(r, h) /\ SameSaying(r, h)
          /\ h.delivered = [r.delivered EXCEPT !["reliable"] = Append(@, r.incoming_reliable[i].n)]
      BY <2>1, <3>1, HandedIs
    <3> HIDE DEF h
    <3>3. r.delivered \in [Channels -> Seq(Nat)]
      BY <2>1 DEF Peer
    <3>4. h.delivered["unreliable"] = r.delivered["unreliable"]
      BY <3>2, <3>3 DEF Channels
    <3>5. h \in Hands(p, D) /\ h.occupied
      BY <2>1, <3>2, <3>4, HandsOn
    <3> QED
      BY <2>3, <3>5 DEF h
  <2> QED
    BY <2>1, <2>2, <2>3, DrainOneIs
<1> QED
  <2> HIDE DEF S
  <2>1. q \in S
    BY DEF S
  <2>2. DrainOrdered(q) \in S
    BY <1>1, <1>2, <2>1, DrainIn
  <2> QED
    BY <2>2 DEF S

\* A whole message taken.
LEMMA TakeMessageHands ==
    ASSUME NEW p, NEW D, NEW q \in Hands(p, D), q.occupied, NEW c \in Channels, NEW id \in Ids,
           NEW n \in Nat, c = "unreliable" => n # 0
    PROVE  TakeMessage(q, c, id, n) \in Hands(p, D)
<1> DEFINE m == MarkSeen(q, c, id)
           w == [id |-> id, n |-> n]
           d == Deliver(m, c, n)
<1>1. q \in Peer /\ w \in Waiting
  BY DEF Hands, Waiting
<1>2. /\ m \in Peer /\ SameHearing(q, m) /\ SameSlots(q, m) /\ SameSaying(q, m)
      /\ m.delivered = q.delivered
  <2>1. m \in Markings(q, c, id)
    BY <1>1, MarkSeenIn
  <2> HIDE DEF m
  <2> QED
    BY <2>1 DEF Markings
<1>3. m \in Hands(p, D) /\ m.occupied
  <2> HIDE DEF m
  <2> QED
    BY <1>2, HandsOn
<1>4. TakeMessage(q, c, id, n) =
        IF IsSeen(q, c, id) THEN q
        ELSE IF c = "unreliable" THEN d
        ELSE IF Len(m.incoming_reliable) >= InFlight THEN Removed(m, "protocol")
        ELSE DrainOrdered(Waits(m, w))
  BY Zenon DEF TakeMessage, Waits
<1> HIDE DEF m, w
<1>5. CASE c = "unreliable"
  <2> DEFINE x == m.delivered["unreliable"]
  <2>1. /\ d \in Peer /\ SameHearing(m, d) /\ SameSaying(m, d) /\ SameSlots(m, d)
        /\ d.delivered = [m.delivered EXCEPT ![c] = Append(@, n)]
    <3>1. d \in Handings(m, c, n)
      BY <1>2, DeliverIn
    <3> HIDE DEF d
    <3> QED
      BY <3>1 DEF Handings
  <2> HIDE DEF d
  <2>2. m.delivered \in [Channels -> Seq(Nat)] /\ x \in Seq(Nat)
    BY <1>2 DEF Peer, Channels
  <2>3. d.delivered["unreliable"] = Append(x, n)
    BY <1>5, <2>1, <2>2
  <2>4. /\ d.occupied /\ d.reassembly = m.reassembly /\ ActiveSlots(d) = ActiveSlots(m)
    BY <1>3, <2>1 DEF SameHearing, SameSlots, ActiveSlots
  <2>5. Clean(m)
    BY <1>3 DEF Hands, Holds
  <2>6. Clean(d)
    <3>1. \A i \in 1 .. Len(x) : x[i] # 0
      BY <2>5 DEF Clean
    <3> HIDE DEF x
    <3>2. \A i \in 1 .. Len(Append(x, n)) : Append(x, n)[i] # 0
      BY <1>5, <2>2, <3>1
    <3> QED
      BY <2>3, <3>2 DEF Clean
  <2>7. Holds(d, D)
    BY <1>3, <2>4, <2>6 DEF Hands, Holds
  <2>8. d.wire = p.wire /\ SameTelling(p, d)
    BY <1>3, <2>1 DEF Hands, SameSaying, SamePlan, SameTelling
  <2>9. d \in Hands(p, D)
    BY <2>1, <2>7, <2>8 DEF Hands
  <2> QED
    BY <1>4, <1>5, <2>9
<1>6. Removed(m, "protocol") \in Hands(p, D)
  BY <1>3, RemovedHands DEF Reasons
<1>7. DrainOrdered(Waits(m, w)) \in Hands(p, D)
  <2> DEFINE v == Waits(m, w)
  <2>1. /\ v \in Peer /\ SameHearing(m, v) /\ SameSlots(m, v) /\ SameSaying(m, v)
        /\ v.delivered = m.delivered
    BY <1>1, <1>2, WaitsIs
  <2> HIDE DEF v
  <2>2. v \in Hands(p, D) /\ v.occupied
    BY <1>3, <2>1, HandsOn
  <2>3. DrainOrdered(v) \in Hands(p, D)
    BY <2>2, DrainHands
  <2> QED
    BY <2>3 DEF v
<1> QED
  BY <1>4, <1>5, <1>6, <1>7

\* A slot of an end between two steps of taking a fragment.
Open(p, D, q) == q \in Peer /\ q.occupied /\ q.wire = p.wire /\ SameTelling(p, q) /\ Clean(q)
Filled(v, D) == v.received # {} /\ Belongs(v, D)

\* A slot replaced.
LEMMA SlotHands ==
    ASSUME NEW p, NEW D, NEW q, Open(p, D, q), NEW s \in Slots, NEW v \in Slot,
           v.active => Filled(v, D),
           \A x \in ActiveSlots(q) : x # s => Filled(q.reassembly[x], D)
    PROVE  SlotSet(q, s, v) \in Hands(p, D) /\ SlotSet(q, s, v).occupied
<1> DEFINE r == SlotSet(q, s, v)
<1>1. /\ r \in Peer /\ SameHearing(q, r) /\ SameSaying(q, r) /\ r.delivered = q.delivered
      /\ r.reassembly = [q.reassembly EXCEPT ![s] = v]
  BY SlotSetIs DEF Open
<1> HIDE DEF r
<1>2. q.reassembly \in [Slots -> Slot]
  BY DEF Open, Peer
<1>3. \A x \in ActiveSlots(r) : Filled(r.reassembly[x], D)
  <2> TAKE x \in ActiveSlots(r)
  <2>1. CASE x = s
    <3>1. r.reassembly[x] = v
      BY <1>1, <1>2, <2>1
    <3> QED
      BY <3>1 DEF ActiveSlots
  <2>2. CASE x # s
    <3>1. r.reassembly[x] = q.reassembly[x] /\ x \in Slots
      BY <1>1, <1>2, <2>2 DEF ActiveSlots
    <3> QED
      BY <2>2, <3>1 DEF ActiveSlots
  <2> QED
    BY <2>1, <2>2
<1>4. r.occupied /\ Clean(r)
  BY <1>1 DEF Open, SameHearing, Clean
<1>5. r.wire = p.wire /\ SameTelling(p, r)
  BY <1>1 DEF Open, SameSaying, SameTelling, SamePlan
<1>6. Holds(r, D)
  BY <1>3, <1>4 DEF Holds, Filled
<1>7. r \in Hands(p, D)
  BY <1>1, <1>5, <1>6 DEF Hands
<1> QED
  BY <1>4, <1>7 DEF r

\* A fragment filed with its own.
LEMMA FileHands ==
    ASSUME NEW p, NEW D, One(D), NEW q, Open(p, D, q), NEW f, Comely(f, D),
           NEW s \in ActiveSlots(q), q.reassembly[s].channel = f.channel, q.reassembly[s].id = f.id,
           Belongs(q.reassembly[s], D),
           q.reassembly[s].received = {} => q.reassembly[s].total = f.total,
           \A x \in ActiveSlots(q) : x # s => Filled(q.reassembly[x], D)
    PROVE  FileFragment(q, s, f) \in Hands(p, D)
<1> DEFINE v == q.reassembly[s]
           w == With(v, f)
           n == Whole(w)
           r == Made(q, s, f)
<1>1. q \in Peer /\ s \in Slots /\ f \in Frag
  BY DEF Open, ActiveSlots, Comely
<1>2. /\ w \in Slot /\ w.active = v.active /\ w.channel = v.channel /\ w.id = v.id
      /\ w.received = v.received \union {f}
  BY <1>1, SlotTypes
<1> HIDE DEF w
<1>3. Filled(w, D)
  <2>1. \A h \in v.received : h.channel = v.channel /\ h.id = v.id /\ (h.channel = "unreliable" => h \in D)
    BY DEF Belongs
  <2>2. \A h \in w.received : h.channel = w.channel /\ h.id = w.id /\ (h.channel = "unreliable" => h \in D)
    <3> HIDE DEF v
    <3> QED
      BY <1>2, <2>1 DEF Comely, v
  <2> QED
    BY <1>2, <2>2 DEF Filled, Belongs
<1>4. Filed(q, s, f) \in Hands(p, D) /\ Filed(q, s, f).occupied
  BY <1>1, <1>2, <1>3, SlotHands DEF Filed, w
<1>5. n \in Nat /\ (f.channel = "unreliable" => n # 0)
  <2>1. n \in Nat
    BY <1>2, WholeType
  <2>2. ASSUME f.channel = "unreliable" PROVE n # 0
    <3>1. /\ D \subseteq Frag /\ \A g, h \in D : g.id = h.id => g.n = h.n
      BY DEF One
    <3>2. \A h \in w.received : h.channel = f.channel /\ h.id = f.id
      BY <1>2, <1>3 DEF Filled, Belongs
    <3>3. f \in D /\ \A h \in w.received : h \in D
      BY <1>3, <2>2, <3>2 DEF Filled, Belongs, Comely
    <3>4. \A h \in w.received : h.channel = f.channel /\ h.n = f.n
      BY <3>1, <3>2, <3>3
    <3>5. w.received # {}
      BY <1>2
    <3>6. Whole(w) = f.n
      BY <3>4, <3>5, WholeIs
    <3>7. f.n # 0
      BY <1>1 DEF Frag
    <3> QED
      BY <3>6, <3>7
  <2> QED
    BY <2>1, <2>2
<1>6. r \in Hands(p, D)
  <2>1. f.channel \in Channels /\ f.id \in Ids
    BY <1>1 DEF Frag
  <2>2. r = TakeMessage(Filed(q, s, f), f.channel, f.id, n)
    BY DEF Made, w
  <2> HIDE DEF r, n
  <2> QED
    BY <1>4, <1>5, <2>1, <2>2, TakeMessageHands
<1> HIDE DEF r, n
<1>7. ASSUME r.occupied PROVE Freed(r, s) \in Hands(p, D)
  <2>1. r.reassembly[s] \in Slot
    BY <1>1, <1>6 DEF Hands, Peer
  <2>2. Idle(r.reassembly[s]) \in Slot /\ Idle(r.reassembly[s]).active = FALSE
    BY <2>1, IdleIs
  <2>3. Open(p, D, r) /\ \A x \in ActiveSlots(r) : Filled(r.reassembly[x], D)
    BY <1>6, <1>7 DEF Open, Hands, Holds, Filled
  <2> QED
    BY <1>1, <2>2, <2>3, SlotHands DEF Freed
<1>8. ASSUME v.total # f.total \/ \E m \in v.received : m.index = f.index PROVE q \in Hands(p, D)
  <2>1. v.received # {}
    BY <1>8
  <2>2. \A x \in ActiveSlots(q) : Filled(q.reassembly[x], D)
    BY <2>1 DEF Filled
  <2>3. Holds(q, D)
    BY <2>2 DEF Holds, Filled, Open
  <2> QED
    BY <2>3 DEF Open, Hands
<1>9. FileFragment(q, s, f) =
        IF v.total # f.total \/ \E m \in v.received : m.index = f.index
        THEN q
        ELSE IF Cardinality(With(v, f).received) < v.total THEN Filed(q, s, f)
        ELSE IF ~r.occupied THEN r
        ELSE Freed(r, s)
  BY <1>1, FileForms DEF r
<1> HIDE DEF v
<1> QED
  BY <1>4, <1>6, <1>7, <1>8, <1>9

\* A fragment taken, with others of its message or the first of it.
LEMMA FragmentHands ==
    ASSUME NEW p, NEW D, One(D), NEW q \in Hands(p, D), NEW f, Comely(f, D)
    PROVE  TakeFragment(q, f) \in Hands(p, D)
<1>1. q \in Peer /\ f \in Frag /\ f.channel \in Channels /\ f.id \in Ids /\ f.n \in Nat \ {0}
  BY DEF Hands, Comely, Frag
<1>2. ASSUME q.occupied PROVE TakeMessage(q, f.channel, f.id, f.n) \in Hands(p, D)
  <2>1. f.n \in Nat /\ f.n # 0
    BY <1>1
  <2> QED
    BY <1>1, <1>2, <2>1, TakeMessageHands
<1>3. ASSUME q.occupied PROVE Reassemble(q, f) \in Hands(p, D)
  <2> DEFINE match == Matching(q, f)
             s == CHOOSE s \in match : TRUE
             v == Victim(q)
             c == Claim(q, v, f)
  <2>1. v \in Slots
    BY <1>1, VictimIs
  <2>2. Reassemble(q, f) = IF match # {} THEN FileFragment(q, s, f)
                           ELSE IF \/ IsSeen(q, f.channel, f.id)
                                   \/ f.channel = "reliable" /\ ~Acceptable(q, f.id)
                                   \/ ~Fits(q, v, f.total)
                           THEN q ELSE FileFragment(c, v, f)
    BY Zenon DEF Reassemble
  <2>3. match # {} => s \in match
    OBVIOUS
  <2>4. Open(p, D, q) /\ \A x \in ActiveSlots(q) : Filled(q.reassembly[x], D)
    BY <1>3 DEF Open, Hands, Holds, Filled
  <2> HIDE DEF s, v
  <2>5. CASE match # {}
    <3>1. /\ s \in ActiveSlots(q) /\ q.reassembly[s].id = f.id
          /\ q.reassembly[s].channel = f.channel
      BY <2>3, <2>5 DEF Matching
    <3>2. Filled(q.reassembly[s], D)
      BY <2>4, <3>1
    <3>3. FileFragment(q, s, f) \in Hands(p, D)
      BY <2>4, <3>1, <3>2, FileHands DEF Filled
    <3> HIDE DEF match
    <3> QED
      BY <2>2, <2>5, <3>3
  <2>6. FileFragment(c, v, f) \in Hands(p, D)
    <3> DEFINE new == StartedOn(q, v, f)
    <3>1. /\ c \in Peer /\ SameHearing(q, c) /\ SameSaying(q, c) /\ c.delivered = q.delivered
          /\ c.reassembly = [q.reassembly EXCEPT ![v] = new]
      BY <1>1, <2>1, ClaimIs
    <3>2. /\ new.active /\ new.channel = f.channel /\ new.id = f.id /\ new.total = f.total
          /\ new.received = {}
      BY DEF StartedOn
    <3> HIDE DEF c, new
    <3>3. q.reassembly \in [Slots -> Slot]
      BY <1>1 DEF Peer
    <3>4. c.reassembly[v] = new /\ \A x \in Slots : x # v => c.reassembly[x] = q.reassembly[x]
      BY <2>1, <3>1, <3>3
    <3>5. Open(p, D, c)
      BY <2>4, <3>1 DEF Open, SameHearing, SameSaying, SameTelling, SamePlan, Clean
    <3>6. v \in ActiveSlots(c)
      BY <2>1, <3>2, <3>4 DEF ActiveSlots
    <3>7. Belongs(c.reassembly[v], D)
      BY <3>2, <3>4 DEF Belongs
    <3>8. \A x \in ActiveSlots(c) : x # v => Filled(c.reassembly[x], D)
      BY <2>4, <3>4 DEF ActiveSlots
    <3>9. /\ c.reassembly[v].channel = f.channel /\ c.reassembly[v].id = f.id
          /\ c.reassembly[v].total = f.total
      BY <3>2, <3>4
    <3> QED
      BY <3>5, <3>6, <3>7, <3>8, <3>9, FileHands
  <2> HIDE DEF match, c
  <2> QED
    BY <2>2, <2>5, <2>6
<1> QED
  BY <1>2, <1>3 DEF TakeFragment

\* A packet handled.
LEMMA HandleHands ==
    ASSUME NEW p, NEW D, One(D), p \in Hands(p, D), p.occupied, NEW packet \in Packet,
           ~IsReplay(p, packet.seq) =>
               \A i \in 1 .. Len(packet.fragments) : Comely(packet.fragments[i], D)
    PROVE  HandlePacket(p, packet) \in Hands(p, D)
<1> DEFINE a == Acted(p, packet)
           S == Hands(p, D)
           count == Len(packet.fragments)
<1>1. p \in Peer /\ count \in Nat
  <2>1. packet.fragments \in Seq(Frag)
    BY DEF Packet
  <2> QED
    BY <2>1 DEF Hands
<1>2. CASE ~Admits(p, packet)
  BY <1>1, <1>2, HandleForms
<1>3. CASE Admits(p, packet)
  <2>1. /\ a \in Peer /\ a.occupied = p.occupied /\ SameTaking(p, a) /\ SamePlan(p, a)
        /\ a.wire = p.wire /\ a.outgoing = p.outgoing
    BY <1>1, ActedIs
  <2> HIDE DEF a
  <2>2. a \in S
    <3>1. a.reassembly = p.reassembly /\ a.delivered = p.delivered /\ ActiveSlots(a) = ActiveSlots(p)
      BY <2>1 DEF SameTaking, ActiveSlots
    <3>2. Holds(a, D)
      BY <2>1, <3>1 DEF Hands, Holds, Clean
    <3> QED
      BY <2>1, <3>2 DEF Hands, SameTelling
  <2>3. CASE packet.kind = "disconnect"
    <3>1. Removed(a, "requested") \in S
      BY <2>2, RemovedHands DEF Reasons
    <3> QED
      BY <1>1, <1>3, <2>3, <3>1, HandleForms DEF a
  <2>4. CASE packet.kind # "disconnect"
    <3>1. ~IsReplay(p, packet.seq)
      BY <1>1, <1>3, HandleForms
    <3>2. ASSUME NEW i \in 1 .. count, NEW r \in S PROVE TakeFragment(r, packet.fragments[i]) \in S
      <4> DEFINE f == packet.fragments[i]
      <4>1. Comely(f, D)
        BY <3>1
      <4> HIDE DEF f
      <4> QED
        BY <4>1, FragmentHands DEF f
    <3>3. Acted(p, packet) \in S
      BY <2>2 DEF a
    <3> HIDE DEF S, count
    <3>4. HandlePacket(p, packet) \in S
      BY <1>1, <1>3, <2>4, <3>2, <3>3, HandleIn DEF count
    <3> QED
      BY <3>4 DEF S
  <2> QED
    BY <2>3, <2>4
<1> QED
  BY <1>2, <1>3

\* What an end says of the unreliable channel: every fragment it has in its bundle or on
\* the wire has the id its number asks for.
Decent(fs) == \A i \in 1 .. Len(fs) : fs[i].channel = "unreliable" => fs[i] \in Loose
InStep(p) == p.next_message_id["unreliable"] = Nth(0, p.sent["unreliable"] + 1)
WellWired(p) == \A packet \in p.wire : Decent(packet.fragments)
Tellers == {p \in Peer : WellWired(p) /\ Decent(p.outgoing)}
Tells(p) == WellWired(p) /\ (p.occupied => Decent(p.outgoing) /\ InStep(p))

\* A packet of such fragments.
LEMMA SealTells ==
    ASSUME NEW p \in Tellers, NEW kind \in {"data", "disconnect"}, NEW fs \in Seq(Frag), Decent(fs)
    PROVE  SendPacket(p, kind, fs) \in Tellers
<1> DEFINE q == SendPacket(p, kind, fs)
           seal == SealedAs(p, kind, fs)
<1>1. q \in Peer /\ q.outgoing = p.outgoing /\ q.wire = p.wire \union {seal}
  BY SendPacketIs DEF Tellers
<1>2. seal.fragments = fs
  BY DEF SealedAs
<1> HIDE DEF q, seal
<1>3. WellWired(q)
  BY <1>1, <1>2 DEF WellWired, Tellers
<1>4. q \in Tellers
  BY <1>1, <1>3 DEF Tellers
<1> QED
  BY <1>4 DEF q

\* The bundle sealed.
LEMMA FlushTells == ASSUME NEW p \in Tellers PROVE FlushPeer(p) \in Tellers
<1> DEFINE q == FlushPeer(p)
           seal == SealedAs(p, "data", p.outgoing)
<1>1. p \in Peer /\ WellWired(p) /\ Decent(p.outgoing)
  BY DEF Tellers
<1>2. /\ q \in Peer /\ q.outgoing = <<>>
      /\ q.wire = p.wire \/ q.wire = p.wire \union {seal}
  BY <1>1, FlushIs
<1>3. seal.fragments = p.outgoing
  BY DEF SealedAs
<1> HIDE DEF q, seal
<1>4. WellWired(q)
  BY <1>1, <1>2, <1>3 DEF WellWired
<1>5. Decent(q.outgoing)
  BY <1>2 DEF Decent
<1>6. q \in Tellers
  BY <1>2, <1>4, <1>5 DEF Tellers
<1> QED
  BY <1>6 DEF q

\* Sealing only sends.
LEMMA FlushOnly == ASSUME NEW p \in Peer PROVE FlushPeer(p) \in SendsFrom(p)
<1> DEFINE q == FlushPeer(p)
<1>1. /\ q \in Peer /\ SameHearing(p, q) /\ SameTaking(p, q) /\ SamePlan(p, q)
      /\ q.outgoing_reliable = p.outgoing_reliable
  BY FlushIs
<1> HIDE DEF q
<1>2. q \in SendsFrom(p)
  BY <1>1 DEF SendsFrom, SameShape
<1> QED
  BY <1>2 DEF q

\* A fragment more.
LEMMA AppendTells ==
    ASSUME NEW p \in Tellers, NEW f \in Frag, f.channel = "unreliable" => f \in Loose
    PROVE  AppendFragment(p, f) \in Tellers
<1> DEFINE q == AppendFragment(p, f)
           r == IF Len(p.outgoing) + 1 > BodyMax THEN FlushPeer(p) ELSE p
<1>1. r \in Tellers
  BY FlushTells
<1>2. q \in Peer /\ q.outgoing = Append(r.outgoing, f) /\ q.wire = r.wire
  BY AppendFragmentIs DEF Tellers
<1> HIDE DEF q, r
<1>3. WellWired(q)
  BY <1>1, <1>2 DEF WellWired, Tellers
<1>4. Decent(q.outgoing)
  <2>1. r.outgoing \in Seq(Frag) /\ Decent(r.outgoing)
    BY <1>1 DEF Tellers, Peer
  <2> DEFINE old == r.outgoing
             new == Append(old, f)
  <2>2. /\ Len(new) = Len(old) + 1 /\ Len(old) \in Nat /\ new[Len(old) + 1] = f
        /\ \A i \in 1 .. Len(old) : new[i] = old[i]
    BY <2>1
  <2> HIDE DEF old, new
  <2>3. Decent(new)
    <3> SUFFICES ASSUME NEW i \in 1 .. Len(new), new[i].channel = "unreliable" PROVE new[i] \in Loose
      BY DEF Decent
    <3>1. i \in 1 .. Len(old) \/ i = Len(old) + 1
      BY <2>2
    <3> QED
      BY <2>1, <2>2, <3>1 DEF Decent, old
  <2> QED
    BY <1>2, <2>3 DEF new, old
<1>5. q \in Tellers
  BY <1>2, <1>3, <1>4 DEF Tellers
<1> QED
  BY <1>5 DEF q

\* A message cut up.
LEMMA MessageTells ==
    ASSUME NEW p \in Tellers, NEW c \in Channels, NEW id \in Ids, NEW n \in Nat \ {0},
           NEW total \in 1 .. MaxMessage, c = "unreliable" => id = Nth(0, n)
    PROVE  AppendMessage(p, c, id, n, total) \in Tellers
<1> DEFINE S == Tellers
<1>1. p \in S /\ total \in Nat
  OBVIOUS
<1>2. ASSUME NEW i \in 1 .. total, NEW q \in S
      PROVE  AppendFragment(q, [channel |-> c, id |-> id, n |-> n, index |-> i, total |-> total]) \in S
  <2> DEFINE f == [channel |-> c, id |-> id, n |-> n, index |-> i, total |-> total]
  <2>1. f \in Frag /\ f.channel = c /\ f.id = id /\ f.n = n
    BY DEF Frag
  <2> HIDE DEF f
  <2>2. f.channel = "unreliable" => f \in Loose
    BY <2>1 DEF Loose
  <2>3. AppendFragment(q, f) \in S
    BY <2>1, <2>2, AppendTells
  <2> QED
    BY <2>3 DEF f
<1> QED
  <2> HIDE DEF S
  <2>1. AppendMessage(p, c, id, n, total) \in S
    BY <1>1, <1>2, AppendMessageIn
  <2> QED
    BY <2>1 DEF S

\* What is pending sent again.
LEMMA ResendTells ==
    ASSUME NEW p \in Tellers, NEW due PROVE Resend(p, due) \in Tellers
<1> DEFINE S == SendsFrom(p) \intersect Tellers
           o == p.outgoing_reliable
           count == Len(o)
<1>1. p \in Peer /\ o \in Seq(Pending) /\ count \in Nat
  <2>1. o \in Seq(Pending)
    BY DEF Peer, Tellers
  <2> QED
    BY <2>1 DEF Tellers
<1>2. p \in S
  BY <1>1 DEF SendsFrom, SameHearing, SameTaking, SamePlan, SameShape
<1>3. ASSUME NEW i \in 1 .. count, NEW q \in S
      PROVE  (IF p.outgoing_reliable[i].sends /\ p.outgoing_reliable[i].n \notin due THEN q
              ELSE SendAgain(q, i, p.outgoing_reliable[i])) \in S
  <2> DEFINE m == p.outgoing_reliable[i]
  <2>1. m \in Pending
    BY <1>1
  <2>2. q \in Peer /\ i \in 1 .. Len(q.outgoing_reliable) /\ q \in Tellers
    BY DEF SendsFrom, SameShape
  <2> HIDE DEF m
  <2> DEFINE r == AppendMessage(q, "reliable", m.id, m.n, m.total)
  <2>3. r \in Tellers /\ r \in SendsFrom(q)
    BY <2>1, <2>2, MessageTells, MessageOnly DEF Pending, Channels
  <2>4. SendAgain(q, i, m) = Marked(r, i) /\ SendAgain(q, i, m) \in SendsFrom(q)
    BY <2>1, <2>2, SendAgainIs
  <2> HIDE DEF r
  <2>5. r \in Peer /\ i \in 1 .. Len(r.outgoing_reliable)
    BY <2>2, <2>3 DEF SendsFrom, SameShape
  <2>6. /\ Marked(r, i) \in Peer /\ Marked(r, i).outgoing = r.outgoing
        /\ Marked(r, i).wire = r.wire
    BY <2>5, MarkedIs DEF SendsFrom
  <2>7. Marked(r, i) \in Tellers
    BY <2>3, <2>6 DEF Tellers, WellWired
  <2>8. SendAgain(q, i, m) \in S
    BY <2>4, <2>7, SendsOn
  <2> QED
    BY <2>8 DEF m
<1> QED
  <2> HIDE DEF S
  <2>1. Resend(p, due) \in S
    BY <1>1, <1>2, <1>3, ResendIn
  <2> QED
    BY <2>1 DEF S

\* What leaves the sending alone keeps what is told.
LEMMA TellsAlike ==
    ASSUME NEW p, Tells(p), NEW q, q.wire = p.wire, q.occupied => p.occupied /\ SameTelling(p, q)
    PROVE  Tells(q)
BY DEF Tells, SameTelling, SamePlan, WellWired, InStep

\* An end that sends on tells what it told.
LEMMA TellsOn ==
    ASSUME NEW p, Tells(p), p.occupied, NEW q \in SendsFrom(p), q \in Tellers
    PROVE  Tells(q)
BY DEF SendsFrom, Tellers, Tells, SamePlan, InStep

\* A message sent.
LEMMA SendingTells ==
    ASSUME NEW p \in Peer, Tells(p), p.occupied, NEW c \in Channels, NEW due, p.todo[c] # <<>>
    PROVE  Tells(Sending(p, c, due))
<1> DEFINE d == Drawn(p, c)
           n == p.sent["unreliable"] + 1
           id == p.next_message_id["unreliable"]
<1>1. p \in Tellers
  BY DEF Tellers, Tells
<1>2. /\ p.sent \in [Channels -> Nat] /\ p.next_message_id \in [Channels -> Ids]
      /\ "unreliable" \in Channels /\ "reliable" \in Channels
  BY DEF Peer, Channels
<1>3. n \in Nat \ {0} /\ id \in Ids /\ id = Nth(0, n) /\ n + 1 \in Nat
  <2>1. id = Nth(0, n)
    BY DEF Tells, InStep
  <2> QED
    BY <1>2, <2>1
<1>4. /\ d \in Peer /\ SameHearing(p, d)
      /\ d.next_message_id = [p.next_message_id EXCEPT ![c] = (@ + 1) % IdSpace]
      /\ d.sent = p.sent /\ d.wire = p.wire /\ d.outgoing = p.outgoing
  BY DrawnIs
<1> HIDE DEF d
<1>5. d \in Tellers
  BY <1>1, <1>4 DEF Tellers, WellWired
<1>6. CASE /\ c = "unreliable"
           /\ Sending(p, c, due) = Counted(Unqueued(p), n)
           /\ Unqueued(p) \in SendsFrom(d)
  <2> DEFINE u == Unqueued(p)
             total == Head(p.todo["unreliable"])
             q == Counted(u, n)
  <2>1. total \in 1 .. MaxMessage
    <3>1. p.todo["unreliable"] \in Seq(1 .. MaxMessage)
      BY <1>2 DEF Peer
    <3>2. p.todo["unreliable"] # <<>>
      BY <1>6
    <3> QED
      BY <3>1, <3>2, HeadTailProperties
  <2>2. u = AppendMessage(d, "unreliable", id, n, total)
    BY <1>6 DEF Unqueued, d
  <2>3. u \in Tellers
    <3> HIDE DEF total, id, n
    <3> QED
      BY <1>2, <1>3, <1>5, <2>1, <2>2, MessageTells DEF u
  <2>4. u \in Peer /\ SamePlan(d, u)
    BY <1>6 DEF SendsFrom
  <2> HIDE DEF u
  <2>5. /\ q \in Peer /\ q.sent = [u.sent EXCEPT !["unreliable"] = n]
        /\ q.next_message_id = u.next_message_id /\ q.wire = u.wire /\ q.outgoing = u.outgoing
    <3> HIDE DEF n
    <3> QED
      BY <1>3, <2>4, CountedIs
  <2> HIDE DEF q
  <2>6. q.sent["unreliable"] = n
    BY <1>2, <1>4, <2>4, <2>5 DEF SamePlan
  <2>7. q.next_message_id["unreliable"] = (id + 1) % IdSpace
    BY <1>2, <1>4, <1>6, <2>4, <2>5 DEF SamePlan
  <2>8. (id + 1) % IdSpace = Nth(0, n + 1)
    <3>1. 0 \in Nat /\ n \in Nat /\ 0 + n >= 1 /\ 1 \in Nat
      BY <1>3
    <3>2. (Nth(0, n) + 1) % IdSpace = Nth(0, n + 1)
      <4> HIDE DEF n
      <4> QED
        BY <3>1, NthNext
    <3> QED
      BY <1>3, <3>2
  <2>9. InStep(q)
    <3> HIDE DEF n, id
    <3> QED
      BY <2>6, <2>7, <2>8 DEF InStep
  <2>10. WellWired(q) /\ Decent(q.outgoing)
    BY <2>3, <2>5 DEF Tellers, WellWired
  <2>11. Tells(q)
    BY <2>9, <2>10 DEF Tells
  <2> QED
    BY <1>6, <2>11 DEF q, u
<1>7. CASE c = "reliable" /\ Sending(p, c, due) = Resend(Queued(p), due)
  <2> DEFINE q == Queued(p)
  <2>1. /\ q \in Peer /\ SameHearing(p, q) /\ q.wire = p.wire /\ q.outgoing = p.outgoing
        /\ q.next_message_id = [p.next_message_id EXCEPT !["reliable"] = (@ + 1) % IdSpace]
        /\ q.sent = [p.sent EXCEPT !["reliable"] = @ + 1]
    BY <1>7, QueuedIs
  <2> HIDE DEF q
  <2>2. /\ q.next_message_id["unreliable"] = p.next_message_id["unreliable"]
        /\ q.sent["unreliable"] = p.sent["unreliable"]
    BY <1>2, <2>1
  <2>3. q \in Tellers
    BY <1>1, <2>1 DEF Tellers, WellWired
  <2>4. Tells(q) /\ q.occupied
    BY <2>1, <2>2, <2>3 DEF Tells, Tellers, InStep, SameHearing
  <2>5. Resend(q, due) \in SendsFrom(q) /\ Resend(q, due) \in Tellers
    BY <2>1, <2>3, ResendOnly, ResendTells
  <2>6. Tells(Resend(q, due))
    BY <2>4, <2>5, TellsOn
  <2> QED
    BY <1>7, <2>6 DEF q
<1>8. CASE Sending(p, c, due) = Removed(d, "timeout")
  <2> DEFINE q == Removed(d, "timeout")
  <2>1. q.occupied = FALSE /\ q.wire = d.wire
    BY <1>4, RemovedIs DEF Reasons
  <2> HIDE DEF q
  <2>2. Tells(q)
    BY <1>5, <2>1 DEF Tells, Tellers, WellWired
  <2> QED
    BY <1>8, <2>2 DEF q
<1> QED
  BY <1>6, <1>7, <1>8, SendingIs DEF d

\* What leaves the slots and what was taken alone keeps what an end holds.
LEMMA HoldsAlike ==
    ASSUME NEW p, NEW D, Holds(p, D), NEW q, q.occupied = p.occupied, SameTaking(p, q)
    PROVE  Holds(q, D)
<1>1. /\ q.reassembly = p.reassembly /\ q.incoming_reliable = p.incoming_reliable
      /\ q.delivered = p.delivered /\ ActiveSlots(q) = ActiveSlots(p)
  BY DEF SameTaking, ActiveSlots
<1> QED
  BY <1>1 DEF Holds, Clean

\* An end is in order: it tells what it should and holds what was told.
Parted(p) == p \in Peer /\ Tells(p) /\ Holds(p, Loose)

\* One that only sends stays so.
LEMMA SendsParted ==
    ASSUME NEW p, Parted(p), p.occupied, NEW q \in SendsFrom(p), q \in Tellers
    PROVE  Parted(q) /\ q.occupied
<1>1. q \in Peer /\ q.occupied = p.occupied /\ SameTaking(p, q)
  BY DEF SendsFrom, SameHearing
<1>2. Holds(q, Loose)
  BY <1>1, HoldsAlike DEF Parted
<1>3. Tells(q)
  BY TellsOn DEF Parted
<1> QED
  BY <1>1, <1>2, <1>3 DEF Parted

\* And one that seals a packet without a fragment.
LEMMA EmptyParted ==
    ASSUME NEW p, Parted(p), p.occupied, NEW kind \in {"data", "disconnect"}
    PROVE  Parted(SendPacket(p, kind, <<>>))
<1> DEFINE none == <<>>
           q == SendPacket(p, kind, none)
<1>1. p \in Tellers /\ p \in Peer
  BY DEF Parted, Tellers, Tells
<1>2. none \in Seq(Frag) /\ Decent(none)
  BY DEF Decent
<1> HIDE DEF none
<1>3. q \in Tellers
  BY <1>1, <1>2, SealTells
<1>4. q \in Peer /\ SameHearing(p, q) /\ SameTaking(p, q) /\ SamePlan(p, q)
  BY <1>1, <1>2, SendPacketIs
<1> HIDE DEF q
<1>5. q.occupied = p.occupied /\ Holds(q, Loose)
  BY <1>4, HoldsAlike DEF Parted, SameHearing
<1>6. Tells(q)
  BY <1>3, <1>4 DEF Parted, Tellers, Tells, SamePlan, InStep
<1>7. Parted(q)
  BY <1>4, <1>5, <1>6 DEF Parted
<1> QED
  BY <1>7 DEF q, none

\* One that leaves.
LEMMA RemovedParted ==
    ASSUME NEW p, Parted(p), NEW reason \in Reasons PROVE Parted(Removed(p, reason))
<1> DEFINE q == Removed(p, reason)
<1>1. p \in Peer /\ Clean(p) /\ Tells(p)
  BY DEF Parted, Holds
<1>2. q \in Peer /\ Holds(q, Loose)
  BY <1>1, RemovedHolds
<1>3. q.occupied = FALSE /\ q.wire = p.wire
  BY <1>1, RemovedIs
<1> HIDE DEF q
<1>4. Tells(q)
  BY <1>1, <1>3, TellsAlike
<1> QED
  <2>1. Parted(q)
    BY <1>2, <1>4 DEF Parted
  <2> QED
    BY <2>1 DEF q

\* One that sends a message.
LEMMA SendingParted ==
    ASSUME NEW p, Parted(p), p.occupied, NEW c \in Channels, NEW due, p.todo[c] # <<>>
    PROVE  Parted(Sending(p, c, due))
<1> DEFINE q == Sending(p, c, due)
           d == Drawn(p, c)
<1> SUFFICES Parted(q)
  OBVIOUS
<1>1. p \in Peer /\ Tells(q)
  BY SendingTells DEF Parted
<1>2. d \in Peer /\ SameHearing(p, d) /\ SameTaking(p, d)
  BY <1>1, DrawnIs
<1> HIDE DEF d, q
<1>3. Holds(d, Loose)
  BY <1>2, HoldsAlike DEF Parted, SameHearing
<1>4. CASE /\ c = "unreliable" /\ q = Counted(Unqueued(p), p.sent["unreliable"] + 1)
           /\ Unqueued(p) \in SendsFrom(d)
  <2> DEFINE u == Unqueued(p)
             n == p.sent["unreliable"] + 1
  <2>1. u \in Peer /\ u.occupied = d.occupied /\ SameTaking(d, u)
    BY <1>4 DEF SendsFrom, SameHearing
  <2>2. n \in Nat
    BY <1>1 DEF Peer, Channels
  <2> HIDE DEF u, n
  <2>3. q \in Peer /\ SameHearing(u, q) /\ SameTaking(u, q)
    BY <1>4, <2>1, <2>2, CountedIs DEF u, n
  <2>4. Holds(u, Loose)
    BY <1>3, <2>1, HoldsAlike
  <2>5. Holds(q, Loose)
    BY <2>3, <2>4, HoldsAlike DEF SameHearing
  <2> QED
    BY <1>1, <2>3, <2>5 DEF Parted
<1>5. CASE c = "reliable" /\ q = Resend(Queued(p), due)
  <2> DEFINE u == Queued(p)
  <2>1. u \in Peer /\ u.occupied = p.occupied /\ SameTaking(p, u)
    BY <1>1, <1>5, QueuedIs DEF SameHearing
  <2> HIDE DEF u
  <2>2. q \in Peer /\ q.occupied = u.occupied /\ SameTaking(u, q)
    BY <1>5, <2>1, ResendOnly DEF SendsFrom, SameHearing, u
  <2>3. Holds(u, Loose)
    BY <2>1, HoldsAlike DEF Parted
  <2>4. Holds(q, Loose)
    BY <2>2, <2>3, HoldsAlike
  <2> QED
    BY <1>1, <2>2, <2>4 DEF Parted
<1>6. CASE q = Removed(d, "timeout")
  <2>1. q \in Peer /\ Holds(q, Loose)
    BY <1>2, <1>3, <1>6, RemovedHolds DEF Reasons, Holds
  <2> QED
    BY <1>1, <2>1 DEF Parted
<1> QED
  BY <1>1, <1>4, <1>5, <1>6, SendingIs DEF q, d

\* One that is updated.
LEMMA UpdateParted ==
    ASSUME NEW p, Parted(p), p.occupied, NEW expired, NEW due, NEW alone \in BOOLEAN
    PROVE  Parted(Updated(p, expired, due, alone))
<1> DEFINE x == Expire(p, expired)
           r == Resend(x, due)
           q == FlushPeer(r)
<1>1. p \in Peer
  BY DEF Parted
<1>2. /\ x \in Peer /\ SameHearing(p, x) /\ SameSaying(p, x) /\ SameQueue(p, x)
      /\ x.delivered = p.delivered
      /\ \A s \in Slots : x.reassembly[s] \in {p.reassembly[s], Idle(p.reassembly[s])}
  BY <1>1, ExpireIs
<1> HIDE DEF x
<1>3. \A s \in ActiveSlots(x) : s \in ActiveSlots(p) /\ x.reassembly[s] = p.reassembly[s]
  <2> TAKE s \in ActiveSlots(x)
  <2>1. s \in Slots /\ x.reassembly[s].active
    BY DEF ActiveSlots
  <2>2. Idle(p.reassembly[s]).active = FALSE
    BY <1>1, <2>1, IdleIs DEF Peer
  <2> QED
    BY <1>2, <2>1, <2>2 DEF ActiveSlots
<1>4. x.occupied /\ Holds(x, Loose)
  BY <1>2, <1>3 DEF Parted, Holds, Clean, SameHearing
<1>5. Tells(x)
  BY <1>2, <1>4, TellsAlike DEF Parted, SameSaying, SameTelling
<1>6. Parted(x) /\ x \in Tellers
  BY <1>2, <1>4, <1>5 DEF Parted, Tells, Tellers
<1>7. r \in SendsFrom(x) /\ r \in Tellers
  BY <1>2, <1>6, ResendOnly, ResendTells
<1> HIDE DEF r
<1>8. Parted(r) /\ r.occupied /\ r \in Peer
  BY <1>4, <1>6, <1>7, SendsParted DEF Parted
<1>9. q \in SendsFrom(r) /\ q \in Tellers
  BY <1>7, <1>8, FlushOnly, FlushTells
<1> HIDE DEF q
<1>10. Parted(q) /\ q.occupied
  BY <1>8, <1>9, SendsParted
<1>11. Parted(SendPacket(q, "data", <<>>))
  BY <1>10, EmptyParted
<1> QED
  BY <1>10, <1>11 DEF Updated, q, r, x

PartsInv == \A e \in Ends : Parted(conn[e])

\* Under Prompt an id says which message is meant.
LEMMA PartsAreOne ==
    ASSUME PartsInv, Prompt, NEW e \in Ends
    PROVE  One(Parts(e)) /\ Parts(e) \subseteq Loose
<1> DEFINE p == conn[e]
           o == conn[Other(e)]
<1>1. p \in Peer /\ Holds(p, Loose) /\ o \in Peer /\ Tells(o)
  BY TwoEnds DEF PartsInv, Parted
<1>2. Parts(e) \subseteq Loose
  <2> SUFFICES ASSUME NEW f \in Parts(e) PROVE f \in Loose
    OBVIOUS
  <2>1. f \in Frag /\ f.channel = "unreliable"
    BY DEF Parts
  <2>2. CASE \E s \in ActiveSlots(p) : f \in p.reassembly[s].received
    BY <1>1, <2>1, <2>2 DEF Holds, Belongs
  <2>3. CASE \E packet \in o.wire : \E i \in 1 .. Len(packet.fragments) : f = packet.fragments[i]
    BY <1>1, <2>1, <2>3 DEF Tells, WellWired, Decent
  <2> QED
    BY <2>2, <2>3 DEF Parts
<1>3. ASSUME NEW f \in Parts(e), NEW h \in Parts(e), f.id = h.id PROVE f.n = h.n
  <2> DEFINE m == f.n
             n == h.n
  <2>1. m \in Nat /\ n \in Nat /\ 0 + m >= 1 /\ 0 + n >= 1 /\ 0 \in Nat
    BY DEF Parts, Frag
  <2>2. m < n + IdSpace /\ n < m + IdSpace /\ IdSpace \in Nat
    BY Widths DEF Prompt
  <2>3. Nth(0, m) = Nth(0, n)
    BY <1>2, <1>3 DEF Loose
  <2> HIDE DEF m, n
  <2>4. m - n < IdSpace /\ n - m < IdSpace
    BY <2>1, <2>2
  <2>5. m = n
    BY <2>1, <2>3, <2>4, NthIs
  <2> QED
    BY <2>5 DEF m, n
<1>4. Parts(e) \subseteq Frag
  BY DEF Parts
<1> QED
  BY <1>2, <1>3, <1>4 DEF One

\* A call keeps an end in order.
LEMMA CallParted ==
    ASSUME PartsInv, Prompt, NEW e \in Ends, NEW q, Called(e, q) PROVE Parted(q)
<1> DEFINE p == conn[e]
           o == conn[Other(e)]
           D == Parts(e)
<1>1. Parted(p) /\ p.occupied /\ p \in Peer /\ o \in Peer
  BY TwoEnds DEF PartsInv, Parted, Called
<1>2. p \in Tellers
  BY <1>1 DEF Parted, Tells, Tellers
<1>3. Parted(FlushPeer(p)) /\ FlushPeer(p).occupied
  <2>1. FlushPeer(p) \in SendsFrom(p) /\ FlushPeer(p) \in Tellers
    BY <1>1, <1>2, FlushOnly, FlushTells
  <2> QED
    BY <1>1, <2>1, SendsParted
<1>4. CASE \E c \in Channels : \E due : p.todo[c] # <<>> /\ q = Sending(p, c, due)
  BY <1>1, <1>4, SendingParted
<1>5. CASE q = FlushPeer(p)
  BY <1>3, <1>5
<1>6. ASSUME NEW packet \in o.wire, q = HandlePacket(p, packet) PROVE Parted(q)
  <2>1. One(D) /\ D \subseteq Loose
    BY PartsAreOne
  <2>2. packet \in Packet /\ packet.fragments \in Seq(Frag)
    BY <1>1 DEF Peer, Packet
  <2>3. Holds(p, D)
    <3>1. \A s \in ActiveSlots(p) : p.reassembly[s].received \subseteq Frag
      BY <1>1 DEF Peer, Slot, ActiveSlots
    <3>2. \A s \in ActiveSlots(p) : \A f \in p.reassembly[s].received :
              f.channel = "unreliable" => f \in D
      BY <3>1 DEF Parts
    <3>3. \A s \in ActiveSlots(p) : Belongs(p.reassembly[s], D)
      BY <1>1, <3>2 DEF Parted, Holds, Belongs
    <3> QED
      BY <1>1, <3>3 DEF Parted, Holds
  <2>4. p \in Hands(p, D)
    BY <1>1, <2>3 DEF Hands, SameTelling, SamePlan
  <2>5. ASSUME ~IsReplay(p, packet.seq), NEW i \in 1 .. Len(packet.fragments)
        PROVE  Comely(packet.fragments[i], D)
    <3>1. packet.fragments[i] \in Frag
      BY <2>2
    <3> QED
      BY <2>5, <3>1 DEF Comely, Parts
  <2> HIDE DEF D
  <2>6. q \in Hands(p, D)
    BY <1>1, <1>6, <2>1, <2>2, <2>4, <2>5, HandleHands
  <2>7. Holds(q, Loose)
    <3>1. \A s \in ActiveSlots(q) : Belongs(q.reassembly[s], Loose)
      BY <2>1, <2>6 DEF Hands, Holds, Belongs
    <3> QED
      BY <2>6, <3>1 DEF Hands, Holds
  <2>8. Tells(q)
    BY <1>1, <2>6, TellsAlike DEF Hands, Parted
  <2> QED
    BY <2>6, <2>7, <2>8 DEF Hands, Parted
<1>7. CASE \E expired, due : \E alone \in BOOLEAN : q = Updated(p, expired, due, alone)
  BY <1>1, <1>7, UpdateParted
<1>8. CASE q = Removed(p, "timeout")
  BY <1>1, <1>8, RemovedParted DEF Reasons
<1>9. CASE q = Removed(SendPacket(FlushPeer(p), "disconnect", <<>>), "caller")
  <2>1. Parted(SendPacket(FlushPeer(p), "disconnect", <<>>))
    BY <1>3, EmptyParted
  <2> QED
    BY <1>9, <2>1, RemovedParted DEF Reasons
<1> QED
  <2>1. Called(e, q)
    OBVIOUS
  <2> QED
    BY <1>4, <1>5, <1>6, <1>7, <1>8, <1>9, <2>1 DEF Called

\* A connection begins in order.
LEMMA PartsInit == NetInit => PartsInv
<1> SUFFICES ASSUME NetInit, NEW e \in Ends PROVE Parted(conn[e])
  BY DEF PartsInv
<1>1. PICK start \in Starts : conn = [d \in Ends |-> Established(start.carried, start.plan[d])]
  BY DEF NetInit
<1> DEFINE p == Established(start.carried, start.plan[e])
<1>2. conn[e] = p /\ Fresh(p, start.plan[e])
  BY <1>1, StartIs
<1>3. p.next_message_id["unreliable"] = 0
  BY DEF Established, Channels
<1> HIDE DEF p
<1>4. p.sent["unreliable"] = 0
  BY <1>2 DEF Fresh, Channels
<1>5. Nth(0, p.sent["unreliable"] + 1) = 0
  <2>1. Nth(0, p.sent["unreliable"] + 1) = 0 % IdSpace
    BY <1>4 DEF Nth
  <2>2. 0 \in Nat /\ IdSpace \in Nat \ {0} /\ 0 < IdSpace /\ 0 = 0 * IdSpace + 0
    BY Widths
  <2> QED
    BY <2>1, <2>2
<1>6. Tells(p)
  BY <1>2, <1>3, <1>5 DEF Fresh, Tells, WellWired, Decent, InStep
<1>7. ActiveSlots(p) = {}
  BY <1>2 DEF Fresh, ActiveSlots, FreeSlot
<1>8. Clean(p)
  BY <1>2 DEF Fresh, Clean, Channels
<1> QED
  BY <1>2, <1>6, <1>7, <1>8 DEF Parted, Holds, Fresh

\* And stays in order.
LEMMA PartsStep == PartsInv /\ Prompt /\ OpenInv /\ [NetNext]_conn => PartsInv'
<1> SUFFICES ASSUME PartsInv, Prompt, OpenInv, [NetNext]_conn PROVE PartsInv'
  OBVIOUS
<1>1. CASE NetNext
  <2>0. PICK e \in Ends : \E q : conn' = [conn EXCEPT ![e] = q] /\ Called(e, q)
    BY <1>1, StepIs
  <2>1. PICK q : conn' = [conn EXCEPT ![e] = q] /\ Called(e, q)
    BY <2>0
  <2>2. Parted(q)
    BY <2>1, CallParted
  <2>3. \A d \in Ends : conn'[d] = IF d = e THEN q ELSE conn[d]
    BY <2>1 DEF OpenInv
  <2> QED
    BY <2>2, <2>3 DEF PartsInv
<1>2. CASE UNCHANGED conn
  BY <1>2 DEF PartsInv
<1> QED
  BY <1>1, <1>2

\* What a slot of the unreliable channel holds is of one message.
LEMMA LooseSlots ==
    ASSUME PartsInv, Prompt, NEW e \in Ends, NEW s \in ActiveSlots(conn[e]),
           conn[e].reassembly[s].channel = "unreliable"
    PROVE  Whole(conn[e].reassembly[s]) # 0
<1> DEFINE v == conn[e].reassembly[s]
<1>1. One(Parts(e))
  BY PartsAreOne
<1>2. v.received # {} /\ Belongs(v, Loose)
  BY DEF PartsInv, Parted, Holds
<1>3. \A f \in v.received : f \in Parts(e) /\ f.channel = "unreliable" /\ f.id = v.id
  <2>1. \A f \in v.received : f.channel = "unreliable" /\ f.id = v.id /\ f \in Loose
    BY <1>2 DEF Belongs
  <2> QED
    BY <2>1 DEF Parts, Loose
<1> HIDE DEF v
<1>4. PICK h \in v.received : TRUE
  BY <1>2
<1>5. \A f \in v.received : f.channel = "unreliable" /\ f.n = h.n
  BY <1>1, <1>3 DEF One
<1>6. h.n # 0
  BY <1>3 DEF Parts, Frag
<1>7. Whole(v) = h.n
  BY <1>2, <1>5, WholeIs
<1> QED
  BY <1>6, <1>7 DEF v

\* What a slot of the reliable channel holds is too, and what waits in line is numbered.
LEMMA LinedSlots ==
    ASSUME PartsInv, LineInv, NEW e \in Ends, conn[e].occupied
    PROVE  /\ \A s \in ActiveSlots(conn[e]) :
                  conn[e].reassembly[s].channel = "reliable" => Whole(conn[e].reassembly[s]) # 0
           /\ \A i \in 1 .. Len(conn[e].incoming_reliable) : conn[e].incoming_reliable[i].n # 0
<1> DEFINE p == conn[e]
<1>1. PICK start \in Starts, g \in [Ends -> Past], t \in [Ends -> Nat] : Line(conn, start, g, t)
  BY DEF LineInv
<1> DEFINE k == start.carried
           theirs == start.plan[Other(e)]["reliable"]
           hi == g[Other(e)][p.remote_sequence].sent
<1>2. Taken(p, k, theirs, hi)
  BY <1>1 DEF Line, Heard, Listens
<1> HIDE DEF k, theirs, hi, p
<1>3. p \in Peer /\ Lined(p, k, hi) /\ SlotsRight(p, k, theirs, hi)
  BY <1>2 DEF Taken, InLine
<1>4. ASSUME NEW s \in ActiveSlots(p), p.reassembly[s].channel = "reliable"
      PROVE  Whole(p.reassembly[s]) # 0
  <2> DEFINE v == p.reassembly[s]
  <2>1. SlotRight(p, v, k, theirs, hi)
    BY <1>3, <1>4 DEF SlotsRight, Reliables
  <2>2. v.received # {}
    BY DEF PartsInv, Parted, Holds, p
  <2> HIDE DEF v
  <2>3. PICK n \in 1 .. hi : \A f \in v.received : f.channel = "reliable" /\ f.n = n
    BY <2>1 DEF SlotRight
  <2>4. Whole(v) = n
    BY <2>2, <2>3, WholeIs
  <2> QED
    BY <2>4 DEF v
<1>5. ASSUME NEW i \in 1 .. Len(p.incoming_reliable) PROVE p.incoming_reliable[i].n # 0
  <2>1. p.incoming_reliable[i].n \in Done(p) + 1 .. hi /\ Done(p) \in Nat /\ hi \in Nat
    BY <1>3, Counts DEF Lined
  <2> QED
    BY <2>1
<1> QED
  BY <1>4, <1>5 DEF p

\* No message is a mixture.
LEMMA PartsUnmixed == PartsInv /\ LineInv /\ Prompt => SlotsUnmixed
<1> SUFFICES ASSUME PartsInv, LineInv, Prompt, NEW e \in Ends
             PROVE  /\ \A s \in ActiveSlots(conn[e]) : Whole(conn[e].reassembly[s]) # 0
                    /\ \A m \in Range(conn[e].incoming_reliable) : m.n # 0
                    /\ \A c \in Channels : 0 \notin Range(conn[e].delivered[c])
  BY DEF SlotsUnmixed
<1> DEFINE p == conn[e]
<1>1. p \in Peer /\ Holds(p, Loose)
  BY DEF PartsInv, Parted
<1>2. ASSUME NEW s \in ActiveSlots(p) PROVE Whole(p.reassembly[s]) # 0
  <2>1. p.reassembly[s].channel \in {"reliable", "unreliable"}
    BY <1>1 DEF Peer, Slot, ActiveSlots, Channels
  <2>2. p.occupied
    BY <1>1 DEF Holds
  <2> QED
    BY <2>1, <2>2, LooseSlots, LinedSlots
<1>3. ASSUME NEW m \in Range(p.incoming_reliable) PROVE m.n # 0
  <2>1. PICK i \in 1 .. Len(p.incoming_reliable) : m = p.incoming_reliable[i]
    <3>1. p.incoming_reliable \in Seq(Waiting)
      BY <1>1 DEF Peer
    <3> QED
      BY <3>1 DEF Range
  <2>2. CASE p.occupied
    BY <2>1, <2>2, LinedSlots
  <2>3. CASE ~p.occupied
    <3>1. p.incoming_reliable = <<>>
      BY <1>1, <2>3 DEF Holds
    <3> QED
      BY <2>1, <3>1
  <2> QED
    BY <2>2, <2>3
<1>4. ASSUME NEW c \in Channels PROVE 0 \notin Range(p.delivered[c])
  <2> DEFINE d == p.delivered[c]
  <2>1. d \in Seq(Nat)
    BY <1>1 DEF Peer
  <2>2. \A i \in 1 .. Len(d) : d[i] # 0
    <3>1. CASE c = "unreliable"
      BY <1>1, <3>1 DEF Holds, Clean
    <3>2. CASE c = "reliable"
      <4>1. \A i \in 1 .. Done(p) : p.delivered["reliable"][i] = i
        BY LineOrders DEF Ordered
      <4> QED
        BY <3>2, <4>1 DEF Done
    <3> QED
      BY <3>1, <3>2 DEF Channels
  <2> HIDE DEF d
  <2>3. 0 \notin Range(d)
    BY <2>1, <2>2 DEF Range
  <2> QED
    BY <2>3 DEF d
<1> QED
  BY <1>2, <1>3, <1>4

\* What the wire says is read as it was written (_nya_net_udp_handle_packet,
\* _nya_net_udp_reassemble): every packet is acted on once, under the counter it was
\* sealed with, and what is put together of fragments is one message whole, within its
\* budget, when partial messages are let go before their ids come round again.
THEOREM WireHonestAlways == ASSUME Roomy PROVE NetSpec /\ []Prompt => []WireHonest
<1>1. NetInit => LineInv
  BY LineInit
<1>2. LineInv /\ [NetNext]_conn => LineInv'
  BY LineStep
<1>3. PartsInv /\ LineInv /\ Prompt => SlotsUnmixed
  BY PartsUnmixed
<1>4. NetSpec => [](ReplayFree /\ NearestOpens /\ BytesHonest)
  BY PacketsOpenOnce
<1>5. ReplayFree /\ NearestOpens /\ BytesHonest /\ SlotsUnmixed => WireHonest
  BY DEF WireHonest
<1> QED
  BY <1>1, <1>2, <1>3, <1>4, <1>5, OpenInit, OpenStep, PartsInit, PartsStep, PTL DEF NetSpec

=============================================================================
