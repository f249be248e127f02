------------------------- MODULE ReplicationProofs -------------------------
(***************************************************************************)
(* What holds of the replicated world for every table of entities, ring    *)
(* and loss; and of its commands and the client's prediction, for every    *)
(* number of players, ring of commands and prediction, and loss.           *)
(***************************************************************************)
EXTENDS Snapshots, Prediction, FiniteSetTheorems, SequenceTheorems,
        WellFoundedInduction, TLAPS

-----------------------------------------------------------------------------

\* Induction up to N, over the set of the numbers a claim holds of.
LEMMA UpTo ==
    ASSUME NEW N \in Nat, NEW G, 0 \in G, \A n \in 0 .. N - 1 : n \in G => n + 1 \in G
    PROVE  \A n \in 0 .. N : n \in G
<1> DEFINE Out == {n \in 0 .. N : n \notin G}
           R == OpToRel(<, Nat)
<1>1. IsWellFoundedOn(R, Nat)
  BY NatLessThanWellFounded
<1>2. \A x, y \in Nat : <<y, x>> \in R <=> y < x
  BY DEF OpToRel
<1> SUFFICES ASSUME Out # {} PROVE FALSE
  OBVIOUS
<1> HIDE DEF R
<1>3. Out \in SUBSET Nat
  OBVIOUS
<1> HIDE DEF Out
<1>4. PICK x \in Out : \A y \in Out : ~ (<<y, x>> \in R)
  BY <1>1, <1>3, WFMin
<1>5. \A y \in Out : x \in Nat /\ y \in Nat /\ ~ (y < x)
  BY <1>2, <1>3, <1>4, Zenon
<1>6. x \in 1 .. N /\ x \notin G
  BY <1>4, <1>5 DEF Out
<1>7. x - 1 \in 0 .. N - 1 /\ x - 1 \notin Out
  BY <1>5, <1>6
<1> QED
  BY <1>6, <1>7 DEF Out

-----------------------------------------------------------------------------
(***************************************************************************)
(* The replicated world: what the server sent and the client decoded.  A   *)
(* delta can be read because a baseline that both ends name is one the     *)
(* client still holds: the server's ring holds it only while nothing later *)
(* was sent in its slot, and then nothing later can have been decoded      *)
(* there.                                                                  *)
(***************************************************************************)
Entity == [generation : Nat, value : Int]
Snapshot == UNION {[S -> Entity] : S \in SUBSET Indices}
Ring == [0 .. SnapshotHistory - 1 -> [tick : Nat, entities : Snapshot]]
Actor == [generation : Nat, value : Int, lives : BOOLEAN]
Change == [new : BOOLEAN, generation : Nat, value : Int]
Changes == UNION {[S -> Change] : S \in SUBSET Indices}
Delta == [tick : Nat, base : Nat, removed : SUBSET Indices, changed : Changes]

ServerTyped ==
    /\ world \in [Indices -> Actor] /\ tick \in Nat /\ acknowledged \in Nat
    /\ told \in Ring /\ own \in Indices \X Nat

WireTyped ==
    /\ wire \subseteq Delta /\ acks \subseteq Nat /\ shown \in Nat /\ decoded \in Ring
    /\ DOMAIN meant \subseteq Nat \ {0} /\ meant \in [DOMAIN meant -> Snapshot]

\* Whose slot a snapshot is in, and who is ahead of whom.
Ordered ==
    /\ shown <= tick /\ acknowledged <= shown
    /\ \A a \in acks : a <= shown
    /\ \A m \in wire : shown < m.tick /\ m.tick <= tick /\ m.tick <= told[Slot(m.tick)].tick
    /\ \A s \in 0 .. SnapshotHistory - 1 :
           /\ told[s].tick <= tick /\ decoded[s].tick <= shown
           /\ decoded[s].tick <= told[s].tick
           /\ told[s].tick # 0 => Slot(told[s].tick) = s
           /\ decoded[s].tick # 0 => Slot(decoded[s].tick) = s
    /\ \A a \in acks \cup {acknowledged, shown} : a <= decoded[Slot(a)].tick

\* Each is what the server meant.
Remembering ==
    /\ \A m \in wire : m.tick \in DOMAIN meant
    /\ \A s \in 0 .. SnapshotHistory - 1 :
           /\ decoded[s].tick # 0 => /\ decoded[s].tick \in DOMAIN meant
                                     /\ decoded[s].entities = meant[decoded[s].tick]
           /\ told[s].tick \in DOMAIN meant => told[s].entities = meant[told[s].tick]

\* Each delta is one against a baseline the client has, and keeps until it reads it.
Against(m) ==
    /\ m = Encode(m.tick, meant[m.tick], ReadBase(m), m.base)
    /\ m.base # 0 => /\ decoded[Slot(m.base)].tick = m.base
                     /\ \A x \in wire : ~ (m.base < x.tick /\ x.tick < m.tick
                                             /\ Slot(x.tick) = Slot(m.base))

DeltaInv ==
    ServerTyped /\ WireTyped /\ Ordered /\ Remembering /\ \A m \in wire : Against(m)


\* A snapshot is a function on some of the indices.
LEMMA SnapshotIs ==
    ASSUME NEW e
    PROVE  e \in Snapshot <=> DOMAIN e \in SUBSET Indices /\ e \in [DOMAIN e -> Entity]
<1>1. ASSUME e \in Snapshot
      PROVE  DOMAIN e \in SUBSET Indices /\ e \in [DOMAIN e -> Entity]
  <2>1. PICK S \in SUBSET Indices : e \in [S -> Entity]
    BY <1>1 DEF Snapshot
  <2> QED
    BY <2>1
<1>2. ASSUME DOMAIN e \in SUBSET Indices, e \in [DOMAIN e -> Entity]
      PROVE  e \in Snapshot
  BY <1>2 DEF Snapshot
<1> QED
  BY <1>1, <1>2

\* There is a snapshot of nothing, and rings of it.
LEMMA NothingIs ==
    /\ Nothing \in Snapshot /\ DOMAIN Nothing = {}
    /\ Empty \in Ring /\ \A s \in 0 .. SnapshotHistory - 1 : Empty[s].tick = 0
    /\ \A T : Nothing \in [{} -> T]
<1>1. DOMAIN Nothing = {} /\ Nothing = [i \in {} |-> i]
  <2>1. DOMAIN Nothing = 1 .. 0 /\ 1 .. 0 = {}
    BY EmptySeq, LenProperties DEF Nothing
  <2> QED
    BY <2>1 DEF Nothing
<1>2. Nothing \in Snapshot
  BY <1>1, SnapshotIs
<1> QED
  BY <1>1, <1>2 DEF Empty, Ring

\* A slot of the rings.
LEMMA SlotIs ==
    ASSUME NEW t \in Nat
    PROVE  Slot(t) \in 0 .. SnapshotHistory - 1
<1>1. SnapshotHistory \in Nat \ {0}
  BY SnapshotAssumption
<1> QED
  BY <1>1 DEF Slot

\* A delta has its parts.
LEMMA EncodeIs ==
    ASSUME NEW t \in Nat, NEW bt \in Nat, NEW e \in Snapshot, NEW b \in Snapshot
    PROVE  Encode(t, e, b, bt) \in Delta /\ Encode(t, e, b, bt).tick = t
           /\ Encode(t, e, b, bt).base = bt
<1> DEFINE Same(i) == i \in DOMAIN b /\ b[i].generation = e[i].generation
           Stays(i) == Same(i) /\ b[i].value = e[i].value
           D == {i \in DOMAIN e : ~ Stays(i)}
           c(i) == IF Same(i) THEN [new |-> FALSE, generation |-> 0, value |-> e[i].value - b[i].value]
                   ELSE [new |-> TRUE, generation |-> e[i].generation, value |-> e[i].value]
           ch == [i \in D |-> c(i)]
           r == DOMAIN b \ DOMAIN e
<1>1. /\ DOMAIN e \in SUBSET Indices /\ e \in [DOMAIN e -> Entity]
      /\ DOMAIN b \in SUBSET Indices /\ b \in [DOMAIN b -> Entity]
  BY SnapshotIs
<1>2. Encode(t, e, b, bt) = [tick |-> t, base |-> bt, removed |-> r, changed |-> ch]
  BY DEF Encode
<1>3. ASSUME NEW i \in D
      PROVE  c(i) \in Change
  <2>1. e[i] \in Entity
    BY <1>1
  <2>2. CASE Same(i)
    <3>1. b[i] \in Entity
      BY <1>1, <2>2
    <3>2. e[i].value - b[i].value \in Int
      BY <2>1, <3>1 DEF Entity
    <3> QED
      BY <2>2, <3>2 DEF Change
  <2>3. CASE ~ Same(i)
    BY <2>1, <2>3 DEF Change, Entity
  <2> QED
    BY <2>2, <2>3
<1>4. D \in SUBSET Indices /\ r \in SUBSET Indices
  BY <1>1
<1> HIDE DEF D, c, r
<1>5. ch \in [D -> Change]
  BY <1>3
<1>6. ch \in Changes
  BY <1>4, <1>5 DEF Changes
<1> HIDE DEF ch
<1> QED
  BY <1>2, <1>4, <1>6 DEF Delta

\* What is decoded against the baseline it was encoded against is what was encoded.
LEMMA DecodesBack ==
    ASSUME NEW t, NEW bt, NEW e \in Snapshot, NEW b \in Snapshot
    PROVE  LET m == Encode(t, e, b, bt)
           IN  Readable(m, b) /\ Decode(m, b) = e
<1> DEFINE m == Encode(t, e, b, bt)
           Same(i) == i \in DOMAIN b /\ b[i].generation = e[i].generation
           Stays(i) == Same(i) /\ b[i].value = e[i].value
           D == {i \in DOMAIN e : ~ Stays(i)}
           c(i) == IF Same(i) THEN [new |-> FALSE, generation |-> 0, value |-> e[i].value - b[i].value]
                   ELSE [new |-> TRUE, generation |-> e[i].generation, value |-> e[i].value]
           r == DOMAIN b \ DOMAIN e
<1>1. /\ DOMAIN e \in SUBSET Indices /\ e \in [DOMAIN e -> Entity]
      /\ DOMAIN b \in SUBSET Indices /\ b \in [DOMAIN b -> Entity]
  BY SnapshotIs
<1>2. m.removed = r /\ m.changed = [i \in D |-> c(i)]
  BY DEF Encode
<1>3. DOMAIN m.changed = D /\ \A i \in D : m.changed[i] = c(i)
  BY <1>2
<1>4. \A i \in D : c(i).new \/ i \in DOMAIN b
  OBVIOUS
<1>5. Cardinality(r) <= Cardinality(DOMAIN b)
  <2>1. IsFiniteSet(DOMAIN b)
    BY <1>1, SnapshotAssumption, FS_Subset
  <2> QED
    BY <2>1, FS_Subset
<1>6. r \cap D \cap DOMAIN b = {}
  OBVIOUS
<1>7. (DOMAIN b \ r) \cup D = DOMAIN e
  OBVIOUS
<1>8. ASSUME NEW i \in DOMAIN e
      PROVE  (IF i \notin D THEN b[i]
              ELSE IF c(i).new THEN [generation |-> c(i).generation, value |-> c(i).value]
              ELSE [b[i] EXCEPT !.value = @ + c(i).value]) = e[i]
  <2>1. e[i] \in Entity
    BY <1>1
  <2>2. CASE i \notin D
    <3>1. Stays(i)
      BY <2>2
    <3>2. b[i] \in Entity
      BY <1>1, <3>1
    <3> QED
      BY <2>1, <2>2, <3>1, <3>2 DEF Entity
  <2>3. CASE i \in D /\ Same(i)
    <3>1. b[i] \in Entity
      BY <1>1, <2>3
    <3>2. c(i) = [new |-> FALSE, generation |-> 0, value |-> e[i].value - b[i].value]
      BY <2>3
    <3>3. b[i].value + (e[i].value - b[i].value) = e[i].value
      BY <2>1, <3>1 DEF Entity
    <3>4. [b[i] EXCEPT !.value = @ + c(i).value] = e[i]
      BY <2>1, <2>3, <3>1, <3>2, <3>3 DEF Entity
    <3> QED
      BY <2>3, <3>2, <3>4
  <2>4. CASE i \in D /\ ~ Same(i)
    <3>1. c(i) = [new |-> TRUE, generation |-> e[i].generation, value |-> e[i].value]
      BY <2>4
    <3> QED
      BY <2>1, <2>4, <3>1 DEF Entity
  <2> QED
    BY <2>2, <2>3, <2>4
<1> HIDE DEF m, D, r, c
<1>9. Readable(m, b)
  BY <1>2, <1>3, <1>4, <1>5, <1>6 DEF Readable
<1>10. Decode(m, b) = [i \in DOMAIN e |-> e[i]]
  <2>1. Decode(m, b) = [i \in (DOMAIN b \ r) \cup D |->
                           IF i \notin D THEN b[i]
                           ELSE IF m.changed[i].new
                           THEN [generation |-> m.changed[i].generation, value |-> m.changed[i].value]
                           ELSE [b[i] EXCEPT !.value = @ + m.changed[i].value]]
    BY <1>2, <1>3 DEF Decode
  <2>2. \A i \in DOMAIN e :
            (IF i \notin D THEN b[i]
             ELSE IF m.changed[i].new
             THEN [generation |-> m.changed[i].generation, value |-> m.changed[i].value]
             ELSE [b[i] EXCEPT !.value = @ + m.changed[i].value]) = e[i]
    BY <1>3, <1>8
  <2> QED
    BY <1>7, <2>1, <2>2
<1>11. Decode(m, b) = e
  BY <1>1, <1>10
<1> QED
  BY <1>9, <1>11 DEF m


\* The worlds the server goes through are worlds, and what it captures is a snapshot.
LEMMA EvolvesTyped ==
    ASSUME NEW w \in [Indices -> Actor], NEW x \in Evolves(w)
    PROVE  x \in [Indices -> Actor]
<1>0. Busy \subseteq Indices /\ Values \subseteq Int
  BY SnapshotAssumption
<1>1. CASE x = w
  BY <1>1
<1>2. ASSUME NEW i \in {i \in Busy : w[i].lives}, NEW v \in Values, x = [w EXCEPT ![i].value = v]
      PROVE  x \in [Indices -> Actor]
  BY <1>0, <1>2 DEF Actor
<1>3. ASSUME NEW i \in Indices, x = [w EXCEPT ![i].lives = FALSE]
      PROVE  x \in [Indices -> Actor]
  BY <1>3 DEF Actor
<1>4. ASSUME NEW i \in {i \in Busy : w[i].generation < MaxGeneration}, NEW v \in Values,
             x = [w EXCEPT ![i] = [generation |-> @.generation + 1, value |-> v, lives |-> TRUE]]
      PROVE  x \in [Indices -> Actor]
  <2>1. [generation |-> w[i].generation + 1, value |-> v, lives |-> TRUE] \in Actor
    BY <1>0 DEF Actor
  <2> QED
    BY <1>0, <1>4, <2>1
<1> QED
  BY <1>1, <1>2, <1>3, <1>4 DEF Evolves

\* What is captured of a world, and kept of it, is a snapshot.
LEMMA CapturedIs ==
    ASSUME NEW w \in [Indices -> Actor], NEW e \in Relevant(Captured(w))
    PROVE  e \in Snapshot
<1> DEFINE L == {i \in Indices : w[i].lives}
           c == Captured(w)
<1>1. DOMAIN c = L /\ \A i \in L : c[i] = [generation |-> w[i].generation, value |-> w[i].value]
  BY DEF Captured
<1>2. ASSUME NEW i \in L
      PROVE  c[i] \in Entity
  <2>1. w[i] \in Actor /\ c[i] = [generation |-> w[i].generation, value |-> w[i].value]
    BY <1>1
  <2>2. w[i].generation \in Nat /\ w[i].value \in Int
    BY <2>1 DEF Actor
  <2> HIDE DEF c, L
  <2> QED
    BY <2>1, <2>2 DEF Entity
<1> HIDE DEF c
<1>3. PICK kept \in SUBSET DOMAIN c : e = [i \in kept |-> c[i]]
  BY DEF Relevant, c
<1>4. kept \in SUBSET Indices /\ e \in [kept -> Entity]
  BY <1>1, <1>2, <1>3
<1> QED
  BY <1>4 DEF Snapshot

\* The baselines of either end are snapshots.
LEMMA BaselinesAre ==
    ASSUME ServerTyped, WireTyped
    PROVE  /\ Baseline \in Snapshot /\ BaselineTick \in Nat
           /\ \A m \in Delta : ReadBase(m) \in Snapshot
<1>1. \A t \in Nat : told[Slot(t)].entities \in Snapshot /\ decoded[Slot(t)].entities \in Snapshot
  BY SlotIs DEF ServerTyped, WireTyped, Ring
<1> QED
  BY <1>1, NothingIs DEF Baseline, BaselineTick, ReadBase, ServerTyped, Delta

\* A ring takes a snapshot in its slot.
RingWith(r, t, e) == [r EXCEPT ![Slot(t)] = [tick |-> t, entities |-> e]]

\* Taking it leaves the other slots alone.
LEMMA RingTakes ==
    ASSUME NEW r \in Ring, NEW t \in Nat, NEW e \in Snapshot
    PROVE  /\ RingWith(r, t, e) \in Ring
           /\ RingWith(r, t, e)[Slot(t)].tick = t
           /\ RingWith(r, t, e)[Slot(t)].entities = e
           /\ \A s \in 0 .. SnapshotHistory - 1 : s # Slot(t) => RingWith(r, t, e)[s] = r[s]
<1>1. Slot(t) \in 0 .. SnapshotHistory - 1
  BY SlotIs
<1> QED
  BY <1>1 DEF Ring, RingWith

\* The first state knows of no snapshot.
LEMMA DeltaInit ==
    SnapshotsInit => DeltaInv
<1> SUFFICES ASSUME SnapshotsInit
             PROVE  DeltaInv
  OBVIOUS
<1>1. ServerTyped
  <2>1. world \in [Indices -> Actor]
    <3>1. PICK v \in Values : world = [i \in Indices |-> [generation |-> 1, value |-> v, lives |-> TRUE]]
      BY DEF SnapshotsInit
    <3>2. [generation |-> 1, value |-> v, lives |-> TRUE] \in Actor
      BY SnapshotAssumption DEF Actor
    <3> QED
      BY <3>1, <3>2
  <2>2. own \in Indices \X Nat
    BY SnapshotAssumption DEF SnapshotsInit
  <2> QED
    BY <2>1, <2>2, NothingIs DEF ServerTyped, SnapshotsInit
<1>2. DOMAIN meant = {} /\ wire = {} /\ acks = {} /\ decoded = Empty /\ told = Empty
      /\ shown = 0 /\ acknowledged = 0 /\ tick = 0 /\ meant \in [{} -> Snapshot]
  BY NothingIs DEF SnapshotsInit
<1>3. WireTyped
  BY <1>2, NothingIs DEF WireTyped
<1>4. Ordered
  BY <1>2, NothingIs, SlotIs DEF Ordered
<1>5. Remembering
  BY <1>2, NothingIs DEF Remembering
<1> QED
  BY <1>1, <1>2, <1>3, <1>4, <1>5 DEF DeltaInv


\* A snapshot is sent against what the client has, and is told as it was meant.
LEMMA SendKeeps ==
    ASSUME DeltaInv, NEW w \in Evolves(world), NEW e \in Relevant(Captured(w)),
           tick' = tick + 1, world' = w, SendSnapshot(e),
           UNCHANGED <<acknowledged, own, acks, shown, decoded>>
    PROVE  DeltaInv'
<1>t. PICK t : t = tick + 1
  OBVIOUS
<1>n. PICK n : n = Encode(t, e, Baseline, BaselineTick)
  OBVIOUS
<1>0. ServerTyped /\ WireTyped /\ Ordered /\ Remembering /\ \A m \in wire : Against(m)
  BY DEF DeltaInv
<1>1. w \in [Indices -> Actor] /\ e \in Snapshot
  BY <1>0, EvolvesTyped, CapturedIs DEF ServerTyped
<1>2. t \in Nat \ {0} /\ tick < t /\ tick \in Nat
  BY <1>0, <1>t DEF ServerTyped
<1>3. /\ tick' = t /\ wire' = wire \cup {n}
      /\ told' = [told EXCEPT ![Slot(t)] = [tick |-> t, entities |-> e]]
      /\ meant' = [x \in DOMAIN meant \cup {t} |-> IF x = t THEN e ELSE meant[x]]
      /\ acknowledged' = acknowledged /\ shown' = shown /\ decoded' = decoded /\ acks' = acks
      /\ own' = own /\ world' = w
  BY <1>n, <1>t DEF SendSnapshot
<1>4. Baseline \in Snapshot /\ BaselineTick \in Nat /\ \A m \in Delta : ReadBase(m) \in Snapshot
  BY <1>0, BaselinesAre
<1>5. n \in Delta /\ n.tick = t /\ n.base = BaselineTick
  <2>1. t \in Nat /\ BaselineTick \in Nat /\ e \in Snapshot /\ Baseline \in Snapshot
    BY <1>1, <1>2, <1>4
  <2>2. Encode(t, e, Baseline, BaselineTick) \in Delta
        /\ Encode(t, e, Baseline, BaselineTick).tick = t
        /\ Encode(t, e, Baseline, BaselineTick).base = BaselineTick
    BY ONLY <2>1, EncodeIs
  <2> QED
    BY <1>n, <2>2
<1>6. /\ told' \in Ring
      /\ told'[Slot(t)].tick = t /\ told'[Slot(t)].entities = e
      /\ \A s \in 0 .. SnapshotHistory - 1 : s # Slot(t) => told'[s] = told[s]
  <2>1. told \in Ring /\ t \in Nat
    BY <1>0, <1>2 DEF ServerTyped
  <2>2. told' = RingWith(told, t, e)
    BY <1>3 DEF RingWith
  <2> QED
    BY <1>1, <2>1, <2>2, RingTakes
<1>7. /\ DOMAIN meant' = DOMAIN meant \cup {t} /\ meant'[t] = e
      /\ \A x \in DOMAIN meant : x # t => meant'[x] = meant[x]
      /\ meant' \in [DOMAIN meant' -> Snapshot]
  BY <1>0, <1>1, <1>3 DEF WireTyped
<1>8. ServerTyped'
  BY <1>0, <1>1, <1>2, <1>3, <1>6 DEF ServerTyped
<1>9. WireTyped'
  BY <1>0, <1>2, <1>3, <1>5, <1>7 DEF WireTyped
<1>10. \A s \in 0 .. SnapshotHistory - 1 : told[s].tick \in Nat /\ decoded[s].tick \in Nat
  BY <1>0 DEF ServerTyped, WireTyped, Ring
<1>11. \A m \in wire : m.tick \in Nat /\ m.tick <= tick /\ shown < m.tick /\ m.tick <= told[Slot(m.tick)].tick
  BY <1>0 DEF Ordered, WireTyped, Delta
<1>12. Ordered'
  <2>1. shown' <= tick' /\ acknowledged' <= shown' /\ \A a \in acks' : a <= shown'
    BY <1>0, <1>2, <1>3 DEF Ordered, ServerTyped, WireTyped
  <2>2. \A m \in wire' : shown' < m.tick /\ m.tick <= tick' /\ m.tick <= told'[Slot(m.tick)].tick
    <3>1. ASSUME NEW m \in wire
          PROVE  shown' < m.tick /\ m.tick <= tick' /\ m.tick <= told'[Slot(m.tick)].tick
      <4>1. Slot(m.tick) \in 0 .. SnapshotHistory - 1
        BY <1>11, SlotIs
      <4>2. m.tick <= told'[Slot(m.tick)].tick
        BY <1>2, <1>6, <1>11, <4>1
      <4> QED
        BY <1>2, <1>3, <1>11, <4>2
    <3>2. shown < t
      BY <1>0, <1>2 DEF Ordered, WireTyped
    <3> QED
      BY <1>2, <1>3, <1>5, <1>6, <3>1, <3>2
  <2>3. ASSUME NEW s \in 0 .. SnapshotHistory - 1
        PROVE  /\ told'[s].tick <= tick' /\ decoded'[s].tick <= shown'
               /\ decoded'[s].tick <= told'[s].tick
               /\ told'[s].tick # 0 => Slot(told'[s].tick) = s
               /\ decoded'[s].tick # 0 => Slot(decoded'[s].tick) = s
    <3>1. /\ told[s].tick <= tick /\ decoded[s].tick <= shown /\ shown <= tick
          /\ decoded[s].tick <= told[s].tick
          /\ told[s].tick # 0 => Slot(told[s].tick) = s
          /\ decoded[s].tick # 0 => Slot(decoded[s].tick) = s
      BY <1>0 DEF Ordered
    <3>2. shown \in Nat
      BY <1>0 DEF WireTyped
    <3> QED
      BY <1>2, <1>3, <1>6, <1>10, <3>1, <3>2
  <2>4. \A a \in acks' \cup {acknowledged', shown'} : a <= decoded'[Slot(a)].tick
    BY <1>0, <1>3 DEF Ordered
  <2> QED
    BY <2>1, <2>2, <2>3, <2>4 DEF Ordered
<1>13. Remembering'
  <2>1. \A m \in wire' : m.tick \in DOMAIN meant'
    BY <1>0, <1>3, <1>5, <1>7 DEF Remembering
  <2>2. ASSUME NEW s \in 0 .. SnapshotHistory - 1
        PROVE  /\ decoded'[s].tick # 0 => /\ decoded'[s].tick \in DOMAIN meant'
                                          /\ decoded'[s].entities = meant'[decoded'[s].tick]
               /\ told'[s].tick \in DOMAIN meant' => told'[s].entities = meant'[told'[s].tick]
    <3>1. /\ decoded[s].tick # 0 => /\ decoded[s].tick \in DOMAIN meant
                                    /\ decoded[s].entities = meant[decoded[s].tick]
          /\ told[s].tick \in DOMAIN meant => told[s].entities = meant[told[s].tick]
      BY <1>0 DEF Remembering
    <3>2. decoded[s].tick <= tick /\ told[s].tick <= tick
      BY <1>0, <1>2, <1>10 DEF Ordered, WireTyped
    <3>3. decoded[s].tick # t /\ told[s].tick # t
      BY <1>2, <1>10, <3>2
    <3> QED
      BY <1>3, <1>6, <1>7, <3>1, <3>3
  <2> QED
    BY <2>1, <2>2 DEF Remembering
<1>14. ASSUME NEW m \in wire
       PROVE  Against(m)'
  <2>1. m = Encode(m.tick, meant[m.tick], ReadBase(m), m.base)
        /\ (m.base # 0 => /\ decoded[Slot(m.base)].tick = m.base
                          /\ \A x \in wire : ~ (m.base < x.tick /\ x.tick < m.tick
                                                 /\ Slot(x.tick) = Slot(m.base)))
    BY <1>0 DEF Against
  <2>2. m.tick \in DOMAIN meant /\ m.tick # t /\ m.tick < t
    BY <1>0, <1>2, <1>11 DEF Remembering
  <2>3. meant'[m.tick] = meant[m.tick] /\ ReadBase(m)' = ReadBase(m)
    BY <1>3, <1>7, <2>2 DEF ReadBase
  <2>4. m = Encode(m.tick, meant[m.tick], ReadBase(m), m.base)'
    BY <2>1, <2>3 DEF Encode
  <2>5. ~ (n.tick < m.tick)
    BY <1>2, <1>5, <1>11, <2>2
  <2>6. m.base # 0 => /\ decoded'[Slot(m.base)].tick = m.base
                      /\ \A x \in wire' : ~ (m.base < x.tick /\ x.tick < m.tick
                                                 /\ Slot(x.tick) = Slot(m.base))
    BY <1>3, <2>1, <2>5
  <2> QED
    BY <2>4, <2>6 DEF Against
<1>15. Against(n)'
  <2>1. CASE ~ Held(told, acknowledged)
    <3>1. n.base = 0 /\ Baseline = Nothing
      BY <1>5, <2>1 DEF Baseline, BaselineTick
    <3>2. ReadBase(n)' = Nothing
      BY <3>1 DEF ReadBase
    <3>3. n = Encode(t, e, Nothing, 0)
      BY <1>5, <1>n, <3>1
    <3>4. n = Encode(n.tick, meant[n.tick], ReadBase(n), n.base)'
      BY <1>5, <1>7, <3>1, <3>2, <3>3 DEF Encode
    <3> QED
      BY <3>1, <3>4 DEF Against
  <2>2. CASE Held(told, acknowledged)
    <3> DEFINE a == acknowledged
    <3>1. told[Slot(a)].tick = a /\ a # 0 /\ a \in Nat /\ Slot(a) \in 0 .. SnapshotHistory - 1
      BY <1>0, <2>2, SlotIs DEF Held, ServerTyped
    <3>2. n.base = a /\ Baseline = told[Slot(a)].entities
      BY <1>5, <2>2 DEF Baseline, BaselineTick
    <3>3. a <= decoded[Slot(a)].tick /\ decoded[Slot(a)].tick <= told[Slot(a)].tick
      BY <1>0, <3>1 DEF Ordered
    <3>4. decoded[Slot(a)].tick = a
      BY <1>10, <3>1, <3>3
    <3>5. a \in DOMAIN meant /\ decoded[Slot(a)].entities = meant[a]
      BY <1>0, <3>1, <3>4 DEF Remembering
    <3>6. told[Slot(a)].entities = meant[a]
      BY <1>0, <3>1, <3>5 DEF Remembering
    <3>7. ReadBase(n)' = Baseline
      BY <1>3, <3>1, <3>2, <3>5, <3>6 DEF ReadBase
    <3>8. n = Encode(t, e, Baseline, a)
      BY <1>5, <1>n, <3>2
    <3>9. n = Encode(n.tick, meant[n.tick], ReadBase(n), n.base)'
      BY <1>5, <1>7, <3>2, <3>7, <3>8 DEF Encode
    <3>10. ASSUME NEW x \in wire', a < x.tick, x.tick < t, Slot(x.tick) = Slot(a)
           PROVE  FALSE
      <4>1. x \in wire
        BY <1>2, <1>3, <1>5, <3>10
      <4>2. x.tick <= told[Slot(a)].tick
        BY <1>11, <3>10, <4>1
      <4> QED
        BY <1>11, <3>1, <3>10, <4>1, <4>2
    <3> QED
      BY <1>3, <1>5, <3>2, <3>4, <3>9, <3>10 DEF Against
  <2> QED
    BY <2>1, <2>2
<1>16. \A m \in wire' : Against(m)'
  BY <1>3, <1>14, <1>15
<1> QED
  BY <1>8, <1>9, <1>12, <1>13, <1>16 DEF DeltaInv


\* What a client reads off the wire is what the server meant.
LEMMA ReadsWhatWasMeant ==
    ASSUME DeltaInv, NEW m \in wire
    PROVE  /\ CanRead(m) /\ Readable(m, ReadBase(m)) /\ Decode(m, ReadBase(m)) = meant[m.tick]
           /\ m.tick \in DOMAIN meant /\ meant[m.tick] \in Snapshot
<1>0. ServerTyped /\ WireTyped /\ Remembering /\ Against(m) /\ m \in Delta
  BY DEF DeltaInv, WireTyped
<1>1. m.tick \in DOMAIN meant /\ meant[m.tick] \in Snapshot
  BY <1>0 DEF Remembering, WireTyped
<1>2. ReadBase(m) \in Snapshot
  BY <1>0, BaselinesAre
<1>3. m = Encode(m.tick, meant[m.tick], ReadBase(m), m.base)
  BY <1>0 DEF Against
<1>4. CanRead(m)
  BY <1>0 DEF Against, CanRead, Held
<1> DEFINE e == meant[m.tick]
           b == ReadBase(m)
           x == Encode(m.tick, e, b, m.base)
<1>5. m = x /\ e \in Snapshot /\ b \in Snapshot
  BY <1>1, <1>2, <1>3
<1> HIDE DEF e, b
<1>6. Readable(x, b) /\ Decode(x, b) = e
  BY ONLY <1>5, DecodesBack
<1> HIDE DEF x
<1>7. Readable(m, b) /\ Decode(m, b) = e
  BY ONLY <1>5, <1>6
<1> QED
  BY <1>1, <1>4, <1>7 DEF e, b

\* A client that reads one keeps the baselines of those it has yet to read.
LEMMA ReadKeeps ==
    ASSUME DeltaInv, NEW m \in wire, TakeSnapshot(m)
    PROVE  DeltaInv'
<1>0. ServerTyped /\ WireTyped /\ Ordered /\ Remembering /\ \A x \in wire : Against(x)
  BY DEF DeltaInv
<1>t. PICK t : t = m.tick
  OBVIOUS
<1>e. PICK e : e = meant[t]
  OBVIOUS
<1>1. /\ t \in DOMAIN meant /\ e \in Snapshot /\ Decode(m, ReadBase(m)) = e
  BY <1>t, <1>e, ReadsWhatWasMeant
<1>2. /\ t \in Nat \ {0} /\ shown < t /\ t <= tick /\ t <= told[Slot(t)].tick
      /\ shown \in Nat /\ tick \in Nat /\ acknowledged \in Nat
  BY <1>0, <1>1, <1>t DEF Ordered, WireTyped, ServerTyped
<1>3. /\ shown' = t /\ wire' = {x \in wire : x.tick > t}
      /\ decoded' = [decoded EXCEPT ![Slot(t)] = [tick |-> t, entities |-> e]]
      /\ meant' = Remembered(meant, wire', decoded')
      /\ acknowledged' = acknowledged /\ told' = told /\ acks' = acks
      /\ own' = own /\ world' = world /\ tick' = tick
  BY <1>1, <1>t DEF TakeSnapshot, serverVars
<1>4. /\ decoded' \in Ring
      /\ decoded'[Slot(t)].tick = t /\ decoded'[Slot(t)].entities = e
      /\ \A s \in 0 .. SnapshotHistory - 1 : s # Slot(t) => decoded'[s] = decoded[s]
  <2>1. decoded \in Ring /\ t \in Nat
    BY <1>0, <1>2 DEF WireTyped
  <2>2. decoded' = RingWith(decoded, t, e)
    BY <1>3 DEF RingWith
  <2> QED
    BY <1>1, <2>1, <2>2, RingTakes
<1>5. DOMAIN decoded' = 0 .. SnapshotHistory - 1
  BY <1>4 DEF Ring
<1>6. /\ \A x \in DOMAIN meant' : x \in DOMAIN meant /\ meant'[x] = meant[x]
      /\ \A x \in wire' : x.tick \in DOMAIN meant => x.tick \in DOMAIN meant'
      /\ \A s \in 0 .. SnapshotHistory - 1 :
             decoded'[s].tick \in DOMAIN meant => decoded'[s].tick \in DOMAIN meant'
      /\ meant' \in [DOMAIN meant' -> Snapshot] /\ DOMAIN meant' \subseteq Nat \ {0}
  <2> DEFINE T == {x.tick : x \in wire'} \cup {decoded'[s].tick : s \in DOMAIN decoded'}
  <2>1. meant' = [x \in DOMAIN meant \cap T |-> meant[x]]
    BY <1>3 DEF Remembered
  <2>2. /\ \A x \in wire' : x.tick \in T
        /\ \A s \in 0 .. SnapshotHistory - 1 : decoded'[s].tick \in T
    BY <1>5
  <2> HIDE DEF T
  <2>3. meant \in [DOMAIN meant -> Snapshot] /\ DOMAIN meant \subseteq Nat \ {0}
    BY <1>0 DEF WireTyped
  <2> QED
    BY <2>1, <2>2, <2>3
<1>7. ServerTyped'
  BY <1>0, <1>3 DEF ServerTyped
<1>8. WireTyped'
  BY <1>0, <1>2, <1>3, <1>4, <1>6 DEF WireTyped
<1>9. \A s \in 0 .. SnapshotHistory - 1 : told[s].tick \in Nat /\ decoded[s].tick \in Nat
  BY <1>0 DEF ServerTyped, WireTyped, Ring
<1>10. \A x \in wire : x.tick \in Nat /\ x.tick <= tick /\ x.tick <= told[Slot(x.tick)].tick
                       /\ x.base \in Nat /\ x.tick \in DOMAIN meant
  BY <1>0 DEF Ordered, WireTyped, Delta, Remembering
<1>11. \A s \in 0 .. SnapshotHistory - 1 :
            /\ told[s].tick <= tick /\ decoded[s].tick <= shown
            /\ decoded[s].tick <= told[s].tick
            /\ told[s].tick # 0 => Slot(told[s].tick) = s
            /\ decoded[s].tick # 0 => Slot(decoded[s].tick) = s
  BY <1>0 DEF Ordered
<1>12. Ordered'
  <2>1. shown' <= tick' /\ acknowledged' <= shown'
    BY <1>0, <1>2, <1>3 DEF Ordered
  <2>2. \A a \in acks' : a \in Nat /\ a <= shown /\ a <= shown'
    BY <1>0, <1>2, <1>3 DEF Ordered, WireTyped
  <2>3. \A x \in wire' : shown' < x.tick /\ x.tick <= tick' /\ x.tick <= told'[Slot(x.tick)].tick
    BY <1>2, <1>3, <1>10
  <2>4. ASSUME NEW s \in 0 .. SnapshotHistory - 1
        PROVE  /\ told'[s].tick <= tick' /\ decoded'[s].tick <= shown'
               /\ decoded'[s].tick <= told'[s].tick
               /\ told'[s].tick # 0 => Slot(told'[s].tick) = s
               /\ decoded'[s].tick # 0 => Slot(decoded'[s].tick) = s
    <3>1. CASE s = Slot(t)
      BY <1>2, <1>3, <1>4, <1>11, <3>1
    <3>2. CASE s # Slot(t)
      BY <1>2, <1>3, <1>4, <1>9, <1>11, <3>2
    <3> QED
      BY <3>1, <3>2
  <2>5. ASSUME NEW a \in acks' \cup {acknowledged', shown'}
        PROVE  a <= decoded'[Slot(a)].tick
    <3>1. CASE a = t
      BY <1>2, <1>4, <3>1
    <3>2. CASE a # t
      <4>1. a \in acks \cup {acknowledged} /\ a \in Nat /\ a <= shown
        BY <1>0, <1>2, <1>3, <2>2, <3>2 DEF Ordered
      <4>2. a <= decoded[Slot(a)].tick /\ Slot(a) \in 0 .. SnapshotHistory - 1
        BY <1>0, <4>1, SlotIs DEF Ordered
      <4> QED
        BY <1>2, <1>4, <4>1, <4>2
    <3> QED
      BY <3>1, <3>2
  <2> QED
    BY <2>1, <2>2, <2>3, <2>4, <2>5 DEF Ordered
<1>13. Remembering'
  <2>1. \A x \in wire' : x.tick \in DOMAIN meant'
    BY <1>3, <1>6, <1>10
  <2>2. ASSUME NEW s \in 0 .. SnapshotHistory - 1
        PROVE  /\ decoded'[s].tick # 0 => /\ decoded'[s].tick \in DOMAIN meant'
                                          /\ decoded'[s].entities = meant'[decoded'[s].tick]
               /\ told'[s].tick \in DOMAIN meant' => told'[s].entities = meant'[told'[s].tick]
    <3>1. /\ decoded[s].tick # 0 => /\ decoded[s].tick \in DOMAIN meant
                                    /\ decoded[s].entities = meant[decoded[s].tick]
          /\ told[s].tick \in DOMAIN meant => told[s].entities = meant[told[s].tick]
      BY <1>0 DEF Remembering
    <3>2. told'[s].tick \in DOMAIN meant' => told'[s].entities = meant'[told'[s].tick]
      BY <1>3, <1>6, <3>1
    <3>3. decoded'[s].tick # 0 => /\ decoded'[s].tick \in DOMAIN meant
                                  /\ decoded'[s].entities = meant[decoded'[s].tick]
      BY <1>1, <1>4, <1>e, <3>1
    <3> QED
      BY <1>6, <3>2, <3>3
  <2> QED
    BY <2>1, <2>2 DEF Remembering
<1>14. ASSUME NEW y \in wire'
       PROVE  Against(y)'
  <2>1. y \in wire /\ t < y.tick /\ y.tick \in Nat
    BY <1>2, <1>3, <1>10
  <2>2. y = Encode(y.tick, meant[y.tick], ReadBase(y), y.base)
        /\ (y.base # 0 => /\ decoded[Slot(y.base)].tick = y.base
                          /\ \A x \in wire : ~ (y.base < x.tick /\ x.tick < y.tick
                                                 /\ Slot(x.tick) = Slot(y.base)))
    BY <1>0, <2>1 DEF Against
  <2>3. meant'[y.tick] = meant[y.tick]
    BY <1>6, <1>10, <2>1
  <2>4. y.base # 0 => decoded'[Slot(y.base)] = decoded[Slot(y.base)]
    <3> SUFFICES ASSUME y.base # 0
                 PROVE  decoded'[Slot(y.base)] = decoded[Slot(y.base)]
      OBVIOUS
    <3>1. Slot(y.base) \in 0 .. SnapshotHistory - 1 /\ y.base \in Nat
      BY <1>10, <2>1, SlotIs
    <3>2. y.base <= shown
      BY <1>11, <2>2, <3>1
    <3>3. ~ (y.base < t /\ t < y.tick /\ Slot(t) = Slot(y.base))
      BY <1>t, <2>2
    <3>4. Slot(t) # Slot(y.base)
      BY <1>2, <2>1, <3>1, <3>2, <3>3
    <3> QED
      BY <1>4, <3>1, <3>4
  <2>5. ReadBase(y)' = ReadBase(y)
    BY <2>4 DEF ReadBase
  <2>6. y = Encode(y.tick, meant[y.tick], ReadBase(y), y.base)'
    BY <2>2, <2>3, <2>5 DEF Encode
  <2>7. y.base # 0 => /\ decoded'[Slot(y.base)].tick = y.base
                      /\ \A x \in wire' : ~ (y.base < x.tick /\ x.tick < y.tick
                                                 /\ Slot(x.tick) = Slot(y.base))
    BY <1>3, <2>2, <2>4
  <2> QED
    BY <2>6, <2>7 DEF Against
<1> QED
  BY <1>7, <1>8, <1>12, <1>13, <1>14 DEF DeltaInv


\* Nothing else touches the snapshots, but for the end of a connection, which ends
\* them all.
LEMMA DeltaStep ==
    DeltaInv /\ [SnapshotsNext]_snapshotVars => DeltaInv'
<1> SUFFICES ASSUME DeltaInv, [SnapshotsNext]_snapshotVars
             PROVE  DeltaInv'
  OBVIOUS
<1>0. ServerTyped /\ WireTyped /\ Ordered /\ Remembering /\ \A m \in wire : Against(m)
  BY DEF DeltaInv
<1>1. ASSUME tick' = tick, world' = world, told' = told, own' = own, wire' = wire,
             shown' = shown, decoded' = decoded, meant' = meant,
             acknowledged' \in Nat, acknowledged' <= shown,
             acknowledged' <= decoded[Slot(acknowledged')].tick,
             acks' \subseteq Nat, \A a \in acks' : a <= shown /\ a <= decoded[Slot(a)].tick
      PROVE  DeltaInv'
  <2>1. ServerTyped'
    BY <1>0, <1>1 DEF ServerTyped
  <2>2. WireTyped'
    BY <1>0, <1>1 DEF WireTyped
  <2>3. Ordered'
    BY <1>0, <1>1 DEF Ordered
  <2>4. Remembering'
    BY <1>0, <1>1 DEF Remembering
  <2>5. ASSUME NEW m \in wire'
        PROVE  Against(m)'
    <3>1. Against(m)
      BY <1>0, <1>1, <2>5
    <3>2. Encode(m.tick, meant[m.tick], ReadBase(m), m.base)'
          = Encode(m.tick, meant[m.tick], ReadBase(m), m.base)
      BY <1>1 DEF Encode, ReadBase
    <3> QED
      BY <1>1, <3>1, <3>2 DEF Against
  <2> QED
    BY <2>1, <2>2, <2>3, <2>4, <2>5 DEF DeltaInv
<1>2. /\ acknowledged \in Nat /\ acknowledged <= shown /\ shown \in Nat
      /\ acknowledged <= decoded[Slot(acknowledged)].tick /\ shown <= decoded[Slot(shown)].tick
      /\ acks \subseteq Nat /\ \A a \in acks : a <= shown /\ a <= decoded[Slot(a)].tick
  BY <1>0 DEF ServerTyped, WireTyped, Ordered
<1>3. ASSUME ServerTick
      PROVE  DeltaInv'
  <2>1. tick' = tick + 1 /\ world' \in Evolves(world)
        /\ UNCHANGED <<acknowledged, own, acks, shown, decoded>>
    BY <1>3 DEF ServerTick, clientVars
  <2>2. PICK w \in Evolves(world) : world' = w
    BY <2>1
  <2>3. ASSUME NEW e \in Relevant(Captured(world')), SendSnapshot(e)
        PROVE  DeltaInv'
    <3>1. e \in Relevant(Captured(w))
      BY <2>2, <2>3, Zenon
    <3> QED
      BY <2>1, <2>2, <2>3, <3>1, SendKeeps
  <2>4. ASSUME SkipSnapshot
        PROVE  DeltaInv'
    <3>1. wire' = wire /\ told' = told /\ meant' = meant
      BY <2>4 DEF SkipSnapshot
    <3>2. w \in [Indices -> Actor]
      BY <1>0, EvolvesTyped DEF ServerTyped
    <3>3. ServerTyped'
      BY <1>0, <2>1, <2>2, <3>1, <3>2 DEF ServerTyped
    <3>4. WireTyped'
      BY <1>0, <2>1, <3>1 DEF WireTyped
    <3>5. Ordered'
      <4>1. tick \in Nat /\ shown \in Nat /\ \A m \in wire : m.tick \in Nat
        BY <1>0 DEF ServerTyped, WireTyped, Delta
      <4>2. \A s \in 0 .. SnapshotHistory - 1 : told[s].tick \in Nat
        BY <1>0 DEF ServerTyped, Ring
      <4>3. /\ shown <= tick'
            /\ \A m \in wire : m.tick <= tick'
            /\ \A s \in 0 .. SnapshotHistory - 1 : told[s].tick <= tick'
        BY <1>0, <2>1, <4>1, <4>2 DEF Ordered
      <4> QED
        BY <1>0, <2>1, <3>1, <4>3 DEF Ordered
    <3>6. Remembering'
      BY <1>0, <2>1, <3>1 DEF Remembering
    <3>7. ASSUME NEW m \in wire'
          PROVE  Against(m)'
      <4>1. Against(m)
        BY <1>0, <3>1, <3>7
      <4>2. Encode(m.tick, meant[m.tick], ReadBase(m), m.base)'
            = Encode(m.tick, meant[m.tick], ReadBase(m), m.base)
        BY <2>1, <3>1 DEF Encode, ReadBase
      <4> QED
        BY <2>1, <3>1, <4>1, <4>2 DEF Against
    <3> QED
      BY <3>3, <3>4, <3>5, <3>6, <3>7 DEF DeltaInv
  <2> QED
    BY <1>3, <2>3, <2>4 DEF ServerTick
<1>4. ASSUME NEW a \in acks, TakeAcknowledgement(a)
      PROVE  DeltaInv'
  BY <1>1, <1>2, <1>4 DEF TakeAcknowledgement, clientVars
<1>5. ASSUME NEW m \in wire, TakeSnapshot(m)
      PROVE  DeltaInv'
  BY <1>5, ReadKeeps
<1>6. ASSUME Acknowledge
      PROVE  DeltaInv'
  BY <1>1, <1>2, <1>6 DEF Acknowledge, clientVars, serverVars
<1>7. ASSUME NEW e \in Taken(map.entries), KillReplica(e)
      PROVE  DeltaInv'
  BY <1>1, <1>2, <1>7 DEF KillReplica, serverVars
<1>8. ASSUME Reconnect
      PROVE  DeltaInv'
  <2>1. /\ acknowledged' = 0 /\ told' = Empty /\ wire' = {} /\ acks' = {}
        /\ shown' = 0 /\ decoded' = Empty /\ meant' = Nothing /\ tick' = tick
        /\ world' = [world EXCEPT ![own[1]].generation = @ + 1, ![own[1]].lives = TRUE]
        /\ own' = <<own[1], world[own[1]].generation + 1>>
    BY <1>8 DEF Reconnect
  <2>2. world \in [Indices -> Actor] /\ own[1] \in Indices /\ tick \in Nat
    BY <1>0 DEF ServerTyped
  <2>3. world[own[1]] \in Actor /\ world[own[1]].generation + 1 \in Nat
    BY <2>2 DEF Actor
  <2>4. world' \in [Indices -> Actor]
    BY <2>1, <2>2, <2>3 DEF Actor
  <2>5. own' \in Indices \X Nat
    BY <2>1, <2>2, <2>3
  <2>6. ServerTyped'
    BY <2>1, <2>2, <2>4, <2>5, NothingIs DEF ServerTyped
  <2>7. DOMAIN meant' = {} /\ meant' \in [{} -> Snapshot]
    BY <2>1, NothingIs
  <2>8. WireTyped'
    BY <2>1, <2>7, NothingIs DEF WireTyped
  <2>9. Ordered'
    BY <2>1, <2>2, NothingIs, SlotIs DEF Ordered
  <2>10. Remembering'
    BY <2>1, <2>7, NothingIs DEF Remembering
  <2> QED
    BY <2>1, <2>6, <2>8, <2>9, <2>10 DEF DeltaInv
<1>9. ASSUME UNCHANGED snapshotVars
      PROVE  DeltaInv'
  BY <1>1, <1>2, <1>9 DEF snapshotVars, serverVars, clientVars
<1> QED
  BY <1>3, <1>4, <1>5, <1>6, <1>7, <1>8, <1>9 DEF SnapshotsNext

\* Every snapshot that is new to the client can be read, and read as the server meant
\* it, whatever was lost, repeated or late, and however often the rings went round.
THEOREM EveryDeltaIsReadable ==
    SnapshotsSpec => []DeltasReadable
<1>1. DeltaInv => DeltasReadable
  <2> SUFFICES ASSUME DeltaInv
               PROVE  DeltasReadable
    OBVIOUS
  <2>1. \A m \in wire : CanRead(m) /\ Readable(m, ReadBase(m)) /\ Decode(m, ReadBase(m)) = meant[m.tick]
    BY ReadsWhatWasMeant
  <2>2. \A s \in DOMAIN decoded :
            decoded[s].tick # 0 => decoded[s].entities = meant[decoded[s].tick]
    BY DEF DeltaInv, Remembering, WireTyped, Ring
  <2> QED
    BY <2>1, <2>2 DEF DeltasReadable
<1>2. SnapshotsSpec => []DeltaInv
  BY DeltaInit, DeltaStep, PTL DEF SnapshotsSpec
<1> QED
  BY <1>1, <1>2, PTL


-----------------------------------------------------------------------------
(***************************************************************************)
(* The world the client shows: its map of replicas.  The one entry an      *)
(* index may have besides the one it leads to is the player's own, which   *)
(* the sweep spares, and then only once another entity has its slot.       *)
(***************************************************************************)
Replica == [remote : (Indices \X Nat) \cup {NoHandle}, local : Nat]
Locals == UNION {[S -> Int] : S \in SUBSET (1 .. MaxReplicated + 1)}
Room == 2 * Cardinality(Indices) + 1

MapTyped ==
    /\ map \in [entries : Seq(Replica), at : [Indices -> Nat]] /\ locals \in Locals
    /\ Len(map.entries) <= Room /\ \A i \in Indices : map.at[i] <= Len(map.entries)

\* A slot's entities come one after another.
Aging ==
    /\ \A t \in DOMAIN meant : t <= tick
    /\ \A t \in DOMAIN meant : \A i \in DOMAIN meant[t] :
           /\ meant[t][i].generation <= world[i].generation
           /\ \A u \in DOMAIN meant : t <= u /\ i \in DOMAIN meant[u] =>
                  meant[t][i].generation <= meant[u][i].generation
           /\ i = own[1] => own[2] <= meant[t][i].generation
    /\ own[2] <= world[own[1]].generation

\* The player's own entity is gone, and the client has been told of its successor.
Outgrown ==
    /\ own[2] < world[own[1]].generation
    /\ \A t \in DOMAIN meant : t >= shown /\ own[1] \in DOMAIN meant[t] =>
           own[2] < meant[t][own[1]].generation

LedTo ==
    \A e \in Taken(map.entries) :
        LET handle == map.entries[e].remote
        IN map.at[handle[1]] = e \/ (handle = own /\ Outgrown)

MapInv == MapTyped /\ Aging /\ LedTo /\ WorldAgreed


\* There is a last index.
LEMMA LastIs ==
    LastIndex \in Indices /\ LastIndex \in Nat /\ \A j \in Indices : j <= LastIndex
<1>0. Indices \subseteq Nat \ {0} /\ IsFiniteSet(Indices) /\ Own \in Indices
  BY SnapshotAssumption
<1> DEFINE Above(i) == {j \in Indices : j > i}
           Counts == {Cardinality(Above(i)) : i \in Indices}
           R == OpToRel(<, Nat)
<1>1. \A i \in Indices : IsFiniteSet(Above(i)) /\ Cardinality(Above(i)) \in Nat
  BY <1>0, FS_Subset, FS_CardinalityType
<1>2. Counts \in SUBSET Nat /\ Counts # {}
  BY <1>0, <1>1
<1>3. IsWellFoundedOn(R, Nat)
  BY NatLessThanWellFounded
<1>4. \A x, y \in Nat : <<y, x>> \in R <=> y < x
  BY DEF OpToRel
<1> HIDE DEF R
<1>5. PICK c \in Counts : \A y \in Counts : ~ (<<y, c>> \in R)
  <2> HIDE DEF Counts
  <2> QED
    BY <1>2, <1>3, WFMin
<1>6. PICK i \in Indices : c = Cardinality(Above(i))
  BY <1>5
<1>7. ASSUME NEW j \in Indices, j > i
      PROVE  FALSE
  <2>0. \A x \in Indices : (x > j => x > i) /\ ~ (j > j)
    BY <1>0, <1>7
  <2>1. Above(j) \subseteq Above(i) /\ j \in Above(i) /\ j \notin Above(j)
    BY <1>7, <2>0
  <2>2. Above(j) # Above(i)
    BY <2>1
  <2> HIDE DEF Above
  <2>3. Cardinality(Above(j)) < Cardinality(Above(i))
    BY <1>1, <2>1, <2>2, FS_Subset
  <2>4. Cardinality(Above(j)) \in Counts
    OBVIOUS
  <2> HIDE DEF Counts
  <2> QED
    BY <1>1, <1>4, <1>5, <1>6, <2>3, <2>4
<1>8. \A j \in Indices : j <= i
  BY <1>0, <1>7
<1> QED
  BY <1>0, <1>8 DEF LastIndex

\* One round of the loop, and all of them.
Round(a, i, d) == IF i \in DOMAIN d THEN ApplyOne(a, i, d[i]) ELSE a
Begun == [entries |-> map.entries, at |-> map.at, locals |-> locals, present |-> {}, full |-> FALSE]

\* The loop is its rounds one after another, from the map as it was.
LEMMA VisitedIs ==
    ASSUME NEW d
    PROVE  /\ Visited(d)[0] = Begun
           /\ \A i \in 1 .. LastIndex : Visited(d)[i] = Round(Visited(d)[i - 1], i, d)
<1> DEFINE N == LastIndex
           Solves(f, m) == f = [i \in 0 .. m |-> IF i = 0 THEN Begun ELSE Round(f[i - 1], i, d)]
           G == {m \in 0 .. N : \E f : Solves(f, m)}
<1>0. N \in Nat
  BY LastIs
<1> HIDE DEF N
<1>1. 0 \in G
  <2> DEFINE f == [i \in 0 .. 0 |-> Begun]
  <2>1. f = [i \in 0 .. 0 |-> IF i = 0 THEN Begun ELSE Round(f[i - 1], i, d)]
    OBVIOUS
  <2> HIDE DEF f
  <2> QED
    BY <1>0, <2>1
<1>2. ASSUME NEW m \in 0 .. N - 1, m \in G
      PROVE  m + 1 \in G
  <2>1. PICK f : Solves(f, m)
    BY <1>2
  <2> DEFINE g == [i \in 0 .. m + 1 |-> IF i = m + 1 THEN Round(f[m], m + 1, d) ELSE f[i]]
  <2>2. ASSUME NEW i \in 0 .. m + 1
        PROVE  g[i] = IF i = 0 THEN Begun ELSE Round(g[i - 1], i, d)
    <3>1. CASE i = m + 1
      <4>1. m \in 0 .. m + 1 /\ m # m + 1 /\ m = i - 1 /\ i # 0
        BY <3>1
      <4>2. g[m] = f[m] /\ g[i] = Round(f[m], m + 1, d)
        BY <3>1, <4>1
      <4> QED
        BY <3>1, <4>1, <4>2
    <3>2. CASE i # m + 1
      <4>1. i \in 0 .. m /\ g[i] = f[i]
        BY <3>2
      <4>2. f[i] = IF i = 0 THEN Begun ELSE Round(f[i - 1], i, d)
        BY <2>1, <4>1
      <4>3. i # 0 => g[i - 1] = f[i - 1]
        <5>1. i # 0 => i - 1 \in 0 .. m + 1 /\ i - 1 # m + 1
          BY <4>1
        <5> QED
          BY <5>1
      <4> QED
        BY <4>1, <4>2, <4>3
    <3> QED
      BY <3>1, <3>2
  <2>3. g = [i \in 0 .. m + 1 |-> g[i]]
    OBVIOUS
  <2> HIDE DEF g
  <2>4. g = [i \in 0 .. m + 1 |-> IF i = 0 THEN Begun ELSE Round(g[i - 1], i, d)]
    BY <2>2, <2>3
  <2>5. m + 1 \in 0 .. N
    BY <1>0
  <2> QED
    BY <2>4, <2>5
<1>3. N \in G
  <2>1. N \in 0 .. N
    BY <1>0
  <2> HIDE DEF G
  <2> QED
    BY <1>0, <1>1, <1>2, <2>1, UpTo
<1> DEFINE v == CHOOSE f : Solves(f, N)
<1>4. Visited(d) = v
  BY Zenon DEF Visited, Round, Begun, N
<1>5. Solves(v, N)
  <2>1. \E f : Solves(f, N)
    BY <1>3
  <2> HIDE DEF Solves
  <2> QED
    BY <2>1
<1> HIDE DEF v
<1>6. /\ v[0] = Begun
      /\ \A i \in 1 .. N : v[i] = Round(v[i - 1], i, d)
  BY <1>0, <1>5
<1> QED
  BY <1>4, <1>6 DEF N


\* What holds in the loop, once the indices in D have been visited.
LoopType ==
    [entries : Seq(Replica), at : [Indices -> Nat], locals : Locals, present : SUBSET Nat,
     full : BOOLEAN]

Separate(entries, replicas) ==
    /\ \A e, f \in Taken(entries) :
           e # f => /\ entries[e].remote # entries[f].remote
                    /\ entries[e].local = 0 \/ entries[e].local # entries[f].local
    /\ DOMAIN replicas = {entries[e].local : e \in Taken(entries)} \ {0}

Linked(a, D, d) ==
    \A e \in Taken(a.entries) :
        LET handle == a.entries[e].remote
        IN \/ a.at[handle[1]] = e
           \/ handle = own /\ Outgrown
           \/ handle[1] \in D /\ handle # Handle(d, handle[1])

StandsFor(a, i, d) ==
    LET e == a.at[i]
    IN /\ e \in a.present /\ a.entries[e].remote = Handle(d, i)
       /\ a.entries[e].remote = own
          \/ (a.entries[e].local # 0 /\ a.locals[a.entries[e].local] = d[i].value)

Mentions(a, D, d) ==
    /\ \A i \in D : StandsFor(a, i, d)
    /\ \A e \in a.present : \E i \in D : a.entries[e].remote = Handle(d, i)

LoopInv(a, D, d) ==
    /\ a \in LoopType /\ a.full = FALSE /\ Len(a.entries) <= Room
    /\ \A j \in Indices : a.at[j] <= Len(a.entries)
    /\ a.present \subseteq Taken(a.entries)
    /\ Taken(a.entries) \subseteq {a.at[j] : j \in D} \cup Taken(map.entries)
    /\ Separate(a.entries, a.locals)
    /\ Linked(a, D, d) /\ Mentions(a, D, d)

\* The snapshot is newer than the end of the player's own entity, if it ended.
Timely(d) == Outgrown /\ own[1] \in DOMAIN d => d[own[1]].generation # own[2]

\* The image of a finite set is no larger.
LEMMA ImageIs ==
    ASSUME NEW f, NEW S, DOMAIN f = S, IsFiniteSet(S)
    PROVE  LET T == {f[x] : x \in S}
           IN  IsFiniteSet(T) /\ Cardinality(T) <= Cardinality(S)
<1> DEFINE T == {f[x] : x \in S}
           g == [x \in S |-> f[x]]
<1>1. g \in Surjection(S, T)
  BY DEF Surjection
<1> HIDE DEF g, T
<1>2. IsFiniteSet(T) /\ Cardinality(T) <= Cardinality(S)
  BY <1>1, FS_Surjection
<1> QED
  BY <1>2 DEF T

\* Handles of entities, and the entries that have one.
LEMMA HandleIs ==
    ASSUME NEW d \in Snapshot, NEW i \in DOMAIN d
    PROVE  /\ i \in Indices /\ d[i].generation \in Nat /\ d[i].value \in Int
           /\ Handle(d, i) \in Indices \X Nat /\ Handle(d, i) # NoHandle
           /\ Handle(d, i)[1] = i /\ Handle(d, i)[2] = d[i].generation
           /\ Handle(d, i) = <<i, d[i].generation>>
<1>1. d \in [DOMAIN d -> Entity] /\ DOMAIN d \subseteq Indices
  BY SnapshotIs
<1>2. d[i] \in Entity /\ i \in Indices /\ i # 0
  BY <1>1, SnapshotAssumption
<1>3. d[i].generation \in Nat /\ d[i].value \in Int
  BY <1>2 DEF Entity
<1> QED
  BY <1>2, <1>3 DEF Handle, NoHandle

\* The entries of a list that stand for an entity.
LEMMA TakenIs ==
    ASSUME NEW s \in Seq(Replica)
    PROVE  /\ Len(s) \in Nat /\ DOMAIN s = 1 .. Len(s)
           /\ \A e \in 1 .. Len(s) : s[e] \in Replica /\ s[e].local \in Nat
                                     /\ (e \in Taken(s) <=> s[e].remote # NoHandle)
           /\ \A e \in Taken(s) : /\ e \in 1 .. Len(s) /\ e \in Nat /\ e # 0
                                  /\ s[e].remote \in Indices \X Nat
                                  /\ s[e].remote[1] \in Indices /\ s[e].remote # NoHandle
<1>1. Len(s) \in Nat /\ DOMAIN s = 1 .. Len(s) /\ \A e \in 1 .. Len(s) : s[e] \in Replica
  BY LenProperties
<1>2. \A r \in Replica : r.local \in Nat /\ (r.remote # NoHandle => r.remote \in Indices \X Nat)
  BY DEF Replica
<1>3. \A h \in Indices \X Nat : h[1] \in Indices
  OBVIOUS
<1> QED
  BY <1>1, <1>2, <1>3 DEF Taken

\* There is always room for an entry and a local entity more.
LEMMA FewTaken ==
    ASSUME MapInv
    PROVE  /\ IsFiniteSet(Taken(map.entries))
           /\ Cardinality(Taken(map.entries)) <= Cardinality(Indices) + 1
           /\ Cardinality(Indices) \in Nat
<1> DEFINE T == Taken(map.entries)
           L == {map.at[j] : j \in Indices}
           Players == {e \in T : map.entries[e].remote = own}
<1>0. IsFiniteSet(Indices) /\ Cardinality(Indices) \in Nat
  BY SnapshotAssumption, FS_CardinalityType
<1>1. map.entries \in Seq(Replica) /\ map.at \in [Indices -> Nat] /\ LedTo /\ WorldAgreed
  BY DEF MapInv, MapTyped
<1>2. IsFiniteSet(L) /\ Cardinality(L) <= Cardinality(Indices)
  <2>1. DOMAIN map.at = Indices
    BY <1>1
  <2> QED
    BY <1>0, <2>1, ImageIs
<1>3. T \subseteq L \cup Players
  <2>1. \A e \in T : map.entries[e].remote[1] \in Indices
    BY <1>1, TakenIs
  <2> QED
    BY <1>1, <2>1 DEF LedTo
<1>4. \A e, f \in Players : e = f
  BY <1>1 DEF WorldAgreed
<1>5. \E x : Players \subseteq {x}
  <2>1. CASE Players = {}
    BY <2>1
  <2>2. CASE Players # {}
    BY <1>4, <2>2
  <2> QED
    BY <2>1, <2>2
<1> HIDE DEF T, L, Players
<1>6. PICK x : T \subseteq L \cup {x}
  BY <1>3, <1>5
<1>7. IsFiniteSet(L \cup {x}) /\ Cardinality(L \cup {x}) <= Cardinality(L) + 1
      /\ Cardinality(L) \in Nat
  <2>1. Cardinality(L) \in Nat
    BY <1>2, FS_CardinalityType
  <2>2. IsFiniteSet(L \cup {x})
        /\ Cardinality(L \cup {x}) = IF x \in L THEN Cardinality(L) ELSE Cardinality(L) + 1
    BY <1>2, FS_AddElement
  <2> QED
    BY <2>1, <2>2
<1>8. IsFiniteSet(T) /\ Cardinality(T) <= Cardinality(L \cup {x})
  BY <1>6, <1>7, FS_Subset
<1>9. Cardinality(T) \in Nat /\ Cardinality(L \cup {x}) \in Nat
  BY <1>7, <1>8, FS_CardinalityType
<1>10. Cardinality(T) <= Cardinality(Indices) + 1
  BY <1>0, <1>2, <1>7, <1>8, <1>9
<1> QED
  BY <1>0, <1>8, <1>10 DEF T

\* Entries that an index leads to, or that were there before, fit in the map.
LEMMA FewCovered ==
    ASSUME MapInv, NEW at \in [Indices -> Nat],
           NEW T, T \subseteq {at[j] : j \in Indices} \cup Taken(map.entries)
    PROVE  IsFiniteSet(T) /\ Cardinality(T) \in Nat /\ Cardinality(T) <= Room /\ Room \in Nat
<1> DEFINE L == {at[j] : j \in Indices}
           O == Taken(map.entries)
<1>1. IsFiniteSet(O) /\ Cardinality(O) <= Cardinality(Indices) + 1 /\ Cardinality(Indices) \in Nat
  BY FewTaken
<1>2. IsFiniteSet(L) /\ Cardinality(L) <= Cardinality(Indices)
  <2>1. DOMAIN at = Indices /\ IsFiniteSet(Indices)
    BY SnapshotAssumption
  <2> QED
    BY <2>1, ImageIs
<1> HIDE DEF L, O
<1>3. IsFiniteSet(L \cup O) /\ Cardinality(L \cup O) = Cardinality(L) + Cardinality(O) - Cardinality(L \cap O)
  BY <1>1, <1>2, FS_Union
<1>4. T \in SUBSET (L \cup O)
  BY DEF L, O
<1>5. IsFiniteSet(T) /\ Cardinality(T) <= Cardinality(L \cup O)
  BY <1>3, <1>4, FS_Subset
<1>6. IsFiniteSet(L \cap O)
  BY <1>1, FS_Subset
<1>7. Cardinality(T) \in Nat /\ Cardinality(L \cup O) \in Nat /\ Cardinality(L \cap O) \in Nat
      /\ Cardinality(L) \in Nat /\ Cardinality(O) \in Nat
  BY <1>1, <1>2, <1>3, <1>5, <1>6, FS_CardinalityType
<1> QED
  BY <1>1, <1>2, <1>3, <1>5, <1>7 DEF Room

\* A set of numbers has a least one.
LEMMA LeastIs ==
    ASSUME NEW S \in SUBSET Nat, S # {}
    PROVE  \E x \in S : \A y \in S : x <= y
<1> DEFINE R == OpToRel(<, Nat)
<1>1. IsWellFoundedOn(R, Nat)
  BY NatLessThanWellFounded
<1>2. \A x, y \in Nat : <<y, x>> \in R <=> y < x
  BY DEF OpToRel
<1> HIDE DEF R
<1>3. PICK x \in S : \A y \in S : ~ (<<y, x>> \in R)
  BY <1>1, WFMin
<1>4. \A y \in S : x \in Nat /\ y \in Nat /\ ~ (y < x)
  BY <1>2, <1>3, Zenon
<1> QED
  BY <1>4

\* The entry a replica takes stands for nothing.
LEMMA FreeIs ==
    ASSUME NEW s \in Seq(Replica)
    PROVE  /\ FreeEntry(s) \in Nat \ {0} /\ FreeEntry(s) \notin Taken(s)
           /\ \/ FreeEntry(s) \in 1 .. Len(s)
              \/ FreeEntry(s) = Len(s) + 1 /\ Taken(s) = 1 .. Len(s)
<1> DEFINE free == DOMAIN s \ Taken(s)
<1>1. Len(s) \in Nat /\ DOMAIN s = 1 .. Len(s) /\ Taken(s) \subseteq 1 .. Len(s)
  BY TakenIs
<1>2. CASE free = {}
  <2>1. FreeEntry(s) = Len(s) + 1 /\ Taken(s) = 1 .. Len(s)
    BY <1>1, <1>2 DEF FreeEntry
  <2> QED
    BY <1>1, <2>1
<1>3. CASE free # {}
  <2>1. FreeEntry(s) = CHOOSE x \in free : \A y \in free : x <= y
    BY <1>3 DEF FreeEntry
  <2>2. free \in SUBSET Nat
    BY <1>1
  <2> HIDE DEF free
  <2>3. \E x \in free : \A y \in free : x <= y
    BY <1>3, <2>2, LeastIs
  <2>4. FreeEntry(s) \in free
    BY <2>1, <2>3
  <2>5. FreeEntry(s) \in 1 .. Len(s) /\ FreeEntry(s) \notin Taken(s)
    BY <1>1, <2>4 DEF free
  <2> QED
    BY <1>1, <2>5
<1> QED
  BY <1>2, <1>3

\* The local entity of a replica is a new one.
LEMMA FreshIs ==
    ASSUME NEW s \in Seq(Replica), NEW replicas, Separate(s, replicas), Len(s) <= MaxReplicated
    PROVE  Fresh(replicas) \in 1 .. MaxReplicated + 1 /\ Fresh(replicas) \notin DOMAIN replicas
<1> DEFINE U == 1 .. MaxReplicated + 1
           L == {s[e].local : e \in DOMAIN s}
           out == {id \in U : id \notin DOMAIN replicas}
           f == [e \in DOMAIN s |-> s[e].local]
<1>0. MaxReplicated \in Nat
  BY SnapshotAssumption
<1>1. Len(s) \in Nat /\ DOMAIN s = 1 .. Len(s) /\ Taken(s) \subseteq DOMAIN s
  BY TakenIs DEF Taken
<1>2. DOMAIN replicas \subseteq L
  BY <1>1 DEF Separate
<1>3. IsFiniteSet(DOMAIN s) /\ Cardinality(DOMAIN s) = Len(s)
  <2>1. IsFiniteSet(1 .. Len(s)) /\ Cardinality(1 .. Len(s)) = IF 1 > Len(s) THEN 0 ELSE Len(s) - 1 + 1
    BY <1>1, FS_Interval
  <2> QED
    BY <1>1, <2>1
<1>4. IsFiniteSet(L) /\ Cardinality(L) <= Len(s)
  <2>1. L = {f[e] : e \in DOMAIN s} /\ DOMAIN f = DOMAIN s
    OBVIOUS
  <2> HIDE DEF f, L
  <2>2. IsFiniteSet({f[e] : e \in DOMAIN s}) /\ Cardinality({f[e] : e \in DOMAIN s}) <= Cardinality(DOMAIN s)
    BY <1>3, <2>1, ImageIs
  <2> QED
    BY <1>3, <2>1, <2>2
<1>5. IsFiniteSet(U) /\ Cardinality(U) = MaxReplicated + 1
  BY <1>0, FS_Interval
<1>6. out # {}
  <2> SUFFICES ASSUME out = {} PROVE FALSE
    OBVIOUS
  <2>1. U \in SUBSET L
    BY <1>2
  <2> HIDE DEF U, L
  <2>2. Cardinality(U) <= Cardinality(L) /\ Cardinality(L) \in Nat
    BY <1>4, <2>1, FS_Subset, FS_CardinalityType
  <2> QED
    BY <1>0, <1>1, <1>4, <1>5, <2>2
<1>7. out \in SUBSET Nat
  BY <1>0
<1>8. PICK x \in out : \A y \in out : x <= y
  <2> HIDE DEF out
  <2> QED
    BY <1>6, <1>7, LeastIs
<1>9. \A o \in 1 .. x - 1 : o \in DOMAIN replicas
  <2> SUFFICES ASSUME NEW o \in 1 .. x - 1, o \notin DOMAIN replicas
               PROVE  FALSE
    OBVIOUS
  <2>1. x \in Nat /\ x <= MaxReplicated + 1 /\ o \in Nat /\ o < x /\ o \in 1 .. MaxReplicated + 1
    BY <1>0, <1>8
  <2>2. o \in out
    BY <2>1
  <2> QED
    BY <1>8, <2>1, <2>2
<1> QED
  BY <1>8, <1>9 DEF Fresh


\* What the lemmas on one round share.
LEMMA RoundParts ==
    ASSUME NEW d \in Snapshot, NEW D \in SUBSET DOMAIN d, NEW a, LoopInv(a, D, d),
           NEW i \in DOMAIN d \ D
    PROVE  /\ a.entries \in Seq(Replica) /\ a.at \in [Indices -> Nat] /\ a.locals \in Locals
           /\ a.present \subseteq Nat /\ a.full = FALSE
           /\ Len(a.entries) \in Nat /\ DOMAIN a.entries = 1 .. Len(a.entries)
           /\ i \in Indices /\ d[i].value \in Int /\ a.at[i] \in Nat
           /\ Known(a, i, Handle(d, i)) => a.at[i] \in Taken(a.entries)
           /\ \A j \in D : Handle(d, j) # Handle(d, i)
           /\ \A j \in D : j \in Indices /\ j # i
<1>1. a \in LoopType /\ a.full = FALSE /\ \A j \in Indices : a.at[j] <= Len(a.entries)
  BY DEF LoopInv
<1>2. /\ a.entries \in Seq(Replica) /\ a.at \in [Indices -> Nat] /\ a.locals \in Locals
      /\ a.present \subseteq Nat
  BY <1>1 DEF LoopType
<1>3. i \in Indices /\ d[i].value \in Int /\ Handle(d, i) # NoHandle /\ Handle(d, i)[1] = i
  BY HandleIs
<1>4. Len(a.entries) \in Nat /\ DOMAIN a.entries = 1 .. Len(a.entries)
  BY <1>2, TakenIs
<1>5. a.at[i] \in Nat /\ a.at[i] <= Len(a.entries)
  BY <1>1, <1>2, <1>3
<1>6. Known(a, i, Handle(d, i)) => a.at[i] \in Taken(a.entries)
  <2> SUFFICES ASSUME Known(a, i, Handle(d, i))
               PROVE  a.at[i] \in Taken(a.entries)
    OBVIOUS
  <2>1. a.at[i] \in 1 .. Len(a.entries) /\ a.entries[a.at[i]].remote # NoHandle
    BY <1>3, <1>4, <1>5 DEF Known
  <2> QED
    BY <1>4, <2>1 DEF Taken
<1>7. \A j \in D : Handle(d, j)[1] = j /\ j \in Indices
  BY HandleIs
<1> QED
  BY <1>1, <1>2, <1>3, <1>4, <1>5, <1>6, <1>7

\* The player's own entity, seen again.
OwnSeen(a, i) == [a EXCEPT !.present = @ \cup {a.at[i]}]

\* Seeing the player's own entity only marks its entry.
LEMMA OwnSeenKeeps ==
    ASSUME NEW d \in Snapshot, NEW D \in SUBSET DOMAIN d, NEW a, LoopInv(a, D, d),
           NEW i \in DOMAIN d \ D, Known(a, i, Handle(d, i)), Handle(d, i) = own
    PROVE  LoopInv(OwnSeen(a, i), D \cup {i}, d)
<1> DEFINE b == OwnSeen(a, i)
           e == a.at[i]
<1>0. /\ a.present \subseteq Nat /\ e \in Taken(a.entries) /\ e \in Nat
      /\ a.entries[e].remote = Handle(d, i)
  BY RoundParts DEF Known
<1>1. a \in LoopType
  BY DEF LoopInv
<1>2. /\ b.entries = a.entries /\ b.at = a.at /\ b.locals = a.locals /\ b.full = a.full
      /\ b.present = a.present \cup {e} /\ b \in LoopType
  BY <1>0, <1>1 DEF OwnSeen, LoopType
<1> HIDE DEF b, e
<1>3. Linked(b, D \cup {i}, d)
  <2>1. Linked(a, D, d)
    BY DEF LoopInv
  <2> QED
    BY <1>2, <2>1 DEF Linked
<1>4. Mentions(b, D \cup {i}, d)
  <2>1. Mentions(a, D, d)
    BY DEF LoopInv
  <2>2. \A j \in D : StandsFor(b, j, d)
    BY <1>2, <2>1 DEF Mentions, StandsFor
  <2>3. StandsFor(b, i, d)
    BY <1>0, <1>2 DEF StandsFor, e
  <2>4. \A x \in b.present : \E j \in D \cup {i} : b.entries[x].remote = Handle(d, j)
    BY <1>0, <1>2, <2>1 DEF Mentions
  <2> QED
    BY <2>2, <2>3, <2>4 DEF Mentions
<1>5. LoopInv(b, D \cup {i}, d)
  BY <1>0, <1>2, <1>3, <1>4 DEF LoopInv
<1> QED
  BY <1>5 DEF b

\* A replica moved.
Moved(a, i, value) ==
    [a EXCEPT !.present = @ \cup {a.at[i]}, !.locals[a.entries[a.at[i]].local] = value]

\* Moving a replica marks its entry and leaves the others where they are.
LEMMA MovedKeeps ==
    ASSUME NEW d \in Snapshot, NEW D \in SUBSET DOMAIN d, NEW a, LoopInv(a, D, d),
           NEW i \in DOMAIN d \ D, Known(a, i, Handle(d, i)), a.entries[a.at[i]].local # 0
    PROVE  LoopInv(Moved(a, i, d[i].value), D \cup {i}, d)
<1> DEFINE b == Moved(a, i, d[i].value)
           e == a.at[i]
           l == a.entries[e].local
<1>0. /\ a.present \subseteq Nat /\ e \in Taken(a.entries) /\ e \in Nat
      /\ a.entries[e].remote = Handle(d, i) /\ a.locals \in Locals /\ d[i].value \in Int
      /\ \A j \in D : Handle(d, j) # Handle(d, i)
  <2>1. a.entries[e].remote = Handle(d, i)
    BY DEF Known
  <2> HIDE DEF e
  <2>2. a.present \subseteq Nat /\ a.at[i] \in Nat /\ a.locals \in Locals /\ d[i].value \in Int
    BY RoundParts
  <2>3. a.at[i] \in Taken(a.entries)
    BY RoundParts
  <2>4. \A j \in D : Handle(d, j) # Handle(d, i)
    BY RoundParts, Zenon
  <2> QED
    BY <2>1, <2>2, <2>3, <2>4 DEF e
<1>1. a \in LoopType /\ Separate(a.entries, a.locals) /\ Mentions(a, D, d)
  BY DEF LoopInv
<1>2. l \in DOMAIN a.locals /\ l # 0
  BY <1>0, <1>1 DEF Separate
<1>3. /\ b.entries = a.entries /\ b.at = a.at /\ b.full = a.full
      /\ b.locals = [a.locals EXCEPT ![l] = d[i].value]
      /\ b.present = a.present \cup {e}
      /\ DOMAIN b = DOMAIN a
      /\ b = [entries |-> b.entries, at |-> b.at, locals |-> b.locals, present |-> b.present,
              full |-> b.full]
  <2> DEFINE c == [a EXCEPT !.present = @ \cup {e}]
  <2>1. /\ c \in LoopType /\ c.entries = a.entries /\ c.at = a.at /\ c.full = a.full
        /\ c.locals = a.locals /\ c.present = a.present \cup {e} /\ DOMAIN c = DOMAIN a
    BY <1>0, <1>1 DEF LoopType
  <2>2. b = [c EXCEPT !.locals = [c.locals EXCEPT ![l] = d[i].value]]
    BY Zenon DEF Moved
  <2> HIDE DEF c, b, e, l
  <2> QED
    BY <2>1, <2>2 DEF LoopType
<1>4. /\ DOMAIN b.locals = DOMAIN a.locals /\ b.locals[l] = d[i].value
      /\ \A x \in DOMAIN a.locals : x # l => b.locals[x] = a.locals[x]
  BY <1>2, <1>3
<1>5. b.locals \in Locals
  <2>1. PICK S \in SUBSET (1 .. MaxReplicated + 1) : a.locals \in [S -> Int]
    BY <1>0 DEF Locals
  <2>2. b.locals \in [S -> Int]
    BY <1>0, <1>2, <1>3, <2>1
  <2> QED
    BY <2>2 DEF Locals
<1>6. b \in LoopType
  <2>1. /\ b.entries \in Seq(Replica) /\ b.at \in [Indices -> Nat] /\ b.full \in BOOLEAN
        /\ b.present \in SUBSET Nat
    BY <1>0, <1>1, <1>3 DEF LoopType
  <2> HIDE DEF b
  <2> QED
    BY <1>3, <1>5, <2>1 DEF LoopType
<1> HIDE DEF b, e, l
<1>7. Linked(b, D \cup {i}, d)
  <2>1. Linked(a, D, d)
    BY DEF LoopInv
  <2> QED
    BY <1>3, <2>1 DEF Linked
<1>8. Mentions(b, D \cup {i}, d)
  <2>2. ASSUME NEW j \in D
        PROVE  StandsFor(b, j, d)
    <3> DEFINE f == a.at[j]
    <3>1. /\ f \in a.present /\ a.entries[f].remote = Handle(d, j)
          /\ \/ a.entries[f].remote = own
             \/ (a.entries[f].local # 0 /\ a.locals[a.entries[f].local] = d[j].value)
      BY <1>1 DEF Mentions, StandsFor
    <3>2. f \in Taken(a.entries) /\ f # e
      BY <1>0, <3>1 DEF LoopInv
    <3>3. a.entries[f].local # 0 => a.entries[f].local # l /\ a.entries[f].local \in DOMAIN a.locals
      BY <1>0, <1>1, <1>2, <3>2 DEF Separate, l
    <3>4. a.entries[f].local # 0 => b.locals[a.entries[f].local] = a.locals[a.entries[f].local]
      BY <1>4, <3>3
    <3> QED
      BY <1>3, <3>1, <3>4 DEF StandsFor
  <2>3. StandsFor(b, i, d)
    <3>1. b.at[i] = e /\ e \in b.present /\ b.entries[e].remote = Handle(d, i)
      BY <1>0, <1>3 DEF e
    <3>2. b.entries[e].local = l /\ b.locals[l] = d[i].value /\ l # 0
      BY <1>2, <1>3, <1>4 DEF l
    <3> QED
      BY <3>1, <3>2 DEF StandsFor
  <2>4. \A x \in b.present : \E j \in D \cup {i} : b.entries[x].remote = Handle(d, j)
    BY <1>0, <1>1, <1>3 DEF Mentions
  <2> QED
    BY <2>2, <2>3, <2>4 DEF Mentions
<1>9. Separate(b.entries, b.locals)
  BY <1>1, <1>3, <1>4 DEF Separate
<1>10. LoopInv(b, D \cup {i}, d)
  BY <1>0, <1>3, <1>6, <1>7, <1>8, <1>9 DEF LoopInv
<1> QED
  BY <1>10 DEF b


\* No entry stands for an entity that is not known.
Unseen(a, h) == \A e \in Taken(a.entries) : a.entries[e].remote # h

\* An entity its index does not lead to has no entry anywhere.
LEMMA UnknownIsUnseen ==
    ASSUME NEW d \in Snapshot, NEW D \in SUBSET DOMAIN d, NEW a, LoopInv(a, D, d),
           NEW i \in DOMAIN d \ D, Timely(d), ~ Known(a, i, Handle(d, i))
    PROVE  Unseen(a, Handle(d, i))
<1> SUFFICES ASSUME NEW e \in Taken(a.entries), a.entries[e].remote = Handle(d, i)
             PROVE  FALSE
  BY DEF Unseen
<1>1. Handle(d, i)[1] = i /\ Handle(d, i)[2] = d[i].generation
  BY HandleIs
<1>2. a.entries \in Seq(Replica)
  BY RoundParts
<1>3. e # 0
  BY <1>2, TakenIs
<1>4. a.at[i] # e
  BY <1>3 DEF Known
<1>5. Handle(d, i) = own /\ Outgrown
  BY <1>1, <1>4 DEF LoopInv, Linked
<1> QED
  BY <1>1, <1>5 DEF Timely

\* The entry of a replica that was lost is free again.
LEMMA GivenUpKeeps ==
    ASSUME NEW d \in Snapshot, NEW D \in SUBSET DOMAIN d, NEW a, LoopInv(a, D, d),
           NEW i \in DOMAIN d \ D, Known(a, i, Handle(d, i)), a.entries[a.at[i]].local = 0
    PROVE  LoopInv(GivenUp(a, i), D, d) /\ Unseen(GivenUp(a, i), Handle(d, i))
<1> DEFINE b == GivenUp(a, i)
           e == a.at[i]
           r == [a.entries[e] EXCEPT !.remote = NoHandle]
           c == [a EXCEPT !.entries = [a.entries EXCEPT ![e] = r]]
<1>0. /\ e \in Taken(a.entries) /\ e \in Nat /\ a.entries[e].remote = Handle(d, i)
      /\ \A j \in D : Handle(d, j) # Handle(d, i)
  <2>1. a.entries[e].remote = Handle(d, i)
    BY DEF Known
  <2> HIDE DEF e
  <2>2. a.at[i] \in Nat /\ a.at[i] \in Taken(a.entries)
    BY RoundParts
  <2>3. \A j \in D : Handle(d, j) # Handle(d, i)
    BY RoundParts, Zenon
  <2> QED
    BY <2>1, <2>2, <2>3 DEF e
<1>00. \A j \in D : j \in Indices /\ j # i
  BY RoundParts, Zenon
<1>1. a.entries \in Seq(Replica) /\ a.at \in [Indices -> Nat] /\ i \in Indices
  BY RoundParts
<1>2. /\ a \in LoopType /\ a.full = FALSE /\ Len(a.entries) <= Room
      /\ \A j \in Indices : a.at[j] <= Len(a.entries)
      /\ a.present \subseteq Taken(a.entries)
      /\ Taken(a.entries) \subseteq {a.at[j] : j \in D} \cup Taken(map.entries)
      /\ Separate(a.entries, a.locals)
      /\ Linked(a, D, d) /\ Mentions(a, D, d)
  BY DEF LoopInv
<1>3. e \in 1 .. Len(a.entries) /\ a.entries[e] \in Replica /\ DOMAIN a.entries = 1 .. Len(a.entries)
      /\ Len(a.entries) \in Nat
  BY <1>0, <1>1, TakenIs
<1>4. r \in Replica /\ r.remote = NoHandle /\ r.local = a.entries[e].local
  BY <1>3 DEF Replica
<1> HIDE DEF r
<1>5. /\ [a.entries EXCEPT ![e] = r] \in Seq(Replica)
      /\ Len([a.entries EXCEPT ![e] = r]) = Len(a.entries)
      /\ \A j \in 1 .. Len(a.entries) : [a.entries EXCEPT ![e] = r][j] = IF j = e THEN r ELSE a.entries[j]
  BY <1>1, <1>3, <1>4, ExceptSeq
<1>6. /\ c \in LoopType /\ c.at = a.at /\ c.full = a.full /\ c.locals = a.locals
      /\ c.present = a.present /\ c.entries = [a.entries EXCEPT ![e] = r]
  <2> HIDE DEF e
  <2> QED
    BY <1>2, <1>5 DEF LoopType
<1>7. b = [c EXCEPT !.at = [c.at EXCEPT ![i] = 0]]
  BY Zenon DEF GivenUp, r
<1>8. /\ b \in LoopType /\ b.full = FALSE /\ b.locals = a.locals /\ b.present = a.present
      /\ b.at = [a.at EXCEPT ![i] = 0] /\ b.entries = [a.entries EXCEPT ![e] = r]
  <2>1. [c.at EXCEPT ![i] = 0] \in [Indices -> Nat]
    BY <1>1, <1>6
  <2> HIDE DEF c, b, e
  <2> QED
    BY <1>2, <1>6, <1>7, <2>1 DEF LoopType
<1> HIDE DEF c, b
<1>9. /\ b.entries \in Seq(Replica) /\ Len(b.entries) = Len(a.entries)
      /\ b.entries[e].remote = NoHandle
      /\ \A x \in 1 .. Len(a.entries) : x # e => b.entries[x] = a.entries[x]
  BY <1>3, <1>4, <1>5, <1>8
<1>10. b.at[i] = 0 /\ \A j \in Indices : j # i => b.at[j] = a.at[j]
  BY <1>1, <1>8
<1>11. Taken(b.entries) = Taken(a.entries) \ {e}
       /\ \A x \in Taken(b.entries) : b.entries[x] = a.entries[x]
  <2>1. DOMAIN b.entries = 1 .. Len(a.entries)
    BY <1>9, TakenIs
  <2> QED
    BY <1>3, <1>9, <2>1 DEF Taken
<1>12. e \notin a.present
  BY <1>0, <1>2 DEF Mentions
<1>13. b.present \subseteq Taken(b.entries)
  BY <1>2, <1>8, <1>11, <1>12
<1>14. Taken(b.entries) \subseteq {b.at[j] : j \in D} \cup Taken(map.entries)
  BY <1>00, <1>2, <1>10, <1>11
<1>15. Separate(b.entries, b.locals)
  <2>1. {b.entries[x].local : x \in Taken(b.entries)} \ {0} = {a.entries[x].local : x \in Taken(a.entries)} \ {0}
    BY <1>11
  <2> QED
    BY <1>2, <1>8, <1>11, <2>1, SMTT(60) DEF Separate
<1>16. Linked(b, D, d)
  <2> SUFFICES ASSUME NEW x \in Taken(b.entries)
               PROVE  LET handle == b.entries[x].remote
                      IN \/ b.at[handle[1]] = x
                         \/ handle = own /\ Outgrown
                         \/ handle[1] \in D /\ handle # Handle(d, handle[1])
    BY DEF Linked
  <2>1. x \in Taken(a.entries) /\ x # e /\ b.entries[x] = a.entries[x]
    BY <1>11
  <2>2. a.entries[x].remote[1] \in Indices
    BY <1>1, <2>1, TakenIs
  <2>3. a.at[a.entries[x].remote[1]] = x => b.at[a.entries[x].remote[1]] = x
    BY <1>10, <2>1, <2>2 DEF e
  <2> QED
    BY <1>2, <2>1, <2>3 DEF Linked
<1>17. Mentions(b, D, d)
  <2>1. ASSUME NEW j \in D
        PROVE  StandsFor(b, j, d)
    <3>1. b.at[j] = a.at[j] /\ StandsFor(a, j, d)
      BY <1>00, <1>2, <1>10 DEF Mentions
    <3>2. a.at[j] \in a.present /\ b.entries[a.at[j]] = a.entries[a.at[j]]
      BY <1>2, <1>11, <1>12, <3>1 DEF StandsFor
    <3> QED
      BY <1>8, <3>1, <3>2 DEF StandsFor
  <2>2. \A x \in b.present : \E j \in D : b.entries[x].remote = Handle(d, j)
    BY <1>2, <1>8, <1>11, <1>13 DEF Mentions
  <2> QED
    BY <2>1, <2>2 DEF Mentions
<1>18. \A j \in Indices : b.at[j] <= Len(b.entries)
  BY <1>2, <1>3, <1>9, <1>10
<1>19. LoopInv(b, D, d)
  BY <1>2, <1>8, <1>9, <1>13, <1>14, <1>15, <1>16, <1>17, <1>18 DEF LoopInv
<1>20. Unseen(b, Handle(d, i))
  BY <1>0, <1>2, <1>11 DEF Unseen, Separate
<1> QED
  BY <1>19, <1>20 DEF b


\* A list of entries with one more, or another one.
LEMMA EntriesWith ==
    ASSUME NEW s \in Seq(Replica), NEW k \in 1 .. Len(s) + 1, NEW v \in Replica, v.remote # NoHandle
    PROVE  /\ With(s, k, v) \in Seq(Replica)
           /\ Len(With(s, k, v)) = IF k = Len(s) + 1 THEN Len(s) + 1 ELSE Len(s)
           /\ With(s, k, v)[k] = v
           /\ \A x \in 1 .. Len(s) : x # k => With(s, k, v)[x] = s[x]
           /\ Taken(With(s, k, v)) = Taken(s) \cup {k}
<1> DEFINE w == With(s, k, v)
           n == IF k = Len(s) + 1 THEN Len(s) + 1 ELSE Len(s)
<1>1. Len(s) \in Nat /\ DOMAIN s = 1 .. Len(s) /\ \A x \in 1 .. Len(s) : s[x] \in Replica
  BY TakenIs
<1>2. DOMAIN w = DOMAIN s \cup {k} /\ w[k] = v /\ \A x \in DOMAIN s : x # k => w[x] = s[x]
  BY DEF With
<1>3. n \in Nat /\ DOMAIN s \cup {k} = 1 .. n
  BY <1>1
<1>4. w = [x \in DOMAIN s \cup {k} |-> w[x]]
  BY DEF With
<1> HIDE DEF w
<1>5. \A x \in 1 .. n : w[x] \in Replica
  BY <1>1, <1>2, <1>3
<1>6. w \in [1 .. n -> Replica]
  BY <1>3, <1>4, <1>5
<1>7. w \in Seq(Replica)
  BY <1>3, <1>6, SeqDef
<1>8. Len(w) = n
  <2>1. DOMAIN w = 1 .. Len(w) /\ Len(w) \in Nat
    BY <1>7, LenProperties
  <2>2. 1 .. Len(w) = 1 .. n
    BY <1>2, <1>3, <2>1
  <2> HIDE DEF n
  <2>3. Len(w) \in 1 .. Len(w) <=> Len(w) \in 1 .. n
    BY <2>2
  <2>4. n \in 1 .. Len(w) <=> n \in 1 .. n
    BY <2>2
  <2>5. n \in Nat /\ Len(w) \in Nat
    BY <1>3, <2>1
  <2> QED
    BY <2>3, <2>4, <2>5
<1>9. Taken(w) = Taken(s) \cup {k}
  BY <1>1, <1>2 DEF Taken
<1> QED
  BY <1>1, <1>2, <1>7, <1>8, <1>9 DEF w

\* A replica spawned.
LEMMA SpawnedKeeps ==
    ASSUME MapInv, Room < MaxReplicated,
           NEW d \in Snapshot, NEW D \in SUBSET DOMAIN d, NEW a, LoopInv(a, D, d),
           NEW i \in DOMAIN d \ D, Unseen(a, Handle(d, i))
    PROVE  LoopInv(Spawned(a, i, Handle(d, i), d[i].value), D \cup {i}, d)
<1> DEFINE s == FreeEntry(a.entries)
           id == Fresh(a.locals)
           h == Handle(d, i)
           r == [remote |-> h, local |-> id]
           b == Spawned(a, i, h, d[i].value)
<1>1. /\ a.entries \in Seq(Replica) /\ a.at \in [Indices -> Nat] /\ a.locals \in Locals
      /\ i \in Indices /\ d[i].value \in Int /\ Len(a.entries) \in Nat
  BY RoundParts
<1>2. /\ a \in LoopType /\ a.full = FALSE /\ Len(a.entries) <= Room
      /\ \A j \in Indices : a.at[j] <= Len(a.entries)
      /\ a.present \subseteq Taken(a.entries)
      /\ Taken(a.entries) \subseteq {a.at[j] : j \in D} \cup Taken(map.entries)
      /\ Separate(a.entries, a.locals)
      /\ Linked(a, D, d) /\ Mentions(a, D, d)
  BY DEF LoopInv
<1>3. \A j \in D : j \in Indices /\ j # i
  BY RoundParts, Zenon
<1>4. h \in Indices \X Nat /\ h # NoHandle /\ h[1] = i
  BY HandleIs
<1>5. /\ s \in Nat /\ s \notin Taken(a.entries)
      /\ s \in 1 .. Len(a.entries) \/ (s = Len(a.entries) + 1 /\ Taken(a.entries) = 1 .. Len(a.entries))
  <2>1. /\ s \in Nat \ {0} /\ s \notin Taken(a.entries)
        /\ \/ s \in 1 .. Len(a.entries)
           \/ s = Len(a.entries) + 1 /\ Taken(a.entries) = 1 .. Len(a.entries)
    BY <1>1, FreeIs
  <2> HIDE DEF s
  <2> QED
    BY <2>1
<1>6. MaxReplicated \in Nat /\ Room \in Nat
  BY SnapshotAssumption, FewTaken DEF Room
<1>7. id \in 1 .. MaxReplicated + 1 /\ id \notin DOMAIN a.locals /\ id \in Nat /\ id # 0
  <2>1. Len(a.entries) <= MaxReplicated
    BY <1>1, <1>2, <1>6
  <2>2. id \in 1 .. MaxReplicated + 1 /\ id \notin DOMAIN a.locals
    BY <1>1, <1>2, <2>1, FreshIs
  <2> HIDE DEF id
  <2> QED
    BY <1>6, <2>2
<1> HIDE DEF s, id, h
<1>8. r \in Replica /\ r.remote = h /\ r.local = id
  BY <1>4, <1>7 DEF Replica
<1>9. b = [entries |-> With(a.entries, s, r), at |-> [a.at EXCEPT ![i] = s],
           locals |-> With(a.locals, id, d[i].value), present |-> a.present \cup {s}, full |-> FALSE]
  BY Zenon DEF Spawned, s, id
<1> HIDE DEF r, b
<1>10. s \in 1 .. Len(a.entries) + 1
  BY <1>1, <1>5
<1>11. /\ b.entries \in Seq(Replica)
       /\ Len(b.entries) = IF s = Len(a.entries) + 1 THEN Len(a.entries) + 1 ELSE Len(a.entries)
       /\ b.entries[s] = r
       /\ \A x \in 1 .. Len(a.entries) : x # s => b.entries[x] = a.entries[x]
       /\ Taken(b.entries) = Taken(a.entries) \cup {s}
  <2> DEFINE w == With(a.entries, s, r)
  <2>1. /\ w \in Seq(Replica)
        /\ Len(w) = IF s = Len(a.entries) + 1 THEN Len(a.entries) + 1 ELSE Len(a.entries)
        /\ w[s] = r
        /\ \A x \in 1 .. Len(a.entries) : x # s => w[x] = a.entries[x]
        /\ Taken(w) = Taken(a.entries) \cup {s}
    <3>1. a.entries \in Seq(Replica) /\ s \in 1 .. Len(a.entries) + 1 /\ r \in Replica /\ r.remote # NoHandle
      BY <1>1, <1>4, <1>8, <1>10
    <3> QED
      BY ONLY <3>1, EntriesWith
  <2>2. b.entries = w
    BY <1>9
  <2> HIDE DEF w
  <2> QED
    BY ONLY <2>1, <2>2
<1>12. \A x \in Taken(a.entries) : x # s /\ b.entries[x] = a.entries[x] /\ x \in Nat
                                   /\ x \in 1 .. Len(a.entries)
                                   /\ a.entries[x].remote[1] \in Indices
  <2>1. \A x \in Taken(a.entries) : x \in 1 .. Len(a.entries) /\ x \in Nat
                                    /\ a.entries[x].remote[1] \in Indices
    BY <1>1, TakenIs
  <2> QED
    BY <1>5, <1>11, <2>1
<1>13. /\ b.at \in [Indices -> Nat] /\ b.at[i] = s
       /\ \A j \in Indices : j # i => b.at[j] = a.at[j]
  BY <1>1, <1>5, <1>9
<1>14. /\ DOMAIN b.locals = DOMAIN a.locals \cup {id} /\ b.locals[id] = d[i].value
       /\ \A x \in DOMAIN a.locals : b.locals[x] = a.locals[x]
       /\ b.locals \in Locals
  <2>1. b.locals = With(a.locals, id, d[i].value)
    BY <1>9
  <2>2. /\ DOMAIN b.locals = DOMAIN a.locals \cup {id} /\ b.locals[id] = d[i].value
        /\ \A x \in DOMAIN a.locals : x # id => b.locals[x] = a.locals[x]
    BY <2>1 DEF With
  <2>3. PICK S \in SUBSET (1 .. MaxReplicated + 1) : a.locals \in [S -> Int]
    BY <1>1 DEF Locals
  <2>4. b.locals \in [S \cup {id} -> Int]
    <3>1. b.locals = [x \in DOMAIN a.locals \cup {id} |-> b.locals[x]]
      BY <2>1 DEF With
    <3>2. \A x \in DOMAIN a.locals \cup {id} : b.locals[x] \in Int
      BY <1>1, <2>2, <2>3
    <3>3. DOMAIN a.locals = S
      BY <2>3
    <3> QED
      BY <3>1, <3>2, <3>3
  <2>5. S \cup {id} \in SUBSET (1 .. MaxReplicated + 1)
    BY <1>7, <2>3
  <2> QED
    BY <1>7, <2>2, <2>4, <2>5 DEF Locals
<1>15. b.present = a.present \cup {s} /\ b.full = FALSE
  BY <1>9
<1>16. b \in LoopType
  <2>1. b.present \in SUBSET Nat
    BY <1>2, <1>5, <1>12, <1>15
  <2>2. b = [entries |-> b.entries, at |-> b.at, locals |-> b.locals, present |-> b.present,
             full |-> b.full]
    BY <1>9
  <2> QED
    BY <1>11, <1>13, <1>14, <1>15, <2>1, <2>2 DEF LoopType
<1>17. Taken(b.entries) \subseteq {b.at[j] : j \in D \cup {i}} \cup Taken(map.entries)
  <2>1. \A j \in D : b.at[j] = a.at[j]
    BY <1>3, <1>13
  <2> QED
    BY <1>2, <1>11, <1>13, <2>1
<1>18. Len(b.entries) <= Room
  <2>1. CASE s # Len(a.entries) + 1
    BY <1>2, <1>11, <2>1
  <2>2. CASE s = Len(a.entries) + 1
    <3>1. Taken(b.entries) = 1 .. Len(b.entries) /\ Len(b.entries) \in Nat
          /\ Len(b.entries) = Len(a.entries) + 1
      BY <1>1, <1>5, <1>11, <2>2
    <3>2. Taken(b.entries) \subseteq {b.at[j] : j \in Indices} \cup Taken(map.entries)
      BY <1>1, <1>3, <1>17
    <3>3. Cardinality(Taken(b.entries)) <= Room
      BY <1>13, <3>2, FewCovered
    <3>4. Cardinality(1 .. Len(b.entries)) = Len(b.entries)
      <4>1. Cardinality(1 .. Len(b.entries)) = IF 1 > Len(b.entries) THEN 0 ELSE Len(b.entries) - 1 + 1
        BY <3>1, FS_Interval
      <4> QED
        BY <3>1, <4>1
    <3> QED
      BY <3>1, <3>3, <3>4
  <2> QED
    BY <2>1, <2>2
<1>19. \A j \in Indices : b.at[j] <= Len(b.entries)
  BY <1>1, <1>2, <1>5, <1>11, <1>13
<1>20. b.present \subseteq Taken(b.entries)
  BY <1>2, <1>11, <1>15
<1>21. Separate(b.entries, b.locals)
  <2>1. ASSUME NEW e \in Taken(b.entries), NEW f \in Taken(b.entries), e # f
        PROVE  /\ b.entries[e].remote # b.entries[f].remote
               /\ b.entries[e].local = 0 \/ b.entries[e].local # b.entries[f].local
    <3>1. \A x \in Taken(a.entries) : /\ a.entries[x].remote # h
                                      /\ a.entries[x].local # id
      BY <1>2, <1>7 DEF Separate, Unseen, h
    <3>2. CASE e \in Taken(a.entries) /\ f \in Taken(a.entries)
      BY <1>2, <1>12, <2>1, <3>2 DEF Separate
    <3>3. CASE e = s /\ f \in Taken(a.entries)
      BY <1>8, <1>11, <1>12, <3>1, <3>3
    <3>4. CASE f = s /\ e \in Taken(a.entries)
      BY <1>8, <1>11, <1>12, <3>1, <3>4
    <3> QED
      BY <1>11, <2>1, <3>2, <3>3, <3>4
  <2>2. DOMAIN b.locals = {b.entries[e].local : e \in Taken(b.entries)} \ {0}
    <3>1. DOMAIN a.locals = {a.entries[e].local : e \in Taken(a.entries)} \ {0}
      BY <1>2 DEF Separate
    <3>2. {b.entries[e].local : e \in Taken(b.entries)} = {a.entries[e].local : e \in Taken(a.entries)} \cup {id}
      BY <1>8, <1>11, <1>12
    <3> QED
      BY <1>7, <1>14, <3>1, <3>2
  <2> QED
    BY <2>1, <2>2 DEF Separate
<1>22. Linked(b, D \cup {i}, d)
  <2> SUFFICES ASSUME NEW x \in Taken(b.entries)
               PROVE  LET handle == b.entries[x].remote
                      IN \/ b.at[handle[1]] = x
                         \/ handle = own /\ Outgrown
                         \/ handle[1] \in D \cup {i} /\ handle # Handle(d, handle[1])
    BY DEF Linked
  <2>1. CASE x = s
    BY <1>4, <1>8, <1>11, <1>13, <2>1
  <2>2. CASE x \in Taken(a.entries)
    <3>1. b.entries[x] = a.entries[x] /\ a.entries[x].remote[1] \in Indices
      BY <1>12, <2>2
    <3>2. CASE a.entries[x].remote[1] = i
      <4>1. a.entries[x].remote # Handle(d, i)
        BY <2>2 DEF Unseen
      <4> QED
        BY <3>1, <3>2, <4>1
    <3>3. CASE a.entries[x].remote[1] # i
      <4>1. b.at[a.entries[x].remote[1]] = a.at[a.entries[x].remote[1]]
        BY <1>13, <3>1, <3>3
      <4> QED
        BY <1>2, <2>2, <3>1, <4>1 DEF Linked
    <3> QED
      BY <3>2, <3>3
  <2> QED
    BY <1>11, <2>1, <2>2
<1>23. Mentions(b, D \cup {i}, d)
  <2>1. ASSUME NEW j \in D
        PROVE  StandsFor(b, j, d)
    <3>1. b.at[j] = a.at[j] /\ StandsFor(a, j, d)
      BY <1>2, <1>3, <1>13 DEF Mentions
    <3>2. a.at[j] \in a.present /\ a.at[j] \in Taken(a.entries)
      BY <1>2, <3>1 DEF StandsFor
    <3>3. b.entries[a.at[j]] = a.entries[a.at[j]]
      BY <1>12, <3>2
    <3>4. a.entries[a.at[j]].local # 0 => a.entries[a.at[j]].local \in DOMAIN a.locals
      BY <1>2, <3>2 DEF Separate
    <3>5. a.entries[a.at[j]].local # 0 =>
              b.locals[a.entries[a.at[j]].local] = a.locals[a.entries[a.at[j]].local]
      BY <1>14, <3>4
    <3> QED
      BY <1>15, <3>1, <3>2, <3>3, <3>5 DEF StandsFor
  <2>2. StandsFor(b, i, d)
    BY <1>7, <1>8, <1>11, <1>13, <1>14, <1>15 DEF StandsFor, h
  <2>3. \A x \in b.present : \E j \in D \cup {i} : b.entries[x].remote = Handle(d, j)
    <3>1. \A x \in a.present : \E j \in D : b.entries[x].remote = Handle(d, j)
      BY <1>2, <1>12 DEF Mentions
    <3>2. b.entries[s].remote = Handle(d, i)
      BY <1>8, <1>11 DEF h
    <3> QED
      BY <1>15, <3>1, <3>2
  <2> QED
    BY <2>1, <2>2, <2>3 DEF Mentions
<1>24. LoopInv(b, D \cup {i}, d)
  BY <1>15, <1>16, <1>17, <1>18, <1>19, <1>20, <1>21, <1>22, <1>23 DEF LoopInv
<1> QED
  BY <1>24 DEF b, h


\* A round of the loop.
LEMMA RoundKeeps ==
    ASSUME MapInv, Room < MaxReplicated,
           NEW d \in Snapshot, Timely(d), NEW D \in SUBSET DOMAIN d, NEW a, LoopInv(a, D, d),
           NEW i \in DOMAIN d \ D
    PROVE  LoopInv(ApplyOne(a, i, d[i]), D \cup {i}, d)
<1> DEFINE h == Handle(d, i)
           v == d[i].value
           e == a.at[i]
           known == Known(a, i, h)
<1>1. h = <<i, d[i].generation>>
  BY HandleIs
<1>2. a.full = FALSE /\ Len(a.entries) \in Nat
  BY RoundParts
<1>3. Len(a.entries) <= Room /\ MaxReplicated \in Nat /\ Room \in Nat
  BY SnapshotAssumption, FewTaken DEF LoopInv, Room
<1>4. CASE known /\ h = own
  <2>1. ApplyOne(a, i, d[i]) = OwnSeen(a, i)
    BY <1>1, <1>2, <1>4, Zenon DEF ApplyOne, OwnSeen
  <2> QED
    BY <1>4, <2>1, OwnSeenKeeps
<1>5. CASE known /\ h # own /\ a.entries[e].local # 0
  <2>1. ApplyOne(a, i, d[i]) = Moved(a, i, v)
    BY <1>1, <1>2, <1>5, Zenon DEF ApplyOne, Moved
  <2> QED
    BY <1>5, <2>1, MovedKeeps
<1>6. CASE known /\ h # own /\ a.entries[e].local = 0
  <2> DEFINE b == GivenUp(a, i)
  <2>1. LoopInv(b, D, d) /\ Unseen(b, h)
    BY <1>6, GivenUpKeeps
  <2>2. ~ (Len(b.entries) >= MaxReplicated)
    <3>1. Len(b.entries) <= Room /\ b.entries \in Seq(Replica)
      BY <2>1 DEF LoopInv, LoopType
    <3>2. Len(b.entries) \in Nat
      BY <3>1, TakenIs
    <3> HIDE DEF b
    <3> QED
      BY <1>3, <3>1, <3>2
  <2>3. ApplyOne(a, i, d[i]) = Spawned(b, i, h, v)
    BY <1>1, <1>2, <1>6, <2>2, Zenon DEF ApplyOne
  <2> HIDE DEF b
  <2>4. LoopInv(Spawned(b, i, h, v), D \cup {i}, d)
    BY <2>1, SpawnedKeeps
  <2> QED
    BY <2>3, <2>4
<1>7. CASE ~ known
  <2>1. Unseen(a, h)
    BY <1>7, UnknownIsUnseen
  <2>2. ~ (Len(a.entries) >= MaxReplicated)
    BY <1>2, <1>3
  <2>3. ApplyOne(a, i, d[i]) = Spawned(a, i, h, v)
    BY <1>1, <1>2, <1>7, <2>2, Zenon DEF ApplyOne
  <2>4. LoopInv(Spawned(a, i, h, v), D \cup {i}, d)
    BY <2>1, SpawnedKeeps
  <2> QED
    BY <2>3, <2>4
<1> QED
  BY <1>4, <1>5, <1>6, <1>7

\* The loop begins with the map as it is.
LEMMA LoopBegins ==
    ASSUME MapInv, NEW d \in Snapshot
    PROVE  LoopInv(Begun, {}, d)
<1>1. /\ map.entries \in Seq(Replica) /\ map.at \in [Indices -> Nat] /\ locals \in Locals
      /\ Len(map.entries) <= Room /\ \A i \in Indices : map.at[i] <= Len(map.entries)
      /\ LedTo /\ WorldAgreed
  BY DEF MapInv, MapTyped
<1>2. Begun.entries = map.entries /\ Begun.at = map.at /\ Begun.locals = locals
      /\ Begun.present = {} /\ Begun.full = FALSE
  BY DEF Begun
<1>3. Begun \in LoopType
  BY <1>1 DEF Begun, LoopType
<1>4. Separate(Begun.entries, Begun.locals)
  BY <1>1, <1>2 DEF Separate, WorldAgreed
<1>5. Linked(Begun, {}, d)
  BY <1>1, <1>2 DEF Linked, LedTo
<1>6. Mentions(Begun, {}, d)
  BY <1>2 DEF Mentions
<1> QED
  BY <1>1, <1>2, <1>3, <1>4, <1>5, <1>6 DEF LoopInv

\* The whole loop.
LEMMA LoopKeeps ==
    ASSUME MapInv, Room < MaxReplicated, NEW d \in Snapshot, Timely(d)
    PROVE  LoopInv(Visited(d)[LastIndex], DOMAIN d, d)
<1> DEFINE v == Visited(d)
           D(k) == {i \in DOMAIN d : i <= k}
           G == {k \in 0 .. LastIndex : LoopInv(v[k], D(k), d)}
<1>1. LastIndex \in Nat /\ \A i \in DOMAIN d : i \in Nat \ {0} /\ i <= LastIndex
  BY LastIs, SnapshotIs, SnapshotAssumption
<1>2. /\ v[0] = Begun
      /\ \A i \in 1 .. LastIndex : v[i] = Round(v[i - 1], i, d)
  BY VisitedIs
<1> HIDE DEF v
<1>3. 0 \in G
  <2>1. D(0) = {}
    BY <1>1
  <2>2. LoopInv(v[0], {}, d)
    BY <1>2, LoopBegins
  <2> QED
    BY <1>1, <2>1, <2>2
<1>4. ASSUME NEW k \in 0 .. LastIndex - 1, k \in G
      PROVE  k + 1 \in G
  <2>1. LoopInv(v[k], D(k), d)
    BY <1>4
  <2>2. v[k + 1] = Round(v[k], k + 1, d)
    <3>1. k + 1 \in 1 .. LastIndex /\ (k + 1) - 1 = k
      BY <1>1
    <3> QED
      BY <1>2, <3>1
  <2>3. CASE k + 1 \in DOMAIN d
    <3>1. k + 1 \notin D(k) /\ D(k + 1) = D(k) \cup {k + 1} /\ D(k) \in SUBSET DOMAIN d
      BY <1>1, <2>3
    <3> HIDE DEF D
    <3>2. LoopInv(ApplyOne(v[k], k + 1, d[k + 1]), D(k) \cup {k + 1}, d)
      BY <2>1, <2>3, <3>1, RoundKeeps
    <3>3. LoopInv(v[k + 1], D(k + 1), d)
      BY <2>2, <2>3, <3>1, <3>2 DEF Round
    <3> QED
      BY <1>1, <3>3
  <2>4. CASE k + 1 \notin DOMAIN d
    <3>1. D(k + 1) = D(k)
      BY <1>1, <2>4
    <3> HIDE DEF D
    <3>2. LoopInv(v[k + 1], D(k + 1), d)
      BY <2>1, <2>2, <2>4, <3>1 DEF Round
    <3> QED
      BY <1>1, <3>2
  <2> QED
    BY <2>3, <2>4
<1>5. LastIndex \in G
  <2>1. LastIndex \in 0 .. LastIndex
    BY <1>1
  <2> HIDE DEF G
  <2> QED
    BY <1>1, <1>3, <1>4, <2>1, UpTo
<1>6. D(LastIndex) = DOMAIN d
  BY <1>1
<1> QED
  BY <1>5, <1>6 DEF v

\* What the sweep leaves: what the snapshot described, and the player's own entity.
Settled(m, d) ==
    /\ \A i \in DOMAIN d :
           /\ m.at[i] \in Taken(m.entries) /\ m.entries[m.at[i]].remote = Handle(d, i)
           /\ \/ m.entries[m.at[i]].remote = own
              \/ m.locals[m.entries[m.at[i]].local] = d[i].value
    /\ \A e \in Taken(m.entries) :
           m.entries[e].remote = own \/ \E i \in DOMAIN d : m.entries[e].remote = Handle(d, i)
    /\ \A e \in Taken(m.entries) :
           LET handle == m.entries[e].remote
           IN  \/ m.at[handle[1]] = e
               \/ handle = own /\ Outgrown
               \/ handle = own /\ own[1] \in DOMAIN d /\ own # Handle(d, own[1])

\* The sweep takes what is neither, and the rest stays separate.
LEMMA SweepKeeps ==
    ASSUME NEW d \in Snapshot, NEW a, LoopInv(a, DOMAIN d, d), NEW m, m = SweepMap(a)
    PROVE  /\ m.entries \in Seq(Replica) /\ m.at \in [Indices -> Nat] /\ m.locals \in Locals
           /\ Len(m.entries) <= Room /\ \A i \in Indices : m.at[i] <= Len(m.entries)
           /\ Separate(m.entries, m.locals)
           /\ Settled(m, d)
<1> DEFINE S == Swept(a)
           T == Taken(a.entries)
<1>1. /\ a \in LoopType /\ Len(a.entries) <= Room /\ a.present \subseteq T
      /\ \A j \in Indices : a.at[j] <= Len(a.entries)
      /\ Separate(a.entries, a.locals) /\ Linked(a, DOMAIN d, d) /\ Mentions(a, DOMAIN d, d)
  BY DEF LoopInv
<1>2. /\ a.entries \in Seq(Replica) /\ a.at \in [Indices -> Nat] /\ a.locals \in Locals
  BY <1>1 DEF LoopType
<1>3. /\ Len(a.entries) \in Nat /\ DOMAIN a.entries = 1 .. Len(a.entries)
      /\ \A e \in 1 .. Len(a.entries) : a.entries[e] \in Replica
      /\ \A e \in T : e \in 1 .. Len(a.entries) /\ a.entries[e].remote # NoHandle
                      /\ a.entries[e].remote[1] \in Indices
  BY <1>2, TakenIs
<1>4. /\ m.entries = [e \in DOMAIN a.entries |-> IF e \in S THEN NoReplica ELSE a.entries[e]]
      /\ m.at = [i \in Indices |-> IF a.at[i] \in S THEN 0 ELSE a.at[i]]
      /\ m.locals = Without(a.locals, {a.entries[e].local : e \in S})
  BY DEF SweepMap
<1>5. S \subseteq T /\ \A e \in T : e \in S <=> e \notin a.present /\ (a.entries[e].remote # own \/ a.entries[e].local = 0)
  BY DEF Swept
<1> HIDE DEF S
<1>6. NoReplica \in Replica /\ NoReplica.remote = NoHandle
  BY DEF NoReplica, Replica
<1>7. m.entries \in [1 .. Len(a.entries) -> Replica]
  BY <1>3, <1>4, <1>6
<1>8. m.entries \in Seq(Replica)
  BY <1>3, <1>7, SeqDef
<1>9. Len(m.entries) = Len(a.entries)
  <2> DEFINE k == Len(m.entries)
             n == Len(a.entries)
  <2>1. 1 .. k = 1 .. n /\ k \in Nat /\ n \in Nat
    BY <1>3, <1>7, <1>8, LenProperties
  <2> HIDE DEF k, n
  <2>2. (k \in 1 .. k <=> k \in 1 .. n) /\ (n \in 1 .. k <=> n \in 1 .. n)
    BY <2>1
  <2>3. k = n
    BY <2>1, <2>2
  <2> QED
    BY <2>3 DEF k, n
<1>10. /\ Taken(m.entries) = T \ S
       /\ \A e \in Taken(m.entries) : m.entries[e] = a.entries[e]
  <2>1. DOMAIN m.entries = 1 .. Len(a.entries)
    BY <1>7
  <2> QED
    BY <1>3, <1>4, <1>6, <2>1 DEF Taken
<1>11. m.at \in [Indices -> Nat] /\ \A i \in Indices : m.at[i] <= Len(m.entries)
  BY <1>1, <1>2, <1>3, <1>4, <1>9
<1>12. /\ DOMAIN m.locals = DOMAIN a.locals \ {a.entries[e].local : e \in S}
       /\ \A x \in DOMAIN m.locals : m.locals[x] = a.locals[x]
       /\ m.locals \in Locals
  <2>1. m.locals = [x \in DOMAIN a.locals \ {a.entries[e].local : e \in S} |-> a.locals[x]]
    BY <1>4 DEF Without
  <2>2. PICK U \in SUBSET (1 .. MaxReplicated + 1) : a.locals \in [U -> Int]
    BY <1>2 DEF Locals
  <2>3. DOMAIN m.locals \in SUBSET (1 .. MaxReplicated + 1) /\ m.locals \in [DOMAIN m.locals -> Int]
    BY <2>1, <2>2
  <2> QED
    BY <2>1, <2>3 DEF Locals
<1>13. \A e \in T \ S : a.entries[e].local # 0 => a.entries[e].local \in DOMAIN m.locals
  <2> SUFFICES ASSUME NEW e \in T \ S, a.entries[e].local # 0
               PROVE  a.entries[e].local \in DOMAIN m.locals
    OBVIOUS
  <2>1. a.entries[e].local \in DOMAIN a.locals
    BY <1>1 DEF Separate
  <2>2. \A f \in S : a.entries[f].local # a.entries[e].local
    BY <1>1, <1>5 DEF Separate
  <2> QED
    BY <1>12, <2>1, <2>2
<1>14. Separate(m.entries, m.locals)
  <2>1. DOMAIN m.locals = {m.entries[e].local : e \in Taken(m.entries)} \ {0}
    <3>1. DOMAIN a.locals = {a.entries[e].local : e \in T} \ {0}
      BY <1>1 DEF Separate
    <3>2. DOMAIN m.locals \subseteq {a.entries[e].local : e \in T \ S} \ {0}
      BY <1>5, <1>12, <3>1
    <3>3. {a.entries[e].local : e \in T \ S} \ {0} \subseteq DOMAIN m.locals
      BY <1>13
    <3>4. {m.entries[e].local : e \in Taken(m.entries)} = {a.entries[e].local : e \in T \ S}
      BY <1>10
    <3> QED
      BY <3>2, <3>3, <3>4
  <2>2. \A e, f \in Taken(m.entries) :
            e # f => /\ m.entries[e].remote # m.entries[f].remote
                     /\ m.entries[e].local = 0 \/ m.entries[e].local # m.entries[f].local
    BY <1>1, <1>10 DEF Separate
  <2> QED
    BY <2>1, <2>2 DEF Separate
<1>15. ASSUME NEW i \in DOMAIN d
       PROVE  /\ m.at[i] \in Taken(m.entries) /\ m.entries[m.at[i]].remote = Handle(d, i)
              /\ \/ m.entries[m.at[i]].remote = own
                 \/ m.locals[m.entries[m.at[i]].local] = d[i].value
  <2> DEFINE e == a.at[i]
  <2>1. /\ e \in a.present /\ a.entries[e].remote = Handle(d, i)
        /\ \/ a.entries[e].remote = own
           \/ (a.entries[e].local # 0 /\ a.locals[a.entries[e].local] = d[i].value)
    BY <1>1 DEF Mentions, StandsFor
  <2>2. e \in T \ S
    BY <1>1, <1>5, <2>1
  <2>3. i \in Indices
    BY HandleIs
  <2>4. m.at[i] = e
    BY <1>4, <2>2, <2>3
  <2> HIDE DEF e
  <2>5. m.entries[e] = a.entries[e] /\ e \in Taken(m.entries)
    BY <1>10, <2>2
  <2>6. a.entries[e].local # 0 => m.locals[a.entries[e].local] = a.locals[a.entries[e].local]
    BY <1>12, <1>13, <2>2
  <2> QED
    BY <2>1, <2>4, <2>5, <2>6
<1>16. ASSUME NEW e \in Taken(m.entries)
       PROVE  m.entries[e].remote = own \/ \E i \in DOMAIN d : m.entries[e].remote = Handle(d, i)
  BY <1>1, <1>5, <1>10 DEF Mentions
<1>17. ASSUME NEW e \in Taken(m.entries)
       PROVE  LET handle == m.entries[e].remote
              IN  \/ m.at[handle[1]] = e
                  \/ handle = own /\ Outgrown
                  \/ handle = own /\ own[1] \in DOMAIN d /\ own # Handle(d, own[1])
  <2> DEFINE h == a.entries[e].remote
  <2>1. e \in T /\ e \notin S /\ m.entries[e] = a.entries[e] /\ h[1] \in Indices
    BY <1>3, <1>10
  <2>2. CASE a.at[h[1]] = e
    BY <1>4, <2>1, <2>2
  <2>3. CASE h = own /\ Outgrown
    BY <2>1, <2>3
  <2>4. CASE h[1] \in DOMAIN d /\ h # Handle(d, h[1])
    <3>1. CASE h = own
      BY <2>1, <2>4, <3>1
    <3>2. CASE h # own
      <4>1. PICK i \in DOMAIN d : h = Handle(d, i)
        BY <1>16, <2>1, <3>2
      <4>2. h[1] = i
        BY <4>1, HandleIs
      <4> QED
        BY <2>4, <4>1, <4>2
    <3> QED
      BY <3>1, <3>2
  <2> QED
    BY <1>1, <2>1, <2>2, <2>3, <2>4 DEF Linked
<1>18. Settled(m, d)
  BY <1>15, <1>16, <1>17 DEF Settled
<1> QED
  BY <1>1, <1>8, <1>9, <1>11, <1>12, <1>14, <1>18


\* What the client was last told of the world.
Described == IF shown = 0 THEN Nothing ELSE meant[shown]

Shows(entries, at, replicas, d) ==
    /\ \A i \in DOMAIN d :
           \E e \in Taken(entries) :
               /\ entries[e].remote = Handle(d, i) /\ at[i] = e
               /\ entries[e].local = 0 \/ entries[e].remote = own
                  \/ replicas[entries[e].local] = d[i].value
    /\ \A e \in Taken(entries) :
           entries[e].remote = own \/ \E i \in DOMAIN d : entries[e].remote = Handle(d, i)

\* The world agrees where the client shows what it was told, each entity apart.
LEMMA WorldIs ==
    /\ WorldAgreed <=> Shows(map.entries, map.at, locals, Described) /\ Separate(map.entries, locals)
    /\ WorldAgreed' <=> Shows(map.entries, map.at, locals, Described)' /\ Separate(map.entries, locals)'
<1>1. WorldAgreed <=> Shows(map.entries, map.at, locals, Described) /\ Separate(map.entries, locals)
  BY Zenon DEF WorldAgreed, Shows, Separate, Described
<1>2. WorldAgreed' <=> Shows(map.entries, map.at, locals, Described)' /\ Separate(map.entries, locals)'
  BY <1>1, PTL
<1> QED
  BY <1>1, <1>2

\* No map, no replica.
LEMMA NoMapIs ==
    /\ NoMap.entries \in Seq(Replica) /\ Len(NoMap.entries) = 0 /\ Taken(NoMap.entries) = {}
    /\ NoMap.at \in [Indices -> Nat] /\ \A i \in Indices : NoMap.at[i] = 0
    /\ Nothing \in Locals /\ DOMAIN Nothing = {} /\ Room \in Nat
<1>1. NoMap.entries = << >> /\ NoMap.at = [i \in Indices |-> 0]
  BY DEF NoMap
<1>2. NoMap.entries \in Seq(Replica) /\ Len(NoMap.entries) = 0
  BY <1>1, EmptySeq
<1>3. Taken(NoMap.entries) = {}
  <2>1. DOMAIN NoMap.entries = 1 .. 0
    BY <1>2, LenProperties
  <2> QED
    BY <2>1 DEF Taken
<1>4. Nothing \in [{} -> Int] /\ DOMAIN Nothing = {}
  BY NothingIs
<1>5. Nothing \in Locals
  BY <1>4 DEF Locals
<1>6. Room \in Nat
  BY SnapshotAssumption, FS_CardinalityType DEF Room
<1> QED
  BY <1>1, <1>2, <1>3, <1>4, <1>5, <1>6

\* The first map is empty, and nothing has been described.
LEMMA MapInit ==
    SnapshotsInit => MapInv
<1> SUFFICES ASSUME SnapshotsInit
             PROVE  MapInv
  OBVIOUS
<1>1. /\ map = NoMap /\ locals = Nothing /\ shown = 0 /\ DOMAIN meant = {} /\ own = <<Own, 1>>
  BY NothingIs DEF SnapshotsInit, Nothing
<1>2. MapTyped
  <2>1. NoMap \in [entries : Seq(Replica), at : [Indices -> Nat]]
    BY NoMapIs DEF NoMap
  <2> QED
    BY <1>1, <2>1, NoMapIs DEF MapTyped
<1>3. Aging
  <2>1. Own \in Indices
    BY SnapshotAssumption
  <2>2. world[own[1]].generation = 1
    BY <1>1, <2>1 DEF SnapshotsInit
  <2> QED
    BY <1>1, <2>2 DEF Aging
<1>4. LedTo
  BY <1>1, NoMapIs DEF LedTo
<1>5. WorldAgreed
  <2>1. Shows(map.entries, map.at, locals, Described)
    BY <1>1, NoMapIs DEF Shows, Described
  <2>2. Separate(map.entries, locals)
    BY <1>1, NoMapIs DEF Separate
  <2> QED
    BY <2>1, <2>2, WorldIs
<1> QED
  BY <1>2, <1>3, <1>4, <1>5 DEF MapInv

\* The entities of a slot only get newer.
LEMMA EvolvesAges ==
    ASSUME NEW w \in [Indices -> Actor], NEW x \in Evolves(w), NEW i \in Indices
    PROVE  /\ x[i].generation \in Nat /\ w[i].generation \in Nat
           /\ w[i].generation <= x[i].generation
<1>0. Busy \subseteq Indices
  BY SnapshotAssumption
<1>1. w[i] \in Actor /\ w[i].generation \in Nat
  BY DEF Actor
<1>2. x[i] \in Actor /\ x[i].generation \in Nat
  BY EvolvesTyped DEF Actor
<1>3. CASE x = w
  BY <1>1, <1>3
<1>4. ASSUME NEW k \in {j \in Busy : w[j].lives}, NEW v \in Values, x = [w EXCEPT ![k].value = v]
      PROVE  w[i].generation <= x[i].generation
  BY <1>0, <1>1, <1>4 DEF Actor
<1>5. ASSUME NEW k \in Indices, x = [w EXCEPT ![k].lives = FALSE]
      PROVE  w[i].generation <= x[i].generation
  BY <1>1, <1>5 DEF Actor
<1>6. ASSUME NEW k \in {j \in Busy : w[j].generation < MaxGeneration}, NEW v \in Values,
             x = [w EXCEPT ![k] = [generation |-> @.generation + 1, value |-> v, lives |-> TRUE]]
      PROVE  w[i].generation <= x[i].generation
  BY <1>0, <1>1, <1>6
<1>7. w[i].generation <= x[i].generation
  BY <1>3, <1>4, <1>5, <1>6 DEF Evolves
<1> QED
  BY <1>1, <1>2, <1>7

\* A snapshot has the generations of the world it was captured from.
LEMMA CapturedAges ==
    ASSUME NEW w \in [Indices -> Actor], NEW e \in Relevant(Captured(w)), NEW i \in DOMAIN e
    PROVE  i \in Indices /\ e[i].generation = w[i].generation
<1>1. PICK kept \in SUBSET DOMAIN Captured(w) : e = [j \in kept |-> Captured(w)[j]]
  BY DEF Relevant
<1>2. i \in DOMAIN Captured(w) /\ e[i] = Captured(w)[i]
  BY <1>1
<1> QED
  BY <1>2 DEF Captured


\* What the client shows stays, whatever the server does next.
LEMMA ShownIsMeant ==
    ASSUME DeltaInv, shown # 0
    PROVE  shown \in DOMAIN meant /\ meant[shown] \in Snapshot
<1>1. shown \in Nat /\ shown <= decoded[Slot(shown)].tick
  BY DEF DeltaInv, WireTyped, Ordered
<1>2. Slot(shown) \in 0 .. SnapshotHistory - 1
  BY <1>1, SlotIs
<1>3. decoded[Slot(shown)].tick <= shown /\ decoded[Slot(shown)].tick \in Nat
  BY <1>2 DEF DeltaInv, WireTyped, Ordered, Ring
<1>4. decoded[Slot(shown)].tick = shown
  BY <1>1, <1>3
<1>5. shown \in DOMAIN meant
  BY <1>2, <1>4 DEF DeltaInv, Remembering
<1> QED
  BY <1>5 DEF DeltaInv, WireTyped

\* What the client was last told is a snapshot.
LEMMA DescribedIs ==
    ASSUME DeltaInv
    PROVE  Described \in Snapshot
BY ShownIsMeant, NothingIs DEF Described

\* A step that leaves the map alone, and what it shows, keeps its invariant.
LEMMA SameMap ==
    ASSUME DeltaInv, MapInv, map' = map, locals' = locals, own' = own,
           Described' = Described, Outgrown => Outgrown', Aging'
    PROVE  MapInv'
<1>1. MapTyped /\ LedTo /\ WorldAgreed
  BY DEF MapInv
<1>2. MapTyped'
  BY <1>1 DEF MapTyped
<1>3. LedTo'
  BY <1>1 DEF LedTo
<1>4. WorldAgreed'
  <2>1. Shows(map.entries, map.at, locals, Described) /\ Separate(map.entries, locals)
    BY <1>1, WorldIs
  <2>2. Shows(map.entries, map.at, locals, Described)'
    <3> DEFINE d == Described
    <3>1. PICK d0 : d0 = Described
      OBVIOUS
    <3>2. Shows(map.entries, map.at, locals, d0) /\ Described' = d0
      BY <2>1, <3>1
    <3>3. Shows(map.entries, map.at, locals, d0)'
      BY <3>2 DEF Shows
    <3> QED
      BY <3>2, <3>3 DEF Shows
  <2>3. Separate(map.entries, locals)'
    BY <2>1 DEF Separate
  <2> QED
    BY <2>2, <2>3, WorldIs
<1> QED
  BY <1>2, <1>3, <1>4 DEF MapInv

\* The server goes on, and may send what it sees.
LEMMA TickKeepsWorld ==
    ASSUME DeltaInv, MapInv, ServerTick
    PROVE  MapInv'
<1>1. /\ tick' = tick + 1 /\ world' \in Evolves(world)
      /\ map' = map /\ locals' = locals /\ own' = own /\ shown' = shown
  BY DEF ServerTick, clientVars
<1>2. /\ ServerTyped /\ WireTyped /\ Ordered
  BY DEF DeltaInv
<1>3. Aging
  BY DEF MapInv
<1>4. PICK w : w = world'
  OBVIOUS
<1>5. /\ w \in Evolves(world) /\ world \in [Indices -> Actor] /\ w \in [Indices -> Actor]
      /\ own[1] \in Indices /\ own[2] \in Nat /\ tick \in Nat /\ shown \in Nat /\ shown <= tick
  BY <1>1, <1>2, <1>4, EvolvesTyped DEF ServerTyped, WireTyped, Ordered
<1>6. \A i \in Indices : /\ w[i].generation \in Nat /\ world[i].generation \in Nat
                         /\ world[i].generation <= w[i].generation
  BY <1>5, EvolvesAges
<1>7. \A t \in DOMAIN meant : /\ t \in Nat /\ t <= tick
                              /\ \A i \in DOMAIN meant[t] : i \in Indices /\ meant[t][i].generation \in Nat
  <2>1. \A t \in DOMAIN meant : meant[t] \in Snapshot /\ t \in Nat
    BY <1>2 DEF WireTyped
  <2> QED
    BY <1>3, <2>1, HandleIs DEF Aging
<1>8. \/ meant' = meant
      \/ \E e \in Relevant(Captured(w)) :
             meant' = [t \in DOMAIN meant \cup {tick + 1} |-> IF t = tick + 1 THEN e ELSE meant[t]]
  BY <1>1, <1>4, ZenonT(60) DEF ServerTick, SendSnapshot, SkipSnapshot
<1>9. \A t \in DOMAIN meant : t \in DOMAIN meant' /\ meant'[t] = meant[t]
  <2>1. \A t \in DOMAIN meant : t # tick + 1
    BY <1>5, <1>7
  <2> QED
    BY <1>8, <2>1
<1>10. \A t \in DOMAIN meant' :
           t \notin DOMAIN meant => /\ t = tick + 1
                                    /\ \A i \in DOMAIN meant'[t] : i \in Indices /\ meant'[t][i].generation = w[i].generation
  <2>1. CASE meant' = meant
    BY <2>1
  <2>2. ASSUME NEW e \in Relevant(Captured(w)),
               meant' = [t \in DOMAIN meant \cup {tick + 1} |-> IF t = tick + 1 THEN e ELSE meant[t]]
        PROVE  \A t \in DOMAIN meant' :
                   t \notin DOMAIN meant =>
                       /\ t = tick + 1
                       /\ \A i \in DOMAIN meant'[t] : i \in Indices /\ meant'[t][i].generation = w[i].generation
    <3>1. \A i \in DOMAIN e : i \in Indices /\ e[i].generation = w[i].generation
      BY <1>5, CapturedAges
    <3>2. \A t \in DOMAIN meant' : t \notin DOMAIN meant => t = tick + 1 /\ meant'[t] = e
      BY <2>2
    <3> QED
      BY <3>1, <3>2
  <2> QED
    BY <1>8, <2>1, <2>2
<1>11. Aging'
  <2>1. \A t \in DOMAIN meant' : t \in Nat /\ t <= tick'
    BY <1>1, <1>5, <1>7, <1>10
  <2>2. ASSUME NEW t \in DOMAIN meant', NEW i \in DOMAIN meant'[t]
        PROVE  /\ meant'[t][i].generation <= world'[i].generation
               /\ \A u \in DOMAIN meant' : t <= u /\ i \in DOMAIN meant'[u] =>
                      meant'[t][i].generation <= meant'[u][i].generation
               /\ i = own'[1] => own'[2] <= meant'[t][i].generation
    <3>1. CASE t \in DOMAIN meant
      <4>1. /\ i \in DOMAIN meant[t] /\ meant'[t] = meant[t] /\ i \in Indices
            /\ meant[t][i].generation \in Nat
        BY <1>7, <1>9, <2>2, <3>1
      <4>2. /\ meant[t][i].generation <= world[i].generation
            /\ \A u \in DOMAIN meant : t <= u /\ i \in DOMAIN meant[u] =>
                   meant[t][i].generation <= meant[u][i].generation
            /\ i = own[1] => own[2] <= meant[t][i].generation
        BY <1>3, <3>1, <4>1 DEF Aging
      <4>3. meant[t][i].generation <= w[i].generation
        BY <1>6, <4>1, <4>2
      <4>4. \A u \in DOMAIN meant' : t <= u /\ i \in DOMAIN meant'[u] =>
                meant[t][i].generation <= meant'[u][i].generation
        <5> SUFFICES ASSUME NEW u \in DOMAIN meant', t <= u, i \in DOMAIN meant'[u]
                     PROVE  meant[t][i].generation <= meant'[u][i].generation
          OBVIOUS
        <5>1. CASE u \in DOMAIN meant
          BY <1>9, <4>2, <5>1
        <5>2. CASE u \notin DOMAIN meant
          BY <1>10, <4>3, <5>2
        <5> QED
          BY <5>1, <5>2
      <4> QED
        BY <1>1, <1>4, <4>1, <4>2, <4>3, <4>4
    <3>2. CASE t \notin DOMAIN meant
      <4>1. t = tick + 1 /\ i \in Indices /\ meant'[t][i].generation = w[i].generation
        BY <1>10, <2>2, <3>2
      <4>2. \A u \in DOMAIN meant' : t <= u => u = t
        BY <1>5, <1>7, <1>10, <4>1
      <4>3. own[2] <= world[own[1]].generation
        BY <1>3 DEF Aging
      <4>4. i = own[1] => own[2] <= w[i].generation
        BY <1>5, <1>6, <4>3
      <4>5. w[i].generation <= w[i].generation
        BY <1>6, <4>1
      <4> QED
        BY <1>1, <1>4, <4>1, <4>2, <4>4, <4>5
    <3> QED
      BY <3>1, <3>2
  <2>3. own'[2] <= world'[own'[1]].generation
    <3>1. own[2] <= world[own[1]].generation
      BY <1>3 DEF Aging
    <3> QED
      BY <1>1, <1>4, <1>5, <1>6, <3>1
  <2> QED
    BY <2>1, <2>2, <2>3 DEF Aging
<1>12. Outgrown => Outgrown'
  <2> SUFFICES ASSUME Outgrown
               PROVE  Outgrown'
    OBVIOUS
  <2>1. own[2] < w[own[1]].generation
    BY <1>5, <1>6 DEF Outgrown
  <2>2. ASSUME NEW t \in DOMAIN meant', t >= shown, own[1] \in DOMAIN meant'[t]
        PROVE  own[2] < meant'[t][own[1]].generation
    <3>1. CASE t \in DOMAIN meant
      BY <1>9, <2>2, <3>1 DEF Outgrown
    <3>2. CASE t \notin DOMAIN meant
      BY <1>10, <2>1, <2>2, <3>2
    <3> QED
      BY <3>1, <3>2
  <2> QED
    BY <1>1, <1>4, <2>1, <2>2 DEF Outgrown
<1>13. Described' = Described
  BY <1>1, <1>9, ShownIsMeant DEF Described
<1> QED
  BY <1>1, <1>11, <1>12, <1>13, SameMap


\* The client takes a snapshot, and shows what it describes.
LEMMA TakeKeepsWorld ==
    ASSUME DeltaInv, MapInv, Room < MaxReplicated, NEW m \in wire, TakeSnapshot(m)
    PROVE  MapInv'
<1>0. ServerTyped /\ WireTyped /\ Ordered
  BY DEF DeltaInv
<1>t. PICK t : t = m.tick
  OBVIOUS
<1>d. PICK d : d = meant[t]
  OBVIOUS
<1>1. t \in DOMAIN meant /\ d \in Snapshot /\ Decode(m, ReadBase(m)) = d
  BY <1>t, <1>d, ReadsWhatWasMeant
<1>a. PICK a : a = Applied(d)
  OBVIOUS
<1>2. /\ t \in Nat \ {0} /\ shown < t /\ shown \in Nat /\ t <= tick /\ tick \in Nat
      /\ own[1] \in Indices /\ own[2] \in Nat /\ own = <<own[1], own[2]>>
  BY <1>0, <1>1, <1>t DEF Ordered, WireTyped, ServerTyped
<1>3. /\ map' = [entries |-> a.entries, at |-> a.at] /\ locals' = a.locals
      /\ shown' = t /\ own' = own /\ world' = world /\ tick' = tick
      /\ decoded' = [decoded EXCEPT ![Slot(t)] = [tick |-> t, entities |-> d]]
      /\ meant' = Remembered(meant, wire', decoded')
  BY <1>1, <1>t, <1>a DEF TakeSnapshot, serverVars
<1>4. /\ \A x \in DOMAIN meant' : x \in DOMAIN meant /\ meant'[x] = meant[x]
      /\ t \in DOMAIN meant'
  <2> DEFINE T == {x.tick : x \in wire'} \cup {decoded'[s].tick : s \in DOMAIN decoded'}
  <2>1. meant' = [x \in DOMAIN meant \cap T |-> meant[x]]
    BY <1>3 DEF Remembered
  <2>2. Slot(t) \in DOMAIN decoded' /\ decoded'[Slot(t)].tick = t
    BY <1>0, <1>2, <1>3, SlotIs DEF WireTyped, Ring
  <2>3. t \in T
    BY <2>2
  <2> HIDE DEF T
  <2> QED
    BY <1>1, <2>1, <2>3
<1>5. Aging
  BY DEF MapInv
<1>6. Timely(d)
  <2> SUFFICES ASSUME Outgrown, own[1] \in DOMAIN d
               PROVE  d[own[1]].generation # own[2]
    BY DEF Timely
  <2>1. own[2] < d[own[1]].generation
    BY <1>1, <1>2, <1>d DEF Outgrown
  <2>2. d[own[1]].generation \in Nat
    BY <1>1, HandleIs
  <2> QED
    BY <1>2, <2>1, <2>2
<1>7. PICK v : v = Visited(d)[LastIndex]
  OBVIOUS
<1>8. LoopInv(v, DOMAIN d, d)
  BY <1>1, <1>6, <1>7, LoopKeeps
<1>9. a = SweepMap(v)
  BY <1>a, <1>7 DEF Applied
<1>10. /\ a.entries \in Seq(Replica) /\ a.at \in [Indices -> Nat] /\ a.locals \in Locals
       /\ Len(a.entries) <= Room /\ \A i \in Indices : a.at[i] <= Len(a.entries)
       /\ Separate(a.entries, a.locals)
       /\ Settled(a, d)
  BY <1>1, <1>8, <1>9, SweepKeeps
<1>14. MapTyped'
  BY <1>3, <1>10 DEF MapTyped, Room
<1>15. Aging'
  <2>1. \A x \in DOMAIN meant' : x <= tick'
    BY <1>3, <1>4, <1>5 DEF Aging
  <2>2. ASSUME NEW x \in DOMAIN meant', NEW i \in DOMAIN meant'[x]
        PROVE  /\ meant'[x][i].generation <= world'[i].generation
               /\ \A u \in DOMAIN meant' : x <= u /\ i \in DOMAIN meant'[u] =>
                      meant'[x][i].generation <= meant'[u][i].generation
               /\ i = own'[1] => own'[2] <= meant'[x][i].generation
    <3>1. x \in DOMAIN meant /\ meant'[x] = meant[x] /\ i \in DOMAIN meant[x]
      BY <1>4, <2>2
    <3>2. /\ meant[x][i].generation <= world[i].generation
          /\ \A u \in DOMAIN meant : x <= u /\ i \in DOMAIN meant[u] =>
                 meant[x][i].generation <= meant[u][i].generation
          /\ i = own[1] => own[2] <= meant[x][i].generation
      BY <1>5, <3>1 DEF Aging
    <3> QED
      BY <1>3, <1>4, <3>1, <3>2
  <2>3. own'[2] <= world'[own'[1]].generation
    BY <1>3, <1>5 DEF Aging
  <2> QED
    BY <2>1, <2>2, <2>3 DEF Aging
<1>16. Outgrown => Outgrown'
  <2> SUFFICES ASSUME Outgrown
               PROVE  Outgrown'
    OBVIOUS
  <2>1. \A x \in DOMAIN meant' : x >= t => x >= shown
    <3>1. \A x \in DOMAIN meant' : x \in Nat
      BY <1>0, <1>4 DEF WireTyped
    <3> QED
      BY <1>2, <3>1
  <2> QED
    BY <1>3, <1>4, <2>1 DEF Outgrown
<1>17. own[1] \in DOMAIN d /\ own # Handle(d, own[1]) => Outgrown'
  <2> SUFFICES ASSUME own[1] \in DOMAIN d, own # Handle(d, own[1])
               PROVE  Outgrown'
    OBVIOUS
  <2> DEFINE g == d[own[1]].generation
  <2>1. g \in Nat /\ g # own[2]
    <3>1. Handle(d, own[1]) = <<own[1], g>> /\ g \in Nat
      BY <1>1, HandleIs
    <3> QED
      BY <1>2, <3>1
  <2>2. /\ own[2] <= g /\ g <= world[own[1]].generation
        /\ \A u \in DOMAIN meant : t <= u /\ own[1] \in DOMAIN meant[u] =>
               g <= meant[u][own[1]].generation
    BY <1>1, <1>5, <1>d DEF Aging
  <2> HIDE DEF g
  <2>3. own[2] < g
    BY <1>2, <2>1, <2>2
  <2>4. world[own[1]].generation \in Nat
    BY <1>0, <1>2 DEF ServerTyped, Actor
  <2>5. own[2] < world[own[1]].generation
    BY <1>2, <2>1, <2>2, <2>3, <2>4
  <2>6. ASSUME NEW u \in DOMAIN meant', u >= t, own[1] \in DOMAIN meant'[u]
        PROVE  own[2] < meant'[u][own[1]].generation
    <3>1. u \in DOMAIN meant /\ meant'[u] = meant[u] /\ u \in Nat /\ meant[u] \in Snapshot
      BY <1>0, <1>4, <2>6 DEF WireTyped
    <3>2. meant[u][own[1]].generation \in Nat
      BY <2>6, <3>1, HandleIs
    <3>3. t <= u
      BY <1>2, <2>6, <3>1
    <3>4. g <= meant[u][own[1]].generation
      BY <2>2, <2>6, <3>1, <3>3
    <3> QED
      BY <1>2, <2>1, <2>3, <3>1, <3>2, <3>4
  <2> QED
    BY <1>3, <2>5, <2>6 DEF Outgrown
<1>18. LedTo'
  BY <1>3, <1>10, <1>16, <1>17 DEF LedTo, Settled
<1>19. WorldAgreed'
  <2>1. Described' = d
    BY <1>2, <1>3, <1>4, <1>d DEF Described
  <2>2. \A i \in DOMAIN d :
           \E e \in Taken(a.entries) :
               /\ a.entries[e].remote = Handle(d, i) /\ a.at[i] = e
               /\ a.entries[e].local = 0 \/ a.entries[e].remote = own
                  \/ a.locals[a.entries[e].local] = d[i].value
    BY <1>10 DEF Settled
  <2>3. Shows(map.entries, map.at, locals, Described)'
    BY <1>3, <1>10, <2>1, <2>2 DEF Shows, Settled
  <2>4. Separate(map.entries, locals)'
    BY <1>3, <1>10 DEF Separate
  <2> QED
    BY <2>3, <2>4, WorldIs
<1> QED
  BY <1>14, <1>15, <1>18, <1>19 DEF MapInv


\* A replica the client's own game despawns leaves the others as they are.
LEMMA KillKeepsWorld ==
    ASSUME DeltaInv, MapInv, NEW e \in Taken(map.entries), KillReplica(e)
    PROVE  MapInv'
<1> DEFINE E == map.entries
           l == map.entries[e].local
           r == [map.entries[e] EXCEPT !.local = 0]
<1>1. /\ map \in [entries : Seq(Replica), at : [Indices -> Nat]] /\ locals \in Locals
      /\ Len(E) <= Room /\ \A i \in Indices : map.at[i] <= Len(E)
      /\ LedTo /\ WorldAgreed /\ Aging
  BY DEF MapInv, MapTyped
<1>2. E \in Seq(Replica) /\ map.at \in [Indices -> Nat]
  BY <1>1
<1>3. e \in 1 .. Len(E) /\ DOMAIN E = 1 .. Len(E) /\ Len(E) \in Nat /\ E[e] \in Replica
  BY <1>2, TakenIs
<1>4. l # 0 /\ locals' = Without(locals, {l}) /\ map' = [map EXCEPT !.entries[e].local = 0]
  BY DEF KillReplica
<1>5. r \in Replica /\ r.remote = E[e].remote /\ r.local = 0
  BY <1>3 DEF Replica
<1>6. map' = [map EXCEPT !.entries = [map.entries EXCEPT ![e] = r]]
  BY <1>4, Zenon
<1> HIDE DEF r
<1>7. /\ map'.entries = [E EXCEPT ![e] = r] /\ map'.at = map.at
      /\ [E EXCEPT ![e] = r] \in Seq(Replica)
      /\ Len([E EXCEPT ![e] = r]) = Len(E)
      /\ \A j \in 1 .. Len(E) : [E EXCEPT ![e] = r][j] = IF j = e THEN r ELSE E[j]
  <2>1. /\ [E EXCEPT ![e] = r] \in Seq(Replica)
        /\ Len([E EXCEPT ![e] = r]) = Len(E)
        /\ \A j \in 1 .. Len(E) : [E EXCEPT ![e] = r][j] = IF j = e THEN r ELSE E[j]
    BY <1>2, <1>3, <1>5, ExceptSeq
  <2>2. map'.entries = [E EXCEPT ![e] = r] /\ map'.at = map.at
    BY <1>1, <1>6
  <2> QED
    BY <2>1, <2>2
<1>8. PICK F : F = map'.entries
  OBVIOUS
<1>9. /\ F \in Seq(Replica) /\ Len(F) = Len(E)
      /\ F[e] = r /\ \A x \in 1 .. Len(E) : x # e => F[x] = E[x]
  BY <1>3, <1>7, <1>8
<1>10. /\ Taken(F) = Taken(E)
       /\ \A x \in Taken(E) : F[x].remote = E[x].remote /\ (x # e => F[x] = E[x])
  <2>1. DOMAIN F = 1 .. Len(E)
    BY <1>9, TakenIs
  <2> QED
    BY <1>3, <1>5, <1>9, <2>1 DEF Taken
<1>11. map' \in [entries : Seq(Replica), at : [Indices -> Nat]]
  BY <1>1, <1>6, <1>7
<1>12. PICK ls : ls = locals'
  OBVIOUS
<1>13. /\ DOMAIN ls = DOMAIN locals \ {l} /\ \A x \in DOMAIN ls : ls[x] = locals[x]
       /\ ls \in Locals
  <2>1. ls = [x \in DOMAIN locals \ {l} |-> locals[x]]
    BY <1>4, <1>12 DEF Without
  <2>2. PICK U \in SUBSET (1 .. MaxReplicated + 1) : locals \in [U -> Int]
    BY <1>1 DEF Locals
  <2>3. DOMAIN ls \in SUBSET (1 .. MaxReplicated + 1) /\ ls \in [DOMAIN ls -> Int]
    BY <2>1, <2>2
  <2> QED
    BY <2>1, <2>3 DEF Locals
<1>14. own' = own /\ world' = world /\ meant' = meant /\ shown' = shown /\ tick' = tick
  BY DEF KillReplica, serverVars
<1>15. Separate(E, locals) /\ Shows(E, map.at, locals, Described)
  BY <1>1, WorldIs
<1>16. \A x \in Taken(E) : x # e => E[x].local = 0 \/ E[x].local # l
  BY <1>15 DEF Separate
<1>17. MapTyped'
  BY <1>1, <1>7, <1>8, <1>9, <1>11, <1>12, <1>13 DEF MapTyped, Room
<1>18. Aging'
  BY <1>1, <1>14 DEF Aging
<1>19. LedTo'
  <2>1. Outgrown' = Outgrown
    BY <1>14 DEF Outgrown
  <2> QED
    BY <1>1, <1>7, <1>8, <1>10, <1>14, <2>1 DEF LedTo
<1>20. Separate(F, ls)
  <2>1. \A x \in Taken(F) : x = e => F[x].local = 0
    BY <1>5, <1>9
  <2>2. ASSUME NEW x \in Taken(F), NEW y \in Taken(F), x # y
        PROVE  /\ F[x].remote # F[y].remote
               /\ F[x].local = 0 \/ F[x].local # F[y].local
    <3>1. E[x].remote # E[y].remote /\ (E[x].local = 0 \/ E[x].local # E[y].local)
      BY <1>10, <1>15, <2>2 DEF Separate
    <3>2. F[x].local = 0 \/ F[x].local = E[x].local
      BY <1>10, <2>1
    <3>3. F[y].local = 0 \/ F[y].local = E[y].local
      BY <1>10, <2>1
    <3> QED
      BY <1>10, <3>1, <3>2, <3>3
  <2>3. DOMAIN ls = {F[x].local : x \in Taken(F)} \ {0}
    <3>1. DOMAIN locals = {E[x].local : x \in Taken(E)} \ {0}
      BY <1>15 DEF Separate
    <3>2. ASSUME NEW v \in DOMAIN ls
          PROVE  v \in {F[x].local : x \in Taken(F)} \ {0}
      <4>1. PICK x \in Taken(E) : v = E[x].local /\ v # 0 /\ v # l
        BY <1>13, <3>1
      <4>2. x # e
        BY <4>1
      <4> QED
        BY <1>10, <4>1, <4>2
    <3>3. ASSUME NEW x \in Taken(F), F[x].local # 0
          PROVE  F[x].local \in DOMAIN ls
      <4>1. x # e /\ F[x] = E[x] /\ x \in Taken(E)
        BY <1>10, <2>1, <3>3
      <4>2. E[x].local # l /\ E[x].local \in DOMAIN locals
        BY <1>16, <3>1, <3>3, <4>1
      <4> QED
        BY <1>13, <4>1, <4>2
    <3> QED
      BY <3>2, <3>3
  <2> QED
    BY <2>2, <2>3 DEF Separate
<1>21. Shows(F, map.at, ls, Described)
  <2>1. ASSUME NEW i \in DOMAIN Described
        PROVE  \E x \in Taken(F) :
                   /\ F[x].remote = Handle(Described, i) /\ map.at[i] = x
                   /\ F[x].local = 0 \/ F[x].remote = own \/ ls[F[x].local] = Described[i].value
    <3>1. PICK x \in Taken(E) :
              /\ E[x].remote = Handle(Described, i) /\ map.at[i] = x
              /\ E[x].local = 0 \/ E[x].remote = own \/ locals[E[x].local] = Described[i].value
      BY <1>15 DEF Shows
    <3>2. CASE x = e
      BY <1>5, <1>9, <1>10, <3>1, <3>2
    <3>3. CASE x # e
      <4>1. F[x] = E[x]
        BY <1>10, <3>3
      <4>2. E[x].local # 0 => E[x].local \in DOMAIN ls
        <5>1. E[x].local # 0 => E[x].local \in DOMAIN locals
          BY <1>15 DEF Separate
        <5> QED
          BY <1>13, <1>16, <3>3, <5>1
      <4>3. E[x].local # 0 => ls[E[x].local] = locals[E[x].local]
        BY <1>13, <4>2
      <4> QED
        BY <1>10, <3>1, <4>1, <4>3
    <3> QED
      BY <3>2, <3>3
  <2>2. \A x \in Taken(F) :
            F[x].remote = own \/ \E i \in DOMAIN Described : F[x].remote = Handle(Described, i)
    BY <1>10, <1>15 DEF Shows
  <2> QED
    BY <2>1, <2>2 DEF Shows
<1>22. WorldAgreed'
  <2>1. PICK d : d = Described
    OBVIOUS
  <2>2. Described' = d
    BY <1>14, <2>1 DEF Described
  <2>3. Shows(F, map.at, ls, d)
    BY <1>21, <2>1
  <2>4. Shows(map.entries, map.at, locals, Described)'
    BY <1>7, <1>8, <1>12, <1>14, <2>2, <2>3 DEF Shows
  <2>5. Separate(map.entries, locals)'
    BY <1>8, <1>12, <1>20 DEF Separate
  <2> QED
    BY <2>4, <2>5, WorldIs
<1> QED
  BY <1>17, <1>18, <1>19, <1>22 DEF MapInv

\* A new connection begins with nothing.
LEMMA ReconnectKeepsWorld ==
    ASSUME DeltaInv, MapInv, Reconnect
    PROVE  MapInv'
<1>0. ServerTyped
  BY DEF DeltaInv
<1>1. /\ map' = NoMap /\ locals' = Nothing /\ shown' = 0 /\ meant' = Nothing /\ tick' = tick
      /\ world' = [world EXCEPT ![own[1]].generation = @ + 1, ![own[1]].lives = TRUE]
      /\ own' = <<own[1], world[own[1]].generation + 1>>
  BY DEF Reconnect, Nothing
<1>2. world \in [Indices -> Actor] /\ own[1] \in Indices
  BY <1>0 DEF ServerTyped
<1>3. world[own[1]].generation \in Nat
  BY <1>2 DEF Actor
<1>4. world'[own[1]].generation = world[own[1]].generation + 1
  BY <1>1, <1>2 DEF Actor
<1>5. DOMAIN meant' = {}
  BY <1>1, NothingIs
<1>6. MapTyped'
  <2>1. NoMap \in [entries : Seq(Replica), at : [Indices -> Nat]]
    BY NoMapIs DEF NoMap
  <2> QED
    BY <1>1, <2>1, NoMapIs DEF MapTyped, Room
<1>7. Aging'
  <2>1. own'[1] = own[1] /\ own'[2] = world[own[1]].generation + 1
    BY <1>1
  <2>2. own'[2] <= world'[own'[1]].generation
    BY <1>3, <1>4, <2>1
  <2> QED
    BY <1>5, <2>2 DEF Aging
<1>8. LedTo'
  BY <1>1, NoMapIs DEF LedTo
<1>9. WorldAgreed'
  <2>1. Shows(map.entries, map.at, locals, Described)'
    BY <1>1, NoMapIs DEF Shows, Described
  <2>2. Separate(map.entries, locals)'
    BY <1>1, NoMapIs DEF Separate
  <2> QED
    BY <2>1, <2>2, WorldIs
<1> QED
  BY <1>6, <1>7, <1>8, <1>9 DEF MapInv

\* Every step keeps the world as it was described.
LEMMA MapStep ==
    ASSUME Room < MaxReplicated
    PROVE  DeltaInv /\ MapInv /\ [SnapshotsNext]_snapshotVars => MapInv'
<1> SUFFICES ASSUME DeltaInv, MapInv, [SnapshotsNext]_snapshotVars
             PROVE  MapInv'
  OBVIOUS
<1>1. ASSUME map' = map, locals' = locals, own' = own, world' = world, meant' = meant,
             shown' = shown, tick' = tick
      PROVE  MapInv'
  <2>1. Described' = Described
    BY <1>1 DEF Described
  <2>2. Outgrown' = Outgrown
    BY <1>1 DEF Outgrown
  <2>3. Aging'
    BY <1>1 DEF MapInv, Aging
  <2> QED
    BY <1>1, <2>1, <2>2, <2>3, SameMap
<1>2. ASSUME NEW a \in acks, TakeAcknowledgement(a)
      PROVE  MapInv'
  BY <1>1, <1>2 DEF TakeAcknowledgement, clientVars
<1>3. ASSUME NEW m \in wire, TakeSnapshot(m)
      PROVE  MapInv'
  BY <1>3, TakeKeepsWorld
<1>4. ASSUME Acknowledge
      PROVE  MapInv'
  BY <1>1, <1>4 DEF Acknowledge, clientVars, serverVars
<1>5. ASSUME NEW e \in Taken(map.entries), KillReplica(e)
      PROVE  MapInv'
  BY <1>5, KillKeepsWorld
<1>6. ASSUME UNCHANGED snapshotVars
      PROVE  MapInv'
  BY <1>1, <1>6 DEF snapshotVars, serverVars, clientVars
<1> QED
  BY <1>2, <1>3, <1>4, <1>5, <1>6, TickKeepsWorld, ReconnectKeepsWorld DEF SnapshotsNext

\* Where the server's table is less than half of the client's map of replicas, what the
\* client decodes and shows is what the server meant.
THEOREM ReplicaHonestAlways ==
    ASSUME 2 * Cardinality(Indices) + 1 < MaxReplicated
    PROVE  SnapshotsSpec => []ReplicaHonest
<1>1. Room < MaxReplicated
  BY DEF Room
<1>2. DeltaInv /\ MapInv /\ [SnapshotsNext]_snapshotVars => MapInv'
  BY <1>1, MapStep
<1>3. MapInv => WorldAgreed
  BY DEF MapInv
<1>4. SnapshotsSpec => []DeltasReadable
  BY EveryDeltaIsReadable
<1>5. SnapshotsSpec => [](DeltaInv /\ MapInv)
  BY <1>2, DeltaInit, DeltaStep, MapInit, PTL DEF SnapshotsSpec
<1>6. DeltasReadable /\ WorldAgreed => ReplicaHonest
  BY DEF ReplicaHonest
<1> QED
  BY <1>3, <1>4, <1>5, <1>6, PTL

-----------------------------------------------------------------------------
(* Loops, as functions of how far they went *)

\* A function of how far a loop went, and two that begin and go on alike.
Runs(f, N, S, a, step) ==
    /\ f \in [0 .. N -> S] /\ f[0] = a
    /\ \A i \in 1 .. N : f[i] = step[<<i, f[i - 1]>>]
Alike(f, g, N) == f[0] = g[0] /\ \A i \in 1 .. N : f[i - 1] = g[i - 1] => f[i] = g[i]

\* A loop over a set of states has a function of how far it went.
LEMMA Iterates ==
    ASSUME NEW N \in Nat, NEW S, NEW a \in S, NEW step \in [(1 .. N) \X S -> S]
    PROVE  \E f : Runs(f, N, S, a, step)
<1> DEFINE Solves(f, m) == /\ f \in [0 .. m -> S] /\ f[0] = a
                           /\ \A i \in 1 .. m : f[i] = step[<<i, f[i - 1]>>]
           G == {m \in 0 .. N : \E f : Solves(f, m)}
<1>1. 0 \in G
  <2> DEFINE f == [i \in 0 .. 0 |-> a]
  <2>1. Solves(f, 0)
    OBVIOUS
  <2> HIDE DEF Solves
  <2> QED
    BY <2>1
<1>2. ASSUME NEW m \in 0 .. N - 1, m \in G
      PROVE  m + 1 \in G
  <2>1. PICK f : Solves(f, m)
    BY <1>2
  <2> DEFINE g == [i \in 0 .. m + 1 |-> IF i = m + 1 THEN step[<<m + 1, f[m]>>] ELSE f[i]]
  <2>2. m \in 0 .. m /\ m + 1 \in 1 .. N /\ m + 1 \in 0 .. m + 1 /\ 0 \in 0 .. m + 1 /\ 0 # m + 1
    OBVIOUS
  <2>3. step[<<m + 1, f[m]>>] \in S
    <3>1. f[m] \in S
      BY <2>1, <2>2
    <3> QED
      BY <2>2, <3>1
  <2>4. \A i \in 0 .. m + 1 : i # m + 1 => i \in 0 .. m
    OBVIOUS
  <2>5. g \in [0 .. m + 1 -> S]
    BY <2>1, <2>3, <2>4
  <2>6. g[0] = a
    BY <2>1, <2>2
  <2>7. ASSUME NEW i \in 1 .. m + 1 PROVE g[i] = step[<<i, g[i - 1]>>]
    <3>1. i - 1 \in 0 .. m + 1 /\ i - 1 # m + 1 /\ i \in 0 .. m + 1 /\ i - 1 \in 0 .. m
      OBVIOUS
    <3>2. g[i - 1] = f[i - 1]
      BY <3>1
    <3>3. CASE i = m + 1
      <4>1. i - 1 = m
        BY <3>3
      <4>2. g[i] = step[<<i, f[m]>>]
        BY <3>3
      <4> QED
        BY <3>2, <4>1, <4>2
    <3>4. CASE i # m + 1
      <4>1. i \in 1 .. m /\ g[i] = f[i]
        BY <3>4
      <4> QED
        BY <2>1, <3>2, <4>1
    <3> QED
      BY <3>3, <3>4
  <2>8. Solves(g, m + 1)
    <3> HIDE DEF g
    <3> QED
      BY <2>5, <2>6, <2>7
  <2> HIDE DEF Solves, g
  <2> QED
    BY <2>8
<1>3. N \in G
  <2>1. N \in 0 .. N
    OBVIOUS
  <2> HIDE DEF G
  <2> QED
    BY <1>1, <1>2, <2>1, UpTo
<1> QED
  BY <1>3 DEF Runs

\* Two loops that begin alike and go on alike are the same.
LEMMA SameLoop ==
    ASSUME NEW N \in Nat, NEW f, NEW g, Alike(f, g, N)
    PROVE  \A i \in 0 .. N : f[i] = g[i]
<1> USE DEF Alike
<1> DEFINE G == {i \in 0 .. N : f[i] = g[i]}
<1>1. 0 \in G
  OBVIOUS
<1>2. ASSUME NEW i \in 0 .. N - 1, i \in G PROVE i + 1 \in G
  <2>1. i + 1 \in 1 .. N /\ (i + 1) - 1 = i
    OBVIOUS
  <2> QED
    BY <1>2, <2>1
<1>3. \A i \in 0 .. N : i \in G
  <2> HIDE DEF G
  <2> QED
    BY <1>1, <1>2, UpTo
<1> QED
  BY <1>3

\* The step a sum takes at a tick.
Summand(st, S, t) == IF t \in S THEN st[t] ELSE 0
Summable(st, S, n) == \A t \in 1 .. n : t \in S => st[t] \in Int
Sums(f, st, S, n) ==
    /\ f \in [0 .. n -> Int] /\ f[0] = 0
    /\ \A t \in 1 .. n : f[t] = f[t - 1] + Summand(st, S, t)

\* The sum of steps is the end of a loop.
LEMMA TotalIs ==
    ASSUME NEW st, NEW S, NEW n \in Nat, Summable(st, S, n)
    PROVE  \E f : Sums(f, st, S, n) /\ Total(st, S, n) = f[n]
<1> DEFINE step == [p \in (1 .. n) \X Int |-> p[2] + Summand(st, S, p[1])]
           Sum(f) == f = [t \in 0 .. n |-> IF t = 0 THEN 0
                                           ELSE f[t - 1] + (IF t \in S THEN st[t] ELSE 0)]
<1>1. \A t \in 1 .. n : Summand(st, S, t) \in Int
  BY DEF Summable, Summand
<1>2. step \in [(1 .. n) \X Int -> Int]
  BY <1>1
<1>3. PICK f \in [0 .. n -> Int] : f[0] = 0 /\ \A t \in 1 .. n : f[t] = step[<<t, f[t - 1]>>]
  <2>1. 0 \in Int
    OBVIOUS
  <2> HIDE DEF step
  <2>2. \E f : Runs(f, n, Int, 0, step)
    BY <1>2, <2>1, Iterates
  <2> QED
    BY <2>2 DEF Runs
<1>4. ASSUME NEW t \in 1 .. n PROVE f[t] = f[t - 1] + Summand(st, S, t)
  <2>1. t - 1 \in 0 .. n
    OBVIOUS
  <2>2. f[t - 1] \in Int
    BY <2>1
  <2>3. step[<<t, f[t - 1]>>] = f[t - 1] + Summand(st, S, t)
    BY <2>2
  <2> QED
    BY <1>3, <2>3
<1> HIDE DEF step
<1>5. Sum(f)
  <2>1. f = [t \in 0 .. n |-> f[t]]
    OBVIOUS
  <2>2. ASSUME NEW t \in 0 .. n
        PROVE  f[t] = IF t = 0 THEN 0 ELSE f[t - 1] + (IF t \in S THEN st[t] ELSE 0)
    <3>1. t # 0 => t \in 1 .. n
      OBVIOUS
    <3> QED
      BY <1>3, <1>4, <3>1 DEF Summand
  <2> QED
    BY <2>1, <2>2
<1> DEFINE g == CHOOSE x : Sum(x)
<1>6. Total(st, S, n) = g[n]
  BY Zenon DEF Total
<1>7. Sum(g)
  <2> HIDE DEF Sum
  <2> QED
    BY <1>5
<1> HIDE DEF g
<1>8. g[0] = 0 /\ \A t \in 1 .. n : g[t] = g[t - 1] + Summand(st, S, t)
  BY <1>7 DEF Summand
<1>9. \A t \in 0 .. n : g[t] = f[t]
  <2>1. \A t \in 1 .. n : g[t - 1] = f[t - 1] => g[t] = f[t]
    BY <1>4, <1>8
  <2> QED
    <3>1. Alike(g, f, n)
      BY <1>3, <1>8, <2>1 DEF Alike
    <3> QED
      BY <3>1, SameLoop
<1>10. Total(st, S, n) = f[n]
  BY <1>6, <1>9
<1>11. Sums(f, st, S, n)
  BY <1>3, <1>4 DEF Sums
<1> QED
  BY <1>10, <1>11

\* What a sum is, tick by tick.
LEMMA TotalNone ==
    ASSUME NEW st, NEW S
    PROVE  Total(st, S, 0) = 0
<1>1. Summable(st, S, 0)
  BY DEF Summable
<1> QED
  BY <1>1, TotalIs DEF Sums

\* A sum with one more addend.
LEMMA TotalNext ==
    ASSUME NEW st, NEW S, NEW n \in Nat, Summable(st, S, n + 1)
    PROVE  Total(st, S, n + 1) = Total(st, S, n) + Summand(st, S, n + 1)
<1>1. Summable(st, S, n)
  BY DEF Summable
<1>2. PICK f : Sums(f, st, S, n) /\ Total(st, S, n) = f[n]
  BY <1>1, TotalIs
<1>3. n + 1 \in Nat
  OBVIOUS
<1>4. PICK g : Sums(g, st, S, n + 1) /\ Total(st, S, n + 1) = g[n + 1]
  BY <1>3, TotalIs
<1> USE DEF Sums
<1>5. \A t \in 0 .. n : g[t] = f[t]
  <2>1. \A t \in 1 .. n : g[t - 1] = f[t - 1] => g[t] = f[t]
    <3>1. \A t \in 1 .. n : t \in 1 .. n + 1
      OBVIOUS
    <3> QED
      BY <1>2, <1>4, <3>1
  <2> QED
    <3>1. Alike(g, f, n)
      BY <1>2, <1>4, <2>1 DEF Alike
    <3> QED
      BY <3>1, SameLoop
<1>6. n + 1 \in 1 .. n + 1 /\ n \in 0 .. n /\ (n + 1) - 1 = n
  OBVIOUS
<1> QED
  BY <1>2, <1>4, <1>5, <1>6

\* A sum of integers is one.
LEMMA TotalInt ==
    ASSUME NEW st, NEW S, NEW n \in Nat, Summable(st, S, n)
    PROVE  Total(st, S, n) \in Int
<1>1. n \in 0 .. n
  OBVIOUS
<1> QED
  BY <1>1, TotalIs DEF Sums

\* Sums of the same steps are the same.
LEMMA TotalSame ==
    ASSUME NEW st, NEW S, NEW sv, NEW V, NEW n \in Nat, Summable(st, S, n), Summable(sv, V, n),
           \A t \in 1 .. n : Summand(st, S, t) = Summand(sv, V, t)
    PROVE  Total(st, S, n) = Total(sv, V, n)
<1>1. PICK f : Sums(f, st, S, n) /\ Total(st, S, n) = f[n]
  BY TotalIs
<1>2. PICK g : Sums(g, sv, V, n) /\ Total(sv, V, n) = g[n]
  BY Summable(sv, V, n), TotalIs
<1> USE DEF Sums
<1>3. \A t \in 1 .. n : f[t - 1] = g[t - 1] => f[t] = g[t]
  BY <1>1, <1>2
<1>4. \A t \in 0 .. n : f[t] = g[t]
  <2>1. Alike(f, g, n)
    BY <1>1, <1>2, <1>3 DEF Alike
  <2> QED
    BY <2>1, SameLoop
<1>5. n \in 0 .. n
  OBVIOUS
<1> QED
  BY <1>1, <1>2, <1>4, <1>5

\* A command more adds its step.
LEMMA TotalAdd ==
    ASSUME NEW st, NEW S, NEW n \in Nat, NEW u \in 1 .. n, u \notin S, Summable(st, S \cup {u}, n)
    PROVE  Total(st, S \cup {u}, n) = Total(st, S, n) + st[u]
<1> DEFINE V == S \cup {u}
<1>1. Summable(st, S, n) /\ st[u] \in Int
  BY DEF Summable
<1>2. PICK f : Sums(f, st, S, n) /\ Total(st, S, n) = f[n]
  BY <1>1, TotalIs
<1>3. PICK g : Sums(g, st, V, n) /\ Total(st, V, n) = g[n]
  BY Summable(st, V, n), TotalIs
<1> USE DEF Sums
<1>4. \A t \in 1 .. n : /\ t # u => Summand(st, V, t) = Summand(st, S, t)
                        /\ t = u => Summand(st, V, t) = st[u] /\ Summand(st, S, t) = 0
                        /\ Summand(st, S, t) \in Int
  BY <1>1 DEF Summand, Summable
<1> HIDE DEF V
<1> DEFINE G == {t \in 0 .. n : g[t] = IF t < u THEN f[t] ELSE f[t] + st[u]}
<1>5. 0 \in G
  BY <1>2, <1>3
<1>6. ASSUME NEW t \in 0 .. n - 1, t \in G PROVE t + 1 \in G
  <2>1. t + 1 \in 1 .. n /\ (t + 1) - 1 = t /\ t \in 0 .. n /\ t + 1 \in 0 .. n
    OBVIOUS
  <2>2. f[t] \in Int /\ Summand(st, S, t + 1) \in Int
    BY <1>2, <1>4, <2>1
  <2>3. f[t + 1] = f[t] + Summand(st, S, t + 1) /\ g[t + 1] = g[t] + Summand(st, V, t + 1)
    BY <1>2, <1>3, <2>1
  <2>4. g[t] = IF t < u THEN f[t] ELSE f[t] + st[u]
    BY <1>6
  <2>5. CASE t + 1 < u
    BY <1>4, <2>1, <2>2, <2>3, <2>4, <2>5
  <2>6. CASE t + 1 = u
    BY <1>1, <1>4, <2>1, <2>2, <2>3, <2>4, <2>6
  <2>7. CASE t + 1 > u
    <3>1. Summand(st, V, t + 1) = Summand(st, S, t + 1) /\ t >= u
      BY <1>4, <2>1, <2>7
    <3>2. g[t] = f[t] + st[u]
      BY <2>4, <3>1
    <3>3. g[t + 1] = f[t + 1] + st[u]
      BY <1>1, <2>2, <2>3, <3>1, <3>2
    <3> QED
      BY <2>1, <2>7, <3>3
  <2> QED
    BY <2>5, <2>6, <2>7
<1>7. n \in G
  <2>1. n \in 0 .. n
    OBVIOUS
  <2> HIDE DEF G
  <2> QED
    BY <1>5, <1>6, <2>1, UpTo
<1> QED
  BY <1>2, <1>3, <1>7 DEF V

\* A sum may be made in two parts.
LEMMA TotalSplit ==
    ASSUME NEW st, NEW S, NEW n \in Nat, NEW m \in 0 .. n, NEW a \in 0 .. m, Summable(st, S, n)
    PROVE  LET Past(x) == {t \in S : t > x}
           IN  Total(st, Past(a), n) = Total(st, Past(a), m) + Total(st, Past(m), n)
<1> DEFINE A == {t \in S : t > a}
           M == {t \in S : t > m}
           G == {k \in 0 .. n : /\ k <= m => Total(st, M, k) = 0
                                /\ k >= m => Total(st, A, k) = Total(st, A, m) + Total(st, M, k)}
<1>1. \A k \in 0 .. n : Summable(st, A, k) /\ Summable(st, M, k)
  BY DEF Summable
<1>2. /\ \A t \in 1 .. n : t <= m => Summand(st, M, t) = 0
      /\ \A t \in 1 .. n : t > m => Summand(st, M, t) = Summand(st, A, t)
      /\ \A t \in 1 .. n : Summand(st, A, t) \in Int
  BY DEF Summand, Summable
<1> HIDE DEF A, M
<1>3. 0 \in G
  <2>1. Total(st, M, 0) = 0 /\ Total(st, A, 0) = 0
    BY TotalNone
  <2>2. 0 >= m => m = 0
    OBVIOUS
  <2> QED
    BY <2>1, <2>2
<1>4. ASSUME NEW k \in 0 .. n - 1, k \in G PROVE k + 1 \in G
  <2>1. k \in Nat /\ k + 1 \in 0 .. n /\ k + 1 \in 1 .. n /\ k \in 0 .. n /\ m \in 0 .. n
    OBVIOUS
  <2>2. /\ Total(st, M, k + 1) = Total(st, M, k) + Summand(st, M, k + 1)
        /\ Total(st, A, k + 1) = Total(st, A, k) + Summand(st, A, k + 1)
    BY <1>1, <2>1, TotalNext
  <2>3. Total(st, M, k) \in Int /\ Total(st, A, k) \in Int /\ Total(st, A, m) \in Int
    BY <1>1, <2>1, TotalInt
  <2>4. CASE k + 1 < m
    BY <1>2, <1>4, <2>1, <2>2, <2>3, <2>4
  <2>5. CASE k + 1 = m
    <3>1. Total(st, M, k + 1) = 0
      BY <1>2, <1>4, <2>1, <2>2, <2>3, <2>5
    <3> QED
      BY <2>1, <2>3, <2>5, <3>1
  <2>6. CASE k + 1 > m
    <3>1. k >= m /\ Summand(st, M, k + 1) = Summand(st, A, k + 1) /\ Summand(st, A, k + 1) \in Int
      BY <1>2, <2>1, <2>6
    <3>2. Total(st, A, k) = Total(st, A, m) + Total(st, M, k)
      BY <1>4, <3>1
    <3>3. Total(st, A, k + 1) = Total(st, A, m) + Total(st, M, k + 1)
      BY <2>2, <2>3, <3>1, <3>2
    <3> QED
      BY <2>1, <2>6, <3>3
  <2> QED
    BY <2>1, <2>4, <2>5, <2>6
<1>5. n \in G
  <2>1. n \in 0 .. n
    OBVIOUS
  <2> HIDE DEF G
  <2> QED
    BY <1>3, <1>4, <2>1, UpTo
<1> QED
  BY <1>5 DEF A, M

-----------------------------------------------------------------------------
(***************************************************************************)
(* The commands of a player: the invariant of CommandsFair.  That an       *)
(* honest player is never flagged needs how old what waits can be, and     *)
(* what the clocks and the network can do between two packets.             *)
(***************************************************************************)
Command == [tick : Nat, step : Int]
Peer == [tick : Nat, accepted : BOOLEAN, lastTick : Nat, lastServerTick : Nat,
         queue : Seq(Command), tokens : Nat, applied : Nat, position : Int, violations : Nat]
RingSlots == 0 .. CommandHistory - 1
Player == [tick : Nat, playing : BOOLEAN, spawned : BOOLEAN, position : Int, shown : Nat,
           history : [RingSlots -> Command], predicted : [RingSlots -> Int],
           guessed : [RingSlots -> Nat]]
Reply == [tick : Nat, command : Nat, position : Int]

PlayTyped ==
    /\ client \in Player /\ server \in Peer /\ replies \in SUBSET Reply
    /\ sampled \in [DOMAIN sampled -> Int] /\ executed \in SUBSET Nat
    /\ basis \in [position : Int, command : Nat, exact : BOOLEAN]

\* The clocks stay together.
Together == server.tick <= client.tick + Drift /\ client.tick <= server.tick + Drift

\* From the tick it plays on, a client samples one command every tick.
Sampling ==
    /\ DOMAIN sampled \subseteq 1 .. client.tick
    /\ \A u \in DOMAIN sampled : u .. client.tick \subseteq DOMAIN sampled
    /\ ~ client.playing => DOMAIN sampled = {}

\* The newest command was taken within what the network delays, and no rule was broken.
Unflagged ==
    /\ server.violations = 0
    /\ server.lastServerTick = 0 =>
           ~ server.accepted /\ server.lastTick = 0 /\ server.queue = <<>>
    /\ server.lastServerTick # 0 =>
           /\ server.accepted /\ server.lastServerTick <= server.tick + 1
           /\ server.lastServerTick <= server.lastTick + Delay
    /\ server.lastTick \in DOMAIN sampled \cup {0} /\ server.applied \in DOMAIN sampled \cup {0}
    /\ server.applied <= server.lastTick

\* What waits is in order and new, and the n-th of it is younger than n ticks less than
\* the oldest command a packet that still arrives may carry.
Waiting(s, now) ==
    \A n \in 1 .. Len(s.queue) :
        /\ s.queue[n].tick \in DOMAIN sampled /\ s.queue[n].step = sampled[s.queue[n].tick]
        /\ s.queue[n].tick > s.applied /\ s.queue[n].tick <= s.lastTick
        /\ \A k \in 1 .. n - 1 : s.queue[k].tick < s.queue[n].tick
        /\ s.queue[n].tick + Delay + Redundancy >= now + n

\* What was applied moved the player, and took no more than the ticks there were.
Applying ==
    /\ executed \in SUBSET DOMAIN sampled /\ \A u \in executed : u <= server.applied
    /\ server.position = Walk(executed)
    /\ Cardinality(executed) + server.tokens <= server.tick

CommandsInv ==
    PlayTyped /\ Together /\ Sampling /\ Unflagged /\ Waiting(server, server.tick + 1) /\ Applying

\* What clocks and network do at worst stays within the slack and the queue.
Lenient ==
    /\ 1 <= CommandSlack /\ Drift + Delay <= CommandSlack + 1
    /\ Drift + Delay + Redundancy <= CommandQueue + 1

\* What the constants of Prediction are.
LEMMA PlayConstants ==
    /\ Redundancy \in Nat \ {0} /\ CommandHistory \in Nat \ {0} /\ CommandQueue \in Nat \ {0}
    /\ CommandBurst \in Nat \ {0} /\ CommandSlack \in Nat /\ ViolationLimit \in Nat
    /\ Drift \in Nat /\ Delay \in Nat /\ Steps \subseteq Int
  BY PredictionAssumption

\* The parts of the server's peer.
LEMMA PeerParts ==
    ASSUME NEW s \in Peer
    PROVE  /\ s.tick \in Nat /\ s.accepted \in BOOLEAN /\ s.lastTick \in Nat
           /\ s.lastServerTick \in Nat /\ s.queue \in Seq(Command) /\ s.tokens \in Nat
           /\ s.applied \in Nat /\ s.position \in Int /\ s.violations \in Nat
           /\ Len(s.queue) \in Nat /\ DOMAIN s.queue = 1 .. Len(s.queue)
           /\ \A n \in 1 .. Len(s.queue) : /\ s.queue[n] \in Command
                                           /\ s.queue[n].tick \in Nat /\ s.queue[n].step \in Int
<1>1. /\ s.tick \in Nat /\ s.accepted \in BOOLEAN /\ s.lastTick \in Nat
      /\ s.lastServerTick \in Nat /\ s.queue \in Seq(Command) /\ s.tokens \in Nat
      /\ s.applied \in Nat /\ s.position \in Int /\ s.violations \in Nat
  BY DEF Peer
<1> DEFINE q == s.queue
<1>2. q \in Seq(Command)
  BY <1>1
<1> HIDE DEF q
<1>3. Len(q) \in Nat /\ DOMAIN q = 1 .. Len(q)
  BY <1>2, LenProperties
<1>4. \A n \in 1 .. Len(q) : q[n] \in Command
  BY <1>2, <1>3, ElementOfSeq
<1>5. \A c \in Command : c.tick \in Nat /\ c.step \in Int
  BY DEF Command
<1> QED
  BY <1>1, <1>3, <1>4, <1>5 DEF q

\* A new command, where nothing waits that it would push out.
Joined(s, c, now) ==
    [s EXCEPT !.queue = Append(s.queue, c), !.lastTick = c.tick, !.lastServerTick = now]

\* What the server keeps of a command it lets wait.
LEMMA JoinedIs ==
    ASSUME NEW s \in Peer, NEW c \in Command, NEW now \in Nat
    PROVE  LET r == Joined(s, c, now)
           IN  /\ r \in Peer /\ r.queue = Append(s.queue, c) /\ r.lastTick = c.tick
               /\ r.lastServerTick = now /\ r.tick = s.tick /\ r.accepted = s.accepted
               /\ r.tokens = s.tokens /\ r.applied = s.applied /\ r.position = s.position
               /\ r.violations = s.violations
<1>1. Append(s.queue, c) \in Seq(Command) /\ c.tick \in Nat
  BY PeerParts, AppendProperties DEF Command
<1> QED
  BY <1>1 DEF Joined, Peer

\* One command of a packet keeps a peer a peer.
LEMMA TakeCommandTyped ==
    ASSUME NEW s \in Peer, NEW c \in Command, NEW now \in Nat
    PROVE  TakeCommand(s, c, now) \in Peer
<1>1. Violation(s) \in Peer
  <2>1. s.violations + 1 \in Nat
    BY PeerParts
  <2>2. (s.violations < ViolationLimit) \in BOOLEAN
    OBVIOUS
  <2> DEFINE v == s.violations + 1
             b == s.violations < ViolationLimit
  <2>3. Violation(s) = [s EXCEPT !.violations = v, !.accepted = b]
    BY DEF Violation, Peer
  <2> HIDE DEF v, b
  <2>4. v \in Nat /\ b \in BOOLEAN
    BY <2>1, <2>2 DEF v, b
  <2> QED
    BY <2>3, <2>4 DEF Peer
<1>2. Queued(s, c) \in Peer
  <2>1. CASE Len(s.queue) = CommandQueue
    <3>1. Violation(s).queue = s.queue
      BY DEF Violation, Peer
    <3>2. Append(Tail(s.queue), c) \in Seq(Command)
      <4>1. s.queue # <<>>
        BY <2>1, PlayConstants, EmptySeq
      <4> QED
        BY <4>1, PeerParts, HeadTailProperties, AppendProperties
    <3>3. Queued(s, c) = [Violation(s) EXCEPT !.queue = Append(Tail(s.queue), c)]
      BY <2>1, <3>1 DEF Queued
    <3> QED
      BY <1>1, <3>2, <3>3 DEF Peer
  <2>2. CASE Len(s.queue) # CommandQueue
    <3>1. Queued(s, c) = [s EXCEPT !.queue = Append(s.queue, c)]
      BY <2>2 DEF Queued
    <3>2. Append(s.queue, c) \in Seq(Command)
      BY PeerParts, AppendProperties
    <3> QED
      BY <3>1, <3>2 DEF Peer
  <2> QED
    BY <2>1, <2>2
<1>3. [Queued(s, c) EXCEPT !.lastTick = c.tick, !.lastServerTick = now] \in Peer
  <2>1. c.tick \in Nat
    BY DEF Command
  <2> QED
    BY <1>2, <2>1 DEF Peer
<1> DEFINE e == Larger(now - s.lastServerTick, 0)
           late == c.tick - s.lastTick > e + CommandSlack
           soon == c.tick - s.lastTick <= e + CommandSlack
<1>4. late \/ soon
  BY PeerParts, PlayConstants DEF Larger, Command
<1>5. TakeCommand(s, c, now) =
        CASE ~s.accepted \/ Copy(s, c) -> s
          [] s.accepted /\ ~Copy(s, c) /\ late -> Violation(s)
          [] s.accepted /\ ~Copy(s, c) /\ soon ->
                [Queued(s, c) EXCEPT !.lastTick = c.tick, !.lastServerTick = now]
  BY DEF TakeCommand
<1> HIDE DEF late, soon
<1>6. \/ TakeCommand(s, c, now) = s
      \/ TakeCommand(s, c, now) = Violation(s)
      \/ TakeCommand(s, c, now) = [Queued(s, c) EXCEPT !.lastTick = c.tick, !.lastServerTick = now]
  BY <1>4, <1>5, PeerParts
<1> QED
  BY <1>1, <1>3, <1>6

\* A copy changes nothing; a command that is new and in time joins the queue.
LEMMA TakenIn ==
    ASSUME NEW s \in Peer, NEW c \in Command, NEW now \in Nat, s.accepted
    PROVE  /\ c.tick <= s.lastTick => TakeCommand(s, c, now) = s
           /\ /\ c.tick > s.lastTick /\ s.lastServerTick <= now
              /\ c.tick - s.lastTick <= (now - s.lastServerTick) + CommandSlack
              /\ Len(s.queue) # CommandQueue
              => TakeCommand(s, c, now) = Joined(s, c, now)
<1>1. ASSUME c.tick <= s.lastTick PROVE TakeCommand(s, c, now) = s
  BY <1>1 DEF TakeCommand, Copy
<1>2. ASSUME c.tick > s.lastTick, s.lastServerTick <= now, Len(s.queue) # CommandQueue,
             c.tick - s.lastTick <= (now - s.lastServerTick) + CommandSlack
      PROVE  TakeCommand(s, c, now) = Joined(s, c, now)
  <2> DEFINE e == Larger(now - s.lastServerTick, 0)
             late == c.tick - s.lastTick > e + CommandSlack
             soon == c.tick - s.lastTick <= e + CommandSlack
             q == Queued(s, c)
  <2>1. ~ Copy(s, c) /\ ~ late /\ soon
    BY <1>2, PeerParts, PlayConstants DEF Larger, Copy, Command
  <2>2. TakeCommand(s, c, now) =
          CASE ~s.accepted \/ Copy(s, c) -> s
            [] s.accepted /\ ~Copy(s, c) /\ late -> Violation(s)
            [] s.accepted /\ ~Copy(s, c) /\ soon ->
                  [q EXCEPT !.lastTick = c.tick, !.lastServerTick = now]
    BY DEF TakeCommand
  <2>3. q = [s EXCEPT !.queue = Append(s.queue, c)]
    BY <1>2 DEF Queued
  <2> HIDE DEF late, soon, q
  <2>4. TakeCommand(s, c, now) = [q EXCEPT !.lastTick = c.tick, !.lastServerTick = now]
    BY <2>1, <2>2
  <2> QED
    BY <2>3, <2>4 DEF Joined, Peer
<1> QED
  BY <1>1, <1>2

\* The packet of a tick, command by command.
PacketStep(s, t, u) ==
    IF u \in DOMAIN sampled /\ u > t - Redundancy
    THEN TakeCommand(s, [tick |-> u, step |-> sampled[u]], server.tick + 1)
    ELSE s

\* A packet of commands is taken one step at a time, and each step is a peer.
LEMMA PacketIs ==
    ASSUME server \in Peer, sampled \in [DOMAIN sampled -> Int], NEW t \in Nat
    PROVE  \E f : /\ f[0] = server /\ AfterPacket(t) = f[t]
                  /\ \A u \in 0 .. t : f[u] \in Peer
                  /\ \A u \in 1 .. t : f[u] = PacketStep(f[u - 1], t, u)
<1> DEFINE step == [p \in (1 .. t) \X Peer |-> PacketStep(p[2], t, p[1])]
           Took(f) == f = [u \in 0 .. t |->
                             IF u = 0 THEN server
                             ELSE IF u \in DOMAIN sampled /\ u > t - Redundancy
                             THEN TakeCommand(f[u - 1], [tick |-> u, step |-> sampled[u]], server.tick + 1)
                             ELSE f[u - 1]]
<1>1. ASSUME NEW s \in Peer, NEW u \in 1 .. t PROVE PacketStep(s, t, u) \in Peer
  <2>1. CASE u \in DOMAIN sampled /\ u > t - Redundancy
    <3>1. [tick |-> u, step |-> sampled[u]] \in Command
      BY <2>1 DEF Command
    <3>2. server.tick + 1 \in Nat
      BY PeerParts
    <3> QED
      BY <2>1, <3>1, <3>2, TakeCommandTyped DEF PacketStep
  <2> QED
    BY <2>1 DEF PacketStep
<1>2. step \in [(1 .. t) \X Peer -> Peer]
  BY <1>1
<1>3. PICK f : f \in [0 .. t -> Peer] /\ f[0] = server /\ \A u \in 1 .. t : f[u] = step[<<u, f[u - 1]>>]
  <2> HIDE DEF step
  <2>1. \E f : Runs(f, t, Peer, server, step)
    BY <1>2, Iterates
  <2> QED
    BY <2>1 DEF Runs
<1>4. ASSUME NEW u \in 1 .. t PROVE f[u] = PacketStep(f[u - 1], t, u)
  <2>1. u - 1 \in 0 .. t
    OBVIOUS
  <2>2. f[u - 1] \in Peer
    BY <1>3, <2>1
  <2>3. step[<<u, f[u - 1]>>] = PacketStep(f[u - 1], t, u)
    BY <2>2
  <2> QED
    BY <1>3, <2>3
<1> HIDE DEF step
<1>5. Took(f)
  <2>1. f = [u \in 0 .. t |-> f[u]]
    BY <1>3
  <2>2. ASSUME NEW u \in 0 .. t
        PROVE  f[u] = IF u = 0 THEN server
                      ELSE IF u \in DOMAIN sampled /\ u > t - Redundancy
                      THEN TakeCommand(f[u - 1], [tick |-> u, step |-> sampled[u]], server.tick + 1)
                      ELSE f[u - 1]
    <3>1. u # 0 => u \in 1 .. t
      OBVIOUS
    <3> QED
      BY <1>3, <1>4, <3>1 DEF PacketStep
  <2> QED
    BY <2>1, <2>2
<1> DEFINE g == CHOOSE x : Took(x)
<1>6. AfterPacket(t) = g[t]
  BY Zenon DEF AfterPacket
<1>7. Took(g)
  <2> HIDE DEF Took
  <2> QED
    BY <1>5
<1> HIDE DEF g
<1>8. g[0] = server /\ \A u \in 1 .. t : g[u] = PacketStep(g[u - 1], t, u)
  BY <1>7 DEF PacketStep
<1>9. \A u \in 0 .. t : g[u] = f[u]
  <2>1. \A u \in 1 .. t : g[u - 1] = f[u - 1] => g[u] = f[u]
    BY <1>4, <1>8
  <2>2. Alike(g, f, t)
    BY <1>3, <1>8, <2>1 DEF Alike
  <2> QED
    BY <2>2, SameLoop
<1>10. AfterPacket(t) = f[t]
  BY <1>6, <1>9
<1>11. \A u \in 0 .. t : f[u] \in Peer
  BY <1>3
<1> QED
  BY <1>3, <1>4, <1>10, <1>11

\* Between two commands of a packet: none was new so far, or the last one was.
Midway(s, t, u) ==
    /\ s \in Peer /\ s.accepted /\ s.violations = 0
    /\ s.tick = server.tick /\ s.tokens = server.tokens
    /\ s.applied = server.applied /\ s.position = server.position
    /\ Waiting(s, server.tick + 1)
    /\ s.lastTick \in DOMAIN sampled \cup {0} /\ s.applied <= s.lastTick
    /\ \/ s.lastTick = server.lastTick /\ s.lastServerTick = server.lastServerTick
       \/ /\ s.lastTick = u /\ s.lastServerTick = server.tick + 1
          /\ u \in DOMAIN sampled /\ u > t - Redundancy

\* What clocks and network may do to a packet that arrives.
Arrives(t) == t \in DOMAIN sampled /\ server.accepted /\ server.tick + 1 <= t + Delay

\* A command that joins the queue waits as the others do.
LEMMA JoinedWaits ==
    ASSUME NEW s \in Peer, NEW c \in Command, NEW now \in Nat, Waiting(s, now),
           c.tick \in DOMAIN sampled, c.step = sampled[c.tick], c.tick > s.lastTick,
           s.applied <= s.lastTick, c.tick + Delay + Redundancy >= now + 1
    PROVE  Waiting(Joined(s, c, now), now)
<1> DEFINE q == s.queue
           L == Len(q)
<1>1. q \in Seq(Command) /\ L \in Nat /\ s.applied \in Nat /\ s.lastTick \in Nat /\ c.tick \in Nat
  BY PeerParts DEF Command
<1>2. \A n \in 1 .. L : q[n].tick \in Nat
  BY PeerParts
<1>3. \A n \in 1 .. L : /\ q[n].tick \in DOMAIN sampled /\ q[n].step = sampled[q[n].tick]
                        /\ q[n].tick > s.applied /\ q[n].tick <= s.lastTick
                        /\ \A k \in 1 .. n - 1 : q[k].tick < q[n].tick
                        /\ q[n].tick + Delay + Redundancy >= now + n
  BY DEF Waiting
<1> DEFINE r == Joined(s, c, now)
<1>4. r.queue = Append(q, c) /\ r.lastTick = c.tick /\ r.applied = s.applied
  BY JoinedIs
<1> HIDE DEF r, q
<1>5. Len(Append(q, c)) = L + 1 /\ Append(q, c)[L + 1] = c /\ \A n \in 1 .. L : Append(q, c)[n] = q[n]
  BY <1>1, AppendProperties
<1> HIDE DEF L
<1> DEFINE a == Append(q, c)
<1>6. a[L + 1] = c /\ \A n \in 1 .. L : a[n] = q[n]
  BY <1>5
<1> HIDE DEF a
<1>7. c.tick + Delay + Redundancy >= now + L + 1
  <2>1. CASE L = 0
    BY <1>1, <2>1, PlayConstants
  <2>2. CASE L # 0
    <3>1. L \in 1 .. L
      BY <1>1, <2>2
    <3>2. q[L].tick + Delay + Redundancy >= now + L /\ q[L].tick <= s.lastTick /\ q[L].tick \in Nat
      BY <1>2, <1>3, <3>1
    <3> QED
      BY <1>1, <3>2, PlayConstants, SMTT(60)
  <2> QED
    BY <2>1, <2>2
<1>8. ASSUME NEW n \in 1 .. L + 1
      PROVE  /\ a[n].tick \in DOMAIN sampled /\ a[n].step = sampled[a[n].tick]
             /\ a[n].tick > s.applied /\ a[n].tick <= c.tick
             /\ \A k \in 1 .. n - 1 : a[k].tick < a[n].tick
             /\ a[n].tick + Delay + Redundancy >= now + n
  <2>1. CASE n = L + 1
    <3>1. a[n] = c /\ n - 1 = L
      BY <1>1, <1>6, <2>1
    <3>2. ASSUME NEW k \in 1 .. L PROVE a[k].tick < c.tick
      <4>1. a[k] = q[k] /\ q[k].tick \in Nat /\ q[k].tick <= s.lastTick
        BY <1>2, <1>3, <1>6
      <4>2. c.tick > s.lastTick
        OBVIOUS
      <4> HIDE DEF q
      <4> QED
        BY ONLY <1>1, <4>1, <4>2
    <3>3. c.tick > s.applied /\ c.tick <= c.tick
      BY ONLY <1>1, s.applied <= s.lastTick, c.tick > s.lastTick
    <3>4. c.tick + Delay + Redundancy >= now + n
      BY ONLY <1>1, <1>7, <2>1, PlayConstants, now \in Nat
    <3> QED
      BY <3>1, <3>2, <3>3, <3>4
  <2>2. CASE n # L + 1
    <3>1. n \in 1 .. L
      BY <1>1, <2>2
    <3>2. a[n] = q[n] /\ \A k \in 1 .. n - 1 : a[k] = q[k]
      BY <1>1, <1>6, <3>1
    <3>3. q[n].tick <= c.tick
      BY <1>1, <1>2, <1>3, <3>1
    <3> QED
      BY <1>3, <3>1, <3>2, <3>3
  <2> QED
    BY <2>1, <2>2
<1>9. r.queue = a /\ Len(a) = L + 1
  BY <1>4, <1>5 DEF a
<1> QED
  BY <1>4, <1>8, <1>9 DEF Waiting, r

\* One command of a packet that arrives breaks no rule.
LEMMA MidwayStep ==
    ASSUME CommandsInv, Lenient, NEW t, Arrives(t), NEW s, NEW u \in 0 .. t - 1, Midway(s, t, u)
    PROVE  Midway(PacketStep(s, t, u + 1), t, u + 1)
<1> DEFINE w == u + 1
           now == server.tick + 1
           c == [tick |-> w, step |-> sampled[w]]
<1>1. /\ server \in Peer /\ client.tick \in Nat /\ sampled \in [DOMAIN sampled -> Int]
      /\ server.tick \in Nat /\ server.lastTick \in Nat /\ server.lastServerTick \in Nat
  BY PeerParts DEF CommandsInv, PlayTyped, Player
<1>2. client.tick <= server.tick + Drift
  BY DEF CommandsInv, Together
<1>3. DOMAIN sampled \subseteq 1 .. client.tick /\ \A v \in DOMAIN sampled : v .. client.tick \subseteq DOMAIN sampled
  BY DEF CommandsInv, Sampling
<1>4. t \in DOMAIN sampled /\ t \in 1 .. client.tick /\ now <= t + Delay /\ server.accepted
  BY <1>3 DEF Arrives
<1>5. server.lastServerTick <= now /\ server.lastServerTick <= server.lastTick + Delay
  BY <1>4 DEF CommandsInv, Unflagged
<1>6. /\ s \in Peer /\ s.accepted /\ s.violations = 0 /\ s.tick = server.tick
      /\ s.tokens = server.tokens /\ s.applied = server.applied /\ s.position = server.position
      /\ Waiting(s, now) /\ s.lastTick \in DOMAIN sampled \cup {0} /\ s.applied <= s.lastTick
  BY DEF Midway
<1>7. \/ s.lastTick = server.lastTick /\ s.lastServerTick = server.lastServerTick
      \/ s.lastTick = u /\ s.lastServerTick = now /\ u \in DOMAIN sampled /\ u > t - Redundancy
  BY DEF Midway
<1>8. /\ s.lastTick \in Nat /\ s.lastServerTick \in Nat /\ s.queue \in Seq(Command)
      /\ Len(s.queue) \in Nat /\ s.applied \in Nat
  BY <1>6, PeerParts
<1>9. w \in 1 .. client.tick /\ w <= t /\ w \in Nat /\ now \in Nat /\ u \in Nat /\ t \in Nat
  BY <1>1, <1>4
<1>10. CASE w \in DOMAIN sampled /\ w > t - Redundancy
  <2>1. c \in Command /\ c.tick = w /\ c.step = sampled[w]
    BY <1>1, <1>9, <1>10 DEF Command
  <2>2. PacketStep(s, t, w) = TakeCommand(s, c, now)
    BY <1>10 DEF PacketStep
  <2> HIDE DEF c, w
  <2>3. CASE w <= s.lastTick
    <3>1. TakeCommand(s, c, now) = s
      BY <1>6, <1>9, <2>1, <2>3, TakenIn
    <3>2. s.lastTick # u
      BY <1>9, <2>3 DEF w
    <3>3. s.lastTick = server.lastTick /\ s.lastServerTick = server.lastServerTick
      BY <1>7, <3>2
    <3>4. Midway(s, t, w)
      BY <1>6, <3>3 DEF Midway
    <3> QED
      BY <2>2, <3>1, <3>4 DEF w
  <2>4. CASE w > s.lastTick
    <3>1. s.lastServerTick <= now /\ w - s.lastTick <= (now - s.lastServerTick) + CommandSlack
      <4>1. CASE s.lastTick = server.lastTick /\ s.lastServerTick = server.lastServerTick
        BY <1>1, <1>2, <1>5, <1>9, <4>1, PlayConstants DEF Lenient
      <4>2. CASE s.lastTick = u /\ s.lastServerTick = now
        BY <1>8, <1>9, <4>2, PlayConstants DEF Lenient, w
      <4> QED
        BY <1>7, <4>1, <4>2
    <3>2. Len(s.queue) # CommandQueue
      <4> SUFFICES ASSUME Len(s.queue) = CommandQueue PROVE FALSE
        OBVIOUS
      <4>1. CommandQueue \in 1 .. Len(s.queue)
        BY PlayConstants
      <4>2. s.queue[CommandQueue].tick + Delay + Redundancy >= now + CommandQueue
            /\ s.queue[CommandQueue].tick <= s.lastTick
        BY <1>6, <4>1 DEF Waiting
      <4>3. s.queue[CommandQueue].tick \in Nat
        BY <1>6, <4>1, PeerParts
      <4>4. w <= server.tick + Drift
        BY <1>1, <1>2, <1>9, PlayConstants, SMTT(60)
      <4>5. Drift + Delay + Redundancy <= CommandQueue + 1
        BY DEF Lenient
      <4> DEFINE x == s.queue[CommandQueue].tick
      <4>6. x + Delay + Redundancy >= now + CommandQueue /\ x <= s.lastTick /\ x \in Nat
        BY <4>2, <4>3
      <4> HIDE DEF x
      <4>7. w \in Nat /\ s.lastTick \in Nat /\ server.tick \in Nat /\ x + 1 <= w
        BY ONLY <1>1, <1>8, <1>9, <2>4, <4>6
      <4>8. x + 1 <= server.tick + Drift
        BY ONLY <4>4, <4>6, <4>7, PlayConstants
      <4>9. x + Delay + Redundancy >= (server.tick + 1) + CommandQueue
        BY ONLY <4>6
      <4> QED
        BY ONLY <4>5, <4>6, <4>7, <4>8, <4>9, PlayConstants
    <3>3. TakeCommand(s, c, now) = Joined(s, c, now)
      BY <1>6, <1>9, <2>1, <2>4, <3>1, <3>2, TakenIn
    <3>4. w + Delay + Redundancy >= now + 1
      BY <1>4, <1>9, <1>10, PlayConstants
    <3>5. Waiting(Joined(s, c, now), now)
      BY <1>6, <1>9, <1>10, <2>1, <2>4, <3>4, JoinedWaits
    <3> DEFINE r == Joined(s, c, now)
    <3>6. /\ r \in Peer /\ r.lastTick = w /\ r.lastServerTick = now /\ r.tick = s.tick
          /\ r.accepted = s.accepted /\ r.tokens = s.tokens /\ r.applied = s.applied
          /\ r.position = s.position /\ r.violations = s.violations
      <4>1. s \in Peer /\ c \in Command /\ now \in Nat
        BY <1>6, <1>9, <2>1
      <4> HIDE DEF now
      <4>2. /\ r \in Peer /\ r.lastTick = c.tick /\ r.lastServerTick = now /\ r.tick = s.tick
            /\ r.accepted = s.accepted /\ r.tokens = s.tokens /\ r.applied = s.applied
            /\ r.position = s.position /\ r.violations = s.violations
        BY ONLY <4>1, JoinedIs, Zenon
      <4> QED
        BY <2>1, <4>2
    <3> HIDE DEF r
    <3>7. Waiting(r, now) /\ r.applied <= w
      BY <1>6, <1>8, <1>9, <2>4, <3>5, <3>6 DEF r
    <3>8. Midway(r, t, w)
      BY <1>6, <1>10, <3>6, <3>7 DEF Midway
    <3> QED
      BY <2>2, <3>3, <3>8 DEF r, w
  <2> QED
    BY <1>8, <1>9, <2>3, <2>4
<1>11. CASE ~ (w \in DOMAIN sampled /\ w > t - Redundancy)
  <2>1. PacketStep(s, t, w) = s
    BY <1>11 DEF PacketStep
  <2>2. ~ (u \in DOMAIN sampled /\ u > t - Redundancy)
    <3> SUFFICES ASSUME u \in DOMAIN sampled, u > t - Redundancy PROVE FALSE
      OBVIOUS
    <3>1. w \in u .. client.tick
      BY <1>9
    <3>2. w \in DOMAIN sampled
      BY <1>3, <3>1
    <3> QED
      BY <1>9, <1>11, <3>2, PlayConstants
  <2>3. s.lastTick = server.lastTick /\ s.lastServerTick = server.lastServerTick
    BY <1>7, <2>2
  <2>4. Midway(s, t, w)
    BY <1>6, <2>3 DEF Midway
  <2> QED
    BY <2>1, <2>4
<1> QED
  BY <1>10, <1>11

\* A packet that arrives breaks no rule.
LEMMA PacketKeeps ==
    ASSUME CommandsInv, Lenient, NEW t \in DOMAIN sampled, TakePacket(t)
    PROVE  CommandsInv'
<1>1. /\ server \in Peer /\ sampled \in [DOMAIN sampled -> Int] /\ client.tick \in Nat
      /\ server.accepted /\ server.tick + 1 <= t + Delay /\ server' = AfterPacket(t)
      /\ client' = client /\ replies' = replies /\ sampled' = sampled
      /\ executed' = executed /\ basis' = basis
  BY DEF CommandsInv, PlayTyped, Player, TakePacket
<1>2. Arrives(t)
  BY <1>1 DEF Arrives
<1>3. t \in Nat /\ server.tick \in Nat /\ server.lastTick \in Nat /\ server.lastServerTick \in Nat
  BY <1>1, PeerParts DEF CommandsInv, Sampling
<1>4. PICK f : /\ f[0] = server /\ AfterPacket(t) = f[t]
               /\ \A u \in 0 .. t : f[u] \in Peer
               /\ \A u \in 1 .. t : f[u] = PacketStep(f[u - 1], t, u)
  BY <1>1, <1>3, PacketIs
<1> DEFINE G == {u \in 0 .. t : Midway(f[u], t, u)}
<1>5. 0 \in G
  <2>1. server.lastServerTick # 0 /\ server.violations = 0
        /\ server.lastTick \in DOMAIN sampled \cup {0} /\ server.applied <= server.lastTick
    BY <1>1 DEF CommandsInv, Unflagged
  <2>2. Midway(server, t, 0)
    BY <1>1, <2>1 DEF Midway, CommandsInv
  <2> QED
    BY <1>3, <1>4, <2>2
<1>6. ASSUME NEW u \in 0 .. t - 1, u \in G PROVE u + 1 \in G
  <2>1. u + 1 \in 1 .. t /\ (u + 1) - 1 = u /\ u + 1 \in 0 .. t
    BY <1>3
  <2>2. f[u + 1] = PacketStep(f[u], t, u + 1)
    BY <1>4, <2>1
  <2>3. Midway(PacketStep(f[u], t, u + 1), t, u + 1)
    BY <1>2, <1>6, MidwayStep
  <2> QED
    BY <2>1, <2>2, <2>3
<1>7. t \in G
  <2>1. t \in 0 .. t
    BY <1>3
  <2> HIDE DEF G
  <2> QED
    BY <1>3, <1>5, <1>6, <2>1, UpTo
<1>8. Midway(server', t, t)
  BY <1>1, <1>4, <1>7
<1>9. /\ server' \in Peer /\ server'.accepted /\ server'.violations = 0
      /\ server'.tick = server.tick /\ server'.tokens = server.tokens
      /\ server'.applied = server.applied /\ server'.position = server.position
      /\ Waiting(server', server.tick + 1)
      /\ server'.lastTick \in DOMAIN sampled \cup {0} /\ server'.applied <= server'.lastTick
      /\ \/ server'.lastTick = server.lastTick /\ server'.lastServerTick = server.lastServerTick
         \/ server'.lastTick = t /\ server'.lastServerTick = server.tick + 1
  BY <1>8 DEF Midway
<1>10. PlayTyped'
  BY <1>1, <1>9 DEF CommandsInv, PlayTyped
<1>11. Together' /\ Sampling'
  BY <1>1, <1>9 DEF CommandsInv, Together, Sampling
<1>12. Unflagged'
  <2>1. /\ server.lastServerTick # 0 /\ server.lastServerTick <= server.tick + 1
        /\ server.lastServerTick <= server.lastTick + Delay
        /\ server.applied \in DOMAIN sampled \cup {0}
    BY <1>1 DEF CommandsInv, Unflagged
  <2>2. server'.lastServerTick # 0
    BY <1>3, <1>9, <2>1
  <2>3. server'.lastServerTick <= server'.tick + 1
    BY <1>3, <1>9, <2>1
  <2>4. server'.lastServerTick <= server'.lastTick + Delay
    BY <1>1, <1>3, <1>9, <2>1
  <2> QED
    BY <1>1, <1>9, <2>1, <2>2, <2>3, <2>4 DEF Unflagged
<1>13. Waiting(server, server.tick + 1)'
  BY <1>1, <1>9 DEF Waiting
<1>14. Applying'
  BY <1>1, <1>9 DEF CommandsInv, Applying, Walk
<1> QED
  BY <1>10, <1>11, <1>12, <1>13, <1>14 DEF CommandsInv

\* HELLO anchors the numbering of commands where nothing waits.
LEMMA HelloKeeps ==
    ASSUME CommandsInv, TakeHello
    PROVE  CommandsInv'
<1>1. /\ server \in Peer /\ server.lastServerTick = 0 /\ server.tick + 1 <= Delay
      /\ client' = client /\ replies' = replies /\ sampled' = sampled
      /\ executed' = executed /\ basis' = basis
      /\ server.tick \in Nat /\ server.applied \in Nat
  BY PeerParts DEF CommandsInv, PlayTyped, TakeHello
<1> DEFINE now == server.tick + 1
<1>2. server' = [server EXCEPT !.accepted = TRUE, !.lastTick = 0, !.lastServerTick = now]
  BY DEF TakeHello
<1>3. now \in Nat /\ now # 0 /\ now <= server.tick + 1 /\ now <= Delay /\ now = server.tick + 1
  BY <1>1, PlayConstants
<1>4. server.queue = <<>> /\ server.violations = 0 /\ server.applied = 0
  BY <1>1 DEF CommandsInv, Unflagged
<1> HIDE DEF now
<1>5. /\ server' \in Peer /\ server'.accepted /\ server'.lastTick = 0 /\ server'.lastServerTick = now
      /\ server'.tick = server.tick /\ server'.queue = <<>> /\ server'.violations = 0
      /\ server'.tokens = server.tokens /\ server'.applied = 0 /\ server'.position = server.position
  BY <1>1, <1>2, <1>3, <1>4 DEF Peer
<1>6. PlayTyped'
  BY <1>1, <1>5 DEF CommandsInv, PlayTyped
<1>7. Together' /\ Sampling'
  BY <1>1, <1>5 DEF CommandsInv, Together, Sampling
<1>8. Unflagged'
  BY <1>1, <1>3, <1>5, PlayConstants DEF Unflagged
<1>9. Waiting(server, server.tick + 1)'
  BY <1>5 DEF Waiting
<1>10. Applying'
  BY <1>1, <1>4, <1>5 DEF CommandsInv, Applying, Walk
<1> QED
  BY <1>6, <1>7, <1>8, <1>9, <1>10 DEF CommandsInv

-----------------------------------------------------------------------------
(* The replay of a client *)

\* A slot of the ring is one.
LEMMA SlotIn ==
    ASSUME NEW u \in Nat
    PROVE  HistorySlot(u) \in RingSlots
  BY PlayConstants DEF HistorySlot, RingSlots

\* The parts of the client.
LEMMA PlayerParts ==
    ASSUME NEW c \in Player
    PROVE  /\ c.tick \in Nat /\ c.playing \in BOOLEAN /\ c.spawned \in BOOLEAN
           /\ c.position \in Int /\ c.shown \in Nat /\ c.history \in [RingSlots -> Command]
           /\ c.predicted \in [RingSlots -> Int] /\ c.guessed \in [RingSlots -> Nat]
           /\ \A s \in RingSlots : c.history[s].tick \in Nat /\ c.history[s].step \in Int
  BY DEF Player, Command

\* One command run again.
LEMMA AgainIs ==
    ASSUME NEW c \in Player, NEW u \in Nat
    PROVE  LET p == c.position + c.history[HistorySlot(u)].step
               x == Again(c, u)
           IN  /\ x \in Player /\ p \in Int
               /\ x.position = p /\ x.history = c.history /\ x.tick = c.tick
               /\ x.playing = c.playing /\ x.spawned = c.spawned /\ x.shown = c.shown
               /\ x.predicted = [c.predicted EXCEPT ![HistorySlot(u)] = p]
               /\ x.guessed = [c.guessed EXCEPT ![HistorySlot(u)] = u]
<1> DEFINE h == HistorySlot(u)
           p == c.position + c.history[h].step
<1>1. h \in RingSlots /\ p \in Int
  BY SlotIn, PlayerParts
<1>2. Again(c, u) = [c EXCEPT !.position = p, !.predicted[h] = p, !.guessed[h] = u]
  BY Zenon DEF Again
<1> HIDE DEF h, p
<1> DEFINE d == [c.predicted EXCEPT ![h] = p]
           g == [c.guessed EXCEPT ![h] = u]
<1>3. [c EXCEPT !.position = p, !.predicted[h] = p, !.guessed[h] = u]
      = [c EXCEPT !.position = p, !.predicted = d, !.guessed = g]
  BY DEF Player
<1>4. d \in [RingSlots -> Int] /\ g \in [RingSlots -> Nat]
  BY <1>1, PlayerParts
<1> HIDE DEF d, g
<1>5. LET x == [c EXCEPT !.position = p, !.predicted = d, !.guessed = g]
      IN  /\ x \in Player /\ x.position = p /\ x.history = c.history /\ x.tick = c.tick
          /\ x.playing = c.playing /\ x.spawned = c.spawned /\ x.shown = c.shown
          /\ x.predicted = d /\ x.guessed = g
  BY <1>1, <1>4 DEF Player
<1> QED
  BY <1>1, <1>2, <1>3, <1>5, Zenon DEF d, g, p, h

\* The replay, tick by tick.
ReplayStep(c, base, from, x, u) ==
    IF u < from THEN base
    ELSE IF c.history[HistorySlot(u)].tick = u THEN Again(x, u) ELSE x

\* Where a replay begins.
Set(c, position) == [c EXCEPT !.position = position]

\* A replay is made one step at a time, and each step is a client.
LEMMA ReplayedIs ==
    ASSUME NEW c \in Player, NEW position \in Int, NEW from \in Nat \ {0}
    PROVE  \E f : /\ f[0] = Set(c, position) /\ Replayed(c, position, from) = f[c.tick]
                  /\ \A u \in 0 .. c.tick : f[u] \in Player
                  /\ \A u \in 1 .. c.tick :
                        f[u] = ReplayStep(c, Set(c, position), from, f[u - 1], u)
<1> DEFINE base == Set(c, position)
           N == c.tick
           step == [p \in (1 .. N) \X Player |-> ReplayStep(c, base, from, p[2], p[1])]
           Ran(f) == f = [u \in 0 .. N |->
                             IF u < from THEN [c EXCEPT !.position = position]
                             ELSE IF c.history[HistorySlot(u)].tick = u THEN Again(f[u - 1], u)
                             ELSE f[u - 1]]
<1>1. N \in Nat /\ base \in Player
  BY PlayerParts DEF Set, Player
<1>2. base = [c EXCEPT !.position = position]
  BY DEF Set
<1> HIDE DEF N, base
<1>3. ASSUME NEW x \in Player, NEW u \in 1 .. N PROVE ReplayStep(c, base, from, x, u) \in Player
  <2>1. Again(x, u) \in Player
    <3>1. u \in Nat
      BY <1>1
    <3> QED
      BY <3>1, AgainIs
  <2> QED
    BY <1>1, <2>1 DEF ReplayStep
<1>4. step \in [(1 .. N) \X Player -> Player]
  BY <1>3
<1>5. PICK f : f \in [0 .. N -> Player] /\ f[0] = base /\ \A u \in 1 .. N : f[u] = step[<<u, f[u - 1]>>]
  <2> HIDE DEF step
  <2>1. \E f : Runs(f, N, Player, base, step)
    BY <1>1, <1>4, Iterates
  <2> QED
    BY <2>1 DEF Runs
<1>6. ASSUME NEW u \in 1 .. N PROVE f[u] = ReplayStep(c, base, from, f[u - 1], u)
  <2>1. u - 1 \in 0 .. N
    BY <1>1
  <2>2. f[u - 1] \in Player
    BY <1>5, <2>1
  <2>3. step[<<u, f[u - 1]>>] = ReplayStep(c, base, from, f[u - 1], u)
    BY <2>2
  <2> QED
    BY <1>5, <2>3
<1> HIDE DEF step
<1>7. Ran(f)
  <2>1. f = [u \in 0 .. N |-> f[u]]
    BY <1>5
  <2>2. ASSUME NEW u \in 0 .. N
        PROVE  f[u] = IF u < from THEN [c EXCEPT !.position = position]
                      ELSE IF c.history[HistorySlot(u)].tick = u THEN Again(f[u - 1], u)
                      ELSE f[u - 1]
    <3>1. CASE u = 0
      BY <1>2, <1>5, <3>1
    <3>2. CASE u # 0
      <4>1. u \in 1 .. N
        BY <1>1, <3>2
      <4> QED
        BY <1>2, <1>6, <4>1 DEF ReplayStep
    <3> QED
      BY <3>1, <3>2
  <2> QED
    BY <2>1, <2>2
<1> DEFINE g == CHOOSE x : Ran(x)
<1>8. Replayed(c, position, from) = g[N]
  BY Zenon DEF Replayed, N
<1>9. Ran(g)
  <2> HIDE DEF Ran
  <2> QED
    BY <1>7
<1> HIDE DEF g
<1>10. g[0] = base /\ \A u \in 1 .. N : g[u] = ReplayStep(c, base, from, g[u - 1], u)
  BY <1>1, <1>2, <1>9, SMTT(60) DEF ReplayStep
<1>11. \A u \in 0 .. N : g[u] = f[u]
  <2>1. \A u \in 1 .. N : g[u - 1] = f[u - 1] => g[u] = f[u]
    BY <1>6, <1>10
  <2>2. Alike(g, f, N)
    BY <1>5, <1>10, <2>1 DEF Alike
  <2> QED
    BY <1>1, <2>2, SameLoop
<1>12. Replayed(c, position, from) = f[N]
  BY <1>1, <1>8, <1>11
<1>13. \A u \in 0 .. N : f[u] \in Player
  BY <1>5
<1> QED
  BY <1>5, <1>6, <1>12, <1>13 DEF base, N

\* A snapshot moves the player and what is predicted, nothing else.
LEMMA ReplayKeeps ==
    ASSUME NEW c \in Player, NEW position \in Int, NEW from \in Nat \ {0}
    PROVE  LET x == Replayed(c, position, from)
           IN  /\ x \in Player /\ x.tick = c.tick /\ x.playing = c.playing
               /\ x.spawned = c.spawned /\ x.shown = c.shown /\ x.history = c.history
<1> DEFINE base == Set(c, position)
           Same(x) == /\ x.tick = c.tick /\ x.playing = c.playing
                      /\ x.spawned = c.spawned /\ x.shown = c.shown /\ x.history = c.history
<1>1. PICK f : /\ f[0] = base /\ Replayed(c, position, from) = f[c.tick]
               /\ \A u \in 0 .. c.tick : f[u] \in Player
               /\ \A u \in 1 .. c.tick : f[u] = ReplayStep(c, base, from, f[u - 1], u)
  BY ReplayedIs
<1>2. c.tick \in Nat /\ Same(base)
  BY PlayerParts DEF Set, Player
<1> HIDE DEF base
<1> DEFINE G == {u \in 0 .. c.tick : Same(f[u])}
<1>3. 0 \in G
  BY <1>1, <1>2
<1>4. ASSUME NEW u \in 0 .. c.tick - 1, u \in G PROVE u + 1 \in G
  <2>1. u + 1 \in 1 .. c.tick /\ (u + 1) - 1 = u /\ u \in 0 .. c.tick /\ u + 1 \in 0 .. c.tick /\ u + 1 \in Nat
    BY <1>2
  <2>2. f[u + 1] = ReplayStep(c, base, from, f[u], u + 1) /\ f[u] \in Player
    BY <1>1, <2>1
  <2>3. Same(f[u])
    BY <1>4
  <2>4. Same(Again(f[u], u + 1))
    BY <2>1, <2>2, <2>3, AgainIs
  <2>5. Same(f[u + 1])
    <3> HIDE DEF Same
    <3> QED
      BY <1>2, <2>2, <2>3, <2>4 DEF ReplayStep
  <2> QED
    BY <2>1, <2>5
<1>5. c.tick \in G
  <2>1. c.tick \in 0 .. c.tick
    BY <1>2
  <2> HIDE DEF G
  <2> QED
    BY <1>2, <1>3, <1>4, <2>1, UpTo
<1>6. c.tick \in 0 .. c.tick
  BY <1>2
<1> QED
  BY <1>1, <1>5, <1>6

\* The client a snapshot finds: what it shows, and where the first one spawns it.
Greeted(m) ==
    [client EXCEPT !.shown = m.tick, !.spawned = TRUE,
                   !.position = IF client.spawned THEN client.position ELSE m.position]

\* What the first reply sets and what every reply does.
LEMMA GreetedIs ==
    ASSUME client \in Player, NEW m \in Reply
    PROVE  /\ Greeted(m) \in Player /\ Greeted(m).tick = client.tick
           /\ Greeted(m).playing = client.playing /\ Greeted(m).spawned
           /\ Greeted(m).shown = m.tick /\ Greeted(m).history = client.history
           /\ Greeted(m).predicted = client.predicted /\ Greeted(m).guessed = client.guessed
           /\ Greeted(m).position = IF client.spawned THEN client.position ELSE m.position
  BY DEF Greeted, Player, Reply

\* Where a replay begins: past the confirmed command, and in what the ring still holds.
LEMMA FromIs ==
    ASSUME NEW c \in Player, NEW m \in Reply
    PROVE  LET from == ReplayFrom(c, m)
           IN  /\ from \in Nat \ {0} /\ from > m.command
               /\ c.tick - m.command < CommandHistory => from = m.command + 1
               /\ from + CommandHistory >= c.tick + 2
<1>1. c.tick \in Nat /\ m.command \in Nat
  BY PlayerParts DEF Reply
<1> QED
  BY <1>1, PlayConstants DEF ReplayFrom, Larger

\* What the client and the ghost are once a reply was taken.
LEMMA TakeReplyIs ==
    ASSUME client \in Player, NEW m \in Reply, TakeReply(m)
    PROVE  LET c == Greeted(m)
           IN  /\ client' = IF Agrees(c, m) THEN c ELSE Replayed(c, m.position, ReplayFrom(c, m))
               /\ basis'.position = m.position /\ basis'.command = m.command
               /\ basis'.exact = IF Agrees(c, m)
                                 THEN basis.exact /\ c.guessed[HistorySlot(m.command)] = m.command
                                 ELSE c.tick - m.command < CommandHistory
               /\ basis' = [position |-> m.position, command |-> m.command, exact |-> basis'.exact]
               /\ replies' = {x \in replies : x.tick > m.tick}
               /\ server' = server /\ sampled' = sampled /\ executed' = executed
               /\ m \in replies /\ client.playing
  BY DEF TakeReply, Greeted, Reconciled

\* What a snapshot leaves of the client, whether it agrees or the commands are replayed.
LEMMA ReplyLeaves ==
    ASSUME client \in Player, NEW m \in Reply, TakeReply(m)
    PROVE  /\ client' \in Player /\ client'.tick = client.tick /\ client'.playing = client.playing
           /\ client'.spawned /\ client'.shown = m.tick /\ client'.history = client.history
<1> DEFINE c == Greeted(m)
           from == ReplayFrom(c, m)
           x == Replayed(c, m.position, from)
<1>1. /\ c \in Player /\ c.tick = client.tick /\ c.playing = client.playing /\ c.spawned
      /\ c.shown = m.tick /\ c.history = client.history /\ m.position \in Int
  BY GreetedIs DEF Reply
<1> HIDE DEF c
<1>2. from \in Nat \ {0}
  BY <1>1, FromIs
<1> HIDE DEF from
<1>3. /\ x \in Player /\ x.tick = c.tick /\ x.playing = c.playing
      /\ x.spawned = c.spawned /\ x.shown = c.shown /\ x.history = c.history
  BY <1>1, <1>2, ReplayKeeps
<1>4. client' = IF Agrees(c, m) THEN c ELSE x
  BY TakeReplyIs DEF c, x, from
<1> HIDE DEF x
<1> QED
  BY <1>1, <1>3, <1>4

\* A reply keeps the invariant of the commands.
LEMMA ReplyKeeps ==
    ASSUME CommandsInv, NEW m \in replies, TakeReply(m)
    PROVE  CommandsInv'
<1>1. client \in Player /\ m \in Reply /\ server \in Peer
  BY DEF CommandsInv, PlayTyped
<1>2. client' \in Player /\ client'.tick = client.tick /\ client'.playing = client.playing
  BY <1>1, ReplyLeaves
<1>3. /\ server' = server /\ sampled' = sampled /\ executed' = executed
      /\ replies' = {x \in replies : x.tick > m.tick}
      /\ basis' = [position |-> m.position, command |-> m.command, exact |-> basis'.exact]
  BY <1>1, TakeReplyIs
<1>4. basis'.exact \in BOOLEAN
  <2> DEFINE c == Greeted(m)
             first == basis.exact /\ c.guessed[HistorySlot(m.command)] = m.command
             second == c.tick - m.command < CommandHistory
  <2>1. first \in BOOLEAN /\ second \in BOOLEAN
    OBVIOUS
  <2>2. basis'.exact = IF Agrees(c, m) THEN first ELSE second
    BY <1>1, TakeReplyIs
  <2> HIDE DEF first, second
  <2> QED
    BY <2>1, <2>2
<1>5. PlayTyped'
  <2>1. basis' \in [position : Int, command : Nat, exact : BOOLEAN]
    BY <1>1, <1>3, <1>4 DEF Reply
  <2>2. replies' \in SUBSET Reply
    BY <1>3 DEF CommandsInv, PlayTyped
  <2> QED
    BY <1>2, <1>3, <2>1, <2>2 DEF CommandsInv, PlayTyped
<1>6. Together' /\ Sampling' /\ Unflagged'
  BY <1>2, <1>3 DEF CommandsInv, Together, Sampling, Unflagged
<1>7. Waiting(server, server.tick + 1)'
  BY <1>3 DEF CommandsInv, Waiting
<1>8. Applying'
  BY <1>2, <1>3 DEF CommandsInv, Applying, Walk
<1> QED
  BY <1>5, <1>6, <1>7, <1>8 DEF CommandsInv

\* The welcome keeps it.
LEMMA WelcomeKeeps ==
    ASSUME CommandsInv, TakeWelcome
    PROVE  CommandsInv'
<1>1. /\ client \in Player /\ client' = [client EXCEPT !.playing = TRUE]
      /\ server' = server /\ replies' = replies /\ sampled' = sampled
      /\ executed' = executed /\ basis' = basis
  BY DEF CommandsInv, PlayTyped, TakeWelcome
<1>2. client' \in Player /\ client'.tick = client.tick /\ client'.playing
  BY <1>1 DEF Player
<1>3. PlayTyped' /\ Together' /\ Sampling' /\ Unflagged'
  BY <1>1, <1>2 DEF CommandsInv, PlayTyped, Together, Sampling, Unflagged
<1>4. Waiting(server, server.tick + 1)'
  BY <1>1 DEF CommandsInv, Waiting
<1>5. Applying'
  BY <1>1, <1>2 DEF CommandsInv, Applying, Walk
<1> QED
  BY <1>3, <1>4, <1>5 DEF CommandsInv

\* The commands of a tick, moved one by one.
LEMMA AppliedIs ==
    ASSUME NEW s \in Peer
    PROVE  LET r == ApplyCommands(s)
           IN  \E n, f :
                 /\ n \in 0 .. Len(s.queue)
                 /\ r \in Peer /\ n <= s.tokens + 1 /\ r.tokens + n <= s.tokens + 1
                 /\ n = 0 => Len(s.queue) = 0
                 /\ Len(r.queue) = Len(s.queue) - n
                 /\ \A k \in 1 .. Len(s.queue) - n : r.queue[k] = s.queue[n + k]
                 /\ r.applied = (IF n = 0 THEN s.applied ELSE s.queue[n].tick)
                 /\ f[0] = s.position /\ r.position = f[n]
                 /\ \A k \in 1 .. n : f[k] = f[k - 1] + s.queue[k].step
                 /\ r.tick = s.tick /\ r.accepted = s.accepted /\ r.lastTick = s.lastTick
                 /\ r.lastServerTick = s.lastServerTick /\ r.violations = s.violations
<1> DEFINE q == s.queue
           L == Len(q)
           tokens == Smaller(s.tokens + 1, CommandBurst)
           n == Smaller(L, tokens)
           step == [p \in (1 .. n) \X Int |-> p[2] + q[p[1]].step]
           Sum(f) == f = [k \in 0 .. n |-> IF k = 0 THEN s.position ELSE f[k - 1] + q[k].step]
           g == CHOOSE x : Sum(x)
           rest == SubSeq(q, n + 1, L)
           done == IF n = 0 THEN s.applied ELSE q[n].tick
           left == tokens - n
<1>1. /\ s.position \in Int /\ s.tokens \in Nat /\ s.applied \in Nat /\ L \in Nat /\ q \in Seq(Command)
      /\ \A k \in 1 .. L : q[k] \in Command /\ q[k].tick \in Nat /\ q[k].step \in Int
  BY PeerParts
<1>2. tokens \in Nat /\ tokens <= s.tokens + 1 /\ tokens # 0
  BY <1>1, PlayConstants DEF Smaller
<1>3. n \in 0 .. L /\ n \in Nat /\ n <= tokens /\ (n = 0 => L = 0)
  BY <1>1, <1>2 DEF Smaller
<1>4. ApplyCommands(s) = [s EXCEPT !.tokens = left, !.queue = rest, !.applied = done, !.position = g[n]]
  <2> DEFINE a == g[n]
  <2>1. ApplyCommands(s) = [s EXCEPT !.tokens = tokens - n, !.queue = SubSeq(@, n + 1, Len(@)),
                                     !.applied = IF n = 0 THEN @ ELSE q[n].tick, !.position = a]
    BY Zenon DEF ApplyCommands
  <2> HIDE DEF a, n, tokens, Sum
  <2> QED
    BY <2>1 DEF Peer, a
<1> HIDE DEF q, L, tokens, n
<1>5. /\ rest \in Seq(Command) /\ Len(rest) = L - n
      /\ \A k \in 1 .. L - n : rest[k] = q[n + k]
  <2>1. \A i \in n + 1 .. L : q[i] \in Command
    BY <1>1, <1>3
  <2>2. n + 1 \in Int /\ L \in Int
    BY <1>1, <1>3
  <2>3. /\ SubSeq(q, n + 1, L) \in Seq(Command)
        /\ Len(SubSeq(q, n + 1, L)) = IF n + 1 <= L THEN (L - (n + 1)) + 1 ELSE 0
        /\ \A i \in 1 .. (L - (n + 1)) + 1 : SubSeq(q, n + 1, L)[i] = q[((n + 1) + i) - 1]
    BY <2>1, <2>2, SubSeqProperties
  <2>4. (L - (n + 1)) + 1 = L - n
    BY <1>1, <1>3
  <2>5. Len(rest) = L - n
    BY <1>1, <1>3, <2>3
  <2>6. ASSUME NEW k \in 1 .. L - n PROVE rest[k] = q[n + k]
    <3>1. ((n + 1) + k) - 1 = n + k
      BY <1>1, <1>3
    <3> QED
      BY <2>3, <2>4, <3>1
  <2> QED
    BY <2>3, <2>5, <2>6
<1>6. step \in [(1 .. n) \X Int -> Int]
  BY <1>1, <1>3
<1>7. PICK f : f \in [0 .. n -> Int] /\ f[0] = s.position /\ \A k \in 1 .. n : f[k] = step[<<k, f[k - 1]>>]
  <2> HIDE DEF step
  <2>1. \E f : Runs(f, n, Int, s.position, step)
    BY <1>1, <1>3, <1>6, Iterates
  <2> QED
    BY <2>1 DEF Runs
<1>8. ASSUME NEW k \in 1 .. n PROVE f[k] = f[k - 1] + q[k].step
  <2>1. k - 1 \in 0 .. n
    BY <1>3
  <2>2. f[k - 1] \in Int
    BY <1>7, <2>1
  <2>3. step[<<k, f[k - 1]>>] = f[k - 1] + q[k].step
    BY <2>2
  <2> QED
    BY <1>7, <2>3
<1> HIDE DEF step
<1>9. Sum(f)
  <2>1. f = [k \in 0 .. n |-> f[k]]
    BY <1>7
  <2>2. ASSUME NEW k \in 0 .. n PROVE f[k] = IF k = 0 THEN s.position ELSE f[k - 1] + q[k].step
    <3>1. k # 0 => k \in 1 .. n
      BY <1>3
    <3> QED
      BY <1>7, <1>8, <3>1
  <2> QED
    BY <2>1, <2>2
<1>10. Sum(g)
  <2> HIDE DEF Sum
  <2> QED
    BY <1>9
<1> HIDE DEF g
<1>11. g[0] = s.position /\ \A k \in 1 .. n : g[k] = g[k - 1] + q[k].step
  BY <1>3, <1>10
<1>12. \A k \in 0 .. n : g[k] = f[k]
  <2>1. Alike(g, f, n)
    BY <1>7, <1>8, <1>11 DEF Alike
  <2> QED
    BY <1>3, <2>1, SameLoop
<1>13. g[n] \in Int
  BY <1>3, <1>7, <1>12
<1>14. left \in Nat /\ left + n <= s.tokens + 1 /\ n <= s.tokens + 1
  BY <1>1, <1>2, <1>3
<1>15. done \in Nat
  BY <1>1, <1>3
<1> DEFINE r == ApplyCommands(s)
           a == g[n]
<1>16. r = [s EXCEPT !.tokens = left, !.queue = rest, !.applied = done, !.position = a]
  BY <1>4
<1> HIDE DEF r, rest, left, a
<1>17. done \in Nat /\ a \in Int
  BY <1>13, <1>15 DEF a
<1>18. done = IF n = 0 THEN s.applied ELSE q[n].tick
  OBVIOUS
<1> HIDE DEF done
<1>19. /\ r \in Peer /\ r.tokens = left /\ r.queue = rest /\ r.applied = done /\ r.position = a
       /\ r.tick = s.tick /\ r.accepted = s.accepted /\ r.lastTick = s.lastTick
       /\ r.lastServerTick = s.lastServerTick /\ r.violations = s.violations
  BY <1>5, <1>14, <1>16, <1>17 DEF Peer
<1>20. n \in 0 .. Len(s.queue) /\ q = s.queue /\ L = Len(s.queue)
  BY <1>3 DEF q, L
<1>21. /\ n \in 0 .. Len(s.queue)
       /\ r \in Peer /\ n <= s.tokens + 1 /\ r.tokens + n <= s.tokens + 1
       /\ n = 0 => Len(s.queue) = 0
       /\ Len(r.queue) = Len(s.queue) - n
       /\ \A k \in 1 .. Len(s.queue) - n : r.queue[k] = s.queue[n + k]
       /\ r.applied = (IF n = 0 THEN s.applied ELSE s.queue[n].tick)
       /\ g[0] = s.position /\ r.position = g[n]
       /\ \A k \in 1 .. n : g[k] = g[k - 1] + s.queue[k].step
       /\ r.tick = s.tick /\ r.accepted = s.accepted /\ r.lastTick = s.lastTick
       /\ r.lastServerTick = s.lastServerTick /\ r.violations = s.violations
  BY <1>3, <1>5, <1>11, <1>14, <1>18, <1>19, <1>20 DEF a
<1> DEFINE x == ApplyCommands(s)
           Drawn(i, h) == /\ i \in 0 .. Len(s.queue)
                          /\ x \in Peer /\ i <= s.tokens + 1 /\ x.tokens + i <= s.tokens + 1
                          /\ i = 0 => Len(s.queue) = 0
                          /\ Len(x.queue) = Len(s.queue) - i
                          /\ \A k \in 1 .. Len(s.queue) - i : x.queue[k] = s.queue[i + k]
                          /\ x.applied = (IF i = 0 THEN s.applied ELSE s.queue[i].tick)
                          /\ h[0] = s.position /\ x.position = h[i]
                          /\ \A k \in 1 .. i : h[k] = h[k - 1] + s.queue[k].step
                          /\ x.tick = s.tick /\ x.accepted = s.accepted /\ x.lastTick = s.lastTick
                          /\ x.lastServerTick = s.lastServerTick /\ x.violations = s.violations
<1>22. r = x
  BY DEF r
<1> HIDE DEF n, g, x
<1>23. Drawn(n, g)
  BY <1>21, <1>22
<1> HIDE DEF Drawn
<1>24. \E i, h : Drawn(i, h)
  BY <1>23
<1> QED
  BY <1>24 DEF Drawn, x

\* The commands that were executed once n more of the waiting ones are.
Done(n) == executed \cup {server.queue[i].tick : i \in 1 .. n}

\* Moving the player by what waits is the walk of what was executed by then.
LEMMA WalkOfDone ==
    ASSUME CommandsInv, NEW n \in 0 .. Len(server.queue), NEW f, f[0] = server.position,
           \A k \in 1 .. n : f[k] = f[k - 1] + server.queue[k].step
    PROVE  /\ f[n] = Total(sampled, Done(n), client.tick)
           /\ Cardinality(Done(n)) <= Cardinality(executed) + n
           /\ Cardinality(Done(n)) \in Nat /\ Cardinality(executed) \in Nat
<1> DEFINE q == server.queue
           N == client.tick
           Good(k) == /\ f[k] = Total(sampled, Done(k), N) /\ IsFiniteSet(Done(k))
                      /\ Cardinality(Done(k)) <= Cardinality(executed) + k
                      /\ Done(k) \subseteq DOMAIN sampled
           G == {k \in 0 .. n : Good(k)}
<1>1. /\ N \in Nat /\ server \in Peer /\ Len(q) \in Nat /\ n \in Nat /\ server.applied \in Nat
      /\ \A k \in 1 .. Len(q) : q[k].tick \in Nat /\ q[k].step \in Int
  BY PeerParts DEF CommandsInv, PlayTyped, Player
<1>2. /\ \A k \in 1 .. Len(q) : /\ q[k].tick \in DOMAIN sampled /\ q[k].step = sampled[q[k].tick]
                                /\ q[k].tick > server.applied
                                /\ \A i \in 1 .. k - 1 : q[i].tick < q[k].tick
      /\ executed \in SUBSET DOMAIN sampled /\ \A u \in executed : u <= server.applied
      /\ server.position = Total(sampled, executed, N)
  BY DEF CommandsInv, Waiting, Applying, Walk
<1>3. DOMAIN sampled \subseteq 1 .. N /\ \A u \in DOMAIN sampled : sampled[u] \in Int
  BY DEF CommandsInv, PlayTyped, Sampling
<1> HIDE DEF N, q
<1>4. IsFiniteSet(executed) /\ Cardinality(executed) \in Nat
  <2>1. IsFiniteSet(1 .. N)
    BY <1>1, FS_Interval
  <2>2. executed \subseteq 1 .. N
    BY <1>2, <1>3
  <2> QED
    BY <2>1, <2>2, FS_Subset, FS_CardinalityType
<1>5. 0 \in G
  <2>1. Done(0) = executed
    BY DEF Done
  <2> QED
    BY <1>1, <1>2, <1>4, <2>1
<1>6. ASSUME NEW k \in 0 .. n - 1, k \in G PROVE k + 1 \in G
  <2>1. k + 1 \in 1 .. n /\ (k + 1) - 1 = k /\ k + 1 \in 0 .. n /\ k + 1 \in 1 .. Len(q) /\ k \in Nat
    BY <1>1 DEF q
  <2> DEFINE u == q[k + 1].tick
  <2>2. Good(k)
    BY <1>6
  <2>3. u \in DOMAIN sampled /\ q[k + 1].step = sampled[u] /\ u > server.applied /\ u \in Nat
    BY <1>1, <1>2, <2>1
  <2>4. u \notin Done(k)
    <3>1. u \notin executed
      BY <1>1, <1>2, <1>3, <2>3
    <3>2. ASSUME NEW i \in 1 .. k PROVE q[i].tick # u
      <4>1. i \in 1 .. (k + 1) - 1 /\ i \in 1 .. Len(q)
        BY <1>1, <2>1
      <4>2. q[i].tick < q[k + 1].tick /\ q[i].tick \in Nat
        BY <1>1, <1>2, <2>1, <4>1
      <4> QED
        BY <2>3, <4>2
    <3> QED
      BY <3>1, <3>2 DEF Done, q
  <2>5. Done(k + 1) = Done(k) \cup {u}
    <3>1. 1 .. k + 1 = (1 .. k) \cup {k + 1}
      BY <2>1
    <3> QED
      BY <3>1 DEF Done, q
  <2> HIDE DEF u
  <2>6. Done(k + 1) \subseteq DOMAIN sampled
    BY <2>2, <2>3, <2>5
  <2>7. Summable(sampled, Done(k) \cup {u}, N)
    BY <1>3, <2>5, <2>6 DEF Summable
  <2>8. Total(sampled, Done(k) \cup {u}, N) = Total(sampled, Done(k), N) + sampled[u]
    <3>1. u \in 1 .. N
      BY <1>3, <2>3
    <3> QED
      BY <1>1, <2>4, <2>7, <3>1, TotalAdd
  <2>9. f[k + 1] = f[k] + sampled[u]
    BY <2>1, <2>3 DEF q
  <2>10. f[k + 1] = Total(sampled, Done(k + 1), N)
    BY <2>2, <2>5, <2>8, <2>9
  <2>11. /\ IsFiniteSet(Done(k + 1)) /\ Cardinality(Done(k + 1)) = Cardinality(Done(k)) + 1
         /\ Cardinality(Done(k)) \in Nat
    <3>1. IsFiniteSet(Done(k))
      BY <2>2
    <3>2. IsFiniteSet(Done(k) \cup {u}) /\ Cardinality(Done(k) \cup {u}) = Cardinality(Done(k)) + 1
      BY <2>4, <3>1, FS_AddElement
    <3> QED
      BY <2>5, <3>1, <3>2, FS_CardinalityType
  <2>12. Cardinality(Done(k + 1)) <= Cardinality(executed) + (k + 1)
    BY <1>4, <2>1, <2>2, <2>11
  <2> QED
    BY <2>1, <2>6, <2>10, <2>11, <2>12
<1>7. n \in G
  <2>1. n \in 0 .. n
    BY <1>1
  <2> HIDE DEF G
  <2> QED
    BY <1>1, <1>5, <1>6, <2>1, UpTo
<1>8. Good(n)
  BY <1>7
<1>9. Cardinality(Done(n)) \in Nat
  BY <1>8, FS_CardinalityType
<1> QED
  BY <1>4, <1>8, <1>9 DEF N

\* A tick of the server before there is a player to serve.
LEMMA IdleTickKeeps ==
    ASSUME CommandsInv, ServerTicks, ~ server.accepted
    PROVE  CommandsInv'
<1>1. /\ server \in Peer /\ server.tick \in Nat /\ client \in Player /\ client.tick \in Nat
      /\ server.tick < client.tick + Drift /\ executed \in SUBSET Nat
      /\ server.tokens \in Nat
  BY PeerParts DEF CommandsInv, PlayTyped, Player, ServerTicks
<1>2. server.lastServerTick = 0 /\ server.queue = <<>>
  BY DEF CommandsInv, Unflagged
<1>3. /\ server' = [server EXCEPT !.tick = @ + 1] /\ replies' = replies
      /\ client' = client /\ sampled' = sampled /\ basis' = basis
      /\ executed' = executed \cup {server.queue[n].tick : n \in 1 .. Len(server.queue) - Len(server.queue)}
  BY DEF ServerTicks
<1>4. executed' = executed
  <2>1. Len(server.queue) - Len(server.queue) = 0
    BY <1>1, PeerParts
  <2> QED
    BY <1>3, <2>1
<1> DEFINE next == server.tick + 1
<1>5. next \in Nat /\ server' = [server EXCEPT !.tick = next]
  BY <1>1, <1>3 DEF Peer
<1>6. next = server.tick + 1
  OBVIOUS
<1> HIDE DEF next
<1>7. /\ server' \in Peer /\ server'.tick = next /\ server'.accepted = server.accepted
      /\ server'.lastTick = server.lastTick /\ server'.lastServerTick = 0 /\ server'.queue = <<>>
      /\ server'.tokens = server.tokens /\ server'.applied = server.applied
      /\ server'.position = server.position /\ server'.violations = server.violations
  BY <1>1, <1>2, <1>5 DEF Peer
<1>8. PlayTyped'
  BY <1>3, <1>4, <1>7 DEF CommandsInv, PlayTyped
<1>9. Together'
  BY <1>1, <1>3, <1>6, <1>7, PlayConstants DEF CommandsInv, Together
<1>10. Sampling' /\ Unflagged'
  BY <1>2, <1>3, <1>7 DEF CommandsInv, Sampling, Unflagged
<1>11. Waiting(server, server.tick + 1)'
  BY <1>7 DEF Waiting
<1>12. Applying'
  <2>1. Cardinality(executed) + server.tokens <= server.tick /\ Cardinality(executed) \in Nat
    <3>1. IsFiniteSet(executed)
      <4>1. executed \subseteq 1 .. client.tick
        BY DEF CommandsInv, Applying, Sampling
      <4>2. IsFiniteSet(1 .. client.tick)
        <5>1. 1 \in Int /\ client.tick \in Int
          BY <1>1
        <5> QED
          BY <5>1, FS_Interval
      <4> QED
        BY <4>1, <4>2, FS_Subset
    <3> QED
      BY <3>1, FS_CardinalityType DEF CommandsInv, Applying
  <2>2. Cardinality(executed) + server'.tokens <= server'.tick
    BY <1>1, <1>6, <1>7, <2>1
  <2> QED
    BY <1>3, <1>4, <1>7, <2>2 DEF CommandsInv, Applying, Walk
<1> QED
  BY <1>8, <1>9, <1>10, <1>11, <1>12 DEF CommandsInv

\* A tick of the server that moves its player.
LEMMA PlayTickKeeps ==
    ASSUME CommandsInv, ServerTicks, server.accepted
    PROVE  CommandsInv'
<1> DEFINE q == server.queue
           L == Len(q)
           r == ApplyCommands(server)
           next == server.tick + 1
<1>1. /\ server \in Peer /\ server.tick \in Nat /\ client \in Player /\ client.tick \in Nat
      /\ server.tick < client.tick + Drift /\ executed \in SUBSET Nat
      /\ server.tokens \in Nat /\ server.lastServerTick \in Nat /\ L \in Nat
      /\ server.lastTick \in Nat /\ server.applied \in Nat
      /\ \A k \in 1 .. L : q[k].tick \in Nat
  BY PeerParts DEF CommandsInv, PlayTyped, Player, ServerTicks
<1>2. PICK n, f :
         /\ n \in 0 .. L
         /\ r \in Peer /\ n <= server.tokens + 1 /\ r.tokens + n <= server.tokens + 1
         /\ n = 0 => L = 0
         /\ Len(r.queue) = L - n
         /\ \A k \in 1 .. L - n : r.queue[k] = q[n + k]
         /\ r.applied = (IF n = 0 THEN server.applied ELSE q[n].tick)
         /\ f[0] = server.position /\ r.position = f[n]
         /\ \A k \in 1 .. n : f[k] = f[k - 1] + q[k].step
         /\ r.tick = server.tick /\ r.accepted = server.accepted /\ r.lastTick = server.lastTick
         /\ r.lastServerTick = server.lastServerTick /\ r.violations = server.violations
  BY <1>1, AppliedIs
<1>3. n \in Nat /\ L - (L - n) = n
  BY <1>1, <1>2
<1>4. /\ server' = [r EXCEPT !.tick = @ + 1]
      /\ executed' = executed \cup {q[i].tick : i \in 1 .. L - Len(r.queue)}
      /\ replies' = replies \cup {[tick |-> server'.tick, command |-> r.applied, position |-> r.position]}
      /\ client' = client /\ sampled' = sampled /\ basis' = basis
  BY DEF ServerTicks
<1>5. executed' = Done(n)
  BY <1>2, <1>3, <1>4 DEF Done
<1>6. \A k \in 1 .. L : /\ q[k].tick \in DOMAIN sampled /\ q[k].step = sampled[q[k].tick]
                        /\ q[k].tick > server.applied /\ q[k].tick <= server.lastTick
                        /\ \A i \in 1 .. k - 1 : q[i].tick < q[k].tick
                        /\ q[k].tick + Delay + Redundancy >= (server.tick + 1) + k
  BY DEF CommandsInv, Waiting
<1>7. /\ f[n] = Total(sampled, Done(n), client.tick)
      /\ Cardinality(Done(n)) <= Cardinality(executed) + n
      /\ Cardinality(Done(n)) \in Nat /\ Cardinality(executed) \in Nat
  BY <1>2, WalkOfDone
<1> HIDE DEF q, L, r
<1>8. server' = [r EXCEPT !.tick = next]
  BY <1>2, <1>4 DEF Peer
<1>9. next \in Nat /\ next = server.tick + 1
  BY <1>1
<1> HIDE DEF next
<1>10. /\ server' \in Peer /\ server'.tick = next /\ server'.queue = r.queue
       /\ server'.tokens = r.tokens /\ server'.applied = r.applied /\ server'.position = r.position
       /\ server'.accepted = server.accepted /\ server'.lastTick = server.lastTick
       /\ server'.lastServerTick = server.lastServerTick /\ server'.violations = server.violations
  BY <1>2, <1>8, <1>9 DEF Peer
<1>11. r.tokens \in Nat /\ r.applied \in Nat /\ r.position \in Int /\ r.queue \in Seq(Command)
  BY <1>2, PeerParts
<1>12. PlayTyped'
  <2>1. [tick |-> server'.tick, command |-> r.applied, position |-> r.position] \in Reply
    BY <1>9, <1>10, <1>11 DEF Reply
  <2>2. replies' \in SUBSET Reply
    BY <1>4, <2>1 DEF CommandsInv, PlayTyped
  <2>3. executed' \in SUBSET Nat
    <3>1. ASSUME NEW i \in 1 .. n PROVE q[i].tick \in Nat
      BY <1>1, <1>2, <1>3
    <3> QED
      BY <1>1, <1>5, <3>1 DEF Done, q
  <2> QED
    BY <1>4, <1>10, <2>2, <2>3 DEF CommandsInv, PlayTyped
<1>13. Together'
  <2>1. client.tick <= server.tick + Drift
    BY DEF CommandsInv, Together
  <2>2. next <= client.tick + Drift /\ client.tick <= next + Drift
    BY <1>1, <1>9, <2>1, PlayConstants
  <2> QED
    BY <1>4, <1>10, <2>2 DEF Together
<1>14. Sampling'
  BY <1>4 DEF CommandsInv, Sampling
<1>15. /\ r.applied \in DOMAIN sampled \cup {0} /\ r.applied <= server.lastTick
       /\ server.applied <= r.applied
  <2>1. CASE n = 0
    BY <1>1, <1>2, <2>1 DEF CommandsInv, Unflagged
  <2>2. CASE n # 0
    <3>1. n \in 1 .. L
      BY <1>2, <1>3, <2>2
    <3> QED
      BY <1>1, <1>2, <1>6, <2>2, <3>1
  <2> QED
    BY <2>1, <2>2
<1>16. Unflagged'
  <2>1. /\ server.lastServerTick # 0 /\ server.lastServerTick <= server.tick + 1 /\ server.violations = 0
        /\ server.lastServerTick <= server.lastTick + Delay
        /\ server.lastTick \in DOMAIN sampled \cup {0}
    BY DEF CommandsInv, Unflagged
  <2>2. server.lastServerTick <= next + 1
    BY <1>1, <1>9, <2>1
  <2> QED
    BY <1>4, <1>10, <1>15, <2>1, <2>2 DEF Unflagged
<1>17. Waiting(server, server.tick + 1)'
  <2>1. ASSUME NEW k \in 1 .. L - n
        PROVE  /\ q[n + k].tick \in DOMAIN sampled /\ q[n + k].step = sampled[q[n + k].tick]
               /\ q[n + k].tick > r.applied /\ q[n + k].tick <= server.lastTick
               /\ \A i \in 1 .. k - 1 : r.queue[i].tick < q[n + k].tick
               /\ q[n + k].tick + Delay + Redundancy >= (next + 1) + k
    <3>1. n + k \in 1 .. L /\ n \in 1 .. (n + k) - 1 /\ n # 0 /\ k \in Nat
      BY <1>1, <1>2, <1>3
    <3>2. \A i \in 1 .. k - 1 : r.queue[i] = q[n + i] /\ n + i \in 1 .. (n + k) - 1
      BY <1>1, <1>2, <1>3
    <3>3. \A i \in 1 .. (n + k) - 1 : q[i].tick < q[n + k].tick
      BY <1>6, <3>1
    <3>4. q[n + k].tick > r.applied
      BY <1>2, <3>1, <3>3, q[n].tick < q[n + k].tick, n \in 1 .. L, <1>1
    <3>5. q[n + k].tick + Delay + Redundancy >= (next + 1) + k
      <4>1. q[n + k].tick + Delay + Redundancy >= (server.tick + 1) + (n + k) /\ q[n + k].tick \in Nat
        BY <1>1, <1>6, <3>1
      <4> QED
        BY <1>1, <1>3, <1>9, <3>1, <4>1, PlayConstants
    <3>6. /\ q[n + k].tick \in DOMAIN sampled /\ q[n + k].step = sampled[q[n + k].tick]
          /\ q[n + k].tick <= server.lastTick
      BY <1>6, <3>1
    <3> QED
      BY <3>2, <3>3, <3>4, <3>5, <3>6
  <2>2. Len(server'.queue) = L - n /\ \A k \in 1 .. L - n : server'.queue[k] = q[n + k]
    BY <1>2, <1>10
  <2>3. ASSUME NEW k \in 1 .. Len(server'.queue)
        PROVE  /\ server'.queue[k].tick \in DOMAIN sampled
               /\ server'.queue[k].step = sampled[server'.queue[k].tick]
               /\ server'.queue[k].tick > server'.applied /\ server'.queue[k].tick <= server'.lastTick
               /\ \A i \in 1 .. k - 1 : server'.queue[i].tick < server'.queue[k].tick
               /\ server'.queue[k].tick + Delay + Redundancy >= (server'.tick + 1) + k
    <3>1. k \in 1 .. L - n /\ server'.queue[k] = q[n + k]
      BY <2>2
    <3> QED
      BY <1>10, <2>1, <3>1
  <2> QED
    BY <1>4, <2>3, Zenon DEF Waiting
<1>18. Applying'
  <2>1. executed' \in SUBSET DOMAIN sampled /\ \A u \in executed' : u <= r.applied
    <3>1. \A u \in executed : u \in DOMAIN sampled /\ u \in Nat /\ u <= server.applied
      BY <1>1 DEF CommandsInv, Applying
    <3>2. \A u \in executed : u <= r.applied
      BY <1>1, <1>11, <1>15, <3>1
    <3>3. ASSUME NEW i \in 1 .. n PROVE q[i].tick \in DOMAIN sampled /\ q[i].tick <= r.applied
      <4>1. i \in 1 .. L /\ n \in 1 .. L /\ n # 0 /\ (i = n \/ i \in 1 .. n - 1)
        BY <1>1, <1>2, <1>3
      <4>2. r.applied = q[n].tick
        BY <1>2, <4>1
      <4>3. i \in 1 .. n - 1 => q[i].tick < q[n].tick
        BY <1>6, <4>1
      <4> QED
        BY <1>1, <1>6, <4>1, <4>2, <4>3
    <3> QED
      BY <1>5, <3>1, <3>2, <3>3 DEF Done, q
  <2>2. server'.position = Total(sampled, Done(n), client.tick)
    BY <1>2, <1>7, <1>10
  <2>3. Walk(executed)' = Total(sampled, Done(n), client.tick)
    BY <1>4, <1>5 DEF Walk
  <2>4. Cardinality(executed) + server.tokens <= server.tick
    BY DEF CommandsInv, Applying
  <2>5. Cardinality(Done(n)) + r.tokens <= next
    <3> DEFINE D == Cardinality(Done(n))
               C == Cardinality(executed)
    <3>1. D <= C + n /\ D \in Nat /\ C \in Nat
      BY <1>7
    <3>2. r.tokens + n <= server.tokens + 1
      BY <1>2
    <3>3. C + server.tokens <= server.tick
      BY <2>4
    <3>4. n \in Nat /\ r.tokens \in Nat /\ server.tokens \in Nat /\ server.tick \in Nat
      BY <1>1, <1>3, <1>11
    <3> HIDE DEF D, C
    <3>5. D + r.tokens <= next
      BY ONLY <1>9, <3>1, <3>2, <3>3, <3>4
    <3> QED
      BY <3>5 DEF D
  <2>6. (Cardinality(executed) + server.tokens <= server.tick)'
    BY <1>5, <1>10, <2>5
  <2> QED
    BY <1>4, <1>10, <2>1, <2>2, <2>3, <2>6 DEF Applying
<1> QED
  BY <1>12, <1>13, <1>14, <1>16, <1>17, <1>18 DEF CommandsInv

\* A command sent: kept, and predicted once there is a player to predict.
LEMMA SentIs ==
    ASSUME client \in Player, NEW step \in Int, SendCommand(step)
    PROVE  LET t == client.tick + 1
               p == IF client.spawned THEN client.position + step ELSE client.position
           IN  /\ client' \in Player /\ client'.tick = t /\ client'.playing = client.playing
               /\ client'.spawned = client.spawned /\ client'.shown = client.shown
               /\ client'.history = [client.history EXCEPT ![HistorySlot(t)] = [tick |-> t, step |-> step]]
               /\ client'.position = p
               /\ client'.predicted = IF client.spawned THEN [client.predicted EXCEPT ![HistorySlot(t)] = p]
                                      ELSE client.predicted
               /\ client'.guessed = IF client.spawned THEN [client.guessed EXCEPT ![HistorySlot(t)] = t]
                                    ELSE client.guessed
<1> DEFINE t == client.tick + 1
           p == IF client.spawned THEN client.position + step ELSE client.position
           h == HistorySlot(t)
           e == [tick |-> t, step |-> step]
           x == IF client.spawned THEN p ELSE client.predicted[h]
           y == IF client.spawned THEN t ELSE client.guessed[h]
           H == [client.history EXCEPT ![h] = e]
           X == [client.predicted EXCEPT ![h] = x]
           Y == [client.guessed EXCEPT ![h] = y]
<1>1. t \in Nat /\ p \in Int
  BY PlayerParts
<1>2. h \in RingSlots
  BY <1>1, SlotIn
<1>3. e \in Command /\ x \in Int /\ y \in Nat
  BY <1>1, <1>2, PlayerParts DEF Command
<1>4. H \in [RingSlots -> Command] /\ X \in [RingSlots -> Int] /\ Y \in [RingSlots -> Nat]
  BY <1>2, <1>3, PlayerParts
<1>5. client' = [client EXCEPT !.tick = t, !.history[h] = e, !.position = p,
                               !.predicted[h] = x, !.guessed[h] = y]
  BY Zenon DEF SendCommand
<1>6. /\ X = IF client.spawned THEN [client.predicted EXCEPT ![h] = p] ELSE client.predicted
      /\ Y = IF client.spawned THEN [client.guessed EXCEPT ![h] = t] ELSE client.guessed
  <2>1. CASE client.spawned
    BY <2>1
  <2>2. CASE ~ client.spawned
    <3>1. [client.predicted EXCEPT ![h] = client.predicted[h]] = client.predicted
      BY PlayerParts
    <3>2. [client.guessed EXCEPT ![h] = client.guessed[h]] = client.guessed
      BY PlayerParts
    <3> QED
      BY <2>2, <3>1, <3>2
  <2> QED
    BY <2>1, <2>2
<1> HIDE DEF e, x, y
<1>7. client' = [client EXCEPT !.tick = t, !.history = H, !.position = p, !.predicted = X, !.guessed = Y]
  <2> HIDE DEF t, p, h
  <2> QED
    BY <1>5 DEF Player
<1> HIDE DEF H, X, Y
<1> DEFINE z == [client EXCEPT !.tick = t, !.history = H, !.position = p, !.predicted = X, !.guessed = Y]
<1>8. /\ z \in Player /\ z.tick = t /\ z.playing = client.playing /\ z.spawned = client.spawned
      /\ z.shown = client.shown /\ z.history = H /\ z.position = p /\ z.predicted = X /\ z.guessed = Y
  <2> HIDE DEF t, p
  <2> QED
    BY <1>1, <1>4 DEF Player
<1> HIDE DEF z
<1>9. client' = z
  BY <1>7 DEF z
<1> QED
  BY <1>6, <1>8, <1>9 DEF H, e, h

\* A command that was not yet sampled changes no sum of older ones.
LEMMA WalkOn ==
    ASSUME NEW N \in Nat, NEW S \in SUBSET (1 .. N), NEW st, NEW sv,
           \A u \in S : st[u] \in Int /\ sv[u] = st[u]
    PROVE  Total(sv, S, N + 1) = Total(st, S, N)
<1>1. Summable(st, S, N) /\ Summable(sv, S, N) /\ Summable(sv, S, N + 1)
  BY DEF Summable
<1>2. Total(sv, S, N + 1) = Total(sv, S, N) + Summand(sv, S, N + 1)
  BY <1>1, TotalNext
<1>3. Summand(sv, S, N + 1) = 0
  BY DEF Summand
<1>4. \A t \in 1 .. N : Summand(st, S, t) = Summand(sv, S, t)
  BY DEF Summand
<1>5. Total(st, S, N) = Total(sv, S, N)
  BY <1>1, <1>4, TotalSame
<1>6. Total(sv, S, N) \in Int
  BY <1>1, TotalInt
<1> QED
  BY <1>2, <1>3, <1>5, <1>6

\* A tick of the client, whether it samples a command or not yet.
LEMMA TickIs ==
    ASSUME client \in Player, ClientTicks
    PROVE  /\ client' \in Player /\ client'.tick = client.tick + 1 /\ client'.playing = client.playing
           /\ client.tick < server.tick + Drift
           /\ server' = server /\ replies' = replies /\ executed' = executed /\ basis' = basis
           /\ \/ /\ client.playing
                 /\ \E step \in Steps : /\ SendCommand(step)
                                        /\ sampled' = [u \in DOMAIN sampled \cup {client.tick + 1} |->
                                              IF u = client.tick + 1 THEN step ELSE sampled[u]]
              \/ /\ ~ client.playing /\ sampled' = sampled
                 /\ client' = [client EXCEPT !.tick = client.tick + 1]
<1>1. /\ client.tick < server.tick + Drift
      /\ server' = server /\ replies' = replies /\ executed' = executed /\ basis' = basis
  BY DEF ClientTicks
<1>2. CASE client.playing /\ \E step \in Steps : SendCommand(step)
  <2>1. PICK step \in Steps : SendCommand(step)
    BY <1>2
  <2>2. step \in Int
    BY PlayConstants
  <2>3. client' \in Player /\ client'.tick = client.tick + 1 /\ client'.playing = client.playing
    BY <2>1, <2>2, SentIs
  <2>4. sampled' = [u \in DOMAIN sampled \cup {client.tick + 1} |->
                       IF u = client.tick + 1 THEN step ELSE sampled[u]]
    BY <2>1 DEF SendCommand
  <2> QED
    BY <1>1, <1>2, <2>1, <2>3, <2>4
<1>3. CASE ~ client.playing /\ client' = [client EXCEPT !.tick = @ + 1] /\ UNCHANGED sampled
  <2> DEFINE t == client.tick + 1
  <2>1. client' = [client EXCEPT !.tick = t] /\ t \in Nat
    BY <1>3, PlayerParts DEF Player
  <2> HIDE DEF t
  <2>2. client' \in Player /\ client'.tick = t /\ client'.playing = client.playing
    BY <2>1 DEF Player
  <2> QED
    BY <1>1, <1>3, <2>1, <2>2 DEF t
<1> QED
  BY <1>2, <1>3 DEF ClientTicks

\* The commands there were keep their steps, whatever a tick samples.
LEMMA SampledOn ==
    ASSUME PlayTyped, Sampling, ClientTicks
    PROVE  /\ sampled' \in [DOMAIN sampled' -> Int]
           /\ DOMAIN sampled \subseteq DOMAIN sampled'
           /\ DOMAIN sampled' \subseteq DOMAIN sampled \cup {client.tick + 1}
           /\ \A u \in DOMAIN sampled : sampled'[u] = sampled[u]
           /\ Sampling'
<1> DEFINE t == client.tick + 1
           D == DOMAIN sampled
<1>1. client \in Player /\ client.tick \in Nat /\ sampled \in [D -> Int]
  BY PlayerParts DEF PlayTyped
<1>2. D \subseteq 1 .. client.tick /\ \A u \in D : u .. client.tick \subseteq D
  BY DEF Sampling
<1>3. client'.tick = t /\ client'.playing = client.playing
  BY <1>1, TickIs
<1>4. CASE ~ client.playing /\ sampled' = sampled
  <2>1. D = {} /\ DOMAIN sampled' = {}
    BY <1>4 DEF Sampling
  <2>2. Sampling'
    BY <2>1 DEF Sampling
  <2> QED
    BY <1>1, <1>4, <2>1, <2>2
<1>5. CASE client.playing /\ \E step \in Steps :
                sampled' = [u \in D \cup {t} |-> IF u = t THEN step ELSE sampled[u]]
  <2>1. PICK step \in Steps : sampled' = [u \in D \cup {t} |-> IF u = t THEN step ELSE sampled[u]]
    BY <1>5
  <2>2. t \notin D /\ t \in Nat
    BY <1>1, <1>2
  <2>3. DOMAIN sampled' = D \cup {t} /\ \A u \in D : sampled'[u] = sampled[u]
    BY <2>1, <2>2
  <2>4. sampled' \in [D \cup {t} -> Int]
    BY <1>1, <2>1, PlayConstants
  <2>5. Sampling'
    <3>1. D \cup {t} \subseteq 1 .. t
      BY <1>1, <1>2
    <3>2. ASSUME NEW u \in D \cup {t}, NEW v \in u .. t PROVE v \in D \cup {t}
      <4>1. CASE u = t
        BY <1>1, <4>1
      <4>2. CASE u \in D
        <5>1. v = t \/ v \in u .. client.tick
          BY <1>1, <1>2, <4>2
        <5> QED
          BY <1>2, <4>2, <5>1
      <4> QED
        BY <4>1, <4>2
    <3>3. \A u \in D \cup {t} : u .. t \subseteq D \cup {t}
      BY <3>2
    <3> QED
      BY <1>3, <1>5, <2>3, <3>1, <3>3 DEF Sampling
  <2> QED
    BY <2>3, <2>4, <2>5
<1> QED
  BY <1>1, <1>4, <1>5, TickIs

\* A tick of the client keeps it.
LEMMA TickKeeps ==
    ASSUME CommandsInv, ClientTicks
    PROVE  CommandsInv'
<1>1. /\ PlayTyped /\ Sampling /\ client \in Player /\ client.tick \in Nat /\ server \in Peer
      /\ server.tick \in Nat
  BY PlayerParts, PeerParts DEF CommandsInv, PlayTyped
<1>2. /\ client' \in Player /\ client'.tick = client.tick + 1 /\ client'.playing = client.playing
      /\ client.tick < server.tick + Drift
      /\ server' = server /\ replies' = replies /\ executed' = executed /\ basis' = basis
  BY <1>1, TickIs
<1>3. /\ sampled' \in [DOMAIN sampled' -> Int] /\ DOMAIN sampled \subseteq DOMAIN sampled'
      /\ \A u \in DOMAIN sampled : sampled'[u] = sampled[u]
      /\ Sampling'
  BY <1>1, SampledOn
<1>4. PlayTyped'
  BY <1>2, <1>3 DEF CommandsInv, PlayTyped
<1>5. Together'
  <2>1. server.tick <= client.tick + Drift
    BY DEF CommandsInv, Together
  <2>2. server.tick <= (client.tick + 1) + Drift /\ client.tick + 1 <= server.tick + Drift
    BY <1>1, <1>2, <2>1, PlayConstants
  <2> QED
    BY <1>2, <2>2 DEF Together
<1>6. Unflagged'
  BY <1>2, <1>3 DEF CommandsInv, Unflagged
<1>7. Waiting(server, server.tick + 1)'
  BY <1>2, <1>3 DEF CommandsInv, Waiting
<1>8. Applying'
  <2>1. executed \in SUBSET DOMAIN sampled /\ executed \in SUBSET (1 .. client.tick)
    BY DEF CommandsInv, Applying, Sampling
  <2>2. \A u \in executed : sampled[u] \in Int /\ sampled'[u] = sampled[u]
    BY <1>1, <1>3, <2>1 DEF PlayTyped
  <2>3. Total(sampled', executed, client.tick + 1) = Total(sampled, executed, client.tick)
    BY <1>1, <2>1, <2>2, WalkOn
  <2>4. Walk(executed)' = Walk(executed)
    BY <1>2, <2>3 DEF Walk
  <2> QED
    BY <1>2, <1>3, <2>4 DEF CommandsInv, Applying
<1> QED
  BY <1>3, <1>4, <1>5, <1>6, <1>7, <1>8 DEF CommandsInv

\* It holds at first.
LEMMA CommandsInit ==
    ASSUME PredictionInit
    PROVE  CommandsInv
<1> USE DEF PredictionInit
<1>1. client \in Player
  <2>1. /\ SlotsOf(NoCommand) \in [RingSlots -> Command] /\ SlotsOf(0) \in [RingSlots -> Int]
        /\ SlotsOf(0) \in [RingSlots -> Nat]
    BY DEF SlotsOf, NoCommand, RingSlots, Command
  <2> QED
    BY <2>1 DEF Player
<1>2. server \in Peer
  <2>1. <<>> \in Seq(Command)
    BY EmptySeq
  <2> QED
    BY <2>1 DEF Peer
<1>3. DOMAIN sampled = {} /\ sampled \in [DOMAIN sampled -> Int]
  OBVIOUS
<1>4. PlayTyped
  BY <1>1, <1>2, <1>3 DEF PlayTyped
<1>5. Together /\ Sampling /\ Unflagged
  BY <1>3, PlayConstants DEF Together, Sampling, Unflagged
<1>6. Waiting(server, server.tick + 1)
  BY DEF Waiting
<1>7. Applying
  <2>1. Walk({}) = 0
    BY TotalNone DEF Walk
  <2>2. Cardinality({}) = 0
    BY FS_EmptySet
  <2> QED
    BY <1>3, <2>1, <2>2 DEF Applying
<1> QED
  BY <1>4, <1>5, <1>6, <1>7 DEF CommandsInv

\* Every step keeps it.
LEMMA CommandsStep ==
    ASSUME CommandsInv, Lenient, [PredictionNext]_predictionVars
    PROVE  CommandsInv'
<1>1. CASE TakeHello
  BY <1>1, HelloKeeps
<1>2. CASE TakeWelcome
  BY <1>2, WelcomeKeeps
<1>3. CASE ClientTicks
  BY <1>3, TickKeeps
<1>4. CASE ServerTicks
  BY <1>4, IdleTickKeeps, PlayTickKeeps
<1>5. ASSUME NEW t \in DOMAIN sampled, TakePacket(t) PROVE CommandsInv'
  BY <1>5, PacketKeeps
<1>6. ASSUME NEW m \in replies, TakeReply(m) PROVE CommandsInv'
  BY <1>6, ReplyKeeps
<1>7. CASE UNCHANGED predictionVars
  <2>1. /\ client' = client /\ server' = server /\ replies' = replies /\ sampled' = sampled
        /\ executed' = executed /\ basis' = basis
    BY <1>7 DEF predictionVars
  <2>2. Waiting(server, server.tick + 1)'
    BY <2>1 DEF CommandsInv, Waiting
  <2> QED
    BY <2>1, <2>2 DEF CommandsInv, PlayTyped, Together, Sampling, Unflagged, Applying, Walk
<1> QED
  BY <1>1, <1>2, <1>3, <1>4, <1>5, <1>6, <1>7 DEF PredictionNext

\* While what clocks and network do stays within the slack and the queue, the server
\* moves an honest player by every command it applied, once and in order, by no more of
\* them than it had ticks, and never counts a broken rule (_nya_net_server_on_commands
\* and _nya_net_server_apply_commands).
THEOREM CommandsFairAlways ==
    ASSUME Lenient
    PROVE  PredictionSpec => []CommandsFair
<1>1. PredictionInit => CommandsInv
  BY CommandsInit
<1>2. CommandsInv /\ [PredictionNext]_predictionVars => CommandsInv'
  BY CommandsStep
<1>3. CommandsInv => CommandsFair
  <2> SUFFICES ASSUME CommandsInv PROVE CommandsFair
    OBVIOUS
  <2>1. server.position = Walk(executed) /\ \A t \in executed : t <= server.applied
    BY DEF CommandsInv, Applying
  <2>2. \A n \in 1 .. Len(server.queue) :
           /\ server.queue[n].tick > server.applied /\ server.queue[n].tick <= server.lastTick
           /\ \A k \in 1 .. n - 1 : server.queue[k].tick < server.queue[n].tick
    BY DEF CommandsInv, Waiting
  <2>3. Cardinality(executed) + server.tokens <= server.tick /\ server.violations = 0
    BY DEF CommandsInv, Applying, Unflagged
  <2> QED
    BY <2>1, <2>2, <2>3 DEF CommandsFair, CommandsOnce, NeverFlagged
<1> QED
  BY <1>1, <1>2, <1>3, PTL DEF PredictionSpec

-----------------------------------------------------------------------------
(***************************************************************************)
(* What the player sees: the invariant of PredictionHolds.  It is about    *)
(* any clocks, any network and any limits: a server that flags the player  *)
(* or drops commands is corrected for all the same.                        *)
(***************************************************************************)

\* What waits is in order and new.
Sequenced(s) ==
    /\ s.applied <= s.lastTick
    /\ \A n \in 1 .. Len(s.queue) :
        /\ s.queue[n].tick \in DOMAIN sampled /\ s.queue[n].tick > s.applied
        /\ s.queue[n].tick <= s.lastTick
        /\ \A k \in 1 .. n - 1 : s.queue[k].tick < s.queue[n].tick

\* The numbering of commands is anchored before any is taken, the client plays before
\* it has a player.
Anchored ==
    /\ server.accepted => server.lastServerTick # 0
    /\ server.lastServerTick = 0 => server.queue = <<>> /\ server.applied = 0
    /\ client.spawned => client.playing

\* Later snapshots answer later commands, and those that answer the same one say the same.
Follows(x, y) == x.command <= y.command /\ (x.command = y.command => x.position = y.position)
Answers == [command |-> server.applied, position |-> server.position]
Answering ==
    /\ server.applied \in DOMAIN sampled \cup {0}
    /\ client.shown <= server.tick
    /\ \A r \in replies : /\ client.shown < r.tick /\ r.tick <= server.tick
                          /\ r.command \in DOMAIN sampled \cup {0}
                          /\ Follows(basis, r) /\ Follows(r, Answers)
    /\ Follows(basis, Answers) /\ basis.command \in DOMAIN sampled \cup {0}
    /\ \A r, x \in replies : r.tick <= x.tick => Follows(r, x)

\* The ring has every command it is long enough for, and no other.
Remembers(history, ticks, steps, now) ==
    /\ \A u \in ticks : u + CommandHistory > now =>
            history[HistorySlot(u)].tick = u /\ history[HistorySlot(u)].step = steps[u]
    /\ \A s \in RingSlots : history[s].tick \in ticks \cup {0}
SentInputs ==
    /\ Remembers(client.history, DOMAIN sampled, sampled, client.tick)
    /\ \A s \in RingSlots : client.guessed[s] \in DOMAIN sampled \cup {0}
    /\ ~ client.spawned => \A s \in RingSlots : client.guessed[s] = 0

\* Where the player is after a command, as far as a snapshot and what was sampled tell.
After(steps, k) == {t \in DOMAIN steps : t > k}
Predicted(steps, b, u) == b.position + Total(steps, After(steps, b.command), u)

\* What was predicted for a command counts what was sampled up to it.
Guessing ==
    client.spawned /\ basis.exact =>
        /\ client.position = Predicted(sampled, basis, client.tick)
        /\ \A u \in 1 .. client.tick :
              client.guessed[HistorySlot(u)] = u /\ u > basis.command
                  => client.predicted[HistorySlot(u)] = Predicted(sampled, basis, u)

PredictionInv ==
    PlayTyped /\ Sampling /\ Anchored /\ Sequenced(server) /\ Answering /\ SentInputs /\ Guessing

\* Following on is transitive.
LEMMA FollowsOn ==
    ASSUME NEW x, NEW y, NEW z, x.command \in Nat, y.command \in Nat, z.command \in Nat,
           Follows(x, y), Follows(y, z)
    PROVE  Follows(x, z)
  BY DEF Follows

\* A command taken, whatever the server thinks of it, leaves what waits in order.
LEMMA TakenInOrder ==
    ASSUME NEW s \in Peer, NEW c \in Command, NEW now \in Nat, Sequenced(s),
           c.tick \in DOMAIN sampled
    PROVE  LET r == TakeCommand(s, c, now)
           IN  /\ Sequenced(r) /\ r \in Peer /\ r.tick = s.tick /\ r.applied = s.applied
               /\ r.position = s.position /\ (r.lastServerTick = s.lastServerTick \/ r.lastServerTick = now)
               /\ (r.accepted => s.accepted)
<1> DEFINE r == TakeCommand(s, c, now)
           q == s.queue
           L == Len(q)
           Like(x) == /\ x \in Peer /\ x.tick = s.tick /\ x.applied = s.applied
                      /\ x.position = s.position /\ (x.accepted => s.accepted)
           rest == IF L = CommandQueue THEN Tail(q) ELSE q
           x == Queued(s, c)
           y == [x EXCEPT !.lastTick = c.tick, !.lastServerTick = now]
<1>1. /\ q \in Seq(Command) /\ L \in Nat /\ s.applied \in Nat /\ s.lastTick \in Nat /\ c.tick \in Nat
      /\ s.violations \in Nat /\ \A n \in 1 .. L : q[n].tick \in Nat
  BY PeerParts DEF Command
<1>2. r \in Peer
  BY TakeCommandTyped
<1>3. CASE ~ s.accepted \/ Copy(s, c)
  <2>1. r = s
    BY <1>3 DEF TakeCommand
  <2> HIDE DEF r
  <2> QED
    BY <2>1 DEF r
<1>4. CASE s.accepted /\ ~ Copy(s, c) /\ r = Violation(s)
  <2>1. r.queue = s.queue /\ r.lastTick = s.lastTick /\ r.tick = s.tick /\ r.applied = s.applied
        /\ r.position = s.position /\ r.lastServerTick = s.lastServerTick
    BY <1>4 DEF Violation, Peer
  <2> HIDE DEF r
  <2>2. Sequenced(r)
    BY <2>1 DEF Sequenced
  <2> QED
    BY <1>2, <1>4, <2>1, <2>2 DEF r
<1>5. CASE s.accepted /\ ~ Copy(s, c) /\ r = y
  <2>1. c.tick > s.lastTick
    BY <1>1, <1>5 DEF Copy
  <2>2. /\ rest \in Seq(Command)
        /\ Len(rest) \in Nat /\ Len(rest) <= L
        /\ \E d \in Nat : Len(rest) + d = L /\ \A n \in 1 .. Len(rest) : rest[n] = q[n + d]
    <3>1. CASE L = CommandQueue
      <4>1. q # <<>>
        BY <1>1, <3>1, PlayConstants, EmptySeq
      <4>2. /\ Tail(q) \in Seq(Command) /\ Len(Tail(q)) = L - 1
            /\ \A i \in 1 .. Len(Tail(q)) : Tail(q)[i] = q[i + 1]
        BY <1>1, <4>1, HeadTailProperties
      <4>3. L # 0 /\ rest = Tail(q)
        BY <3>1, PlayConstants
      <4> HIDE DEF rest, q, L
      <4>4. Len(rest) + 1 = L
        BY <1>1, <4>2, <4>3
      <4> QED
        BY <1>1, <4>2, <4>3, <4>4
    <3>2. CASE L # CommandQueue
      <4>1. rest = q
        BY <3>2
      <4> HIDE DEF rest
      <4>2. Len(rest) + 0 = L /\ \A n \in 1 .. Len(rest) : rest[n] = q[n + 0]
        BY <1>1, <4>1
      <4> QED
        BY <1>1, <4>1, <4>2
    <3> QED
      BY <3>1, <3>2
  <2>3. /\ y.queue = Append(rest, c) /\ y.lastTick = c.tick /\ y.lastServerTick = now
        /\ y.tick = s.tick /\ y.applied = s.applied /\ y.position = s.position
    <3>1. CASE L = CommandQueue
      <4> DEFINE v == Violation(s)
      <4>1. v.queue = s.queue /\ v.tick = s.tick /\ v.applied = s.applied /\ v.position = s.position
            /\ DOMAIN v = DOMAIN s
        BY DEF Violation, Peer
      <4>2. x = [v EXCEPT !.queue = Append(Tail(@), c)]
        BY <3>1 DEF Queued
      <4>3. DOMAIN v = {"tick", "accepted", "lastTick", "lastServerTick", "queue", "tokens", "applied",
                        "position", "violations"}
        BY <4>1 DEF Peer
      <4> HIDE DEF v, x
      <4>4. x.queue = Append(Tail(q), c) /\ x.tick = s.tick /\ x.applied = s.applied
            /\ x.position = s.position /\ DOMAIN x = DOMAIN v
        BY <4>1, <4>2, <4>3
      <4>5. rest = Tail(q)
        BY <3>1
      <4> QED
        BY <4>3, <4>4, <4>5
    <3>2. CASE L # CommandQueue
      <4>1. x = [s EXCEPT !.queue = Append(q, c)]
        BY <3>2 DEF Queued
      <4>2. rest = q
        BY <3>2
      <4> HIDE DEF x, q, rest
      <4> QED
        BY <4>1, <4>2 DEF Peer
    <3> QED
      BY <3>1, <3>2
  <2> DEFINE a == Append(rest, c)
             l == Len(rest)
  <2>4. Len(a) = l + 1 /\ a[l + 1] = c /\ \A n \in 1 .. l : a[n] = rest[n]
    BY <2>2, AppendProperties
  <2> HIDE DEF a, l, y, r
  <2>5. PICK d \in Nat : l + d = L /\ \A n \in 1 .. l : rest[n] = q[n + d]
    BY <2>2 DEF l
  <2>6. l \in Nat /\ L - d = l
    BY <1>1, <2>2, <2>5 DEF l
  <2> HIDE DEF L, q, rest
  <2>7. \A n \in 1 .. L : /\ q[n].tick \in DOMAIN sampled /\ q[n].tick > s.applied
                          /\ q[n].tick <= s.lastTick
                          /\ \A k \in 1 .. n - 1 : q[k].tick < q[n].tick
    BY DEF Sequenced, q, L
  <2>8. \A n \in 1 .. l : n + d \in 1 .. L /\ a[n] = q[n + d]
    BY <2>4, <2>5, <2>6
  <2>9. ASSUME NEW n \in 1 .. l + 1
        PROVE  /\ a[n].tick \in DOMAIN sampled /\ a[n].tick > s.applied
               /\ a[n].tick <= c.tick
               /\ \A k \in 1 .. n - 1 : a[k].tick < a[n].tick
    <3>1. CASE n = l + 1
      <4>1. \A k \in 1 .. l : a[k].tick < c.tick
        BY <1>1, <2>1, <2>7, <2>8, SMTT(60)
      <4>2. a[n] = c /\ n - 1 = l /\ c.tick > s.applied /\ c.tick <= c.tick
        BY <1>1, <2>1, <2>4, <2>6, <3>1 DEF Sequenced
      <4> QED
        BY <4>1, <4>2
    <3>2. CASE n # l + 1
      <4>1. n \in 1 .. l
        BY <2>6, <3>2
      <4>2. ASSUME NEW k \in 1 .. n - 1 PROVE a[k].tick < a[n].tick
        <5>1. k \in 1 .. l /\ k + d \in 1 .. (n + d) - 1
          BY <2>5, <2>6, <4>1
        <5> QED
          BY <2>7, <2>8, <4>1, <5>1
      <4>3. q[n + d].tick <= s.lastTick /\ q[n + d].tick \in Nat
        BY <1>1, <2>7, <2>8, <4>1
      <4>4. q[n + d].tick <= c.tick
        BY <1>1, <2>1, <4>3
      <4> QED
        BY <2>7, <2>8, <4>1, <4>2, <4>4
    <3> QED
      BY <3>1, <3>2
  <2>10. r.queue = a /\ r.lastTick = c.tick /\ r.applied = s.applied
    BY <1>5, <2>3 DEF a
  <2>11. s.applied <= c.tick
    BY <1>1, <2>1 DEF Sequenced
  <2>12. Sequenced(r)
    BY <2>4, <2>9, <2>10, <2>11 DEF Sequenced
  <2> QED
    BY <1>2, <1>5, <2>3, <2>12 DEF r
<1>6. r = s \/ r = Violation(s) \/ r = y \/ ~ s.accepted \/ Copy(s, c)
  <2> DEFINE e == Larger(now - s.lastServerTick, 0)
             late == c.tick - s.lastTick > e + CommandSlack
             soon == c.tick - s.lastTick <= e + CommandSlack
  <2>1. late \/ soon
    BY PeerParts, PlayConstants DEF Larger, Command
  <2>2. r = CASE ~s.accepted \/ Copy(s, c) -> s
              [] s.accepted /\ ~Copy(s, c) /\ late -> Violation(s)
              [] s.accepted /\ ~Copy(s, c) /\ soon -> y
    BY DEF TakeCommand
  <2> HIDE DEF late, soon, r, y
  <2> QED
    BY <2>1, <2>2
<1>7. CASE s.accepted /\ ~ Copy(s, c) /\ r = s
  <2> HIDE DEF r
  <2> QED
    BY <1>7 DEF r
<1> QED
  <2> HIDE DEF r, y
  <2> QED
    BY <1>3, <1>4, <1>5, <1>6, <1>7 DEF r

\* A tick of the server: what it applies, what it answers and what of it was executed.
LEMMA ServerTickIs ==
    ASSUME PlayTyped, ServerTicks
    PROVE  LET q == server.queue
               L == Len(q)
           IN  \E n, f :
                 /\ n \in 0 .. L
                 /\ server' \in Peer /\ server'.tick = server.tick + 1
                 /\ server'.tokens + n <= server.tokens + 1 /\ (server.accepted /\ n = 0 => L = 0)
                 /\ (~ server.accepted => n = 0)
                 /\ Len(server'.queue) = L - n
                 /\ \A k \in 1 .. L - n : server'.queue[k] = q[n + k]
                 /\ server'.applied = (IF n = 0 THEN server.applied ELSE q[n].tick)
                 /\ f[0] = server.position /\ server'.position = f[n]
                 /\ \A k \in 1 .. n : f[k] = f[k - 1] + q[k].step
                 /\ server'.accepted = server.accepted /\ server'.lastTick = server.lastTick
                 /\ server'.lastServerTick = server.lastServerTick
                 /\ server'.violations = server.violations
                 /\ executed' = Done(n)
                 /\ replies' = IF server.accepted
                               THEN replies \cup {[tick |-> server'.tick, command |-> server'.applied,
                                                   position |-> server'.position]}
                               ELSE replies
                 /\ client' = client /\ sampled' = sampled /\ basis' = basis
                 /\ server.tick < client.tick + Drift
<1> DEFINE q == server.queue
           L == Len(q)
           r == ApplyCommands(server)
           next == server.tick + 1
<1>1. /\ server \in Peer /\ server.tick \in Nat /\ server.tokens \in Nat /\ L \in Nat
      /\ server.position \in Int
  BY PeerParts DEF PlayTyped
<1>2. next \in Nat /\ next = server.tick + 1
  BY <1>1
<1>3. client' = client /\ sampled' = sampled /\ basis' = basis /\ server.tick < client.tick + Drift
  BY DEF ServerTicks
<1>4. CASE server.accepted
  <2>1. PICK n, f :
         /\ n \in 0 .. L
         /\ r \in Peer /\ n <= server.tokens + 1 /\ r.tokens + n <= server.tokens + 1
         /\ n = 0 => L = 0
         /\ Len(r.queue) = L - n
         /\ \A k \in 1 .. L - n : r.queue[k] = q[n + k]
         /\ r.applied = (IF n = 0 THEN server.applied ELSE q[n].tick)
         /\ f[0] = server.position /\ r.position = f[n]
         /\ \A k \in 1 .. n : f[k] = f[k - 1] + q[k].step
         /\ r.tick = server.tick /\ r.accepted = server.accepted /\ r.lastTick = server.lastTick
         /\ r.lastServerTick = server.lastServerTick /\ r.violations = server.violations
    BY <1>1, AppliedIs
  <2>2. n \in Nat /\ L - (L - n) = n
    BY <1>1, <2>1
  <2>3. /\ server' = [r EXCEPT !.tick = @ + 1]
        /\ executed' = executed \cup {q[i].tick : i \in 1 .. L - Len(r.queue)}
        /\ replies' = replies \cup {[tick |-> server'.tick, command |-> r.applied, position |-> r.position]}
    BY <1>4 DEF ServerTicks
  <2>4. executed' = Done(n)
    BY <2>1, <2>2, <2>3 DEF Done
  <2> HIDE DEF q, L, r
  <2>5. server' = [r EXCEPT !.tick = next]
    BY <2>1, <2>3 DEF Peer
  <2> HIDE DEF next
  <2>6. /\ server' \in Peer /\ server'.tick = next /\ server'.queue = r.queue
        /\ server'.tokens = r.tokens /\ server'.applied = r.applied /\ server'.position = r.position
        /\ server'.accepted = server.accepted /\ server'.lastTick = server.lastTick
        /\ server'.lastServerTick = server.lastServerTick /\ server'.violations = server.violations
    BY <1>2, <2>1, <2>5 DEF Peer
  <2>7. /\ server'.tokens + n <= server.tokens + 1 /\ (n = 0 => L = 0)
        /\ Len(server'.queue) = L - n
        /\ \A k \in 1 .. L - n : server'.queue[k] = q[n + k]
        /\ server'.applied = (IF n = 0 THEN server.applied ELSE q[n].tick)
        /\ f[0] = server.position /\ server'.position = f[n]
        /\ \A k \in 1 .. n : f[k] = f[k - 1] + q[k].step
    BY <2>1, <2>6
  <2>8. replies' = replies \cup {[tick |-> server'.tick, command |-> server'.applied,
                                  position |-> server'.position]}
    BY <2>3, <2>6
  <2> QED
    BY <1>2, <1>3, <1>4, <2>1, <2>4, <2>6, <2>7, <2>8, ZenonT(60) DEF L, q
<1>5. CASE ~ server.accepted
  <2>1. server' = [server EXCEPT !.tick = @ + 1] /\ replies' = replies
        /\ executed' = executed \cup {q[i].tick : i \in 1 .. L - L}
    BY <1>5 DEF ServerTicks
  <2> DEFINE f == [k \in {0} |-> server.position]
  <2>2. server' = [server EXCEPT !.tick = next]
    BY <1>1, <2>1 DEF Peer
  <2>3. executed' = Done(0)
    <3>1. L - L = 0
      BY <1>1
    <3> QED
      BY <2>1, <3>1 DEF Done
  <2>4. 0 \in 0 .. L /\ f[0] = server.position /\ 1 .. 0 = {} /\ L - 0 = L
        /\ \A k \in 1 .. L : 0 + k = k
    BY <1>1
  <2> HIDE DEF next, q, L, f
  <2>5. /\ server' \in Peer /\ server'.tick = next /\ server'.queue = server.queue
        /\ server'.tokens = server.tokens /\ server'.applied = server.applied
        /\ server'.position = server.position
        /\ server'.accepted = server.accepted /\ server'.lastTick = server.lastTick
        /\ server'.lastServerTick = server.lastServerTick /\ server'.violations = server.violations
    BY <1>1, <1>2, <2>2 DEF Peer
  <2>6. server'.tokens + 0 <= server.tokens + 1
    BY <1>1, <2>5
  <2>7. Len(server'.queue) = L - 0 /\ \A k \in 1 .. L - 0 : server'.queue[k] = q[0 + k]
    BY <2>4, <2>5 DEF L, q
  <2>8. /\ server'.applied = (IF 0 = 0 THEN server.applied ELSE q[0].tick)
        /\ f[0] = server.position /\ server'.position = f[0]
        /\ \A k \in 1 .. 0 : f[k] = f[k - 1] + q[k].step
    BY <2>4, <2>5
  <2> QED
    BY <1>2, <1>3, <1>5, <2>1, <2>3, <2>4, <2>5, <2>6, <2>7, <2>8 DEF L, q
<1> QED
  BY <1>4, <1>5

\* A packet leaves the rest of the play as it was.
LEMMA PacketTyped ==
    ASSUME PlayTyped, NEW t \in DOMAIN sampled, t \in Nat, TakePacket(t)
    PROVE  /\ server' \in Peer /\ client' = client /\ replies' = replies /\ sampled' = sampled
           /\ executed' = executed /\ basis' = basis
<1>1. /\ server \in Peer /\ sampled \in [DOMAIN sampled -> Int] /\ server' = AfterPacket(t)
      /\ client' = client /\ replies' = replies /\ sampled' = sampled
      /\ executed' = executed /\ basis' = basis
  BY DEF PlayTyped, TakePacket
<1>2. PICK f : AfterPacket(t) = f[t] /\ \A u \in 0 .. t : f[u] \in Peer
  BY <1>1, PacketIs
<1>3. t \in 0 .. t
  OBVIOUS
<1> QED
  BY <1>1, <1>2, <1>3

\* HELLO leaves what waits and what was applied.
LEMMA HelloIs ==
    ASSUME PlayTyped, TakeHello
    PROVE  /\ server' \in Peer /\ server'.accepted /\ server'.lastTick = 0
           /\ server'.lastServerTick = server.tick + 1 /\ server'.tick = server.tick
           /\ server'.queue = server.queue /\ server'.violations = server.violations
           /\ server'.tokens = server.tokens /\ server'.applied = server.applied
           /\ server'.position = server.position
           /\ server.lastServerTick = 0 /\ server.tick + 1 <= Delay
           /\ client' = client /\ replies' = replies /\ sampled' = sampled
           /\ executed' = executed /\ basis' = basis
<1>1. /\ server \in Peer /\ server.lastServerTick = 0 /\ server.tick + 1 <= Delay
      /\ client' = client /\ replies' = replies /\ sampled' = sampled
      /\ executed' = executed /\ basis' = basis /\ server.tick \in Nat
  BY PeerParts DEF PlayTyped, TakeHello
<1> DEFINE now == server.tick + 1
<1>2. server' = [server EXCEPT !.accepted = TRUE, !.lastTick = 0, !.lastServerTick = now]
  BY DEF TakeHello
<1>3. now \in Nat /\ now = server.tick + 1
  BY <1>1
<1> HIDE DEF now
<1>4. /\ server' \in Peer /\ server'.accepted /\ server'.lastTick = 0 /\ server'.lastServerTick = now
      /\ server'.tick = server.tick /\ server'.queue = server.queue
      /\ server'.violations = server.violations
      /\ server'.tokens = server.tokens /\ server'.applied = server.applied
      /\ server'.position = server.position
  BY <1>1, <1>2, <1>3 DEF Peer
<1> QED
  BY <1>1, <1>3, <1>4

\* What the welcome changes.
LEMMA WelcomeIs ==
    ASSUME PlayTyped, TakeWelcome
    PROVE  /\ client' \in Player /\ client'.tick = client.tick /\ client'.playing
           /\ client'.spawned = client.spawned /\ client'.position = client.position
           /\ client'.shown = client.shown /\ client'.history = client.history
           /\ client'.predicted = client.predicted /\ client'.guessed = client.guessed
           /\ server' = server /\ replies' = replies /\ sampled' = sampled
           /\ executed' = executed /\ basis' = basis
<1>1. /\ client \in Player /\ client' = [client EXCEPT !.playing = TRUE]
      /\ server' = server /\ replies' = replies /\ sampled' = sampled
      /\ executed' = executed /\ basis' = basis
  BY DEF PlayTyped, TakeWelcome
<1> QED
  BY <1>1 DEF Player

\* Every step keeps the types and the numbering of what is sampled.
LEMMA TypedStep ==
    ASSUME PlayTyped, Sampling, [PredictionNext]_predictionVars
    PROVE  PlayTyped' /\ Sampling'
<1>1. CASE TakeHello
  BY <1>1, HelloIs DEF PlayTyped, Sampling
<1>2. CASE TakeWelcome
  BY <1>2, WelcomeIs DEF PlayTyped, Sampling
<1>3. CASE ClientTicks
  <2>1. client \in Player
    BY DEF PlayTyped
  <2>2. client' \in Player /\ server' = server /\ replies' = replies /\ executed' = executed
        /\ basis' = basis
    BY <1>3, <2>1, TickIs
  <2> QED
    BY <1>3, <2>2, SampledOn DEF PlayTyped
<1>4. CASE ServerTicks
  <2>1. \E n \in 0 .. Len(server.queue) :
           /\ server' \in Peer /\ executed' = Done(n)
           /\ replies' \in {replies, replies \cup {[tick |-> server'.tick, command |-> server'.applied,
                                                    position |-> server'.position]}}
           /\ client' = client /\ sampled' = sampled /\ basis' = basis
    BY <1>4, ServerTickIs
  <2>2. PICK n \in 0 .. Len(server.queue) :
           /\ server' \in Peer /\ executed' = Done(n)
           /\ replies' \in {replies, replies \cup {[tick |-> server'.tick, command |-> server'.applied,
                                                    position |-> server'.position]}}
           /\ client' = client /\ sampled' = sampled /\ basis' = basis
    BY <2>1
  <2>3. replies' \in SUBSET Reply
    <3>1. [tick |-> server'.tick, command |-> server'.applied, position |-> server'.position] \in Reply
      BY <2>2 DEF Peer, Reply
    <3> QED
      BY <2>2, <3>1 DEF PlayTyped
  <2>4. executed' \in SUBSET Nat
    <3>1. Len(server.queue) \in Nat /\ \A i \in 1 .. Len(server.queue) : server.queue[i].tick \in Nat
      BY PeerParts DEF PlayTyped
    <3>2. \A i \in 1 .. n : server.queue[i].tick \in Nat
      BY <3>1
    <3> QED
      BY <2>2, <3>2 DEF Done, PlayTyped
  <2> QED
    BY <2>2, <2>3, <2>4 DEF PlayTyped, Sampling
<1>5. ASSUME NEW t \in DOMAIN sampled, TakePacket(t) PROVE PlayTyped' /\ Sampling'
  <2>1. t \in Nat
    <3>1. client.tick \in Nat
      BY PlayerParts DEF PlayTyped
    <3> QED
      BY <3>1 DEF Sampling
  <2>2. /\ server' \in Peer /\ client' = client /\ replies' = replies /\ sampled' = sampled
        /\ executed' = executed /\ basis' = basis
    BY <1>5, <2>1, PacketTyped
  <2> QED
    BY <2>2 DEF PlayTyped, Sampling
<1>6. ASSUME NEW m \in replies, TakeReply(m) PROVE PlayTyped' /\ Sampling'
  <2>1. client \in Player /\ m \in Reply /\ basis.exact \in BOOLEAN
    BY DEF PlayTyped
  <2>2. client' \in Player /\ client'.tick = client.tick /\ client'.playing = client.playing
    BY <1>6, <2>1, ReplyLeaves
  <2>3. /\ server' = server /\ sampled' = sampled /\ executed' = executed
        /\ replies' = {x \in replies : x.tick > m.tick}
        /\ basis' = [position |-> m.position, command |-> m.command, exact |-> basis'.exact]
    BY <1>6, <2>1, TakeReplyIs
  <2>4. basis'.exact \in BOOLEAN
    <3> DEFINE c == Greeted(m)
               first == basis.exact /\ c.guessed[HistorySlot(m.command)] = m.command
               second == c.tick - m.command < CommandHistory
    <3>1. first \in BOOLEAN /\ second \in BOOLEAN
      OBVIOUS
    <3>2. basis'.exact = IF Agrees(c, m) THEN first ELSE second
      BY <1>6, <2>1, TakeReplyIs
    <3> HIDE DEF first, second
    <3> QED
      BY <3>1, <3>2
  <2>5. basis' \in [position : Int, command : Nat, exact : BOOLEAN]
    BY <2>1, <2>3, <2>4 DEF Reply
  <2>6. replies' \in SUBSET Reply
    BY <2>3 DEF PlayTyped
  <2> QED
    BY <2>2, <2>3, <2>5, <2>6 DEF PlayTyped, Sampling
<1>7. CASE UNCHANGED predictionVars
  BY <1>7 DEF predictionVars, PlayTyped, Sampling
<1> QED
  BY <1>1, <1>2, <1>3, <1>4, <1>5, <1>6, <1>7 DEF PredictionNext

\* A packet leaves what waits in order, whatever it carries.
LEMMA PacketSees ==
    ASSUME PredictionInv, NEW t \in DOMAIN sampled, TakePacket(t)
    PROVE  PredictionInv'
<1>1. /\ server \in Peer /\ sampled \in [DOMAIN sampled -> Int] /\ client.tick \in Nat
      /\ server.accepted /\ server' = AfterPacket(t)
      /\ client' = client /\ replies' = replies /\ sampled' = sampled
      /\ executed' = executed /\ basis' = basis /\ server.tick \in Nat
  BY PlayerParts, PeerParts DEF PredictionInv, PlayTyped, TakePacket
<1>2. t \in Nat /\ DOMAIN sampled \subseteq Nat
  BY <1>1 DEF PredictionInv, Sampling
<1> DEFINE now == server.tick + 1
<1>3. PICK f : /\ f[0] = server /\ AfterPacket(t) = f[t]
               /\ \A u \in 0 .. t : f[u] \in Peer
               /\ \A u \in 1 .. t : f[u] = PacketStep(f[u - 1], t, u)
  BY <1>1, <1>2, PacketIs
<1> DEFINE Good(s) == /\ Sequenced(s) /\ s.tick = server.tick /\ s.applied = server.applied
                      /\ s.position = server.position
                      /\ (s.lastServerTick = server.lastServerTick \/ s.lastServerTick = now)
           G == {u \in 0 .. t : Good(f[u])}
<1>4. 0 \in G
  BY <1>2, <1>3 DEF PredictionInv
<1>5. ASSUME NEW u \in 0 .. t - 1, u \in G PROVE u + 1 \in G
  <2>1. u + 1 \in 1 .. t /\ (u + 1) - 1 = u /\ u \in 0 .. t /\ u + 1 \in 0 .. t /\ u + 1 \in Nat
    BY <1>2
  <2>2. f[u + 1] = PacketStep(f[u], t, u + 1) /\ f[u] \in Peer /\ Good(f[u])
    BY <1>3, <1>5, <2>1
  <2> DEFINE s == f[u]
             w == u + 1
             c == [tick |-> w, step |-> sampled[w]]
  <2>3. CASE w \in DOMAIN sampled /\ w > t - Redundancy
    <3>1. c \in Command /\ c.tick = w
      BY <1>1, <2>1, <2>3 DEF Command
    <3>2. PacketStep(s, t, w) = TakeCommand(s, c, now)
      BY <2>3 DEF PacketStep
    <3>3. now \in Nat
      BY <1>1
    <3> DEFINE r == TakeCommand(s, c, now)
    <3> HIDE DEF c, w, s, now
    <3>4. s \in Peer /\ Sequenced(s)
      BY <2>2 DEF s
    <3>5. /\ Sequenced(r) /\ r \in Peer /\ r.tick = s.tick /\ r.applied = s.applied
          /\ r.position = s.position /\ (r.lastServerTick = s.lastServerTick \/ r.lastServerTick = now)
      BY <2>3, <3>1, <3>3, <3>4, TakenInOrder
    <3> HIDE DEF r
    <3>6. Good(r)
      BY <2>2, <3>5 DEF s
    <3> QED
      BY <2>1, <2>2, <3>2, <3>6 DEF r, s, w
  <2>4. CASE ~ (w \in DOMAIN sampled /\ w > t - Redundancy)
    <3>1. f[w] = s
      BY <2>2, <2>4 DEF PacketStep
    <3> QED
      BY <2>1, <2>2, <3>1
  <2> QED
    BY <2>3, <2>4
<1>6. t \in G
  <2>1. t \in 0 .. t
    BY <1>2
  <2> HIDE DEF G
  <2> QED
    BY <1>2, <1>4, <1>5, <2>1, UpTo
<1>7. Good(server')
  BY <1>1, <1>3, <1>6
<1>8. PlayTyped' /\ Sampling'
  <2>1. PredictionNext
    BY DEF PredictionNext
  <2> QED
    BY <2>1, TypedStep DEF PredictionInv
<1>9. Anchored'
  <2>1. server'.lastServerTick # 0
    BY <1>1, <1>7 DEF PredictionInv, Anchored
  <2> QED
    BY <1>1, <2>1 DEF PredictionInv, Anchored
<1>10. Sequenced(server)'
  BY <1>1, <1>7 DEF Sequenced
<1>11. Answering'
  BY <1>1, <1>7 DEF PredictionInv, Answering, Answers, Follows
<1>12. SentInputs' /\ Guessing'
  BY <1>1 DEF PredictionInv, SentInputs, Remembers, Guessing, Predicted, After
<1> QED
  BY <1>8, <1>9, <1>10, <1>11, <1>12 DEF PredictionInv

\* The hello keeps the prediction's invariant.
LEMMA HelloSees ==
    ASSUME PredictionInv, TakeHello
    PROVE  PredictionInv'
<1>1. /\ server'.lastServerTick = server.tick + 1 /\ server'.queue = server.queue
      /\ server'.applied = server.applied /\ server'.lastTick = 0
      /\ server'.position = server.position /\ server.lastServerTick = 0
      /\ server'.tick = server.tick /\ client' = client /\ replies' = replies
      /\ sampled' = sampled /\ basis' = basis
  BY HelloIs DEF PredictionInv
<1>2. PlayTyped' /\ Sampling'
  <2>1. PredictionNext
    BY DEF PredictionNext
  <2> QED
    BY <2>1, TypedStep DEF PredictionInv
<1>3. server.queue = <<>> /\ server.applied = 0 /\ server.tick \in Nat
  BY <1>1, PeerParts DEF PredictionInv, Anchored, PlayTyped
<1>4. Anchored'
  <2>1. server'.lastServerTick # 0
    BY <1>1, <1>3
  <2> QED
    BY <1>1, <2>1 DEF PredictionInv, Anchored
<1>5. Sequenced(server)'
  BY <1>1, <1>3 DEF Sequenced
<1>6. Answering'
  BY <1>1 DEF PredictionInv, Answering, Answers, Follows
<1>7. SentInputs' /\ Guessing'
  BY <1>1 DEF PredictionInv, SentInputs, Remembers, Guessing, Predicted, After
<1> QED
  BY <1>2, <1>4, <1>5, <1>6, <1>7 DEF PredictionInv

\* The welcome keeps the prediction's invariant.
LEMMA WelcomeSees ==
    ASSUME PredictionInv, TakeWelcome
    PROVE  PredictionInv'
<1>1. /\ client' \in Player /\ client'.tick = client.tick /\ client'.playing
      /\ client'.spawned = client.spawned /\ client'.position = client.position
      /\ client'.shown = client.shown /\ client'.history = client.history
      /\ client'.predicted = client.predicted /\ client'.guessed = client.guessed
      /\ server' = server /\ replies' = replies /\ sampled' = sampled
      /\ executed' = executed /\ basis' = basis
  BY WelcomeIs DEF PredictionInv
<1>2. PlayTyped' /\ Sampling'
  <2>1. PredictionNext
    BY DEF PredictionNext
  <2> QED
    BY <2>1, TypedStep DEF PredictionInv
<1>3. Anchored'
  BY <1>1 DEF PredictionInv, Anchored
<1>4. Sequenced(server)'
  BY <1>1 DEF PredictionInv, Sequenced
<1>5. Answering'
  BY <1>1 DEF PredictionInv, Answering, Answers, Follows
<1>6. SentInputs'
  BY <1>1 DEF PredictionInv, SentInputs, Remembers
<1>7. Guessing'
  BY <1>1 DEF PredictionInv, Guessing, Predicted, After
<1> QED
  BY <1>2, <1>3, <1>4, <1>5, <1>6, <1>7 DEF PredictionInv

\* What a tick of the server answers follows what it answered before.
LEMMA ServerSees ==
    ASSUME PredictionInv, ServerTicks
    PROVE  PredictionInv'
<1> DEFINE q == server.queue
           L == Len(q)
           new == [tick |-> server'.tick, command |-> server'.applied, position |-> server'.position]
<1>1. PICK n, f :
         /\ n \in 0 .. L
         /\ server' \in Peer /\ server'.tick = server.tick + 1
         /\ Len(server'.queue) = L - n
         /\ \A k \in 1 .. L - n : server'.queue[k] = q[n + k]
         /\ server'.applied = (IF n = 0 THEN server.applied ELSE q[n].tick)
         /\ f[0] = server.position /\ server'.position = f[n]
         /\ (~ server.accepted => n = 0)
         /\ server'.accepted = server.accepted /\ server'.lastTick = server.lastTick
         /\ server'.lastServerTick = server.lastServerTick
         /\ replies' = IF server.accepted THEN replies \cup {new} ELSE replies
         /\ client' = client /\ sampled' = sampled /\ basis' = basis
  BY ServerTickIs DEF PredictionInv
<1>2. /\ server \in Peer /\ server.tick \in Nat /\ L \in Nat /\ server.applied \in Nat
      /\ server.lastTick \in Nat /\ \A k \in 1 .. L : q[k].tick \in Nat
      /\ n \in Nat /\ server.lastServerTick \in Nat
  BY <1>1, PeerParts DEF PredictionInv, PlayTyped
<1>3. /\ server.applied <= server.lastTick
      /\ \A k \in 1 .. L : /\ q[k].tick \in DOMAIN sampled /\ q[k].tick > server.applied
                           /\ q[k].tick <= server.lastTick
                           /\ \A i \in 1 .. k - 1 : q[i].tick < q[k].tick
  BY DEF PredictionInv, Sequenced
<1>4. server'.applied \in Nat /\ server'.position \in Int /\ server'.tick \in Nat
  BY <1>1, PeerParts
<1>5. PlayTyped' /\ Sampling'
  <2>1. PredictionNext
    BY DEF PredictionNext
  <2> QED
    BY <2>1, TypedStep DEF PredictionInv
<1>6. /\ server'.applied \in DOMAIN sampled \cup {0} /\ server'.applied <= server.lastTick
      /\ server.applied <= server'.applied
      /\ server.applied = server'.applied => n = 0
  <2>1. CASE n = 0
    BY <1>1, <1>2, <1>3, <2>1 DEF PredictionInv, Answering
  <2>2. CASE n # 0
    <3>1. n \in 1 .. L
      BY <1>1, <1>2, <2>2
    <3> QED
      BY <1>1, <1>2, <1>3, <2>2, <3>1
  <2> QED
    BY <2>1, <2>2
<1>7. server.lastServerTick = 0 => n = 0 /\ L = 0
  <2>1. server.lastServerTick = 0 => ~ server.accepted /\ server.queue = <<>>
    BY DEF PredictionInv, Anchored
  <2> QED
    BY <1>1, <2>1
<1> HIDE DEF q, L
<1>8. Sequenced(server)'
  <2>1. ASSUME NEW k \in 1 .. L - n
        PROVE  /\ q[n + k].tick \in DOMAIN sampled /\ q[n + k].tick > server'.applied
               /\ q[n + k].tick <= server.lastTick
               /\ \A i \in 1 .. k - 1 : server'.queue[i].tick < q[n + k].tick
    <3>1. n + k \in 1 .. L /\ (n # 0 => n \in 1 .. (n + k) - 1 /\ n \in 1 .. L)
      BY <1>2
    <3>2. ASSUME NEW i \in 1 .. k - 1
          PROVE  server'.queue[i].tick < q[n + k].tick
      <4>1. i \in 1 .. L - n /\ n + i \in 1 .. (n + k) - 1
        BY <1>2
      <4> QED
        BY <1>1, <1>3, <3>1, <4>1
    <3>3. q[n + k].tick > server'.applied
      BY <1>1, <1>2, <1>3, <3>1
    <3> QED
      BY <1>3, <3>1, <3>2, <3>3
  <2>2. ASSUME NEW k \in 1 .. Len(server'.queue)
        PROVE  /\ server'.queue[k].tick \in DOMAIN sampled
               /\ server'.queue[k].tick > server'.applied
               /\ server'.queue[k].tick <= server'.lastTick
               /\ \A i \in 1 .. k - 1 : server'.queue[i].tick < server'.queue[k].tick
    <3>1. k \in 1 .. L - n /\ server'.queue[k] = q[n + k]
      BY <1>1
    <3> QED
      BY <1>1, <2>1, <3>1
  <2>3. server'.applied <= server'.lastTick
    BY <1>1, <1>6
  <2> QED
    BY <1>1, <2>2, <2>3, Zenon DEF Sequenced
<1>9. Anchored'
  <2>1. server.lastServerTick = 0 => server'.queue = <<>> /\ server'.applied = 0
    <3> SUFFICES ASSUME server.lastServerTick = 0 PROVE server'.queue = <<>> /\ server'.applied = 0
      OBVIOUS
    <3>1. server'.queue \in Seq(Command) /\ Len(server'.queue) = 0
      BY <1>1, <1>7, PeerParts
    <3>2. server'.queue = <<>>
      BY <3>1, EmptySeq
    <3>3. server.applied = 0
      BY DEF PredictionInv, Anchored
    <3> QED
      BY <1>1, <1>7, <3>2, <3>3
  <2> QED
    BY <1>1, <2>1 DEF PredictionInv, Anchored
<1>10. Follows(Answers, Answers')
  BY <1>1, <1>2, <1>4, <1>6 DEF Follows, Answers
<1>11. Answering'
  <2> DEFINE now == Answers'
  <2>1. /\ \A r \in replies : r.command \in Nat /\ r.tick \in Nat
        /\ basis.command \in Nat /\ Answers.command \in Nat /\ now.command \in Nat
        /\ client.shown \in Nat
    BY <1>2, <1>4, PlayerParts DEF PredictionInv, PlayTyped, Reply, Answers
  <2>2. /\ client.shown <= server.tick
        /\ \A r \in replies : /\ client.shown < r.tick /\ r.tick <= server.tick
                              /\ r.command \in DOMAIN sampled \cup {0}
                              /\ Follows(basis, r) /\ Follows(r, Answers)
        /\ Follows(basis, Answers) /\ basis.command \in DOMAIN sampled \cup {0}
        /\ \A r, x \in replies : r.tick <= x.tick => Follows(r, x)
    BY DEF PredictionInv, Answering
  <2>3. now.command = server'.applied /\ now.position = server'.position
        /\ new.tick = server.tick + 1 /\ new.command = now.command /\ new.position = now.position
    BY <1>1 DEF Answers
  <2> HIDE DEF now, new
  <2>4. \A r \in replies : Follows(r, now)
    BY <1>10, <2>1, <2>2, FollowsOn DEF now
  <2>5. Follows(basis, now)
    BY <1>10, <2>1, <2>2, FollowsOn DEF now
  <2>6. \A x : Follows(x, now) => Follows(x, new)
    BY <2>3 DEF Follows
  <2>7. Follows(new, now) /\ Follows(new, new)
    BY <2>1, <2>3 DEF Follows
  <2>8. ASSUME NEW r \in replies'
        PROVE  /\ client.shown < r.tick /\ r.tick <= server'.tick
               /\ r.command \in DOMAIN sampled \cup {0}
               /\ Follows(basis, r) /\ Follows(r, now)
    <3>1. CASE r \in replies
      BY <1>1, <1>2, <2>1, <2>2, <2>4, <3>1
    <3>2. CASE r = new
      BY <1>1, <1>2, <1>6, <2>1, <2>2, <2>3, <2>5, <2>6, <2>7, <3>2
    <3> QED
      BY <1>1, <3>1, <3>2
  <2>9. ASSUME NEW r \in replies', NEW x \in replies', r.tick <= x.tick
        PROVE  Follows(r, x)
    <3>1. CASE r \in replies /\ x \in replies
      BY <2>2, <2>9, <3>1
    <3>2. CASE r \in replies /\ x = new
      BY <2>4, <2>6, <3>2
    <3>3. CASE r = new /\ x \in replies
      BY <1>2, <2>1, <2>2, <2>3, <2>9, <3>3
    <3>4. CASE r = new /\ x = new
      BY <2>7, <3>4
    <3> QED
      BY <1>1, <3>1, <3>2, <3>3, <3>4
  <2>10. client.shown <= server'.tick
    BY <1>1, <1>2, <2>1, <2>2
  <2>11. /\ server'.applied \in DOMAIN sampled \cup {0} /\ client.shown <= server'.tick
         /\ \A r \in replies' : /\ client.shown < r.tick /\ r.tick <= server'.tick
                                /\ r.command \in DOMAIN sampled \cup {0}
                                /\ Follows(basis, r) /\ Follows(r, now)
         /\ Follows(basis, now) /\ basis.command \in DOMAIN sampled \cup {0}
         /\ \A r, x \in replies' : r.tick <= x.tick => Follows(r, x)
    BY <1>6, <2>2, <2>5, <2>8, <2>9, <2>10
  <2>12. client' = client /\ sampled' = sampled /\ basis' = basis
    BY <1>1
  <2> QED
    BY <2>11, <2>12 DEF Answering, now, Follows
<1>12. SentInputs' /\ Guessing'
  BY <1>1 DEF PredictionInv, SentInputs, Remembers, Guessing, Predicted, After
<1> QED
  BY <1>5, <1>8, <1>9, <1>11, <1>12 DEF PredictionInv

\* Commands that the ring has room for are in different slots.
LEMMA SlotsApart ==
    ASSUME NEW u \in Nat, NEW t \in Nat, u < t, t < u + CommandHistory
    PROVE  HistorySlot(u) # HistorySlot(t)
<1> DEFINE H == CommandHistory
<1>1. H \in Nat /\ H > 0
  BY PlayConstants
<1> SUFFICES ASSUME (u % H) = (t % H) PROVE FALSE
  BY DEF HistorySlot
<1> HIDE DEF H
<1>2. u = H * (u \div H) + (u % H) /\ t = H * (t \div H) + (t % H)
  BY <1>1
<1>3. (u \div H) \in Int /\ (t \div H) \in Int /\ (u % H) \in Int /\ (t % H) \in Int
  BY <1>1
<1> DEFINE a == u \div H
           b == t \div H
           r == u % H
<1>4. u = H * a + r /\ t = H * b + r /\ a \in Int /\ b \in Int /\ r \in Int
  BY <1>2, <1>3
<1> HIDE DEF a, b, r
<1>5. t - u = H * (b - a)
  BY <1>1, <1>4
<1>6. CASE b - a <= 0
  <2>1. H * (b - a) <= 0
    BY <1>1, <1>4, <1>6
  <2> QED
    BY <1>5, <2>1
<1>7. CASE b - a >= 1
  <2>1. H * (b - a) >= H
    BY <1>1, <1>4, <1>7
  <2>2. t - u < H
    BY <1>1 DEF H
  <2> QED
    BY <1>1, <1>4, <1>5, <2>1, <2>2
<1> QED
  BY <1>4, <1>6, <1>7

\* A sum over the commands after one, of a range that was sampled.
LEMMA AfterSums ==
    ASSUME NEW steps, steps \in [DOMAIN steps -> Int], NEW k, NEW n \in Nat
    PROVE  Summable(steps, After(steps, k), n)
  BY DEF Summable, After

\* A tick of the client changes nothing of what was predicted before.
LEMMA PredictedOn ==
    ASSUME PlayTyped, Sampling, ClientTicks, NEW b, NEW u \in 0 .. client.tick
    PROVE  Predicted(sampled', b, u) = Predicted(sampled, b, u)
<1> DEFINE A == After(sampled, b.command)
           B == After(sampled', b.command)
<1>1. client.tick \in Nat /\ sampled \in [DOMAIN sampled -> Int]
  BY PlayerParts DEF PlayTyped
<1>2. /\ sampled' \in [DOMAIN sampled' -> Int] /\ DOMAIN sampled \subseteq DOMAIN sampled'
      /\ DOMAIN sampled' \subseteq DOMAIN sampled \cup {client.tick + 1}
      /\ \A t \in DOMAIN sampled : sampled'[t] = sampled[t]
  BY SampledOn
<1>3. u \in Nat /\ Summable(sampled, A, u) /\ Summable(sampled', B, u)
  BY <1>1, <1>2, AfterSums
<1>4. ASSUME NEW t \in 1 .. u PROVE Summand(sampled, A, t) = Summand(sampled', B, t)
  <2>1. t # client.tick + 1
    BY <1>1
  <2>2. t \in DOMAIN sampled <=> t \in DOMAIN sampled'
    BY <1>2, <2>1
  <2> QED
    BY <1>2, <2>2 DEF Summand, After
<1> HIDE DEF A, B
<1>5. Total(sampled, A, u) = Total(sampled', B, u)
  BY <1>3, <1>4, TotalSame
<1> QED
  BY <1>5 DEF Predicted, A, B

\* A tick adds the command that is sampled at it, if one is.
LEMMA PredictedNext ==
    ASSUME NEW steps, steps \in [DOMAIN steps -> Int], NEW b, b.position \in Int,
           NEW n \in Nat
    PROVE  /\ Predicted(steps, b, n) \in Int
           /\ n + 1 \in DOMAIN steps /\ n + 1 > b.command
                  => Predicted(steps, b, n + 1) = Predicted(steps, b, n) + steps[n + 1]
           /\ n + 1 \notin DOMAIN steps => Predicted(steps, b, n + 1) = Predicted(steps, b, n)
<1> DEFINE B == After(steps, b.command)
<1>1. Summable(steps, B, n + 1) /\ Summable(steps, B, n)
  BY AfterSums
<1>2. /\ n + 1 \in DOMAIN steps /\ n + 1 > b.command => Summand(steps, B, n + 1) = steps[n + 1]
      /\ n + 1 \in DOMAIN steps => steps[n + 1] \in Int
      /\ n + 1 \notin DOMAIN steps => Summand(steps, B, n + 1) = 0
  BY DEF Summand, After
<1> HIDE DEF B
<1>3. Total(steps, B, n + 1) = Total(steps, B, n) + Summand(steps, B, n + 1)
  BY <1>1, TotalNext
<1>4. Total(steps, B, n) \in Int
  BY <1>1, TotalInt
<1>5. /\ Predicted(steps, b, n) = b.position + Total(steps, B, n)
      /\ Predicted(steps, b, n + 1) = b.position + Total(steps, B, n + 1)
  BY DEF Predicted, B
<1> QED
  BY <1>2, <1>3, <1>4, <1>5

\* Nothing is predicted on top of a snapshot before the command it answers.
LEMMA PredictedNone ==
    ASSUME NEW steps, steps \in [DOMAIN steps -> Int], NEW b, b.position \in Int,
           b.command \in Nat, NEW u \in 0 .. b.command
    PROVE  Predicted(steps, b, u) = b.position
<1> DEFINE B == After(steps, b.command)
<1>1. u \in Nat /\ Summable(steps, B, u) /\ Summable(steps, {}, u)
  BY AfterSums DEF Summable
<1>2. \A t \in 1 .. u : Summand(steps, B, t) = 0 /\ Summand(steps, {}, t) = 0
  BY DEF Summand, After
<1> HIDE DEF B
<1> DEFINE G == {k \in 0 .. u : Total(steps, {}, k) = 0}
<1>3. 0 \in G
  BY <1>1, TotalNone
<1>4. ASSUME NEW k \in 0 .. u - 1, k \in G PROVE k + 1 \in G
  <2>1. k \in Nat /\ k + 1 \in 0 .. u
    BY <1>1
  <2>2. Summable(steps, {}, k + 1)
    BY DEF Summable
  <2>3. Total(steps, {}, k + 1) = Total(steps, {}, k) + Summand(steps, {}, k + 1)
    BY <2>1, <2>2, TotalNext
  <2> QED
    BY <1>4, <2>1, <2>3 DEF Summand
<1>5. u \in G
  <2>1. u \in 0 .. u
    BY <1>1
  <2> HIDE DEF G
  <2> QED
    BY <1>1, <1>3, <1>4, <2>1, UpTo
<1>6. Total(steps, B, u) = Total(steps, {}, u)
  BY <1>1, <1>2, TotalSame
<1>7. Total(steps, B, u) = 0
  BY <1>5, <1>6
<1> QED
  BY <1>7 DEF Predicted, B

\* A snapshot that says what was predicted leaves the predictions as they were.
LEMMA PredictedThrough ==
    ASSUME NEW steps, steps \in [DOMAIN steps -> Int], NEW b, NEW m, NEW n \in Nat,
           b.position \in Int, m.position \in Int, b.command \in Nat, m.command \in Nat,
           b.command <= m.command, m.command <= n, m.position = Predicted(steps, b, m.command)
    PROVE  Predicted(steps, m, n) = Predicted(steps, b, n)
<1> DEFINE S == DOMAIN steps
           P(x) == {t \in S : t > x}
           x == b.command
           y == m.command
<1>1. Summable(steps, S, n) /\ x \in 0 .. y /\ y \in 0 .. n
  BY DEF Summable
<1>2. P(x) = After(steps, x) /\ P(y) = After(steps, y)
  BY DEF After
<1>3. /\ Total(steps, After(steps, x), n) \in Int /\ Total(steps, After(steps, x), y) \in Int
      /\ Total(steps, After(steps, y), n) \in Int
  BY AfterSums, TotalInt
<1>4. Total(steps, P(x), n) = Total(steps, P(x), y) + Total(steps, P(y), n)
  <2> HIDE DEF S, x, y
  <2> QED
    BY <1>1, TotalSplit
<1> DEFINE A == Total(steps, After(steps, b.command), n)
           B == Total(steps, After(steps, b.command), m.command)
           C == Total(steps, After(steps, m.command), n)
<1>5. A = B + C /\ A \in Int /\ B \in Int /\ C \in Int
  BY <1>2, <1>3, <1>4
<1>6. /\ Predicted(steps, m, n) = m.position + C /\ Predicted(steps, b, n) = b.position + A
      /\ Predicted(steps, b, m.command) = b.position + B
  BY DEF Predicted
<1> HIDE DEF A, B, C
<1> QED
  BY <1>5, <1>6

\* A tick of the client: the new command takes the slot of one the ring had no room for.
LEMMA TickSees ==
    ASSUME PredictionInv, ClientTicks
    PROVE  PredictionInv'
<1> DEFINE t == client.tick + 1
           h == HistorySlot(t)
           D == DOMAIN sampled
           E == DOMAIN sampled'
<1>1. /\ client \in Player /\ client.tick \in Nat /\ server \in Peer /\ t \in Nat
      /\ sampled \in [D -> Int] /\ basis.position \in Int /\ basis.command \in Nat
  BY PlayerParts DEF PredictionInv, PlayTyped
<1>2. /\ client' \in Player /\ client'.tick = t /\ client'.playing = client.playing
      /\ server' = server /\ replies' = replies /\ executed' = executed /\ basis' = basis
  BY <1>1, TickIs
<1>3. /\ sampled' \in [E -> Int] /\ D \subseteq E /\ E \subseteq D \cup {t}
      /\ \A u \in D : sampled'[u] = sampled[u]
  BY SampledOn DEF PredictionInv
<1>4. D \subseteq 1 .. client.tick
  BY DEF PredictionInv, Sampling
<1>5. h \in RingSlots
  BY <1>1, SlotIn
<1>6. PlayTyped' /\ Sampling'
  <2>1. PredictionNext
    BY DEF PredictionNext
  <2> QED
    BY <2>1, TypedStep DEF PredictionInv
<1>7. \/ /\ client.playing /\ t \in E
         /\ \E p \in Int :
              /\ p = IF client.spawned THEN client.position + sampled'[t] ELSE client.position
              /\ client'.history = [client.history EXCEPT ![h] = [tick |-> t, step |-> sampled'[t]]]
              /\ client'.position = p
              /\ client'.predicted = IF client.spawned THEN [client.predicted EXCEPT ![h] = p]
                                     ELSE client.predicted
              /\ client'.guessed = IF client.spawned THEN [client.guessed EXCEPT ![h] = t]
                                   ELSE client.guessed
      \/ /\ ~ client.playing /\ D = {} /\ E = {}
         /\ client'.history = client.history /\ client'.guessed = client.guessed
  <2>1. CASE client.playing
    <3>1. PICK step \in Steps : /\ SendCommand(step)
                                /\ sampled' = [u \in D \cup {t} |-> IF u = t THEN step ELSE sampled[u]]
      BY <1>1, <2>1, TickIs
    <3>2. step \in Int
      BY PlayConstants
    <3>3. t \in E /\ sampled'[t] = step
      BY <3>1
    <3> DEFINE p == IF client.spawned THEN client.position + step ELSE client.position
    <3>4. p \in Int
      BY <1>1, <3>2, PlayerParts
    <3>5. /\ client'.history = [client.history EXCEPT ![h] = [tick |-> t, step |-> step]]
          /\ client'.position = p
          /\ client'.predicted = IF client.spawned THEN [client.predicted EXCEPT ![h] = p]
                                 ELSE client.predicted
          /\ client'.guessed = IF client.spawned THEN [client.guessed EXCEPT ![h] = t]
                               ELSE client.guessed
      BY <1>1, <3>1, <3>2, SentIs
    <3> DEFINE s == sampled'[t]
    <3>6. p = IF client.spawned THEN client.position + s ELSE client.position
      BY <3>3
    <3>7. client'.history = [client.history EXCEPT ![h] = [tick |-> t, step |-> s]]
      BY <3>3, <3>5
    <3> HIDE DEF p, s, t, h
    <3>8. t \in E
      BY <3>3
    <3> QED
      BY <2>1, <3>4, <3>5, <3>6, <3>7, <3>8 DEF s
  <2>2. CASE ~ client.playing
    <3>1. sampled' = sampled /\ client' = [client EXCEPT !.tick = client.tick + 1]
      BY <1>1, <2>2, TickIs
    <3>2. D = {}
      BY <2>2 DEF PredictionInv, Sampling
    <3>3. client'.history = client.history /\ client'.guessed = client.guessed
      BY <1>1, <3>1 DEF Player
    <3> QED
      BY <2>2, <3>1, <3>2, <3>3
  <2> QED
    BY <2>1, <2>2
<1>8. client'.spawned = client.spawned /\ client'.shown = client.shown
  <2>1. CASE client.playing
    <3>1. PICK step \in Steps : SendCommand(step)
      BY <1>1, <2>1, TickIs
    <3>2. step \in Int
      BY PlayConstants
    <3> QED
      BY <1>1, <3>1, <3>2, SentIs
  <2>2. CASE ~ client.playing
    <3>1. client' = [client EXCEPT !.tick = client.tick + 1]
      BY <1>1, <2>2, TickIs
    <3> QED
      BY <1>1, <3>1 DEF Player
  <2> QED
    BY <2>1, <2>2
<1>9. client.spawned => client.playing
  BY DEF PredictionInv, Anchored
<1>10. Anchored'
  BY <1>2, <1>8 DEF PredictionInv, Anchored
<1>11. Sequenced(server)'
  BY <1>2, <1>3 DEF PredictionInv, Sequenced
<1>12. Answering'
  BY <1>2, <1>3, <1>8 DEF PredictionInv, Answering, Answers, Follows
<1> HIDE DEF t, h, D, E
<1>13. /\ \A u \in D : u + CommandHistory > client.tick =>
                client.history[HistorySlot(u)].tick = u /\ client.history[HistorySlot(u)].step = sampled[u]
       /\ \A s \in RingSlots : client.history[s].tick \in D \cup {0}
       /\ \A s \in RingSlots : client.guessed[s] \in D \cup {0}
       /\ ~ client.spawned => \A s \in RingSlots : client.guessed[s] = 0
  BY DEF PredictionInv, SentInputs, Remembers, D
<1>14. /\ client.history \in [RingSlots -> Command] /\ client.predicted \in [RingSlots -> Int]
       /\ client.guessed \in [RingSlots -> Nat]
  BY <1>1, PlayerParts
<1>15. SentInputs'
  <2>1. CASE client.playing
    <3>1. /\ t \in E
          /\ client'.history = [client.history EXCEPT ![h] = [tick |-> t, step |-> sampled'[t]]]
          /\ client'.guessed = IF client.spawned THEN [client.guessed EXCEPT ![h] = t]
                               ELSE client.guessed
      BY <1>7, <2>1
    <3>2. ASSUME NEW u \in E, u + CommandHistory > t
          PROVE  client'.history[HistorySlot(u)].tick = u
                 /\ client'.history[HistorySlot(u)].step = sampled'[u]
      <4>1. CASE u = t
        BY <1>5, <1>14, <3>1, <4>1 DEF h
      <4>2. CASE u # t
        <5>1. u \in D /\ u \in Nat /\ u < t /\ t < u + CommandHistory /\ u + CommandHistory > client.tick
          BY <1>1, <1>3, <1>4, <3>2, <4>2, PlayConstants DEF t
        <5>2. HistorySlot(u) # h
          BY <1>1, <5>1, SlotsApart DEF h
        <5>3. HistorySlot(u) \in RingSlots
          BY <5>1, SlotIn
        <5>4. client'.history[HistorySlot(u)] = client.history[HistorySlot(u)]
          BY <1>14, <3>1, <5>2, <5>3
        <5> QED
          BY <1>3, <1>13, <5>1, <5>4
      <4> QED
        BY <4>1, <4>2
    <3>3. ASSUME NEW s \in RingSlots PROVE client'.history[s].tick \in E \cup {0}
      BY <1>3, <1>13, <1>14, <3>1
    <3>4. ASSUME NEW s \in RingSlots PROVE client'.guessed[s] \in E \cup {0}
      <4>1. client.guessed[s] \in E \cup {0}
        BY <1>3, <1>13
      <4>2. CASE client.spawned
        BY <1>14, <3>1, <4>1, <4>2
      <4>3. CASE ~ client.spawned
        BY <3>1, <4>1, <4>3
      <4> QED
        BY <4>2, <4>3
    <3>5. ~ client'.spawned => \A s \in RingSlots : client'.guessed[s] = 0
      BY <1>8, <1>13, <3>1
    <3> QED
      BY <1>2, <3>2, <3>3, <3>4, <3>5 DEF SentInputs, Remembers, E
  <2>2. CASE ~ client.playing
    <3>1. D = {} /\ E = {} /\ client'.history = client.history /\ client'.guessed = client.guessed
      BY <1>7, <2>2
    <3> QED
      BY <1>8, <1>13, <3>1 DEF SentInputs, Remembers, E
  <2> QED
    BY <2>1, <2>2
<1>16. ASSUME client.spawned, basis.exact
       PROVE  /\ client'.position = Predicted(sampled', basis, t)
              /\ \A u \in 1 .. t : client'.guessed[HistorySlot(u)] = u /\ u > basis.command
                      => client'.predicted[HistorySlot(u)] = Predicted(sampled', basis, u)
  <2>1. PICK p \in Int :
           /\ t \in E /\ p = client.position + sampled'[t] /\ client'.position = p
           /\ client'.predicted = [client.predicted EXCEPT ![h] = p]
           /\ client'.guessed = [client.guessed EXCEPT ![h] = t]
    BY <1>7, <1>9, <1>16
  <2>2. /\ client.position = Predicted(sampled, basis, client.tick)
        /\ \A u \in 1 .. client.tick : client.guessed[HistorySlot(u)] = u /\ u > basis.command
                => client.predicted[HistorySlot(u)] = Predicted(sampled, basis, u)
    BY <1>16 DEF PredictionInv, Guessing
  <2>3. \A u \in 0 .. client.tick : Predicted(sampled', basis, u) = Predicted(sampled, basis, u)
    BY PredictedOn DEF PredictionInv
  <2>4. basis.command \in D \cup {0} /\ basis.command < t
    <3>1. basis.command \in D \cup {0}
      BY DEF PredictionInv, Answering, D
    <3> QED
      BY <1>1, <1>4, <3>1 DEF t
  <2>5. Predicted(sampled', basis, t) = Predicted(sampled', basis, client.tick) + sampled'[t]
    BY <1>1, <1>3, <2>1, <2>4, PredictedNext DEF E, t
  <2>6. client'.position = Predicted(sampled', basis, t)
    <3>1. client.tick \in 0 .. client.tick
      BY <1>1
    <3> QED
      BY <2>1, <2>2, <2>3, <2>5, <3>1
  <2>7. ASSUME NEW u \in 1 .. t, client'.guessed[HistorySlot(u)] = u, u > basis.command
        PROVE  client'.predicted[HistorySlot(u)] = Predicted(sampled', basis, u)
    <3>1. CASE u = t
      BY <1>5, <1>14, <2>1, <2>6, <3>1 DEF h
    <3>2. CASE u # t
      <4>1. u \in 1 .. client.tick /\ u \in Nat /\ u \in 0 .. client.tick
        BY <1>1, <3>2 DEF t
      <4>2. HistorySlot(u) \in RingSlots
        BY <4>1, SlotIn
      <4>3. HistorySlot(u) # h
        BY <1>5, <1>14, <2>1, <2>7, <3>2
      <4>4. /\ client'.guessed[HistorySlot(u)] = client.guessed[HistorySlot(u)]
            /\ client'.predicted[HistorySlot(u)] = client.predicted[HistorySlot(u)]
        BY <1>14, <2>1, <4>2, <4>3
      <4> QED
        BY <2>2, <2>3, <2>7, <4>1, <4>4
    <3> QED
      BY <3>1, <3>2
  <2> QED
    BY <2>6, <2>7
<1>17. Guessing'
  BY <1>2, <1>8, <1>16 DEF Guessing
<1> QED
  BY <1>6, <1>10, <1>11, <1>12, <1>15, <1>17 DEF PredictionInv

\* A replay counts every command the ring has since, each once.
LEMMA ReplayPredicts ==
    ASSUME NEW c \in Player, NEW m \in Reply, NEW steps, steps \in [DOMAIN steps -> Int],
           NEW from \in Nat \ {0}, from = m.command + 1, from + CommandHistory >= c.tick + 2,
           Remembers(c.history, DOMAIN steps, steps, c.tick),
           \A s \in RingSlots : c.guessed[s] \in DOMAIN steps \cup {0}
    PROVE  LET x == Replayed(c, m.position, from)
           IN  /\ x.position = Predicted(steps, m, c.tick)
               /\ \A v \in 1 .. c.tick : x.guessed[HistorySlot(v)] = v /\ v > m.command
                      => x.predicted[HistorySlot(v)] = Predicted(steps, m, v)
               /\ \A s \in RingSlots : x.guessed[s] \in DOMAIN steps \cup {0}
<1> DEFINE base == Set(c, m.position)
           D == DOMAIN steps
           N == c.tick
           Count(x, u) == /\ x.history = c.history /\ x.position = Predicted(steps, m, u)
                          /\ \A v \in 1 .. u : x.guessed[HistorySlot(v)] = v /\ v > m.command
                                 => x.predicted[HistorySlot(v)] = Predicted(steps, m, v)
                          /\ \A s \in RingSlots : x.guessed[s] \in D \cup {0}
<1>0. N \in Nat /\ m.position \in Int /\ m.command \in Nat
  BY PlayerParts DEF Reply
<1>1. PICK f : /\ f[0] = base /\ Replayed(c, m.position, from) = f[N]
               /\ \A u \in 0 .. N : f[u] \in Player
               /\ \A u \in 1 .. N : f[u] = ReplayStep(c, base, from, f[u - 1], u)
  BY <1>0, ReplayedIs
<1>2. base.history = c.history /\ base.guessed = c.guessed /\ base.position = m.position
  BY DEF Set, Player
<1>3. ASSUME NEW u \in 0 .. m.command PROVE Count(base, u)
  <2>1. Predicted(steps, m, u) = m.position
    BY <1>0, PredictedNone
  <2>2. \A v \in 1 .. u : ~ (v > m.command)
    BY <1>0
  <2> HIDE DEF base
  <2> QED
    BY <1>2, <2>1, <2>2
<1> HIDE DEF base
<1>4. /\ \A u \in D : u + CommandHistory > N =>
              c.history[HistorySlot(u)].tick = u /\ c.history[HistorySlot(u)].step = steps[u]
      /\ \A s \in RingSlots : c.history[s].tick \in D \cup {0}
  BY DEF Remembers
<1> DEFINE G == {u \in 0 .. N : Count(f[u], u)}
<1>5. 0 \in G
  BY <1>0, <1>1, <1>3
<1>6. ASSUME NEW u \in 0 .. N - 1, u \in G PROVE u + 1 \in G
  <2> DEFINE w == u + 1
             h == HistorySlot(w)
             x == f[u]
             p == x.position + x.history[h].step
  <2>1. w \in 1 .. N /\ w - 1 = u /\ u \in 0 .. N /\ w \in 0 .. N /\ w \in Nat /\ u \in Nat
        /\ w = u + 1
    BY <1>0
  <2>2. f[w] = ReplayStep(c, base, from, x, w) /\ x \in Player /\ Count(x, u)
    BY <1>1, <1>6, <2>1
  <2>3. h \in RingSlots
    BY <2>1, SlotIn
  <2>4. /\ Predicted(steps, m, u) \in Int
        /\ w \in D /\ w > m.command => Predicted(steps, m, w) = Predicted(steps, m, u) + steps[w]
        /\ w \notin D => Predicted(steps, m, w) = Predicted(steps, m, u)
    BY <1>0, <2>1, PredictedNext
  <2>5. w < from \/ w >= from
    BY <2>1
  <2>6. CASE w < from
    <3>1. w \in 0 .. m.command
      BY <1>0, <2>1, <2>6
    <3>2. f[w] = base
      BY <2>2, <2>6 DEF ReplayStep
    <3>3. Count(f[w], w)
      BY <1>3, <3>1, <3>2
    <3> QED
      BY <2>1, <3>3
  <2>7. CASE w >= from /\ c.history[h].tick = w
    <3>1. w > m.command /\ w + CommandHistory > N /\ w # 0 /\ ~ (w < from)
      BY <1>0, <2>1, <2>7, PlayConstants
    <3>2. w \in D
      BY <1>4, <2>3, <2>7, <3>1
    <3>3. f[w] = Again(x, w)
      BY <2>2, <2>7, <3>1 DEF ReplayStep
    <3>4. x.history[h].step = steps[w]
      BY <1>4, <2>2, <3>1, <3>2
    <3>5. p = Predicted(steps, m, w)
      BY <2>2, <2>4, <3>1, <3>2, <3>4
    <3>6. /\ f[w].position = p /\ f[w].history = x.history
          /\ f[w].predicted = [x.predicted EXCEPT ![h] = p]
          /\ f[w].guessed = [x.guessed EXCEPT ![h] = w]
      BY <2>1, <2>2, <3>3, AgainIs, SMTT(60)
    <3>7. x.predicted \in [RingSlots -> Int] /\ x.guessed \in [RingSlots -> Nat]
      BY <2>2, PlayerParts
    <3> HIDE DEF p, x, D
    <3>8. ASSUME NEW v \in 1 .. w, f[w].guessed[HistorySlot(v)] = v, v > m.command
          PROVE  f[w].predicted[HistorySlot(v)] = Predicted(steps, m, v)
      <4>1. HistorySlot(v) \in RingSlots
        BY <2>1, SlotIn
      <4>2. CASE HistorySlot(v) = h
        <5>1. v = w
          BY <2>3, <3>6, <3>7, <3>8, <4>2
        <5> QED
          BY <2>3, <3>5, <3>6, <3>7, <4>2, <5>1
      <4>3. CASE HistorySlot(v) # h
        <5>1. f[w].guessed[HistorySlot(v)] = x.guessed[HistorySlot(v)]
              /\ f[w].predicted[HistorySlot(v)] = x.predicted[HistorySlot(v)]
          BY <3>6, <3>7, <4>1, <4>3
        <5>2. v # w
          BY <4>3
        <5>3. v \in 1 .. u
          BY <2>1, <5>2
        <5> QED
          BY <2>2, <3>8, <5>1, <5>3
      <4> QED
        BY <4>2, <4>3
    <3>9. ASSUME NEW s \in RingSlots PROVE f[w].guessed[s] \in D \cup {0}
      <4>1. x.guessed[s] \in D \cup {0}
        BY <2>2
      <4> QED
        BY <3>2, <3>6, <3>7, <4>1
    <3>10. f[w].history = c.history /\ f[w].position = Predicted(steps, m, w)
      BY <2>2, <3>5, <3>6
    <3> HIDE DEF w, h
    <3>11. Count(f[w], w)
      BY <3>8, <3>9, <3>10
    <3> HIDE DEF Count
    <3> QED
      BY <2>1, <3>11 DEF w
  <2>8. CASE w >= from /\ c.history[h].tick # w
    <3>1. w > m.command /\ w + CommandHistory > N /\ ~ (w < from)
      BY <1>0, <2>1, <2>8, PlayConstants
    <3>2. w \notin D
      BY <1>4, <2>8, <3>1
    <3>3. f[w] = x
      BY <2>2, <2>8, <3>1 DEF ReplayStep
    <3>4. x.guessed[h] # w
      BY <2>2, <2>3, <3>1, <3>2
    <3>5. ASSUME NEW v \in 1 .. w, x.guessed[HistorySlot(v)] = v, v > m.command
          PROVE  x.predicted[HistorySlot(v)] = Predicted(steps, m, v)
      <4>1. v # w
        BY <3>4, <3>5
      <4>2. v \in 1 .. u
        BY <2>1, <4>1
      <4> QED
        BY <2>2, <3>5, <4>2
    <3>6. x.history = c.history /\ x.position = Predicted(steps, m, w)
          /\ \A s \in RingSlots : x.guessed[s] \in D \cup {0}
      BY <2>2, <2>4, <3>2
    <3> HIDE DEF w, h, x, D
    <3>7. Count(x, w)
      BY <3>5, <3>6
    <3> HIDE DEF Count
    <3> QED
      BY <2>1, <3>3, <3>7 DEF w, x
  <2> QED
    BY <2>5, <2>6, <2>7, <2>8
<1>7. N \in G
  <2>1. N \in 0 .. N
    BY <1>0
  <2> HIDE DEF G, N
  <2> QED
    BY <1>0, <1>5, <1>6, <2>1, UpTo
<1>8. Count(f[N], N)
  BY <1>7
<1> QED
  BY <1>1, <1>8

\* A replay that starts later than it should guesses nothing that was not sampled, either.
LEMMA ReplayGuesses ==
    ASSUME NEW c \in Player, NEW m \in Reply, NEW ticks, NEW steps, NEW from \in Nat \ {0},
           Remembers(c.history, ticks, steps, c.tick),
           \A s \in RingSlots : c.guessed[s] \in ticks \cup {0}
    PROVE  \A s \in RingSlots :
              Replayed(c, m.position, from).guessed[s] \in ticks \cup {0}
<1> DEFINE base == Set(c, m.position)
           N == c.tick
           Fit(x) == /\ x.history = c.history
                     /\ \A s \in RingSlots : x.guessed[s] \in ticks \cup {0}
<1>0. N \in Nat /\ m.position \in Int
  BY PlayerParts DEF Reply
<1>1. PICK f : /\ f[0] = base /\ Replayed(c, m.position, from) = f[N]
               /\ \A u \in 0 .. N : f[u] \in Player
               /\ \A u \in 1 .. N : f[u] = ReplayStep(c, base, from, f[u - 1], u)
  BY <1>0, ReplayedIs
<1>2. base.history = c.history /\ base.guessed = c.guessed
  BY DEF Set, Player
<1> HIDE DEF base
<1>3. Fit(base)
  BY <1>2
<1>4. \A s \in RingSlots : c.history[s].tick \in ticks \cup {0}
  BY DEF Remembers
<1> DEFINE G == {u \in 0 .. N : Fit(f[u])}
<1>5. 0 \in G
  BY <1>0, <1>1, <1>3
<1>6. ASSUME NEW u \in 0 .. N - 1, u \in G PROVE u + 1 \in G
  <2> DEFINE w == u + 1
             h == HistorySlot(w)
             x == f[u]
  <2>1. w \in 1 .. N /\ w - 1 = u /\ u \in 0 .. N /\ w \in 0 .. N /\ w \in Nat
    BY <1>0
  <2>2. f[w] = ReplayStep(c, base, from, x, w) /\ x \in Player /\ Fit(x)
    BY <1>1, <1>6, <2>1
  <2>3. h \in RingSlots
    BY <2>1, SlotIn
  <2>4. CASE c.history[h].tick = w
    <3>1. w \in ticks \cup {0}
      BY <1>4, <2>3, <2>4
    <3>2. Again(x, w).guessed = [x.guessed EXCEPT ![h] = w] /\ Again(x, w).history = x.history
      BY <2>1, <2>2, AgainIs
    <3>3. x.guessed \in [RingSlots -> Nat]
      BY <2>2, PlayerParts
    <3> DEFINE y == Again(x, w)
    <3> HIDE DEF y, w, h, x
    <3>4. Fit(y)
      BY <2>2, <3>1, <3>2, <3>3 DEF y
    <3>5. f[w] = base \/ f[w] = y \/ f[w] = x
      BY <2>2 DEF ReplayStep, y
    <3>6. Fit(f[w])
      BY <1>3, <2>2, <3>4, <3>5
    <3> HIDE DEF Fit
    <3> QED
      BY <2>1, <3>6 DEF w
  <2>5. CASE c.history[h].tick # w
    <3>1. f[w] = base \/ f[w] = x
      BY <2>2, <2>5 DEF ReplayStep
    <3> QED
      BY <1>3, <2>1, <2>2, <3>1
  <2> QED
    BY <2>4, <2>5
<1>7. N \in G
  <2>1. N \in 0 .. N
    BY <1>0
  <2> HIDE DEF G, N
  <2> QED
    BY <1>0, <1>5, <1>6, <2>1, UpTo
<1>8. Fit(f[N])
  BY <1>7
<1> QED
  BY <1>1, <1>8

\* A snapshot taken: what it says is where the predictions start from.
LEMMA ReplySees ==
    ASSUME PredictionInv, NEW m \in replies, TakeReply(m)
    PROVE  PredictionInv'
<1> DEFINE c == Greeted(m)
           from == ReplayFrom(c, m)
           k == m.command
           D == DOMAIN sampled
<1>1. /\ client \in Player /\ m \in Reply /\ k \in Nat /\ m.position \in Int /\ m.tick \in Nat
      /\ client.tick \in Nat /\ sampled \in [D -> Int] /\ server \in Peer
      /\ basis.position \in Int /\ basis.command \in Nat /\ basis.exact \in BOOLEAN
  BY PlayerParts DEF PredictionInv, PlayTyped, Reply
<1>2. /\ client' \in Player /\ client'.tick = client.tick /\ client'.playing = client.playing
      /\ client'.spawned /\ client'.shown = m.tick /\ client'.history = client.history
  BY <1>1, ReplyLeaves
<1>3. /\ client' = IF Agrees(c, m) THEN c ELSE Replayed(c, m.position, from)
      /\ basis'.position = m.position /\ basis'.command = k
      /\ basis'.exact = IF Agrees(c, m)
                        THEN basis.exact /\ c.guessed[HistorySlot(k)] = k
                        ELSE c.tick - k < CommandHistory
      /\ replies' = {x \in replies : x.tick > m.tick}
      /\ server' = server /\ sampled' = sampled /\ executed' = executed /\ client.playing
  BY <1>1, TakeReplyIs
<1>4. PlayTyped' /\ Sampling'
  <2>1. PredictionNext
    BY DEF PredictionNext
  <2> QED
    BY <2>1, TypedStep DEF PredictionInv
<1>5. Anchored'
  BY <1>2, <1>3 DEF PredictionInv, Anchored
<1>6. Sequenced(server)'
  BY <1>3 DEF PredictionInv, Sequenced
<1>7. /\ server.applied \in D \cup {0} /\ m.tick <= server.tick /\ k \in D \cup {0}
      /\ Follows(basis, m) /\ Follows(m, Answers)
      /\ \A r \in replies : /\ r.tick <= server.tick /\ r.command \in D \cup {0}
                            /\ Follows(r, Answers) /\ (m.tick <= r.tick => Follows(m, r))
      /\ \A r, x \in replies : r.tick <= x.tick => Follows(r, x)
  BY DEF PredictionInv, Answering
<1>8. Answering'
  <2>1. \A r \in replies : r.tick \in Nat
    BY DEF PredictionInv, PlayTyped, Reply
  <2>2. \A x : Follows(m, x) => Follows(basis, x)'
    BY <1>3 DEF Follows
  <2>3. ASSUME NEW r \in replies'
        PROVE  /\ m.tick < r.tick /\ r.tick <= server.tick /\ r.command \in D \cup {0}
               /\ Follows(m, r) /\ Follows(r, Answers) /\ r \in replies
    BY <1>1, <1>3, <1>7, <2>1
  <2>4. server'.applied = server.applied /\ server'.position = server.position /\ Answers' = Answers
    BY <1>3 DEF Answers
  <2>5. Follows(basis, Answers)' /\ \A r \in replies' : Follows(basis, r)'
    BY <1>3, <1>7, <2>3, <2>4 DEF Follows
  <2>6. \A r \in replies' : Follows(r, Answers)'
    BY <2>3, <2>4 DEF Follows
  <2>7. \A r, x \in replies' : r.tick <= x.tick => Follows(r, x)
    BY <1>7, <2>3
  <2>8. /\ server'.applied \in DOMAIN sampled' \cup {0} /\ client'.shown <= server'.tick
        /\ basis'.command \in DOMAIN sampled' \cup {0}
        /\ \A r \in replies' : client'.shown < r.tick /\ r.tick <= server'.tick
                               /\ r.command \in DOMAIN sampled' \cup {0}
    BY <1>2, <1>3, <1>7, <2>3
  <2> QED
    BY <2>5, <2>6, <2>7, <2>8 DEF Answering, Follows
<1>9. /\ c \in Player /\ c.tick = client.tick /\ c.spawned
      /\ c.history = client.history /\ c.predicted = client.predicted /\ c.guessed = client.guessed
      /\ c.position = IF client.spawned THEN client.position ELSE m.position
  BY <1>1, GreetedIs
<1>10. /\ Remembers(client.history, D, sampled, client.tick)
       /\ \A s \in RingSlots : client.guessed[s] \in D \cup {0}
       /\ ~ client.spawned => \A s \in RingSlots : client.guessed[s] = 0
  BY DEF PredictionInv, SentInputs
<1>11. /\ from \in Nat \ {0} /\ from + CommandHistory >= client.tick + 2
       /\ client.tick - k < CommandHistory => from = k + 1
  <2> HIDE DEF c
  <2> QED
    BY <1>1, <1>9, FromIs
<1>12. D \subseteq 1 .. client.tick /\ k <= client.tick /\ k \in 0 .. client.tick
  <2>1. D \subseteq 1 .. client.tick
    BY DEF PredictionInv, Sampling
  <2> QED
    BY <1>1, <1>7, <2>1
<1> HIDE DEF c, from
<1>13. CASE Agrees(c, m)
  <2>1. client'.guessed = client.guessed /\ client'.predicted = client.predicted
        /\ client'.position = c.position
    BY <1>3, <1>9, <1>13
  <2>2. SentInputs'
    BY <1>2, <1>3, <1>10, <2>1 DEF SentInputs, Remembers
  <2>3. ASSUME basis'.exact
        PROVE  /\ client.position = Predicted(sampled, m, client.tick) /\ client.spawned
               /\ \A u \in 1 .. client.tick : client.guessed[HistorySlot(u)] = u /\ u > k
                      => client.predicted[HistorySlot(u)] = Predicted(sampled, m, u)
    <3>1. basis.exact /\ client.guessed[HistorySlot(k)] = k
      BY <1>3, <1>9, <1>13, <2>3
    <3>2. k # 0 /\ client.predicted[HistorySlot(k)] = m.position
      BY <1>9, <1>13 DEF Agrees, Knows
    <3>3. HistorySlot(k) \in RingSlots
      BY <1>1, SlotIn
    <3>4. client.spawned
      BY <1>10, <3>1, <3>2, <3>3
    <3>5. /\ client.position = Predicted(sampled, basis, client.tick)
          /\ \A u \in 1 .. client.tick : client.guessed[HistorySlot(u)] = u /\ u > basis.command
                  => client.predicted[HistorySlot(u)] = Predicted(sampled, basis, u)
      BY <3>1, <3>4 DEF PredictionInv, Guessing
    <3>6. basis.command <= k /\ (basis.command = k => basis.position = m.position)
      BY <1>7 DEF Follows
    <3>7. m.position = Predicted(sampled, basis, k)
      <4>1. CASE k > basis.command
        BY <1>1, <1>12, <3>1, <3>2, <3>5, <4>1
      <4>2. CASE k = basis.command
        <5>1. k \in 0 .. basis.command
          BY <1>1, <4>2
        <5>2. Predicted(sampled, basis, k) = basis.position
          BY <1>1, <5>1, PredictedNone
        <5> QED
          BY <3>6, <4>2, <5>2
      <4> QED
        BY <1>1, <3>6, <4>1, <4>2
    <3>8. ASSUME NEW u \in k .. client.tick
          PROVE  Predicted(sampled, m, u) = Predicted(sampled, basis, u)
      <4>1. u \in Nat /\ k <= u
        BY <1>1
      <4> QED
        BY <1>1, <3>6, <3>7, <4>1, PredictedThrough
    <3>9. ASSUME NEW u \in 1 .. client.tick, client.guessed[HistorySlot(u)] = u, u > k
          PROVE  client.predicted[HistorySlot(u)] = Predicted(sampled, m, u)
      <4>1. u > basis.command /\ u \in k .. client.tick
        BY <1>1, <3>6, <3>9
      <4> QED
        BY <3>5, <3>8, <3>9, <4>1
    <3>10. client.tick \in k .. client.tick
      BY <1>1, <1>12
    <3> QED
      BY <3>4, <3>5, <3>8, <3>9, <3>10
  <2>4. Guessing'
    <3> SUFFICES ASSUME basis'.exact
                 PROVE  /\ client'.position = Predicted(sampled', basis', client'.tick)
                        /\ \A u \in 1 .. client'.tick :
                              client'.guessed[HistorySlot(u)] = u /\ u > basis'.command
                                => client'.predicted[HistorySlot(u)] = Predicted(sampled', basis', u)
      BY DEF Guessing
    <3>1. \A u : Predicted(sampled', basis', u) = Predicted(sampled, m, u)
      BY <1>3 DEF Predicted, After
    <3>2. client'.position = client.position
      BY <1>9, <2>1, <2>3
    <3> QED
      BY <1>2, <1>3, <2>1, <2>3, <3>1, <3>2
  <2> QED
    BY <1>4, <1>5, <1>6, <1>8, <2>2, <2>4 DEF PredictionInv
<1>14. CASE ~ Agrees(c, m)
  <2> DEFINE x == Replayed(c, m.position, from)
  <2>1. client' = x
    BY <1>3, <1>14
  <2>2. /\ Remembers(c.history, D, sampled, c.tick)
        /\ \A s \in RingSlots : c.guessed[s] \in D \cup {0}
    BY <1>9, <1>10
  <2>3. \A s \in RingSlots : client'.guessed[s] \in D \cup {0}
    BY <1>1, <1>9, <1>11, <2>1, <2>2, ReplayGuesses
  <2>4. SentInputs'
    BY <1>2, <1>3, <1>10, <2>3 DEF SentInputs, Remembers
  <2>5. ASSUME basis'.exact
        PROVE  /\ client'.position = Predicted(sampled, m, client.tick)
               /\ \A u \in 1 .. client.tick : client'.guessed[HistorySlot(u)] = u /\ u > k
                      => client'.predicted[HistorySlot(u)] = Predicted(sampled, m, u)
    <3>1. from = k + 1
      BY <1>3, <1>9, <1>11, <1>14, <2>5
    <3>2. from + CommandHistory >= c.tick + 2
      BY <1>9, <1>11
    <3> HIDE DEF x
    <3>3. /\ x.position = Predicted(sampled, m, c.tick)
          /\ \A u \in 1 .. c.tick : x.guessed[HistorySlot(u)] = u /\ u > k
                  => x.predicted[HistorySlot(u)] = Predicted(sampled, m, u)
      BY <1>1, <1>9, <1>11, <2>2, <3>1, <3>2, ReplayPredicts DEF x
    <3> QED
      BY <1>9, <2>1, <3>3
  <2>6. Guessing'
    <3> SUFFICES ASSUME basis'.exact
                 PROVE  /\ client'.position = Predicted(sampled', basis', client'.tick)
                        /\ \A u \in 1 .. client'.tick :
                              client'.guessed[HistorySlot(u)] = u /\ u > basis'.command
                                => client'.predicted[HistorySlot(u)] = Predicted(sampled', basis', u)
      BY DEF Guessing
    <3>1. \A u : Predicted(sampled', basis', u) = Predicted(sampled, m, u)
      BY <1>3 DEF Predicted, After
    <3> QED
      BY <1>2, <1>3, <2>5, <3>1
  <2> QED
    BY <1>4, <1>5, <1>6, <1>8, <2>4, <2>6 DEF PredictionInv
<1> QED
  BY <1>13, <1>14

\* Before the handshake nothing was sent, answered or remembered.
LEMMA PredictionInvInit ==
    ASSUME PredictionInit
    PROVE  PredictionInv
<1>1. PlayTyped /\ Sampling
  BY CommandsInit DEF CommandsInv
<1> USE DEF PredictionInit
<1>2. DOMAIN sampled = {}
  OBVIOUS
<1>3. Anchored /\ Sequenced(server)
  BY DEF Anchored, Sequenced
<1>4. Answering
  BY <1>2 DEF Answering, Answers, Follows
<1>5. SentInputs
  <2>1. \A s \in RingSlots : client.history[s].tick = 0 /\ client.guessed[s] = 0
    BY DEF SlotsOf, NoCommand, RingSlots
  <2> QED
    BY <1>2, <2>1 DEF SentInputs, Remembers
<1>6. Guessing
  BY DEF Guessing
<1> QED
  BY <1>1, <1>3, <1>4, <1>5, <1>6 DEF PredictionInv

\* What a snapshot and the commands since tell holds through every step.
LEMMA PredictionInvStep ==
    ASSUME PredictionInv, [PredictionNext]_predictionVars
    PROVE  PredictionInv'
<1>1. CASE TakeHello
  BY <1>1, HelloSees
<1>2. CASE TakeWelcome
  BY <1>2, WelcomeSees
<1>3. CASE ClientTicks
  BY <1>3, TickSees
<1>4. CASE ServerTicks
  BY <1>4, ServerSees
<1>5. ASSUME NEW t \in DOMAIN sampled, TakePacket(t) PROVE PredictionInv'
  BY <1>5, PacketSees
<1>6. ASSUME NEW m \in replies, TakeReply(m) PROVE PredictionInv'
  BY <1>6, ReplySees
<1>7. CASE UNCHANGED predictionVars
  <2>1. /\ client' = client /\ server' = server /\ replies' = replies /\ sampled' = sampled
        /\ executed' = executed /\ basis' = basis
    BY <1>7 DEF predictionVars
  <2>2. PlayTyped' /\ Sampling' /\ Anchored' /\ Sequenced(server)'
    BY <2>1 DEF PredictionInv, PlayTyped, Sampling, Anchored, Sequenced
  <2>3. Answering' /\ SentInputs'
    BY <2>1 DEF PredictionInv, Answering, Answers, Follows, SentInputs, Remembers
  <2>4. Guessing'
    BY <2>1 DEF PredictionInv, Guessing, Predicted, After
  <2> QED
    BY <2>2, <2>3, <2>4 DEF PredictionInv
<1> QED
  BY <1>1, <1>2, <1>3, <1>4, <1>5, <1>6, <1>7 DEF PredictionNext

\* What the player sees is the last word of the server it took and every command sent
\* since, each once, whatever clocks, network and limits do to commands and snapshots
\* (_nya_net_client_reconcile, _nya_net_client_send_command).
THEOREM PredictionHoldsAlways == PredictionSpec => []PredictionHolds
<1>1. PredictionInit => PredictionInv
  BY PredictionInvInit
<1>2. PredictionInv /\ [PredictionNext]_predictionVars => PredictionInv'
  BY PredictionInvStep
<1>3. PredictionInv => PredictionHolds
  BY DEF PredictionInv, Guessing, PredictionHolds, Predicted, After, Walk
<1> QED
  BY <1>1, <1>2, <1>3, PTL DEF PredictionSpec

=============================================================================
