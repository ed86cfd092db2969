----------------------------- MODULE PizzaStadiumProofs -----------------------------
(***************************************************************************)
(* Proofs about the two programs whose messages are counted by sums.       *)
(*                                                                         *)
(* Pizza, for any number of cooks, couriers and tables and any portions:   *)
(* the semaphores are shown to count what lies in the ring, the ring to be *)
(* a queue, and sem_slots to have room for every push that is still to     *)
(* come; that no pizza is lost or taken twice, and that the semaphores     *)
(* implement Pizzeria, follows.                                            *)
(*                                                                         *)
(* Stadium, for any number of runners, both variants and any capacity: the *)
(* messages on their way are those that the phase of the race calls for,   *)
(* and both programs implement Relay.  See the second half of the module.  *)
(***************************************************************************)
EXTENDS Pizza, Sequences, FiniteSetTheorems, SequenceTheorems, TLAPS

CookLabels == {"table", "push", "write", "post_item", "put_table", "done"}
CourierLabels == {"idle", "read", "post_slot", "deliver", "done"}
MainLabels == {"join_cooks", "push", "write", "post_item", "join_couriers", "done"}
Labels == CookLabels \cup CourierLabels \cup MainLabels
Pushing == {"push", "write", "post_item"}
Values == Pizzas \cup {Poison, Nothing}

TypeInv ==
  /\ portion \in [Cooks -> Nat \ {0}]
  /\ pc \in [Threads -> Labels]
  /\ left \in [Producers -> Nat]
  /\ tables \in Nat /\ slots \in Nat /\ items \in Nat /\ delivered_total \in Nat
  /\ buf \in [0..queue_capacity - 1 -> Values]
  /\ head \in 0..queue_capacity - 1 /\ tail \in 0..queue_capacity - 1
  /\ holding \in [Couriers -> Values]

\* how far each loop has got, and that main pushes only after the cooks
PlacesInv ==
  /\ \A c \in Cooks : /\ pc[c] \in CookLabels /\ left[c] <= portion[c]
                      /\ pc[c] \in Pushing \cup {"table"} => left[c] > 0
                      /\ pc[c] = "done" => left[c] = 0
  /\ \A k \in Couriers : /\ pc[k] \in CourierLabels
                         /\ pc[k] = "deliver" => holding[k] # Poison
  /\ pc[Main] \in MainLabels
  /\ pc[Main] \in Pushing => left[Main] > 0
  /\ pc[Main] = "join_cooks" => left[Main] = Cardinality(Couriers)
  /\ pc[Main] # "join_cooks" => \A c \in Cooks : pc[c] = "done"

\* the pushes that have not taken their slot
Unclaimed(p) == IF pc[p] \in {"write", "post_item"} THEN left[p] - 1 ELSE left[p]
unclaimed == [c \in Cooks |-> Unclaimed(c)]

RoomInv == SumFunction(unclaimed) + Unclaimed(Main) <= slots

\* the ring as a queue: its cells from the oldest value on
Cell(j) == buf[Place(j)]

Baked(v) == v \in Pizzas /\ v[2] < portion[v[1]] - unbaked[v[1]]

\* no two pizzas are the same, and those to come are none of these
DistinctInv ==
  /\ \A j \in Ready : Baked(Cell(j))
  /\ \A k \in Carriers : Baked(holding[k])
  /\ \A i, j \in Ready : Cell(i) = Cell(j) => i = j
  /\ \A j \in Ready, k \in Carriers : Cell(j) # holding[k]

\* nothing but poison behind a poison
PoisonInv ==
  \A i \in 0..QueueLen - 1 :
    Cell(i) = Poison => /\ pc[Main] # "join_cooks"
                        /\ \A j \in i..QueueLen - 1 : Cell(j) = Poison

\* the two halves of QueueExact
SemaphoresInv ==
  /\ tables + Cardinality(At(pc, Cooks, {"push", "write", "post_item", "put_table"}))
       = N_tables
  /\ slots + QueueLen + Cardinality(At(pc, Producers, {"write"}))
       + Cardinality(At(pc, Couriers, {"post_slot"})) = queue_capacity

RingInv ==
  /\ (head + QueueLen) % queue_capacity = tail
  /\ \A j \in 0..QueueLen - 1 : Cell(j) # Nothing

IInv ==
  /\ TypeInv /\ PlacesInv /\ SemaphoresInv /\ RingInv /\ RoomInv
  /\ PizzasExact /\ DistinctInv /\ PoisonInv

-----------------------------------------------------------------------------
(***************************************************************************)
(* Sums                                                                    *)
(***************************************************************************)

(* Induction is a descent: a set of natural numbers has a least element.   *)
LEMMA Least ==
  ASSUME NEW S, S \subseteq Nat, S # {}
  PROVE  \E k \in S : \A j \in S : k <= j
<1> DEFINE R == {jk \in Nat \X Nat : jk[1] < jk[2]}
<1>1. IsWellFoundedOn(R, Nat)
  BY NatLessThanWellFounded DEF OpToRel
<1>2. PICK k \in S : \A j \in S : ~(<<j, k>> \in R)
  <2> HIDE DEF R
  <2> QED
    BY <1>1, WFMin
<1>3. \A j \in S : ~(j < k)
  BY <1>2
<1> QED
  BY <1>3

\* what SumFunction computes, one element after the other
Pick(s) == CHOOSE x \in s : TRUE
Step(f, g, s) == IF s = {} THEN 0 ELSE f[Pick(s)] + g[s \ {Pick(s)}]
Sums(f, S) == CHOOSE g : g = [s \in SUBSET S |-> Step(f, g, s)]

LEMMA SumIs ==
  ASSUME NEW f
  PROVE  SumFunction(f) = Sums(f, DOMAIN f)[DOMAIN f]
  BY DEF SumFunction, SumFunctionOnSet, FoldFunctionOnSet, MapThenFoldSet, Pick, Step, Sums

LEMMA Smaller ==
  ASSUME NEW S, IsFiniteSet(S), NEW s \in SUBSET S, s # {}
  PROVE  /\ Pick(s) \in s /\ s \ {Pick(s)} \in SUBSET S
         /\ Cardinality(s) \in Nat /\ Cardinality(s \ {Pick(s)}) \in Nat
         /\ Cardinality(s \ {Pick(s)}) < Cardinality(s)
<1>1. Pick(s) \in s
  BY DEF Pick
<1>2. IsFiniteSet(s) /\ Cardinality(s) \in Nat
  BY FS_Subset, FS_CardinalityType
<1>3. IsFiniteSet(s \ {Pick(s)}) /\ Cardinality(s \ {Pick(s)}) = Cardinality(s) - 1
  BY <1>1, <1>2, FS_RemoveElement
<1> QED
  BY <1>1, <1>2, <1>3, FS_CardinalityType

(* The recursion is well-founded, so the sums exist.                       *)
LEMMA SumsExist ==
  ASSUME NEW f, NEW S, IsFiniteSet(S)
  PROVE  \A s \in SUBSET S : Sums(f, S)[s] = Step(f, Sums(f, S), s)
<1> DEFINE UpTo(k, g) == \A s \in SUBSET S : Cardinality(s) <= k => g[s] = Step(f, g, s)
           Bad == {k \in Nat : ~ \E g : UpTo(k, g)}
<1>1. Bad = {}
  <2> SUFFICES ASSUME Bad # {} PROVE FALSE
    OBVIOUS
  <2>1. PICK k \in Bad : \A j \in Bad : k <= j
    <3>1. Bad \subseteq Nat
      OBVIOUS
    <3> HIDE DEF Bad
    <3> QED
      BY <3>1, Least
  <2>2. k # 0
    <3>1. ASSUME NEW s \in SUBSET S, Cardinality(s) <= 0
          PROVE  s = {}
      BY <3>1, FS_Subset, FS_CardinalityType, FS_EmptySet
    <3>2. UpTo(0, [s \in SUBSET S |-> 0])
      BY <3>1 DEF Step
    <3> QED
      BY <3>2
  <2>3. k - 1 \in Nat /\ k - 1 \notin Bad
    BY <2>1, <2>2
  <2>4. PICK g : UpTo(k - 1, g)
    BY <2>3
  <2> DEFINE h == [s \in SUBSET S |-> Step(f, g, s)]
  <2>5. ASSUME NEW s \in SUBSET S, Cardinality(s) <= k
        PROVE  h[s] = Step(f, h, s)
    <3>1. CASE s = {}
      BY <3>1 DEF Step
    <3>2. CASE s # {}
      <4>1. s \ {Pick(s)} \in SUBSET S /\ Cardinality(s \ {Pick(s)}) <= k - 1
        BY <2>3, <2>5, <3>2, Smaller
      <4>2. h[s \ {Pick(s)}] = g[s \ {Pick(s)}]
        BY <2>4, <4>1
      <4> QED
        BY <3>2, <4>2 DEF Step
    <3> QED
      BY <3>1, <3>2
  <2>6. UpTo(k, h)
    BY <2>5
  <2> QED
    BY <2>6
<1>2. PICK g : UpTo(Cardinality(S), g)
  BY <1>1, FS_CardinalityType
<1> DEFINE h == [s \in SUBSET S |-> g[s]]
<1>3. h = [s \in SUBSET S |-> Step(f, h, s)]
  <2>1. ASSUME NEW s \in SUBSET S
        PROVE  g[s] = Step(f, h, s)
    <3>1. g[s] = Step(f, g, s)
      BY <1>2, FS_Subset
    <3>2. s # {} => h[s \ {Pick(s)}] = g[s \ {Pick(s)}]
      OBVIOUS
    <3> QED
      BY <3>1, <3>2 DEF Step
  <2> QED
    BY <2>1
<1>4. Sums(f, S) = [s \in SUBSET S |-> Step(f, Sums(f, S), s)]
  <2> HIDE DEF h
  <2> QED
    BY <1>3 DEF Sums
<1> QED
  BY <1>4

(* Induction over the subsets of a finite set: a smallest one.             *)
LEMMA Smallest ==
  ASSUME NEW S, IsFiniteSet(S), NEW B, B \subseteq SUBSET S, B # {}
  PROVE  \E s \in B : \A t \in B : Cardinality(s) <= Cardinality(t)
<1> DEFINE sizes == {Cardinality(s) : s \in B}
<1>1. sizes \subseteq Nat /\ sizes # {}
  BY FS_Subset, FS_CardinalityType
<1>2. PICK k \in sizes : \A j \in sizes : k <= j
  <2> HIDE DEF sizes
  <2> QED
    BY <1>1, Least
<1> QED
  BY <1>2

(* A sum changes as one summand does.                                      *)
LEMMA SumChange ==
  ASSUME NEW S, IsFiniteSet(S), NEW f \in [S -> Int], NEW g \in [S -> Int], NEW c \in S,
         \A x \in S : x # c => g[x] = f[x]
  PROVE  SumFunction(f) \in Int /\ SumFunction(g) = SumFunction(f) - f[c] + g[c]
<1> DEFINE a == Sums(f, S)
           b == Sums(g, S)
           Right(s) == a[s] \in Int /\ b[s] = a[s] + (IF c \in s THEN g[c] - f[c] ELSE 0)
           Bad == {s \in SUBSET S : ~Right(s)}
<1>1. \A s \in SUBSET S : a[s] = Step(f, a, s) /\ b[s] = Step(g, b, s)
  BY SumsExist
<1> HIDE DEF a, b
<1>2. Bad = {}
  <2> SUFFICES ASSUME Bad # {} PROVE FALSE
    OBVIOUS
  <2>1. PICK s \in Bad : \A t \in Bad : Cardinality(s) <= Cardinality(t)
    <3>1. Bad \subseteq SUBSET S
      OBVIOUS
    <3> HIDE DEF Bad
    <3> QED
      BY <3>1, Smallest
  <2>2. s # {}
    <3> SUFFICES ASSUME s = {} PROVE Right(s)
      BY <2>1
    <3>1. a[s] = 0 /\ b[s] = 0
      BY <1>1 DEF Step
    <3> QED
      BY <3>1
  <2> DEFINE x == Pick(s)
             t == s \ {x}
  <2>3. x \in s /\ t \in SUBSET S /\ Cardinality(t) < Cardinality(s)
        /\ Cardinality(t) \in Nat /\ Cardinality(s) \in Nat
    BY <2>2, Smaller
  <2>4. a[s] = f[x] + a[t] /\ b[s] = g[x] + b[t]
    BY <1>1, <2>2 DEF Step
  <2> HIDE DEF x
  <2>5. Right(t)
    BY <2>1, <2>3
  <2>6. Right(s)
    <3>1. CASE x = c
      BY <2>3, <2>4, <2>5, <3>1
    <3>2. CASE x # c
      BY <2>3, <2>4, <2>5, <3>2
    <3> QED
      BY <3>1, <3>2
  <2> QED
    BY <2>1, <2>6
<1>3. Right(S)
  BY <1>2
<1>4. SumFunction(f) = a[S] /\ SumFunction(g) = b[S]
  BY SumIs DEF a, b
<1> QED
  BY <1>3, <1>4

(* A sum stays in a set of numbers that is closed under addition.          *)
LEMMA SumIn ==
  ASSUME NEW S, IsFiniteSet(S), NEW N, 0 \in N, \A i, j \in N : i + j \in N,
         NEW f \in [S -> N]
  PROVE  SumFunction(f) \in N
<1> DEFINE a == Sums(f, S)
           Bad == {s \in SUBSET S : a[s] \notin N}
<1>1. \A s \in SUBSET S : a[s] = Step(f, a, s)
  BY SumsExist
<1> HIDE DEF a
<1>2. Bad = {}
  <2> SUFFICES ASSUME Bad # {} PROVE FALSE
    OBVIOUS
  <2>1. PICK s \in Bad : \A t \in Bad : Cardinality(s) <= Cardinality(t)
    <3>1. Bad \subseteq SUBSET S
      OBVIOUS
    <3> HIDE DEF Bad
    <3> QED
      BY <3>1, Smallest
  <2>2. s # {}
    <3>1. s = {} => a[s] = 0
      BY <1>1 DEF Step
    <3> QED
      BY <2>1, <3>1
  <2>3. a[s \ {Pick(s)}] \in N
    BY <2>1, <2>2, Smaller
  <2>4. f[Pick(s)] \in N
    BY <2>2, Smaller
  <2>5. a[s] = f[Pick(s)] + a[s \ {Pick(s)}]
    BY <1>1, <2>2 DEF Step
  <2> QED
    BY <2>1, <2>3, <2>4, <2>5
<1> QED
  BY <1>2, SumIs DEF a

LEMMA SumNat ==
  ASSUME NEW S, IsFiniteSet(S), NEW f \in [S -> Nat]
  PROVE  SumFunction(f) \in Nat
<1>1. 0 \in Nat /\ \A i, j \in Nat : i + j \in Nat
  OBVIOUS
<1> QED
  BY <1>1, SumIn

LEMMA SumZero ==
  ASSUME NEW S, IsFiniteSet(S), NEW f, DOMAIN f = S, f = [x \in S |-> 0]
  PROVE  SumFunction(f) = 0
<1>1. 0 \in {0} /\ \A i, j \in {0} : i + j \in {0}
  OBVIOUS
<1>2. f \in [S -> {0}]
  OBVIOUS
<1>3. SumFunction(f) \in {0}
  BY <1>1, <1>2, SumIn
<1> QED
  BY <1>3

LEMMA SumAtLeast ==
  ASSUME NEW S, IsFiniteSet(S), NEW f \in [S -> Nat], NEW c \in S
  PROVE  SumFunction(f) \in Nat /\ SumFunction(f) >= f[c]
<1>1. PICK rest \in [S -> Nat] : rest = [f EXCEPT ![c] = 0]
  OBVIOUS
<1>2. /\ rest \in [S -> Int] /\ f \in [S -> Int] /\ f[c] \in Nat /\ rest[c] = 0
      /\ \A x \in S : x # c => rest[x] = f[x]
  BY <1>1
<1>3. SumFunction(f) \in Nat /\ SumFunction(rest) \in Nat
  BY SumNat
<1>4. SumFunction(rest) = SumFunction(f) - f[c] + rest[c]
  BY <1>2, SumChange
<1> QED
  BY <1>2, <1>3, <1>4

(* The same, with the difference.                                          *)
LEMMA SumMove ==
  ASSUME NEW S, IsFiniteSet(S), NEW f \in [S -> Int], NEW g \in [S -> Int], NEW c \in S,
         NEW d \in Int, g[c] = f[c] + d, \A x \in S : x # c => g[x] = f[x]
  PROVE  SumFunction(f) \in Int /\ SumFunction(g) = SumFunction(f) + d
<1>1. SumFunction(f) \in Int /\ SumFunction(g) = SumFunction(f) - f[c] + g[c]
  BY SumChange
<1>2. f[c] \in Int
  OBVIOUS
<1> QED
  BY <1>1, <1>2

LEMMA SumDown ==
  ASSUME NEW S, IsFiniteSet(S), NEW f \in [S -> Int], NEW g \in [S -> Int], NEW c \in S,
         g[c] = f[c] - 1, \A x \in S : x # c => g[x] = f[x]
  PROVE  SumFunction(f) \in Int /\ SumFunction(g) = SumFunction(f) - 1
<1>1. SumFunction(f) \in Int /\ SumFunction(g) = SumFunction(f) - f[c] + g[c]
  BY SumChange
<1>2. f[c] \in Int
  OBVIOUS
<1> QED
  BY <1>1, <1>2

-----------------------------------------------------------------------------
(***************************************************************************)
(* The ring                                                                *)
(***************************************************************************)

LEMMA Mod ==
  ASSUME NEW q \in Nat \ {0}, NEW a \in Nat, a < q + q
  PROVE  a % q = IF a < q THEN a ELSE a - q
<1>1. CASE a < q
  <2>1. a % q = a
    BY <1>1
  <2> QED
    BY <1>1, <2>1
<1>2. CASE a >= q
  <2>1. a % q = a - q
    BY <1>2
  <2> QED
    BY <1>2, <2>1
<1> QED
  BY <1>1, <1>2

(* The places from h on are different, and each leads to the next.         *)
LEMMA Around ==
  ASSUME NEW q \in Nat \ {0}, NEW h \in 0..q - 1
  PROVE  /\ \A j \in 0..q : (h + j) % q \in 0..q - 1
         /\ \A i, j \in 0..q - 1 : (h + i) % q = (h + j) % q => i = j
         /\ \A j \in 0..q - 1 : (((h + j) % q) + 1) % q = (h + (j + 1)) % q
         /\ \A j \in 0..q - 1 : (((h + 1) % q) + j) % q = (h + (j + 1)) % q
<1>1. ASSUME NEW a \in Nat, a < q + q
      PROVE  a % q = IF a < q THEN a ELSE a - q
  BY <1>1, Mod
<1>2. ASSUME NEW j \in 0..q
      PROVE  (h + j) % q = IF h + j < q THEN h + j ELSE h + j - q
  <2>1. h + j \in Nat /\ h + j < q + q
    OBVIOUS
  <2> QED
    BY <1>1, <2>1
<1>3. ASSUME NEW j \in 0..q - 1, NEW b \in 0..q, NEW a, a = (h + b) % q,
             NEW d \in 0..q, b + d = j + 1
      PROVE  (a + d) % q = (h + (j + 1)) % q
  <2>1. a = IF h + b < q THEN h + b ELSE h + b - q
    BY <1>2, <1>3
  <2>2. (h + (j + 1)) % q = IF h + (j + 1) < q THEN h + (j + 1) ELSE h + (j + 1) - q
    BY <1>2
  <2>3. PICK e \in Nat : e = a + d /\ e < q + q
    BY <1>3, <2>1
  <2>4. e % q = IF e < q THEN e ELSE e - q
    BY <1>1, <2>3
  <2> QED
    BY <1>3, <2>1, <2>2, <2>3, <2>4
<1>4. \A j \in 0..q - 1 : (((h + j) % q) + 1) % q = (h + (j + 1)) % q
  BY <1>3
<1>5. \A j \in 0..q - 1 : (((h + 1) % q) + j) % q = (h + (j + 1)) % q
  BY <1>3
<1>6. \A j \in 0..q : (h + j) % q \in 0..q - 1
  BY <1>2
<1>7. \A i, j \in 0..q - 1 : (h + i) % q = (h + j) % q => i = j
  BY <1>2
<1> QED
  BY <1>4, <1>5, <1>6, <1>7

-----------------------------------------------------------------------------
(***************************************************************************)
(* Counting                                                                *)
(***************************************************************************)

LEMMA Tools ==
  /\ IsFiniteSet(Cooks) /\ IsFiniteSet(Couriers) /\ IsFiniteSet(Producers)
  /\ Cooks \subseteq Producers /\ Producers \subseteq Threads /\ Couriers \subseteq Threads
  /\ Cooks \subseteq Threads /\ Main \in Producers /\ Main \in Threads
  /\ Producers = Cooks \cup {Main} /\ Main \notin Cooks /\ Main \notin Couriers
  /\ Producers \cap Couriers = {} /\ Cooks \cap Couriers = {} /\ Cooks # {}
  /\ N_tables \in Nat \ {0} /\ Cardinality(Couriers) \in Nat
  /\ (Cardinality(Couriers) = 0 <=> Couriers = {})
<1>1. IsFiniteSet(Producers)
  BY PizzaAssumption, FS_AddElement DEF Producers
<1>2. Cardinality(Couriers) \in Nat /\ (Cardinality(Couriers) = 0 <=> Couriers = {})
  BY PizzaAssumption, FS_CardinalityType, FS_EmptySet
<1> QED
  BY <1>1, <1>2, PizzaAssumption DEF Threads, Producers

LEMMA Signs == Poison \notin Pizzas /\ Nothing \notin Pizzas /\ Poison # Nothing
<1>1. \A v \in Pizzas : Len(v) = 2
  BY DEF Pizzas
<1>2. Poison # Nothing
  BY DEF Poison, Nothing
<1> QED
  BY <1>1, <1>2 DEF Poison, Nothing

LEMMA Capacity ==
  ASSUME TypeInv
  PROVE  queue_capacity \in Nat \ {0} /\ total_pizzas \in Nat
<1>1. PICK c \in Cooks : TRUE
  BY Tools
<1>2. portion \in [Cooks -> Nat] /\ portion[c] > 0
  BY <1>1 DEF TypeInv
<1>3. SumFunction(portion) \in Nat /\ SumFunction(portion) >= portion[c]
  BY <1>1, <1>2, Tools, SumAtLeast
<1> QED
  BY <1>1, <1>2, <1>3, Tools DEF queue_capacity, total_pizzas

LEMMA AtFinite ==
  ASSUME NEW D, IsFiniteSet(D)
  PROVE  \A L : /\ IsFiniteSet(At(pc, D, L)) /\ Cardinality(At(pc, D, L)) \in Nat
                /\ IsFiniteSet(At(pc', D, L)) /\ Cardinality(At(pc', D, L)) \in Nat
<1>1. \A L : At(pc, D, L) \subseteq D /\ At(pc', D, L) \subseteq D
  BY DEF At
<1> QED
  BY <1>1, FS_Subset, FS_CardinalityType

(* What a step of one thread does to the number of threads of D at L.      *)
LEMMA Counts ==
  ASSUME NEW D, D \subseteq Threads, IsFiniteSet(D),
         NEW t \in Threads, NEW from, NEW to, pc \in [Threads -> Labels], Goto(t, from, to)
  PROVE  \A L : Cardinality(At(pc', D, L))
                  = Cardinality(At(pc, D, L)) + Crossing(t \in D, from, to, L)
<1> TAKE L
<1>1. pc[t] = from /\ pc' = [pc EXCEPT ![t] = to]
  BY DEF Goto
<1>2. IsFiniteSet(At(pc, D, L)) /\ Cardinality(At(pc, D, L)) \in Nat
  BY AtFinite
<1>3. CASE t \in D /\ from \notin L /\ to \in L
  <2>1. At(pc', D, L) = At(pc, D, L) \cup {t} /\ t \notin At(pc, D, L)
    BY <1>1, <1>3 DEF At
  <2> QED
    BY <1>2, <1>3, <2>1, FS_AddElement DEF Crossing
<1>4. CASE t \in D /\ from \in L /\ to \notin L
  <2>1. At(pc', D, L) = At(pc, D, L) \ {t} /\ t \in At(pc, D, L)
    BY <1>1, <1>4 DEF At
  <2>2. Cardinality(At(pc', D, L)) = Cardinality(At(pc, D, L)) - 1
    BY <1>2, <2>1, FS_RemoveElement
  <2> QED
    BY <1>2, <1>4, <2>2 DEF Crossing
<1>5. CASE t \notin D \/ (from \in L <=> to \in L)
  <2>1. At(pc', D, L) = At(pc, D, L)
    BY <1>1, <1>5 DEF At
  <2> QED
    BY <1>2, <1>5, <2>1 DEF Crossing
<1> QED
  BY <1>3, <1>4, <1>5

(* The same for the sets of the semaphores and of QueueLen.                *)
LEMMA Moved ==
  ASSUME NEW t \in Threads, NEW from, NEW to, TypeInv, Goto(t, from, to)
  PROVE  \A L : /\ Cardinality(At(pc', Cooks, L))
                     = Cardinality(At(pc, Cooks, L)) + Crossing(t \in Cooks, from, to, L)
                /\ Cardinality(At(pc', Couriers, L))
                     = Cardinality(At(pc, Couriers, L)) + Crossing(t \in Couriers, from, to, L)
                /\ Cardinality(At(pc', Producers, L))
                     = Cardinality(At(pc, Producers, L)) + Crossing(t \in Producers, from, to, L)
                /\ Cardinality(At(pc, Cooks, L)) \in Nat
                /\ Cardinality(At(pc, Couriers, L)) \in Nat
                /\ Cardinality(At(pc, Producers, L)) \in Nat
  BY Tools, Counts, AtFinite DEF TypeInv

LEMMA LenMoved ==
  ASSUME NEW t \in Threads, NEW from, NEW to, TypeInv, Goto(t, from, to), items' \in Nat
  PROVE  QueueLen' = QueueLen + (items' - items) + Crossing(t \in Couriers, from, to, {"read"})
                      + Crossing(t \in Producers, from, to, {"post_item"})
<1>1. /\ items \in Nat
      /\ Crossing(t \in Couriers, from, to, {"read"}) \in Int
      /\ Crossing(t \in Producers, from, to, {"post_item"}) \in Int
  BY DEF TypeInv, Crossing
<1>2. ASSUME NEW r \in Nat, NEW w \in Nat, NEW i \in Int, NEW j \in Int,
             QueueLen = items + r + w, QueueLen' = items' + (r + i) + (w + j)
      PROVE  QueueLen' = QueueLen + (items' - items) + i + j
  BY <1>1, <1>2
<1> QED
  BY <1>1, <1>2, Moved DEF QueueLen

LEMMA LenType ==
  ASSUME IInv
  PROVE  /\ QueueLen \in Nat /\ QueueLen <= queue_capacity
         /\ At(pc, Producers, {"write"}) # {} => QueueLen < queue_capacity
         /\ At(pc, Couriers, {"read"}) # {} => QueueLen > 0
<1>1. /\ Cardinality(At(pc, Producers, {"write"})) \in Nat
      /\ Cardinality(At(pc, Producers, {"post_item"})) \in Nat
      /\ Cardinality(At(pc, Couriers, {"post_slot"})) \in Nat
      /\ Cardinality(At(pc, Couriers, {"read"})) \in Nat
      /\ At(pc, Producers, {"write"}) # {} => Cardinality(At(pc, Producers, {"write"})) # 0
      /\ At(pc, Couriers, {"read"}) # {} => Cardinality(At(pc, Couriers, {"read"})) # 0
  BY Tools, AtFinite, FS_EmptySet
<1>2. /\ items \in Nat /\ slots \in Nat /\ queue_capacity \in Nat
      /\ slots + QueueLen + Cardinality(At(pc, Producers, {"write"}))
           + Cardinality(At(pc, Couriers, {"post_slot"})) = queue_capacity
  BY Capacity DEF IInv, TypeInv, SemaphoresInv
<1>3. QueueLen \in Nat /\ (At(pc, Couriers, {"read"}) # {} => QueueLen > 0)
  <2>1. ASSUME NEW r \in Nat, NEW w \in Nat, QueueLen = items + r + w
        PROVE  QueueLen \in Nat /\ (r # 0 => QueueLen > 0)
    BY <1>2, <2>1
  <2> QED
    BY <1>1, <2>1 DEF QueueLen
<1> QED
  BY <1>1, <1>2, <1>3

LEMMA ReadyFinite ==
  ASSUME IInv
  PROVE  /\ IsFiniteSet(Ready) /\ Cardinality(Ready) \in Nat
         /\ IsFiniteSet(Carriers) /\ Cardinality(Carriers) \in Nat
<1>1. IsFiniteSet(0..QueueLen - 1)
  <2>1. 0 \in Int /\ QueueLen - 1 \in Int
    BY LenType
  <2> QED
    BY <2>1, FS_Interval
<1>2. Ready \subseteq 0..QueueLen - 1 /\ Carriers \subseteq Couriers
  BY DEF Ready, Carriers, At
<1> QED
  BY <1>1, <1>2, Tools, FS_Subset, FS_CardinalityType

LEMMA InitIInv == Init => IInv /\ Ready = {}
<1> SUFFICES ASSUME Init PROVE IInv /\ Ready = {}
  OBVIOUS
<1>1. /\ \A c \in Cooks : pc[c] = "table" /\ left[c] = portion[c]
      /\ \A k \in Couriers : pc[k] = "idle"
      /\ pc[Main] = "join_cooks" /\ left[Main] = Cardinality(Couriers)
      /\ pc \in [Threads -> Labels]
  BY Tools DEF Init, Threads, Labels, CookLabels, CourierLabels, MainLabels
<1>2. portion \in [Cooks -> Nat \ {0}]
  BY PizzaAssumption DEF Init
<1>3. queue_capacity \in Nat \ {0} /\ total_pizzas \in Nat
  <2>1. PICK c \in Cooks : TRUE
    BY Tools
  <2>2. portion \in [Cooks -> Nat] /\ portion[c] > 0
    BY <1>2, <2>1
  <2>3. SumFunction(portion) \in Nat /\ SumFunction(portion) >= portion[c]
    BY <2>1, <2>2, Tools, SumAtLeast
  <2> QED
    BY <2>1, <2>2, <2>3, Tools DEF queue_capacity, total_pizzas
<1>4. TypeInv
  <2>1. left \in [Producers -> Nat]
    BY <1>1, <1>2, Tools DEF Init
  <2>2. buf \in [0..queue_capacity - 1 -> Values] /\ holding \in [Couriers -> Values]
    BY DEF Init, Values
  <2> QED
    BY <1>1, <1>2, <1>3, <2>1, <2>2, Tools DEF Init, TypeInv
<1>5. PlacesInv
  BY <1>1, <1>2 DEF PlacesInv, CookLabels, CourierLabels, MainLabels, Pushing
<1>6. /\ At(pc, Cooks, {"push", "write", "post_item", "put_table"}) = {}
      /\ At(pc, Producers, {"write"}) = {} /\ At(pc, Producers, {"post_item"}) = {}
      /\ At(pc, Couriers, {"read"}) = {} /\ At(pc, Couriers, {"post_slot"}) = {}
      /\ At(pc, Couriers, {"post_slot", "deliver"}) = {}
  BY <1>1, Tools DEF At
<1>7. /\ Cardinality(At(pc, Cooks, {"push", "write", "post_item", "put_table"})) = 0
      /\ Cardinality(At(pc, Producers, {"write"})) = 0
      /\ Cardinality(At(pc, Producers, {"post_item"})) = 0
      /\ Cardinality(At(pc, Couriers, {"read"})) = 0
      /\ Cardinality(At(pc, Couriers, {"post_slot"})) = 0
  BY <1>6, FS_EmptySet
<1>8. QueueLen = 0 /\ 0..QueueLen - 1 = {}
  <2>1. QueueLen = 0
    BY <1>7 DEF Init, QueueLen
  <2> QED
    BY <2>1
<1>9. SemaphoresInv
  BY <1>3, <1>7, <1>8, Tools DEF Init, SemaphoresInv
<1>10. RingInv
  <2>1. 0 % queue_capacity = 0
    BY <1>3, Mod
  <2> QED
    BY <1>8, <2>1 DEF Init, RingInv
<1>11. unclaimed = portion /\ unbaked = portion
  BY <1>1, <1>2 DEF unclaimed, Unclaimed, unbaked
<1>12. RoomInv
  BY <1>1, <1>3, <1>11, Tools DEF RoomInv, Unclaimed, Init, queue_capacity, total_pizzas
<1>13. Ready = {} /\ Carriers = {}
  BY <1>6, <1>8 DEF Ready, Carriers
<1>14. PizzasExact
  BY <1>3, <1>11, <1>13, FS_EmptySet DEF Init, PizzasExact, total_pizzas
<1>15. DistinctInv /\ PoisonInv
  BY <1>8, <1>13 DEF DistinctInv, PoisonInv
<1> QED
  BY <1>4, <1>5, <1>9, <1>10, <1>12, <1>13, <1>14, <1>15 DEF IInv

-----------------------------------------------------------------------------
(***************************************************************************)
(* The steps                                                               *)
(***************************************************************************)

(* What a step that leaves the ring alone keeps.                           *)
LEMMA Quiet ==
  ASSUME IInv, UNCHANGED <<portion, buf, head, tail, holding>>,
         QueueLen' = QueueLen, unbaked' = unbaked, Carriers' \subseteq Carriers,
         pc[Main] # "join_cooks" => pc'[Main] # "join_cooks"
  PROVE  /\ RingInv' /\ DistinctInv' /\ PoisonInv'
         /\ Ready' = Ready
         /\ queue_capacity' = queue_capacity /\ total_pizzas' = total_pizzas
         /\ Carriers' = Carriers /\ delivered_total' = delivered_total => PizzasExact'
<1>1. queue_capacity' = queue_capacity /\ total_pizzas' = total_pizzas
  BY DEF queue_capacity, total_pizzas
<1>2. \A j \in 0..QueueLen - 1 : Cell(j)' = Cell(j)
  BY <1>1 DEF Cell, Place
<1>3. Ready' = Ready
  BY <1>2 DEF Ready, Cell
<1>4. RingInv'
  BY <1>1, <1>2 DEF IInv, RingInv
<1>5. \A v : Baked(v) => Baked(v)'
  BY DEF Baked
<1>6. Ready \subseteq 0..QueueLen - 1
  BY DEF Ready
<1>7. DistinctInv'
  <2>1. \A j \in Ready : Cell(j)' = Cell(j)
    BY <1>2, <1>6
  <2> QED
    BY <1>3, <1>5, <2>1 DEF IInv, DistinctInv
<1>8. PoisonInv'
  <2>1. ASSUME NEW i \in 0..QueueLen - 1, Cell(i)' = Poison
        PROVE  pc'[Main] # "join_cooks" /\ \A j \in i..QueueLen - 1 : Cell(j)' = Poison
    BY <1>2, <2>1, LenType DEF IInv, PoisonInv
  <2> QED
    BY <2>1 DEF PoisonInv
<1>9. Carriers' = Carriers /\ delivered_total' = delivered_total => PizzasExact'
  BY <1>1, <1>3 DEF IInv, PizzasExact
<1> QED
  BY <1>1, <1>3, <1>4, <1>7, <1>8, <1>9

LEMMA PcMove ==
  ASSUME TypeInv, NEW t \in Threads, NEW from, NEW to \in Labels, Goto(t, from, to)
  PROVE  /\ pc[t] = from /\ pc'[t] = to /\ pc' \in [Threads -> Labels]
         /\ \A u \in Threads : u # t => pc'[u] = pc[u]
  BY DEF TypeInv, Goto

(* A step of a producer that is not a push leaves the couriers' hands.     *)
LEMMA Hands ==
  ASSUME TypeInv, NEW t \in Producers, NEW from, NEW to \in Labels, Goto(t, from, to),
         holding' = holding
  PROVE  Carriers' = Carriers
<1>1. \A k \in Couriers : pc'[k] = pc[k]
  BY Tools, PcMove
<1> QED
  BY <1>1 DEF Carriers, At

LEMMA Numbers ==
  ASSUME TypeInv, PlacesInv
  PROVE  /\ unclaimed \in [Cooks -> Nat] /\ unclaimed \in [Cooks -> Int]
         /\ SumFunction(unclaimed) \in Nat
         /\ unbaked \in [Cooks -> Nat] /\ unbaked \in [Cooks -> Int]
         /\ SumFunction(unbaked) \in Nat
         /\ Unclaimed(Main) \in Nat
         /\ \A p \in Producers : pc[p] \in Pushing => left[p] > 0
<1>1. \A p \in Producers : left[p] \in Nat /\ (pc[p] \in Pushing => left[p] > 0)
  BY Tools DEF TypeInv, PlacesInv
<1>2. \A p \in Producers : Unclaimed(p) \in Nat
  BY <1>1 DEF Unclaimed, Pushing
<1>3. unclaimed \in [Cooks -> Nat] /\ Unclaimed(Main) \in Nat
  BY <1>2, Tools DEF unclaimed
<1>4. unbaked \in [Cooks -> Nat]
  BY <1>1, Tools DEF unbaked, Pushing
<1> QED
  BY <1>1, <1>3, <1>4, Tools, SumNat

LEMMA TakeTableStep ==
  ASSUME IInv, NEW c \in Cooks, TakeTable(c)
  PROVE  IInv' /\ Ready' = Ready /\ unbaked' = unbaked
<1>1. /\ TypeInv /\ PlacesInv /\ SemaphoresInv /\ RoomInv
      /\ c \in Threads /\ c \in Producers /\ c \notin Couriers /\ c # Main
      /\ Goto(c, "table", "push") /\ tables > 0 /\ tables' = tables - 1
      /\ UNCHANGED <<portion, left, slots, items, queue, holding, delivered_total>>
  BY Tools DEF IInv, TakeTable
<1>2. /\ pc[c] = "table" /\ pc'[c] = "push" /\ pc' \in [Threads -> Labels]
      /\ \A u \in Threads : u # c => pc'[u] = pc[u]
  BY <1>1, PcMove DEF Labels, CookLabels
<1>3. queue_capacity' = queue_capacity
  BY <1>1 DEF queue_capacity, total_pizzas
<1>4. TypeInv'
  BY <1>1, <1>2, <1>3 DEF TypeInv, queue
<1>5. PlacesInv'
  BY <1>1, <1>2, Tools DEF PlacesInv, CookLabels, Pushing
<1>6. QueueLen' = QueueLen
  BY <1>1, LenMoved, LenType DEF Crossing, TypeInv
<1>7. SemaphoresInv'
  <2>1. Cardinality(At(pc', Cooks, {"push", "write", "post_item", "put_table"}))
          = Cardinality(At(pc, Cooks, {"push", "write", "post_item", "put_table"})) + 1
    BY <1>1, Moved DEF Crossing
  <2>2. /\ Cardinality(At(pc', Producers, {"write"})) = Cardinality(At(pc, Producers, {"write"}))
        /\ Cardinality(At(pc', Couriers, {"post_slot"}))
             = Cardinality(At(pc, Couriers, {"post_slot"}))
    BY <1>1, Moved DEF Crossing
  <2>3. Cardinality(At(pc, Cooks, {"push", "write", "post_item", "put_table"})) \in Nat
    BY Tools, AtFinite
  <2> QED
    BY <1>1, <1>3, <1>6, <2>1, <2>2, <2>3, Tools DEF SemaphoresInv, TypeInv
<1>8. unbaked' = unbaked /\ unclaimed' = unclaimed /\ Unclaimed(Main)' = Unclaimed(Main)
  BY <1>1, <1>2, Tools DEF unbaked, unclaimed, Unclaimed
<1>9. RoomInv'
  BY <1>1, <1>8 DEF RoomInv
<1>10. Carriers' = Carriers
  BY <1>1, Hands DEF Labels, CookLabels
<1>11. RingInv' /\ DistinctInv' /\ PoisonInv' /\ PizzasExact' /\ Ready' = Ready
  BY <1>1, <1>2, <1>6, <1>8, <1>10, Quiet, Tools DEF queue
<1> QED
  BY <1>4, <1>5, <1>7, <1>8, <1>9, <1>11 DEF IInv

LEMMA TakeSlotStep ==
  ASSUME IInv, NEW p \in Producers, TakeSlot(p)
  PROVE  IInv' /\ Ready' = Ready /\ unbaked' = unbaked
<1>1. /\ TypeInv /\ PlacesInv /\ SemaphoresInv /\ RoomInv
      /\ p \in Threads /\ p \notin Couriers /\ (p \in Cooks \/ p = Main)
      /\ Goto(p, "push", "write") /\ slots > 0 /\ slots' = slots - 1
      /\ UNCHANGED <<portion, left, tables, items, queue, holding, delivered_total>>
  BY Tools DEF IInv, TakeSlot
<1>2. /\ pc[p] = "push" /\ pc'[p] = "write" /\ pc' \in [Threads -> Labels]
      /\ \A u \in Threads : u # p => pc'[u] = pc[u]
  BY <1>1, PcMove DEF Labels, CookLabels
<1>3. queue_capacity' = queue_capacity
  BY <1>1 DEF queue_capacity, total_pizzas
<1>4. TypeInv'
  BY <1>1, <1>2, <1>3 DEF TypeInv, queue
<1>5. PlacesInv'
  BY <1>1, <1>2, Tools DEF PlacesInv, CookLabels, MainLabels, Pushing
<1>6. QueueLen' = QueueLen
  BY <1>1, LenMoved, LenType DEF Crossing, TypeInv
<1>7. SemaphoresInv'
  <2>1. /\ Cardinality(At(pc', Cooks, {"push", "write", "post_item", "put_table"}))
             = Cardinality(At(pc, Cooks, {"push", "write", "post_item", "put_table"}))
        /\ Cardinality(At(pc', Couriers, {"post_slot"}))
             = Cardinality(At(pc, Couriers, {"post_slot"}))
    BY <1>1, Moved DEF Crossing
  <2>2. Cardinality(At(pc', Producers, {"write"})) = Cardinality(At(pc, Producers, {"write"})) + 1
    BY <1>1, Moved DEF Crossing
  <2>3. /\ Cardinality(At(pc, Producers, {"write"})) \in Nat
        /\ Cardinality(At(pc, Couriers, {"post_slot"})) \in Nat /\ QueueLen \in Nat
    BY Tools, AtFinite, LenType
  <2> QED
    BY <1>1, <1>3, <1>6, <2>1, <2>2, <2>3, Tools DEF SemaphoresInv, TypeInv
<1>8. RoomInv'
  <2>1. unclaimed \in [Cooks -> Int] /\ Unclaimed(Main) \in Int /\ left[p] \in Nat
    BY <1>1, Numbers DEF TypeInv
  <2>2. SumFunction(unclaimed) \in Int
    BY <1>1, Numbers
  <2>3. CASE p \in Cooks
    <3>1. /\ unclaimed' \in [Cooks -> Int] /\ unclaimed'[p] = unclaimed[p] - 1
          /\ \A c \in Cooks : c # p => unclaimed'[c] = unclaimed[c]
      BY <1>1, <1>2, <2>1, <2>3, Tools DEF unclaimed, Unclaimed, TypeInv
    <3>2. SumFunction(unclaimed') = SumFunction(unclaimed) - 1
      BY <2>1, <2>3, <3>1, Tools, SumDown
    <3>3. Unclaimed(Main)' = Unclaimed(Main)
      BY <1>1, <1>2, <2>3, Tools DEF Unclaimed
    <3> QED
      BY <1>1, <2>1, <2>2, <3>2, <3>3 DEF RoomInv, TypeInv
  <2>4. CASE p = Main
    <3>1. unclaimed' = unclaimed
      BY <1>1, <1>2, <2>4, Tools DEF unclaimed, Unclaimed
    <3>2. Unclaimed(Main) = left[p] /\ Unclaimed(Main)' = left[p] - 1
      BY <1>1, <1>2, <2>4 DEF Unclaimed
    <3> QED
      BY <1>1, <2>1, <2>2, <3>1, <3>2 DEF RoomInv, TypeInv
  <2> QED
    BY <1>1, <2>3, <2>4
<1>9. unbaked' = unbaked
  BY <1>1, <1>2, Tools DEF unbaked
<1>10. Carriers' = Carriers
  BY <1>1, Hands DEF Labels, CookLabels
<1>11. RingInv' /\ DistinctInv' /\ PoisonInv' /\ PizzasExact' /\ Ready' = Ready
  BY <1>1, <1>2, <1>6, <1>9, <1>10, Quiet, Tools DEF queue
<1> QED
  BY <1>4, <1>5, <1>7, <1>8, <1>9, <1>11 DEF IInv

LEMMA PostItemStep ==
  ASSUME IInv, NEW p \in Producers, PostItem(p)
  PROVE  IInv' /\ Ready' = Ready /\ unbaked' = unbaked
<1> DEFINE to == AfterPush(p)
<1>1. /\ TypeInv /\ PlacesInv /\ SemaphoresInv /\ RoomInv
      /\ p \in Threads /\ p \notin Couriers /\ (p \in Cooks \/ p = Main)
      /\ Goto(p, "post_item", to) /\ items' = items + 1 /\ items' \in Nat
      /\ left' = [left EXCEPT ![p] = @ - 1]
      /\ UNCHANGED <<portion, tables, slots, queue, holding, delivered_total>>
  BY Tools DEF IInv, PostItem, TypeInv
<1>2. /\ p \in Cooks => p # Main /\ to = "put_table"
      /\ p = Main => p \notin Cooks /\ to = IF left[p] > 1 THEN "push" ELSE "join_couriers"
      /\ to \in {"put_table", "push", "join_couriers"}
  BY <1>1, Tools DEF AfterPush
<1> HIDE DEF to
<1>3. /\ pc[p] = "post_item" /\ pc'[p] = to /\ pc' \in [Threads -> Labels]
      /\ \A u \in Threads : u # p => pc'[u] = pc[u]
  BY <1>1, <1>2, PcMove DEF Labels, CookLabels, MainLabels
<1>4. /\ left[p] \in Nat /\ left[p] > 0 /\ left'[p] = left[p] - 1
      /\ \A q \in Producers : q # p => left'[q] = left[q]
      /\ left' \in [Producers -> Nat]
  BY <1>1, <1>3, Numbers DEF TypeInv, Pushing
<1>5. queue_capacity' = queue_capacity
  BY <1>1 DEF queue_capacity, total_pizzas
<1>6. TypeInv'
  BY <1>1, <1>3, <1>4, <1>5 DEF TypeInv, queue
<1>7. PlacesInv'
  <2>1. CASE p \in Cooks
    <3>1. \A c \in Cooks : left[c] \in Nat /\ portion[c] \in Nat
      BY <1>1, Tools DEF TypeInv
    <3> QED
      BY <1>1, <1>2, <1>3, <1>4, <2>1, <3>1, Tools DEF PlacesInv, CookLabels, Pushing
  <2>2. CASE p = Main
    BY <1>1, <1>2, <1>3, <1>4, <2>2, Tools DEF PlacesInv, MainLabels, Pushing
  <2> QED
    BY <1>1, <2>1, <2>2
<1>8. QueueLen' = QueueLen
  <2>1. /\ Crossing(p \in Couriers, "post_item", to, {"read"}) = 0
        /\ Crossing(p \in Producers, "post_item", to, {"post_item"}) = -1
    BY <1>1, <1>2 DEF Crossing
  <2>2. QueueLen \in Nat /\ items \in Nat
    BY <1>1, LenType DEF TypeInv
  <2> QED
    BY <1>1, <2>1, <2>2, LenMoved
<1>9. SemaphoresInv'
  <2>1. /\ Cardinality(At(pc', Cooks, {"push", "write", "post_item", "put_table"}))
             = Cardinality(At(pc, Cooks, {"push", "write", "post_item", "put_table"}))
        /\ Cardinality(At(pc', Producers, {"write"})) = Cardinality(At(pc, Producers, {"write"}))
        /\ Cardinality(At(pc', Couriers, {"post_slot"}))
             = Cardinality(At(pc, Couriers, {"post_slot"}))
    BY <1>1, <1>2, Moved DEF Crossing
  <2> QED
    BY <1>1, <1>5, <1>8, <2>1 DEF SemaphoresInv
<1>10. unbaked' = unbaked /\ unclaimed' = unclaimed /\ Unclaimed(Main)' = Unclaimed(Main)
  BY <1>2, <1>3, <1>4, Tools DEF unbaked, unclaimed, Unclaimed
<1>11. RoomInv'
  BY <1>1, <1>10 DEF RoomInv
<1>12. Carriers' = Carriers
  BY <1>1, <1>2, Hands DEF Labels, CookLabels, MainLabels
<1>13. RingInv' /\ DistinctInv' /\ PoisonInv' /\ PizzasExact' /\ Ready' = Ready
  <2>1. pc[Main] # "join_cooks" => pc'[Main] # "join_cooks"
    BY <1>2, <1>3, Tools
  <2> QED
    BY <1>1, <1>8, <1>10, <1>12, <2>1, Quiet DEF queue
<1> QED
  BY <1>6, <1>7, <1>9, <1>10, <1>11, <1>13 DEF IInv

LEMMA PutTableStep ==
  ASSUME IInv, NEW c \in Cooks, PutTable(c)
  PROVE  IInv' /\ Ready' = Ready /\ unbaked' = unbaked
<1> DEFINE to == IF left[c] > 0 THEN "table" ELSE "done"
<1>1. /\ TypeInv /\ PlacesInv /\ SemaphoresInv /\ RoomInv
      /\ c \in Threads /\ c \in Producers /\ c \notin Couriers /\ c # Main
      /\ Goto(c, "put_table", to) /\ tables' = tables + 1 /\ left[c] \in Nat
      /\ UNCHANGED <<portion, left, slots, items, queue, holding, delivered_total>>
  BY Tools DEF IInv, PutTable, TypeInv
<1>2. to \in {"table", "done"} /\ (to = "done" <=> left[c] = 0)
  BY <1>1
<1> HIDE DEF to
<1>3. /\ pc[c] = "put_table" /\ pc'[c] = to /\ pc' \in [Threads -> Labels]
      /\ \A u \in Threads : u # c => pc'[u] = pc[u]
  BY <1>1, <1>2, PcMove DEF Labels, CookLabels
<1>4. queue_capacity' = queue_capacity
  BY <1>1 DEF queue_capacity, total_pizzas
<1>5. TypeInv'
  BY <1>1, <1>3, <1>4 DEF TypeInv, queue
<1>6. PlacesInv'
  BY <1>1, <1>2, <1>3, Tools DEF PlacesInv, CookLabels, Pushing
<1>7. QueueLen' = QueueLen
  BY <1>1, <1>2, LenMoved, LenType DEF Crossing, TypeInv
<1>8. SemaphoresInv'
  <2>1. Cardinality(At(pc', Cooks, {"push", "write", "post_item", "put_table"}))
          = Cardinality(At(pc, Cooks, {"push", "write", "post_item", "put_table"})) - 1
    BY <1>1, <1>2, Moved DEF Crossing
  <2>2. /\ Cardinality(At(pc', Producers, {"write"})) = Cardinality(At(pc, Producers, {"write"}))
        /\ Cardinality(At(pc', Couriers, {"post_slot"}))
             = Cardinality(At(pc, Couriers, {"post_slot"}))
    BY <1>1, <1>2, Moved DEF Crossing
  <2>3. Cardinality(At(pc, Cooks, {"push", "write", "post_item", "put_table"})) \in Nat
    BY Tools, AtFinite
  <2> QED
    BY <1>1, <1>4, <1>7, <2>1, <2>2, <2>3, Tools DEF SemaphoresInv, TypeInv
<1>9. unbaked' = unbaked /\ unclaimed' = unclaimed /\ Unclaimed(Main)' = Unclaimed(Main)
  BY <1>1, <1>2, <1>3, Tools DEF unbaked, unclaimed, Unclaimed
<1>10. RoomInv'
  BY <1>1, <1>9 DEF RoomInv
<1>11. Carriers' = Carriers
  BY <1>1, <1>2, Hands DEF Labels, CookLabels
<1>12. RingInv' /\ DistinctInv' /\ PoisonInv' /\ PizzasExact' /\ Ready' = Ready
  BY <1>1, <1>3, <1>7, <1>9, <1>11, Quiet, Tools DEF queue
<1> QED
  BY <1>5, <1>6, <1>8, <1>9, <1>10, <1>12 DEF IInv

LEMMA TakeItemStep ==
  ASSUME IInv, NEW k \in Couriers, TakeItem(k)
  PROVE  IInv' /\ Ready' = Ready /\ unbaked' = unbaked
<1>1. /\ TypeInv /\ PlacesInv /\ SemaphoresInv /\ RoomInv
      /\ k \in Threads /\ k \notin Producers /\ k \notin Cooks /\ k # Main
      /\ Goto(k, "idle", "read") /\ items > 0 /\ items' = items - 1 /\ items' \in Nat
      /\ UNCHANGED <<portion, left, tables, slots, queue, holding, delivered_total>>
  BY Tools DEF IInv, TakeItem, TypeInv
<1>2. /\ pc[k] = "idle" /\ pc'[k] = "read" /\ pc' \in [Threads -> Labels]
      /\ \A u \in Threads : u # k => pc'[u] = pc[u]
  BY <1>1, PcMove DEF Labels, CourierLabels
<1>3. queue_capacity' = queue_capacity
  BY <1>1 DEF queue_capacity, total_pizzas
<1>4. TypeInv'
  BY <1>1, <1>2, <1>3 DEF TypeInv, queue
<1>5. PlacesInv'
  BY <1>1, <1>2, Tools DEF PlacesInv, CourierLabels
<1>6. QueueLen' = QueueLen
  BY <1>1, LenMoved, LenType DEF Crossing, TypeInv
<1>7. SemaphoresInv'
  <2>1. /\ Cardinality(At(pc', Cooks, {"push", "write", "post_item", "put_table"}))
             = Cardinality(At(pc, Cooks, {"push", "write", "post_item", "put_table"}))
        /\ Cardinality(At(pc', Producers, {"write"})) = Cardinality(At(pc, Producers, {"write"}))
        /\ Cardinality(At(pc', Couriers, {"post_slot"}))
             = Cardinality(At(pc, Couriers, {"post_slot"}))
    BY <1>1, Moved DEF Crossing
  <2> QED
    BY <1>1, <1>3, <1>6, <2>1 DEF SemaphoresInv
<1>8. unbaked' = unbaked /\ unclaimed' = unclaimed /\ Unclaimed(Main)' = Unclaimed(Main)
  BY <1>1, <1>2, Tools DEF unbaked, unclaimed, Unclaimed
<1>9. RoomInv'
  BY <1>1, <1>8 DEF RoomInv
<1>10. Carriers' = Carriers
  BY <1>1, <1>2, Tools DEF Carriers, At
<1>11. RingInv' /\ DistinctInv' /\ PoisonInv' /\ PizzasExact' /\ Ready' = Ready
  BY <1>1, <1>2, <1>6, <1>8, <1>10, Quiet, Tools DEF queue
<1> QED
  BY <1>4, <1>5, <1>7, <1>8, <1>9, <1>11 DEF IInv

LEMMA PostSlotStep ==
  ASSUME IInv, NEW k \in Couriers, PostSlot(k)
  PROVE  IInv' /\ Ready' = Ready /\ unbaked' = unbaked
<1> DEFINE to == IF holding[k] = Poison THEN "done" ELSE "deliver"
<1>1. /\ TypeInv /\ PlacesInv /\ SemaphoresInv /\ RoomInv
      /\ k \in Threads /\ k \notin Producers /\ k \notin Cooks /\ k # Main
      /\ Goto(k, "post_slot", to) /\ slots' = slots + 1
      /\ UNCHANGED <<portion, left, tables, items, queue, holding, delivered_total>>
  BY Tools DEF IInv, PostSlot
<1>2. to \in {"done", "deliver"} /\ (to = "done" <=> holding[k] = Poison)
  OBVIOUS
<1> HIDE DEF to
<1>3. /\ pc[k] = "post_slot" /\ pc'[k] = to /\ pc' \in [Threads -> Labels]
      /\ \A u \in Threads : u # k => pc'[u] = pc[u]
  BY <1>1, <1>2, PcMove DEF Labels, CourierLabels
<1>4. queue_capacity' = queue_capacity
  BY <1>1 DEF queue_capacity, total_pizzas
<1>5. TypeInv'
  BY <1>1, <1>3, <1>4 DEF TypeInv, queue
<1>6. PlacesInv'
  BY <1>1, <1>2, <1>3, Tools DEF PlacesInv, CourierLabels
<1>7. QueueLen' = QueueLen
  BY <1>1, <1>2, LenMoved, LenType DEF Crossing, TypeInv
<1>8. SemaphoresInv'
  <2>1. /\ Cardinality(At(pc', Cooks, {"push", "write", "post_item", "put_table"}))
             = Cardinality(At(pc, Cooks, {"push", "write", "post_item", "put_table"}))
        /\ Cardinality(At(pc', Producers, {"write"})) = Cardinality(At(pc, Producers, {"write"}))
    BY <1>1, <1>2, Moved DEF Crossing
  <2>2. Cardinality(At(pc', Couriers, {"post_slot"}))
          = Cardinality(At(pc, Couriers, {"post_slot"})) - 1
    BY <1>1, <1>2, Moved DEF Crossing
  <2>3. /\ Cardinality(At(pc, Producers, {"write"})) \in Nat
        /\ Cardinality(At(pc, Couriers, {"post_slot"})) \in Nat /\ QueueLen \in Nat
    BY Tools, AtFinite, LenType
  <2> QED
    BY <1>1, <1>4, <1>7, <2>1, <2>2, <2>3, Tools DEF SemaphoresInv, TypeInv
<1>9. unbaked' = unbaked /\ unclaimed' = unclaimed /\ Unclaimed(Main)' = Unclaimed(Main)
  BY <1>1, <1>3, Tools DEF unbaked, unclaimed, Unclaimed
<1>10. RoomInv'
  BY <1>1, <1>9, Numbers DEF RoomInv, TypeInv
<1>11. Carriers' = Carriers
  BY <1>1, <1>2, <1>3, Tools DEF Carriers, At
<1>12. RingInv' /\ DistinctInv' /\ PoisonInv' /\ PizzasExact' /\ Ready' = Ready
  BY <1>1, <1>3, <1>7, <1>9, <1>11, Quiet, Tools DEF queue
<1> QED
  BY <1>5, <1>6, <1>8, <1>9, <1>10, <1>12 DEF IInv

LEMMA DeliverStep ==
  ASSUME IInv, NEW k \in Couriers, Deliver(k)
  PROVE  IInv' /\ Ready' = Ready /\ unbaked' = unbaked
<1>1. /\ TypeInv /\ PlacesInv /\ SemaphoresInv /\ RoomInv /\ PizzasExact
      /\ k \in Threads /\ k \notin Producers /\ k \notin Cooks /\ k # Main
      /\ Goto(k, "deliver", "idle") /\ delivered_total' = delivered_total + 1
      /\ UNCHANGED <<portion, left, tables, slots, items, queue, holding>>
  BY Tools DEF IInv, Deliver
<1>2. /\ pc[k] = "deliver" /\ pc'[k] = "idle" /\ pc' \in [Threads -> Labels]
      /\ \A u \in Threads : u # k => pc'[u] = pc[u]
  BY <1>1, PcMove DEF Labels, CourierLabels
<1>3. queue_capacity' = queue_capacity /\ total_pizzas' = total_pizzas
  BY <1>1 DEF queue_capacity, total_pizzas
<1>4. TypeInv'
  BY <1>1, <1>2, <1>3 DEF TypeInv, queue
<1>5. PlacesInv'
  BY <1>1, <1>2, Tools DEF PlacesInv, CourierLabels
<1>6. QueueLen' = QueueLen
  BY <1>1, LenMoved, LenType DEF Crossing, TypeInv
<1>7. SemaphoresInv'
  <2>1. /\ Cardinality(At(pc', Cooks, {"push", "write", "post_item", "put_table"}))
             = Cardinality(At(pc, Cooks, {"push", "write", "post_item", "put_table"}))
        /\ Cardinality(At(pc', Producers, {"write"})) = Cardinality(At(pc, Producers, {"write"}))
        /\ Cardinality(At(pc', Couriers, {"post_slot"}))
             = Cardinality(At(pc, Couriers, {"post_slot"}))
    BY <1>1, Moved DEF Crossing
  <2> QED
    BY <1>1, <1>3, <1>6, <2>1 DEF SemaphoresInv
<1>8. unbaked' = unbaked /\ unclaimed' = unclaimed /\ Unclaimed(Main)' = Unclaimed(Main)
  BY <1>1, <1>2, Tools DEF unbaked, unclaimed, Unclaimed
<1>9. RoomInv'
  BY <1>1, <1>8 DEF RoomInv
<1>10. /\ Carriers' = Carriers \ {k} /\ k \in Carriers
       /\ Cardinality(Carriers') = Cardinality(Carriers) - 1 /\ Cardinality(Carriers) \in Nat
  <2>1. holding[k] # Poison
    BY <1>1, <1>2 DEF PlacesInv
  <2>2. Carriers' = Carriers \ {k} /\ k \in Carriers
    BY <1>1, <1>2, <2>1, Tools DEF Carriers, At
  <2>3. IsFiniteSet(Carriers)
    BY Tools, FS_Subset DEF Carriers, At
  <2> QED
    BY <2>2, <2>3, FS_RemoveElement, FS_CardinalityType
<1>11. RingInv' /\ DistinctInv' /\ PoisonInv' /\ Ready' = Ready
  BY <1>1, <1>2, <1>6, <1>8, <1>10, Quiet, Tools DEF queue
<1>12. PizzasExact'
  <2>1. SumFunction(unbaked) \in Nat /\ Cardinality(Ready) \in Nat /\ delivered_total \in Nat
    BY <1>1, ReadyFinite, Numbers DEF TypeInv
  <2>2. \A i, j \in Carriers' : holding'[i] = holding'[j] => i = j
    BY <1>1, <1>10 DEF PizzasExact
  <2> QED
    BY <1>1, <1>3, <1>8, <1>10, <1>11, <2>1, <2>2 DEF PizzasExact
<1> QED
  BY <1>4, <1>5, <1>7, <1>8, <1>9, <1>11, <1>12 DEF IInv

LEMMA JoinStep ==
  ASSUME IInv, JoinCooks \/ JoinCouriers
  PROVE  IInv' /\ Ready' = Ready /\ unbaked' = unbaked
<1>1. PICK from \in {"join_cooks", "join_couriers"}, to \in {"join_couriers", "push", "done"} :
        /\ Goto(Main, from, to)
        /\ from = "join_cooks" => \A c \in Cooks : pc[c] = "done"
        /\ to = "push" => from = "join_cooks" /\ Couriers # {}
  BY DEF JoinCooks, JoinCouriers
<1>2. /\ TypeInv /\ PlacesInv /\ SemaphoresInv /\ RoomInv
      /\ UNCHANGED <<portion, left, tables, slots, items, queue, holding, delivered_total>>
  BY DEF IInv, JoinCooks, JoinCouriers
<1>3. /\ pc[Main] = from /\ pc'[Main] = to /\ pc' \in [Threads -> Labels]
      /\ \A u \in Threads : u # Main => pc'[u] = pc[u]
  BY <1>1, <1>2, PcMove, Tools DEF Labels, MainLabels
<1>4. queue_capacity' = queue_capacity
  BY <1>2 DEF queue_capacity, total_pizzas
<1>5. TypeInv'
  BY <1>2, <1>3, <1>4 DEF TypeInv, queue
<1>6. PlacesInv'
  BY <1>1, <1>2, <1>3, Tools DEF PlacesInv, MainLabels, Pushing
<1>7. QueueLen' = QueueLen
  BY <1>1, <1>2, LenMoved, LenType, Tools DEF Crossing, TypeInv
<1>8. SemaphoresInv'
  <2>1. /\ Cardinality(At(pc', Cooks, {"push", "write", "post_item", "put_table"}))
             = Cardinality(At(pc, Cooks, {"push", "write", "post_item", "put_table"}))
        /\ Cardinality(At(pc', Producers, {"write"})) = Cardinality(At(pc, Producers, {"write"}))
        /\ Cardinality(At(pc', Couriers, {"post_slot"}))
             = Cardinality(At(pc, Couriers, {"post_slot"}))
    BY <1>1, <1>2, Moved, Tools DEF Crossing
  <2> QED
    BY <1>2, <1>4, <1>7, <2>1 DEF SemaphoresInv
<1>9. unbaked' = unbaked /\ unclaimed' = unclaimed /\ Unclaimed(Main)' = Unclaimed(Main)
  BY <1>1, <1>2, <1>3, Tools DEF unbaked, unclaimed, Unclaimed
<1>10. RoomInv'
  BY <1>2, <1>9 DEF RoomInv
<1>11. Carriers' = Carriers
  BY <1>1, <1>2, Hands, Tools DEF Labels, MainLabels
<1>12. RingInv' /\ DistinctInv' /\ PoisonInv' /\ PizzasExact' /\ Ready' = Ready
  BY <1>1, <1>2, <1>3, <1>7, <1>9, <1>11, Quiet, Tools DEF queue
<1> QED
  BY <1>5, <1>6, <1>8, <1>9, <1>10, <1>12 DEF IInv

(* The ring after a write: one cell more, and the older ones as they were. *)
LEMMA Written ==
  ASSUME IInv, NEW p \in Producers, NEW value, Write(p, value),
         NEW n, n = QueueLen, value \in Values
  PROVE  /\ n \in Nat /\ n < queue_capacity /\ QueueLen' = n + 1
         /\ queue_capacity' = queue_capacity
         /\ buf' \in [0..queue_capacity - 1 -> Values] /\ tail' \in 0..queue_capacity - 1
         /\ (head + (n + 1)) % queue_capacity = tail'
         /\ \A j \in 0..n - 1 : Cell(j)' = Cell(j)
         /\ Cell(n)' = value
<1>1. /\ TypeInv /\ RingInv /\ p \in Threads /\ p \notin Couriers
      /\ Goto(p, "write", "post_item") /\ pc[p] = "write"
      /\ buf' = [buf EXCEPT ![tail] = value] /\ tail' = (tail + 1) % queue_capacity
      /\ head' = head /\ items' = items /\ items' \in Nat /\ portion' = portion
  BY Tools DEF IInv, Write, Goto, TypeInv
<1>2. queue_capacity \in Nat \ {0} /\ queue_capacity' = queue_capacity
  BY <1>1, Capacity DEF queue_capacity, total_pizzas
<1>3. n \in Nat /\ n < queue_capacity
  <2>1. At(pc, Producers, {"write"}) # {}
    BY <1>1 DEF At
  <2> QED
    BY <2>1, LenType
<1>4. QueueLen' = n + 1
  <2>1. /\ Crossing(p \in Couriers, "write", "post_item", {"read"}) = 0
        /\ Crossing(p \in Producers, "write", "post_item", {"post_item"}) = 1
    BY <1>1 DEF Crossing
  <2> QED
    BY <1>1, <1>3, <2>1, LenMoved DEF TypeInv
<1>5. tail = (head + n) % queue_capacity /\ tail \in 0..queue_capacity - 1
  BY <1>1 DEF RingInv, TypeInv
<1>6. head \in 0..queue_capacity - 1 /\ n \in 0..queue_capacity - 1 /\ n + 1 \in 0..queue_capacity
  BY <1>1, <1>2, <1>3 DEF TypeInv
<1>7. /\ \A j \in 0..n - 1 : j \in 0..queue_capacity - 1 /\ j # n
      /\ \A j \in 0..queue_capacity : (head + j) % queue_capacity \in 0..queue_capacity - 1
  BY <1>2, <1>3, <1>6, Around
<1>8. \A j \in 0..n - 1 : (head + j) % queue_capacity # tail
  BY <1>2, <1>5, <1>6, <1>7, Around
<1>9. tail' = (head + (n + 1)) % queue_capacity
  BY <1>1, <1>2, <1>5, <1>6, Around
<1>10. \A j \in 0..n : Place(j)' = Place(j)
  BY <1>1, <1>2 DEF Place
<1>11. buf \in [0..queue_capacity - 1 -> Values]
  BY <1>1 DEF TypeInv
<1>12. \A j \in 0..n - 1 : Cell(j)' = Cell(j)
  <2> TAKE j \in 0..n - 1
  <2>1. Place(j)' = Place(j) /\ Place(j) # tail /\ Place(j) \in 0..queue_capacity - 1
    <3>1. j \in 0..n /\ j \in 0..queue_capacity
      BY <1>3, <1>2
    <3> QED
      BY <3>1, <1>7, <1>8, <1>10 DEF Place
  <2> QED
    BY <1>1, <1>11, <2>1 DEF Cell
<1>13. Cell(n)' = value
  <2>1. Place(n)' = tail
    BY <1>1, <1>2, <1>5 DEF Place
  <2> QED
    BY <1>1, <1>5, <1>11, <2>1 DEF Cell
<1>14. buf' \in [0..queue_capacity - 1 -> Values] /\ tail' \in 0..queue_capacity - 1
  BY <1>1, <1>5, <1>6, <1>7, <1>9, <1>11
<1> QED
  BY <1>2, <1>3, <1>4, <1>9, <1>12, <1>13, <1>14

LEMMA WriteStep ==
  ASSUME IInv, NEW p \in Producers, NEW value, Write(p, value),
         p \in Cooks => value = PizzaOf(p), p = Main => value = Poison
  PROVE  /\ IInv'
         /\ p = Main => Ready' = Ready /\ unbaked' = unbaked
         /\ p \in Cooks => /\ Cardinality(Ready') = Cardinality(Ready) + 1
                           /\ unbaked[p] > 0 /\ unbaked' = [unbaked EXCEPT ![p] = @ - 1]
<1> DEFINE n == QueueLen
<1>1. /\ TypeInv /\ PlacesInv /\ SemaphoresInv /\ RoomInv /\ RingInv /\ PizzasExact
      /\ DistinctInv /\ PoisonInv
      /\ p \in Threads /\ p \notin Couriers
      /\ \/ p \in Cooks /\ p # Main
         \/ p = Main /\ p \notin Cooks
      /\ Goto(p, "write", "post_item")
      /\ UNCHANGED <<portion, left, tables, slots, items, head, holding, delivered_total>>
  BY Tools DEF IInv, Write
<1>2. /\ pc[p] = "write" /\ pc'[p] = "post_item" /\ pc' \in [Threads -> Labels]
      /\ \A u \in Threads : u # p => pc'[u] = pc[u]
  BY <1>1, PcMove DEF Labels, CookLabels
<1>3. /\ left[p] \in Nat /\ left[p] > 0
      /\ p \in Cooks => portion[p] \in Nat /\ left[p] <= portion[p]
  BY <1>1, <1>2, Numbers DEF TypeInv, PlacesInv, Pushing
<1>4. /\ p \in Cooks => value \in Pizzas /\ value = <<p, portion[p] - left[p]>>
      /\ p = Main => value = Poison /\ value \notin Pizzas
      /\ value \in Values /\ value # Nothing
  BY <1>1, <1>3, Signs DEF PizzaOf, Pizzas, Values
<1>5. /\ n \in Nat /\ n < queue_capacity /\ QueueLen' = n + 1
      /\ queue_capacity' = queue_capacity
      /\ buf' \in [0..queue_capacity - 1 -> Values] /\ tail' \in 0..queue_capacity - 1
      /\ (head + (n + 1)) % queue_capacity = tail'
      /\ \A j \in 0..n - 1 : Cell(j)' = Cell(j)
  BY <1>4, Written
<1>6. PICK m \in Nat : m = QueueLen
  BY <1>5
<1>7. Cell(m)' = value
  BY <1>4, <1>6, Written
<1> HIDE DEF n
<1>8. /\ n = m /\ QueueLen = m /\ QueueLen' = m + 1
      /\ \A j \in 0..m - 1 : Cell(j)' = Cell(j)
      /\ 0..QueueLen' - 1 = 0..m - 1 \cup {m} /\ 0..QueueLen - 1 = 0..m - 1
      /\ m \notin 0..m - 1
  BY <1>5, <1>6 DEF n
<1>9. TypeInv'
  BY <1>1, <1>2, <1>5 DEF TypeInv
<1>10. PlacesInv'
  BY <1>1, <1>2, Tools DEF PlacesInv, CookLabels, MainLabels, Pushing
<1>11. SemaphoresInv'
  <2>1. /\ Cardinality(At(pc', Cooks, {"push", "write", "post_item", "put_table"}))
             = Cardinality(At(pc, Cooks, {"push", "write", "post_item", "put_table"}))
        /\ Cardinality(At(pc', Producers, {"write"}))
             = Cardinality(At(pc, Producers, {"write"})) - 1
        /\ Cardinality(At(pc', Couriers, {"post_slot"}))
             = Cardinality(At(pc, Couriers, {"post_slot"}))
    BY <1>1, Moved DEF Crossing
  <2>2. /\ Cardinality(At(pc, Producers, {"write"})) \in Nat
        /\ Cardinality(At(pc, Couriers, {"post_slot"})) \in Nat /\ slots \in Nat
    BY <1>1, Tools, AtFinite DEF TypeInv
  <2> QED
    BY <1>1, <1>5, <1>8, <2>1, <2>2 DEF SemaphoresInv
<1>12. RingInv'
  <2>1. (head' + QueueLen') % queue_capacity' = tail'
    BY <1>1, <1>5, <1>8
  <2>2. \A j \in 0..QueueLen' - 1 : Cell(j)' # Nothing
    BY <1>1, <1>4, <1>7, <1>8 DEF RingInv
  <2> QED
    BY <2>1, <2>2 DEF RingInv
<1>13. RoomInv'
  <2>1. unclaimed' = unclaimed /\ Unclaimed(Main)' = Unclaimed(Main)
    BY <1>1, <1>2, Tools DEF unclaimed, Unclaimed
  <2> QED
    BY <1>1, <2>1 DEF RoomInv
<1>14. Carriers' = Carriers
  BY <1>1, Hands DEF Labels, CookLabels
<1>15. Ready' = IF p = Main THEN Ready ELSE Ready \cup {m}
  <2>1. /\ Ready = {j \in 0..m - 1 : Cell(j) \in Pizzas}
        /\ Ready' = {j \in 0..QueueLen' - 1 : Cell(j)' \in Pizzas}
    BY <1>8 DEF Ready, Cell
  <2> QED
    BY <1>1, <1>4, <1>7, <1>8, <2>1
<1>16. /\ \A j \in Ready : j \in 0..m - 1 /\ j # m /\ Cell(j)' = Cell(j)
       /\ m \notin Ready
  BY <1>8 DEF Ready
<1>17. /\ p = Main => unbaked' = unbaked
       /\ p # Main => /\ unbaked[p] = left[p] /\ unbaked'[p] = left[p] - 1
                      /\ \A c \in Cooks : c # p => unbaked'[c] = unbaked[c]
       /\ unbaked \in [Cooks -> Int] /\ unbaked' \in [Cooks -> Int]
       /\ portion \in [Cooks -> Int]
  <2>1. unbaked \in [Cooks -> Int] /\ unbaked' \in [Cooks -> Int]
    BY <1>1, Tools DEF unbaked, TypeInv
  <2>2. p = Main => unbaked' = unbaked
    BY <1>1, <1>2, Tools DEF unbaked
  <2>3. p # Main => /\ unbaked[p] = left[p] /\ unbaked'[p] = left[p] - 1
                    /\ \A c \in Cooks : c # p => unbaked'[c] = unbaked[c]
    BY <1>1, <1>2, Tools DEF unbaked
  <2> QED
    BY <1>1, <2>1, <2>2, <2>3 DEF TypeInv
<1>18. PizzasExact' /\ (p # Main => Cardinality(Ready') = Cardinality(Ready) + 1)
  <2>1. \A j, k \in Carriers' : holding'[j] = holding'[k] => j = k
    BY <1>1, <1>14 DEF PizzasExact
  <2>2. total_pizzas' = total_pizzas
    BY <1>1 DEF total_pizzas
  <2>3. CASE p = Main
    BY <1>1, <1>14, <1>15, <1>17, <2>1, <2>2, <2>3 DEF PizzasExact
  <2>4. CASE p # Main
    <3>1. SumFunction(unbaked') = SumFunction(unbaked) - 1
      BY <1>1, <1>17, <2>4, Tools, SumDown
    <3>2. Cardinality(Ready') = Cardinality(Ready) + 1
      BY <1>15, <1>16, <2>4, ReadyFinite, FS_AddElement
    <3>3. /\ SumFunction(unbaked) \in Nat /\ Cardinality(Ready) \in Nat
          /\ Cardinality(Carriers) \in Nat /\ delivered_total \in Nat
      BY <1>1, Numbers, ReadyFinite DEF TypeInv
    <3> QED
      BY <1>1, <1>14, <2>1, <2>2, <2>4, <3>1, <3>2, <3>3 DEF PizzasExact
  <2> QED
    BY <2>3, <2>4
<1>19. DistinctInv'
  <2>1. ASSUME NEW v, Baked(v)
        PROVE  Baked(v)'
    <3>1. v \in Pizzas /\ v[1] \in Cooks /\ v[2] \in Nat /\ v[2] < portion[v[1]] - unbaked[v[1]]
      BY <2>1 DEF Baked, Pizzas
    <3>2. unbaked'[v[1]] <= unbaked[v[1]] /\ unbaked'[v[1]] \in Int /\ unbaked[v[1]] \in Int
      BY <1>1, <1>3, <1>17, <3>1
    <3>3. portion[v[1]] \in Int /\ portion' = portion
      BY <1>1, <1>17, <3>1
    <3> QED
      BY <3>1, <3>2, <3>3 DEF Baked
  <2>2. p # Main => Baked(value)' /\ ~Baked(value)
    <3>1. p # Main => value[1] = p /\ value[2] = portion[p] - left[p] /\ value \in Pizzas
      BY <1>1, <1>4
    <3> QED
      BY <1>1, <1>3, <1>17, <3>1 DEF Baked
  <2>3. /\ \A j \in Ready : Baked(Cell(j))
        /\ \A k \in Carriers : Baked(holding[k])
        /\ \A i, j \in Ready : Cell(i) = Cell(j) => i = j
        /\ \A j \in Ready, k \in Carriers : Cell(j) # holding[k]
    BY <1>1 DEF DistinctInv
  <2>4. \A j \in Ready' : Baked(Cell(j))'
    <3> TAKE j \in Ready'
    <3>1. CASE j \in Ready
      BY <1>16, <2>1, <2>3, <3>1 DEF Baked
    <3>2. CASE j \notin Ready
      <4>1. j = m /\ p # Main
        BY <1>15, <3>2
      <4> QED
        BY <1>7, <2>2, <4>1 DEF Baked
    <3> QED
      BY <3>1, <3>2
  <2>5. \A k \in Carriers' : Baked(holding[k])'
    BY <1>1, <1>14, <2>1, <2>3 DEF Baked
  <2>6. \A i, j \in Ready' : Cell(i)' = Cell(j)' => i = j
    <3>1. p # Main => \A j \in Ready : Cell(j)' # value
      BY <1>16, <2>2, <2>3
    <3> QED
      BY <1>7, <1>15, <1>16, <2>3, <3>1
  <2>7. \A j \in Ready', k \in Carriers' : Cell(j)' # holding'[k]
    <3>1. p # Main => \A k \in Carriers : holding[k] # value
      BY <2>2, <2>3
    <3> QED
      BY <1>1, <1>7, <1>14, <1>15, <1>16, <2>3, <3>1
  <2> QED
    BY <2>4, <2>5, <2>6, <2>7 DEF DistinctInv
<1>20. PoisonInv'
  <2>1. ASSUME NEW i \in 0..QueueLen' - 1, Cell(i)' = Poison
        PROVE  /\ pc'[Main] # "join_cooks"
               /\ \A j \in i..QueueLen' - 1 : Cell(j)' = Poison
    <3>1. CASE i = m
      <4>1. p = Main
        BY <1>1, <1>4, <1>7, <2>1, <3>1, Signs
      <4>2. i..QueueLen' - 1 = {m}
        BY <1>8, <3>1
      <4> QED
        BY <1>2, <1>4, <1>7, <4>1, <4>2
    <3>2. CASE i # m
      <4>1. i \in 0..m - 1 /\ Cell(i) = Poison
        BY <1>8, <2>1, <3>2
      <4>2. pc[Main] # "join_cooks" /\ \A j \in i..m - 1 : Cell(j) = Poison
        BY <1>1, <1>8, <4>1 DEF PoisonInv
      <4>3. p = Main
        BY <1>1, <1>2, <4>2 DEF PlacesInv
      <4>4. i..QueueLen' - 1 = (i..m - 1) \cup {m} /\ i..m - 1 \subseteq 0..m - 1
        BY <1>8, <4>1
      <4> QED
        BY <1>2, <1>4, <1>7, <1>8, <4>2, <4>3, <4>4
    <3> QED
      BY <3>1, <3>2
  <2> QED
    BY <2>1 DEF PoisonInv
<1>21. p # Main => unbaked[p] > 0 /\ unbaked' = [unbaked EXCEPT ![p] = @ - 1]
  BY <1>1, <1>3, <1>17
<1> QED
  BY <1>1, <1>9, <1>10, <1>11, <1>12, <1>13, <1>15, <1>17, <1>18, <1>19, <1>20, <1>21 DEF IInv

(* The ring after a read: every cell is one nearer to the head.            *)
LEMMA WasRead ==
  ASSUME IInv, NEW k \in Couriers, Read(k)
  PROVE  \E m \in Nat, v \in Pizzas \cup {Poison} :
           /\ QueueLen = m + 1 /\ QueueLen' = m /\ m < queue_capacity
           /\ queue_capacity' = queue_capacity /\ head' \in 0..queue_capacity - 1
           /\ (head' + m) % queue_capacity = tail
           /\ \A j \in 0..m - 1 : Cell(j)' = Cell(j + 1)
           /\ v = Cell(0) /\ holding' = [holding EXCEPT ![k] = v]
<1>1. /\ TypeInv /\ RingInv /\ k \in Threads /\ k \notin Producers
      /\ Goto(k, "read", "post_slot") /\ pc[k] = "read"
      /\ holding' = [holding EXCEPT ![k] = buf[head]] /\ head' = (head + 1) % queue_capacity
      /\ buf' = buf /\ items' = items /\ items' \in Nat /\ portion' = portion
  BY Tools DEF IInv, Read, Goto, TypeInv
<1>2. queue_capacity \in Nat \ {0} /\ queue_capacity' = queue_capacity
  BY <1>1, Capacity DEF queue_capacity, total_pizzas
<1>3. PICK m \in Nat : QueueLen = m + 1 /\ m < queue_capacity
  <2>1. At(pc, Couriers, {"read"}) # {}
    BY <1>1 DEF At
  <2>2. QueueLen \in Nat /\ QueueLen > 0 /\ QueueLen <= queue_capacity
    BY <2>1, LenType
  <2>3. QueueLen - 1 \in Nat /\ QueueLen = (QueueLen - 1) + 1 /\ QueueLen - 1 < queue_capacity
    BY <1>2, <2>2
  <2> QED
    BY <2>3
<1>4. QueueLen' = m
  <2>1. /\ Crossing(k \in Couriers, "read", "post_slot", {"read"}) = -1
        /\ Crossing(k \in Producers, "read", "post_slot", {"post_item"}) = 0
    BY <1>1 DEF Crossing
  <2> QED
    BY <1>1, <1>3, <2>1, LenMoved DEF TypeInv
<1>5. head \in 0..queue_capacity - 1 /\ m \in 0..queue_capacity - 1
      /\ buf \in [0..queue_capacity - 1 -> Values]
  BY <1>1, <1>2, <1>3 DEF TypeInv
<1>6. head' \in 0..queue_capacity - 1
  <2>1. 1 \in 0..queue_capacity
    BY <1>2
  <2> QED
    BY <1>1, <1>2, <1>5, <2>1, Around
<1>7. (head' + m) % queue_capacity = tail
  <2>1. (head' + m) % queue_capacity = (head + (m + 1)) % queue_capacity
    BY <1>1, <1>2, <1>5, Around
  <2> QED
    BY <1>1, <1>3, <2>1 DEF RingInv
<1>8. \A j \in 0..m - 1 : Cell(j)' = Cell(j + 1)
  <2> TAKE j \in 0..m - 1
  <2>1. j \in 0..queue_capacity - 1
    BY <1>2, <1>3
  <2>2. Place(j)' = Place(j + 1)
    BY <1>1, <1>2, <1>5, <2>1, Around DEF Place
  <2> QED
    BY <1>1, <2>2 DEF Cell
<1>9. Cell(0) = buf[head] /\ Cell(0) \in Pizzas \cup {Poison}
  <2>1. (head + 0) % queue_capacity = head
    <3>1. head \in Nat /\ head + 0 = head /\ head < queue_capacity
          /\ head < queue_capacity + queue_capacity
      BY <1>2, <1>5
    <3> QED
      BY <1>2, <3>1, Mod
  <2>2. Cell(0) = buf[head] /\ buf[head] \in Values
    BY <1>5, <2>1 DEF Cell, Place
  <2>3. 0 \in 0..QueueLen - 1
    BY <1>3
  <2>4. Cell(0) # Nothing
    BY <1>1, <2>3 DEF RingInv
  <2> QED
    BY <2>2, <2>4 DEF Values
<1>10. holding' = [holding EXCEPT ![k] = Cell(0)]
  BY <1>1, <1>9
<1> QED
  BY <1>2, <1>3, <1>4, <1>6, <1>7, <1>8, <1>9, <1>10

LEMMA ReadStep ==
  ASSUME IInv, NEW k \in Couriers, Read(k)
  PROVE  /\ IInv' /\ unbaked' = unbaked
         /\ \A c \in Couriers : c # k => holding'[c] = holding[c]
         /\ \/ /\ holding'[k] # Poison
               /\ Cardinality(Ready) > 0 /\ Cardinality(Ready') = Cardinality(Ready) - 1
            \/ /\ holding'[k] = Poison
               /\ pc[Main] # "join_cooks" /\ Ready = {} /\ Ready' = {}
<1>1. /\ TypeInv /\ PlacesInv /\ SemaphoresInv /\ RoomInv /\ RingInv /\ PizzasExact
      /\ DistinctInv /\ PoisonInv
      /\ k \in Threads /\ k \notin Producers /\ k \notin Cooks /\ k # Main
      /\ Goto(k, "read", "post_slot")
      /\ UNCHANGED <<portion, left, tables, slots, items, buf, tail, delivered_total>>
  BY Tools DEF IInv, Read
<1>2. /\ pc[k] = "read" /\ pc'[k] = "post_slot" /\ pc' \in [Threads -> Labels]
      /\ \A u \in Threads : u # k => pc'[u] = pc[u]
  BY <1>1, PcMove DEF Labels, CourierLabels
<1>3. PICK m \in Nat, v \in Pizzas \cup {Poison} :
        /\ QueueLen = m + 1 /\ QueueLen' = m /\ m < queue_capacity
        /\ queue_capacity' = queue_capacity /\ head' \in 0..queue_capacity - 1
        /\ (head' + m) % queue_capacity = tail
        /\ \A j \in 0..m - 1 : Cell(j)' = Cell(j + 1)
        /\ v = Cell(0) /\ holding' = [holding EXCEPT ![k] = v]
  BY WasRead
<1>4. /\ holding \in [Couriers -> Values] /\ holding' \in [Couriers -> Values]
      /\ holding'[k] = v /\ \A c \in Couriers : c # k => holding'[c] = holding[c]
  BY <1>1, <1>3 DEF TypeInv, Values
<1>5. /\ \A j \in 0..m - 1 : j + 1 \in 0..m /\ j + 1 # 0
      /\ 0..QueueLen - 1 = 0..m /\ 0..QueueLen' - 1 = 0..m - 1 /\ 0 \in 0..m
      /\ \A j \in 0..m : j # 0 => \E i \in 0..m - 1 : j = i + 1
      /\ \A i, j \in 0..m - 1 : i + 1 = j + 1 => i = j
  <2>1. ASSUME NEW j \in 0..m, j # 0
        PROVE  \E i \in 0..m - 1 : j = i + 1
    <3>1. j - 1 \in 0..m - 1 /\ j = (j - 1) + 1
      BY <2>1
    <3> QED
      BY <3>1
  <2> QED
    BY <1>3, <2>1
<1>6. TypeInv'
  BY <1>1, <1>2, <1>3, <1>4 DEF TypeInv
<1>7. PlacesInv'
  BY <1>1, <1>2, <1>4, Tools DEF PlacesInv, CourierLabels
<1>8. SemaphoresInv'
  <2>1. /\ Cardinality(At(pc', Cooks, {"push", "write", "post_item", "put_table"}))
             = Cardinality(At(pc, Cooks, {"push", "write", "post_item", "put_table"}))
        /\ Cardinality(At(pc', Producers, {"write"})) = Cardinality(At(pc, Producers, {"write"}))
        /\ Cardinality(At(pc', Couriers, {"post_slot"}))
             = Cardinality(At(pc, Couriers, {"post_slot"})) + 1
    BY <1>1, Moved DEF Crossing
  <2>2. /\ Cardinality(At(pc, Producers, {"write"})) \in Nat
        /\ Cardinality(At(pc, Couriers, {"post_slot"})) \in Nat /\ slots \in Nat
    BY <1>1, Tools, AtFinite DEF TypeInv
  <2> QED
    BY <1>1, <1>3, <2>1, <2>2 DEF SemaphoresInv
<1>9. RingInv'
  <2>1. (head' + QueueLen') % queue_capacity' = tail'
    BY <1>1, <1>3
  <2>2. \A j \in 0..m - 1 : Cell(j)' # Nothing
    BY <1>1, <1>3, <1>5 DEF RingInv
  <2> QED
    BY <1>5, <2>1, <2>2 DEF RingInv
<1>10. RoomInv' /\ unbaked' = unbaked /\ total_pizzas' = total_pizzas
  <2>1. unclaimed' = unclaimed /\ Unclaimed(Main)' = Unclaimed(Main)
    BY <1>1, <1>2, Tools DEF unclaimed, Unclaimed
  <2>2. unbaked' = unbaked /\ total_pizzas' = total_pizzas
    BY <1>1, <1>2, Tools DEF unbaked, total_pizzas
  <2> QED
    BY <1>1, <2>1, <2>2 DEF RoomInv
<1>11. Ready = {j \in 0..m : Cell(j) \in Pizzas}
  BY <1>5 DEF Ready, Cell
<1>12. Ready' = {j \in 0..m - 1 : Cell(j + 1) \in Pizzas}
  <2>1. Ready' = {j \in 0..m - 1 : Cell(j)' \in Pizzas}
    BY <1>5 DEF Ready, Cell
  <2> QED
    BY <1>3, <2>1
<1>13. /\ v \in Pizzas => 0 \in Ready /\ Carriers' = Carriers \cup {k}
       /\ v = Poison => v \notin Pizzas /\ Ready = {} /\ Ready' = {} /\ Carriers' = Carriers
       /\ k \notin Carriers
  <2>1. k \notin Carriers
    BY <1>2 DEF Carriers, At
  <2>2. v \in Pizzas => 0 \in Ready /\ Carriers' = Carriers \cup {k}
    <3>1. v \in Pizzas => v # Poison
      BY Signs
    <3> QED
      BY <1>2, <1>3, <1>4, <1>5, <1>11, <3>1, Tools DEF Carriers, At
  <2>3. v = Poison => v \notin Pizzas /\ Ready = {} /\ Ready' = {} /\ Carriers' = Carriers
    <3> SUFFICES ASSUME v = Poison
                 PROVE  v \notin Pizzas /\ Ready = {} /\ Ready' = {} /\ Carriers' = Carriers
      OBVIOUS
    <3>1. \A j \in 0..m : Cell(j) = Poison
      BY <1>1, <1>3, <1>5 DEF PoisonInv
    <3>2. Carriers' = Carriers
      BY <1>2, <1>4, Tools DEF Carriers, At
    <3>3. Ready = {}
      BY <1>11, <3>1, Signs
    <3>4. Ready' = {}
      BY <1>5, <1>12, <3>1, Signs
    <3> QED
      BY <3>2, <3>3, <3>4, Signs
  <2> QED
    BY <2>1, <2>2, <2>3
<1>14. Cardinality(Ready') = Cardinality(Ready \ {0}) /\ IsFiniteSet(Ready \ {0})
  <2> DEFINE f == [i \in Ready' |-> i + 1]
  <2>1. IsFiniteSet(Ready) /\ IsFiniteSet(Ready \ {0})
    BY ReadyFinite, FS_Subset
  <2>2. \A i \in Ready' : i \in 0..m - 1 /\ i + 1 \in Ready \ {0}
    BY <1>5, <1>11, <1>12
  <2>3. \A j \in Ready \ {0} : \E i \in Ready' : j = i + 1
    BY <1>5, <1>11, <1>12
  <2>4. \A i, j \in Ready' : i + 1 = j + 1 => i = j
    BY <1>5, <2>2
  <2>5. f \in Bijection(Ready', Ready \ {0})
    BY <2>2, <2>3, <2>4 DEF Bijection, Injection, Surjection, IsInjective
  <2>6. IsFiniteSet(Ready')
    <3>1. f \in Injection(Ready', Ready \ {0})
      BY <2>5 DEF Bijection
    <3> QED
      BY <2>1, <3>1, FS_Injection
  <2>7. ExistsBijection(Ready', Ready \ {0})
    BY <2>5 DEF ExistsBijection
  <2> QED
    BY <2>1, <2>6, <2>7, FS_Bijection
<1>15. DistinctInv'
  <2>1. \A w : Baked(w)' <=> Baked(w)
    BY <1>1, <1>10 DEF Baked
  <2>2. \A j \in Ready' : j \in 0..m - 1 /\ j + 1 \in Ready /\ Cell(j)' = Cell(j + 1)
    BY <1>3, <1>5, <1>11, <1>12
  <2>3. \A c \in Carriers : holding'[c] = holding[c]
    BY <1>4, <1>13 DEF Carriers, At
  <2>4. /\ \A j \in Ready : Baked(Cell(j))
        /\ \A c \in Carriers : Baked(holding[c])
        /\ \A i, j \in Ready : Cell(i) = Cell(j) => i = j
        /\ \A j \in Ready, c \in Carriers : Cell(j) # holding[c]
    BY <1>1 DEF DistinctInv
  <2>5. \A j \in Ready' : Baked(Cell(j))'
    BY <2>1, <2>2, <2>4 DEF Baked
  <2>6. \A c \in Carriers' : Baked(holding[c])'
    <3>1. \A c \in Carriers' : Baked(holding'[c])
      BY <1>3, <1>4, <1>13, <2>3, <2>4
    <3> QED
      BY <2>1, <3>1 DEF Baked
  <2>7. \A i, j \in Ready' : Cell(i)' = Cell(j)' => i = j
    BY <1>5, <2>2, <2>4
  <2>8. \A j \in Ready', c \in Carriers' : Cell(j)' # holding'[c]
    <3>1. \A j \in Ready' : v \in Pizzas => Cell(j)' # v
      BY <1>3, <1>5, <1>13, <2>2, <2>4
    <3> QED
      BY <1>3, <1>4, <1>13, <2>2, <2>3, <2>4, <3>1
  <2> QED
    BY <2>5, <2>6, <2>7, <2>8 DEF DistinctInv
<1>16. PizzasExact'
  <2>1. /\ SumFunction(unbaked) \in Nat /\ Cardinality(Ready) \in Nat
        /\ Cardinality(Carriers) \in Nat /\ delivered_total \in Nat
        /\ IsFiniteSet(Ready) /\ IsFiniteSet(Carriers)
    BY <1>1, Numbers, ReadyFinite DEF TypeInv
  <2>2. Cardinality(Ready') + Cardinality(Carriers') = Cardinality(Ready) + Cardinality(Carriers)
    <3>1. CASE v \in Pizzas
      <4>1. Cardinality(Ready \ {0}) = Cardinality(Ready) - 1
        BY <1>13, <2>1, <3>1, FS_RemoveElement
      <4>2. Cardinality(Carriers') = Cardinality(Carriers) + 1
        BY <1>13, <2>1, <3>1, FS_AddElement
      <4> QED
        BY <1>14, <2>1, <4>1, <4>2
    <3>2. CASE v = Poison
      BY <1>13, <3>2
    <3> QED
      BY <3>1, <3>2
  <2>3. Cardinality(Ready') \in Nat /\ Cardinality(Carriers') \in Nat
    <3>1. Cardinality(Ready \ {0}) \in Nat
      BY <1>14, FS_CardinalityType
    <3>2. IsFiniteSet(Carriers')
      BY <1>13, <2>1, FS_AddElement
    <3> QED
      BY <1>14, <3>1, <3>2, FS_CardinalityType
  <2>4. \A i, j \in Carriers' : holding'[i] = holding'[j] => i = j
    <3>1. \A c \in Carriers : holding'[c] = holding[c]
      BY <1>4, <1>13 DEF Carriers, At
    <3>2. v \in Pizzas => \A c \in Carriers : holding[c] # v
      BY <1>1, <1>3, <1>13 DEF DistinctInv
    <3>3. \A i, j \in Carriers : holding[i] = holding[j] => i = j
      BY <1>1 DEF PizzasExact
    <3> QED
      BY <1>4, <1>13, <3>1, <3>2, <3>3
  <2>5. SumFunction(unbaked) + Cardinality(Ready) + Cardinality(Carriers) + delivered_total
          = total_pizzas
    BY <1>1 DEF PizzasExact
  <2>6. SumFunction(unbaked') + Cardinality(Ready') + Cardinality(Carriers') + delivered_total'
          = total_pizzas'
    BY <1>1, <1>10, <2>1, <2>2, <2>3, <2>5
  <2> QED
    BY <2>4, <2>6 DEF PizzasExact
<1>17. PoisonInv'
  <2>1. ASSUME NEW i \in 0..m - 1, Cell(i)' = Poison
        PROVE  /\ pc'[Main] # "join_cooks"
               /\ \A j \in i..m - 1 : Cell(j)' = Poison
    <3>1. i + 1 \in 0..m /\ Cell(i + 1) = Poison
      BY <1>3, <1>5, <2>1
    <3>2. pc[Main] # "join_cooks" /\ \A j \in i + 1..m : Cell(j) = Poison
      <4>1. QueueLen - 1 = m
        BY <1>3
      <4> QED
        BY <1>1, <1>5, <3>1, <4>1 DEF PoisonInv
    <3>3. \A j \in i..m - 1 : j \in 0..m - 1 /\ j + 1 \in i + 1..m
      OBVIOUS
    <3> QED
      BY <1>1, <1>2, <1>3, <3>2, <3>3, Tools
  <2>2. QueueLen' - 1 = m - 1
    BY <1>3
  <2> QED
    BY <1>5, <2>1, <2>2 DEF PoisonInv
<1>18. CASE v \in Pizzas
  <2>1. Cardinality(Ready) \in Nat /\ Cardinality(Ready \ {0}) = Cardinality(Ready) - 1
    BY <1>13, <1>18, ReadyFinite, FS_RemoveElement
  <2>2. Cardinality(Ready \ {0}) \in Nat
    BY <1>14, FS_CardinalityType
  <2>3. Cardinality(Ready) > 0 /\ Cardinality(Ready') = Cardinality(Ready) - 1
    BY <1>14, <2>1, <2>2
  <2>4. holding'[k] # Poison
    BY <1>4, <1>18, Signs
  <2> QED
    BY <1>4, <1>6, <1>7, <1>8, <1>9, <1>10, <1>15, <1>16, <1>17, <2>3, <2>4 DEF IInv
<1>19. CASE v = Poison
  <2>1. pc[Main] # "join_cooks"
    BY <1>1, <1>3, <1>5, <1>19 DEF PoisonInv
  <2> QED
    BY <1>4, <1>6, <1>7, <1>8, <1>9, <1>10, <1>13, <1>15, <1>16, <1>17, <1>19, <2>1 DEF IInv
<1> QED
  BY <1>18, <1>19

LEMMA NextIInv == IInv /\ [Next]_vars => IInv'
<1> SUFFICES ASSUME IInv, [Next]_vars PROVE IInv'
  OBVIOUS
<1>1. ASSUME NEW c \in Cooks, cook_thread(c)
      PROVE  IInv'
  BY <1>1, Tools, TakeTableStep, TakeSlotStep, WriteStep, PostItemStep, PutTableStep
    DEF cook_thread, queue_push
<1>2. ASSUME NEW k \in Couriers, courier_thread(k)
      PROVE  IInv'
  BY <1>2, TakeItemStep, ReadStep, PostSlotStep, DeliverStep DEF courier_thread, queue_pop
<1>3. ASSUME main
      PROVE  IInv'
  BY <1>3, Tools, JoinStep, TakeSlotStep, WriteStep, PostItemStep DEF main, queue_push
<1>4. CASE UNCHANGED vars
  <2>1. /\ UNCHANGED <<pc, portion, left, tables, slots, items, delivered_total>>
        /\ UNCHANGED <<buf, head, tail, holding>>
    BY <1>4 DEF vars, queue
  <2>2. /\ queue_capacity' = queue_capacity /\ total_pizzas' = total_pizzas
        /\ QueueLen' = QueueLen /\ unbaked' = unbaked /\ unclaimed' = unclaimed
        /\ Unclaimed(Main)' = Unclaimed(Main) /\ Carriers' = Carriers
    BY <2>1 DEF queue_capacity, total_pizzas, QueueLen, At, unbaked, unclaimed, Unclaimed, Carriers
  <2>3. RingInv' /\ DistinctInv' /\ PoisonInv' /\ PizzasExact'
    BY <2>1, <2>2, Quiet
  <2>4. TypeInv' /\ PlacesInv' /\ SemaphoresInv' /\ RoomInv'
    BY <2>1, <2>2 DEF IInv, TypeInv, PlacesInv, SemaphoresInv, RoomInv, At
  <2> QED
    BY <2>3, <2>4 DEF IInv
<1> QED
  BY <1>1, <1>2, <1>3, <1>4 DEF Next, Terminating

-----------------------------------------------------------------------------
(* The semaphores, the ring and the loops of Lesson_7/lesson7_pizza.c agree *)
(* in every state, whatever the portions and the order of the threads.      *)
THEOREM Inductive == Spec => []IInv
  BY InitIInv, NextIInv, PTL DEF Spec

(* sem_tables, sem_slots and sem_items count the tables in hand and the     *)
(* cells between head and tail, and no courier reads an unwritten cell.     *)
THEOREM Queue == Spec => []QueueExact
<1>1. IInv => QueueExact
  BY DEF IInv, SemaphoresInv, RingInv, QueueExact, Cell
<1> QED
  BY <1>1, Inductive, PTL

(* No pizza is lost between the totals of cooks and couriers, and none lies *)
(* in two cells of the ring or in the hands of two couriers, or in both; a  *)
(* pizza in the ring or in a hand is one that its cook will not bake again. *)
THEOREM EveryPizzaOnce == Spec => [](PizzasExact /\ DistinctInv)
<1>1. IInv => PizzasExact /\ DistinctInv
  BY DEF IInv
<1> QED
  BY <1>1, Inductive, PTL

(* The capacity main gives the queue is enough: a cook with a table and     *)
(* main with its poison find a free slot, in whatever order they push.      *)
THEOREM RoomForAll == Spec => []PushNeverWaits
<1>1. IInv => PushNeverWaits
  <2> SUFFICES ASSUME IInv, NEW p \in At(pc, Producers, {"push"}) PROVE slots > 0
    BY DEF PushNeverWaits
  <2>1. /\ TypeInv /\ PlacesInv /\ p \in Producers /\ pc[p] = "push"
        /\ SumFunction(unclaimed) + Unclaimed(Main) <= slots /\ slots \in Nat
    BY DEF IInv, RoomInv, TypeInv, At
  <2>2. left[p] \in Nat /\ Unclaimed(p) = left[p] /\ left[p] > 0
    BY <2>1, Numbers DEF Unclaimed, TypeInv, Pushing
  <2>3. CASE p = Main
    BY <2>1, <2>2, <2>3, Numbers
  <2>4. CASE p \in Cooks
    <3>1. SumFunction(unclaimed) >= unclaimed[p] /\ unclaimed[p] = left[p]
      BY <2>1, <2>2, <2>4, Tools, Numbers, SumAtLeast DEF unclaimed
    <3> QED
      BY <2>1, <2>2, <3>1, Numbers
  <2> QED
    BY <2>1, <2>3, <2>4, Tools
<1> QED
  BY <1>1, Inductive, PTL

-----------------------------------------------------------------------------
home == {k \in Couriers : pc[k] \in {"post_slot", "done"} /\ holding[k] = Poison}

(* Only a read brings a courier home.                                      *)
LEMMA Homes ==
  ASSUME IInv, NEW t \in Threads, NEW from, NEW to \in Labels, Goto(t, from, to),
         holding' = holding,
         t \in Couriers => \/ from = "idle" /\ to = "read"
                           \/ from = "post_slot" /\ (to = "done" <=> holding[t] = Poison)
                           \/ from = "deliver" /\ to = "idle"
  PROVE  home' = home
<1>1. /\ pc[t] = from /\ pc'[t] = to /\ \A u \in Threads : u # t => pc'[u] = pc[u]
      /\ \A k \in Couriers : pc[k] = "deliver" => holding[k] # Poison
  BY PcMove DEF IInv, PlacesInv
<1>2. ASSUME NEW k \in Couriers
      PROVE  /\ pc'[k] \in {"post_slot", "done"} /\ holding[k] = Poison
                 <=> pc[k] \in {"post_slot", "done"} /\ holding[k] = Poison
  <2>1. CASE k = t
    BY <1>1, <2>1
  <2>2. CASE k # t
    BY <1>1, <2>2, Tools
  <2> QED
    BY <2>1, <2>2
<1> QED
  BY <1>2 DEF home

(* A courier that reads the poison leaves no pizza behind.                 *)
LEMMA NothingLeft ==
  ASSUME IInv, pc[Main] # "join_cooks", Ready = {}
  PROVE  Cardinality(Ready) = 0 /\ \A c \in Cooks : unbaked[c] = 0
  BY FS_EmptySet DEF IInv, PlacesInv, unbaked

(* Every step of the threads is a step of the pizzeria, or none.           *)
LEMMA ShopStep ==
  IInv /\ [Next]_vars => [Shop!Next]_<<unbaked, Cardinality(Ready), home>>
<1> SUFFICES ASSUME IInv, [Next]_vars
             PROVE  \/ Shop!Next
                    \/ unbaked' = unbaked /\ Ready' = Ready /\ home' = home
  BY DEF Shop!Next
<1>1. TypeInv /\ PlacesInv
  BY DEF IInv
<1>2. ASSUME NEW c \in Cooks, Write(c, PizzaOf(c))
      PROVE  Shop!Bake(c)
  <2>1. /\ Cardinality(Ready') = Cardinality(Ready) + 1
        /\ unbaked[c] > 0 /\ unbaked' = [unbaked EXCEPT ![c] = @ - 1]
    BY <1>2, Tools, WriteStep
  <2>2. home' = home
    BY <1>2, Homes, Tools DEF Write, Labels, CookLabels
  <2> QED
    BY <2>1, <2>2 DEF Shop!Bake, home
<1>3. ASSUME Write(Main, Poison)
      PROVE  unbaked' = unbaked /\ Ready' = Ready /\ home' = home
  <2>1. home' = home
    BY <1>3, Homes, Tools DEF Write, Labels, CookLabels
  <2> QED
    BY <1>3, <2>1, Tools, WriteStep
<1>4. ASSUME NEW k \in Couriers, Read(k)
      PROVE  Shop!Take \/ Shop!GoHome(k)
  <2>1. /\ pc[k] = "read" /\ pc'[k] = "post_slot" /\ k \notin home
        /\ \A j \in Couriers : j # k => pc'[j] = pc[j]
    BY <1>1, <1>4, Tools, PcMove DEF Read, Labels, CourierLabels, home
  <2>2. unbaked' = unbaked /\ \A j \in Couriers : j # k => holding'[j] = holding[j]
    BY <1>4, ReadStep
  <2>3. CASE /\ holding'[k] # Poison
             /\ Cardinality(Ready) > 0 /\ Cardinality(Ready') = Cardinality(Ready) - 1
    <3>1. home' = home
      BY <2>1, <2>2, <2>3 DEF home
    <3> QED
      BY <2>1, <2>2, <2>3, <3>1 DEF Shop!Take, home
  <2>4. CASE /\ holding'[k] = Poison
             /\ pc[Main] # "join_cooks" /\ Ready = {} /\ Ready' = {}
    <3>1. home' = home \cup {k}
      BY <2>1, <2>2, <2>4 DEF home
    <3>2. Shop!NothingComes
      BY <2>4, NothingLeft DEF Shop!NothingComes
    <3> QED
      BY <2>1, <2>2, <2>4, <3>1, <3>2 DEF Shop!GoHome, home
  <2> QED
    BY <1>4, <2>3, <2>4, ReadStep
<1>5. ASSUME NEW c \in Cooks, TakeTable(c) \/ TakeSlot(c) \/ PostItem(c) \/ PutTable(c)
      PROVE  unbaked' = unbaked /\ Ready' = Ready /\ home' = home
  <2>1. PICK from, to \in Labels : Goto(c, from, to) /\ holding' = holding
    BY <1>5 DEF TakeTable, TakeSlot, PostItem, PutTable, AfterPush, Labels, CookLabels, MainLabels
  <2>2. home' = home
    BY <2>1, Homes, Tools
  <2> QED
    BY <1>5, <2>2, Tools, TakeTableStep, TakeSlotStep, PostItemStep, PutTableStep
<1>6. ASSUME TakeSlot(Main) \/ PostItem(Main) \/ JoinCooks \/ JoinCouriers
      PROVE  unbaked' = unbaked /\ Ready' = Ready /\ home' = home
  <2>1. PICK from, to \in Labels : Goto(Main, from, to) /\ holding' = holding
    BY <1>6 DEF TakeSlot, PostItem, JoinCooks, JoinCouriers, AfterPush, Labels, CookLabels, MainLabels
  <2>2. home' = home
    BY <2>1, Homes, Tools
  <2> QED
    BY <1>6, <2>2, Tools, TakeSlotStep, PostItemStep, JoinStep
<1>7. ASSUME NEW k \in Couriers, TakeItem(k) \/ PostSlot(k) \/ Deliver(k)
      PROVE  unbaked' = unbaked /\ Ready' = Ready /\ home' = home
  <2>1. PICK from, to \in Labels :
          /\ Goto(k, from, to) /\ holding' = holding
          /\ \/ from = "idle" /\ to = "read"
             \/ from = "post_slot" /\ (to = "done" <=> holding[k] = Poison)
             \/ from = "deliver" /\ to = "idle"
    BY <1>7 DEF TakeItem, PostSlot, Deliver, Labels, CourierLabels
  <2>2. home' = home
    BY <2>1, Homes, Tools
  <2> QED
    BY <1>7, <2>2, TakeItemStep, PostSlotStep, DeliverStep
<1>8. CASE UNCHANGED vars
  <2>1. /\ pc' = pc /\ left' = left /\ portion' = portion /\ items' = items
        /\ buf' = buf /\ head' = head /\ holding' = holding
    BY <1>8 DEF vars, queue
  <2> QED
    BY <2>1 DEF unbaked, Ready, QueueLen, At, Place, queue_capacity, total_pizzas, home
<1> QED
  BY <1>2, <1>3, <1>4, <1>5, <1>6, <1>7, <1>8
    DEF Next, cook_thread, courier_thread, queue_push, queue_pop, main, Terminating, Shop!Next

(* The semaphores implement the pizzeria: the poison is behind every pizza, *)
(* so a courier goes home only when nothing is left to carry or to bake.    *)
THEOREM Refinement == Spec => ImplementsPizzeria
<1>1. Init => Shop!Init
  <2> SUFFICES ASSUME Init PROVE Shop!Init
    OBVIOUS
  <2>1. \A c \in Cooks : pc[c] = "table" /\ left[c] = portion[c]
    BY Tools DEF Init
  <2>2. unbaked \in [Cooks -> Nat \ {0}]
    BY <2>1, PizzaAssumption DEF Init, unbaked
  <2>3. Cardinality(Ready) = 0
    BY InitIInv, FS_EmptySet
  <2>4. home = {}
    BY Tools DEF Init, home
  <2> QED
    BY <2>2, <2>3, <2>4 DEF Shop!Init, home
<1>2. IInv /\ [Next]_vars
        => [Shop!Next]_<<unbaked, Cardinality(Ready),
             {k \in Couriers : pc[k] \in {"post_slot", "done"} /\ holding[k] = Poison}>>
  BY ShopStep DEF home
<1> QED
  BY <1>1, <1>2, Inductive, PTL DEF Spec, ImplementsPizzeria, Shop!Spec

-----------------------------------------------------------------------------
(***************************************************************************)
(* Stadium, as an instance: its constants and variables are declared here  *)
(* under names that Pizza does not use, and the assumption of the module   *)
(* is a hypothesis of every lemma.  The sums above count the messages in   *)
(* the boxes.  A run of the race is divided into phases: the runners       *)
(* gather, they are lined up, they race, it is over.                       *)
(***************************************************************************)

CONSTANTS
  runners, Variants, places   \* what Stadium calls n, Variants and Capacity

VARIABLES
  variant, place, box, exists, arrived   \* its variables; place is its pc

St == INSTANCE Stadium WITH n <- runners, Capacity <- places, pc <- place

\* the operators that come with the instance are those of this module
LEMMA SizesAgree ==
  ASSUME NEW S
  PROVE  St!Cardinality(S) = Cardinality(S)
  BY DEF Cardinality, St!Cardinality, St!IsFiniteSet, IsFiniteSet

LEMMA SumsAgree ==
  ASSUME NEW f
  PROVE  St!SumFunction(f) = SumFunction(f)
  BY DEF SumFunction, SumFunctionOnSet, FoldFunctionOnSet, MapThenFoldSet,
     St!SumFunction, St!SumFunctionOnSet, St!FoldFunctionOnSet, St!MapThenFoldSet

RaceLabels == {"fork", "arrivals", "start", "finish", "remove", "wait",
               "unborn", "open", "arrive", "baton", "pass", "exited", "died"}

RaceTypeInv ==
  /\ variant \in Variants
  /\ place \in [{St!Judge} \cup St!Runners -> RaceLabels]
  /\ box \in [St!Addresses -> Seq(0..runners)]
  /\ arrived \in Nat

Silent == \A a \in St!Addresses : Len(box[a]) = 0
OneAt(a) == Len(box[a]) = 1 /\ \A b \in St!Addresses : b # a => Len(box[b]) = 0

Missing == St!At(place, St!Runners, {"unborn", "open", "arrive"})

\* until the judge has counted all the runners
Gathering ==
  /\ place[St!Judge] \in {"fork", "arrivals", "died"} /\ exists
  /\ \A i \in St!Runners : place[i] \in {"unborn", "open", "arrive", "baton"}
  /\ \A a \in St!Addresses : a # St!ArrivalBox => Len(box[a]) = 0
  /\ arrived + St!Stored + Cardinality(Missing) = runners /\ arrived < runners
  /\ place[St!Judge] = "fork" => place[runners] = "unborn"

Lined ==
  /\ place[St!Judge] = "start" /\ exists
  /\ \A i \in St!Runners : place[i] = "baton"
  /\ Silent

\* runner k has the baton, or it lies in its box; after the last it goes to the judge
Turn(k) ==
  /\ \A i \in St!Runners : (i < k => place[i] = "exited") /\ (i > k => place[i] = "baton")
  /\ \/ k \in St!Runners /\ place[k] = "baton" /\ OneAt(k)
     \/ k \in St!Runners /\ place[k] = "pass" /\ Silent
     \/ k = runners + 1 /\ OneAt(St!Judge)

Racing == place[St!Judge] = "finish" /\ exists /\ \E k \in 1..runners + 1 : Turn(k)

Over ==
  /\ place[St!Judge] \in {"remove", "wait", "exited"}
  /\ \A i \in St!Runners : place[i] = "exited"
  /\ Silent

Phase == Gathering \/ Lined \/ Racing \/ Over

RaceInv == RaceTypeInv /\ Phase

-----------------------------------------------------------------------------
\* who and what has an address
LEMMA Places ==
  ASSUME St!StadiumAssumption
  PROVE  /\ runners \in Nat /\ runners >= 1 /\ runners \in St!Runners /\ 1 \in St!Runners
         /\ St!Judge = 0 /\ St!Judge \notin St!Runners
         /\ St!Judge \in St!Addresses /\ St!Runners \subseteq St!Addresses
         /\ St!Runners \subseteq Nat /\ St!Runners = 1..runners
         /\ St!ArrivalBox \in St!Addresses /\ St!ArrivalBox \notin St!Runners
         /\ St!Addresses \subseteq Int
         /\ IsFiniteSet(St!Addresses) /\ IsFiniteSet(St!Runners)
         /\ St!Runners \subseteq 0..runners
         /\ \A i \in St!Runners : St!NextOf(i) \in St!Addresses
<1>1. runners \in Nat /\ runners >= 1
  BY DEF St!StadiumAssumption
<1>2. IsFiniteSet(St!Addresses) /\ IsFiniteSet(St!Runners)
  BY <1>1, FS_Interval DEF St!Addresses, St!Arrivals, St!Runners
<1> QED
  BY <1>1, <1>2
    DEF St!Runners, St!Judge, St!Arrivals, St!Addresses, St!ArrivalBox, St!NextOf

\* the runners that have not arrived can be counted
LEMMA MissingFinite ==
  ASSUME St!StadiumAssumption
  PROVE  IsFiniteSet(Missing) /\ Cardinality(Missing) \in Nat
<1>1. Missing \subseteq St!Runners
  BY DEF Missing, St!At
<1> QED
  BY <1>1, Places, FS_Subset, FS_CardinalityType

\* how many messages lie in each box
lens == [a \in St!Addresses |-> Len(box[a])]

(* Stored counts the messages: none if every box is empty, one if one      *)
(* message lies in one box.                                                *)
LEMMA StoredType ==
  ASSUME St!StadiumAssumption, RaceTypeInv
  PROVE  /\ St!Stored = SumFunction(lens) /\ lens \in [St!Addresses -> Nat]
         /\ St!Stored \in Nat
         /\ \A a \in St!Addresses : Len(box[a]) \in Nat /\ Len(box[a]) <= St!Stored
         /\ St!Stored = 0 <=> Silent
         /\ \A a \in St!Addresses : OneAt(a) => St!Stored = 1
<1>1. \A a \in St!Addresses : box[a] \in Seq(0..runners) /\ Len(box[a]) \in Nat
  BY LenProperties DEF RaceTypeInv
<1>2. lens \in [St!Addresses -> Nat] /\ St!Stored = SumFunction(lens)
  BY <1>1, SumsAgree DEF lens, St!Stored
<1>3. St!Stored \in Nat
  BY <1>2, Places, SumNat
<1>4. \A a \in St!Addresses : lens[a] = Len(box[a]) /\ lens[a] <= St!Stored
  BY <1>2, Places, SumAtLeast DEF lens
<1>5. Silent => St!Stored = 0
  BY <1>2, <1>4, Places, SumZero DEF Silent
<1>6. St!Stored = 0 => Silent
  BY <1>1, <1>4 DEF Silent
<1>7. ASSUME NEW a \in St!Addresses, OneAt(a)
      PROVE  St!Stored = 1
  <2> DEFINE none == [b \in St!Addresses |-> 0]
  <2>1. none \in [St!Addresses -> Int] /\ DOMAIN none = St!Addresses
        /\ \A b \in St!Addresses : none[b] = 0
    OBVIOUS
  <2>2. SumFunction(none) = 0
    BY Places, SumZero
  <2> HIDE DEF none
  <2>3. lens \in [St!Addresses -> Int] /\ lens[a] = 1 /\ none[a] = 0
        /\ \A b \in St!Addresses : b # a => lens[b] = none[b]
    <3>1. Len(box[a]) = 1 /\ \A b \in St!Addresses : b # a => Len(box[b]) = 0
      BY <1>7 DEF OneAt
    <3>2. lens \in [St!Addresses -> Int]
      BY <1>2
    <3> QED
      BY <1>4, <2>1, <3>1, <3>2
  <2>4. SumFunction(lens) = SumFunction(none) - none[a] + lens[a]
    <3>1. IsFiniteSet(St!Addresses)
      BY Places
    <3> QED
      BY <2>1, <2>3, <3>1, SumChange
  <2> QED
    BY <1>2, <2>2, <2>3, <2>4
<1> QED
  BY <1>1, <1>2, <1>3, <1>4, <1>5, <1>6, <1>7

\* what one longer or shorter box does to the sum
LEMMA LensMove ==
  ASSUME St!StadiumAssumption
  PROVE  \A a \in St!Addresses, d \in Int : \A f, g \in [St!Addresses -> Int] :
           g[a] = f[a] + d /\ (\A b \in St!Addresses : b # a => g[b] = f[b])
           => SumFunction(g) = SumFunction(f) + d
<1>1. IsFiniteSet(St!Addresses)
  BY Places
<1> QED
  BY <1>1, SumMove

\* one more, or one less, in box a
LEMMA StoredMoves ==
  ASSUME St!StadiumAssumption, RaceTypeInv, NEW a \in St!Addresses, NEW d \in Int,
         box' \in [St!Addresses -> Seq(0..runners)], Len(box'[a]) = Len(box[a]) + d,
         \A b \in St!Addresses : b # a => box'[b] = box[b]
  PROVE  St!Stored' = St!Stored + d
<1>1. \A b \in St!Addresses : Len(box[b]) \in Nat /\ Len(box'[b]) \in Nat
  BY LenProperties DEF RaceTypeInv
<1>2. /\ lens \in [St!Addresses -> Int] /\ lens' \in [St!Addresses -> Int]
      /\ lens'[a] = lens[a] + d /\ \A b \in St!Addresses : b # a => lens'[b] = lens[b]
  BY <1>1 DEF lens
<1>3. SumFunction(lens') = SumFunction(lens) + d
  <2>1. \A f, g \in [St!Addresses -> Int] :
          g[a] = f[a] + d /\ (\A b \in St!Addresses : b # a => g[b] = f[b])
          => SumFunction(g) = SumFunction(f) + d
    BY LensMove
  <2> QED
    BY <1>2, <2>1
<1>4. St!Stored = SumFunction(lens) /\ St!Stored' = SumFunction(lens')
  <2>1. St!Stored = St!SumFunction(lens) /\ St!Stored' = St!SumFunction(lens')
    BY DEF St!Stored, lens
  <2> QED
    BY <2>1, SumsAgree
<1> QED
  BY <1>3, <1>4

\* what a send and a receive do to the boxes
LEMMA Sent ==
  ASSUME St!StadiumAssumption,
         RaceTypeInv, NEW a \in St!Addresses, NEW id \in 0..runners, St!Send(a, id)
  PROVE  /\ box' \in [St!Addresses -> Seq(0..runners)] /\ Len(box'[a]) = Len(box[a]) + 1
         /\ \A b \in St!Addresses : b # a => box'[b] = box[b]
         /\ St!Stored' = St!Stored + 1
<1>1. box[a] \in Seq(0..runners) /\ box' = [box EXCEPT ![a] = Append(box[a], id)]
  BY DEF RaceTypeInv, St!Send
<1>2. Append(box[a], id) \in Seq(0..runners) /\ Len(Append(box[a], id)) = Len(box[a]) + 1
  BY <1>1, AppendProperties
<1>3. /\ box' \in [St!Addresses -> Seq(0..runners)] /\ Len(box'[a]) = Len(box[a]) + 1
      /\ \A b \in St!Addresses : b # a => box'[b] = box[b]
  BY <1>1, <1>2 DEF RaceTypeInv
<1> QED
  BY <1>3, StoredMoves

LEMMA Received ==
  ASSUME St!StadiumAssumption,
         RaceTypeInv, NEW a \in St!Addresses, St!Receive(a)
  PROVE  /\ box' \in [St!Addresses -> Seq(0..runners)]
         /\ Len(box[a]) >= 1 /\ Len(box'[a]) = Len(box[a]) - 1
         /\ \A b \in St!Addresses : b # a => box'[b] = box[b]
         /\ St!Stored' = St!Stored - 1
<1>1. box[a] \in Seq(0..runners) /\ box[a] # <<>> /\ box' = [box EXCEPT ![a] = Tail(box[a])]
  BY DEF RaceTypeInv, St!Receive
<1>2. /\ Tail(box[a]) \in Seq(0..runners) /\ Len(Tail(box[a])) = Len(box[a]) - 1
      /\ Len(box[a]) \in Nat /\ Len(box[a]) # 0
  BY <1>1, HeadTailProperties, EmptySeq, LenProperties
<1>3. /\ box' \in [St!Addresses -> Seq(0..runners)]
      /\ Len(box[a]) >= 1 /\ Len(box'[a]) = Len(box[a]) + (-1)
      /\ \A b \in St!Addresses : b # a => box'[b] = box[b]
  BY <1>1, <1>2 DEF RaceTypeInv
<1>4. St!Stored' = St!Stored + (-1)
  <2>1. -1 \in Int
    OBVIOUS
  <2> QED
    BY <1>3, <2>1, StoredMoves
<1> QED
  BY <1>2, <1>3, <1>4, StoredType

\* the race begins with the gathering
LEMMA InitRaceInv ==
  ASSUME St!StadiumAssumption
  PROVE  St!Init => RaceInv
<1> SUFFICES ASSUME St!Init PROVE RaceInv
  OBVIOUS
<1>1. variant \in Variants /\ exists /\ arrived = 0
  BY DEF St!Init
<1>2. /\ place \in [{St!Judge} \cup St!Runners -> RaceLabels] /\ place[St!Judge] = "fork"
      /\ \A i \in St!Runners : place[i] = "unborn"
  BY Places DEF St!Init, RaceLabels
<1>3. box \in [St!Addresses -> Seq(0..runners)] /\ \A a \in St!Addresses : Len(box[a]) = 0
  BY EmptySeq DEF St!Init
<1>4. RaceTypeInv
  BY <1>1, <1>2, <1>3 DEF RaceTypeInv
<1>5. St!Stored = 0
  BY <1>3, <1>4, StoredType DEF Silent
<1>6. Missing = 1..runners
  BY <1>2 DEF Missing, St!At, St!Runners
<1>7. Cardinality(Missing) = runners
  BY <1>6, Places, FS_Interval
<1>8. Gathering
  BY <1>1, <1>2, <1>3, <1>5, <1>7, Places DEF Gathering
<1> QED
  BY <1>4, <1>8 DEF RaceInv, Phase

\* one process goes on, the others stay
LEMMA Moves ==
  ASSUME St!StadiumAssumption,
         RaceTypeInv, NEW p \in {St!Judge} \cup St!Runners, NEW from, NEW to \in RaceLabels,
         St!Goto(p, from, to)
  PROVE  /\ place[p] = from /\ place'[p] = to
         /\ place' \in [{St!Judge} \cup St!Runners -> RaceLabels]
         /\ \A q \in {St!Judge} \cup St!Runners : q # p => place'[q] = place[q]
         /\ variant' = variant /\ St!ArrivalBox' = St!ArrivalBox
  BY DEF RaceTypeInv, St!Goto, St!ArrivalBox

LEMMA JudgeMoves ==
  ASSUME St!StadiumAssumption,
         RaceTypeInv, NEW from, NEW to \in RaceLabels, St!Goto(St!Judge, from, to)
  PROVE  /\ place'[St!Judge] = to /\ place' \in [{St!Judge} \cup St!Runners -> RaceLabels]
         /\ \A q \in St!Runners : place'[q] = place[q]
         /\ variant' = variant /\ St!ArrivalBox' = St!ArrivalBox
<1>1. \A q \in St!Runners : q # St!Judge
  BY Places
<1> QED
  BY <1>1 DEF RaceTypeInv, St!Goto, St!ArrivalBox

(* The baton is with one runner, or on its way to one.                     *)
LEMMA WhoTakes ==
  ASSUME St!StadiumAssumption, RaceInv, NEW i \in St!Runners, Len(box[i]) # 0
  PROVE  Racing /\ Turn(i) /\ place[i] = "baton" /\ OneAt(i)
<1>1. ~Gathering /\ ~Lined /\ ~Over
  BY Places DEF Gathering, Lined, Over, Silent
<1>2. Racing
  BY <1>1 DEF RaceInv, Phase
<1>3. PICK k \in 1..runners + 1 : Turn(k)
  BY <1>2 DEF Racing
<1>4. k = i
  BY <1>3, Places DEF Turn, OneAt, Silent
<1>5. ~Silent /\ i # runners + 1
  BY Places DEF Silent
<1> QED
  BY <1>2, <1>3, <1>4, <1>5 DEF Turn

(* Only the runner whose turn it is has the baton in its hand.             *)
LEMMA WhoPasses ==
  ASSUME St!StadiumAssumption, RaceInv, NEW i \in St!Runners, place[i] = "pass"
  PROVE  Racing /\ Turn(i) /\ Silent
<1>1. ~Gathering /\ ~Lined /\ ~Over
  BY DEF Gathering, Lined, Over
<1>2. Racing
  BY <1>1 DEF RaceInv, Phase
<1>3. PICK k \in 1..runners + 1 : Turn(k)
  BY <1>2 DEF Racing
<1>4. k = i
  BY <1>3, Places DEF Turn
<1>5. i # runners + 1
  BY Places
<1> QED
  BY <1>2, <1>3, <1>4, <1>5 DEF Turn

(* What lies in the box of the judge during the race is the finish.        *)
LEMMA LapDone ==
  ASSUME St!StadiumAssumption,
         RaceInv, place[St!Judge] = "finish", Len(box[St!Judge]) # 0
  PROVE  OneAt(St!Judge) /\ \A i \in St!Runners : place[i] = "exited"
<1>1. Racing
  BY DEF RaceInv, Phase, Gathering, Lined, Over
<1>2. PICK k \in 1..runners + 1 : Turn(k)
  BY <1>1 DEF Racing
<1>3. ~Silent /\ \A i \in St!Runners : ~OneAt(i)
  BY Places DEF Silent, OneAt
<1>4. k = runners + 1 /\ OneAt(St!Judge)
  BY <1>2, <1>3 DEF Turn
<1> QED
  BY <1>2, <1>4, Places DEF Turn

(* A runner that has not arrived keeps the race from beginning.            *)
LEMMA NotYet ==
  ASSUME St!StadiumAssumption,
         RaceInv, NEW i \in St!Runners, place[i] \in {"unborn", "open", "arrive"}
  PROVE  Gathering
<1>1. ~Lined /\ ~Over
  BY DEF Lined, Over
<1>2. ~Racing
  <2> SUFFICES ASSUME NEW k \in 1..runners + 1, Turn(k) PROVE FALSE
    BY DEF Racing
  <2>1. i \in Int /\ k \in Int
    BY Places
  <2>2. i = k
    BY <2>1 DEF Turn
  <2> QED
    BY <2>2, Places DEF Turn
<1> QED
  BY <1>1, <1>2 DEF RaceInv, Phase

-----------------------------------------------------------------------------
(* A runner opens its queues and arrives while the others gather.          *)
LEMMA OpenStep ==
  ASSUME St!StadiumAssumption, RaceInv, NEW i \in St!Runners, St!Open(i)
  PROVE  RaceInv' /\ exists /\ place[i] = "open"
<1>1. RaceTypeInv /\ place[i] = "open"
  BY DEF RaceInv, St!Open, St!Goto
<1>2. Gathering
  BY <1>1, NotYet
<1>3. St!Goto(i, "open", "arrive") /\ UNCHANGED <<box, exists, arrived>> /\ exists
  BY <1>2 DEF St!Open, Gathering
<1>4. /\ place'[i] = "arrive" /\ place' \in [{St!Judge} \cup St!Runners -> RaceLabels]
      /\ \A q \in {St!Judge} \cup St!Runners : q # i => place'[q] = place[q]
      /\ variant' = variant /\ St!ArrivalBox' = St!ArrivalBox
  BY <1>1, <1>3, Moves DEF RaceLabels
<1>5. St!Stored' = St!Stored /\ Missing' = Missing
  BY <1>1, <1>3, <1>4, Places DEF St!Stored, Missing, St!At
<1>6. Gathering'
  BY <1>1, <1>2, <1>3, <1>4, <1>5, Places DEF Gathering
<1>7. RaceTypeInv'
  BY <1>1, <1>3, <1>4 DEF RaceTypeInv
<1> QED
  BY <1>1, <1>3, <1>6, <1>7 DEF RaceInv, Phase

LEMMA ArriveStep ==
  ASSUME St!StadiumAssumption, RaceInv, NEW i \in St!Runners, St!Arrive(i)
  PROVE  RaceInv' /\ Gathering /\ Gathering'
<1>1. RaceTypeInv /\ place[i] = "arrive" /\ St!Goto(i, "arrive", "baton")
      /\ St!Send(St!ArrivalBox, i)
      /\ UNCHANGED <<exists, arrived>>
  BY DEF RaceInv, St!Arrive, St!Goto
<1>2. Gathering
  BY <1>1, NotYet
<1>3. /\ place'[i] = "baton" /\ place' \in [{St!Judge} \cup St!Runners -> RaceLabels]
      /\ \A q \in {St!Judge} \cup St!Runners : q # i => place'[q] = place[q]
      /\ variant' = variant /\ St!ArrivalBox' = St!ArrivalBox
  BY <1>1, Moves DEF RaceLabels
<1>4. /\ box' \in [St!Addresses -> Seq(0..runners)] /\ St!Stored' = St!Stored + 1
      /\ \A b \in St!Addresses : b # St!ArrivalBox => box'[b] = box[b]
  <2>1. i \in 0..runners /\ St!ArrivalBox \in St!Addresses
    BY Places
  <2> QED
    BY <1>1, <2>1, Sent
<1>5. Cardinality(Missing') = Cardinality(Missing) - 1
  <2>1. Missing' = Missing \ {i} /\ i \in Missing
    BY <1>1, <1>3, Places DEF Missing, St!At
  <2> QED
    BY <2>1, MissingFinite, FS_RemoveElement
<1>6. Gathering'
  <2>1. St!Stored \in Nat /\ Cardinality(Missing) \in Nat /\ arrived \in Nat
    BY <1>1, StoredType, MissingFinite DEF RaceTypeInv
  <2>2. place'[St!Judge] = place[St!Judge]
        /\ (place[St!Judge] = "fork" => place'[runners] = "unborn")
    BY <1>1, <1>2, <1>3, Places DEF Gathering
  <2>3. \A j \in St!Runners : place'[j] \in {"unborn", "open", "arrive", "baton"}
    BY <1>2, <1>3 DEF Gathering
  <2>4. arrived' + St!Stored' + Cardinality(Missing') = runners
    BY <1>1, <1>2, <1>4, <1>5, <2>1, Places DEF Gathering
  <2> QED
    BY <1>1, <1>2, <1>3, <1>4, <2>2, <2>3, <2>4 DEF Gathering
<1>7. RaceTypeInv'
  BY <1>1, <1>3, <1>4 DEF RaceTypeInv
<1> QED
  BY <1>2, <1>6, <1>7 DEF RaceInv, Phase

(* The baton goes from a box to a hand, and from there to the next box.    *)
LEMMA TakeBatonStep ==
  ASSUME St!StadiumAssumption, RaceInv, NEW i \in St!Runners, St!TakeBaton(i)
  PROVE  RaceInv' /\ Racing /\ Racing'
<1>1. RaceTypeInv /\ place[i] = "baton" /\ St!Goto(i, "baton", "pass") /\ St!Receive(i)
      /\ UNCHANGED <<exists, arrived>> /\ i \in St!Addresses
  BY Places DEF RaceInv, St!TakeBaton, St!Goto
<1>2. /\ box' \in [St!Addresses -> Seq(0..runners)]
      /\ Len(box[i]) >= 1 /\ Len(box'[i]) = Len(box[i]) - 1
      /\ \A b \in St!Addresses : b # i => box'[b] = box[b]
  BY <1>1, Received
<1>3. /\ place'[i] = "pass" /\ place' \in [{St!Judge} \cup St!Runners -> RaceLabels]
      /\ \A q \in {St!Judge} \cup St!Runners : q # i => place'[q] = place[q]
      /\ variant' = variant /\ St!ArrivalBox' = St!ArrivalBox
  BY <1>1, Moves DEF RaceLabels
<1>4. Racing /\ Turn(i) /\ OneAt(i)
  <2>1. Len(box[i]) # 0
    BY <1>2
  <2> QED
    BY <2>1, WhoTakes
<1>5. Silent'
  BY <1>2, <1>4 DEF Silent, OneAt
<1>6. Turn(i)'
  BY <1>3, <1>4, <1>5, Places DEF Turn
<1>7. Racing'
  <2>1. i \in 1..runners + 1
    BY Places
  <2> QED
    BY <1>1, <1>3, <1>4, <1>6, <2>1, Places DEF Racing
<1>8. RaceTypeInv'
  BY <1>1, <1>2, <1>3 DEF RaceTypeInv
<1> QED
  BY <1>4, <1>7, <1>8 DEF RaceInv, Phase

LEMMA PassStep ==
  ASSUME St!StadiumAssumption, RaceInv, NEW i \in St!Runners, St!Pass(i)
  PROVE  RaceInv' /\ Racing /\ Turn(i) /\ Racing' /\ Turn(i + 1)'
<1>1. RaceTypeInv /\ place[i] = "pass" /\ St!Goto(i, "pass", "exited")
      /\ St!Send(St!NextOf(i), i)
      /\ UNCHANGED <<exists, arrived>> /\ St!NextOf(i) \in St!Addresses
  BY Places DEF RaceInv, St!Pass, St!Goto
<1>2. Racing /\ Turn(i) /\ Silent
  BY <1>1, WhoPasses
<1>3. /\ place'[i] = "exited" /\ place' \in [{St!Judge} \cup St!Runners -> RaceLabels]
      /\ \A q \in {St!Judge} \cup St!Runners : q # i => place'[q] = place[q]
      /\ variant' = variant /\ St!ArrivalBox' = St!ArrivalBox
  BY <1>1, Moves DEF RaceLabels
<1>4. /\ box' \in [St!Addresses -> Seq(0..runners)]
      /\ Len(box'[St!NextOf(i)]) = Len(box[St!NextOf(i)]) + 1
      /\ \A b \in St!Addresses : b # St!NextOf(i) => box'[b] = box[b]
  <2>1. i \in 0..runners
    BY Places
  <2> QED
    BY <1>1, <2>1, Sent
<1>5. OneAt(St!NextOf(i))'
  <2>1. /\ Len(box'[St!NextOf(i)]) = 1
        /\ \A b \in St!Addresses : b # St!NextOf(i) => Len(box'[b]) = 0
    BY <1>1, <1>2, <1>4 DEF Silent
  <2> QED
    BY <2>1 DEF OneAt, St!NextOf, St!Judge
<1>6. \A j \in St!Runners : /\ j < i + 1 => place'[j] = "exited"
                            /\ j >= i + 1 => place'[j] = "baton"
  BY <1>2, <1>3, Places DEF Turn
<1>7. Turn(i + 1)'
  <2>1. CASE i < runners
    <3>1. i + 1 \in St!Runners /\ St!NextOf(i) = i + 1 /\ place'[i + 1] = "baton"
      BY <1>6, <2>1, Places DEF St!NextOf
    <3>2. OneAt(i + 1)'
      BY <1>5, <3>1 DEF OneAt, St!NextOf, St!Judge
    <3> QED
      BY <1>6, <3>1, <3>2, Places DEF Turn
  <2>2. CASE ~(i < runners)
    <3>1. i + 1 = runners + 1 /\ St!NextOf(i) = St!Judge
      BY <2>2, Places DEF St!NextOf
    <3>2. OneAt(St!Judge)'
      BY <1>5, <3>1 DEF OneAt, St!NextOf, St!Judge
    <3> QED
      BY <1>6, <3>1, <3>2, Places DEF Turn
  <2> QED
    BY <2>1, <2>2
<1>8. Racing'
  <2>1. i + 1 \in 1..runners + 1
    BY Places
  <2> QED
    BY <1>1, <1>2, <1>3, <1>7, <2>1, Places DEF Racing
<1>9. RaceTypeInv'
  BY <1>1, <1>3, <1>4 DEF RaceTypeInv
<1> QED
  BY <1>2, <1>7, <1>8, <1>9 DEF RaceInv, Phase

(* No runner finds its queue gone: all have exited before the judge        *)
(* removes it.                                                             *)
LEMMA NotGone ==
  ASSUME St!StadiumAssumption, RaceInv, NEW i \in St!Runners, St!QueueGone(i)
  PROVE  FALSE
<1>1. ~exists /\ place[i] \in {"arrive", "baton", "pass"}
  BY DEF St!QueueGone, St!Goto
<1> QED
  BY <1>1 DEF RaceInv, Phase, Gathering, Lined, Racing, Over

-----------------------------------------------------------------------------
\* runners that have not been forked: the judge takes the first
LEMMA NextBorn ==
  ASSUME St!StadiumAssumption, Gathering, place[St!Judge] = "fork"
  PROVE  St!Min(St!Unborn) \in St!Runners /\ place[St!Min(St!Unborn)] = "unborn"
<1>1. runners \in St!Unborn /\ St!Unborn \subseteq Nat
  BY Places DEF Gathering, St!Unborn
<1>2. \E k \in St!Unborn : \A j \in St!Unborn : k <= j
  BY <1>1, Least
<1>3. St!Min(St!Unborn) \in St!Unborn
  BY <1>2 DEF St!Min
<1> QED
  BY <1>3 DEF St!Unborn

\* the place of the judge tells the phase
LEMMA JudgeAt ==
  ASSUME St!StadiumAssumption, RaceInv
  PROVE  /\ place[St!Judge] \in {"fork", "arrivals"} => Gathering
         /\ place[St!Judge] = "start" => Lined
         /\ place[St!Judge] = "finish" => Racing
         /\ place[St!Judge] \in {"remove", "wait"} => Over
  BY DEF RaceInv, Phase, Gathering, Lined, Racing, Over

(* The judge forks, or fails to, and counts the arrivals; with the last    *)
(* one the runners are lined up.                                           *)
LEMMA ForkStep ==
  ASSUME St!StadiumAssumption, RaceInv, St!Fork
  PROVE  RaceInv' /\ Gathering /\ Gathering' /\ Missing' = Missing
         /\ \A i \in St!Runners : place[i] = "exited" <=> place'[i] = "exited"
<1> DEFINE i == St!Min(St!Unborn)
           born == IF variant = "SysV" THEN "arrive" ELSE "open"
           next == IF i = runners THEN "arrivals" ELSE "fork"
<1>1. RaceTypeInv /\ place[St!Judge] = "fork" /\ Gathering
  BY JudgeAt DEF RaceInv, St!Fork
<1>2. i \in St!Runners /\ place[i] = "unborn"
  BY <1>1, NextBorn
<1>3. /\ place' = [place EXCEPT ![i] = born, ![St!Judge] = next]
      /\ UNCHANGED <<variant, box, exists, arrived>>
  BY DEF St!Fork
<1> HIDE DEF i
<1>4. /\ place'[i] = born /\ place'[St!Judge] = next
      /\ place' \in [{St!Judge} \cup St!Runners -> RaceLabels]
      /\ \A q \in St!Runners : q # i => place'[q] = place[q]
  BY <1>1, <1>2, <1>3, Places DEF RaceTypeInv, RaceLabels
<1>5. St!Stored' = St!Stored /\ Missing' = Missing /\ St!ArrivalBox' = St!ArrivalBox
  BY <1>2, <1>3, <1>4 DEF St!Stored, Missing, St!At, St!ArrivalBox
<1>6. Gathering'
  <2>1. place'[St!Judge] \in {"fork", "arrivals", "died"}
    BY <1>4
  <2>2. \A j \in St!Runners : place'[j] \in {"unborn", "open", "arrive", "baton"}
    BY <1>1, <1>4 DEF Gathering
  <2>3. place'[St!Judge] = "fork" => place'[runners] = "unborn"
    BY <1>1, <1>4, Places DEF Gathering
  <2> QED
    BY <1>1, <1>3, <1>5, <2>1, <2>2, <2>3 DEF Gathering
<1>7. RaceTypeInv'
  BY <1>1, <1>3, <1>4 DEF RaceTypeInv
<1> QED
  BY <1>1, <1>2, <1>4, <1>5, <1>6, <1>7 DEF RaceInv, Phase

LEMMA ForkFailsStep ==
  ASSUME St!StadiumAssumption, RaceInv, St!ForkFails
  PROVE  RaceInv' /\ Gathering /\ Gathering'
<1>1. RaceTypeInv /\ St!Goto(St!Judge, "fork", "died") /\ Gathering
      /\ UNCHANGED <<box, exists, arrived>>
  BY JudgeAt DEF RaceInv, St!ForkFails, St!Goto
<1>2. /\ place'[St!Judge] = "died"
      /\ place' \in [{St!Judge} \cup St!Runners -> RaceLabels]
      /\ \A q \in St!Runners : place'[q] = place[q]
      /\ variant' = variant /\ St!ArrivalBox' = St!ArrivalBox
  BY <1>1, JudgeMoves DEF RaceLabels
<1>3. St!Stored' = St!Stored /\ Missing' = Missing
  BY <1>1, <1>2 DEF St!Stored, Missing, St!At
<1>4. Gathering'
  BY <1>1, <1>2, <1>3 DEF Gathering
<1> QED
  BY <1>1, <1>2, <1>4 DEF RaceInv, Phase, RaceTypeInv

LEMMA TakeArrivalStep ==
  ASSUME St!StadiumAssumption, RaceInv, St!TakeArrival
  PROVE  RaceInv' /\ Gathering /\ (Gathering' \/ Lined')
<1> DEFINE next == IF arrived + 1 < runners THEN "arrivals" ELSE "start"
<1>1. RaceTypeInv /\ St!Goto(St!Judge, "arrivals", next) /\ Gathering
      /\ St!Receive(St!ArrivalBox)
      /\ arrived' = arrived + 1 /\ exists' = exists
  BY JudgeAt DEF RaceInv, St!TakeArrival, St!Goto
<1>2. /\ place'[St!Judge] = next
      /\ place' \in [{St!Judge} \cup St!Runners -> RaceLabels]
      /\ \A q \in St!Runners : place'[q] = place[q]
      /\ variant' = variant /\ St!ArrivalBox' = St!ArrivalBox
  BY <1>1, JudgeMoves DEF RaceLabels
<1>3. /\ box' \in [St!Addresses -> Seq(0..runners)] /\ St!Stored' = St!Stored - 1
      /\ Len(box[St!ArrivalBox]) >= 1
      /\ \A b \in St!Addresses : b # St!ArrivalBox => box'[b] = box[b]
  BY <1>1, Places, Received
<1>4. RaceTypeInv'
  BY <1>1, <1>2, <1>3 DEF RaceTypeInv
<1>5. Missing' = Missing
  BY <1>2 DEF Missing, St!At
<1>6. /\ arrived \in Nat /\ St!Stored \in Nat /\ Cardinality(Missing) \in Nat
      /\ runners \in Nat
      /\ arrived + St!Stored + Cardinality(Missing) = runners /\ arrived < runners
  BY <1>1, StoredType, MissingFinite, Places DEF RaceTypeInv, Gathering
<1>7. CASE arrived + 1 < runners
  <2>1. arrived' + St!Stored' + Cardinality(Missing') = runners /\ arrived' < runners
    BY <1>1, <1>3, <1>5, <1>6, <1>7
  <2>2. Gathering'
    BY <1>1, <1>2, <1>3, <1>7, <2>1 DEF Gathering
  <2> QED
    BY <1>1, <1>4, <2>2 DEF RaceInv, Phase
<1>8. CASE ~(arrived + 1 < runners)
  <2>1. St!Stored >= 1
    <3>1. Len(box[St!ArrivalBox]) \in Nat /\ Len(box[St!ArrivalBox]) <= St!Stored
      BY <1>1, StoredType, Places
    <3> QED
      BY <1>3, <1>6, <3>1
  <2>2. St!Stored' = 0 /\ Cardinality(Missing) = 0
    BY <1>3, <1>6, <1>8, <2>1
  <2>3. Missing = {}
    BY <2>2, MissingFinite, FS_EmptySet
  <2>4. \A i \in St!Runners : place'[i] = "baton"
    BY <1>1, <1>2, <2>3 DEF Gathering, Missing, St!At
  <2>5. Silent'
    <3>1. \A a \in St!Addresses : Len(box'[a]) \in Nat
      BY <1>3, LenProperties
    <3>2. IsFiniteSet(St!Addresses) /\ lens' \in [St!Addresses -> Nat]
          /\ \A a \in St!Addresses : lens'[a] = Len(box'[a])
      BY <3>1, Places DEF lens
    <3>3. \A a \in St!Addresses : SumFunction(lens') >= lens'[a]
      BY <3>2, SumAtLeast
    <3>4. SumFunction(lens') = 0
      BY <2>2, SumsAgree DEF St!Stored, lens
    <3> QED
      BY <3>1, <3>2, <3>3, <3>4 DEF Silent
  <2>6. Lined'
    BY <1>1, <1>2, <1>8, <2>4, <2>5 DEF Lined, Gathering
  <2> QED
    BY <1>1, <1>4, <2>6 DEF RaceInv, Phase
<1> QED
  BY <1>6, <1>7, <1>8

(* The judge gives the baton to the first and takes it from the last.      *)
LEMMA StartStep ==
  ASSUME St!StadiumAssumption, RaceInv, St!Start
  PROVE  RaceInv' /\ Lined /\ Racing' /\ Turn(1)'
<1>1. RaceTypeInv /\ St!Goto(St!Judge, "start", "finish") /\ Lined /\ St!Send(1, 0)
      /\ arrived' = arrived /\ exists' = exists
  BY JudgeAt DEF RaceInv, St!Start, St!Goto
<1>2. /\ place'[St!Judge] = "finish"
      /\ place' \in [{St!Judge} \cup St!Runners -> RaceLabels]
      /\ \A q \in St!Runners : place'[q] = place[q] /\ place'[q] = "baton"
      /\ variant' = variant
  BY <1>1, JudgeMoves DEF RaceLabels, Lined
<1>3. /\ box' \in [St!Addresses -> Seq(0..runners)] /\ Len(box'[1]) = Len(box[1]) + 1
      /\ \A b \in St!Addresses : b # 1 => box'[b] = box[b]
  <2>1. 1 \in St!Addresses /\ 0 \in 0..runners
    BY Places
  <2> QED
    BY <1>1, <2>1, Sent
<1>4. OneAt(1)'
  <2>1. 1 \in St!Addresses /\ \A b \in St!Addresses : Len(box[b]) = 0
    BY <1>1, Places DEF Lined, Silent
  <2>2. Len(box'[1]) = 1 /\ \A b \in St!Addresses : b # 1 => Len(box'[b]) = 0
    BY <1>3, <2>1
  <2> QED
    BY <2>2 DEF OneAt
<1>5. Turn(1)'
  BY <1>2, <1>4, Places DEF Turn
<1>6. Racing'
  <2>1. 1 \in 1..runners + 1
    BY Places
  <2> QED
    BY <1>1, <1>2, <1>5, <2>1 DEF Racing, Lined
<1>7. RaceTypeInv'
  BY <1>1, <1>2, <1>3 DEF RaceTypeInv
<1> QED
  BY <1>1, <1>5, <1>6, <1>7 DEF RaceInv, Phase

LEMMA TakeFinishStep ==
  ASSUME St!StadiumAssumption, RaceInv, St!TakeFinish
  PROVE  RaceInv' /\ Racing /\ Over' /\ \A i \in St!Runners : place[i] = "exited"
<1>1. RaceTypeInv /\ St!Goto(St!Judge, "finish", "remove") /\ Racing
      /\ St!Receive(St!Judge)
      /\ arrived' = arrived /\ exists' = exists /\ place[St!Judge] = "finish"
  BY JudgeAt DEF RaceInv, St!TakeFinish, St!Goto
<1>2. /\ place'[St!Judge] = "remove"
      /\ place' \in [{St!Judge} \cup St!Runners -> RaceLabels]
      /\ \A q \in St!Runners : place'[q] = place[q]
      /\ variant' = variant
  BY <1>1, JudgeMoves DEF RaceLabels
<1>3. /\ box' \in [St!Addresses -> Seq(0..runners)]
      /\ Len(box[St!Judge]) >= 1 /\ Len(box'[St!Judge]) = Len(box[St!Judge]) - 1
      /\ \A b \in St!Addresses : b # St!Judge => box'[b] = box[b]
  BY <1>1, Places, Received
<1>4. OneAt(St!Judge) /\ \A i \in St!Runners : place[i] = "exited"
  <2>1. Len(box[St!Judge]) # 0
    BY <1>3
  <2> QED
    BY <1>1, <2>1, LapDone
<1>5. Over'
  BY <1>2, <1>3, <1>4 DEF Over, OneAt, Silent
<1> QED
  BY <1>1, <1>2, <1>3, <1>4, <1>5 DEF RaceInv, Phase, RaceTypeInv

(* After the race the queues are empty, so that removing them loses none.  *)
LEMMA RemoveStep ==
  ASSUME St!StadiumAssumption, RaceInv, St!Remove
  PROVE  RaceInv' /\ Over /\ Over'
<1>1. RaceTypeInv /\ St!Goto(St!Judge, "remove", "wait") /\ Over /\ arrived' = arrived
  BY JudgeAt DEF RaceInv, St!Remove, St!Goto
<1>2. /\ place'[St!Judge] = "wait"
      /\ place' \in [{St!Judge} \cup St!Runners -> RaceLabels]
      /\ \A q \in St!Runners : place'[q] = place[q]
      /\ variant' = variant
  BY <1>1, JudgeMoves DEF RaceLabels
<1>3. box' \in [St!Addresses -> Seq(0..runners)] /\ \A a \in St!Addresses : Len(box'[a]) = 0
  BY <1>1, EmptySeq DEF St!Remove, RaceTypeInv, Over, Silent
<1> QED
  BY <1>1, <1>2, <1>3 DEF RaceInv, Phase, RaceTypeInv, Over, Silent

LEMMA WaitStep ==
  ASSUME St!StadiumAssumption, RaceInv, St!Wait
  PROVE  RaceInv' /\ Over /\ Over'
<1>1. RaceTypeInv /\ St!Goto(St!Judge, "wait", "exited") /\ Over
      /\ UNCHANGED <<box, exists, arrived>>
  BY JudgeAt DEF RaceInv, St!Wait, St!Goto
<1>2. /\ place'[St!Judge] = "exited"
      /\ place' \in [{St!Judge} \cup St!Runners -> RaceLabels]
      /\ \A q \in St!Runners : place'[q] = place[q]
      /\ variant' = variant
  BY <1>1, JudgeMoves DEF RaceLabels
<1> QED
  BY <1>1, <1>2 DEF RaceInv, Phase, RaceTypeInv, Over, Silent

\* no step, and then every step of both programs
LEMMA StutterRaceInv ==
  ASSUME St!StadiumAssumption, RaceInv, UNCHANGED St!vars
  PROVE  RaceInv'
  BY DEF RaceInv, RaceTypeInv, Phase, Gathering, Lined, Racing, Turn, Over, Silent, OneAt,
     Missing, St!At, St!Stored, St!ArrivalBox, St!vars

LEMMA NextRaceInv ==
  ASSUME St!StadiumAssumption, RaceInv, [St!Next]_(St!vars)
  PROVE  RaceInv'
<1>1. ASSUME St!judge PROVE RaceInv'
  BY <1>1, ForkStep, ForkFailsStep, TakeArrivalStep, StartStep, TakeFinishStep, RemoveStep,
     WaitStep DEF St!judge
<1>2. ASSUME NEW i \in St!Runners, St!runner_sysv(i) \/ St!runner_posix(i) PROVE RaceInv'
  BY <1>2, OpenStep, ArriveStep, TakeBatonStep, PassStep, NotGone
    DEF St!runner_sysv, St!runner_posix
<1> QED
  BY <1>1, <1>2, StutterRaceInv
    DEF St!Next, St!main_sysv, St!main_posix, St!Terminating

(* Where the runners and the messages are, in each phase of the race.      *)
THEOREM RaceInductive ==
  ASSUME St!StadiumAssumption
  PROVE  St!Spec => []RaceInv
  BY InitRaceInv, NextRaceInv, PTL DEF St!Spec

(* The messages on their way are the ones the phase of the race calls for. *)
THEOREM Messages ==
  ASSUME St!StadiumAssumption
  PROVE  St!Spec => []St!MessagesExact
<1>1. ASSUME RaceInv PROVE St!MessagesExact
  <2>1. St!Stored \in Nat /\ (St!Stored = 0 <=> Silent)
        /\ \A a \in St!Addresses : OneAt(a) => St!Stored = 1
    BY <1>1, StoredType DEF RaceInv
  <2>2. ASSUME Gathering PROVE St!MessagesExact
    BY <2>2, SizesAgree DEF Gathering, St!MessagesExact, Missing
  <2>3. ASSUME Lined \/ Over PROVE St!MessagesExact
    BY <2>1, <2>3 DEF Lined, Over, St!MessagesExact
  <2>4. ASSUME Racing PROVE St!MessagesExact
    <3>1. PICK k \in 1..runners + 1 : Turn(k)
      BY <2>4 DEF Racing
    <3> DEFINE hands == St!At(place, St!Runners, {"pass"})
    <3>2. SUFFICES St!Stored + Cardinality(hands) = 1
      BY <2>4, SizesAgree DEF Racing, St!MessagesExact
    <3>3. ASSUME NEW a \in St!Addresses, OneAt(a), \A i \in St!Runners : place[i] # "pass"
          PROVE  St!Stored + Cardinality(hands) = 1
      <4>1. hands = {}
        BY <3>3 DEF St!At
      <4> QED
        BY <2>1, <3>3, <4>1, FS_EmptySet
    <3>4. CASE k \in St!Runners /\ place[k] = "baton" /\ OneAt(k)
      BY <3>1, <3>3, <3>4, Places DEF Turn
    <3>5. CASE k \in St!Runners /\ place[k] = "pass" /\ Silent
      <4>1. hands = {k}
        BY <3>1, <3>5, Places DEF Turn, St!At
      <4>2. Cardinality(hands) = 1
        BY <4>1, FS_Singleton
      <4> QED
        BY <2>1, <3>5, <4>2
    <3>6. CASE k = runners + 1 /\ OneAt(St!Judge)
      <4>1. \A i \in St!Runners : place[i] # "pass"
        BY <3>1, <3>6, Places DEF Turn
      <4> QED
        BY <3>3, <3>6, <4>1, Places
    <3> QED
      BY <3>1, <3>4, <3>5, <3>6 DEF Turn
  <2> QED
    BY <1>1, <2>2, <2>3, <2>4 DEF RaceInv, Phase
<1> QED
  BY <1>1, RaceInductive, PTL

-----------------------------------------------------------------------------
present == St!At(place, St!Runners, {"baton", "pass", "exited"})
passed == St!At(place, St!Runners, {"exited"})
clock == CASE place[St!Judge] = "finish" -> "running"
           [] place[St!Judge] \in {"remove", "wait", "exited"} -> "stopped"
           [] OTHER -> "before"

\* the race sees a step of the judge only at the start and at the end
LEMMA JudgeHidden ==
  ASSUME St!StadiumAssumption, \A q \in St!Runners : place'[q] = place[q],
         \/ Gathering /\ (Gathering' \/ Lined')
         \/ Over /\ Over'
  PROVE  UNCHANGED <<present, passed, clock>>
<1>1. present' = present /\ passed' = passed
  BY DEF present, passed, St!At
<1>2. clock' = clock
  BY DEF Gathering, Lined, Over, clock
<1> QED
  BY <1>1, <1>2

\* and a step of a runner only when it arrives or passes the baton on
LEMMA RunnerSeen ==
  ASSUME St!StadiumAssumption,
         RaceInv, NEW i \in St!Runners, NEW from, NEW to \in RaceLabels,
         St!Goto(i, from, to)
  PROVE  /\ clock' = clock
         /\ present' = IF to \in {"baton", "pass", "exited"}
                         THEN present \cup {i} ELSE present \ {i}
         /\ passed' = IF to = "exited" THEN passed \cup {i} ELSE passed \ {i}
         /\ i \in present <=> from \in {"baton", "pass", "exited"}
         /\ i \in passed <=> from = "exited"
<1>1. RaceTypeInv /\ St!Judge # i
  BY Places DEF RaceInv
<1>2. /\ place[i] = from /\ place'[i] = to
      /\ \A q \in {St!Judge} \cup St!Runners : q # i => place'[q] = place[q]
  BY <1>1, Moves
<1>3. clock' = clock
  BY <1>1, <1>2 DEF clock
<1> QED
  BY <1>2, <1>3 DEF present, passed, St!At

(* Every step of a runner, and every step of the judge, is a step of the   *)
(* race or hidden from it.                                                 *)
LEMMA RunnerRefines ==
  ASSUME St!StadiumAssumption,
         RaceInv, NEW i \in St!Runners, St!runner_sysv(i) \/ St!runner_posix(i)
  PROVE  St!Race!Next \/ UNCHANGED <<present, passed, clock>>
<1>1. CASE St!Open(i)
  <2>1. St!Goto(i, "open", "arrive")
    BY <1>1, OpenStep DEF St!Open
  <2> QED
    BY <2>1, RunnerSeen DEF RaceLabels
<1>2. CASE St!Arrive(i)
  <2>1. St!Goto(i, "arrive", "baton")
    BY <1>2 DEF St!Arrive
  <2>2. /\ i \notin present /\ present' = present \cup {i}
        /\ passed' = passed /\ clock' = clock
    BY <2>1, RunnerSeen DEF RaceLabels
  <2>3. St!Race!Arrive(i)
    BY <2>2 DEF St!Race!Arrive, present, passed, clock
  <2> QED
    BY <2>3 DEF St!Race!Next, St!Race!Runners, St!Runners
<1>3. CASE St!TakeBaton(i)
  <2>1. St!Goto(i, "baton", "pass")
    BY <1>3 DEF St!TakeBaton
  <2> QED
    BY <2>1, RunnerSeen DEF RaceLabels
<1>4. CASE St!Pass(i)
  <2>1. St!Goto(i, "pass", "exited")
    BY <1>4 DEF St!Pass
  <2>2. /\ present' = present /\ passed' = passed \cup {i} /\ clock' = clock
    BY <2>1, RunnerSeen DEF RaceLabels
  <2>3. Turn(i) /\ place[i] = "pass" /\ place[St!Judge] = "finish"
    BY <1>4, <2>1, PassStep DEF Racing, St!Goto
  <2>4. passed = 1..i-1
    BY <2>3, Places DEF Turn, passed, St!At
  <2>5. passed' = 1..i
    BY <2>2, <2>4, Places
  <2>6. clock = "running"
    BY <2>3 DEF clock
  <2>7. St!Race!Pass(i)
    BY <2>2, <2>4, <2>5, <2>6 DEF St!Race!Pass, present, passed, clock
  <2> QED
    BY <2>7 DEF St!Race!Next, St!Race!Runners, St!Runners
<1> QED
  BY <1>1, <1>2, <1>3, <1>4, NotGone DEF St!runner_sysv, St!runner_posix

LEMMA JudgeRefines ==
  ASSUME St!StadiumAssumption, RaceInv, St!judge
  PROVE  St!Race!Next \/ UNCHANGED <<present, passed, clock>>
<1>1. CASE St!Fork
  <2>1. /\ Gathering /\ Gathering' /\ Missing' = Missing
        /\ \A i \in St!Runners : place[i] = "exited" <=> place'[i] = "exited"
    BY <1>1, ForkStep
  <2>2. passed' = passed /\ clock' = clock
    BY <2>1 DEF passed, St!At, clock, Gathering
  <2>3. present = St!Runners \ Missing /\ present' = St!Runners \ Missing'
    BY <2>1 DEF present, Missing, St!At, Gathering
  <2> QED
    BY <2>1, <2>2, <2>3
<1>2. ASSUME St!ForkFails \/ St!TakeArrival \/ St!Remove \/ St!Wait
      PROVE  UNCHANGED <<present, passed, clock>>
  <2>1. \A q \in St!Runners : place'[q] = place[q]
    BY <1>2, JudgeMoves
      DEF RaceInv, St!ForkFails, St!TakeArrival, St!Remove, St!Wait, RaceLabels
  <2>2. \/ Gathering /\ (Gathering' \/ Lined')
        \/ Over /\ Over'
    BY <1>2, ForkFailsStep, TakeArrivalStep, RemoveStep, WaitStep
  <2> QED
    BY <2>1, <2>2, JudgeHidden
<1>3. CASE St!Start
  <2>1. St!Goto(St!Judge, "start", "finish") /\ Lined
    BY <1>3, StartStep DEF St!Start
  <2>2. place[St!Judge] = "start" /\ place'[St!Judge] = "finish"
        /\ \A q \in St!Runners : place'[q] = place[q]
    BY <2>1, JudgeMoves DEF RaceInv, RaceLabels, St!Goto
  <2>3. clock = "before" /\ clock' = "running"
    BY <2>2 DEF clock
  <2>4. present = St!Runners /\ present' = present /\ passed' = passed
    BY <2>1, <2>2 DEF present, passed, St!At, Lined
  <2>5. St!Race!Start
    BY <2>3, <2>4 DEF St!Race!Start, St!Race!Runners, St!Runners, present, passed, clock
  <2> QED
    BY <2>5 DEF St!Race!Next
<1>4. CASE St!TakeFinish
  <2>1. St!Goto(St!Judge, "finish", "remove") /\ \A i \in St!Runners : place[i] = "exited"
    BY <1>4, TakeFinishStep DEF St!TakeFinish
  <2>2. place[St!Judge] = "finish" /\ place'[St!Judge] = "remove"
        /\ \A q \in St!Runners : place'[q] = place[q]
    BY <2>1, JudgeMoves DEF RaceInv, RaceLabels, St!Goto
  <2>3. clock = "running" /\ clock' = "stopped"
    BY <2>2 DEF clock
  <2>4. passed = St!Runners /\ present' = present /\ passed' = passed
    BY <2>1, <2>2 DEF present, passed, St!At
  <2>5. St!Race!Stop
    BY <2>3, <2>4 DEF St!Race!Stop, St!Race!Runners, St!Runners, present, passed, clock
  <2> QED
    BY <2>5 DEF St!Race!Next
<1> QED
  BY <1>1, <1>2, <1>3, <1>4 DEF St!judge

(* Both programs implement the relay race: all arrive before the start,    *)
(* each runner runs after the one before it, the clock stops after the     *)
(* last.                                                                   *)
THEOREM RaceRefinement ==
  ASSUME St!StadiumAssumption
  PROVE  St!Spec => St!ImplementsRelay
<1>1. St!Init => St!Race!Init
  <2> SUFFICES ASSUME St!Init PROVE present = {} /\ passed = {} /\ clock = "before"
    BY DEF St!Race!Init, present, passed, clock
  <2>1. place[St!Judge] = "fork" /\ \A i \in St!Runners : place[i] = "unborn"
    BY Places DEF St!Init
  <2> QED
    BY <2>1 DEF present, passed, St!At, clock
<1>2. ASSUME RaceInv, [St!Next]_(St!vars)
      PROVE  St!Race!Next \/ UNCHANGED <<present, passed, clock>>
  <2>1. UNCHANGED St!vars => UNCHANGED <<present, passed, clock>>
    BY DEF St!vars, present, passed, clock, St!At
  <2> QED
    BY <1>2, <2>1, RunnerRefines, JudgeRefines
      DEF St!Next, St!main_sysv, St!main_posix, St!Terminating
<1>3. ASSUME RaceInv, [St!Next]_(St!vars)
      PROVE  [St!Race!Next]_<<
               St!At(place, St!Runners, {"baton", "pass", "exited"}),
               St!At(place, St!Runners, {"exited"}),
               CASE place[St!Judge] = "finish" -> "running"
                 [] place[St!Judge] \in {"remove", "wait", "exited"} -> "stopped"
                 [] OTHER -> "before">>
  BY <1>2, <1>3 DEF present, passed, clock
<1> QED
  BY <1>1, <1>3, RaceInductive, PTL DEF St!Spec, St!ImplementsRelay, St!Race!Spec
=============================================================================
