---------------------------- MODULE VringProofs ----------------------------
(***************************************************************************)
(* What the operators of Vring do, for every ring size and index width:    *)
(* the arithmetic of free-running indices, the entries between two of them *)
(* and the operations on a queue.                                          *)
(***************************************************************************)
EXTENDS Vring, SequenceTheorems, FiniteSetTheorems, TLAPS

-----------------------------------------------------------------------------
(* Indices and slots.                                                      *)

\* Division with a remainder is unique.
LEMMA ModUnique ==
    ASSUME NEW k \in Int, NEW r \in 0..(Num - 1)
    PROVE  (k * Num + r) % Num = r
  <1> DEFINE x == k * Num + r
  <1> DEFINE d == x \div Num
  <1> DEFINE m == x % Num
  <1>0. Num \in Nat /\ Num > 0 /\ x \in Int
    BY RingAssumption
  <1>1. d \in Int /\ m \in 0..(Num - 1) /\ x = d * Num + m
    BY <1>0
  <1> HIDE DEF d, m
  <1>2. (k - d) * Num = m - r
    BY <1>0, <1>1
  <1>3. k - d < 1
    <2> SUFFICES ASSUME k - d >= 1 PROVE FALSE
      BY <1>1
    <2>1. (k - d) * Num >= Num
      BY <1>0, <1>1
    <2> QED  BY <1>0, <1>1, <1>2, <2>1
  <1>4. k - d > -1
    <2> SUFFICES ASSUME k - d <= -1 PROVE FALSE
      BY <1>1
    <2>1. (k - d) * Num <= -Num
      BY <1>0, <1>1
    <2> QED  BY <1>0, <1>1, <1>2, <2>1
  <1>5. k = d
    BY <1>1, <1>3, <1>4
  <1>6. m = r
    BY <1>0, <1>1, <1>5
  <1> QED  BY <1>6 DEF m

\* Division with a remainder.
LEMMA DivMod ==
    ASSUME NEW x \in Int
    PROVE  /\ x \div Num \in Int
           /\ x % Num \in 0..(Num - 1)
           /\ x = (x \div Num) * Num + (x % Num)
  <1> DEFINE d == x \div Num
  <1> DEFINE m == x % Num
  <1>0. Num \in Nat /\ Num > 0
    BY RingAssumption
  <1>1. d \in Int /\ m \in 0..(Num - 1) /\ x = d * Num + m
    BY <1>0
  <1> QED  BY <1>1

\* Adding to an index moves its slot on around the ring.
LEMMA SlotAdd ==
    ASSUME NEW x \in Nat, NEW d \in 0..Num
    PROVE  /\ x % Num \in Heads
           /\ (x + d) % Num = IF (x % Num) + d < Num THEN (x % Num) + d
                             ELSE (x % Num) + d - Num
  <1> DEFINE k == x \div Num
  <1> DEFINE r == x % Num
  <1>0. Num \in Nat /\ Num > 0
    BY RingAssumption
  <1>1. k \in Int /\ r \in 0..(Num - 1) /\ x = k * Num + r
    BY <1>0
  <1> HIDE DEF k, r
  <1>2. CASE r + d < Num
    <2>1. x + d = k * Num + (r + d) /\ r + d \in 0..(Num - 1)
      BY <1>0, <1>1, <1>2
    <2>2. (k * Num + (r + d)) % Num = r + d
      BY <1>1, <2>1, ModUnique
    <2> QED  BY <1>1, <1>2, <2>1, <2>2 DEF r, Heads
  <1>3. CASE ~(r + d < Num)
    <2>1. x + d = (k + 1) * Num + (r + d - Num) /\ r + d - Num \in 0..(Num - 1)
      BY <1>0, <1>1, <1>3
    <2>2. ((k + 1) * Num + (r + d - Num)) % Num = r + d - Num
      BY <1>1, <2>1, ModUnique
    <2> QED  BY <1>1, <1>3, <2>1, <2>2 DEF r, Heads
  <1> QED  BY <1>2, <1>3

\* Where the indices wrap the slots do too: IdxMod is a multiple of Num.
LEMMA SlotWrap ==
    ASSUME NEW x \in Nat
    PROVE  (x + IdxMod) % Num = x % Num
  <1> DEFINE k == x \div Num
  <1> DEFINE r == x % Num
  <1> DEFINE c == IdxMod \div Num
  <1>0. Num \in Nat /\ Num > 0 /\ IdxMod \in Nat
    BY RingAssumption
  <1>1. k \in Int /\ r \in 0..(Num - 1) /\ x = k * Num + r
    BY <1>0
  <1>2. c \in Int /\ IdxMod = c * Num
    <2>1. IdxMod = (IdxMod \div Num) * Num + (IdxMod % Num)
      BY <1>0, DivMod
    <2>2. IdxMod \div Num \in Int
      BY <1>0, DivMod
    <2>3. IdxMod % Num = 0
      BY RingAssumption
    <2> QED  BY <1>0, <2>1, <2>2, <2>3
  <1> HIDE DEF k, r, c
  <1>3. x + IdxMod = (k + c) * Num + r
    BY <1>0, <1>1, <1>2
  <1>4. ((k + c) * Num + r) % Num = r
    BY <1>1, <1>2, ModUnique
  <1> QED  BY <1>3, <1>4 DEF r

\* The arithmetic of free-running indices.
LEMMA IndexArithmetic ==
    /\ \A a, b \in Indices : Dist(a, b) = IF b >= a THEN b - a ELSE (b - a) + IdxMod
    /\ \A a \in Indices : IncIdx(a) = IF a = IdxMod - 1 THEN 0 ELSE a + 1
  <1>0. IdxMod \in Nat /\ IdxMod > 1
    BY RingAssumption
  <1>1. \A x \in 0..(IdxMod - 1) : x % IdxMod = x
    BY <1>0
  <1>2. IdxMod % IdxMod = 0
    BY <1>0
  <1>3. \A x \in (1 - IdxMod)..(-1) : x % IdxMod = x + IdxMod
    BY <1>0
  <1>4. \A a, b \in Indices : Dist(a, b) = IF b >= a THEN b - a ELSE (b - a) + IdxMod
    BY <1>0, <1>1, <1>3 DEF Indices, Dist
  <1>5. \A a \in Indices : IncIdx(a) = IF a = IdxMod - 1 THEN 0 ELSE a + 1
    BY <1>0, <1>1, <1>2 DEF Indices, IncIdx
  <1> QED  BY <1>4, <1>5

\* Distances: when they are 0, when they grow and shrink, how they add up.
LEMMA DistFacts ==
    ASSUME NEW a \in Indices, NEW b \in Indices
    PROVE  /\ Dist(a, b) \in 0..(IdxMod - 1)
           /\ Dist(a, b) = 0 <=> a = b
           /\ IncIdx(a) \in Indices
           /\ Dist(a, b) < IdxMod - 1 => Dist(a, IncIdx(b)) = Dist(a, b) + 1
           /\ a # b => Dist(IncIdx(a), b) = Dist(a, b) - 1
           /\ \A c \in Indices : Dist(a, b) + Dist(b, c) < IdxMod =>
                  Dist(a, c) = Dist(a, b) + Dist(b, c)
  <1>0. IdxMod \in Nat /\ IdxMod > 1
    BY RingAssumption
  <1>1. IncIdx(a) \in Indices /\ IncIdx(b) \in Indices
    <2>1. IncIdx(a) = IF a = IdxMod - 1 THEN 0 ELSE a + 1
      BY IndexArithmetic
    <2>2. IncIdx(b) = IF b = IdxMod - 1 THEN 0 ELSE b + 1
      BY IndexArithmetic
    <2> QED  BY <1>0, <2>1, <2>2 DEF Indices
  <1>2. Dist(a, b) = IF b >= a THEN b - a ELSE (b - a) + IdxMod
    BY IndexArithmetic
  <1>3. Dist(a, b) \in 0..(IdxMod - 1) /\ (Dist(a, b) = 0 <=> a = b)
    BY <1>0, <1>2 DEF Indices
  <1>4. Dist(a, b) < IdxMod - 1 => Dist(a, IncIdx(b)) = Dist(a, b) + 1
    <2>1. IncIdx(b) = IF b = IdxMod - 1 THEN 0 ELSE b + 1
      BY IndexArithmetic
    <2>2. Dist(a, IncIdx(b)) =
              IF IncIdx(b) >= a THEN IncIdx(b) - a ELSE (IncIdx(b) - a) + IdxMod
      BY <1>1, IndexArithmetic
    <2> QED  BY <1>0, <1>2, <2>1, <2>2 DEF Indices
  <1>5. a # b => Dist(IncIdx(a), b) = Dist(a, b) - 1
    <2>1. IncIdx(a) = IF a = IdxMod - 1 THEN 0 ELSE a + 1
      BY IndexArithmetic
    <2>2. Dist(IncIdx(a), b) =
              IF b >= IncIdx(a) THEN b - IncIdx(a) ELSE (b - IncIdx(a)) + IdxMod
      BY <1>1, IndexArithmetic
    <2> QED  BY <1>0, <1>2, <2>1, <2>2 DEF Indices
  <1>6. ASSUME NEW c \in Indices, Dist(a, b) + Dist(b, c) < IdxMod
        PROVE  Dist(a, c) = Dist(a, b) + Dist(b, c)
    <2>1. /\ Dist(a, c) = IF c >= a THEN c - a ELSE (c - a) + IdxMod
          /\ Dist(b, c) = IF c >= b THEN c - b ELSE (c - b) + IdxMod
      BY IndexArithmetic
    <2> QED  BY <1>0, <1>2, <1>6, <2>1 DEF Indices
  <1> QED  BY <1>1, <1>3, <1>4, <1>5, <1>6

\* The slot of an index, reached from another one.
LEMMA SlotFrom ==
    ASSUME NEW a \in Indices, NEW b \in Indices
    PROVE  /\ (a + Dist(a, b)) % Num = b % Num
           /\ \A d \in Nat : (IncIdx(a) + d) % Num = (a + d + 1) % Num
           /\ \A d \in Nat : (b + d) % Num = (a + Dist(a, b) + d) % Num
  <1>0. IdxMod \in Nat /\ IdxMod > 1
    BY RingAssumption
  <1>1. \A d \in Nat : (b + d) % Num = (a + Dist(a, b) + d) % Num
    <2> SUFFICES ASSUME NEW d \in Nat PROVE (b + d) % Num = (a + Dist(a, b) + d) % Num
      OBVIOUS
    <2>1. CASE b >= a
      <3>1. a + Dist(a, b) + d = b + d
        BY <1>0, <2>1, IndexArithmetic DEF Indices
      <3> QED  BY <3>1
    <2>2. CASE ~(b >= a)
      <3>1. a + Dist(a, b) + d = (b + d) + IdxMod /\ b + d \in Nat
        BY <1>0, <2>2, IndexArithmetic DEF Indices
      <3> QED  BY <3>1, SlotWrap
    <2> QED  BY <2>1, <2>2
  <1>2. (a + Dist(a, b)) % Num = b % Num
    <2>1. (b + 0) % Num = (a + Dist(a, b) + 0) % Num
      BY <1>1
    <2>2. b + 0 = b /\ a + Dist(a, b) + 0 = a + Dist(a, b)
      BY <1>0, DistFacts DEF Indices
    <2> QED  BY <2>1, <2>2
  <1>3. ASSUME NEW d \in Nat PROVE (IncIdx(a) + d) % Num = (a + d + 1) % Num
    <2>1. CASE a = IdxMod - 1
      <3>1. a + d + 1 = d + IdxMod /\ IncIdx(a) + d = d
        BY <1>0, <2>1, IndexArithmetic DEF Indices
      <3> QED  BY <3>1, SlotWrap
    <2>2. CASE a # IdxMod - 1
      <3>1. a + d + 1 = IncIdx(a) + d
        BY <1>0, <2>2, IndexArithmetic DEF Indices
      <3> QED  BY <3>1
    <2> QED  BY <2>1, <2>2
  <1> QED  BY <1>1, <1>2, <1>3

\* Within one turn of the ring no slot comes twice.
LEMMA SlotsDiffer ==
    ASSUME NEW a \in Nat, NEW i \in 0..Num, NEW j \in 0..Num,
           i < j, j - i < Num
    PROVE  (a + i) % Num # (a + j) % Num
  <1>0. Num \in Nat /\ Num > 0
    BY RingAssumption
  <1>1. a + i \in Nat /\ j - i \in 1..(Num - 1) /\ a + j = (a + i) + (j - i)
    BY <1>0
  <1>2. /\ (a + i) % Num \in Heads
        /\ (a + j) % Num = IF ((a + i) % Num) + (j - i) < Num THEN ((a + i) % Num) + (j - i)
                           ELSE ((a + i) % Num) + (j - i) - Num
    <2>1. j - i \in 0..Num
      BY <1>0, <1>1
    <2> QED  BY <1>1, <2>1, SlotAdd
  <1> QED  BY <1>0, <1>1, <1>2 DEF Heads

-----------------------------------------------------------------------------
(* The entries between two indices.                                        *)

\* The entries of a ring between two indices are a sequence of heads.
LEMMA BetweenType ==
    ASSUME NEW ring \in [Heads -> Heads], NEW a \in Indices, NEW b \in Indices
    PROVE  /\ Between(ring, a, b) \in Seq(Heads)
           /\ Len(Between(ring, a, b)) = Dist(a, b)
           /\ Dist(a, b) \in Nat
           /\ DOMAIN Between(ring, a, b) = 1..Dist(a, b)
           /\ \A i \in 1..Dist(a, b) : Between(ring, a, b)[i] = ring[(a + i - 1) % Num]
  <1>0. Dist(a, b) \in Nat
    BY DistFacts, RingAssumption
  <1>1. \A i \in 1..Dist(a, b) : (a + i - 1) % Num \in Heads
    <2> SUFFICES ASSUME NEW i \in 1..Dist(a, b) PROVE (a + i - 1) % Num \in Heads
      OBVIOUS
    <2>1. a + i - 1 \in Nat /\ 0 \in 0..Num
      BY <1>0, RingAssumption DEF Indices
    <2> QED  BY <2>1, SlotAdd
  <1>2. Between(ring, a, b) \in [1..Dist(a, b) -> Heads]
    BY <1>1 DEF Between
  <1>3. Between(ring, a, b) \in Seq(Heads) /\ Len(Between(ring, a, b)) = Dist(a, b)
    BY <1>0, <1>2
  <1> QED  BY <1>0, <1>2, <1>3 DEF Between

\* Writing the slot of index b leaves the entries of the turn of the ring that
\* ends at b alone: those from a to c, with a no more than Num before b.
LEMMA BetweenKept ==
    ASSUME NEW ring \in [Heads -> Heads], NEW h \in Heads,
           NEW a \in Indices, NEW c \in Indices, NEW b \in Indices,
           Dist(a, c) <= Dist(a, b), Dist(a, b) < Num
    PROVE  Between([ring EXCEPT ![b % Num] = h], a, c) = Between(ring, a, c)
  <1> DEFINE new == [ring EXCEPT ![b % Num] = h]
  <1>0. Num \in Nat /\ Num > 0 /\ Dist(a, c) \in Nat /\ Dist(a, b) \in Nat /\ a \in Nat
    BY DistFacts, RingAssumption DEF Indices
  <1>1. \A i \in 1..Dist(a, c) : (a + i - 1) % Num \in Heads /\ new[(a + i - 1) % Num] = ring[(a + i - 1) % Num]
    <2> SUFFICES ASSUME NEW i \in 1..Dist(a, c)
                 PROVE  /\ (a + i - 1) % Num \in Heads
                        /\ new[(a + i - 1) % Num] = ring[(a + i - 1) % Num]
      OBVIOUS
    <2>1. /\ i - 1 \in 0..Num /\ Dist(a, b) \in 0..Num
          /\ i - 1 < Dist(a, b) /\ Dist(a, b) - (i - 1) < Num
      BY <1>0
    <2>2. (a + (i - 1)) % Num # (a + Dist(a, b)) % Num
      BY <1>0, <2>1, SlotsDiffer
    <2>3. (a + Dist(a, b)) % Num = b % Num
      BY SlotFrom
    <2>4. a + (i - 1) = a + i - 1 /\ a + i - 1 \in Nat /\ 0 \in 0..Num
      BY <1>0
    <2>5. (a + i - 1) % Num \in Heads
      BY <2>4, SlotAdd
    <2> QED  BY <2>2, <2>3, <2>4, <2>5
  <1> QED  BY <1>1 DEF Between

\* Writing the slot of b and moving b on appends to the entries from a.
LEMMA BetweenGrows ==
    ASSUME NEW ring \in [Heads -> Heads], NEW h \in Heads,
           NEW a \in Indices, NEW b \in Indices, Dist(a, b) < Num
    PROVE  Between([ring EXCEPT ![b % Num] = h], a, IncIdx(b))
               = Append(Between(ring, a, b), h)
  <1> DEFINE new == [ring EXCEPT ![b % Num] = h]
  <1> DEFINE s == Between(ring, a, b)
  <1> DEFINE t == Between(new, a, IncIdx(b))
  <1>0. Num \in Nat /\ Num > 0 /\ Num < IdxMod /\ IdxMod \in Nat
        /\ Dist(a, b) \in Nat /\ a \in Nat /\ b \in Nat
    BY DistFacts, RingAssumption DEF Indices
  <1>1. Dist(a, IncIdx(b)) = Dist(a, b) + 1 /\ IncIdx(b) \in Indices
    BY <1>0, DistFacts
  <1>2. b % Num \in Heads
    <2>1. 0 \in 0..Num
      BY <1>0
    <2> QED  BY <1>0, <2>1, SlotAdd
  <1>3. new \in [Heads -> Heads] /\ new[b % Num] = h
    BY <1>2
  <1>4. Between(new, a, b) = s
    <2>1. Dist(a, b) <= Dist(a, b)
      BY <1>0
    <2> QED  BY <2>1, BetweenKept
  <1>5. /\ s \in Seq(Heads) /\ Len(s) = Dist(a, b)
        /\ \A i \in 1..Dist(a, b) : s[i] = new[(a + i - 1) % Num]
    <2> HIDE DEF new
    <2> QED  BY <1>3, <1>4, BetweenType
  <1>6. /\ t \in Seq(Heads) /\ Len(t) = Dist(a, b) + 1
        /\ \A i \in 1..(Dist(a, b) + 1) : t[i] = new[(a + i - 1) % Num]
    <2> HIDE DEF new
    <2>1. /\ t \in Seq(Heads) /\ Len(t) = Dist(a, IncIdx(b))
          /\ \A i \in 1..Dist(a, IncIdx(b)) : t[i] = new[(a + i - 1) % Num]
      BY <1>1, <1>3, BetweenType
    <2> HIDE DEF t
    <2> QED  BY <1>1, <2>1
  <1>7. t[Dist(a, b) + 1] = h
    <2>1. a + (Dist(a, b) + 1) - 1 = a + Dist(a, b)
      BY <1>0
    <2>2. (a + Dist(a, b)) % Num = b % Num
      BY SlotFrom
    <2>3. Dist(a, b) + 1 \in 1..(Dist(a, b) + 1)
      BY <1>0
    <2> HIDE DEF new, t
    <2> QED  BY <1>3, <1>6, <2>1, <2>2, <2>3
  <1> HIDE DEF s, t, new
  <1>8. \A i \in 1..Len(s) : t[i] = s[i]
    <2> SUFFICES ASSUME NEW i \in 1..Dist(a, b) PROVE t[i] = s[i]
      BY <1>5
    <2>1. i \in 1..(Dist(a, b) + 1)
      BY <1>0
    <2>2. t[i] = new[(a + i - 1) % Num]
      BY <1>6, <2>1
    <2>3. s[i] = new[(a + i - 1) % Num]
      BY <1>5
    <2> QED  BY <2>2, <2>3
  <1>9. t = Append(s, h)
    <2>1. Append(s, h) \in Seq(Heads) /\ Len(Append(s, h)) = Len(s) + 1
      BY <1>5
    <2>2. \A i \in 1..Len(t) : t[i] = Append(s, h)[i]
      BY <1>0, <1>5, <1>6, <1>7, <1>8
    <2> QED  BY <1>5, <1>6, <2>1, <2>2, SeqEqual
  <1> QED  BY <1>9 DEF s, t, new

\* Moving a on takes the first entry away.
LEMMA BetweenShrinks ==
    ASSUME NEW ring \in [Heads -> Heads], NEW a \in Indices, NEW b \in Indices, a # b
    PROVE  /\ Between(ring, a, b) # << >>
           /\ Head(Between(ring, a, b)) = ring[a % Num]
           /\ Between(ring, IncIdx(a), b) = Tail(Between(ring, a, b))
  <1> DEFINE s == Between(ring, a, b)
  <1> DEFINE t == Between(ring, IncIdx(a), b)
  <1>0. Num \in Nat /\ Num > 0 /\ Dist(a, b) \in Nat /\ Dist(a, b) > 0 /\ a \in Nat
    BY DistFacts, RingAssumption DEF Indices
  <1>1. Dist(IncIdx(a), b) = Dist(a, b) - 1 /\ IncIdx(a) \in Indices
    BY DistFacts
  <1>2. /\ s \in Seq(Heads) /\ Len(s) = Dist(a, b)
        /\ \A i \in 1..Dist(a, b) : s[i] = ring[(a + i - 1) % Num]
    BY BetweenType
  <1>3. /\ t \in Seq(Heads) /\ Len(t) = Dist(a, b) - 1
        /\ \A i \in 1..(Dist(a, b) - 1) : t[i] = ring[(IncIdx(a) + i - 1) % Num]
    <2>1. /\ t \in Seq(Heads) /\ Len(t) = Dist(IncIdx(a), b)
          /\ \A i \in 1..Dist(IncIdx(a), b) : t[i] = ring[(IncIdx(a) + i - 1) % Num]
      BY <1>1, BetweenType
    <2> HIDE DEF t
    <2> QED  BY <1>1, <2>1
  <1>4. \A i \in 1..(Dist(a, b) - 1) : t[i] = s[i + 1]
    <2> SUFFICES ASSUME NEW i \in 1..(Dist(a, b) - 1) PROVE t[i] = s[i + 1]
      OBVIOUS
    <2>1. /\ i - 1 \in Nat /\ IncIdx(a) + i - 1 = IncIdx(a) + (i - 1)
          /\ a + (i + 1) - 1 = a + (i - 1) + 1 /\ i + 1 \in 1..Dist(a, b)
      BY <1>0, <1>1 DEF Indices
    <2>2. (IncIdx(a) + (i - 1)) % Num = (a + (i - 1) + 1) % Num
      BY <2>1, SlotFrom
    <2> HIDE DEF s, t
    <2> QED  BY <1>2, <1>3, <2>1, <2>2
  <1>5. s[1] = ring[a % Num]
    <2>1. a + 1 - 1 = a /\ 1 \in 1..Dist(a, b)
      BY <1>0
    <2> HIDE DEF s
    <2> QED  BY <1>2, <2>1
  <1> HIDE DEF s, t
  <1>6. s # << >> /\ Head(s) = s[1]
    BY <1>0, <1>2
  <1>7. t = Tail(s)
    <2>1. Tail(s) \in Seq(Heads) /\ Len(Tail(s)) = Len(s) - 1
      BY <1>0, <1>2, <1>6
    <2>2. \A i \in 1..Len(t) : t[i] = Tail(s)[i]
      BY <1>0, <1>2, <1>3, <1>4, <1>6
    <2> QED  BY <1>2, <1>3, <2>1, <2>2, SeqEqual
  <1> QED  BY <1>5, <1>6, <1>7 DEF s, t

\* The entries from a to b and on to c are those from a to c.
LEMMA BetweenConcat ==
    ASSUME NEW ring \in [Heads -> Heads],
           NEW a \in Indices, NEW b \in Indices, NEW c \in Indices,
           Dist(a, b) + Dist(b, c) < IdxMod
    PROVE  Between(ring, a, b) \o Between(ring, b, c) = Between(ring, a, c)
  <1> DEFINE s == Between(ring, a, b)
  <1> DEFINE t == Between(ring, b, c)
  <1> DEFINE u == Between(ring, a, c)
  <1>0. Dist(a, b) \in Nat /\ Dist(b, c) \in Nat /\ a \in Nat /\ b \in Nat
    BY DistFacts, RingAssumption DEF Indices
  <1>1. Dist(a, c) = Dist(a, b) + Dist(b, c)
    <2>1. \A x \in Indices : Dist(a, b) + Dist(b, x) < IdxMod =>
              Dist(a, x) = Dist(a, b) + Dist(b, x)
      BY DistFacts, ZenonT(40)
    <2> QED  BY <2>1
  <1>2. /\ s \in Seq(Heads) /\ Len(s) = Dist(a, b)
        /\ \A i \in 1..Dist(a, b) : s[i] = ring[(a + i - 1) % Num]
    BY BetweenType
  <1>3. /\ t \in Seq(Heads) /\ Len(t) = Dist(b, c)
        /\ \A i \in 1..Dist(b, c) : t[i] = ring[(b + i - 1) % Num]
    BY BetweenType
  <1>4. /\ u \in Seq(Heads) /\ Len(u) = Dist(a, b) + Dist(b, c)
        /\ \A i \in 1..(Dist(a, b) + Dist(b, c)) : u[i] = ring[(a + i - 1) % Num]
    <2>1. /\ u \in Seq(Heads) /\ Len(u) = Dist(a, c)
          /\ \A i \in 1..Dist(a, c) : u[i] = ring[(a + i - 1) % Num]
      BY BetweenType
    <2> HIDE DEF u
    <2> QED  BY <1>1, <2>1
  <1> HIDE DEF s, t, u
  <1>5. \A i \in 1..Dist(b, c) : u[Dist(a, b) + i] = t[i]
    <2> SUFFICES ASSUME NEW i \in 1..Dist(b, c) PROVE u[Dist(a, b) + i] = t[i]
      OBVIOUS
    <2>1. /\ Dist(a, b) + i \in 1..(Dist(a, b) + Dist(b, c)) /\ i - 1 \in Nat
          /\ a + (Dist(a, b) + i) - 1 = a + Dist(a, b) + (i - 1)
          /\ b + i - 1 = b + (i - 1)
      BY <1>0
    <2>2. (b + (i - 1)) % Num = (a + Dist(a, b) + (i - 1)) % Num
      BY <2>1, SlotFrom
    <2> QED  BY <1>3, <1>4, <2>1, <2>2
  <1>6. s \o t \in Seq(Heads) /\ Len(s \o t) = Dist(a, b) + Dist(b, c)
    BY <1>2, <1>3, ConcatProperties
  <1>7. \A i \in 1..Len(s \o t) : (s \o t)[i] = u[i]
    <2> SUFFICES ASSUME NEW i \in 1..(Dist(a, b) + Dist(b, c)) PROVE (s \o t)[i] = u[i]
      BY <1>6
    <2>0. (s \o t)[i] = IF i <= Len(s) THEN s[i] ELSE t[i - Len(s)]
      BY <1>2, <1>3, ConcatProperties
    <2>1. CASE i <= Dist(a, b)
      <3>1. i \in 1..Dist(a, b)
        BY <1>0, <2>1
      <3>2. s[i] = ring[(a + i - 1) % Num] /\ u[i] = ring[(a + i - 1) % Num]
        BY <1>2, <1>4, <3>1
      <3> QED  BY <1>2, <2>0, <2>1, <3>2
    <2>2. CASE i > Dist(a, b)
      <3>1. i - Dist(a, b) \in 1..Dist(b, c) /\ Dist(a, b) + (i - Dist(a, b)) = i
        BY <1>0, <2>2
      <3>2. u[i] = t[i - Dist(a, b)]
        BY <1>5, <3>1
      <3>3. ~(i <= Len(s)) /\ Len(s) = Dist(a, b)
        BY <1>0, <1>2, <2>2
      <3> QED  BY <2>0, <3>2, <3>3
    <2>3. i <= Dist(a, b) \/ i > Dist(a, b)
      BY <1>0
    <2> QED  BY <2>1, <2>2, <2>3
  <1>8. s \o t = u
    BY <1>4, <1>6, <1>7, SeqEqual
  <1> QED  BY <1>8 DEF s, t, u

-----------------------------------------------------------------------------
(* The operations of Vring on a queue.                                     *)

\* Free-running indices stay in range when they wrap, and name a ring slot.
LEMMA IndexFacts ==
    /\ \A x \in Indices : IncIdx(x) \in Indices /\ x % Num \in Heads
    /\ 0 \in Indices /\ 0 \in Heads
  BY RingAssumption DEF Indices, Heads, IncIdx

\* pop_avail() moves the device's own index only.
LEMMA PopFacts ==
    ASSUME NEW q \in QueueType
    PROVE  /\ PopAvail(q) \in QueueType
           /\ PopAvail(q).ready = q.ready
           /\ HasUsed(PopAvail(q)) <=> HasUsed(q)
           /\ NextHead(q) \in Heads
  BY IndexFacts DEF QueueType, PopAvail, HasUsed, NextHead

\* push_used() keeps the queue's shape and leaves QUEUE_READY alone.
LEMMA PushFacts ==
    ASSUME NEW q \in QueueType, NEW h \in Heads
    PROVE  /\ PushUsed(q, h) \in QueueType
           /\ PushUsed(q, h).ready = q.ready
  BY IndexFacts DEF QueueType, PushUsed, PushIdx, PushElem

\* A driver that stages and publishes a chain touches no used element.
LEMMA OfferFacts ==
    ASSUME NEW q \in QueueType, NEW h \in Heads
    PROVE  /\ Publish(StageChain(q, h)) \in QueueType
           /\ Publish(StageChain(q, h)).ready = q.ready
           /\ HasUsed(Publish(StageChain(q, h))) <=> HasUsed(q)
  <1> DEFINE s == StageChain(q, h)
  <1>1. s \in QueueType /\ s.ready = q.ready /\ s.last_used = q.last_used
        /\ s.used_idx = q.used_idx
    BY IndexFacts DEF QueueType, StageChain
  <1> HIDE DEF s
  <1>2. /\ Publish(s) \in QueueType /\ Publish(s).ready = s.ready
        /\ Publish(s).last_used = s.last_used /\ Publish(s).used_idx = s.used_idx
    BY <1>1 DEF QueueType, Publish
  <1> QED  BY <1>1, <1>2 DEF s, HasUsed

\* Collecting a used chain keeps the queue's shape.
LEMMA CollectFacts ==
    ASSUME NEW q \in QueueType
    PROVE  /\ Collect(q) \in QueueType
           /\ Collect(q).ready = q.ready
  <1>1. UsedHead(q) \in Heads
    BY IndexFacts DEF QueueType, UsedHead
  <1> QED  BY <1>1, IndexFacts DEF QueueType, Collect

\* New rings hold no used chain; what the device knows of the queue stays.
LEMMA AllocFacts ==
    ASSUME NEW q \in QueueType
    PROVE  /\ AllocRings(q) \in QueueType
           /\ AllocRings(q).ready = q.ready
           /\ AllocRings(q).last_avail_idx = q.last_avail_idx
           /\ ~HasUsed(AllocRings(q)) /\ AllocRings(q).avail_idx = 0
  BY IndexFacts DEF QueueType, AllocRings, NewQueue, ZeroRing, HasUsed

\* A queue that was never set up.
LEMMA NewQueueFacts ==
    /\ NewQueue \in QueueType
    /\ ~HasUsed(NewQueue)
  BY IndexFacts DEF QueueType, NewQueue, ZeroRing, HasUsed

-----------------------------------------------------------------------------
(* Three facts about the parts of a sequence.                              *)

\* Appending to the last part appends to the whole.
LEMMA AppendToLast ==
    ASSUME NEW r \in Seq(Heads), NEW o \in Seq(Heads), NEW s \in Seq(Heads), NEW h \in Heads
    PROVE  r \o (o \o Append(s, h)) = Append(r \o (o \o s), h)
  <1>1. <<h>> \in Seq(Heads) /\ o \o s \in Seq(Heads) /\ r \o (o \o s) \in Seq(Heads)
    BY ConcatProperties
  <1>2. Append(s, h) = s \o <<h>> /\ Append(r \o (o \o s), h) = (r \o (o \o s)) \o <<h>>
    BY <1>1, AppendIsConcat
  <1>3. o \o (s \o <<h>>) = (o \o s) \o <<h>>
    BY <1>1, ConcatAssociative, SMTT(20)
  <1>4. (r \o (o \o s)) \o <<h>> = r \o ((o \o s) \o <<h>>)
    BY <1>1, ConcatAssociative, SMTT(20)
  <1> QED  BY <1>2, <1>3, <1>4

\* Moving the first of a part to the end of the part before it changes nothing.
LEMMA MoveFirst ==
    ASSUME NEW S, NEW r \in Seq(S), NEW o \in Seq(S), NEW s \in Seq(S), o # << >>
    PROVE  (r \o <<Head(o)>>) \o (Tail(o) \o s) = r \o (o \o s)
  <1>1. Head(o) \in S /\ Tail(o) \in Seq(S)
    BY HeadTailProperties
  <1>2. <<Head(o)>> \in Seq(S) /\ Tail(o) \o s \in Seq(S)
    BY <1>1, ConcatProperties
  <1>3. (r \o <<Head(o)>>) \o (Tail(o) \o s) = r \o (<<Head(o)>> \o (Tail(o) \o s))
    <2> DEFINE a == <<Head(o)>>
               b == Tail(o) \o s
    <2>1. a \in Seq(S) /\ b \in Seq(S)
      BY <1>2
    <2> HIDE DEF a, b
    <2>2. (r \o a) \o b = r \o (a \o b)
      BY <2>1, ConcatAssociative, SMTT(20)
    <2> QED  BY <2>2 DEF a, b
  <1>4. <<Head(o)>> \o (Tail(o) \o s) = (<<Head(o)>> \o Tail(o)) \o s
    BY <1>1, <1>2, ConcatAssociative
  <1>5. <<Head(o)>> \o Tail(o) = o
    <2> DEFINE u == <<Head(o)>> \o Tail(o)
    <2>1. u \in Seq(S) /\ Len(u) = 1 + (Len(o) - 1)
          /\ \A i \in 1..(1 + (Len(o) - 1)) :
                 u[i] = IF i <= 1 THEN <<Head(o)>>[i] ELSE Tail(o)[i - 1]
      <3>1. Len(<<Head(o)>>) = 1 /\ Len(Tail(o)) = Len(o) - 1
        BY <1>1, HeadTailProperties
      <3> QED  BY <1>1, <1>2, <3>1, ConcatProperties
    <2>2. /\ Len(o) \in Nat /\ Len(o) > 0 /\ Head(o) = o[1]
          /\ \A i \in 1..(Len(o) - 1) : Tail(o)[i] = o[i + 1]
      BY HeadTailProperties
    <2> HIDE DEF u
    <2>3. Len(u) = Len(o)
      BY <2>1, <2>2
    <2>4. \A i \in 1..Len(u) : u[i] = o[i]
      <3> SUFFICES ASSUME NEW i \in 1..Len(o) PROVE u[i] = o[i]
        BY <2>3
      <3>1. CASE i = 1
        BY <2>1, <2>2, <3>1
      <3>2. CASE i # 1
        <4>1. i - 1 \in 1..(Len(o) - 1) /\ ~(i <= 1) /\ (i - 1) + 1 = i
          BY <2>2, <3>2
        <4>2. Tail(o)[i - 1] = o[i]
          BY <2>2, <4>1
        <4> QED  BY <2>1, <2>2, <4>1, <4>2
      <3> QED  BY <3>1, <3>2
    <2>5. u = o
      BY <2>1, <2>3, <2>4, SeqEqual
    <2> QED  BY <2>5 DEF u
  <1> QED  BY <1>3, <1>4, <1>5

\* Taking the first away from the first part takes it away from the whole.
LEMMA TailOfFirst ==
    ASSUME NEW r \in Seq(Heads), NEW t \in Seq(Heads), NEW u \in Seq(Heads), r # << >>
    PROVE  /\ (r \o t) \o u # << >>
           /\ Head((r \o t) \o u) = Head(r)
           /\ (Tail(r) \o t) \o u = Tail((r \o t) \o u)
  <1> DEFINE w == t \o u
  <1>1. Tail(r) \in Seq(Heads) /\ Head(r) \in Heads /\ w \in Seq(Heads) /\ Len(Tail(r)) = Len(r) - 1
        /\ \A i \in 1..(Len(r) - 1) : Tail(r)[i] = r[i + 1]
    BY HeadTailProperties, ConcatProperties
  <1>2. (r \o t) \o u = r \o w /\ (Tail(r) \o t) \o u = Tail(r) \o w
    <2> DEFINE v == Tail(r)
    <2>1. v \in Seq(Heads)
      BY <1>1
    <2> HIDE DEF v
    <2>2. (r \o t) \o u = r \o (t \o u)
      BY ConcatAssociative
    <2>3. (v \o t) \o u = v \o (t \o u)
      BY <2>1, ConcatAssociative
    <2> QED  BY <2>2, <2>3 DEF v
  <1> HIDE DEF w
  <1>3. /\ r \o w \in Seq(Heads) /\ Len(r \o w) = Len(r) + Len(w)
        /\ \A i \in 1..(Len(r) + Len(w)) : (r \o w)[i] = IF i <= Len(r) THEN r[i] ELSE w[i - Len(r)]
    BY <1>1, ConcatProperties
  <1>4. /\ Tail(r) \o w \in Seq(Heads) /\ Len(Tail(r) \o w) = (Len(r) - 1) + Len(w)
        /\ \A i \in 1..((Len(r) - 1) + Len(w)) :
               (Tail(r) \o w)[i] = IF i <= Len(r) - 1 THEN Tail(r)[i] ELSE w[i - (Len(r) - 1)]
    BY <1>1, ConcatProperties
  <1>5. Len(r) \in Nat /\ Len(r) > 0 /\ Len(w) \in Nat /\ Head(r) = r[1]
    BY <1>1
  <1>6. r \o w # << >> /\ Head(r \o w) = Head(r)
    <2>1. Len(r \o w) > 0
      BY <1>3, <1>5
    <2>2. Head(r \o w) = (r \o w)[1] /\ r \o w # << >>
      BY <1>3, <2>1
    <2>3. (r \o w)[1] = r[1]
      BY <1>3, <1>5
    <2> QED  BY <1>5, <2>2, <2>3
  <1>7. Tail(r \o w) \in Seq(Heads) /\ Len(Tail(r \o w)) = Len(r) + Len(w) - 1
        /\ \A i \in 1..(Len(r) + Len(w) - 1) : Tail(r \o w)[i] = (r \o w)[i + 1]
    <2>1. /\ Tail(r \o w) \in Seq(Heads) /\ Len(Tail(r \o w)) = Len(r \o w) - 1
          /\ \A i \in 1..Len(Tail(r \o w)) : Tail(r \o w)[i] = (r \o w)[i + 1]
      BY <1>3, <1>6, HeadTailProperties
    <2> QED  BY <1>3, <1>5, <2>1
  <1>8. Tail(r) \o w = Tail(r \o w)
    <2>1. Len(Tail(r) \o w) = Len(Tail(r \o w))
      BY <1>4, <1>5, <1>7
    <2>2. \A i \in 1..Len(Tail(r) \o w) : (Tail(r) \o w)[i] = Tail(r \o w)[i]
      <3> SUFFICES ASSUME NEW i \in 1..((Len(r) - 1) + Len(w))
                   PROVE  (Tail(r) \o w)[i] = Tail(r \o w)[i]
        BY <1>4
      <3>1. /\ i \in 1..(Len(r) + Len(w) - 1) /\ i + 1 \in 1..(Len(r) + Len(w))
            /\ (i + 1) - Len(r) = i - (Len(r) - 1) /\ i + 1 <= Len(r) <=> i <= Len(r) - 1
        BY <1>5
      <3>2. CASE i <= Len(r) - 1
        <4>1. i \in 1..(Len(r) - 1) /\ i + 1 <= Len(r)
          BY <1>5, <3>2
        <4> QED  BY <1>1, <1>3, <1>4, <1>7, <3>1, <3>2, <4>1
      <3>3. CASE ~(i <= Len(r) - 1)
        <4>1. ~(i + 1 <= Len(r))
          BY <1>5, <3>3
        <4> QED  BY <1>3, <1>4, <1>7, <3>1, <3>3, <4>1
      <3> QED  BY <3>2, <3>3
    <2> QED  BY <1>4, <1>7, <2>1, <2>2, SeqEqual
  <1> QED  BY <1>2, <1>6, <1>8

-----------------------------------------------------------------------------
(* The chains in flight.                                                   *)

\* The sequence s holds each head that is not free, once.
Holds(s, free) ==
    /\ s \in Seq(Heads)
    /\ \A i, j \in 1..Len(s) : s[i] = s[j] => i = j
    /\ \A i \in 1..Len(s) : s[i] \notin free
    /\ \A h \in Heads \ free : \E i \in 1..Len(s) : s[i] = h
    /\ Len(s) = Num - Cardinality(free)

\* A set of heads is finite.
LEMMA HeadsFinite ==
    ASSUME NEW free \in SUBSET Heads
    PROVE  IsFiniteSet(free) /\ Cardinality(free) \in Nat /\ Cardinality(free) <= Num
  <1>1. Num \in Nat /\ Num > 0
    BY RingAssumption
  <1>2. IsFiniteSet(Heads) /\ Cardinality(Heads) = Num
    BY <1>1, FS_Interval DEF Heads
  <1> QED  BY <1>1, <1>2, FS_Subset, FS_CardinalityType

\* A free head joins at the end (the driver stages it).
LEMMA HoldsAppend ==
    ASSUME NEW free \in SUBSET Heads, NEW s, Holds(s, free), NEW h \in free
    PROVE  Holds(Append(s, h), free \ {h})
  <1> DEFINE t == Append(s, h)
  <1>1. s \in Seq(Heads) /\ h \in Heads /\ Len(s) \in Nat
    BY DEF Holds
  <1>2. /\ t \in Seq(Heads) /\ Len(t) = Len(s) + 1 /\ t[Len(s) + 1] = h
        /\ \A i \in 1..Len(s) : t[i] = s[i]
    BY <1>1
  <1>3. Cardinality(free \ {h}) = Cardinality(free) - 1 /\ Cardinality(free) \in Nat
    BY HeadsFinite, FS_RemoveElement
  <1> HIDE DEF t
  <1>4. \A i \in 1..Len(t) : i \in 1..Len(s) \/ i = Len(s) + 1
    BY <1>1, <1>2
  <1>5. \A i \in 1..Len(s) : t[i] \notin free /\ i \in 1..Len(t) /\ i # Len(s) + 1
    BY <1>1, <1>2 DEF Holds
  <1>6. \A i, j \in 1..Len(t) : t[i] = t[j] => i = j
    BY <1>1, <1>2, <1>4, <1>5 DEF Holds
  <1>7. \A i \in 1..Len(t) : t[i] \notin free \ {h}
    BY <1>2, <1>4, <1>5
  <1>8. \A k \in Heads \ (free \ {h}) : \E i \in 1..Len(t) : t[i] = k
    <2> SUFFICES ASSUME NEW k \in Heads \ (free \ {h}) PROVE \E i \in 1..Len(t) : t[i] = k
      OBVIOUS
    <2>1. CASE k = h
      BY <1>1, <1>2, <2>1
    <2>2. CASE k # h
      <3>1. PICK i \in 1..Len(s) : s[i] = k
        BY <2>2 DEF Holds
      <3> QED  BY <1>2, <1>5, <3>1
    <2> QED  BY <2>1, <2>2
  <1>9. Len(t) = Num - Cardinality(free \ {h})
    BY <1>1, <1>2, <1>3, RingAssumption DEF Holds
  <1> QED  BY <1>2, <1>6, <1>7, <1>8, <1>9 DEF Holds, t

\* The first head leaves and is free (the driver collects it).
LEMMA HoldsTail ==
    ASSUME NEW free \in SUBSET Heads, NEW s, Holds(s, free), s # << >>
    PROVE  Holds(Tail(s), free \cup {Head(s)})
  <1> DEFINE t == Tail(s)
  <1>1. s \in Seq(Heads) /\ Len(s) \in Nat /\ Len(s) > 0 /\ Head(s) = s[1]
    BY DEF Holds
  <1>2. /\ t \in Seq(Heads) /\ Len(t) = Len(s) - 1
        /\ \A i \in 1..Len(t) : t[i] = s[i + 1]
    BY <1>1, HeadTailProperties
  <1>3. s[1] \in Heads /\ s[1] \notin free
    BY <1>1 DEF Holds
  <1>4. Cardinality(free \cup {s[1]}) = Cardinality(free) + 1 /\ Cardinality(free) \in Nat
    BY <1>3, HeadsFinite, FS_AddElement
  <1> HIDE DEF t
  <1>5. \A i \in 1..Len(t) : i + 1 \in 1..Len(s) /\ i + 1 # 1 /\ i \in Nat
    BY <1>1, <1>2
  <1>6. \A i, j \in 1..Len(t) : t[i] = t[j] => i = j
    <2> SUFFICES ASSUME NEW i \in 1..Len(t), NEW j \in 1..Len(t), t[i] = t[j] PROVE i = j
      OBVIOUS
    <2>1. i + 1 = j + 1
      BY <1>2, <1>5 DEF Holds
    <2> QED  BY <1>5, <2>1
  <1>7. \A i \in 1..Len(t) : t[i] \notin free \cup {s[1]}
    <2> SUFFICES ASSUME NEW i \in 1..Len(t) PROVE s[i + 1] \notin free /\ s[i + 1] # s[1]
      BY <1>2
    <2>1. 1 \in 1..Len(s)
      BY <1>1
    <2> QED  BY <1>5, <2>1 DEF Holds
  <1>8. \A k \in Heads \ (free \cup {s[1]}) : \E i \in 1..Len(t) : t[i] = k
    <2> SUFFICES ASSUME NEW k \in Heads \ (free \cup {s[1]}) PROVE \E i \in 1..Len(t) : t[i] = k
      OBVIOUS
    <2>1. PICK i \in 1..Len(s) : s[i] = k
      BY DEF Holds
    <2>2. i - 1 \in 1..Len(t) /\ (i - 1) + 1 = i
      BY <1>1, <1>2, <2>1
    <2>3. t[i - 1] = k
      BY <1>2, <2>1, <2>2
    <2> QED  BY <2>2, <2>3
  <1>9. Len(t) = Num - Cardinality(free \cup {s[1]})
    BY <1>1, <1>2, <1>4, RingAssumption DEF Holds
  <1>10. Holds(t, free \cup {s[1]})
    BY <1>2, <1>6, <1>7, <1>8, <1>9 DEF Holds
  <1> QED  BY <1>1, <1>10 DEF t

-----------------------------------------------------------------------------
(* A queue with its chains in flight.                                      *)

\* The chains in each stage of their life, oldest first.
StagedIn(q)   == Between(q.avail_ring, q.avail_idx, q.shadow)
OfferedIn(q)  == Between(q.avail_ring, q.last_avail_idx, q.avail_idx)
ReturnedIn(q) == Between(q.used_ring, q.last_used, q.used_idx)

\* The chains in flight, the one that is due back first in front; t are those
\* the device has taken.
Flight(q, t) == (ReturnedIn(q) \o t) \o (OfferedIn(q) \o StagedIn(q))

\* The chains in flight are the ones that are not free, so that no ring ever
\* holds more than Num.
FlightInv(q, t) ==
    /\ q \in QueueType
    /\ t \in Seq(Heads)
    /\ Holds(Flight(q, t), q.free)

\* What the type says of each field of a queue.
QueueFields(q) ==
    /\ q.avail_ring \in [Heads -> Heads] /\ q.used_ring \in [Heads -> Heads]
    /\ q.avail_idx \in Indices /\ q.last_avail_idx \in Indices /\ q.shadow \in Indices
    /\ q.used_idx \in Indices /\ q.last_used \in Indices /\ q.free \in SUBSET Heads

\* The parts of a queue's rings are sequences of heads, as long as their
\* indices are apart.
LEMMA PartsType ==
    ASSUME NEW q, QueueFields(q)
    PROVE  /\ StagedIn(q) \in Seq(Heads) /\ Len(StagedIn(q)) = Dist(q.avail_idx, q.shadow)
           /\ OfferedIn(q) \in Seq(Heads)
           /\ Len(OfferedIn(q)) = Dist(q.last_avail_idx, q.avail_idx)
           /\ ReturnedIn(q) \in Seq(Heads)
           /\ Len(ReturnedIn(q)) = Dist(q.last_used, q.used_idx)
           /\ Dist(q.avail_idx, q.shadow) \in Nat
           /\ Dist(q.last_avail_idx, q.avail_idx) \in Nat
           /\ Dist(q.last_used, q.used_idx) \in Nat
  <1> DEFINE Sound(ring, a, b) ==
                 /\ Between(ring, a, b) \in Seq(Heads)
                 /\ Len(Between(ring, a, b)) = Dist(a, b)
                 /\ Dist(a, b) \in Nat
  <1>1. \A ring \in [Heads -> Heads], a, b \in Indices : Sound(ring, a, b)
    <2> SUFFICES ASSUME NEW ring \in [Heads -> Heads], NEW a \in Indices, NEW b \in Indices
                 PROVE  Sound(ring, a, b)
      OBVIOUS
    <2> QED  BY BetweenType
  <1> HIDE DEF Sound
  <1>2. /\ Sound(q.avail_ring, q.avail_idx, q.shadow)
        /\ Sound(q.avail_ring, q.last_avail_idx, q.avail_idx)
        /\ Sound(q.used_ring, q.last_used, q.used_idx)
    BY <1>1 DEF QueueFields
  <1> QED  BY <1>2 DEF Sound, StagedIn, OfferedIn, ReturnedIn

\* The parts of the chains in flight, and how they bound the indices.
LEMMA FlightBounds ==
    ASSUME NEW q, NEW t, FlightInv(q, t)
    PROVE  /\ QueueFields(q)
           /\ StagedIn(q) \in Seq(Heads) /\ OfferedIn(q) \in Seq(Heads)
           /\ ReturnedIn(q) \in Seq(Heads) /\ t \in Seq(Heads) /\ Len(t) \in Nat
           /\ Dist(q.last_avail_idx, q.avail_idx) \in Nat
           /\ Dist(q.avail_idx, q.shadow) \in Nat
           /\ Dist(q.last_used, q.used_idx) \in Nat
           /\ Dist(q.last_avail_idx, q.avail_idx) + Dist(q.avail_idx, q.shadow)
              + Dist(q.last_used, q.used_idx) + Len(t) = Num - Cardinality(q.free)
           /\ Dist(q.last_avail_idx, q.avail_idx) + Dist(q.avail_idx, q.shadow)
                = Dist(q.last_avail_idx, q.shadow)
           /\ Cardinality(q.free) \in Nat
           /\ q.free # {} => Cardinality(q.free) > 0
           /\ Dist(q.last_avail_idx, q.shadow) <= Num - Cardinality(q.free)
           /\ Dist(q.last_used, q.used_idx) + Len(t) <= Num
  <1>1. QueueFields(q) /\ t \in Seq(Heads) /\ Len(t) \in Nat
    BY DEF FlightInv, QueueType, QueueFields
  <1> DEFINE s == StagedIn(q)
             o == OfferedIn(q)
             r == ReturnedIn(q)
  <1>2. /\ s \in Seq(Heads) /\ Len(s) = Dist(q.avail_idx, q.shadow)
        /\ Dist(q.avail_idx, q.shadow) \in Nat
    BY <1>1, PartsType
  <1>3. /\ o \in Seq(Heads) /\ Len(o) = Dist(q.last_avail_idx, q.avail_idx)
        /\ Dist(q.last_avail_idx, q.avail_idx) \in Nat
    BY <1>1, PartsType
  <1>4. /\ r \in Seq(Heads) /\ Len(r) = Dist(q.last_used, q.used_idx)
        /\ Dist(q.last_used, q.used_idx) \in Nat
    BY <1>1, PartsType
  <1>5. Flight(q, t) = (r \o t) \o (o \o s)
    BY DEF Flight
  <1> HIDE DEF s, o, r
  <1>6. /\ r \o t \in Seq(Heads) /\ Len(r \o t) = Len(r) + Len(t)
        /\ o \o s \in Seq(Heads) /\ Len(o \o s) = Len(o) + Len(s)
    BY <1>1, <1>2, <1>3, <1>4, ConcatProperties
  <1>7. Len(Flight(q, t)) = Len(r \o t) + Len(o \o s)
    BY <1>5, <1>6, ConcatProperties
  <1>8. Len(Flight(q, t)) = Num - Cardinality(q.free)
    BY DEF FlightInv, Holds
  <1>9. Cardinality(q.free) \in Nat /\ (q.free # {} => Cardinality(q.free) > 0)
    BY <1>1, HeadsFinite, FS_EmptySet DEF QueueFields
  <1>10. Num \in Nat /\ Num < IdxMod /\ IdxMod \in Nat
    BY RingAssumption
  <1>11. Dist(q.last_avail_idx, q.avail_idx) + Dist(q.avail_idx, q.shadow)
         + Dist(q.last_used, q.used_idx) + Len(t) = Num - Cardinality(q.free)
    <2>1. (Len(r) + Len(t)) + (Len(o) + Len(s)) = Num - Cardinality(q.free)
      BY ONLY <1>6, <1>7, <1>8
    <2>2. \A i, j, k, l \in Nat : (i + j) + (k + l) = k + l + i + j
      OBVIOUS
    <2>3. (Len(r) + Len(t)) + (Len(o) + Len(s)) = Len(o) + Len(s) + Len(r) + Len(t)
      BY <1>1, <1>2, <1>3, <1>4, <2>2
    <2> QED  BY ONLY <1>2, <1>3, <1>4, <2>1, <2>3
  <1>12. Dist(q.last_avail_idx, q.avail_idx) + Dist(q.avail_idx, q.shadow) < IdxMod
    BY <1>1, <1>2, <1>3, <1>4, <1>9, <1>10, <1>11
  <1>13. Dist(q.last_avail_idx, q.avail_idx) + Dist(q.avail_idx, q.shadow)
             = Dist(q.last_avail_idx, q.shadow)
    <2> DEFINE Adds(a, b, c) ==
                   Dist(a, b) + Dist(b, c) < IdxMod => Dist(a, c) = Dist(a, b) + Dist(b, c)
    <2>1. \A a, b, c \in Indices : Adds(a, b, c)
      BY DistFacts
    <2> HIDE DEF Adds
    <2>2. Adds(q.last_avail_idx, q.avail_idx, q.shadow)
      BY <1>1, <2>1 DEF QueueFields
    <2> QED  BY <1>12, <2>2 DEF Adds
  <1>14. /\ Dist(q.last_avail_idx, q.shadow) <= Num - Cardinality(q.free)
         /\ Dist(q.last_used, q.used_idx) + Len(t) <= Num
    BY <1>1, <1>2, <1>3, <1>4, <1>9, <1>10, <1>11, <1>13
  <1> QED  BY <1>1, <1>2, <1>3, <1>4, <1>9, <1>11, <1>13, <1>14 DEF s, o, r

\* The driver stages a chain.
LEMMA FlightStage ==
    ASSUME NEW q, NEW t, FlightInv(q, t), NEW h \in q.free
    PROVE  LET p == StageChain(q, h)
           IN  /\ FlightInv(p, t) /\ Flight(p, t) = Append(Flight(q, t), h)
               /\ StagedIn(p) = Append(StagedIn(q), h)
               /\ OfferedIn(p) = OfferedIn(q) /\ ReturnedIn(p) = ReturnedIn(q)
               /\ p.free = q.free \ {h} /\ p.last_avail_idx = q.last_avail_idx
               /\ p.avail_idx = q.avail_idx
               /\ p.used_ring = q.used_ring /\ p.used_idx = q.used_idx
  <1> DEFINE p == StageChain(q, h)
  <1>1. QueueFields(q) /\ h \in Heads
    BY FlightBounds DEF QueueFields
  <1>2. /\ p.avail_ring = [q.avail_ring EXCEPT ![q.shadow % Num] = h]
        /\ p.shadow = IncIdx(q.shadow) /\ p.free = q.free \ {h}
        /\ p.last_avail_idx = q.last_avail_idx /\ p.avail_idx = q.avail_idx
        /\ p.used_ring = q.used_ring /\ p.used_idx = q.used_idx /\ p.last_used = q.last_used
        /\ p \in QueueType
    BY <1>1, IndexFacts DEF FlightInv, QueueType, StageChain
  <1> HIDE DEF p
  <1>3. /\ Dist(q.last_avail_idx, q.avail_idx) <= Dist(q.last_avail_idx, q.shadow)
        /\ Dist(q.last_avail_idx, q.shadow) < Num /\ Dist(q.avail_idx, q.shadow) < Num
    <2>1. /\ Dist(q.last_avail_idx, q.avail_idx) \in Nat /\ Dist(q.avail_idx, q.shadow) \in Nat
          /\ Dist(q.last_avail_idx, q.avail_idx) + Dist(q.avail_idx, q.shadow)
                = Dist(q.last_avail_idx, q.shadow)
          /\ Dist(q.last_avail_idx, q.shadow) <= Num - Cardinality(q.free)
          /\ Cardinality(q.free) \in Nat /\ Cardinality(q.free) > 0
      BY FlightBounds
    <2> QED  BY <2>1, RingAssumption
  <1>4. StagedIn(p) = Append(StagedIn(q), h)
    <2>1. Between([q.avail_ring EXCEPT ![q.shadow % Num] = h], q.avail_idx, IncIdx(q.shadow))
            = Append(Between(q.avail_ring, q.avail_idx, q.shadow), h)
      BY <1>1, <1>3, BetweenGrows DEF QueueFields
    <2> QED  BY <1>2, <2>1 DEF StagedIn
  <1>5. OfferedIn(p) = OfferedIn(q)
    <2>1. Between([q.avail_ring EXCEPT ![q.shadow % Num] = h], q.last_avail_idx, q.avail_idx)
            = Between(q.avail_ring, q.last_avail_idx, q.avail_idx)
      BY <1>1, <1>3, BetweenKept DEF QueueFields
    <2> QED  BY <1>2, <2>1 DEF OfferedIn
  <1>6. ReturnedIn(p) = ReturnedIn(q)
    BY <1>2 DEF ReturnedIn
  <1>7. Flight(p, t) = Append(Flight(q, t), h)
    <2> DEFINE r == ReturnedIn(q) \o t
               o == OfferedIn(q)
               s == StagedIn(q)
    <2>1. r \in Seq(Heads) /\ o \in Seq(Heads) /\ s \in Seq(Heads)
      BY FlightBounds, ConcatProperties
    <2>2. Flight(p, t) = r \o (o \o Append(s, h)) /\ Flight(q, t) = r \o (o \o s)
      BY <1>4, <1>5, <1>6 DEF Flight
    <2> HIDE DEF r, o, s
    <2>3. \A x, y, z \in Seq(Heads) : x \o (y \o Append(z, h)) = Append(x \o (y \o z), h)
      BY <1>1, AppendToLast
    <2>4. r \o (o \o Append(s, h)) = Append(r \o (o \o s), h)
      BY <2>1, <2>3
    <2> QED  BY <2>2, <2>4
  <1>8. Holds(Flight(p, t), p.free)
    <2>1. Holds(Append(Flight(q, t), h), q.free \ {h})
      BY <1>1, HoldsAppend DEF FlightInv, QueueFields
    <2> QED  BY <1>2, <1>7, <2>1
  <1>9. FlightInv(p, t)
    BY <1>2, <1>8 DEF FlightInv
  <1> QED  BY <1>2, <1>4, <1>5, <1>6, <1>7, <1>9 DEF p

\* The driver makes the staged chains visible.
LEMMA FlightPublish ==
    ASSUME NEW q, NEW t, FlightInv(q, t)
    PROVE  LET p == Publish(q)
           IN  /\ FlightInv(p, t) /\ Flight(p, t) = Flight(q, t)
               /\ StagedIn(p) = << >> /\ OfferedIn(p) = OfferedIn(q) \o StagedIn(q)
               /\ ReturnedIn(p) = ReturnedIn(q)
               /\ p.free = q.free /\ p.last_avail_idx = q.last_avail_idx
               /\ p.used_ring = q.used_ring /\ p.used_idx = q.used_idx
               /\ HasAvail(q) \/ HasStaged(q) => HasAvail(p)
               /\ HasStaged(q) => StagedIn(q) # << >>
  <1> DEFINE p == Publish(q)
  <1>1. QueueFields(q)
    BY FlightBounds
  <1>2. /\ p.avail_idx = q.shadow /\ p.shadow = q.shadow /\ p.free = q.free
        /\ p.avail_ring = q.avail_ring /\ p.last_avail_idx = q.last_avail_idx
        /\ p.used_ring = q.used_ring /\ p.used_idx = q.used_idx /\ p.last_used = q.last_used
        /\ p \in QueueType
    BY DEF FlightInv, QueueType, Publish
  <1> HIDE DEF p
  <1>3. /\ Dist(q.last_avail_idx, q.avail_idx) \in Nat /\ Dist(q.avail_idx, q.shadow) \in Nat
        /\ Dist(q.last_avail_idx, q.avail_idx) + Dist(q.avail_idx, q.shadow)
              = Dist(q.last_avail_idx, q.shadow)
        /\ Dist(q.last_avail_idx, q.avail_idx) + Dist(q.avail_idx, q.shadow) < IdxMod
    <2>1. /\ Dist(q.last_avail_idx, q.avail_idx) \in Nat /\ Dist(q.avail_idx, q.shadow) \in Nat
          /\ Dist(q.last_avail_idx, q.avail_idx) + Dist(q.avail_idx, q.shadow)
                = Dist(q.last_avail_idx, q.shadow)
          /\ Dist(q.last_avail_idx, q.shadow) <= Num - Cardinality(q.free)
          /\ Cardinality(q.free) \in Nat
      BY FlightBounds
    <2> QED  BY <2>1, RingAssumption
  <1>4. StagedIn(p) = << >>
    <2>1. Dist(q.shadow, q.shadow) = 0
      BY <1>1, DistFacts DEF QueueFields
    <2> QED  BY <1>2, <2>1 DEF StagedIn, Between
  <1>5. OfferedIn(p) = OfferedIn(q) \o StagedIn(q)
    <2>1. Between(q.avail_ring, q.last_avail_idx, q.avail_idx)
              \o Between(q.avail_ring, q.avail_idx, q.shadow)
            = Between(q.avail_ring, q.last_avail_idx, q.shadow)
      BY <1>1, <1>3, BetweenConcat DEF QueueFields
    <2> QED  BY <1>2, <2>1 DEF OfferedIn, StagedIn
  <1>6. ReturnedIn(p) = ReturnedIn(q)
    BY <1>2 DEF ReturnedIn
  <1>7. ASSUME HasStaged(q) PROVE StagedIn(q) # << >>
    <2>1. Len(StagedIn(q)) = Dist(q.avail_idx, q.shadow)
      BY <1>1, PartsType
    <2>2. Dist(q.avail_idx, q.shadow) = 0 <=> q.avail_idx = q.shadow
      BY <1>1, DistFacts DEF QueueFields
    <2> QED  BY <1>7, <2>1, <2>2 DEF HasStaged
  <1>8. Flight(p, t) = Flight(q, t)
    <2> DEFINE r == ReturnedIn(q) \o t
               w == OfferedIn(q) \o StagedIn(q)
    <2>1. r \in Seq(Heads) /\ w \in Seq(Heads)
      BY FlightBounds, ConcatProperties
    <2>2. Flight(p, t) = r \o (w \o << >>) /\ Flight(q, t) = r \o w
      BY <1>4, <1>5, <1>6 DEF Flight
    <2> HIDE DEF r, w
    <2>3. w \o << >> = w
      BY <2>1, ConcatEmptySeq
    <2> QED  BY <2>2, <2>3
  <1>9. ASSUME HasAvail(q) \/ HasStaged(q) PROVE HasAvail(p)
    <2>1. /\ Dist(q.last_avail_idx, q.avail_idx) = 0 <=> q.last_avail_idx = q.avail_idx
          /\ Dist(q.avail_idx, q.shadow) = 0 <=> q.avail_idx = q.shadow
          /\ Dist(q.last_avail_idx, q.shadow) = 0 <=> q.last_avail_idx = q.shadow
      BY <1>1, DistFacts DEF QueueFields
    <2>2. Dist(q.last_avail_idx, q.shadow) # 0
      BY <1>3, <1>9, <2>1 DEF HasAvail, HasStaged
    <2> QED  BY <1>2, <2>1, <2>2 DEF HasAvail
  <1>10. FlightInv(p, t)
    BY <1>2, <1>8 DEF FlightInv
  <1> QED  BY <1>2, <1>4, <1>5, <1>6, <1>7, <1>8, <1>9, <1>10 DEF p

\* The driver collects the chain that is due back first.
LEMMA FlightCollect ==
    ASSUME NEW q, NEW t, FlightInv(q, t), HasUsed(q)
    PROVE  LET p == Collect(q)
           IN  /\ FlightInv(p, t)
               /\ Flight(q, t) # << >> /\ Flight(p, t) = Tail(Flight(q, t))
               /\ ReturnedIn(q) # << >> /\ ReturnedIn(p) = Tail(ReturnedIn(q))
               /\ UsedHead(q) = Head(ReturnedIn(q)) /\ UsedHead(q) = Head(Flight(q, t))
               /\ OfferedIn(p) = OfferedIn(q) /\ StagedIn(p) = StagedIn(q)
               /\ p.free = q.free \cup {UsedHead(q)} /\ p.last_avail_idx = q.last_avail_idx
               /\ p.avail_idx = q.avail_idx
               /\ p.used_ring = q.used_ring /\ p.used_idx = q.used_idx
  <1> DEFINE p == Collect(q)
  <1>1. QueueFields(q)
    BY FlightBounds
  <1>2. /\ p.last_used = IncIdx(q.last_used) /\ p.free = q.free \cup {UsedHead(q)}
        /\ p.avail_ring = q.avail_ring /\ p.last_avail_idx = q.last_avail_idx
        /\ p.avail_idx = q.avail_idx /\ p.shadow = q.shadow
        /\ p.used_ring = q.used_ring /\ p.used_idx = q.used_idx
        /\ p \in QueueType
    <2>1. UsedHead(q) \in Heads
      BY <1>1, IndexFacts DEF UsedHead, QueueFields
    <2> QED  BY <2>1, IndexFacts DEF FlightInv, QueueType, Collect
  <1> HIDE DEF p
  <1>3. /\ ReturnedIn(q) # << >> /\ Head(ReturnedIn(q)) = UsedHead(q)
        /\ ReturnedIn(p) = Tail(ReturnedIn(q))
    <2>1. q.last_used # q.used_idx
      BY DEF HasUsed
    <2> QED  BY <1>1, <1>2, <2>1, BetweenShrinks DEF ReturnedIn, UsedHead, QueueFields
  <1>4. OfferedIn(p) = OfferedIn(q) /\ StagedIn(p) = StagedIn(q)
    BY <1>2 DEF OfferedIn, StagedIn
  <1>5. /\ Flight(q, t) # << >> /\ Flight(p, t) = Tail(Flight(q, t))
        /\ Head(Flight(q, t)) = UsedHead(q)
    <2> DEFINE w == OfferedIn(q) \o StagedIn(q)
               r == ReturnedIn(q)
    <2>1. w \in Seq(Heads) /\ r \in Seq(Heads) /\ t \in Seq(Heads) /\ r # << >>
      BY <1>3, FlightBounds, ConcatProperties
    <2>2. Flight(p, t) = (Tail(r) \o t) \o w /\ Flight(q, t) = (r \o t) \o w
      BY <1>3, <1>4 DEF Flight
    <2>3. Head(r) = UsedHead(q)
      BY <1>3
    <2> HIDE DEF w, r
    <2>4. /\ (r \o t) \o w # << >> /\ Head((r \o t) \o w) = Head(r)
          /\ (Tail(r) \o t) \o w = Tail((r \o t) \o w)
      BY <2>1, TailOfFirst, ZenonT(40)
    <2> QED  BY <2>2, <2>3, <2>4
  <1>6. Holds(Flight(p, t), p.free)
    <2>1. Holds(Tail(Flight(q, t)), q.free \cup {Head(Flight(q, t))})
      BY <1>1, <1>5, HoldsTail DEF FlightInv, QueueFields
    <2> QED  BY <1>2, <1>5, <2>1
  <1>7. FlightInv(p, t)
    BY <1>2, <1>6 DEF FlightInv
  <1> QED  BY <1>2, <1>3, <1>4, <1>5, <1>7 DEF p

\* pop_avail(): the device takes the chain that was offered first.
LEMMA FlightPop ==
    ASSUME NEW q, FlightInv(q, << >>), HasAvail(q)
    PROVE  LET p == PopAvail(q)
               h == NextHead(q)
           IN  /\ FlightInv(p, <<h>>) /\ Flight(p, <<h>>) = Flight(q, << >>)
               /\ OfferedIn(q) # << >> /\ h = Head(OfferedIn(q)) /\ h \in Heads
               /\ OfferedIn(p) = Tail(OfferedIn(q))
               /\ ReturnedIn(p) = ReturnedIn(q) /\ StagedIn(p) = StagedIn(q)
               /\ p.free = q.free /\ p.used_ring = q.used_ring /\ p.used_idx = q.used_idx
  <1> DEFINE p == PopAvail(q)
             h == NextHead(q)
  <1>1. QueueFields(q)
    BY FlightBounds
  <1>2. /\ p.last_avail_idx = IncIdx(q.last_avail_idx)
        /\ p.avail_ring = q.avail_ring /\ p.avail_idx = q.avail_idx /\ p.shadow = q.shadow
        /\ p.used_ring = q.used_ring /\ p.used_idx = q.used_idx /\ p.last_used = q.last_used
        /\ p.free = q.free /\ p \in QueueType
    BY IndexFacts DEF FlightInv, QueueType, PopAvail
  <1> HIDE DEF p
  <1>3. OfferedIn(q) # << >> /\ h = Head(OfferedIn(q)) /\ OfferedIn(p) = Tail(OfferedIn(q))
    <2>1. q.last_avail_idx # q.avail_idx /\ h = q.avail_ring[q.last_avail_idx % Num]
      BY DEF HasAvail, NextHead
    <2> QED  BY <1>1, <1>2, <2>1, BetweenShrinks DEF OfferedIn, QueueFields
  <1>4. ReturnedIn(p) = ReturnedIn(q) /\ StagedIn(p) = StagedIn(q)
    BY <1>2 DEF ReturnedIn, StagedIn
  <1>5. h \in Heads
    BY <1>3, FlightBounds, HeadTailProperties
  <1> HIDE DEF h
  <1>6. Flight(p, <<h>>) = Flight(q, << >>)
    <2> DEFINE r == ReturnedIn(q)
               o == OfferedIn(q)
               s == StagedIn(q)
    <2>1. o \in Seq(Heads) /\ s \in Seq(Heads) /\ r \in Seq(Heads) /\ o # << >>
      BY <1>3, FlightBounds
    <2>2. /\ Flight(p, <<h>>) = (r \o <<Head(o)>>) \o (Tail(o) \o s)
          /\ Flight(q, << >>) = (r \o << >>) \o (o \o s)
      BY <1>3, <1>4 DEF Flight
    <2> HIDE DEF r, o, s
    <2>3. r \o << >> = r
      BY <2>1, ConcatEmptySeq
    <2>4. (r \o <<Head(o)>>) \o (Tail(o) \o s) = r \o (o \o s)
      BY <2>1, MoveFirst, SMTT(20)
    <2> QED  BY <2>2, <2>3, <2>4
  <1>7. FlightInv(p, <<h>>)
    BY <1>2, <1>5, <1>6 DEF FlightInv
  <1> QED  BY <1>2, <1>3, <1>4, <1>5, <1>6, <1>7 DEF p, h

\* push_used() writes the element: the driver has read what was there.
LEMMA FlightElem ==
    ASSUME NEW q, NEW h \in Heads, FlightInv(q, <<h>>)
    PROVE  LET p == PushElem(q, h)
           IN  /\ FlightInv(p, <<h>>) /\ Flight(p, <<h>>) = Flight(q, <<h>>)
               /\ ReturnedIn(p) = ReturnedIn(q)
               /\ OfferedIn(p) = OfferedIn(q) /\ StagedIn(p) = StagedIn(q)
               /\ p.free = q.free /\ p.last_avail_idx = q.last_avail_idx
               /\ p.avail_idx = q.avail_idx
               /\ p.used_ring[p.used_idx % Num] = h
  <1> DEFINE p == PushElem(q, h)
  <1>1. QueueFields(q)
    BY FlightBounds
  <1>2. /\ p.used_ring = [q.used_ring EXCEPT ![q.used_idx % Num] = h]
        /\ p.last_avail_idx = q.last_avail_idx
        /\ p.avail_ring = q.avail_ring /\ p.avail_idx = q.avail_idx /\ p.shadow = q.shadow
        /\ p.used_idx = q.used_idx /\ p.last_used = q.last_used
        /\ p.free = q.free /\ p \in QueueType
    BY IndexFacts DEF FlightInv, QueueType, PushElem
  <1> HIDE DEF p
  <1>3. Dist(q.last_used, q.used_idx) < Num /\ Dist(q.last_used, q.used_idx) \in Nat
    <2>1. Len(<<h>>) = 1
      OBVIOUS
    <2>2. /\ Dist(q.last_used, q.used_idx) \in Nat
          /\ Dist(q.last_used, q.used_idx) + Len(<<h>>) <= Num
      BY FlightBounds
    <2> QED  BY <2>1, <2>2, RingAssumption
  <1>4. ReturnedIn(p) = ReturnedIn(q)
    <2>1. Between([q.used_ring EXCEPT ![q.used_idx % Num] = h], q.last_used, q.used_idx)
            = Between(q.used_ring, q.last_used, q.used_idx)
      <3>1. Dist(q.last_used, q.used_idx) <= Dist(q.last_used, q.used_idx)
        BY <1>3
      <3> QED  BY <1>1, <1>3, <3>1, BetweenKept DEF QueueFields
    <2> QED  BY <1>2, <2>1 DEF ReturnedIn
  <1>5. OfferedIn(p) = OfferedIn(q) /\ StagedIn(p) = StagedIn(q)
    BY <1>2 DEF OfferedIn, StagedIn
  <1>6. Flight(p, <<h>>) = Flight(q, <<h>>)
    BY <1>4, <1>5 DEF Flight
  <1>7. p.used_ring[p.used_idx % Num] = h
    BY <1>1, <1>2, IndexFacts DEF QueueFields
  <1>8. FlightInv(p, <<h>>)
    BY <1>2, <1>6 DEF FlightInv
  <1> QED  BY <1>2, <1>4, <1>5, <1>6, <1>7, <1>8 DEF p

\* push_used() moves the index: the chain is back.
LEMMA FlightIdx ==
    ASSUME NEW q, NEW h \in Heads, FlightInv(q, <<h>>), q.used_ring[q.used_idx % Num] = h
    PROVE  LET p == PushIdx(q)
           IN  /\ FlightInv(p, << >>) /\ Flight(p, << >>) = Flight(q, <<h>>)
               /\ ReturnedIn(p) = Append(ReturnedIn(q), h)
               /\ OfferedIn(p) = OfferedIn(q) /\ StagedIn(p) = StagedIn(q)
               /\ p.free = q.free /\ p.last_avail_idx = q.last_avail_idx
               /\ p.avail_idx = q.avail_idx
  <1> DEFINE p == PushIdx(q)
  <1>1. QueueFields(q)
    BY FlightBounds
  <1>2. /\ p.used_idx = IncIdx(q.used_idx) /\ p.used_ring = q.used_ring
        /\ p.last_avail_idx = q.last_avail_idx
        /\ p.avail_ring = q.avail_ring /\ p.avail_idx = q.avail_idx /\ p.shadow = q.shadow
        /\ p.last_used = q.last_used
        /\ p.free = q.free /\ p \in QueueType
    BY IndexFacts DEF FlightInv, QueueType, PushIdx
  <1> HIDE DEF p
  <1>3. Dist(q.last_used, q.used_idx) < Num
    <2>1. Len(<<h>>) = 1
      OBVIOUS
    <2>2. /\ Dist(q.last_used, q.used_idx) \in Nat
          /\ Dist(q.last_used, q.used_idx) + Len(<<h>>) <= Num
      BY FlightBounds
    <2> QED  BY <2>1, <2>2, RingAssumption
  <1>4. ReturnedIn(p) = Append(ReturnedIn(q), h)
    <2>1. Between([q.used_ring EXCEPT ![q.used_idx % Num] = h], q.last_used, IncIdx(q.used_idx))
            = Append(Between(q.used_ring, q.last_used, q.used_idx), h)
      BY <1>1, <1>3, BetweenGrows DEF QueueFields
    <2>2. [q.used_ring EXCEPT ![q.used_idx % Num] = h] = q.used_ring
      BY <1>1 DEF QueueFields
    <2> QED  BY <1>2, <2>1, <2>2 DEF ReturnedIn
  <1>5. OfferedIn(p) = OfferedIn(q) /\ StagedIn(p) = StagedIn(q)
    BY <1>2 DEF OfferedIn, StagedIn
  <1>6. Flight(p, << >>) = Flight(q, <<h>>)
    <2> DEFINE r == Append(ReturnedIn(q), h)
               w == OfferedIn(q) \o StagedIn(q)
    <2>1. r \in Seq(Heads) /\ r = ReturnedIn(q) \o <<h>>
      BY FlightBounds, AppendIsConcat
    <2>2. Flight(p, << >>) = (r \o << >>) \o w
      BY <1>4, <1>5 DEF Flight
    <2>3. Flight(q, <<h>>) = r \o w
      BY <2>1 DEF Flight
    <2> HIDE DEF r, w
    <2>4. r \o << >> = r
      BY <2>1, ConcatEmptySeq
    <2> QED  BY <2>2, <2>3, <2>4
  <1>7. << >> \in Seq(Heads)
    OBVIOUS
  <1>8. FlightInv(p, << >>)
    BY <1>2, <1>6, <1>7 DEF FlightInv
  <1> QED  BY <1>2, <1>4, <1>5, <1>6, <1>8 DEF p

\* A chain that the device has taken is neither free nor back.
LEMMA TakenNotReturned ==
    ASSUME NEW q, NEW h \in Heads, FlightInv(q, <<h>>)
    PROVE  /\ h \notin q.free
           /\ ReturnedIn(q) \in Seq(Heads)
           /\ \A k \in 1..Len(ReturnedIn(q)) : ReturnedIn(q)[k] # h
  <1> DEFINE r == ReturnedIn(q)
             w == OfferedIn(q) \o StagedIn(q)
             f == Flight(q, <<h>>)
             n == Len(r) + 1
  <1>1. r \in Seq(Heads) /\ w \in Seq(Heads) /\ Len(r) \in Nat /\ Len(w) \in Nat
    BY FlightBounds, ConcatProperties
  <1>2. f = (r \o <<h>>) \o w
    BY DEF Flight
  <1> HIDE DEF r, w
  <1>3. /\ r \o <<h>> \in Seq(Heads) /\ Len(r \o <<h>>) = n
        /\ \A i \in 1..n : (r \o <<h>>)[i] = IF i <= Len(r) THEN r[i] ELSE <<h>>[i - Len(r)]
    BY <1>1, ConcatProperties
  <1>4. /\ Len(f) = n + Len(w)
        /\ \A i \in 1..n : f[i] = (r \o <<h>>)[i]
    <2> DEFINE u == r \o <<h>>
    <2>1. u \in Seq(Heads) /\ Len(u) = n
      BY <1>3
    <2> HIDE DEF u
    <2>2. /\ Len(u \o w) = Len(u) + Len(w)
          /\ \A i \in 1..(Len(u) + Len(w)) : (u \o w)[i] = IF i <= Len(u) THEN u[i] ELSE w[i - Len(u)]
      BY <1>1, <2>1, ConcatProperties
    <2>3. \A i \in 1..n : i \in 1..(Len(u) + Len(w)) /\ i <= Len(u)
      BY <1>1, <2>1
    <2> QED  BY <1>2, <2>1, <2>2, <2>3 DEF u
  <1>5. n \in 1..Len(f) /\ f[n] = h
    <2>1. n \in 1..n /\ ~(n <= Len(r)) /\ n - Len(r) = 1 /\ <<h>>[1] = h
      BY <1>1
    <2>2. f[n] = h
      BY <1>3, <1>4, <2>1
    <2> QED  BY <1>1, <1>4, <2>2
  <1>6. \A k \in 1..Len(r) : k \in 1..Len(f) /\ f[k] = r[k] /\ k # n
    BY <1>1, <1>3, <1>4
  <1>7. /\ \A i, j \in 1..Len(f) : f[i] = f[j] => i = j
        /\ \A i \in 1..Len(f) : f[i] \notin q.free
    BY DEF FlightInv, Holds
  <1> HIDE DEF f, n
  <1>8. h \notin q.free /\ \A k \in 1..Len(r) : r[k] # h
    BY <1>5, <1>6, <1>7
  <1> QED  BY <1>1, <1>8 DEF r

\* QUEUE_READY and QUEUE_NUM have no part in the flight.
LEMMA FlightKept ==
    ASSUME NEW q, NEW t, FlightInv(q, t), NEW p \in QueueType,
           p.avail_ring = q.avail_ring, p.last_avail_idx = q.last_avail_idx,
           p.avail_idx = q.avail_idx, p.shadow = q.shadow,
           p.used_ring = q.used_ring, p.used_idx = q.used_idx, p.last_used = q.last_used,
           p.free = q.free
    PROVE  FlightInv(p, t) /\ ReturnedIn(p) = ReturnedIn(q)
  <1>1. /\ StagedIn(p) = StagedIn(q) /\ OfferedIn(p) = OfferedIn(q)
        /\ ReturnedIn(p) = ReturnedIn(q)
    BY DEF StagedIn, OfferedIn, ReturnedIn
  <1>2. Flight(p, t) = Flight(q, t)
    BY <1>1 DEF Flight
  <1> QED  BY <1>1, <1>2 DEF FlightInv

\* Nothing is in flight in new rings, if the device's index is new too.
LEMMA FlightEmpty ==
    ASSUME NEW q \in QueueType, q.free = Heads, q.last_avail_idx = 0, q.avail_idx = 0,
           q.shadow = 0, q.used_idx = 0, q.last_used = 0
    PROVE  /\ FlightInv(q, << >>) /\ Flight(q, << >>) = << >>
           /\ StagedIn(q) = << >> /\ OfferedIn(q) = << >> /\ ReturnedIn(q) = << >>
  <1>1. Dist(0, 0) = 0
    BY IndexFacts, DistFacts
  <1>2. StagedIn(q) = << >> /\ OfferedIn(q) = << >> /\ ReturnedIn(q) = << >>
    BY <1>1 DEF StagedIn, OfferedIn, ReturnedIn, Between
  <1>3. << >> \in Seq(Heads) /\ Len(<< >>) = 0 /\ Flight(q, << >>) = << >>
    BY <1>2 DEF Flight
  <1>4. Cardinality(Heads) = Num
    BY RingAssumption, FS_Interval DEF Heads
  <1>5. Holds(Flight(q, << >>), q.free)
    <2>1. 1..Len(<< >>) = {} /\ Heads \ q.free = {}
      BY <1>3
    <2>2. Len(<< >>) = Num - Cardinality(q.free)
      BY <1>3, <1>4, RingAssumption
    <2>3. Holds(<< >>, q.free)
      BY <1>3, <2>1, <2>2 DEF Holds
    <2> QED  BY <1>3, <2>3
  <1> QED  BY <1>2, <1>3, <1>5 DEF FlightInv
=============================================================================
