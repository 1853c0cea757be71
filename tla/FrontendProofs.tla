--------------------------- MODULE FrontendProofs ---------------------------
(***************************************************************************)
(* What the frontends show and type.                                       *)
(***************************************************************************)
EXTENDS VgaDisplay, RfbSession, Consoles, WellFoundedInduction, SequenceTheorems, TLAPS

-----------------------------------------------------------------------------
(* Induction, as a fact about sets of numbers.                             *)

LEMMA Least ==
    ASSUME NEW T \in SUBSET Nat, T # {}
    PROVE  \E x \in T : \A y \in T : x <= y
  <1> DEFINE R == OpToRel(<, Nat)
  <1>1. IsWellFoundedOn(R, Nat)
    BY NatLessThanWellFounded
  <1>2. \A x, y \in Nat : y < x => <<y, x>> \in R
    BY DEF OpToRel
  <1> HIDE DEF R
  <1>3. PICK x \in T : \A y \in T : <<y, x>> \notin R
    BY <1>1, WFMin
  <1>4. \A y \in T : ~(y < x)
    BY <1>2, <1>3
  <1>5. \A y \in T : x <= y
    BY <1>4
  <1> QED  BY <1>5

LEMMA Greatest ==
    ASSUME NEW n \in Nat, NEW T \in SUBSET (0..n), T # {}
    PROVE  \E x \in T : \A y \in T : y <= x
  <1> DEFINE U == {k \in Nat : n - k \in T}
  <1>1. PICK t \in T : TRUE
    OBVIOUS
  <1>2. n - t \in U
    <2>1. n - t \in Nat /\ n - (n - t) = t
      OBVIOUS
    <2> QED  BY <2>1
  <1>3. PICK k \in U : \A j \in U : k <= j
    <2>1. U \in SUBSET Nat /\ U # {}
      BY <1>2
    <2> HIDE DEF U
    <2> QED  BY <2>1, Least
  <1>4. \A y \in T : n - y \in U
    <2> TAKE y \in T
    <2>1. n - y \in Nat /\ n - (n - y) = y
      OBVIOUS
    <2> QED  BY <2>1
  <1>5. n - k \in T /\ k \in Nat
    BY <1>3
  <1>6. \A y \in T : k <= n - y
    BY <1>3, <1>4
  <1> HIDE DEF U
  <1>7. \A y \in T : y <= n - k
    BY <1>5, <1>6
  <1> QED  BY <1>5, <1>7

\* What holds of 0 and of n + 1 if of n holds up to any number.
LEMMA Induction ==
    ASSUME NEW S, NEW n \in Nat, 0 \in S,
           \A k \in 0..(n - 1) : k \in S => k + 1 \in S
    PROVE  0..n \subseteq S
  <1> DEFINE T == (0..n) \ S
  <1> SUFFICES ASSUME T # {} PROVE FALSE
    OBVIOUS
  <1>1. T \in SUBSET Nat
    OBVIOUS
  <1>2. PICK x \in T : \A y \in T : x <= y
    <2> HIDE DEF T
    <2> QED  BY <1>1, Least
  <1>3. x # 0 /\ x \in 0..n /\ x \notin S
    BY <1>2
  <1>4. x - 1 \in 0..(n - 1) /\ (x - 1) + 1 = x /\ x - 1 \in 0..n
    BY <1>3
  <1>5. x - 1 \notin S
    BY <1>3, <1>4
  <1>6. x - 1 \in T
    BY <1>4, <1>5
  <1> QED  BY <1>2, <1>3, <1>6

-----------------------------------------------------------------------------
(* The DAC.                                                                *)

DacType == [palette : [Entries -> Entries], at : Entries, repaint : BOOLEAN]

\* d is a DAC that came of dac: a palette that changed has set repaint.
CameOf(d, dac) ==
    /\ d \in DacType
    /\ dac.repaint => d.repaint
    /\ ~d.repaint => d.palette = dac.palette

LEMMA DacWriteCame ==
    ASSUME NEW dac, NEW d, CameOf(d, dac), NEW w \in DacWrites
    PROVE  CameOf(DacWrite(d, w), dac)
  <1>1. w.port \in {"index", "data"} /\ w.byte \in Entries
    BY DEF DacWrites
  <1>2. /\ d.palette \in [Entries -> Entries] /\ d.at \in Entries /\ d.repaint \in BOOLEAN
    BY DEF CameOf, DacType
  <1>3. CASE w.port = "index"
    <2>1. DacWrite(d, w) = [d EXCEPT !.at = w.byte]
      BY <1>3 DEF DacWrite
    <2> QED  BY <2>1, <1>1, <1>2 DEF CameOf, DacType
  <1>4. CASE w.port = "data"
    <2>1. DacWrite(d, w) = [palette |-> [d.palette EXCEPT ![d.at] = w.byte],
                            at |-> (d.at + 1) % 2, repaint |-> TRUE]
      BY <1>4 DEF DacWrite
    <2>2. (d.at + 1) % 2 \in Entries
      BY <1>2 DEF Entries
    <2>3. [d.palette EXCEPT ![d.at] = w.byte] \in [Entries -> Entries]
      BY <1>1, <1>2
    <2>4. DacWrite(d, w) \in DacType
      BY <2>1, <2>2, <2>3 DEF DacType
    <2> QED  BY <2>1, <2>4 DEF CameOf
  <1> QED  BY <1>1, <1>3, <1>4

\* After any number of writes, a palette that changed has set repaint.
LEMMA AppliedCame ==
    ASSUME NEW more \in Seq(DacWrites), queued \in Seq(DacWrites), Dac \in DacType
    PROVE  CameOf(Applied(more), Dac)
  <1> DEFINE writes == queued \o more
  <1>0. writes \in Seq(DacWrites) /\ Len(writes) \in Nat
        /\ \A k \in 1..Len(writes) : writes[k] \in DacWrites
    OBVIOUS
  <1> DEFINE F(g, n) ==
                 [k \in 0..n |-> IF k = 0 THEN Dac ELSE DacWrite(g[k - 1], writes[k])]
             Eq(g, n) == g = F(g, n)
             S == {n \in Nat : \E g : Eq(g, n)}
  <1>01. \A g, n : /\ DOMAIN F(g, n) = 0..n
                  /\ \A k \in 0..n : F(g, n)[k] =
                         IF k = 0 THEN Dac ELSE DacWrite(g[k - 1], writes[k])
    OBVIOUS
  <1>02. \A g, n : Eq(g, n) => \A k \in 0..n : g[k] =
                         IF k = 0 THEN Dac ELSE DacWrite(g[k - 1], writes[k])
    <2> SUFFICES ASSUME NEW g, NEW n, g = F(g, n), NEW k \in 0..n
                 PROVE  g[k] = IF k = 0 THEN Dac ELSE DacWrite(g[k - 1], writes[k])
      OBVIOUS
    <2>1. F(g, n)[k] = IF k = 0 THEN Dac ELSE DacWrite(g[k - 1], writes[k])
      BY <1>01
    <2>2. g[k] = F(g, n)[k]
      <3> HIDE DEF F
      <3> QED  OBVIOUS
    <2> HIDE DEF F
    <2> QED  BY ONLY <2>1, <2>2
  <1>1. 0 \in S
    <2> DEFINE g == [k \in 0..0 |-> Dac]
    <2>1. g = F(g, 0)
      <3>1. /\ F(g, 0) = [k \in 0..0 |-> F(g, 0)[k]]
            /\ \A k \in 0..0 : F(g, 0)[k] = IF k = 0 THEN Dac ELSE DacWrite(g[k - 1], writes[k])
        BY <1>01
      <3> HIDE DEF F
      <3>2. \A k \in 0..0 : F(g, 0)[k] = Dac
        BY <3>1
      <3> QED  BY <3>1, <3>2
    <2> HIDE DEF g, F
    <2> QED  BY <2>1
  <1>2. \A n \in 0..(Len(writes) - 1) : n \in S => n + 1 \in S
    <2> HIDE DEF Eq
    <2> SUFFICES ASSUME NEW n \in Nat, NEW g, Eq(g, n)
                 PROVE  \E h : Eq(h, n + 1)
      BY <1>0
    <2> DEFINE h == [k \in 0..(n + 1) |->
                        IF k = n + 1 THEN DacWrite(g[n], writes[n + 1]) ELSE g[k]]
    <2>1. \A k \in 0..n : g[k] = IF k = 0 THEN Dac ELSE DacWrite(g[k - 1], writes[k])
      BY <1>02
    <2>2. \A k \in 0..n : h[k] = g[k]
      OBVIOUS
    <2>3. h[n + 1] = DacWrite(h[n], writes[n + 1])
      <3>1. n + 1 \in 0..(n + 1) /\ n \in 0..n
        OBVIOUS
      <3>2. h[n + 1] = DacWrite(g[n], writes[n + 1])
        BY <3>1
      <3> HIDE DEF h
      <3> QED  BY <3>1, <3>2, <2>2
    <2>4. ASSUME NEW k \in 0..(n + 1)
          PROVE  h[k] = IF k = 0 THEN Dac ELSE DacWrite(h[k - 1], writes[k])
      <3> HIDE DEF h
      <3>1. CASE k = n + 1
        <4>1. k # 0 /\ k - 1 = n
          BY <3>1
        <4> QED  BY <4>1, <3>1, <2>3
      <3>2. CASE k = 0
        BY <3>2, <2>1, <2>2
      <3>3. CASE k \in 1..n
        <4>1. k \in 0..n /\ k - 1 \in 0..n /\ k # 0
          BY <3>3
        <4>2. h[k] = g[k] /\ h[k - 1] = g[k - 1]
          BY <4>1, <2>2
        <4> QED  BY <4>1, <4>2, <2>1
      <3>4. k = n + 1 \/ k = 0 \/ k \in 1..n
        OBVIOUS
      <3> QED  BY <3>1, <3>2, <3>3, <3>4
    <2>5. h = [k \in 0..(n + 1) |-> h[k]]
      OBVIOUS
    <2>6. h = F(h, n + 1)
      <3> HIDE DEF h
      <3> QED  BY <2>4, <2>5
    <2>7. Eq(h, n + 1)
      BY <2>6 DEF Eq
    <2> HIDE DEF h
    <2> QED  BY <2>7
  <1>3. Len(writes) \in S
    <2> HIDE DEF S
    <2>1. 0..Len(writes) \subseteq S
      BY <1>0, <1>1, <1>2, Induction
    <2> QED  BY <2>1, <1>0
  <1> DEFINE after == CHOOSE g : Eq(g, Len(writes))
  <1>4. Eq(after, Len(writes))
    <2> HIDE DEF Eq
    <2>1. \E g : Eq(g, Len(writes))
      BY <1>3
    <2> QED  BY <2>1
  <1>5. Applied(more) = after[Len(writes)]
    BY DEF Applied
  <1> DEFINE C == {k \in Nat : CameOf(after[k], Dac)}
  <1> HIDE DEF after
  <1>6. \A k \in 0..Len(writes) :
            after[k] = IF k = 0 THEN Dac ELSE DacWrite(after[k - 1], writes[k])
    BY <1>4, <1>02
  <1> HIDE DEF writes, Eq
  <1>7. 0 \in C
    <2>1. after[0] = Dac
      BY <1>6, <1>0
    <2> QED  BY <2>1 DEF CameOf
  <1>8. \A k \in 0..(Len(writes) - 1) : k \in C => k + 1 \in C
    <2> SUFFICES ASSUME NEW k \in 0..(Len(writes) - 1), CameOf(after[k], Dac)
                 PROVE  CameOf(after[k + 1], Dac)
      BY <1>0
    <2>1. k + 1 \in 1..Len(writes) /\ k + 1 \in 0..Len(writes) /\ k + 1 # 0 /\ (k + 1) - 1 = k
      BY <1>0
    <2>2. after[k + 1] = DacWrite(after[k], writes[k + 1])
      BY <2>1, <1>6
    <2> QED  BY <2>1, <2>2, <1>0, DacWriteCame
  <1>9. Len(writes) \in C
    <2> HIDE DEF C
    <2>1. 0..Len(writes) \subseteq C
      BY <1>0, <1>7, <1>8, Induction
    <2> QED  BY <2>1, <1>0
  <1> QED  BY <1>5, <1>9

-----------------------------------------------------------------------------
(* Pages and rows.                                                         *)

LEMMA DivFacts ==
    ASSUME NEW a \in Nat, NEW b \in Nat \ {0}
    PROVE  a \div b \in Nat /\ (a \div b) * b <= a /\ a < (a \div b) * b + b
  <1>1. a = b * (a \div b) + (a % b) /\ 0 <= a % b /\ a % b < b /\ a \div b \in Int /\ a % b \in Int
    OBVIOUS
  <1> DEFINE q == a \div b
             r == a % b
  <1> HIDE DEF q, r
  <1>2. a = b * q + r /\ 0 <= r /\ r < b /\ q \in Int /\ r \in Int
    BY <1>1 DEF q, r
  <1>3. q >= 0
    <2> SUFFICES ASSUME q <= -1 PROVE FALSE
      BY <1>2
    <2>1. b * q <= b * (-1)
      BY <1>2
    <2> QED  BY <2>1, <1>2
  <1>4. b * q = q * b
    BY <1>2
  <1>5. q \in Nat /\ q * b <= a /\ a < q * b + b
    BY <1>2, <1>3, <1>4
  <1> QED  BY <1>5 DEF q

LEMMA CeilDivFacts ==
    ASSUME NEW a \in Nat, NEW b \in Nat \ {0}
    PROVE  CeilDiv(a, b) \in Nat /\ a <= CeilDiv(a, b) * b /\ CeilDiv(a, b) * b < a + b
  <1> DEFINE n == a + b - 1
  <1>1. n \in Nat
    OBVIOUS
  <1>2. CeilDiv(a, b) = n \div b
    BY DEF CeilDiv
  <1>3. n \div b \in Nat /\ (n \div b) * b <= n /\ n < (n \div b) * b + b
    BY <1>1, DivFacts
  <1> DEFINE q == n \div b
             m == q * b
  <1>4. q \in Nat /\ m \in Nat /\ m <= n /\ n < m + b
    BY <1>3
  <1>5. CeilDiv(a, b) * b = m
    BY <1>2
  <1> HIDE DEF m
  <1>6. a <= m /\ m < a + b
    BY <1>4
  <1> QED  BY <1>2, <1>3, <1>5, <1>6

LEMMA SizeFacts ==
    /\ PAGE_SIZE \in Nat \ {0} /\ WIDTH \in Nat \ {0} /\ HEIGHT \in Nat \ {0}
    /\ Size \in Nat /\ NumPages \in Nat /\ Size <= NumPages * PAGE_SIZE
  <1>1. PAGE_SIZE \in Nat \ {0} /\ WIDTH \in Nat \ {0} /\ HEIGHT \in Nat \ {0}
    BY VgaAssumption
  <1>2. Size \in Nat
    BY <1>1 DEF Size
  <1> QED  BY <1>1, <1>2, CeilDivFacts DEF NumPages

\* A smaller number of pages, or rows, spans fewer pixels.
LEMMA TimesMono ==
    ASSUME NEW a \in Nat, NEW b \in Nat, NEW n \in Nat, a <= b
    PROVE  a * n <= b * n /\ a * n \in Nat /\ b * n \in Nat
  <1> DEFINE d == b - a
  <1>1. d \in Nat /\ b = a + d
    OBVIOUS
  <1> HIDE DEF d
  <1>2. b * n = a * n + d * n /\ d * n >= 0
    BY <1>1
  <1> QED  BY <1>1, <1>2

LEMMA PageFacts ==
    ASSUME NEW p \in Pixels
    PROVE  /\ PageOf(p) \in Pages /\ p \in Nat /\ p < Size
           /\ PageOf(p) * PAGE_SIZE <= p /\ p < (PageOf(p) + 1) * PAGE_SIZE
  <1>1. p \in Nat /\ p < Size
    BY SizeFacts DEF Pixels
  <1> DEFINE q == PageOf(p)
  <1>2. q \in Nat /\ q * PAGE_SIZE <= p /\ p < q * PAGE_SIZE + PAGE_SIZE
    BY <1>1, DivFacts, SizeFacts DEF PageOf
  <1> HIDE DEF q
  <1>3. (q + 1) * PAGE_SIZE = q * PAGE_SIZE + PAGE_SIZE
    BY <1>2, SizeFacts
  <1>4. q < NumPages
    <2> SUFFICES ASSUME NumPages <= q PROVE FALSE
      BY <1>2, SizeFacts
    <2>1. NumPages * PAGE_SIZE <= q * PAGE_SIZE
      BY <1>2, SizeFacts, TimesMono
    <2> DEFINE x == NumPages * PAGE_SIZE
               y == q * PAGE_SIZE
    <2>2. x \in Nat /\ y \in Nat /\ x <= y /\ y <= p /\ Size <= x
      BY <2>1, <1>2, SizeFacts
    <2> HIDE DEF x, y
    <2> QED  BY <2>2, <1>1, SizeFacts
  <1>5. q \in Pages
    BY <1>2, <1>4, SizeFacts DEF Pages
  <1> QED  BY <1>1, <1>2, <1>3, <1>5 DEF q

\* The rows of a range of pages cover its pixels, and end with the display
\* (Vga::changed_rows in render()).
LEMMA RowsFacts ==
    ASSUME NEW first \in Pages, NEW last \in Pages
    PROVE  LET rows == RowsOf(first, last)
           IN  /\ rows[1] * WIDTH \in Nat /\ rows[2] * WIDTH \in 0..Size
               /\ \A p \in Pixels :
                     first <= PageOf(p) /\ PageOf(p) <= last =>
                         rows[1] * WIDTH <= p /\ p < rows[2] * WIDTH
  <1> DEFINE start == first * PAGE_SIZE
             stop == (last + 1) * PAGE_SIZE
             top == IF stop < Size THEN stop ELSE Size
             r1 == start \div WIDTH
             r2 == CeilDiv(top, WIDTH)
  <1>1. first \in Nat /\ last \in Nat
    BY SizeFacts DEF Pages
  <1>2. start \in Nat /\ stop \in Nat /\ top \in Nat /\ top <= Size
    BY <1>1, SizeFacts
  <1>3. RowsOf(first, last) = <<r1, r2>>
    BY DEF RowsOf
  <1>4. r1 \in Nat /\ r1 * WIDTH <= start
    <2> HIDE DEF start
    <2> QED  BY <1>2, DivFacts, SizeFacts
  <1>5. r2 \in Nat /\ top <= r2 * WIDTH /\ r2 * WIDTH < top + WIDTH
    <2> HIDE DEF top
    <2> QED  BY <1>2, CeilDivFacts, SizeFacts
  <1> HIDE DEF r1, r2
  <1>6. r2 <= HEIGHT
    <2> SUFFICES ASSUME HEIGHT + 1 <= r2 PROVE FALSE
      BY <1>5, SizeFacts
    <2>1. (HEIGHT + 1) * WIDTH <= r2 * WIDTH
      BY <1>5, SizeFacts, TimesMono
    <2>2. (HEIGHT + 1) * WIDTH = Size + WIDTH
      BY SizeFacts DEF Size
    <2> DEFINE y == r2 * WIDTH
    <2>3. y \in Nat /\ y < top + WIDTH /\ Size + WIDTH <= y
      BY <2>1, <2>2, <1>5, SizeFacts
    <2> HIDE DEF y, top
    <2> QED  BY <2>3, <1>2, SizeFacts
  <1>7. r2 * WIDTH <= Size
    <2>1. r2 * WIDTH <= HEIGHT * WIDTH
      BY <1>5, <1>6, SizeFacts, TimesMono
    <2>2. HEIGHT * WIDTH = Size
      BY SizeFacts DEF Size
    <2> QED  BY <2>1, <2>2
  <1>8. r1 * WIDTH \in Nat /\ r2 * WIDTH \in 0..Size
    BY <1>4, <1>5, <1>7, SizeFacts
  <1>9. ASSUME NEW p \in Pixels, first <= PageOf(p), PageOf(p) <= last
        PROVE  r1 * WIDTH <= p /\ p < r2 * WIDTH
    <2> DEFINE q == PageOf(p)
    <2>1. /\ q \in Nat /\ p \in Nat /\ p < Size
          /\ q * PAGE_SIZE <= p /\ p < (q + 1) * PAGE_SIZE
      BY PageFacts, SizeFacts DEF Pages
    <2>2. first <= q /\ q + 1 <= last + 1 /\ q + 1 \in Nat /\ last + 1 \in Nat
      BY <1>1, <1>9, <2>1
    <2> HIDE DEF q
    <2>3. first * PAGE_SIZE <= q * PAGE_SIZE
      BY <1>1, <2>1, <2>2, TimesMono, SizeFacts
    <2>4. (q + 1) * PAGE_SIZE <= (last + 1) * PAGE_SIZE
      BY <2>1, <2>2, TimesMono, SizeFacts
    <2> DEFINE x == q * PAGE_SIZE
               y == (q + 1) * PAGE_SIZE
               u == r1 * WIDTH
               v == r2 * WIDTH
    <2>5. x \in Nat /\ y \in Nat /\ x <= p /\ p < y /\ start <= x /\ y <= stop
      BY <2>1, <2>3, <2>4, SizeFacts
    <2>6. u \in Nat /\ v \in Nat /\ u <= start /\ top <= v
      BY <1>4, <1>5, SizeFacts
    <2> HIDE DEF x, y, u, v, start, stop
    <2>7. u <= p
      BY <2>1, <2>5, <2>6, <1>2
    <2>8. p < v
      BY <2>1, <2>5, <2>6, <1>2, SizeFacts
    <2> QED  BY <2>7, <2>8 DEF u, v
  <1> QED  BY <1>3, <1>8, <1>9

\* A set of pages has a first and a last one (MinPage, MaxPage).
LEMMA MinMaxPage ==
    ASSUME NEW S \in SUBSET Pages, S # {}
    PROVE  /\ MinPage(S) \in S /\ MaxPage(S) \in S
           /\ \A q \in S : MinPage(S) <= q /\ q <= MaxPage(S)
  <1>1. S \in SUBSET Nat /\ S \in SUBSET (0..NumPages) /\ NumPages \in Nat
    BY SizeFacts DEF Pages
  <1>2. \E p \in S : \A q \in S : p <= q
    BY <1>1, Least
  <1>3. \E p \in S : \A q \in S : q <= p
    BY <1>1, Greatest
  <1>4. MinPage(S) \in S /\ \A q \in S : MinPage(S) <= q
    BY <1>2 DEF MinPage
  <1>5. MaxPage(S) \in S /\ \A q \in S : q <= MaxPage(S)
    BY <1>3 DEF MaxPage
  <1> QED  BY <1>4, <1>5

-----------------------------------------------------------------------------
(* The picture.                                                            *)

CopyType == [pos : Nat, end : 0..Size, palette : [Entries -> Entries], on : BOOLEAN]

VgaType ==
    /\ framebuffer \in BOOLEAN /\ ac_on \in BOOLEAN /\ repaint \in BOOLEAN
    /\ fb \in [Pixels -> Entries]
    /\ dirty \in SUBSET Pages
    /\ queued \in Seq(DacWrites)
    /\ palette \in [Entries -> Entries] /\ dac_write \in Entries
    /\ frame \in Nat
    /\ page_written \in [Pages -> 0..frame]
    /\ client_seen \in [Clients -> 0..frame]
    /\ client_out \in [Clients -> [Pixels -> Entries]]
    /\ copy \in [Clients -> CopyType]

\* The client's copy loop draws what the guest wants drawn.
Current(c) == copy[c].palette = palette /\ copy[c].on = (framebuffer /\ ac_on)

\* The next render() of the client draws the pixel.  Writes in the ring are no
\* reason: until they are applied, nobody has to show them.
Due(c, p) ==
    \/ client_seen[c] = 0
    \/ repaint
    \/ PageOf(p) \in dirty
    \/ page_written[PageOf(p)] > client_seen[c]

\* The client's copy loop has yet to draw the pixel.
Drawing(c, p) == copy[c].pos <= p /\ p < copy[c].end /\ Current(c)

PixelsInv ==
    \A c \in Clients, p \in Pixels : client_out[c][p] = Shown(p) \/ Due(c, p) \/ Drawing(c, p)

\* A copy loop that draws with an old palette will be made up for everywhere.
CopyInv ==
    \A c \in Clients :
        copy[c].pos < copy[c].end =>
            Current(c) \/ repaint \/ \A q \in Pages : page_written[q] > client_seen[c]

VgaInv == VgaType /\ PixelsInv /\ CopyInv

\* Nothing is drawn, and nothing shown.
LEMMA VgaInvInit == VgaInit => VgaInv
  <1> SUFFICES ASSUME VgaInit PROVE VgaInv
    OBVIOUS
  <1> USE DEF VgaInit
  <1>1. 0 \in Entries /\ 0 \in 0..Size
    BY SizeFacts DEF Entries
  <1>2. Idle \in CopyType
    BY <1>1 DEF Idle, CopyType
  <1>3. VgaType
    <2>1. framebuffer \in BOOLEAN /\ ac_on \in BOOLEAN /\ repaint \in BOOLEAN
      OBVIOUS
    <2>7. queued \in Seq(DacWrites)
      OBVIOUS
    <2>8. dirty \in SUBSET Pages /\ dac_write \in Entries
      BY <1>1
    <2>2. fb \in [Pixels -> Entries]
      BY <1>1
    <2>5. palette \in [Entries -> Entries]
      BY <1>1
    <2>6. client_out \in [Clients -> [Pixels -> Entries]]
      BY <1>1
    <2>3. /\ frame \in Nat /\ page_written \in [Pages -> 0..frame]
          /\ client_seen \in [Clients -> 0..frame]
      OBVIOUS
    <2>4. copy \in [Clients -> CopyType]
      BY <1>2
    <2> QED  BY <2>1, <2>2, <2>3, <2>4, <2>5, <2>6, <2>7, <2>8 DEF VgaType
  <1>4. PixelsInv
    BY DEF PixelsInv, Due
  <1>5. CopyInv
    BY DEF CopyInv, Idle
  <1> QED  BY <1>3, <1>4, <1>5 DEF VgaInv

LEMMA DacFacts ==
    ASSUME VgaType
    PROVE  Dac \in DacType /\ Dac.palette = palette /\ Dac.repaint = repaint
  BY DEF VgaType, Dac, DacType

\* Applying writes leaves the palette alone or has every page repainted.
LEMMA ApplyQueuedFacts ==
    ASSUME VgaType, NEW more \in Seq(DacWrites), ApplyQueued(more)
    PROVE  /\ queued' \in Seq(DacWrites)
           /\ palette' \in [Entries -> Entries] /\ dac_write' \in Entries
           /\ Applied(more).palette = palette'
           /\ Applied(more).repaint \in BOOLEAN
           /\ ~Applied(more).repaint => ~repaint /\ palette' = palette
  <1>1. CameOf(Applied(more), Dac)
    BY AppliedCame, DacFacts DEF VgaType
  <1>2. /\ Applied(more).palette \in [Entries -> Entries]
        /\ Applied(more).at \in Entries /\ Applied(more).repaint \in BOOLEAN
    BY <1>1 DEF CameOf, DacType
  <1>3. /\ queued' = << >> /\ palette' = Applied(more).palette
        /\ dac_write' = Applied(more).at
    BY DEF ApplyQueued
  <1>4. ~Applied(more).repaint => ~repaint /\ Applied(more).palette = palette
    BY <1>1, DacFacts DEF CameOf
  <1>5. queued' \in Seq(DacWrites)
    BY <1>3
  <1> QED  BY <1>2, <1>3, <1>4, <1>5

\* A register access of the guest applies what is queued, and has every page
\* repainted if the picture changes.
LEMMA RegisterStep ==
    ASSUME VgaInv, NEW more \in Seq(DacWrites), ApplyQueued(more),
           repaint' \in BOOLEAN, ac_on' \in BOOLEAN,
           ~repaint' => ~Applied(more).repaint /\ ac_on' = ac_on,
           UNCHANGED <<adapter, fb, dirty, frame, page_written, client_seen, client_out, copy>>
    PROVE  VgaInv'
  <1>1. /\ queued' \in Seq(DacWrites)
        /\ palette' \in [Entries -> Entries] /\ dac_write' \in Entries
        /\ ~repaint' => ~repaint /\ palette' = palette /\ ac_on' = ac_on
    BY ApplyQueuedFacts DEF VgaInv
  <1>2. VgaType'
    BY <1>1 DEF VgaInv, VgaType, adapter, CopyType
  <1>3. PixelsInv'
    BY <1>1 DEF VgaInv, PixelsInv, Shown, Due, Drawing, Current, adapter, VgaType
  <1>4. CopyInv'
    BY <1>1 DEF VgaInv, CopyInv, Current, adapter, VgaType
  <1> QED  BY <1>2, <1>3, <1>4 DEF VgaInv

LEMMA DrawStep ==
    ASSUME VgaInv, NEW p \in Pixels, GuestDraw(p)
    PROVE  VgaInv'
  <1>1. PICK v \in Entries : fb' = [fb EXCEPT ![p] = v]
    BY DEF GuestDraw
  <1>2. dirty' = dirty \cup {PageOf(p)} /\ PageOf(p) \in Pages
    BY PageFacts DEF GuestDraw
  <1>3. UNCHANGED <<adapter, queued, dacVars, acVars, frame, page_written, repaint,
                    client_seen, client_out, copy>>
    BY DEF GuestDraw
  <1>4. VgaType'
    BY <1>1, <1>2, <1>3 DEF VgaInv, VgaType, adapter, dacVars, acVars
  <1>5. PixelsInv'
    <2> SUFFICES ASSUME NEW c \in Clients, NEW x \in Pixels
                 PROVE  (client_out[c][x] = Shown(x) \/ Due(c, x) \/ Drawing(c, x))'
      BY DEF PixelsInv
    <2>1. client_out[c][x] = Shown(x) \/ Due(c, x) \/ Drawing(c, x)
      BY DEF VgaInv, PixelsInv
    <2>2. CASE x = p
      BY <1>2, <2>2 DEF Due
    <2>3. CASE x # p
      <3>1. fb'[x] = fb[x]
        BY <1>1, <2>3 DEF VgaInv, VgaType
      <3> QED  BY <1>2, <1>3, <2>1, <3>1
               DEF Shown, Due, Drawing, Current, adapter, dacVars, acVars
    <2> QED  BY <2>2, <2>3
  <1>6. CopyInv'
    BY <1>3 DEF VgaInv, CopyInv, Current, adapter, dacVars, acVars
  <1> QED  BY <1>4, <1>5, <1>6 DEF VgaInv

\* The part of render() under the lock.  Whoever fetches the log notes in
\* page_written what it held, for the clients that have not seen it.
LEMMA LockedStep ==
    ASSUME VgaInv, NEW c0 \in Clients, NEW fetched \in BOOLEAN, RenderLocked(c0, fetched)
    PROVE  VgaInv'
  <1> DEFINE dac == Applied(<< >>)
             bitmap == IF fetched THEN dirty ELSE Pages
             written == [p \in Pages |->
                            IF dac.repaint \/ p \in bitmap THEN frame + 1 ELSE page_written[p]]
             changed == ChangedPages(written, client_seen[c0])
             rows == RowsOf(MinPage(changed), MaxPage(changed))
             loop == [pos |-> rows[1] * WIDTH, end |-> rows[2] * WIDTH,
                      palette |-> dac.palette, on |-> framebuffer /\ ac_on]
  <1>1. /\ copy[c0] = Idle
        /\ ApplyQueued(<< >>)
        /\ frame' = frame + 1
        /\ dirty' = IF fetched THEN {} ELSE dirty
        /\ page_written' = written
        /\ repaint' = FALSE
        /\ client_seen' = [client_seen EXCEPT ![c0] = frame + 1]
        /\ copy' = [copy EXCEPT ![c0] = IF changed = {} THEN Idle ELSE loop]
        /\ UNCHANGED <<adapter, fb, acVars, client_out, events>>
    BY DEF RenderLocked
  <1>2. << >> \in Seq(DacWrites)
    OBVIOUS
  <1>3. /\ queued' \in Seq(DacWrites)
        /\ palette' \in [Entries -> Entries] /\ dac_write' \in Entries
        /\ dac.palette = palette' /\ dac.repaint \in BOOLEAN
        /\ ~dac.repaint => ~repaint /\ palette' = palette
    BY <1>1, <1>2, ApplyQueuedFacts DEF VgaInv
  <1>3a. /\ framebuffer \in BOOLEAN /\ ac_on \in BOOLEAN /\ frame \in Nat
        /\ dirty \in SUBSET Pages /\ page_written \in [Pages -> 0..frame]
        /\ client_seen \in [Clients -> 0..frame] /\ copy \in [Clients -> CopyType]
    BY DEF VgaInv, VgaType
  <1>4. \A p \in Pages : /\ written[p] \in 0..(frame + 1)
                         /\ written[p] >= page_written[p]
                         /\ dac.repaint \/ p \in bitmap => written[p] = frame + 1
                         /\ ~(dac.repaint \/ p \in bitmap) => written[p] = page_written[p]
    <2> HIDE DEF dac, bitmap
    <2> QED  BY <1>3a
  <1>5. written \in [Pages -> 0..(frame + 1)]
    <2> HIDE DEF dac, bitmap
    <2> QED  BY <1>4
  <1> HIDE DEF written, dac
  <1>6. changed \in SUBSET Pages
        /\ \A p \in Pages : p \in changed <=> client_seen[c0] = 0 \/ written[p] > client_seen[c0]
    BY DEF ChangedPages
  <1> HIDE DEF changed
  <1>7. changed # {} =>
            /\ loop \in CopyType
            /\ \A p \in Pixels : PageOf(p) \in changed => loop.pos <= p /\ p < loop.end
    <2> SUFFICES ASSUME changed # {}
                 PROVE  /\ loop \in CopyType
                        /\ \A p \in Pixels :
                              PageOf(p) \in changed => loop.pos <= p /\ p < loop.end
      OBVIOUS
    <2>1. /\ MinPage(changed) \in changed /\ MaxPage(changed) \in changed
          /\ \A q \in changed : MinPage(changed) <= q /\ q <= MaxPage(changed)
      BY <1>6, MinMaxPage
    <2>2. MinPage(changed) \in Pages /\ MaxPage(changed) \in Pages
      BY <2>1, <1>6
    <2>3. /\ rows[1] * WIDTH \in Nat /\ rows[2] * WIDTH \in 0..Size
          /\ \A p \in Pixels :
                MinPage(changed) <= PageOf(p) /\ PageOf(p) <= MaxPage(changed) =>
                    rows[1] * WIDTH <= p /\ p < rows[2] * WIDTH
      BY <2>2, RowsFacts
    <2> DEFINE start == rows[1] * WIDTH
               end == rows[2] * WIDTH
    <2>4. /\ start \in Nat /\ end \in 0..Size
          /\ \A p \in Pixels : PageOf(p) \in changed => start <= p /\ p < end
      BY <2>1, <2>3
    <2> HIDE DEF rows
    <2>5. loop.pos = start /\ loop.end = end
      OBVIOUS
    <2>6. loop \in CopyType
      BY <2>4, <1>3, <1>3a DEF CopyType
    <2> QED  BY <2>4, <2>5, <2>6
  <1>8. loop.palette = palette' /\ loop.on = (framebuffer /\ ac_on)
    BY <1>3
  <1> HIDE DEF loop
  <1>9. Idle \in CopyType /\ Idle.pos = 0 /\ Idle.end = 0
    BY SizeFacts DEF Idle, CopyType, Entries
  <1>10. client_seen'[c0] = frame + 1 /\ \A c \in Clients : c # c0 => client_seen'[c] = client_seen[c]
    BY <1>1, <1>3a
  <1>11. copy'[c0] = (IF changed = {} THEN Idle ELSE loop)
         /\ \A c \in Clients : c # c0 => copy'[c] = copy[c]
    BY <1>1, <1>3a
  <1>12. VgaType'
    <2>1. client_seen' \in [Clients -> 0..frame']
      BY <1>1, <1>3a
    <2>2. copy' \in [Clients -> CopyType]
      BY <1>1, <1>3a, <1>7, <1>9
    <2>3. page_written' \in [Pages -> 0..frame'] /\ frame' \in Nat
      BY <1>1, <1>5, <1>3a
    <2>4. dirty' \in SUBSET Pages
      BY <1>1, <1>3a
    <2>5. /\ framebuffer' \in BOOLEAN /\ ac_on' \in BOOLEAN /\ repaint' \in BOOLEAN
          /\ fb' \in [Pixels -> Entries] /\ client_out' \in [Clients -> [Pixels -> Entries]]
      BY <1>1 DEF VgaInv, VgaType, adapter, acVars
    <2> QED  BY <2>1, <2>2, <2>3, <2>4, <2>5, <1>3 DEF VgaType, CopyType
  <1>13. PixelsInv'
    <2> SUFFICES ASSUME NEW c \in Clients, NEW p \in Pixels
                 PROVE  (client_out[c][p] = Shown(p) \/ Due(c, p) \/ Drawing(c, p))'
      BY DEF PixelsInv
    <2> DEFINE q == PageOf(p)
    <2>1. q \in Pages /\ p \in Nat
      BY PageFacts
    <2>2. client_out[c][p] = Shown(p) \/ Due(c, p) \/ Drawing(c, p)
      BY DEF VgaInv, PixelsInv
    \* A page that is not noted as written now has the pixel as it was.
    <2>3. written[q] # frame + 1 =>
              /\ ~dac.repaint /\ ~repaint /\ q \notin dirty
              /\ written[q] = page_written[q] /\ Shown(p)' = Shown(p)
      <3> SUFFICES ASSUME written[q] # frame + 1
                   PROVE  /\ ~dac.repaint /\ ~repaint /\ q \notin dirty
                          /\ written[q] = page_written[q] /\ Shown(p)' = Shown(p)
        OBVIOUS
      <3>1. ~dac.repaint /\ q \notin bitmap /\ written[q] = page_written[q]
        BY <1>4, <2>1
      <3>2. ~repaint /\ palette' = palette
        BY <3>1, <1>3
      <3>3. q \notin dirty
        BY <3>1, <1>3a
      <3>4. Shown(p)' = Shown(p)
        BY <3>2, <1>1 DEF Shown, adapter, acVars
      <3> QED  BY <3>1, <3>2, <3>3, <3>4
    <2>4. written[q] \in Nat /\ client_seen[c] \in 0..frame /\ page_written[q] \in 0..frame
      BY <1>5, <1>3a, <2>1
    <2>5. CASE c # c0
      <3>1. CASE written[q] = frame + 1
        <4>1. page_written'[q] > client_seen'[c]
          BY <3>1, <2>4, <2>5, <1>1, <1>10, <1>3a
        <4> QED  BY <4>1 DEF Due
      <3>2. CASE written[q] # frame + 1
        <4>1. client_out'[c][p] = client_out[c][p] /\ client_seen'[c] = client_seen[c] /\ copy'[c] = copy[c]
              /\ page_written'[q] = page_written[q]
          BY <3>2, <2>3, <2>5, <1>1, <1>10, <1>11
        <4>2. palette' = palette /\ framebuffer' = framebuffer /\ ac_on' = ac_on
          BY <3>2, <2>3, <1>1, <1>3 DEF adapter, acVars
        <4>3. CASE client_out[c][p] = Shown(p)
          BY <4>1, <4>3, <3>2, <2>3
        <4>4. CASE Due(c, p)
          <5>1. client_seen[c] = 0 \/ page_written[q] > client_seen[c]
            BY <4>4, <3>2, <2>3 DEF Due
          <5> QED  BY <5>1, <4>1 DEF Due
        <4>5. CASE Drawing(c, p)
          BY <4>1, <4>2, <4>5 DEF Drawing, Current
        <4> QED  BY <4>3, <4>4, <4>5, <2>2
      <3> QED  BY <3>1, <3>2
    <2>6. CASE c = c0
      <3>1. CASE q \in changed
        <4>1. changed # {} /\ copy'[c] = loop
          BY <3>1, <2>6, <1>11
        <4>2. loop.pos <= p /\ p < loop.end
          BY <4>1, <3>1, <1>7
        <4>3. Drawing(c, p)'
          BY <4>1, <4>2, <1>1, <1>8 DEF Drawing, Current, adapter, acVars
        <4> QED  BY <4>3
      <3>2. CASE q \notin changed
        <4>1. client_seen[c] # 0 /\ ~(written[q] > client_seen[c])
          BY <3>2, <2>1, <2>6, <1>6
        <4>2. written[q] # frame + 1
          BY <4>1, <2>4, <1>3a
        <4>3. ~Due(c, p)
          BY <4>1, <4>2, <2>3 DEF Due
        <4>4. ~Drawing(c, p)
          BY <1>1, <1>9, <2>1, <2>6 DEF Drawing
        <4>5. client_out[c][p] = Shown(p)
          BY <4>3, <4>4, <2>2
        <4> QED  BY <4>2, <4>5, <2>3, <1>1
      <3> QED  BY <3>1, <3>2
    <2> QED  BY <2>5, <2>6
  <1>14. CopyInv'
    <2> SUFFICES ASSUME NEW c \in Clients, copy'[c].pos < copy'[c].end
                 PROVE  Current(c)' \/ \A q \in Pages : page_written'[q] > client_seen'[c]
      BY DEF CopyInv
    <2>1. CASE c = c0
      <3>1. copy'[c] = loop
        <4>1. copy'[c] # Idle
          BY <1>9
        <4> QED  BY <4>1, <2>1, <1>11
      <3> QED  BY <3>1, <1>1, <1>8 DEF Current, adapter, acVars
    <2>2. CASE c # c0
      <3>1. copy'[c] = copy[c] /\ client_seen'[c] = client_seen[c]
        BY <2>2, <1>10, <1>11
      <3>2. Current(c) \/ repaint \/ \A q \in Pages : page_written[q] > client_seen[c]
        BY <3>1 DEF VgaInv, CopyInv
      <3>3. client_seen[c] \in 0..frame
        BY <1>3a
      <3>4. CASE dac.repaint
        <4>1. \A q \in Pages : page_written'[q] > client_seen'[c]
          <5> TAKE q \in Pages
          <5>1. written[q] = frame + 1
            BY <3>4, <1>4
          <5> QED  BY <5>1, <3>1, <3>3, <1>1, <1>3a
        <4> QED  BY <4>1
      <3>5. CASE ~dac.repaint
        <4>1. ~repaint /\ palette' = palette
          BY <3>5, <1>3
        <4>2. CASE Current(c)
          BY <4>1, <4>2, <3>1, <1>1 DEF Current, adapter, acVars
        <4>3. CASE \A q \in Pages : page_written[q] > client_seen[c]
          <5> SUFFICES ASSUME NEW q \in Pages PROVE page_written'[q] > client_seen'[c]
            OBVIOUS
          <5>1. page_written[q] > client_seen[c] /\ written[q] >= page_written[q]
            BY <4>3, <1>4
          <5>2. written[q] \in 0..(frame + 1) /\ page_written[q] \in 0..frame
            BY <1>4, <1>3a
          <5> QED  BY <5>1, <5>2, <3>1, <3>3, <1>1, <1>3a
        <4> QED  BY <4>1, <4>2, <4>3, <3>2
      <3> QED  BY <3>4, <3>5, <1>3
    <2> QED  BY <2>1, <2>2
  <1> QED  BY <1>12, <1>13, <1>14 DEF VgaInv

\* One pixel of the loop without the lock: drawn as the guest wants it, or the
\* loop is one that will be made up for.
LEMMA PixelStep ==
    ASSUME VgaInv, NEW c0 \in Clients, RenderPixel(c0)
    PROVE  VgaInv'
  <1> DEFINE r == copy[c0]
             v == IF r.on THEN r.palette[fb[r.pos]] ELSE 0
             next == IF r.pos + 1 = r.end THEN Idle ELSE [r EXCEPT !.pos = @ + 1]
  <1>1. /\ r.pos < r.end
        /\ client_out' = [client_out EXCEPT ![c0][r.pos] = v]
        /\ copy' = [copy EXCEPT ![c0] = next]
        /\ UNCHANGED <<adapter, fb, dirty, queued, dacVars, acVars, frame, page_written,
                       repaint, client_seen, events>>
    BY DEF RenderPixel
  <1>2. /\ copy \in [Clients -> CopyType] /\ client_out \in [Clients -> [Pixels -> Entries]]
        /\ fb \in [Pixels -> Entries] /\ client_seen \in [Clients -> 0..frame]
    BY DEF VgaInv, VgaType
  <1>3. r \in CopyType /\ r.pos \in Nat /\ r.end \in 0..Size
        /\ r.palette \in [Entries -> Entries] /\ r.on \in BOOLEAN
    BY <1>2 DEF CopyType
  <1>4. r.pos \in Pixels
    BY <1>1, <1>3, SizeFacts DEF Pixels
  <1>5. v \in Entries
    BY <1>2, <1>3, <1>4 DEF Entries
  <1>6. next \in CopyType
    <2>1. Idle \in CopyType
      BY SizeFacts DEF Idle, CopyType, Entries
    <2>2. [r EXCEPT !.pos = @ + 1] \in CopyType
      BY <1>3 DEF CopyType
    <2> QED  BY <2>1, <2>2
  <1>7. \A p \in Nat : next.pos <= p /\ p < next.end <=> r.pos + 1 <= p /\ p < r.end
    BY <1>1, <1>3 DEF Idle, CopyType
  <1>8. next.pos < next.end => next.palette = r.palette /\ next.on = r.on
    <2>1. CASE r.pos + 1 = r.end
      BY <2>1 DEF Idle
    <2>2. CASE r.pos + 1 # r.end
      BY <2>2, <1>3 DEF CopyType
    <2> QED  BY <2>1, <2>2
  <1> HIDE DEF next, v
  <1>9. copy'[c0] = next /\ \A c \in Clients : c # c0 => copy'[c] = copy[c]
    BY <1>1, <1>2
  <1>10. /\ client_out'[c0][r.pos] = v
         /\ \A c \in Clients, p \in Pixels :
               ~(c = c0 /\ p = r.pos) => client_out'[c][p] = client_out[c][p]
    BY <1>1, <1>2, <1>4
  <1>11. VgaType'
    <2>1. client_out' \in [Clients -> [Pixels -> Entries]]
      BY <1>1, <1>2, <1>4, <1>5
    <2>2. copy' \in [Clients -> CopyType]
      BY <1>1, <1>2, <1>6
    <2> QED  BY <1>1, <2>1, <2>2 DEF VgaInv, VgaType, adapter, dacVars, acVars, CopyType
  <1>12. \A p \in Pixels, c \in Clients : Shown(p)' = Shown(p) /\ (Due(c, p)' <=> Due(c, p))
    BY <1>1 DEF Shown, Due, adapter, dacVars, acVars
  <1>13. PixelsInv'
    <2> SUFFICES ASSUME NEW c \in Clients, NEW p \in Pixels, ~Due(c, p)
                 PROVE  (client_out[c][p] = Shown(p) \/ Drawing(c, p))'
      BY <1>12 DEF PixelsInv
    <2>1. client_out[c][p] = Shown(p) \/ Drawing(c, p)
      BY DEF VgaInv, PixelsInv
    <2>2. p \in Nat /\ PageOf(p) \in Pages
      BY PageFacts
    <2>3. CASE c = c0 /\ p = r.pos
      <3>1. Current(c)
        <4>1. Current(c) \/ repaint \/ \A q \in Pages : page_written[q] > client_seen[c]
          BY <1>1, <2>3 DEF VgaInv, CopyInv
        <4> QED  BY <4>1, <2>2 DEF Due
      <3>2. v = Shown(p)
        BY <3>1, <2>3 DEF v, Shown, Current
      <3> QED  BY <3>2, <2>3, <1>10, <1>12
    <2>4. CASE ~(c = c0 /\ p = r.pos)
      <3>1. client_out'[c][p] = client_out[c][p]
        BY <2>4, <1>10
      <3>2. CASE client_out[c][p] = Shown(p)
        BY <3>1, <3>2, <1>12
      <3>3. CASE Drawing(c, p)
        <4>1. CASE c # c0
          BY <4>1, <3>3, <1>1, <1>9 DEF Drawing, Current, adapter, dacVars, acVars
        <4>2. CASE c = c0
          <5>1. r.pos + 1 <= p /\ p < r.end
            BY <4>2, <3>3, <2>2, <2>4, <1>3 DEF Drawing
          <5>2. next.pos <= p /\ p < next.end
            BY <5>1, <2>2, <1>7
          <5>3. next.pos < next.end
            BY <5>2, <2>2, <1>6 DEF CopyType
          <5>4. next.palette = r.palette /\ next.on = r.on
            BY <5>3, <1>8
          <5> QED  BY <5>2, <5>4, <4>2, <3>3, <1>1, <1>9
                   DEF Drawing, Current, adapter, dacVars, acVars
        <4> QED  BY <4>1, <4>2
      <3> QED  BY <3>2, <3>3, <2>1
    <2> QED  BY <2>3, <2>4
  <1>14. CopyInv'
    <2> SUFFICES ASSUME NEW c \in Clients, copy'[c].pos < copy'[c].end
                 PROVE  (Current(c) \/ repaint \/ \A q \in Pages : page_written[q] > client_seen[c])'
      BY DEF CopyInv
    <2>1. copy[c].pos < copy[c].end /\ copy'[c].palette = copy[c].palette
          /\ copy'[c].on = copy[c].on
      BY <1>1, <1>8, <1>9
    <2>2. Current(c) \/ repaint \/ \A q \in Pages : page_written[q] > client_seen[c]
      BY <2>1 DEF VgaInv, CopyInv
    <2> QED  BY <2>1, <2>2, <1>1 DEF Current, adapter, dacVars, acVars
  <1> QED  BY <1>11, <1>13, <1>14 DEF VgaInv

\* One step per action of the guest and of the clients.
LEMMA VgaInvNext == VgaInv /\ [VgaNext]_vgaVars => VgaInv'
  <1> SUFFICES ASSUME VgaInv, [VgaNext]_vgaVars PROVE VgaInv'
    OBVIOUS
  <1>1. ASSUME NEW p \in Pixels, GuestDraw(p) PROVE VgaInv'
    BY <1>1, DrawStep
  <1>2. ASSUME NEW w \in DacWrites, GuestDacQueued(w) PROVE VgaInv'
    <2>1. queued' = Append(queued, w)
          /\ UNCHANGED <<adapter, fb, dirty, dacVars, acVars, frame, page_written, repaint,
                         client_seen, client_out, copy>>
      BY <1>2 DEF GuestDacQueued
    <2>2. queued' \in Seq(DacWrites)
      BY <2>1 DEF VgaInv, VgaType
    <2>3. VgaType'
      BY <2>1, <2>2 DEF VgaInv, VgaType, adapter, dacVars, acVars, CopyType
    <2>4. PixelsInv' /\ CopyInv'
      BY <2>1 DEF VgaInv, PixelsInv, CopyInv, Shown, Due, Drawing, Current, adapter,
                  dacVars, acVars
    <2> QED  BY <2>3, <2>4 DEF VgaInv
  <1>3. ASSUME NEW w \in DacWrites, GuestDacExit(w) PROVE VgaInv'
    <2>1. <<w>> \in Seq(DacWrites)
      OBVIOUS
    <2>2. /\ ApplyQueued(<<w>>) /\ repaint' = Applied(<<w>>).repaint
          /\ UNCHANGED <<adapter, fb, dirty, acVars, frame, page_written, client_seen, client_out, copy>>
      BY <1>3 DEF GuestDacExit
    <2>3. Applied(<<w>>).repaint \in BOOLEAN
      BY <2>1, <2>2, ApplyQueuedFacts DEF VgaInv
    <2>4. repaint' \in BOOLEAN /\ ac_on' \in BOOLEAN /\ ac_on' = ac_on
      BY <2>2, <2>3 DEF VgaInv, VgaType, acVars
    <2> QED  BY <2>1, <2>2, <2>4, RegisterStep
  <1>4. ASSUME NEW on \in BOOLEAN, GuestAc(on) PROVE VgaInv'
    <2>1. << >> \in Seq(DacWrites)
      OBVIOUS
    <2>2. /\ ApplyQueued(<< >>)
          /\ ac_on' = IF ac_data_next THEN ac_on ELSE on
          /\ repaint' = (Applied(<< >>).repaint \/ ac_on' # ac_on)
          /\ UNCHANGED <<adapter, fb, dirty, frame, page_written, client_seen, client_out, copy>>
      BY <1>4 DEF GuestAc
    <2>3. ac_on' \in BOOLEAN
      BY <2>2 DEF VgaInv, VgaType
    <2>4. repaint' \in BOOLEAN
      BY <2>2
    <2> QED  BY <2>1, <2>2, <2>3, <2>4, RegisterStep
  <1>5. ASSUME GuestInstat PROVE VgaInv'
    <2>1. << >> \in Seq(DacWrites)
      OBVIOUS
    <2>2. /\ ApplyQueued(<< >>) /\ repaint' = Applied(<< >>).repaint /\ ac_on' = ac_on
          /\ UNCHANGED <<adapter, fb, dirty, frame, page_written, client_seen, client_out, copy>>
      BY <1>5 DEF GuestInstat
    <2>3. Applied(<< >>).repaint \in BOOLEAN
      BY <2>1, <2>2, ApplyQueuedFacts DEF VgaInv
    <2>4. repaint' \in BOOLEAN /\ ac_on' \in BOOLEAN
      BY <2>2, <2>3 DEF VgaInv, VgaType
    <2> QED  BY <2>1, <2>2, <2>4, RegisterStep
  <1>6. ASSUME NEW c \in Clients, NEW fetched \in BOOLEAN, RenderLocked(c, fetched)
        PROVE  VgaInv'
    BY <1>6, LockedStep
  <1>7. ASSUME NEW c \in Clients, RenderPixel(c) PROVE VgaInv'
    BY <1>7, PixelStep
  <1>8. ASSUME NEW c \in Clients, StartOver(c) PROVE VgaInv'
    <2>1. /\ copy[c] = Idle /\ client_seen' = [client_seen EXCEPT ![c] = 0]
          /\ UNCHANGED <<adapter, fb, dirty, queued, dacVars, acVars, frame, page_written,
                         repaint, client_out, copy>>
      BY <1>8 DEF StartOver
    <2>2. client_seen \in [Clients -> 0..frame] /\ frame \in Nat
      BY DEF VgaInv, VgaType
    <2>3. VgaType'
      <3>1. client_seen' \in [Clients -> 0..frame]
        BY <2>1, <2>2
      <3> QED  BY <2>1, <3>1 DEF VgaInv, VgaType, adapter, dacVars, acVars, CopyType
    <2>4. \A d \in Clients : client_seen'[d] = 0 \/ client_seen'[d] = client_seen[d]
      BY <2>1, <2>2
    <2>5. PixelsInv'
      BY <2>1, <2>4 DEF VgaInv, PixelsInv, Shown, Due, Drawing, Current, adapter, dacVars,
                        acVars
    <2>6. CopyInv'
      <3>1. Idle.pos = Idle.end
        BY DEF Idle
      <3>2. \A d \in Clients : d # c => client_seen'[d] = client_seen[d]
        BY <2>1, <2>2
      <3>3. ~(copy[c].pos < copy[c].end)
        BY <2>1 DEF Idle
      <3> QED  BY <2>1, <3>2, <3>3 DEF VgaInv, CopyInv, Current, adapter, dacVars, acVars
    <2> QED  BY <2>3, <2>5, <2>6 DEF VgaInv
  <1>9. ASSUME UNCHANGED vgaVars PROVE VgaInv'
    <2> USE <1>9 DEF vgaVars, adapter, dacVars, acVars
    <2>1. VgaType'
      BY DEF VgaInv, VgaType, CopyType
    <2>2. PixelsInv' /\ CopyInv'
      BY DEF VgaInv, PixelsInv, CopyInv, Shown, Due, Drawing, Current
    <2> QED  BY <2>1, <2>2 DEF VgaInv
  <1> QED
    BY <1>1, <1>2, <1>3, <1>4, <1>5, <1>6, <1>7, <1>8, <1>9 DEF VgaNext, Guest

\* A client never keeps a stale pixel unnoticed, for every number of clients,
\* every size of display and page, and every order of drawing, register
\* accesses and rendering (Display for Mutex<Vga>).
THEOREM NoStalePixelCorrect == VgaSpec => []NoStalePixel
  <1>1. VgaInv => NoStalePixel
    <2> SUFFICES ASSUME VgaInv, NEW c \in Clients
                 PROVE  /\ copy[c].end <= Size
                        /\ \A p \in Pixels : client_out[c][p] = Shown(p) \/ WillBeDrawn(c, p)
      BY DEF NoStalePixel
    <2>1. copy[c].end <= Size
      BY SizeFacts DEF VgaInv, VgaType, CopyType
    <2>2. \A p \in Pixels : client_out[c][p] = Shown(p) \/ WillBeDrawn(c, p)
      BY DEF VgaInv, PixelsInv, Due, Drawing, Current, WillBeDrawn
    <2> QED  BY <2>1, <2>2
  <1> QED  BY <1>1, VgaInvInit, VgaInvNext, PTL DEF VgaSpec

-----------------------------------------------------------------------------
(* One RFB client's session.                                               *)

\* i is the last place of s with an element of S.
LastIn(s, S, i) == i \in DOMAIN s /\ s[i] \in S /\ \A j \in DOMAIN s : j > i => s[j] \notin S

NoneIn(s, S) == \A i \in DOMAIN s : s[i] \notin S

\* What taking the first element of a queue does to its last of a kind,
LEMMA PopLast ==
    ASSUME NEW T, NEW S, NEW s \in Seq(T), s # << >>
    PROVE  /\ Tail(s) \in Seq(T) /\ Head(s) \in T
           /\ NoneIn(Tail(s), S) => NoneIn(s, S) \/ (LastIn(s, S, 1) /\ s[1] = Head(s))
           /\ NoneIn(s, S) => NoneIn(Tail(s), S)
           /\ Head(s) \notin S /\ NoneIn(Tail(s), S) => NoneIn(s, S)
  <1>1. /\ Tail(s) \in Seq(T) /\ Head(s) \in T /\ Head(s) = s[1]
        /\ Len(s) \in Nat /\ Len(s) > 0
        /\ DOMAIN s = 1..Len(s) /\ DOMAIN Tail(s) = 1..(Len(s) - 1)
        /\ \A i \in 1..(Len(s) - 1) : Tail(s)[i] = s[i + 1]
    OBVIOUS
  <1>2. \A j \in 1..Len(s) : j = 1 \/ (j - 1 \in 1..(Len(s) - 1) /\ Tail(s)[j - 1] = s[j])
    BY <1>1
  <1>3. NoneIn(Tail(s), S) => NoneIn(s, S) \/ (LastIn(s, S, 1) /\ s[1] = Head(s))
    <2> SUFFICES ASSUME NoneIn(Tail(s), S), s[1] \in S PROVE LastIn(s, S, 1)
      BY <1>1, <1>2 DEF NoneIn
    <2>1. ASSUME NEW j \in DOMAIN s, j > 1 PROVE s[j] \notin S
      <3>1. j \in 1..Len(s) /\ j # 1
        BY <1>1, <2>1
      <3>2. j - 1 \in 1..(Len(s) - 1) /\ Tail(s)[j - 1] = s[j]
        BY <1>2, <3>1
      <3>3. Tail(s)[j - 1] \notin S
        BY <1>1, <3>2 DEF NoneIn
      <3> QED  BY <3>2, <3>3
    <2>2. 1 \in DOMAIN s
      BY <1>1
    <2> QED  BY <2>1, <2>2 DEF LastIn
  <1>4. NoneIn(s, S) => NoneIn(Tail(s), S)
    BY <1>1 DEF NoneIn
  <1>6. Head(s) \notin S /\ NoneIn(Tail(s), S) => NoneIn(s, S)
    BY <1>1, <1>2 DEF NoneIn
  <1> QED  BY <1>1, <1>3, <1>4, <1>6

\* and adding one at its end.
LEMMA PushLast ==
    ASSUME NEW T, NEW S, NEW s \in Seq(T), NEW m \in T
    PROVE  /\ Append(s, m) \in Seq(T)
           /\ NoneIn(Append(s, m), S) <=> NoneIn(s, S) /\ m \notin S
  <1>1. /\ Append(s, m) \in Seq(T) /\ Len(s) \in Nat
        /\ DOMAIN s = 1..Len(s) /\ DOMAIN Append(s, m) = 1..(Len(s) + 1)
        /\ Append(s, m)[Len(s) + 1] = m
        /\ \A i \in 1..Len(s) : Append(s, m)[i] = s[i]
    OBVIOUS
  <1>2. NoneIn(Append(s, m), S) <=> NoneIn(s, S) /\ m \notin S
    BY <1>1 DEF NoneIn
  <1> QED  BY <1>1, <1>2

LEMMA PopLastAt ==
    ASSUME NEW T, NEW S, NEW s \in Seq(T), s # << >>, NEW i \in Nat, LastIn(Tail(s), S, i)
    PROVE  LastIn(s, S, i + 1) /\ Tail(s)[i] = s[i + 1]
  <1>1. /\ Len(s) \in Nat /\ Len(s) > 0
        /\ DOMAIN s = 1..Len(s) /\ DOMAIN Tail(s) = 1..(Len(s) - 1)
        /\ \A k \in 1..(Len(s) - 1) : Tail(s)[k] = s[k + 1]
    OBVIOUS
  <1>2. \A j \in 1..Len(s) : j = 1 \/ (j - 1 \in 1..(Len(s) - 1) /\ Tail(s)[j - 1] = s[j])
    BY <1>1
  <1>3. i \in 1..(Len(s) - 1) /\ i + 1 \in 1..Len(s)
    BY <1>1 DEF LastIn
  <1>4. ASSUME NEW j \in 1..Len(s), j > i + 1 PROVE s[j] \notin S
    <2>1. j # 1 /\ j - 1 > i
      BY <1>1, <1>3, <1>4
    <2>2. j - 1 \in DOMAIN Tail(s) /\ Tail(s)[j - 1] = s[j]
      BY <1>1, <1>2, <2>1
    <2>3. Tail(s)[j - 1] \notin S
      BY <2>1, <2>2 DEF LastIn
    <2> QED  BY <2>2, <2>3
  <1> QED  BY <1>1, <1>3, <1>4 DEF LastIn

\* t is s with m added.
Pushed(t, s, m) ==
    /\ Len(s) \in Nat /\ DOMAIN s = 1..Len(s) /\ DOMAIN t = 1..(Len(s) + 1)
    /\ t[Len(s) + 1] = m
    /\ \A k \in 1..Len(s) : t[k] = s[k]

LEMMA AppendPushed ==
    ASSUME NEW T, NEW s \in Seq(T), NEW m \in T
    PROVE  Pushed(Append(s, m), s, m)
  BY DEF Pushed

LEMMA PushLastAt ==
    ASSUME NEW S, NEW s, NEW m, NEW t, Pushed(t, s, m), NEW i \in Nat, LastIn(t, S, i)
    PROVE  /\ m \in S => t[i] = m
           /\ m \notin S => LastIn(s, S, i) /\ t[i] = s[i]
  <1>2. i \in 1..(Len(s) + 1)
    BY DEF LastIn, Pushed
  <1>3. CASE m \in S
    BY <1>2, <1>3 DEF LastIn, Pushed
  <1>4. CASE m \notin S
    BY <1>2, <1>4 DEF LastIn, Pushed
  <1> QED  BY <1>3, <1>4

\* An update: some rows and the format they are in.
RfbUpdates == [rows : UNION {[D -> Nat] : D \in SUBSET Rows}, format : Formats]

FormatMessages == {m \in Messages : m.kind = "format"}
Covering(r) == {u \in RfbUpdates : r \in DOMAIN u.rows}

RfbType ==
    /\ display_frame \in Nat \ {0} /\ seen \in 0..display_frame
    /\ drawn \in [Rows -> 1..display_frame]
    /\ format \in Formats
    /\ up \in Seq(Messages) /\ chan \in Seq(Messages)
    /\ update_pc = "write" => out \in RfbUpdates
    /\ down \in Seq(RfbUpdates)

\* Nothing is asked for or drawn before the threads run.
StartInv == reader_pc = "hello" => update_pc = "unborn"

\* The last SetPixelFormat on its way is the client's; when there is none, it
\* has come through.
FormatInv ==
    reader_pc \in {"hello", "read"} /\ update_pc # "done" =>
        /\ \A i \in Nat : LastIn(up, FormatMessages, i) => up[i].format = client_fmt
        /\ NoneIn(up, FormatMessages) =>
              \A i \in Nat : LastIn(chan, FormatMessages, i) => chan[i].format = client_fmt
        /\ NoneIn(up, FormatMessages) /\ NoneIn(chan, FormatMessages) => format = client_fmt

\* The update shows the row as it is drawn.
Fits(u, r) == u.rows[r] = drawn[r] /\ u.format = format

Writing(r) == update_pc = "write" /\ out \in Covering(r)

\* A row that will not be rendered again: the last update on its way with the
\* row is right, and when there is none, the client's screen is.
Settled(r) ==
    /\ Writing(r) => Fits(out, r)
    /\ ~Writing(r) => \A i \in Nat : LastIn(down, Covering(r), i) => Fits(down[i], r)
    /\ ~Writing(r) /\ NoneIn(down, Covering(r)) =>
          screen[r] = [drawn |-> drawn[r], format |-> format]

RowsInv == update_pc # "done" => \A r \in Rows : r \in ChangedRows \/ Settled(r)

RfbInv == RfbType /\ StartInv /\ FormatInv /\ RowsInv

LEMMA RfbInvInit == RfbInit => RfbInv
  <1> SUFFICES ASSUME RfbInit PROVE RfbInv
    OBVIOUS
  <1> USE DEF RfbInit
  <1>1. RfbType
    BY RfbAssumption DEF RfbType
  <1>2. StartInv
    BY DEF StartInv
  <1>3. FormatInv
    BY DEF FormatInv, LastIn
  <1>4. RowsInv
    BY DEF RowsInv, ChangedRows
  <1> QED  BY <1>1, <1>2, <1>3, <1>4 DEF RfbInv

\* A row keeps its state while the client's screen, the display and the
\* updates stay as they are.
LEMMA RowsKept ==
    ASSUME RowsInv, update_pc # "write", update_pc' # "write", update_pc # "done",
           UNCHANGED <<down, format, drawn, screen>>,
           seen' = seen \/ seen' = 0
    PROVE  RowsInv'
  BY DEF RowsInv, Settled, Writing, Fits, ChangedRows

LEMMA FormatKept ==
    ASSUME FormatInv, UNCHANGED <<up, chan, format, client_fmt>>,
           update_pc' # "done" => update_pc # "done",
           reader_pc' \in {"hello", "read"} => reader_pc \in {"hello", "read"}
    PROVE  FormatInv'
  BY DEF FormatInv

\* read_messages() passes requests on in order.
LEMMA ReaderStep ==
    ASSUME RfbInv, Reader
    PROVE  RfbInv'
  <1> USE DEF RfbInv
  <1>0. UNCHANGED <<down, format, seen, out, display_frame, drawn, screen, client_fmt>>
    BY DEF Reader, Hello, ReadRequest, ReadKey, ReadBad, ReadEof, Shutdown,
           JoinUpdates, updateVars, displayVars, clientVars
  <1>1. CASE Hello
    <2>1. /\ reader_pc = "hello" /\ update_pc = "unborn"
          /\ up' = up /\ chan' = chan
          /\ update_pc' \in {"unborn", "recv"}
          /\ reader_pc' = "hello" => update_pc' = "unborn"
      BY <1>1 DEF Hello, StartInv
    <2>2. RfbType'
      BY <1>0, <2>1 DEF RfbType
    <2>3. FormatInv'
      BY <1>0, <2>1, FormatKept
    <2>4. RowsInv'
      BY <1>0, <2>1, RowsKept
    <2> QED  BY <2>1, <2>2, <2>3, <2>4 DEF StartInv
  <1>2. CASE Shutdown \/ JoinUpdates \/ ReadEof
    <2>1. /\ up' = up /\ chan' = chan /\ update_pc' = update_pc
          /\ reader_pc' \notin {"hello", "read"}
      BY <1>2 DEF Shutdown, JoinUpdates, ReadEof, updateVars
    <2> QED  BY <1>0, <2>1 DEF RfbType, StartInv, FormatInv, RowsInv, Settled, Writing, Fits,
                               ChangedRows
  <1>3. CASE ReadRequest \/ ReadBad \/ \E fails \in BOOLEAN : ReadKey(fails)
    <2> DEFINE m == Head(up)
    <2>1. /\ reader_pc = "read" /\ up # << >> /\ up' = Tail(up) /\ update_pc' = update_pc
          /\ reader_pc' \in {"read", "shutdown"}
          /\ chan' = chan \/ chan' = Append(chan, m)
          /\ reader_pc' = "read" /\ update_pc # "done" =>
                IF m.kind \in {"format", "update"} THEN chan' = Append(chan, m)
                ELSE chan' = chan
      BY <1>3 DEF ReadRequest, ReadBad, ReadKey, NextMessage, updateVars
    <2>2. m \in Messages /\ up' \in Seq(Messages)
      BY <2>1, PopLast DEF RfbType
    <2>3. RfbType'
      <3>1. chan \in Seq(Messages) /\ Append(chan, m) \in Seq(Messages)
        BY <2>2 DEF RfbType
      <3>2. chan' \in Seq(Messages)
        BY <2>1, <3>1
      <3> QED  BY <1>0, <2>1, <2>2, <3>2 DEF RfbType
    <2>4. FormatInv'
      <3> SUFFICES ASSUME reader_pc' = "read", update_pc # "done"
                   PROVE  FormatInv'
        BY <2>1 DEF FormatInv
      <3> DEFINE F == FormatMessages
      <3>1. /\ \A i \in Nat : LastIn(up, F, i) => up[i].format = client_fmt
            /\ NoneIn(up, F) => \A i \in Nat : LastIn(chan, F, i) => chan[i].format = client_fmt
            /\ NoneIn(up, F) /\ NoneIn(chan, F) => format = client_fmt
        BY <2>1 DEF FormatInv
      <3>2. up \in Seq(Messages) /\ chan \in Seq(Messages)
        BY DEF RfbType
      <3>3. m \in F <=> m.kind = "format"
        BY <2>2 DEF FormatMessages
      <3> HIDE DEF F
      <3>4. \A i \in Nat : LastIn(up', F, i) => up'[i].format = client_fmt
        <4> SUFFICES ASSUME NEW i \in Nat, LastIn(Tail(up), F, i)
                     PROVE  Tail(up)[i].format = client_fmt
          BY <2>1
        <4>1. LastIn(up, F, i + 1) /\ Tail(up)[i] = up[i + 1]
          BY <2>1, <3>2, PopLastAt
        <4>2. i + 1 \in Nat
          OBVIOUS
        <4>3. up[i + 1].format = client_fmt
          BY <3>1, <4>1, <4>2
        <4> QED  BY <4>1, <4>3
      <3>5. CASE m \in F
        <4>1. chan' = Append(chan, m)
          BY <2>1, <3>3, <3>5
        <4>2. ~NoneIn(chan', F)
          BY <2>2, <3>2, <3>5, <4>1, PushLast
        <4>3. NoneIn(up', F) => m.format = client_fmt
          <5>1. ~NoneIn(up, F)
            BY <2>1, <3>2, <3>5 DEF NoneIn
          <5> QED  BY <2>1, <3>1, <3>2, <5>1, PopLast
        <4>4. ASSUME NEW i \in Nat, LastIn(chan', F, i) PROVE chan'[i] = m
          <5>1. Pushed(chan', chan, m)
            BY <2>2, <3>2, <4>1, AppendPushed
          <5> QED  BY <3>5, <4>4, <5>1, PushLastAt
        <4> QED  BY <1>0, <3>4, <4>2, <4>3, <4>4 DEF FormatInv, F
      <3>6. CASE m \notin F
        <4>1. NoneIn(up', F) <=> NoneIn(up, F)
          BY <2>1, <3>2, <3>6, PopLast
        <4>6. NoneIn(Append(chan, m), F) <=> NoneIn(chan, F)
          BY <2>2, <3>2, <3>6, PushLast
        <4>2. NoneIn(chan', F) <=> NoneIn(chan, F)
          BY <2>1, <4>6
        <4>3. ASSUME NEW i \in Nat, LastIn(chan', F, i)
              PROVE  LastIn(chan, F, i) /\ chan'[i] = chan[i]
          <5>1. CASE chan' = chan
            BY <4>3, <5>1
          <5>2. CASE chan' = Append(chan, m)
            <6>1. Pushed(chan', chan, m)
              BY <2>2, <3>2, <5>2, AppendPushed
            <6> QED  BY <3>6, <4>3, <6>1, PushLastAt
          <5> QED  BY <2>1, <5>1, <5>2
        <4> QED  BY <1>0, <3>1, <3>4, <4>1, <4>2, <4>3 DEF FormatInv, F
      <3> QED  BY <3>5, <3>6
    <2> QED  BY <1>0, <2>1, <2>3, <2>4 DEF StartInv, RowsInv, Settled, Writing, Fits, ChangedRows
  <1> QED  BY <1>1, <1>2, <1>3 DEF Reader

\* send_updates() takes requests in order, renders what is not settled, and
\* sends what it rendered.
LEMMA RecvStep ==
    ASSUME RfbInv, RecvFormat \/ RecvUpdate
    PROVE  RfbInv'
  <1> USE DEF RfbInv
  <1> DEFINE m == Head(chan)
             F == FormatMessages
  <1>1. /\ update_pc = "recv" /\ chan # << >> /\ chan' = Tail(chan)
        /\ update_pc' \in {"recv", "check"}
        /\ format' = IF m.kind = "format" THEN m.format ELSE format
        /\ seen' = seen \/ seen' = 0
        /\ m.kind = "format" => seen' = 0
        /\ UNCHANGED <<up, down, reader_pc, out, display_frame, drawn, screen, client_fmt>>
    BY DEF RecvFormat, RecvUpdate, Recv, readerVars, displayVars, clientVars
  <1>2. up \in Seq(Messages) /\ chan \in Seq(Messages) /\ m \in Messages
        /\ chan' \in Seq(Messages)
    BY <1>1, PopLast DEF RfbType
  <1>3. m.kind = "format" => m.format \in Formats
    BY <1>2 DEF Messages, Requests
  <1>4. RfbType'
    BY <1>1, <1>2, <1>3 DEF RfbType
  <1>5. StartInv'
    BY <1>1 DEF StartInv
  <1>6. m \in F <=> m.kind = "format"
    BY <1>2 DEF FormatMessages
  <1>7. FormatInv'
    <2> HIDE DEF F
    <2> SUFFICES ASSUME reader_pc \in {"hello", "read"}
                 PROVE  FormatInv'
      BY <1>1 DEF FormatInv
    <2>1. /\ \A i \in Nat : LastIn(up, F, i) => up[i].format = client_fmt
          /\ NoneIn(up, F) => \A i \in Nat : LastIn(chan, F, i) => chan[i].format = client_fmt
          /\ NoneIn(up, F) /\ NoneIn(chan, F) => format = client_fmt
      BY <1>1 DEF FormatInv, F
    <2>2. ASSUME NoneIn(up, F), NEW i \in Nat, LastIn(Tail(chan), F, i)
          PROVE  Tail(chan)[i].format = client_fmt
      <3>1. LastIn(chan, F, i + 1) /\ Tail(chan)[i] = chan[i + 1]
        BY <1>1, <1>2, <2>2, PopLastAt
      <3>2. i + 1 \in Nat
        OBVIOUS
      <3>3. chan[i + 1].format = client_fmt
        BY <2>1, <2>2, <3>1, <3>2
      <3> QED  BY <3>1, <3>3
    <2>3. ASSUME NoneIn(up, F), NoneIn(Tail(chan), F)
          PROVE  format' = client_fmt
      <3>1. CASE m \in F
        <4>1. ~NoneIn(chan, F)
          BY <1>1, <1>2, <3>1 DEF NoneIn
        <4>2. LastIn(chan, F, 1) /\ chan[1] = m
          BY <1>1, <1>2, <2>3, <4>1, PopLast
        <4> QED  BY <1>1, <1>6, <2>1, <2>3, <3>1, <4>2
      <3>2. CASE m \notin F
        <4>1. NoneIn(chan, F)
          BY <1>1, <1>2, <2>3, <3>2, PopLast
        <4> QED  BY <1>1, <1>6, <2>1, <2>3, <3>2, <4>1
      <3> QED  BY <3>1, <3>2
    <2> QED  BY <1>1, <2>1, <2>2, <2>3 DEF FormatInv, F
  <1>8. RowsInv'
    <2>1. CASE m.kind = "format"
      BY <1>1, <2>1 DEF RowsInv, ChangedRows
    <2>2. CASE m.kind # "format"
      BY <1>1, <2>2, RowsKept
    <2> QED  BY <2>1, <2>2
  <1> QED  BY <1>4, <1>5, <1>7, <1>8

LEMMA UpdaterStep ==
    ASSUME RfbInv, Updater
    PROVE  RfbInv'
  <1> USE DEF RfbInv
  <1>1. CASE RecvFormat \/ RecvUpdate
    BY <1>1, RecvStep
  <1>2. CASE RecvTimeout \/ RecvDisconnected \/ NotDue \/ RenderNone
             \/ RenderPanics \/ WriteFails
    <2>1. /\ UNCHANGED <<up, down, chan, reader_pc, format, out, display_frame, drawn,
                         screen, client_fmt>>
          /\ \/ /\ seen' = seen
                /\ update_pc \in {"recv", "check"} /\ update_pc' \in {"recv", "check"}
             \/ /\ seen' \in {seen, display_frame}
                /\ update_pc' = "done" /\ update_pc \in {"recv", "check", "write"}
      BY <1>2 DEF RecvTimeout, RecvDisconnected, NotDue, RenderNone, RenderPanics,
                  WriteFails, readerVars, displayVars, clientVars
    <2>2. RfbType'
      BY <2>1 DEF RfbType
    <2>3. FormatInv'
      BY <2>1, FormatKept
    <2>4. StartInv'
      BY <2>1 DEF StartInv
    <2>5. RowsInv'
      <3>1. CASE update_pc' = "done"
        BY <3>1 DEF RowsInv
      <3>2. CASE update_pc' # "done"
        BY <2>1, <3>2, RowsKept
      <3> QED  BY <3>1, <3>2
    <2> QED  BY <2>2, <2>3, <2>4, <2>5
  <1>3. CASE RenderRows
    <2> DEFINE rows == [r \in Span |-> drawn[r]]
    <2>1. /\ update_pc = "check" /\ update_pc' = "write"
          /\ seen' = display_frame
          /\ out' = [rows |-> rows, format |-> format]
          /\ UNCHANGED <<up, down, chan, reader_pc, format, display_frame, drawn, screen, client_fmt>>
      BY <1>3 DEF RenderRows, readerVars, displayVars, clientVars
    <2>2. Span \in SUBSET Rows /\ rows \in [Span -> Nat] /\ DOMAIN rows = Span
      BY DEF Span, RfbType
    <2>3. \A r \in ChangedRows : r \in Span
      <3>1. \A r \in Rows : r \in Int /\ r <= r
        BY DEF Rows
      <3> QED  BY <3>1 DEF Span, ChangedRows
    <2> HIDE DEF rows
    <2>4. out' \in RfbUpdates
      BY <2>1, <2>2 DEF RfbUpdates, RfbType
    <2>5. RfbType'
      BY <2>1, <2>4 DEF RfbType
    <2>6. FormatInv'
      BY <2>1, FormatKept
    <2>7. StartInv'
      BY <2>1 DEF StartInv
    <2>8. RowsInv'
      <3> SUFFICES ASSUME NEW r \in Rows PROVE Settled(r)'
        BY DEF RowsInv
      <3>1. CASE r \in Span
        <4>1. out'.rows = rows /\ out'.format = format
          BY <2>1
        <4>2. rows[r] = drawn[r]
          BY <3>1 DEF rows
        <4>3. out' \in Covering(r)
          BY <2>2, <2>4, <3>1, <4>1 DEF Covering
        <4>4. Writing(r)' /\ Fits(out, r)'
          BY <2>1, <4>1, <4>2, <4>3 DEF Writing, Covering, Fits
        <4> QED  BY <4>4 DEF Settled
      <3>2. CASE r \notin Span
        <4>1. Settled(r) /\ ~Writing(r)
          BY <2>1, <2>3, <3>2 DEF RowsInv, Writing
        <4>2. ~Writing(r)'
          BY <2>1, <2>2, <3>2 DEF Writing, Covering
        <4> QED  BY <2>1, <4>1, <4>2 DEF Settled, Fits, Covering
      <3> QED  BY <3>1, <3>2
    <2> QED  BY <2>5, <2>6, <2>7, <2>8
  <1>4. CASE WriteUpdate
    <2>1. /\ update_pc = "write" /\ update_pc' = "recv"
          /\ down' = Append(down, out)
          /\ UNCHANGED <<up, chan, reader_pc, format, seen, display_frame, drawn, screen,
                         client_fmt>>
      BY <1>4 DEF WriteUpdate, readerVars, displayVars, clientVars
    <2>2. down \in Seq(RfbUpdates) /\ out \in RfbUpdates /\ down' \in Seq(RfbUpdates)
      BY <2>1 DEF RfbType
    <2>3. RfbType'
      BY <2>1, <2>2 DEF RfbType
    <2>4. FormatInv'
      BY <2>1, FormatKept
    <2>5. StartInv'
      BY <2>1 DEF StartInv
    <2>6. RowsInv'
      <3> SUFFICES ASSUME NEW r \in Rows, r \notin ChangedRows PROVE Settled(r)'
        BY <2>1 DEF RowsInv, ChangedRows
      <3>1. Settled(r) /\ ~Writing(r)'
        BY <2>1 DEF RowsInv, Writing
      <3> DEFINE S == Covering(r)
      <3>2. Writing(r) <=> out \in S
        BY <2>1 DEF Writing
      <3>3. Pushed(down', down, out)
        BY <2>1, <2>2, AppendPushed
      <3>4. S' = S
        BY DEF Covering
      <3> HIDE DEF S
      <3>5. NoneIn(down', S) => NoneIn(down, S) /\ out \notin S
        <4>1. NoneIn(Append(down, out), S) <=> NoneIn(down, S) /\ out \notin S
          BY <2>2, PushLast
        <4> QED  BY <2>1, <4>1
      <3>6. ASSUME NEW i \in Nat, LastIn(down', S, i) PROVE Fits(down'[i], r)
        BY <3>1, <3>2, <3>3, <3>6, PushLastAt DEF Settled, S
      <3>7. NoneIn(down', S) => screen[r] = [drawn |-> drawn[r], format |-> format]
        BY <3>1, <3>2, <3>5 DEF Settled, S
      <3> QED  BY <2>1, <3>1, <3>4, <3>6, <3>7 DEF Settled, Fits, S
    <2> QED  BY <2>3, <2>4, <2>5, <2>6
  <1> QED  BY <1>1, <1>2, <1>3, <1>4 DEF Updater

\* What the client sends, reads and closes, and what the guest draws.
LEMMA ClientStep ==
    ASSUME RfbInv, Client
    PROVE  RfbInv'
  <1> USE DEF RfbInv
  <1>1. CASE ClientClose
    BY <1>1 DEF ClientClose, readerVars, updateVars, displayVars, RfbType, StartInv,
                FormatInv, RowsInv, Settled, Writing, Fits, ChangedRows
  <1>2. ASSUME NEW m \in Messages, ClientSend(m) PROVE RfbInv'
    <2> DEFINE F == FormatMessages
    <2>1. /\ up' = Append(up, m)
          /\ client_fmt' = IF m.kind = "format" THEN m.format ELSE client_fmt
          /\ UNCHANGED <<down, chan, reader_pc, update_pc, format, seen, out,
                         display_frame, drawn, screen>>
      BY <1>2 DEF ClientSend, readerVars, updateVars, displayVars
    <2>2. up \in Seq(Messages) /\ up' \in Seq(Messages)
      BY <2>1 DEF RfbType
    <2>3. RfbType'
      BY <2>1, <2>2 DEF RfbType
    <2>4. m \in F <=> m.kind = "format"
      BY DEF FormatMessages
    <2> HIDE DEF F
    <2>5. Pushed(up', up, m)
      BY <2>1, <2>2, AppendPushed
    <2>6. NoneIn(up', F) <=> NoneIn(up, F) /\ m \notin F
      <3>1. NoneIn(Append(up, m), F) <=> NoneIn(up, F) /\ m \notin F
        BY <2>2, PushLast
      <3> QED  BY <2>1, <3>1
    <2>7. FormatInv'
      <3> SUFFICES ASSUME reader_pc \in {"hello", "read"}, update_pc # "done"
                   PROVE  FormatInv'
        BY <2>1 DEF FormatInv
      <3>1. /\ \A i \in Nat : LastIn(up, F, i) => up[i].format = client_fmt
            /\ NoneIn(up, F) => \A i \in Nat : LastIn(chan, F, i) => chan[i].format = client_fmt
            /\ NoneIn(up, F) /\ NoneIn(chan, F) => format = client_fmt
        BY DEF FormatInv, F
      <3>2. ASSUME NEW i \in Nat, LastIn(up', F, i) PROVE up'[i].format = client_fmt'
        <4>1. /\ m \in F => up'[i] = m
              /\ m \notin F => LastIn(up, F, i) /\ up'[i] = up[i]
          BY <2>5, <3>2, PushLastAt
        <4> QED  BY <2>1, <2>4, <3>1, <4>1
      <3>3. NoneIn(up', F) => NoneIn(up, F) /\ client_fmt' = client_fmt
        BY <2>1, <2>4, <2>6
      <3> QED  BY <2>1, <3>1, <3>2, <3>3 DEF FormatInv, F
    <2> QED  BY <2>1, <2>3, <2>7 DEF StartInv, RowsInv, Settled, Writing, Fits, ChangedRows
  <1>3. CASE ClientReceive
    <2> DEFINE u == Head(down)
    <2>1. /\ down # << >> /\ down' = Tail(down)
          /\ screen' = [r \in Rows |->
                 IF r \in DOMAIN u.rows THEN [drawn |-> u.rows[r], format |-> u.format]
                 ELSE screen[r]]
          /\ UNCHANGED <<up, chan, reader_pc, update_pc, format, seen, out,
                         display_frame, drawn, client_fmt>>
      BY <1>3 DEF ClientReceive, readerVars, updateVars, displayVars
    <2>2. down \in Seq(RfbUpdates) /\ u \in RfbUpdates /\ down' \in Seq(RfbUpdates)
      BY <2>1, PopLast DEF RfbType
    <2>3. RfbType'
      BY <2>1, <2>2 DEF RfbType
    <2>4. RowsInv'
      <3> SUFFICES ASSUME NEW r \in Rows, r \notin ChangedRows, update_pc # "done"
                   PROVE  Settled(r)'
        BY <2>1 DEF RowsInv, ChangedRows
      <3> DEFINE S == Covering(r)
      <3>1. Settled(r)
        BY DEF RowsInv
      <3>2. S' = S /\ (Writing(r)' <=> Writing(r)) /\ (u \in S <=> r \in DOMAIN u.rows)
        BY <2>1, <2>2 DEF Covering, Writing
      <3> HIDE DEF S
      <3>3. ASSUME ~Writing(r), NEW i \in Nat, LastIn(Tail(down), S, i)
            PROVE  Fits(Tail(down)[i], r)
        <4>1. LastIn(down, S, i + 1) /\ Tail(down)[i] = down[i + 1]
          BY <2>1, <2>2, <3>3, PopLastAt
        <4>2. i + 1 \in Nat
          OBVIOUS
        <4>3. Fits(down[i + 1], r)
          BY <3>1, <3>3, <4>1, <4>2 DEF Settled, S
        <4> QED  BY <4>1, <4>3
      <3>4. ASSUME ~Writing(r), NoneIn(Tail(down), S)
            PROVE  screen'[r] = [drawn |-> drawn[r], format |-> format]
        <4>1. CASE u \in S
          <5>1. ~NoneIn(down, S)
            BY <2>1, <2>2, <4>1 DEF NoneIn
          <5>2. LastIn(down, S, 1) /\ down[1] = u
            BY <2>1, <2>2, <3>4, <5>1, PopLast
          <5>3. Fits(u, r)
            BY <3>1, <3>4, <5>2 DEF Settled, S
          <5> QED  BY <2>1, <3>2, <4>1, <5>3 DEF Fits
        <4>2. CASE u \notin S
          <5>1. NoneIn(down, S)
            BY <2>1, <2>2, <3>4, <4>2, PopLast
          <5>2. screen[r] = [drawn |-> drawn[r], format |-> format]
            BY <3>1, <3>4, <5>1 DEF Settled, S
          <5> QED  BY <2>1, <3>2, <4>2, <5>2
        <4> QED  BY <4>1, <4>2
      <3>5. Writing(r) => Fits(out, r)
        BY <3>1 DEF Settled
      <3> QED  BY <2>1, <3>2, <3>3, <3>4, <3>5 DEF Settled, Fits, S
    <2>5. FormatInv'
      BY <2>1, FormatKept
    <2> QED  BY <2>1, <2>3, <2>4, <2>5 DEF StartInv
  <1> QED  BY <1>1, <1>2, <1>3 DEF Client

LEMMA RfbInvNext == RfbInv /\ [RfbNext]_rfbVars => RfbInv'
  <1> SUFFICES ASSUME RfbInv, [RfbNext]_rfbVars PROVE RfbInv'
    OBVIOUS
  <1>1. CASE Reader
    BY <1>1, ReaderStep
  <1>2. CASE Updater
    BY <1>2, UpdaterStep
  <1>3. CASE Client
    BY <1>3, ClientStep
  <1>4. CASE Tick \/ Ended \/ ClientHello \/ UNCHANGED rfbVars
    <2>1. UNCHANGED <<up, down, chan, reader_pc, update_pc, format, seen, out,
                      display_frame, drawn, screen, client_fmt>>
      BY <1>4 DEF Tick, Ended, ClientHello, rfbVars, readerVars, updateVars,
                  displayVars, clientVars
    <2> QED  BY <2>1 DEF RfbInv, RfbType, StartInv, FormatInv, RowsInv, Settled, Writing, Fits,
                         ChangedRows
  <1>5. ASSUME NEW r \in Rows, Draw(r) PROVE RfbInv'
    <2>1. /\ display_frame' = display_frame + 1
          /\ drawn' = [drawn EXCEPT ![r] = display_frame + 1]
          /\ UNCHANGED <<up, down, chan, reader_pc, update_pc, format, seen, out,
                         screen, client_fmt>>
      BY <1>5 DEF Draw, readerVars, updateVars, clientVars
    <2>2. RfbType'
      BY <2>1 DEF RfbInv, RfbType
    <2>3. r \in ChangedRows'
      BY <2>1 DEF RfbInv, RfbType, ChangedRows
    <2>4. \A q \in Rows : q # r => drawn'[q] = drawn[q]
      BY <2>1 DEF RfbInv, RfbType
    <2>5. RowsInv'
      BY <2>1, <2>3, <2>4 DEF RfbInv, RowsInv, Settled, Writing, Fits, ChangedRows
    <2> QED  BY <2>1, <2>2, <2>5 DEF RfbInv, StartInv, FormatInv
  <1> QED  BY <1>1, <1>2, <1>3, <1>4, <1>5 DEF RfbNext

\* Whatever the client shows stale is covered by the next update, for every
\* number of rows, formats, messages and updates in the socket
\* (send_updates, read_messages).
THEOREM NoStaleRowCorrect == RfbSpec => []NoStaleRow
  <1>1. RfbInv => NoStaleRow
    <2> SUFFICES ASSUME RfbInv, Quiet, NEW r \in Rows, r \notin ChangedRows
                 PROVE  screen[r] = [drawn |-> drawn[r], format |-> client_fmt]
      BY DEF NoStaleRow
    <2>1. format = client_fmt
      BY DEF RfbInv, FormatInv, Quiet, NoneIn
    <2>2. screen[r] = [drawn |-> drawn[r], format |-> format]
      BY DEF RfbInv, RowsInv, Settled, Writing, NoneIn, Quiet
    <2> QED  BY <2>1, <2>2
  <1> QED  BY <1>1, RfbInvInit, RfbInvNext, PTL DEF RfbSpec

-----------------------------------------------------------------------------
(* The two UARTs and the terminal's thread.                                *)

\* The registers hold bits, and those of the other architecture's UART stay
\* as they were: there is one UART in a build.
ConsoleRegs ==
    /\ arch \in {"x86_64", "aarch64"}
    /\ irq \in IrqType
    /\ handling \in BOOLEAN
    /\ <<rdi, thri, out2, thr_ipending>> \in BOOLEAN \X BOOLEAN \X BOOLEAN \X BOOLEAN
    /\ <<ris, imsc>> \in BOOLEAN \X BOOLEAN
    /\ arch = "x86_64" => ~ris

\* The line is at its level and announced; a PL011 interrupt has its byte.
ConsoleInv == ConsoleRegs /\ NoLostInterrupt

\* Setting the line to a level keeps it announced.
LEMMA UpdateAnnounced ==
    ASSUME NEW level \in BOOLEAN, irq \in IrqType, irq.level => irq.latched \/ handling,
           irq' = UpdateIrq(irq, level), handling' = handling
    PROVE  /\ irq' \in IrqType
           /\ irq'.level = level
           /\ irq'.level => irq'.latched \/ handling'
  <1>1. irq' = [level |-> level, latched |-> irq.latched \/ (level /\ ~irq.level)]
    BY DEF UpdateIrq
  <1>2. irq.latched \in BOOLEAN /\ irq.level \in BOOLEAN
    BY DEF IrqType
  <1>3. (irq.latched \/ (level /\ ~irq.level)) \in BOOLEAN
    OBVIOUS
  <1>4. irq' \in IrqType
    BY <1>1, <1>3 DEF IrqType
  <1>5. irq'.level = level /\ irq'.latched = (irq.latched \/ (level /\ ~irq.level))
    BY <1>1
  <1> QED  BY <1>2, <1>4, <1>5

\* A step of the 16550 that ends in update_irq() keeps the line right.
LEMMA UartRaised ==
    ASSUME ConsoleInv, arch = "x86_64", Raise, arch' = arch, handling' = handling,
           UNCHANGED pl011Regs,
           rdi' \in BOOLEAN, thri' \in BOOLEAN, out2' \in BOOLEAN, thr_ipending' \in BOOLEAN
    PROVE  ConsoleInv'
  <1> DEFINE lvl == out2' /\ ((rdi' /\ rx' # << >>) \/ (thri' /\ thr_ipending'))
  <1>1. lvl \in BOOLEAN
    OBVIOUS
  <1>2. irq' = UpdateIrq(irq, lvl)
    BY DEF Raise
  <1>3. irq \in IrqType /\ (irq.level => irq.latched \/ handling)
    BY DEF ConsoleInv, ConsoleRegs, NoLostInterrupt
  <1>4. Pending' = lvl
    BY DEF Pending, Iir
  <1> HIDE DEF lvl
  <1>5. irq' \in IrqType /\ irq'.level = lvl /\ (irq'.level => irq'.latched \/ handling')
    BY <1>1, <1>2, <1>3, UpdateAnnounced
  <1>6. ris' = ris /\ imsc' = imsc /\ ~ris
    BY DEF pl011Regs, ConsoleInv, ConsoleRegs
  <1>7. ConsoleRegs'
    BY <1>5, <1>6 DEF ConsoleInv, ConsoleRegs
  <1> QED  BY <1>4, <1>5, <1>6, <1>7 DEF ConsoleInv, NoLostInterrupt

\* A step of the PL011 that ends in update_irq() keeps the line right.
LEMMA Pl011Raised ==
    ASSUME ConsoleInv, arch = "aarch64", Pl011Raise, arch' = arch, handling' = handling,
           UNCHANGED uartRegs, ris' \in BOOLEAN, imsc' \in BOOLEAN, ris' => rx' # << >>
    PROVE  ConsoleInv'
  <1> DEFINE lvl == ris' /\ imsc'
  <1>1. lvl \in BOOLEAN
    OBVIOUS
  <1>2. irq' = UpdateIrq(irq, lvl)
    BY DEF Pl011Raise
  <1>3. irq \in IrqType /\ (irq.level => irq.latched \/ handling)
    BY DEF ConsoleInv, ConsoleRegs, NoLostInterrupt
  <1>4. Pending' = lvl
    BY DEF Pending
  <1> HIDE DEF lvl
  <1>5. irq' \in IrqType /\ irq'.level = lvl /\ (irq'.level => irq'.latched \/ handling')
    BY <1>1, <1>2, <1>3, UpdateAnnounced
  <1>6. ConsoleRegs'
    BY <1>5 DEF ConsoleInv, ConsoleRegs, uartRegs
  <1> QED  BY <1>4, <1>5, <1>6 DEF ConsoleInv, NoLostInterrupt

-----------------------------------------------------------------------------
\* A machine starts with its console quiet.
LEMMA ConsoleInvInit == ConsolesInit => ConsoleInv
  <1> SUFFICES ASSUME ConsolesInit PROVE ConsoleInv
    OBVIOUS
  <1>1. irq \in IrqType /\ irq.level = FALSE
    BY DEF ConsolesInit, ConsoleInit, IrqIdle, IrqType
  <1>2. ConsoleRegs
    BY <1>1 DEF ConsolesInit, ConsoleInit, UartInit, Pl011Init, ConsoleRegs
  <1>3. Pending = FALSE
    BY DEF ConsolesInit, UartInit, Pl011Init, Pending
  <1> QED  BY <1>1, <1>2, <1>3 DEF ConsolesInit, Pl011Init, ConsoleInv, NoLostInterrupt

\* What a step that touches neither the line nor a register keeps.
LEMMA ConsoleInvKept ==
    ASSUME ConsoleInv, UNCHANGED <<arch, rx, irq, handling, uartRegs, pl011Regs>>
    PROVE  ConsoleInv'
  BY DEF ConsoleInv, ConsoleRegs, NoLostInterrupt, Pending, Iir, uartRegs, pl011Regs

\* A byte from the terminal keeps the invariant, whether the escape
\* automaton passes it on or not.
LEMMA TtyByteInv ==
    ASSUME ConsoleInv, NEW b \in Keys, TtyByte(b), arch' = arch
    PROVE  ConsoleInv'
  <1>1. handling' = handling
    BY DEF TtyByte
  <1>2. CASE ~Passes(b)
    BY <1>1, <1>2, ConsoleInvKept DEF TtyByte
  <1>3. CASE Passes(b) /\ arch = "x86_64"
    <2>1. UartSendChar(b) /\ UNCHANGED pl011Regs
      BY <1>3 DEF TtyByte, SendChar
    <2>2. Raise /\ UNCHANGED uartRegs
      BY <2>1 DEF UartSendChar
    <2>3. rdi' \in BOOLEAN /\ thri' \in BOOLEAN /\ out2' \in BOOLEAN /\ thr_ipending' \in BOOLEAN
      BY <2>2 DEF ConsoleInv, ConsoleRegs, uartRegs
    <2> QED  BY <1>1, <1>3, <2>1, <2>2, <2>3, UartRaised
  <1>4. CASE Passes(b) /\ arch = "aarch64"
    <2>1. Pl011SendChar(b) /\ UNCHANGED uartRegs
      BY <1>4 DEF TtyByte, SendChar
    <2>2. Pl011Raise /\ ris' \in BOOLEAN /\ imsc' \in BOOLEAN /\ rx' # << >>
      BY <2>1 DEF Pl011SendChar, ConsoleInv, ConsoleRegs
    <2> QED  BY <1>1, <1>4, <2>1, <2>2, Pl011Raised
  <1> QED  BY <1>2, <1>3, <1>4 DEF ConsoleInv, ConsoleRegs

\* The guest's handler entered: it has yet to look at what is pending.
LEMMA EnterInv ==
    ASSUME ConsoleInv, Enter, arch' = arch, UNCHANGED <<uartRegs, pl011Regs>>
    PROVE  ConsoleInv'
  <1>1. irq' \in IrqType /\ irq'.level = irq.level
    BY DEF ConsoleInv, ConsoleRegs, Enter, TakeIrq, IrqType
  <1>2. handling' /\ handling' \in BOOLEAN /\ rx' = rx
    BY DEF Enter
  <1>3. Pending' = Pending
    BY <1>2 DEF Pending, Iir, uartRegs, pl011Regs
  <1>4. ConsoleRegs'
    BY <1>1, <1>2 DEF ConsoleInv, ConsoleRegs, uartRegs, pl011Regs
  <1> QED  BY <1>1, <1>2, <1>3, <1>4 DEF ConsoleInv, NoLostInterrupt, pl011Regs

\* Every step of the terminal, of the UART and of the guest keeps the
\* invariant.
LEMMA ConsoleInvNext == ConsoleInv /\ [ConsolesNext]_consolesVars => ConsoleInv'
  <1> SUFFICES ASSUME ConsoleInv, [ConsolesNext]_consolesVars PROVE ConsoleInv'
    OBVIOUS
  <1>1. CASE UNCHANGED consolesVars
    BY <1>1, ConsoleInvKept DEF consolesVars, consoleVars
  <1>2. CASE arch' = arch /\ Tty
    <2>1. CASE TtyEnd
      BY <1>2, <2>1, ConsoleInvKept DEF TtyEnd
    <2>2. CASE \E b \in Keys : TtyByte(b)
      BY <1>2, <2>2, TtyByteInv
    <2> QED  BY <1>2, <2>1, <2>2 DEF Tty
  <1>3. CASE arch' = arch /\ arch = "x86_64" /\ UartStep /\ UNCHANGED pl011Regs
    <2>1. CASE WriteThr \/ WriteIer \/ WriteMcr \/ ReadRbr \/ ReadIir
      <3>1. Raise /\ handling' = handling
        BY <2>1 DEF WriteThr, WriteIer, WriteMcr, ReadRbr, ReadIir
      <3>2. rdi' \in BOOLEAN /\ thri' \in BOOLEAN /\ out2' \in BOOLEAN /\ thr_ipending' \in BOOLEAN
        BY <2>1 DEF WriteThr, WriteIer, WriteMcr, ReadRbr, ReadIir, ConsoleInv, ConsoleRegs,
               uartRegs
      <3> QED  BY <1>3, <3>1, <3>2, UartRaised
    <2>2. CASE Enter /\ UNCHANGED uartRegs
      BY <1>3, <2>2, EnterInv
    <2>3. CASE UartReturn
      <3>1. ~Pending
        BY <1>3, <2>3 DEF UartReturn, Pending
      <3>2. rx' = rx /\ irq' = irq /\ handling' = FALSE /\ UNCHANGED uartRegs
        BY <2>3 DEF UartReturn, Return
      <3>3. Pending' = Pending
        BY <1>3, <3>2 DEF Pending, Iir, uartRegs, pl011Regs
      <3> QED  BY <1>3, <3>1, <3>2, <3>3 DEF ConsoleInv, ConsoleRegs, NoLostInterrupt,
                                             uartRegs, pl011Regs
    <2> QED  BY <1>3, <2>1, <2>2, <2>3 DEF UartStep
  <1>4. CASE arch' = arch /\ arch = "aarch64" /\ Pl011Step /\ UNCHANGED uartRegs
    <2>1. CASE ReadDr \/ WriteImsc \/ WriteIcr
      <3>1. Pl011Raise /\ handling' = handling /\ ris' \in BOOLEAN /\ imsc' \in BOOLEAN
        BY <2>1 DEF ReadDr, WriteImsc, WriteIcr, ConsoleInv, ConsoleRegs
      <3>2. ris' => rx' # << >>
        BY <2>1 DEF ReadDr, WriteImsc, WriteIcr, ConsoleInv, NoLostInterrupt
      <3> QED  BY <1>4, <3>1, <3>2, Pl011Raised
    <2>2. CASE Enter /\ UNCHANGED pl011Regs
      BY <1>4, <2>2, EnterInv
    <2>3. CASE Pl011Return
      <3>1. ~Pending
        BY <1>4, <2>3 DEF Pl011Return, Pending
      <3>2. rx' = rx /\ irq' = irq /\ handling' = FALSE /\ UNCHANGED pl011Regs
        BY <2>3 DEF Pl011Return, Return
      <3>3. Pending' = Pending
        BY <1>4, <3>2 DEF Pending, Iir, uartRegs, pl011Regs
      <3> QED  BY <1>4, <3>1, <3>2, <3>3 DEF ConsoleInv, ConsoleRegs, NoLostInterrupt,
                                             uartRegs, pl011Regs
    <2> QED  BY <1>4, <2>1, <2>2, <2>3 DEF Pl011Step
  <1> QED  BY <1>1, <1>2, <1>3, <1>4 DEF ConsolesNext

-----------------------------------------------------------------------------
\* The guest's handler is told of every cause it enabled, on both
\* architectures and for every interleaving of the terminal's thread with the
\* guest's register accesses (update_irq of io.rs and mmio.rs).
THEOREM ConsoleNoLostInterrupt == ConsolesSpec => []NoLostInterrupt
  <1>1. ConsoleInv => NoLostInterrupt
    BY DEF ConsoleInv
  <1> QED  BY <1>1, ConsoleInvInit, ConsoleInvNext, PTL DEF ConsolesSpec

-----------------------------------------------------------------------------
(* What the bytes typed mean.                                              *)

Prepend(x, m) == <<x>> \o m

LEMMA ConsFacts ==
    ASSUME NEW T, NEW x \in T, NEW m \in Seq(T), NEW w \in Seq(T)
    PROVE  Prepend(x, m) \in Seq(T) /\ Prepend(x, m \o w) = Prepend(x, m) \o w /\ Prepend(x, << >>) = <<x>>
  <1>1. <<x>> \in Seq(T)
    OBVIOUS
  <1>2. <<x>> \o m \in Seq(T)
    BY <1>1, ConcatProperties
  <1>3. (<<x>> \o m) \o w = <<x>> \o (m \o w)
    BY <1>1, ConcatAssociative
  <1>4. <<x>> \o << >> = <<x>>
    BY <1>1, ConcatEmptySeq
  <1> QED  BY <1>2, <1>3, <1>4 DEF Prepend

\* One step of the meaning of the bytes s from the n-th on, given the rest's.
MeantBody(g, s, n) ==
    IF n > Len(s) THEN << >>
    ELSE IF s[n] # "ctrl_a" THEN Prepend(s[n], g[n + 1])
    ELSE IF n < Len(s) /\ s[n + 1] = "ctrl_a" THEN Prepend("ctrl_a", g[n + 2])
    ELSE g[n + 2]

MeantOf(s) == CHOOSE g : g = [n \in 1..MaxTyped + 2 |-> MeantBody(g, s, n)]

LEMMA MeantIs == Meant = MeantOf(typed) /\ Meant' = MeantOf(typed')
  BY DEF Meant, MeantOf, MeantBody, Prepend

\* g is the meaning from m on.
MeantFrom(g, s, m) == g = [n \in m..MaxTyped + 2 |-> MeantBody(g, s, n)]

\* The meaning from the n-th byte on exists, going down from the last byte.
LEMMA MeantExists ==
    ASSUME MaxTyped \in Nat, NEW s \in Seq(Keys), Len(s) <= MaxTyped
    PROVE  \E g : MeantFrom(g, s, 1)
  <1> DEFINE N == MaxTyped + 2
             S == {k \in Nat : \E g : MeantFrom(g, s, N - k)}
  <1>0. N \in Nat /\ N >= 2 /\ Len(s) \in Nat
    OBVIOUS
  <1>1. 0 \in S
    <2> DEFINE g == [n \in N..N |-> << >>]
    <2>1. \A n \in N..N : n = N /\ n > Len(s)
      OBVIOUS
    <2>2. \A n \in N..N : MeantBody(g, s, n) = << >>
      BY <2>1 DEF MeantBody
    <2>3. g = [n \in N..N |-> MeantBody(g, s, n)]
      BY <2>2
    <2> HIDE DEF g
    <2>4. MeantFrom(g, s, N)
      BY <2>3 DEF MeantFrom
    <2>5. N - 0 = N
      OBVIOUS
    <2> QED  BY <2>4, <2>5
  <1>2. ASSUME NEW k \in 0..(N - 1 - 1), k \in S PROVE k + 1 \in S
    <2> DEFINE m == N - (k + 1)
    <2>1. k \in Nat /\ k + 1 \in Nat /\ m \in Nat /\ m + 1 = N - k /\ m >= 1 /\ m <= N - 1
      BY <1>0
    <2>2. PICK g : MeantFrom(g, s, m + 1)
      BY <1>2, <2>1
    <2> HIDE DEF m
    <2>3. \A n \in (m + 1)..N : g[n] = MeantBody(g, s, n)
      BY <2>2 DEF MeantFrom
    <2> DEFINE v == MeantBody(g, s, m)
               h == [n \in m..N |-> IF n = m THEN v ELSE g[n]]
    <2> HIDE DEF v
    <2>5. \A n \in m..N : n = m \/ n \in (m + 1)..N
      BY <1>0, <2>1
    <2>7. h[m] = v /\ \A n \in (m + 1)..N : h[n] = g[n]
      BY <1>0, <2>1
    <2>6. DOMAIN h = m..N /\ h = [n \in DOMAIN h |-> h[n]]
      OBVIOUS
    <2> HIDE DEF h
    <2>8. ASSUME NEW n \in m..N PROVE MeantBody(h, s, n) = MeantBody(g, s, n)
      <3>1. CASE n > Len(s)
        BY <3>1 DEF MeantBody
      <3>2. CASE n <= Len(s)
        <4>1. n + 1 \in (m + 1)..N /\ n + 2 \in (m + 1)..N
          BY <1>0, <2>1, <3>2
        <4>2. h[n + 1] = g[n + 1] /\ h[n + 2] = g[n + 2]
          BY <2>7, <4>1
        <4> QED  BY <4>2 DEF MeantBody
      <3>3. n \in Int
        BY <1>0, <2>1
      <3> QED  BY <1>0, <3>1, <3>2, <3>3
    <2>9. \A n \in m..N : h[n] = MeantBody(h, s, n)
      BY <2>3, <2>5, <2>7, <2>8 DEF v
    <2>10. MeantFrom(h, s, m)
      BY <2>6, <2>9 DEF MeantFrom
    <2> QED  BY <2>1, <2>10 DEF m
  <1> HIDE DEF S
  <1>3. 0..(N - 1) \subseteq S
    <2>1. N - 1 \in Nat
      BY <1>0
    <2> HIDE DEF N
    <2> QED  BY <1>1, <1>2, <2>1, Induction
  <1>4. N - 1 \in S
    BY <1>0, <1>3
  <1>5. N - (N - 1) = 1
    BY <1>0
  <1> QED  BY <1>4, <1>5 DEF S

\* The recursion holds of Meant.
LEMMA MeantUnfolds ==
    ASSUME MaxTyped \in Nat, NEW s \in Seq(Keys), Len(s) <= MaxTyped,
           NEW n \in 1..MaxTyped + 2
    PROVE  MeantOf(s)[n] = MeantBody(MeantOf(s), s, n)
  <1>1. MeantFrom(MeantOf(s), s, 1)
    BY MeantExists DEF MeantOf, MeantFrom
  <1> QED  BY <1>1 DEF MeantFrom

LEMMA MeantSeq ==
    ASSUME MaxTyped \in Nat, NEW s \in Seq(Keys), Len(s) <= MaxTyped
    PROVE  \A n \in 1..MaxTyped + 2 : MeantOf(s)[n] \in Seq(Keys)
  <1> DEFINE N == MaxTyped + 2
             M == MeantOf(s)
             Typed(n) == n \in 1..N => M[n] \in Seq(Keys)
             S == {k \in Nat : Typed(N - k) /\ Typed(N - k + 1)}
  <1>0. N \in Nat /\ N >= 2 /\ Len(s) \in Nat /\ N = MaxTyped + 2
    OBVIOUS
  <1>1. \A n \in 1..N : M[n] = MeantBody(M, s, n)
    BY MeantUnfolds
  <1> HIDE DEF M, N
  <1>2. 0 \in S
    <2>1. N \in 1..N /\ N > Len(s) /\ N - 0 = N /\ N + 1 \notin 1..N
      BY <1>0
    <2>2. M[N] = << >>
      BY <1>1, <2>1 DEF MeantBody
    <2>3. Typed(N) /\ Typed(N + 1)
      BY <2>1, <2>2
    <2> HIDE DEF Typed
    <2> QED  BY <2>1, <2>3
  <1>3. ASSUME NEW k \in 0..(N - 1), k \in S PROVE k + 1 \in S
    <2> DEFINE n == N - (k + 1)
    <2>1. k \in Nat /\ k + 1 \in Nat /\ n \in Nat /\ n + 1 = N - k /\ n + 2 = N - k + 1
      BY <1>0
    <2>2. Typed(n + 1) /\ Typed(n + 2)
      BY <1>3, <2>1
    <2> HIDE DEF n
    <2>3. ASSUME n \in 1..N PROVE M[n] \in Seq(Keys)
      <3>1. M[n] = MeantBody(M, s, n)
        BY <1>1, <2>3
      <3>2. CASE n > Len(s)
        BY <3>1, <3>2 DEF MeantBody
      <3>3. CASE n <= Len(s)
        <4>1. n + 1 \in 1..N /\ n + 2 \in 1..N /\ n \in 1..Len(s)
          BY <1>0, <2>1, <2>3, <3>3
        <4>2. s[n] \in Keys /\ "ctrl_a" \in Keys
          BY <4>1 DEF Keys
        <4>4. M[n + 1] \in Seq(Keys) /\ M[n + 2] \in Seq(Keys)
          BY <2>2, <4>1
        <4> HIDE DEF Typed, S
        <4>5. Prepend(s[n], M[n + 1]) \in Seq(Keys) /\ Prepend("ctrl_a", M[n + 2]) \in Seq(Keys)
          BY <4>2, <4>4, ConsFacts
        <4> QED  BY <3>1, <3>3, <4>4, <4>5 DEF MeantBody
      <3> QED  BY <1>0, <2>1, <3>2, <3>3
    <2>4. Typed(n) /\ Typed(n + 1)
      BY <2>2, <2>3
    <2> HIDE DEF Typed
    <2>5. N - (k + 1) = n /\ N - (k + 1) + 1 = n + 1
      BY DEF n
    <2> QED  BY <2>1, <2>4, <2>5
  <1> HIDE DEF S
  <1>4. 0..N \subseteq S
    BY <1>0, <1>2, <1>3, Induction
  <1>5. ASSUME NEW n \in 1..N PROVE M[n] \in Seq(Keys)
    <2>1. N - n \in 0..N /\ N - (N - n) = n
      BY <1>0
    <2>2. N - n \in S
      BY <1>4, <2>1
    <2> QED  BY <2>1, <2>2 DEF S
  <1> QED  BY <1>5 DEF M, N

\* The escape automaton's states over the bytes s, and e at their end.
Escapes(st, s, e) ==
    /\ st \in [1..Len(s) + 1 -> BOOLEAN]
    /\ st[1] = FALSE /\ st[Len(s) + 1] = e
    /\ \A i \in 1..Len(s) : st[i + 1] = (s[i] = "ctrl_a" /\ ~st[i])

Sent(e, b) == IF e = (b = "ctrl_a") THEN <<b>> ELSE << >>

\* One more byte adds to the meaning what the automaton passes on.
LEMMA MeantAppends ==
    ASSUME MaxTyped \in Nat, NEW s \in Seq(Keys), Len(s) < MaxTyped, NEW b \in Keys,
           NEW st, NEW e \in BOOLEAN, Escapes(st, s, e)
    PROVE  MeantOf(Append(s, b))[1] = MeantOf(s)[1] \o Sent(e, b)
  <1> DEFINE N == MaxTyped + 2
             L == Len(s)
             t == Append(s, b)
             M == MeantOf(s)
             U == MeantOf(t)
             w == Sent(e, b)
             Adds(n) == n \in 1..L + 1 /\ ~st[n] => U[n] = M[n] \o w
             S == {k \in Nat : Adds(L + 1 - k) /\ Adds(L + 2 - k)}
  <1>0. L \in Nat /\ N \in Nat /\ L + 3 <= N
    OBVIOUS
  <1>1. /\ t \in Seq(Keys) /\ Len(t) = L + 1
        /\ t[L + 1] = b /\ \A i \in 1..L : t[i] = s[i]
    OBVIOUS
  <1> HIDE DEF t
  <1>2. \A n \in 1..N : M[n] = MeantBody(M, s, n) /\ M[n] \in Seq(Keys)
    BY MeantUnfolds, MeantSeq
  <1>3. \A n \in 1..N : U[n] = MeantBody(U, t, n)
    BY <1>1, MeantUnfolds
  <1>4. w \in Seq(Keys) /\ << >> \o w = w
    BY ConcatEmptySeq DEF Sent
  <1>5. w = IF e = (b = "ctrl_a") THEN <<b>> ELSE << >>
    BY DEF Sent
  <1>6. /\ st \in [1..L + 1 -> BOOLEAN] /\ st[1] = FALSE /\ st[L + 1] = e
        /\ \A i \in 1..L : st[i + 1] = (s[i] = "ctrl_a" /\ ~st[i])
    BY DEF Escapes
  <1>7. \A x \in Keys : Prepend(x, << >>) = <<x>>
    <2>1. << >> \in Seq(Keys)
      OBVIOUS
    <2> QED  BY <2>1, ConsFacts
  <1> HIDE DEF M, U, w
  <1>18. \A x \in Keys : \A y \in Seq(Keys) : Prepend(x, y \o w) = Prepend(x, y) \o w
    BY <1>4, ConsFacts
  <1>8. ASSUME NEW n \in (L + 1)..N PROVE M[n] = << >>
    <2>1. n \in 1..N /\ n > Len(s)
      BY <1>0
    <2> QED  BY <1>2, <2>1 DEF MeantBody
  <1>9. ASSUME NEW n \in (L + 2)..N PROVE U[n] = << >>
    <2>1. n \in 1..N /\ n > Len(t)
      BY <1>0, <1>1
    <2> QED  BY <1>3, <2>1 DEF MeantBody
  <1> HIDE DEF N, L
  <1>10. Adds(L + 1)
    <2> SUFFICES ASSUME ~e PROVE U[L + 1] = w
      BY <1>0, <1>4, <1>6, <1>8
    <2>1. U[L + 1] = MeantBody(U, t, L + 1)
      BY <1>0, <1>3
    <2>2. U[L + 2] = << >> /\ U[L + 3] = << >>
      BY <1>0, <1>9
    <2>3. U[L + 1] = IF b # "ctrl_a" THEN Prepend(b, U[L + 2]) ELSE U[L + 3]
      BY <1>0, <1>1, <2>1 DEF MeantBody
    <2> QED  BY <1>5, <1>7, <2>2, <2>3
  <1>11. 0 \in S
    <2>1. L + 1 - 0 = L + 1 /\ L + 2 - 0 = L + 2 /\ L + 2 \notin 1..L + 1
      BY <1>0
    <2> QED  BY <1>10, <2>1
  <1>12. ASSUME NEW n \in 1..L, ~st[n], Adds(n + 1), Adds(n + 2)
         PROVE  U[n] = M[n] \o w
    <2>1. /\ n \in Nat /\ n >= 1 /\ n <= L /\ n \in 1..N /\ n + 1 \in 1..N /\ n + 2 \in 1..N
          /\ n + 1 \in 1..L + 1
      BY <1>0
    <2>2. U[n] = MeantBody(U, t, n) /\ M[n] = MeantBody(M, s, n)
          /\ M[n + 1] \in Seq(Keys) /\ M[n + 2] \in Seq(Keys) /\ t[n] = s[n]
      BY <1>1, <1>2, <1>3, <2>1
    <2>3. s[n] \in Keys /\ "ctrl_a" \in Keys
      BY <2>1 DEF Keys, L
    <2>4. CASE s[n] # "ctrl_a"
      <3>1. U[n + 1] = M[n + 1] \o w
        BY <1>6, <1>12, <2>1, <2>4
      <3>2. U[n] = Prepend(s[n], U[n + 1]) /\ M[n] = Prepend(s[n], M[n + 1])
        BY <1>0, <1>1, <2>1, <2>2, <2>4 DEF MeantBody, L
      <3>3. Prepend(s[n], M[n + 1] \o w) = Prepend(s[n], M[n + 1]) \o w
        BY <1>18, <2>2, <2>3
      <3> QED  BY <3>1, <3>2, <3>3
    <2>5. CASE s[n] = "ctrl_a" /\ n < L
      <3>0. n + 1 \in 1..L /\ n + 2 \in 1..L + 1
        BY <1>0, <2>1, <2>5
      <3>1. ~st[n + 2]
        <4>1. st[n + 1]
          BY <1>6, <1>12, <2>5
        <4>2. st[(n + 1) + 1] = (s[n + 1] = "ctrl_a" /\ ~st[n + 1])
          BY <1>6, <3>0
        <4>3. (n + 1) + 1 = n + 2
          BY <2>1
        <4> QED  BY <4>1, <4>2, <4>3
      <3>2. U[n + 2] = M[n + 2] \o w
        BY <1>12, <3>0, <3>1
      <3>3. t[n + 1] = s[n + 1]
        BY <1>1, <3>0
      <3>4. CASE s[n + 1] = "ctrl_a"
        <4>1. U[n] = Prepend("ctrl_a", U[n + 2]) /\ M[n] = Prepend("ctrl_a", M[n + 2])
          BY <1>0, <1>1, <2>1, <2>2, <2>5, <3>3, <3>4 DEF MeantBody, L
        <4>2. Prepend("ctrl_a", M[n + 2] \o w) = Prepend("ctrl_a", M[n + 2]) \o w
          BY <1>18, <2>2, <2>3
        <4> QED  BY <3>2, <4>1, <4>2
      <3>5. CASE s[n + 1] # "ctrl_a"
        <4>1. U[n] = U[n + 2] /\ M[n] = M[n + 2]
          BY <1>0, <1>1, <2>1, <2>2, <2>5, <3>3, <3>5 DEF MeantBody, L
        <4> QED  BY <3>2, <4>1
      <3> QED  BY <3>4, <3>5
    <2>6. CASE s[n] = "ctrl_a" /\ n = L
      <3>1. e
        BY <1>6, <1>12, <2>6
      <3>2. M[n + 2] = << >> /\ U[n + 2] = << >>
        <4>1. n + 2 \in (L + 1)..N /\ n + 2 \in (L + 2)..N
          BY <1>0, <2>6
        <4> QED  BY ONLY <1>8, <1>9, <4>1
      <3>3. M[n] = << >>
        BY <1>0, <2>2, <2>6, <3>2 DEF MeantBody, L
      <3>4. U[n] = IF b = "ctrl_a" THEN Prepend("ctrl_a", U[n + 2]) ELSE U[n + 2]
        BY <1>0, <1>1, <2>1, <2>2, <2>6 DEF MeantBody
      <3>5. U[n] = w
        BY <1>5, <1>7, <2>3, <3>1, <3>2, <3>4
      <3> QED  BY <1>4, <3>3, <3>5
    <2> QED  BY <1>0, <2>1, <2>4, <2>5, <2>6
  <1>13. ASSUME NEW k \in 0..(L - 1), k \in S PROVE k + 1 \in S
    <2> DEFINE n == L + 1 - (k + 1)
    <2>1. /\ k \in Nat /\ k + 1 \in Nat /\ n \in 1..L
          /\ n + 1 = L + 1 - k /\ n + 2 = L + 2 - k /\ L + 2 - (k + 1) = n + 1
      BY <1>0
    <2>2. Adds(n + 1) /\ Adds(n + 2)
      BY <1>13, <2>1
    <2>3. Adds(n)
      <3> HIDE DEF n
      <3> QED  BY <1>12, <2>1, <2>2
    <2> HIDE DEF Adds
    <2> QED  BY <2>1, <2>2, <2>3
  <1> HIDE DEF S
  <1>14. 0..L \subseteq S
    BY <1>0, <1>11, <1>13, Induction
  <1>15. L \in S /\ L + 1 - L = 1
    BY <1>0, <1>14
  <1>16. Adds(1)
    BY <1>15 DEF S
  <1>17. 1 \in 1..L + 1
    BY <1>0
  <1> QED  BY <1>6, <1>16, <1>17 DEF U, M, w, t

\* A subsequence whose tail is dropped stays one when both get another element.
LEMMA WithinAppend ==
    ASSUME NEW T, NEW a \in Seq(T), NEW r \in Seq(T), NEW m \in Seq(T), NEW b \in T,
           Within(a \o r, m)
    PROVE  Within(Append(a, b), Append(m, b))
  <1> DEFINE got == a \o r
             A == Append(a, b)
             B == Append(m, b)
  <1>1. /\ DOMAIN got = 1..Len(a) + Len(r) /\ DOMAIN m = 1..Len(m)
        /\ Len(a) \in Nat /\ Len(r) \in Nat /\ Len(m) \in Nat
        /\ \A i \in 1..Len(a) : got[i] = a[i]
    OBVIOUS
  <1>2. /\ DOMAIN A = 1..Len(a) + 1 /\ A[Len(a) + 1] = b /\ \A i \in 1..Len(a) : A[i] = a[i]
        /\ DOMAIN B = 1..Len(m) + 1 /\ B[Len(m) + 1] = b /\ \A i \in 1..Len(m) : B[i] = m[i]
    OBVIOUS
  <1> HIDE DEF got, A, B
  <1>3. PICK at \in [DOMAIN got -> DOMAIN m] :
            \A i, j \in DOMAIN got : got[i] = m[at[i]] /\ (i < j => at[i] < at[j])
    BY DEF got, Within
  <1> DEFINE to == [i \in DOMAIN A |-> IF i = Len(a) + 1 THEN Len(m) + 1 ELSE at[i]]
  <1>4. \A i \in 1..Len(a) : i \in DOMAIN got /\ i \in DOMAIN A /\ i # Len(a) + 1
    BY <1>1, <1>2
  <1>5. /\ to[Len(a) + 1] = Len(m) + 1
        /\ \A i \in 1..Len(a) : to[i] = at[i] /\ at[i] \in 1..Len(m)
    <2>1. Len(a) + 1 \in DOMAIN A
      BY <1>1, <1>2
    <2>2. \A i \in 1..Len(a) : at[i] \in 1..Len(m)
      BY <1>1, <1>3, <1>4
    <2> QED  BY <1>4, <2>1, <2>2
  <1>6. \A i \in DOMAIN A : i = Len(a) + 1 \/ i \in 1..Len(a)
    BY <1>1, <1>2
  <1>7. to \in [DOMAIN A -> DOMAIN B]
    <2>1. \A i \in DOMAIN A : to[i] \in DOMAIN B
      BY <1>1, <1>2, <1>5, <1>6
    <2> QED  BY <2>1
  <1> HIDE DEF to
  <1>8. ASSUME NEW i \in DOMAIN A PROVE A[i] = B[to[i]]
    <2>1. CASE i = Len(a) + 1
      BY <1>2, <1>5, <2>1
    <2>2. CASE i \in 1..Len(a)
      <3>1. A[i] = m[at[i]]
        BY <1>1, <1>2, <1>3, <1>4, <2>2
      <3>2. B[to[i]] = m[at[i]]
        BY <1>2, <1>5, <2>2
      <3> QED  BY <3>1, <3>2
    <2> QED  BY <1>6, <2>1, <2>2
  <1>9. ASSUME NEW i \in DOMAIN A, NEW j \in DOMAIN A, i < j PROVE to[i] < to[j]
    <2>1. i \in 1..Len(a)
      BY <1>1, <1>2, <1>9
    <2>2. CASE j = Len(a) + 1
      BY <1>1, <1>5, <2>1, <2>2
    <2>3. CASE j \in 1..Len(a)
      <3>1. at[i] < at[j]
        BY <1>3, <1>4, <1>9, <2>1, <2>3
      <3> QED  BY <1>5, <2>1, <2>3, <3>1
    <2> QED  BY <1>6, <2>2, <2>3
  <1>10. Within(A, B)
    BY <1>7, <1>8, <1>9 DEF Within
  <1> QED  BY <1>10 DEF A, B

\* The automaton goes on by one byte.
LEMMA EscapesOn ==
    ASSUME NEW s \in Seq(Keys), NEW b \in Keys, NEW e \in BOOLEAN,
           NEW st, Escapes(st, s, e)
    PROVE  \E on : Escapes(on, Append(s, b), b = "ctrl_a" /\ ~e)
  <1> DEFINE t == Append(s, b)
             L == Len(s)
             last == b = "ctrl_a" /\ ~e
             on == [i \in 1..L + 2 |-> IF i = L + 2 THEN last ELSE st[i]]
  <1>1. L \in Nat /\ Len(t) = L + 1 /\ t[L + 1] = b /\ \A i \in 1..L : t[i] = s[i]
    OBVIOUS
  <1>2. /\ st \in [1..L + 1 -> BOOLEAN] /\ st[1] = FALSE /\ st[L + 1] = e
        /\ \A i \in 1..L : st[i + 1] = (s[i] = "ctrl_a" /\ ~st[i])
    BY DEF Escapes
  <1>3. last \in BOOLEAN
    OBVIOUS
  <1> HIDE DEF t, L, last
  <1>4. \A i \in 1..L + 2 : i = L + 2 \/ i \in 1..L + 1
    BY <1>1
  <1>5. on \in [1..L + 2 -> BOOLEAN] /\ on[L + 2] = last /\ \A i \in 1..L + 1 : on[i] = st[i]
    BY <1>1, <1>2, <1>3, <1>4
  <1> HIDE DEF on
  <1>6. ASSUME NEW i \in 1..L + 1 PROVE on[i + 1] = (t[i] = "ctrl_a" /\ ~on[i])
    <2>1. CASE i = L + 1
      <3>1. i + 1 = L + 2 /\ on[i] = e /\ t[i] = b
        BY <1>1, <1>2, <1>5, <2>1
      <3> QED  BY <1>5, <3>1 DEF last
    <2>2. CASE i \in 1..L
      <3>1. i + 1 \in 1..L + 1 /\ t[i] = s[i]
        BY <1>1, <2>2
      <3>2. on[i + 1] = st[i + 1] /\ on[i] = st[i]
        BY <1>5, <3>1
      <3> QED  BY <1>2, <2>2, <3>1, <3>2
    <2> QED  BY <1>1, <2>1, <2>2
  <1>7. 1 \in 1..L + 1 /\ (L + 1) + 1 = L + 2
    BY <1>1
  <1>8. Escapes(on, t, last)
    BY <1>1, <1>2, <1>5, <1>6, <1>7 DEF Escapes
  <1> QED  BY <1>8 DEF t, last

-----------------------------------------------------------------------------
\* The escape automaton is where the bytes typed have brought it, and what
\* they mean has arrived.
TypedInv ==
    /\ arch \in {"x86_64", "aarch64"} /\ is_escape \in BOOLEAN
    /\ typed \in Seq(Keys) /\ Len(typed) <= MaxTyped
    /\ rx \in Seq(Keys) /\ received \in Seq(Keys)
    /\ \E st : Escapes(st, typed, is_escape)
    /\ TypedArrives

LEMMA TypedInvInit == ConsolesInit => TypedInv
  <1> SUFFICES ASSUME ConsolesInit PROVE TypedInv
    OBVIOUS
  <1>1. /\ arch \in {"x86_64", "aarch64"} /\ is_escape = FALSE
        /\ typed = << >> /\ rx = << >> /\ received = << >>
    BY DEF ConsolesInit, ConsoleInit
  <1>2. << >> \in Seq(Keys) /\ Len(<< >>) = 0 /\ MaxTyped \in Nat
    BY MaxTypedAssumption
  <1>3. Escapes([i \in 1..1 |-> FALSE], << >>, FALSE)
    BY <1>2 DEF Escapes
  <1>4. MeantOf(<< >>)[1] = << >>
    <2> DEFINE none == << >>
    <2>1. none \in Seq(Keys) /\ Len(none) = 0 /\ Len(none) <= MaxTyped
          /\ MaxTyped \in Nat /\ 1 \in 1..MaxTyped + 2
      BY <1>2
    <2> HIDE DEF none
    <2>2. \A n \in 1..MaxTyped + 2 : MeantOf(none)[n] = MeantBody(MeantOf(none), none, n)
      BY <2>1, MeantUnfolds
    <2>3. MeantOf(none)[1] = << >>
      BY <2>1, <2>2 DEF MeantBody
    <2> QED  BY <2>3 DEF none
  <1>5. Meant[1] = << >>
    BY <1>1, <1>4, MeantIs
  <1>6. << >> \o << >> = << >>
    OBVIOUS
  <1>7. Within(<< >>, << >>)
    <2>1. << >> \in [DOMAIN << >> -> DOMAIN << >>] /\ DOMAIN << >> = {}
      OBVIOUS
    <2> QED  BY <2>1 DEF Within
  <1>8. TypedArrives
    <2>1. received \o rx = << >>
      BY <1>1, <1>6
    <2> QED  BY <1>5, <1>7, <2>1 DEF TypedArrives
  <1>9. \E st : Escapes(st, typed, is_escape)
    BY <1>1, <1>3
  <1>10. /\ typed \in Seq(Keys) /\ Len(typed) <= MaxTyped
         /\ rx \in Seq(Keys) /\ received \in Seq(Keys)
    BY <1>1, <1>2
  <1> QED  BY <1>1, <1>8, <1>9, <1>10 DEF TypedInv

\* Bytes only move from the UART to the guest.
LEMMA TypedKept ==
    ASSUME TypedInv, UNCHANGED <<arch, is_escape, typed>>,
           rx' \in Seq(Keys), received' \in Seq(Keys), received' \o rx' = received \o rx
    PROVE  TypedInv'
  <1>1. Meant' = Meant
    BY MeantIs
  <1>2. TypedArrives'
    BY <1>1 DEF TypedInv, TypedArrives
  <1> QED  BY <1>2 DEF TypedInv

\* A byte typed
LEMMA TypedByte ==
    ASSUME TypedInv, NEW b \in Keys, TtyByte(b), arch' = arch
    PROVE  TypedInv'
  <1> DEFINE M == MeantOf(typed)[1]
             got == received \o rx
  <1>1. /\ Len(typed) < MaxTyped /\ typed' = Append(typed, b)
        /\ is_escape' = (b = "ctrl_a" /\ ~is_escape)
        /\ received' = received
        /\ IF Passes(b) THEN SendChar(b) ELSE rx' = rx
    BY DEF TtyByte
  <1>2. /\ typed \in Seq(Keys) /\ rx \in Seq(Keys) /\ received \in Seq(Keys)
        /\ is_escape \in BOOLEAN /\ arch \in {"x86_64", "aarch64"} /\ MaxTyped \in Nat
    BY MaxTypedAssumption DEF TypedInv
  <1>3. PICK st : Escapes(st, typed, is_escape)
    BY DEF TypedInv
  <1>4. typed' \in Seq(Keys) /\ Len(typed') <= MaxTyped /\ is_escape' \in BOOLEAN
    BY <1>1, <1>2
  <1>5. \E on : Escapes(on, typed', is_escape')
    BY <1>1, <1>2, <1>3, EscapesOn
  <1>6. M \in Seq(Keys)
    BY <1>1, <1>2, MeantSeq
  <1>7. Meant[1] = M /\ Meant'[1] = M \o Sent(is_escape, b)
    BY <1>1, <1>2, <1>3, MeantIs, MeantAppends
  <1>8. IF arch = "x86_64" THEN got = M
        ELSE Within(got, M) /\ (M # << >> => got # << >> /\ got[Len(got)] = M[Len(M)])
    BY <1>7 DEF TypedInv, TypedArrives, Last
  <1> HIDE DEF M, got
  <1>9. CASE ~Passes(b)
    <2>1. rx' = rx /\ Sent(is_escape, b) = << >>
      BY <1>1, <1>9 DEF Passes, Sent
    <2>2. M \o << >> = M
      BY <1>6, ConcatEmptySeq
    <2>3. Meant'[1] = M /\ received' \o rx' = got
      BY <1>1, <1>7, <2>1, <2>2 DEF got
    <2>4. TypedArrives'
      BY <1>8, <2>3 DEF TypedArrives, Last
    <2> QED  BY <1>1, <1>2, <1>4, <1>5, <2>1, <2>4 DEF TypedInv
  <1>10. CASE Passes(b)
    <2>1. SendChar(b) /\ Sent(is_escape, b) = <<b>>
      BY <1>1, <1>10 DEF Passes, Sent
    <2>2. M \o <<b>> = Append(M, b) /\ Meant'[1] = Append(M, b)
      <3>1. M \o <<b>> = Append(M, b)
        BY <1>6, AppendIsConcat
      <3> QED  BY <1>7, <2>1, <3>1
    <2>3. CASE arch = "x86_64"
      <3>1. rx' = Append(rx, b)
        BY <2>1, <2>3 DEF SendChar, UartSendChar
      <3>2. rx' \in Seq(Keys)
        BY <1>2, <3>1
      <3>3. received \o Append(rx, b) = Append(received \o rx, b)
        <4>1. <<b>> \in Seq(Keys) /\ received \o rx \in Seq(Keys)
          BY <1>2, ConcatProperties
        <4>2. Append(rx, b) = rx \o <<b>> /\ Append(received \o rx, b) = (received \o rx) \o <<b>>
          BY <1>2, <4>1, AppendIsConcat
        <4>3. (received \o rx) \o <<b>> = received \o (rx \o <<b>>)
          BY <1>2, <4>1, ConcatAssociative
        <4> QED  BY <4>2, <4>3
      <3>4. received' \o rx' = Meant'[1]
        BY <1>1, <1>8, <2>2, <2>3, <3>1, <3>3 DEF got
      <3>5. TypedArrives'
        BY <2>3, <3>4 DEF TypedArrives
      <3> QED  BY <1>1, <1>2, <1>4, <1>5, <3>2, <3>5 DEF TypedInv
    <2>4. CASE arch = "aarch64"
      <3>1. rx' = <<b>> /\ rx' \in Seq(Keys)
        <4>1. rx' = <<b>>
          BY <2>1, <2>4 DEF SendChar, Pl011SendChar
        <4>2. <<b>> \in Seq(Keys)
          OBVIOUS
        <4> QED  BY <4>1, <4>2
      <3>2. received' \o rx' = Append(received, b)
        <4>1. received \o <<b>> = Append(received, b)
          BY <1>2, AppendIsConcat
        <4> QED  BY <1>1, <3>1, <4>1
      <3>3. Within(Append(received, b), Append(M, b))
        BY <1>2, <1>6, <1>8, <2>4, WithinAppend DEF got
      <3> DEFINE A == Append(received, b)
                 B == Append(M, b)
      <3>4. A # << >> /\ A[Len(A)] = b /\ B[Len(B)] = b
        BY <1>2, <1>6, AppendProperties
      <3>5. Meant'[1] = B /\ received' \o rx' = A
        BY <2>2, <3>2
      <3>6. Within(A, B)
        BY <3>3
      <3> HIDE DEF A, B
      <3>7. TypedArrives'
        BY <2>4, <3>4, <3>5, <3>6 DEF TypedArrives, Last
      <3> QED  BY <1>1, <1>2, <1>4, <1>5, <3>1, <3>7 DEF TypedInv
    <2> QED  BY <1>2, <2>3, <2>4
  <1> QED  BY <1>9, <1>10

LEMMA TypedInvNext == TypedInv /\ [ConsolesNext]_consolesVars => TypedInv'
  <1> SUFFICES ASSUME TypedInv, [ConsolesNext]_consolesVars PROVE TypedInv'
    OBVIOUS
  <1>1. rx \in Seq(Keys) /\ received \in Seq(Keys)
    BY DEF TypedInv
  <1>2. CASE UNCHANGED <<arch, is_escape, typed, rx, received>>
    BY <1>1, <1>2, TypedKept
  <1>3. ASSUME NEW b \in Keys, TtyByte(b), arch' = arch PROVE TypedInv'
    BY <1>3, TypedByte
  <1>4. CASE ReadRbr /\ arch' = arch
    <2>1. /\ rx # << >> /\ rx' = Tail(rx) /\ received' = Append(received, Head(rx))
          /\ UNCHANGED <<arch, is_escape, typed>>
      BY <1>4 DEF ReadRbr, ttyVars
    <2>2. Head(rx) \in Keys /\ rx' \in Seq(Keys) /\ received' \in Seq(Keys)
      BY <1>1, <2>1
    <2>3. received' \o rx' = received \o rx
      <3>1. <<Head(rx)>> \in Seq(Keys) /\ Tail(rx) \in Seq(Keys)
        BY <1>1, <2>1, <2>2
      <3>2. received' = received \o <<Head(rx)>>
        BY <1>1, <2>1, <2>2, AppendIsConcat
      <3>3. (received \o <<Head(rx)>>) \o Tail(rx) = received \o (<<Head(rx)>> \o Tail(rx))
        BY <1>1, <3>1, ConcatAssociative
      <3>4. <<Head(rx)>> \o Tail(rx) = rx
        BY <1>1, <2>1
      <3> QED  BY <2>1, <3>2, <3>3, <3>4
    <2> QED  BY <2>1, <2>2, <2>3, TypedKept
  <1>5. CASE ReadDr /\ arch' = arch
    <2>1. /\ rx' = << >> /\ received' = received \o rx
          /\ UNCHANGED <<arch, is_escape, typed>>
      BY <1>5 DEF ReadDr, ttyVars
    <2>2. received \o rx \in Seq(Keys) /\ << >> \in Seq(Keys)
      BY <1>1, ConcatProperties
    <2>3. (received \o rx) \o << >> = received \o rx
      BY <2>2, ConcatEmptySeq
    <2> QED  BY <2>1, <2>2, <2>3, TypedKept
  <1>6. CASE TtyEnd /\ arch' = arch
    BY <1>2, <1>6 DEF TtyEnd
  <1>7. CASE UartStep /\ arch' = arch
    BY <1>2, <1>4, <1>7 DEF UartStep, WriteThr, WriteIer, WriteMcr, ReadIir,
                            Enter, UartReturn, Return, ttyVars
  <1>8. CASE Pl011Step /\ arch' = arch
    BY <1>2, <1>5, <1>8 DEF Pl011Step, WriteImsc, WriteIcr, Enter, Pl011Return,
                            Return, ttyVars
  <1>9. CASE UNCHANGED consolesVars
    BY <1>2, <1>9 DEF consolesVars, consoleVars, ttyVars
  <1> QED  BY <1>3, <1>6, <1>7, <1>8, <1>9 DEF ConsolesNext, Tty

\* What is typed arrives, for any number of bytes and whatever the guest does
\* with the UART meanwhile (start_tty, send_char).
THEOREM TypedArrivesCorrect == ConsolesSpec => []TypedArrives
  <1>1. TypedInv => TypedArrives
    BY DEF TypedInv
  <1> QED  BY <1>1, TypedInvInit, TypedInvNext, PTL DEF ConsolesSpec
=============================================================================
